------------------------ MODULE CredentialValidation ------------------------
(***************************************************************************)
(* ValidateCredential (connector.go): a tenant token and then the bot's    *)
(* information are asked for, a second time after a failure that may pass; *)
(* the error classes of internal/lark/errors.go decide what the host is    *)
(* told.  The credential may be revoked and repaired meanwhile.            *)
(*                                                                         *)
(* The client of the call keeps the token of the first attempt.  Whether   *)
(* it is asked for again depends on how long it lives: TenantAccessToken-  *)
(* WithExpiry counts from the moment the call began, BotInfo from now.     *)
(***************************************************************************)
EXTENDS RuntimeAccounts, Faults

CONSTANT Attempts   \* credentialValidationAttempts (2 in the code)

ASSUME AttemptsAssumption == Attempts \in Nat \ {0}

VARIABLES
    quality,  \* what the platform makes of each account's credential
    check     \* the latest call of ValidateCredential for each account

validationVars == <<quality, check, faults>>

Qualities == {"good", "refused", "incomplete"}

\* A token that lives long enough for both clocks, for none, or ("brink")
\* only as seen from the beginning of the call.
Lives == {"long", "brink", "short"}

-----------------------------------------------------------------------------
(* Errors                                                                  *)

Answer(code) == [kind |-> "answer", status |-> "ok", code |-> code]
HTTPError(status, code) == [kind |-> "http", status |-> status, code |-> code]
Plain(kind) == [kind |-> kind, status |-> "none", code |-> "none"]

\* status: 401 or 403 ("auth"), 408, 429 or 5xx ("busy"), or another; code: the
\* class of the code in the body, if there is one.
Refusals ==
    {Answer("rejected"), HTTPError("auth", "none"), HTTPError("other", "rejected")}

\* The platform cannot say, or its answer does not arrive.
Disturbances ==
    {Answer("transient"), Answer("other"), HTTPError("busy", "none"),
     HTTPError("other", "transient"), HTTPError("other", "none"),
     Plain("network"), Plain("garbled"), Plain("canceled")}

Missing == Plain("missing")   \* no app_id or no app_secret
NoError == Plain("none")

Errors == Refusals \cup Disturbances \cup {Missing, NoError}

\* Mutant of IsCredentialRejected: every answer with a code is a rejection.
IsAnyAnswerRejected(e) ==
    \/ e.kind \in {"missing", "answer"}
    \/ e.kind = "http" /\ (e.status = "auth" \/ e.code = "rejected")

IsCredentialRejected(e) ==
    \/ e.kind = "missing"
    \/ e.kind = "answer" /\ e.code = "rejected"
    \/ e.kind = "http" /\ (e.status = "auth" \/ e.code = "rejected")

\* An answer that does not parse or lacks what was asked for is transient.
IsRetryableError(e) ==
    \/ e.kind \in {"network", "garbled"}
    \/ e.kind = "answer" /\ e.code = "transient"
    \/ e.kind = "http" /\ (e.status = "busy" \/ e.code = "transient")

-----------------------------------------------------------------------------

CheckSteps == {"idle", "token", "info", "ask", "failed", "wait", "done"}

\* complete: the call's copy of the credential is; held: the client's token;
\* seen, troubles, fatal: the qualities, the passing and the other disturbances
\* of the call, which only the properties read.
Checks ==
    [step : CheckSteps, attempt : 1..Attempts, complete : BOOLEAN,
     held : Lives \cup {"none"}, error : Errors,
     verdict : {"none", "valid", "rejected", "failed"},
     seen : SUBSET Qualities, troubles : 0..Attempts, fatal : BOOLEAN]

ValidationTypeOK ==
    /\ quality \in [Candidates -> Qualities]
    /\ check \in [Candidates -> Checks]

NewCheck(step, complete, seen) ==
    [step |-> step, attempt |-> 1, complete |-> complete, held |-> "none",
     error |-> NoError, verdict |-> "none", seen |-> seen, troubles |-> 0,
     fatal |-> FALSE]

ValidationInit ==
    /\ quality \in [Candidates -> {"good", "incomplete"}]
    /\ check = [i \in Candidates |-> NewCheck("idle", FALSE, {})]

CheckAt(i, step) == check[i].step = step

-----------------------------------------------------------------------------
(* The platform and the host                                               *)

Seeing(i, q) ==
    check' = [check EXCEPT ![i].seen =
                  IF check[i].step \in {"idle", "done"} THEN @ ELSE @ \cup {q}]

Revoke(i) ==
    /\ quality[i] = "good"
    /\ Fault
    /\ quality' = [quality EXCEPT ![i] = "refused"]
    /\ Seeing(i, "refused")

\* The credential is completed, or the platform accepts it again.
Repair(i) ==
    /\ quality[i] # "good"
    /\ quality' = [quality EXCEPT ![i] = "good"]
    /\ Seeing(i, "good")
    /\ UNCHANGED faults

\* The host validates an account until the credential is found valid.
ValidateCredential(i) ==
    /\ check[i].step \in {"idle", "done"}
    /\ check[i].verdict # "valid"
    /\ check' = [check EXCEPT ![i] =
                     NewCheck("token", quality[i] # "incomplete", {quality[i]})]
    /\ UNCHANGED <<quality, faults>>

-----------------------------------------------------------------------------
(* validateLarkCredential                                                  *)

\* TenantAccessTokenWithExpiry with the first attempt's clock.
ReuseToken(i) ==
    /\ CheckAt(i, "token")
    /\ check[i].held \in {"long", "brink"}
    /\ check' = [check EXCEPT ![i].step = "info"]
    /\ UNCHANGED <<quality, faults>>

\* The token request of an attempt, or the one BotInfo makes for itself.
AsksForToken(i) ==
    \/ CheckAt(i, "token") /\ check[i].held \notin {"long", "brink"}
    \/ CheckAt(i, "info") /\ check[i].held # "long"

LacksCredential(i) ==
    /\ AsksForToken(i)
    /\ ~check[i].complete
    /\ check' = [check EXCEPT ![i].step = "failed", ![i].error = Missing]
    /\ UNCHANGED <<quality, faults>>

\* A request to the platform is under way.
Requesting(i) == (AsksForToken(i) /\ check[i].complete) \/ CheckAt(i, "ask")

GetToken(i, life) ==
    /\ AsksForToken(i)
    /\ check[i].complete
    /\ quality[i] # "refused"
    /\ check' = [check EXCEPT ![i].held = life,
                     ![i].step = IF check[i].step = "token" THEN "info" ELSE "ask"]
    /\ UNCHANGED <<quality, faults>>

\* BotInfo finds the client's token usable.
UseToken(i) ==
    /\ CheckAt(i, "info")
    /\ check[i].held = "long"
    /\ check' = [check EXCEPT ![i].step = "ask"]
    /\ UNCHANGED <<quality, faults>>

Concluded(i, verdict) ==
    [check[i] EXCEPT !.step = "done", !.held = "none", !.error = NoError,
                     !.verdict = verdict]

BotInfo(i) ==
    /\ CheckAt(i, "ask")
    /\ quality[i] # "refused"
    /\ check' = [check EXCEPT ![i] = Concluded(i, "valid")]
    /\ UNCHANGED <<quality, faults>>

Refuse(i, e) ==
    /\ Requesting(i)
    /\ quality[i] = "refused"
    /\ check' = [check EXCEPT ![i].step = "failed", ![i].error = e]
    /\ UNCHANGED <<quality, faults>>

Disturb(i, e) ==
    /\ Requesting(i)
    /\ Fault
    /\ check' = [check EXCEPT ![i].step = "failed", ![i].error = e,
                     ![i].troubles = IF IsRetryableError(e) THEN @ + 1 ELSE @,
                     ![i].fatal = @ \/ ~IsRetryableError(e)]
    /\ UNCHANGED quality

\* Mutant of GivesUp: an attempt too many.
GivesUpLate(i) ==
    \/ IsCredentialRejected(check[i].error)
    \/ ~IsRetryableError(check[i].error)
    \/ check[i].attempt > Attempts

\* The loop ends: rejected, not worth another try, or the last attempt.
GivesUp(i) ==
    \/ IsCredentialRejected(check[i].error)
    \/ ~IsRetryableError(check[i].error)
    \/ check[i].attempt = Attempts

TryAgain(i) ==
    /\ CheckAt(i, "failed")
    /\ ~GivesUp(i)
    /\ check' = [check EXCEPT ![i].step = "wait", ![i].error = NoError]
    /\ UNCHANGED <<quality, faults>>

\* A rejection is a result that says so, every other failure an error.
Conclude(i) ==
    /\ CheckAt(i, "failed")
    /\ GivesUp(i)
    /\ check' = [check EXCEPT ![i] =
           Concluded(i, IF IsCredentialRejected(check[i].error)
                        THEN "rejected" ELSE "failed")]
    /\ UNCHANGED <<quality, faults>>

WaitForRetry(i) ==
    /\ CheckAt(i, "wait")
    /\ check' = [check EXCEPT ![i].step = "token", ![i].attempt = @ + 1]
    /\ UNCHANGED <<quality, faults>>

\* The context is cancelled while the call waits.
CancelWait(i) ==
    /\ CheckAt(i, "wait")
    /\ Fault
    /\ check' = [check EXCEPT ![i] = [Concluded(i, "failed") EXCEPT !.fatal = TRUE]]
    /\ UNCHANGED quality

CheckStep(i) ==
    \/ ReuseToken(i) \/ LacksCredential(i) \/ UseToken(i) \/ BotInfo(i)
    \/ \E life \in Lives : GetToken(i, life)
    \/ \E e \in Refusals : Refuse(i, e)
    \/ TryAgain(i) \/ Conclude(i) \/ WaitForRetry(i)

ValidationNext ==
    \E i \in Candidates :
        \/ Revoke(i) \/ Repair(i) \/ ValidateCredential(i)
        \/ CheckStep(i) \/ CancelWait(i)
        \/ \E e \in Disturbances : Disturb(i, e)

ValidationSpec ==
    ValidationInit /\ FaultsInit /\ [][ValidationNext]_validationVars

-----------------------------------------------------------------------------

\* What the host is told of a credential is what the platform thought of it
\* at some moment of the call, although the call reuses tokens, tries again
\* and may see it revoked or repaired: "valid" only if it was good, "rejected"
\* only if it was refused or incomplete.  An error instead of a verdict takes
\* as many passing disturbances as there are attempts, or one that trying
\* again does not help.
VerdictIsThePlatforms ==
    \A i \in Candidates :
        LET c == check[i]
        IN  /\ c.verdict = "valid" => "good" \in c.seen
            /\ c.verdict = "rejected" => c.seen \cap {"refused", "incomplete"} # {}
            /\ c.verdict = "failed" => c.troubles = Attempts \/ c.fatal
=============================================================================
