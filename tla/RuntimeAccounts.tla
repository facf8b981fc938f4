--------------------------- MODULE RuntimeAccounts ---------------------------
(***************************************************************************)
(* Which bot account a call works for (connector.go): the accounts of an   *)
(* sdk.Runtime, the ones Start goes through, and the one that the id of an *)
(* outbound message selects.                                               *)
(***************************************************************************)
EXTENDS Integers, FiniteSets

CONSTANTS
    Runtime,  \* Runtime.Account followed by Runtime.Accounts
    NoId      \* an id that is not configured, or blank

\* bot: what the credential tells of the bot: an id of it, its name, nothing.
ASSUME RuntimeAssumption ==
    /\ DOMAIN Runtime \in SUBSET (Nat \ {0}) /\ IsFiniteSet(DOMAIN Runtime)
    /\ \A i \in DOMAIN Runtime : Runtime[i].bot \in {"id", "name", "none"}

Ids(account) == {account.uuid, account.accountId, account.appId}

\* accountKey: the first of its ids that is configured.
AccountKey(account) ==
    IF account.uuid # NoId THEN account.uuid
    ELSE IF account.accountId # NoId THEN account.accountId
    ELSE account.appId

\* runtimeAccountCandidates, as places in Runtime: those with a key that no
\* earlier account has.
Candidates ==
    {i \in DOMAIN Runtime :
        /\ AccountKey(Runtime[i]) # NoId
        /\ \A j \in DOMAIN Runtime :
               j < i => AccountKey(Runtime[j]) # AccountKey(Runtime[i])}

Earliest(places) == {i \in places : \A j \in places : i <= j}

\* selectRuntimeAccount, {} for its errors: the first account with that id;
\* without an id the only account there is.
SelectRuntimeAccount(id) ==
    IF id # NoId THEN Earliest({i \in Candidates : id \in Ids(Runtime[i])})
    ELSE {i \in Candidates : Candidates = {i}}
=============================================================================
