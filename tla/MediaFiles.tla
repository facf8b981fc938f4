------------------------------ MODULE MediaFiles ------------------------------
(***************************************************************************)
(* The files behind media: temporary copies of the resources of an inbound *)
(* message (downloadLarkAttachments, DownloadMessageResource), temporary   *)
(* copies of outbound attachments given by URL (DownloadURL), and the file *)
(* the host gives by path, all read by UploadMedia or by the gateway.      *)
(*                                                                         *)
(* A file is its size: all that the code's checks tell apart.  A call is   *)
(* an inbound event or a Send; what it asks the platform may always fail.  *)
(* Outbound has the messages sent and their order.                         *)
(***************************************************************************)
EXTENDS Integers, Sequences, SequencesExt, FiniteSetsExt

CONSTANTS
    Calls,
    Temps,            \* names os.CreateTemp may choose
    NoTemp,           \* no name
    Messages,         \* message contents: [walked, own], see Descriptors
    Batches,          \* sequences of outbound attachments: [source, image, size]
    SizeOf,           \* the size of each resource of a message
    HostSizes,        \* sizes that the host's file may have
    MaxMedia,         \* maxMediaBytes
    MaxImageUpload,   \* maxImageUploadBytes
    MaxFileUpload,    \* maxFileUploadBytes
    MaxRewrites       \* bound on the host's changes to its file

ASSUME MediaAssumption ==
    /\ NoTemp \notin Temps
    /\ {MaxMedia, MaxImageUpload, MaxFileUpload, MaxRewrites} \subseteq Nat
    /\ HostSizes \subseteq Nat
    /\ Range(SizeOf) \subseteq Nat

VARIABLES
    disk,      \* the size of each temporary file, Absent if there is none
    hostFile,  \* the size of the file whose path the host gives
    rewrites,  \* how often the host changed it
    call,      \* what each call is doing
    uploaded   \* every upload: what was sent of which file

vars == <<disk, hostFile, rewrites, call, uploaded>>

Absent == -1

Steps == {"idle", "next", "body", "copy", "check", "stat", "read", "message",
          "gateway"}

TypeOK ==
    /\ disk \in [Temps -> Absent..(MaxMedia + 1)]
    /\ hostFile \in HostSizes
    /\ rewrites \in 0..MaxRewrites
    /\ \A c \in Calls :
           /\ call[c].step \in Steps /\ call[c].inbound \in BOOLEAN
           /\ call[c].temp \in Temps \cup {NoTemp}
           /\ \A i \in DOMAIN call[c].given : call[c].given[i].file \in Temps
    /\ \A u \in uploaded : u.bytes \in Nat

IdleCall ==
    [step |-> "idle", inbound |-> FALSE, rest |-> <<>>, temp |-> NoTemp,
     given |-> <<>>]

Init ==
    /\ disk = [f \in Temps |-> Absent]
    /\ hostFile \in HostSizes
    /\ rewrites = 0
    /\ call = [c \in Calls |-> IdleCall]
    /\ uploaded = {}

-----------------------------------------------------------------------------
(* Helpers                                                                 *)

At(c, step) == call[c].step = step

\* The part a call is at: a descriptor [kind, id] or an attachment.
Part(c) == Head(call[c].rest)

\* An attachment with a path is uploaded from there, whatever its URL.
FromPath(c) == ~call[c].inbound /\ Part(c).source = "path"

\* larkMediaDescriptors: what the walk of the content meets, then the resource
\* of a media message itself; the first of equal ones, and none without an id.
Descriptors(message) ==
    FoldLeft(LAMBDA ds, d : IF d.id = "" \/ Contains(ds, d) THEN ds
                            ELSE Append(ds, d),
             <<>>, message.walked \o message.own)

\* The resources of messages and the attachments of batches.
Resources == UNION {Range(Descriptors(m)) : m \in Messages}
Attachments == UNION {Range(b) : b \in Batches}

\* Each resource has a size.
ASSUME MediaInputs ==
    /\ \A m \in Messages : \A s \in {m.walked, m.own} : s \in Seq(Range(s))
    /\ \A d \in Resources : d.id \in DOMAIN SizeOf
    /\ Batches \subseteq Seq(Attachments)
    /\ \A a \in Attachments : a.size \in Nat

\* Mutant of LimitReader: not one byte more than allowed is read.
LimitReaderExact(size, limit) == Min({size, limit})

\* Mutant of LimitReader: everything is read.
LimitReaderNone(size, limit) == size

\* io.LimitReader(r, limit+1): one byte more tells that there is too much.
LimitReader(size, limit) == Min({size, limit + 1})

Limit(image) == IF image THEN MaxImageUpload ELSE MaxFileUpload

\* The size of what the platform or the URL gives for the part.
Offered(c) == IF call[c].inbound THEN SizeOf[Part(c).id] ELSE Part(c).size

\* The size, at this moment, of the file that is uploaded.
Size(c) == IF call[c].temp = NoTemp THEN hostFile ELSE disk[call[c].temp]

Removed(files) == [f \in Temps |-> IF f \in files THEN Absent ELSE disk[f]]

Given(c) == {call[c].given[i].file : i \in DOMAIN call[c].given}

\* The call with its part done or given up.
NextPart(c) ==
    [call[c] EXCEPT !.step = "next", !.rest = Tail(call[c].rest), !.temp = NoTemp]

-----------------------------------------------------------------------------
(* Downloads                                                               *)

BeginInbound(c, message) ==
    /\ At(c, "idle")
    /\ call' = [call EXCEPT ![c] = [IdleCall EXCEPT
           !.step = "next", !.inbound = TRUE, !.rest = Descriptors(message)]]
    /\ UNCHANGED <<disk, hostFile, rewrites, uploaded>>

\* Send reaches its attachments.
BeginOutbound(c, batch) ==
    /\ At(c, "idle")
    /\ call' = [call EXCEPT ![c] = [IdleCall EXCEPT !.step = "next", !.rest = batch]]
    /\ UNCHANGED <<disk, hostFile, rewrites, uploaded>>

\* The platform or the URL answers with a body.
Request(c) ==
    /\ At(c, "next")
    /\ call[c].rest # <<>>
    /\ ~FromPath(c)
    /\ call' = [call EXCEPT ![c].step = "body"]
    /\ UNCHANGED <<disk, hostFile, rewrites, uploaded>>

\* Validation, the token, the request or os.CreateTemp fails: no file yet.
PartFails(c) ==
    /\ (At(c, "next") /\ call[c].rest # <<>>) \/ At(c, "body")
    /\ call' = [call EXCEPT ![c] = NextPart(c)]
    /\ UNCHANGED <<disk, hostFile, rewrites, uploaded>>

CreateTemp(c, f) ==
    /\ At(c, "body")
    /\ disk[f] = Absent
    /\ disk' = [disk EXCEPT ![f] = 0]
    /\ call' = [call EXCEPT ![c].step = "copy", ![c].temp = f]
    /\ UNCHANGED <<hostFile, rewrites, uploaded>>

Copy(c) ==
    /\ At(c, "copy")
    /\ disk' = [disk EXCEPT ![call[c].temp] = LimitReader(Offered(c), MaxMedia)]
    /\ call' = [call EXCEPT ![c].step = "check"]
    /\ UNCHANGED <<hostFile, rewrites, uploaded>>

\* Mutant of Discard: an error returns without the cleanup.
DiscardKeepingFile(c) ==
    /\ call[c].step \in {"copy", "check"}
    /\ call' = [call EXCEPT ![c] = NextPart(c)]
    /\ UNCHANGED <<disk, hostFile, rewrites, uploaded>>

\* The copy breaks off, the file is too large, or Stat or Close fails.
Discard(c) ==
    /\ call[c].step \in {"copy", "check"}
    /\ disk' = Removed({call[c].temp})
    /\ call' = [call EXCEPT ![c] = NextPart(c)]
    /\ UNCHANGED <<hostFile, rewrites, uploaded>>

\* The file is the part's: an attachment for the gateway, or to be uploaded.
Keep(c) ==
    /\ At(c, "check")
    /\ disk[call[c].temp] <= MaxMedia
    /\ call' = [call EXCEPT ![c] =
           IF call[c].inbound
           THEN [NextPart(c) EXCEPT !.given =
                     Append(@, [file |-> call[c].temp, id |-> Part(c).id])]
           ELSE [call[c] EXCEPT !.step = "stat"]]
    /\ UNCHANGED <<disk, hostFile, rewrites, uploaded>>

-----------------------------------------------------------------------------
(* Uploads, and what the files are for                                     *)

\* sendLarkAttachment has nothing to download.
UsePath(c) ==
    /\ At(c, "next")
    /\ call[c].rest # <<>>
    /\ FromPath(c)
    /\ call' = [call EXCEPT ![c].step = "stat"]
    /\ UNCHANGED <<disk, hostFile, rewrites, uploaded>>

\* UploadMedia's os.Stat: refuses an empty or too large file.
Stat(c) ==
    /\ At(c, "stat")
    /\ Size(c) \in 1..Limit(Part(c).image)
    /\ call' = [call EXCEPT ![c].step = "read"]
    /\ UNCHANGED <<disk, hostFile, rewrites, uploaded>>

\* Mutant of Read: the size that Stat saw is relied on.
ReadUnchecked(c) ==
    /\ At(c, "read")
    /\ LET bytes == LimitReader(Size(c), Limit(Part(c).image))
       IN  uploaded' = uploaded \cup
               {[bytes |-> bytes, size |-> Size(c), image |-> Part(c).image]}
    /\ call' = [call EXCEPT ![c].step = "message"]
    /\ UNCHANGED <<disk, hostFile, rewrites>>

\* The file is read into the request and the request is made; the host may
\* have changed its file since Stat, so what was read is checked again.
Read(c) ==
    /\ At(c, "read")
    /\ LET bytes == LimitReader(Size(c), Limit(Part(c).image))
       IN  /\ bytes \in 1..Limit(Part(c).image)
           /\ uploaded' = uploaded \cup
                  {[bytes |-> bytes, size |-> Size(c), image |-> Part(c).image]}
    /\ call' = [call EXCEPT ![c].step = "message"]
    /\ UNCHANGED <<disk, hostFile, rewrites>>

\* sendLarkAttachment returns, successfully or not at any point after it had
\* its file; the deferred cleanup removes the copy of a URL.
EndPart(c) ==
    /\ call[c].step \in {"stat", "read", "message"}
    /\ disk' = Removed({call[c].temp})
    /\ call' = [call EXCEPT ![c] = NextPart(c)]
    /\ UNCHANGED <<hostFile, rewrites, uploaded>>

\* All is downloaded, and processMessageEvent calls the gateway.
Dispatch(c) ==
    /\ At(c, "next") /\ call[c].rest = <<>> /\ call[c].inbound
    /\ call' = [call EXCEPT ![c].step = "gateway"]
    /\ UNCHANGED <<disk, hostFile, rewrites, uploaded>>

\* Mutant of Return: the last file only.
ReturnRemovingLast(c) ==
    /\ \/ At(c, "gateway")
       \/ At(c, "next") /\ call[c].rest = <<>>
    /\ disk' = Removed(IF call[c].given = <<>> THEN {}
                       ELSE {Last(call[c].given).file})
    /\ call' = [call EXCEPT ![c] = IdleCall]
    /\ UNCHANGED <<hostFile, rewrites, uploaded>>

\* The handler returns, from the gateway or before (an ignored message, a
\* duplicate), and its deferred cleanup removes all it downloaded; or Send is
\* done with its attachments.
Return(c) ==
    /\ \/ At(c, "gateway")
       \/ At(c, "next") /\ call[c].rest = <<>>
    /\ disk' = Removed(Given(c))
    /\ call' = [call EXCEPT ![c] = IdleCall]
    /\ UNCHANGED <<hostFile, rewrites, uploaded>>

\* The host changes the file it gave the path of.
Rewrite(size) ==
    /\ rewrites < MaxRewrites
    /\ rewrites' = rewrites + 1
    /\ hostFile' = size
    /\ UNCHANGED <<disk, call, uploaded>>

Proceed(c) ==
    \/ Request(c) \/ PartFails(c) \/ \E f \in Temps : CreateTemp(c, f)
    \/ Copy(c) \/ Discard(c) \/ Keep(c)
    \/ UsePath(c) \/ Stat(c) \/ Read(c) \/ EndPart(c)
    \/ Dispatch(c) \/ Return(c)

Next ==
    \/ \E c \in Calls : \/ Proceed(c)
                        \/ \E m \in Messages : BeginInbound(c, m)
                        \/ \E b \in Batches : BeginOutbound(c, b)
    \/ \E s \in HostSizes : Rewrite(s)

\* Requests time out and the gateway returns: a call that began goes on.
Spec == Init /\ [][Next]_vars /\ \A c \in Calls : WF_vars(Proceed(c))

-----------------------------------------------------------------------------
(* Properties                                                              *)

Owned(c) == Given(c) \cup ({call[c].temp} \ {NoTemp})

\* The temporary files on disk are those of calls under way, each of one call:
\* no path out of a download, an upload or a handler leaves a file behind, and
\* none is removed under its user.
FilesOwned ==
    /\ {f \in Temps : disk[f] # Absent} = UNION {Owned(c) : c \in Calls}
    /\ \A c, d \in Calls : c # d => Owned(c) \cap Owned(d) = {}

\* While the gateway handles an inbound message, each of its attachments has a
\* file of its own that holds the whole resource.
GatewayReadsWhole ==
    \A c \in Calls : At(c, "gateway") =>
        /\ \A i \in DOMAIN call[c].given :
               LET a == call[c].given[i]
               IN  disk[a.file] = SizeOf[a.id] /\ disk[a.file] <= MaxMedia
        /\ Cardinality(Given(c)) = Len(call[c].given)

\* What is uploaded is a whole file, neither empty nor larger than allowed,
\* though the host changes its file between the check and the read.
UploadsWhole ==
    \A u \in uploaded : u.bytes = u.size /\ u.bytes \in 1..Limit(u.image)

\* Every temporary file is removed in the end.
FilesReleased == \A f \in Temps : disk[f] # Absent ~> disk[f] = Absent
=============================================================================
