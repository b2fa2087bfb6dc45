------------------------------- MODULE RawStore -------------------------------
(***************************************************************************)
(* The publish protocol of RawStore (fpl_engine/data/raw_store.py).        *)
(*                                                                         *)
(* Threads and processes store and read snapshots in one directory tree.   *)
(* A snapshot identity is a hash of everything in its two files, so calls  *)
(* with the same identity carry the same bytes and meet in the same        *)
(* directory.  One action below is one system call of a store or read; any *)
(* of them may raise, and a process may die between any two of them.       *)
(***************************************************************************)
EXTENDS Naturals, FiniteSets

CONSTANTS
  Snapshots,   \* snapshot identities
  Writers,     \* threads that call store_json or store_bytes
  Readers,     \* threads that call read_bytes or verify_snapshot
  NoSnapshot,  \* no call in progress
  MaxCalls     \* bound: store calls begun

ASSUME RawStoreAssumption ==
  /\ NoSnapshot \notin Snapshots
  /\ MaxCalls \in Nat

VARIABLES
  dirs,       \* snapshot directories that exist
  files,      \* the files linked into each of them
  pc, job,    \* per writer: next step and snapshot of its call
  published,  \* per writer: what this call has linked ("published")
  result,     \* per writer: how its last call ended
  receipts,   \* how many calls have returned a snapshot's receipt
  calls,      \* store calls begun
  rpc, rjob   \* per reader: next step and snapshot read

writerVars == <<pc, job, published, result, calls>>
readerVars == <<rpc, rjob>>
vars == <<dirs, files, receipts, writerVars, readerVars>>

-----------------------------------------------------------------------------
Files == {"payload", "metadata"}

\* The steps of _publish, in its order.
Steps == {"reserve", "stage", "payload", "metadata", "unstage", "unlink", "rmdir"}

Results == {"none", "receipt", "exists", "write_error", "died"}

Published(s) == files[s] = Files

\* The steps between a successful mkdir and the end of the call.
Owning == Steps \ {"reserve"}

Owners(s) == {w \in Writers : job[w] = s /\ pc[w] \in Owning}

TypeOK ==
  /\ dirs \subseteq Snapshots
  /\ files \in [Snapshots -> SUBSET Files]
  /\ pc \in [Writers -> Steps \cup {"idle"}]
  /\ job \in [Writers -> Snapshots \cup {NoSnapshot}]
  /\ published \in [Writers -> SUBSET Files]
  /\ result \in [Writers -> Results]
  /\ receipts \in [Snapshots -> Nat]
  /\ calls \in 0..MaxCalls
  /\ rpc \in [Readers -> {"idle", "payload", "served", "rejected"}]
  /\ rjob \in [Readers -> Snapshots \cup {NoSnapshot}]

Init ==
  /\ dirs = {}
  /\ files = [s \in Snapshots |-> {}]
  /\ pc = [w \in Writers |-> "idle"]
  /\ job = [w \in Writers |-> NoSnapshot]
  /\ published = [w \in Writers |-> {}]
  /\ result = [w \in Writers |-> "none"]
  /\ receipts = [s \in Snapshots |-> 0]
  /\ calls = 0
  /\ rpc = [r \in Readers |-> "idle"]
  /\ rjob = [r \in Readers |-> NoSnapshot]

-----------------------------------------------------------------------------
(* Storing *)

Goto(w, step) == pc' = [pc EXCEPT ![w] = step]

Return(w, r) ==
  /\ Goto(w, "idle")
  /\ result' = [result EXCEPT ![w] = r]

\* _store computes the identity; nothing is written before _publish.
BeginStore(w, s) ==
  /\ pc[w] = "idle"
  /\ calls < MaxCalls
  /\ calls' = calls + 1
  /\ Goto(w, "reserve")
  /\ job' = [job EXCEPT ![w] = s]
  /\ published' = [published EXCEPT ![w] = {}]
  /\ result' = [result EXCEPT ![w] = "none"]
  /\ UNCHANGED <<dirs, files, receipts, readerVars>>

\* Defects: an existing directory is accepted (exist_ok), taken over when it is
\* incomplete, or taken for an earlier success of the same call.
Reserve_ExistOk(w) ==
  /\ pc[w] = "reserve"
  /\ Goto(w, "stage")
  /\ dirs' = dirs \cup {job[w]}
  /\ UNCHANGED <<files, job, published, result, receipts, calls, readerVars>>

Reserve_TakesOver(w) ==
  /\ pc[w] = "reserve"
  /\ IF Published(job[w])
     THEN Return(w, "exists") /\ UNCHANGED dirs
     ELSE Goto(w, "stage") /\ dirs' = dirs \cup {job[w]} /\ UNCHANGED result
  /\ UNCHANGED <<files, job, published, receipts, calls, readerVars>>

Reserve_Idempotent(w) ==
  /\ pc[w] = "reserve"
  /\ IF Published(job[w])
     THEN /\ Return(w, "receipt")
          /\ receipts' = [receipts EXCEPT ![job[w]] = @ + 1]
          /\ UNCHANGED dirs
     ELSE /\ IF job[w] \in dirs
             THEN Return(w, "exists") /\ UNCHANGED dirs
             ELSE Goto(w, "stage") /\ dirs' = dirs \cup {job[w]} /\ UNCHANGED result
          /\ UNCHANGED receipts
  /\ UNCHANGED <<files, job, published, calls, readerVars>>

\* directory.mkdir(): exclusive across threads and processes.
Reserve(w) ==
  /\ pc[w] = "reserve"
  /\ IF job[w] \in dirs
     THEN Return(w, "exists") /\ UNCHANGED dirs
     ELSE Goto(w, "stage") /\ dirs' = dirs \cup {job[w]} /\ UNCHANGED result
  /\ UNCHANGED <<files, job, published, receipts, calls, readerVars>>

\* mkdir raises OSError: nothing was reserved, nothing is cleaned up.
ReserveFails(w) ==
  /\ pc[w] = "reserve"
  /\ Return(w, "write_error")
  /\ UNCHANGED <<dirs, files, job, published, receipts, calls, readerVars>>

\* The order in which _publish goes on.  Defect: the metadata is linked first.
NextStep_MetadataFirst ==
  [stage |-> "metadata", metadata |-> "payload", payload |-> "unstage"]

NextStep == [stage |-> "payload", payload |-> "metadata", metadata |-> "unstage"]

\* Both files are written and fsynced in a staging directory of their own.
Stage(w) ==
  /\ pc[w] = "stage"
  /\ Goto(w, NextStep["stage"])
  /\ UNCHANGED <<dirs, files, job, published, result, receipts, calls, readerVars>>

\* os.link of the step's file; the metadata is linked last.
Link(w) ==
  /\ pc[w] \in Files
  /\ Goto(w, NextStep[pc[w]])
  /\ files' = [files EXCEPT ![job[w]] = @ \cup {pc[w]}]
  /\ published' = [published EXCEPT ![w] = @ \cup {pc[w]}]
  /\ UNCHANGED <<dirs, job, result, receipts, calls, readerVars>>

\* Staging or linking raises: the finally block undoes this call.
StepFails(w) ==
  /\ pc[w] \in {"stage"} \cup Files
  /\ Goto(w, "unlink")
  /\ UNCHANGED <<dirs, files, job, published, result, receipts, calls, readerVars>>

\* Leaving the with block removes the staging directory.
Unstage(w) ==
  /\ pc[w] = "unstage"
  /\ Return(w, "receipt")
  /\ receipts' = [receipts EXCEPT ![job[w]] = @ + 1]
  /\ UNCHANGED <<dirs, files, job, published, calls, readerVars>>

\* Defect: the OSError leaves _publish as it is.
UnstageFails_Unmapped(w) ==
  /\ pc[w] = "unstage"
  /\ Return(w, "OSError")
  /\ UNCHANGED <<dirs, files, job, published, receipts, calls, readerVars>>

\* It raises when complete is already True: the call fails, the snapshot stays.
UnstageFails(w) ==
  /\ pc[w] = "unstage"
  /\ Return(w, "write_error")
  /\ UNCHANGED <<dirs, files, job, published, receipts, calls, readerVars>>

\* reversed(published): only what this call linked, and errors are swallowed.
Unlink(w) ==
  /\ pc[w] = "unlink"
  /\ Goto(w, "rmdir")
  /\ \/ files' = [files EXCEPT ![job[w]] = @ \ published[w]]
     \/ UNCHANGED files
  /\ UNCHANGED <<dirs, job, published, result, receipts, calls, readerVars>>

\* rmdir needs an empty directory; its errors are swallowed as well.
Rmdir(w) ==
  /\ pc[w] = "rmdir"
  /\ Return(w, "write_error")
  /\ \/ files[job[w]] = {} /\ dirs' = dirs \ {job[w]}
     \/ UNCHANGED dirs
  /\ UNCHANGED <<files, job, published, receipts, calls, readerVars>>

\* The process dies in the middle of a call: no handler runs.
Die(w) ==
  /\ pc[w] # "idle"
  /\ Return(w, "died")
  /\ UNCHANGED <<dirs, files, job, published, receipts, calls, readerVars>>

-----------------------------------------------------------------------------
(* Reading: the sidecar first, then the payload *)

ReadMetadata(r, s) ==
  /\ rpc[r] # "payload"
  /\ rjob' = [rjob EXCEPT ![r] = s]
  /\ rpc' = [rpc EXCEPT ![r] = IF "metadata" \in files[s] THEN "payload" ELSE "rejected"]
  /\ UNCHANGED <<dirs, files, receipts, writerVars>>

ReadPayload(r) ==
  /\ rpc[r] = "payload"
  /\ rpc' = [rpc EXCEPT ![r] = IF "payload" \in files[rjob[r]] THEN "served" ELSE "rejected"]
  /\ UNCHANGED <<dirs, files, receipts, rjob, writerVars>>

-----------------------------------------------------------------------------
WriterStep(w) ==
  \/ \E s \in Snapshots : BeginStore(w, s)
  \/ Reserve(w) \/ ReserveFails(w)
  \/ Stage(w) \/ Link(w) \/ StepFails(w)
  \/ Unstage(w) \/ UnstageFails(w)
  \/ Unlink(w) \/ Rmdir(w)
  \/ Die(w)

ReaderStep(r) == (\E s \in Snapshots : ReadMetadata(r, s)) \/ ReadPayload(r)

Next == (\E w \in Writers : WriterStep(w)) \/ (\E r \in Readers : ReaderStep(r))

Spec == Init /\ [][Next]_vars

-----------------------------------------------------------------------------
(* Properties *)

\* Between its mkdir and its end a call has the snapshot directory to itself,
\* whatever failed, was cleaned up or died there before.
ExclusiveReservation ==
  \A s \in Snapshots : \A v, w \in Owners(s) : v = w

\* The metadata file is a completion marker at every moment, also while another
\* call links or cleans up and after any death: where it is, the payload is.
MetadataIsLast == \A s \in Snapshots : "metadata" \in files[s] => Published(s)

\* A read that has matched the metadata finds the payload.
NoTornRead == \A r \in Readers : rpc[r] = "payload" => "payload" \in files[rjob[r]]

\* A directory a dead or half-cleaned call left behind is never taken over: no
\* later call owns it, completes it or removes it.
Abandoned(s) == s \in dirs /\ ~Published(s) /\ Owners(s) = {}
AbandonedForever ==
  [][\A s \in Snapshots : Abandoned(s) => Abandoned(s)' /\ files'[s] = files[s]]_vars

\* The store keeps what RawEvidence promises: kept snapshots stay, and a receipt
\* is returned once, for a snapshot that is kept.
Evidence == INSTANCE RawEvidence WITH kept <- {s \in Snapshots : Published(s)}
ImplementsRawEvidence == Evidence!EvidenceSpec

-----------------------------------------------------------------------------
(* What the documents of the repository say and the code does not do *)

\* A failed write leaves no completed snapshot of that call.
WriteErrorPublishesNothing ==
  \A w \in Writers : result[w] = "write_error" => "metadata" \notin published[w]

=============================================================================
