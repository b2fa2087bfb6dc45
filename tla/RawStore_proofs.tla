--------------------------- MODULE RawStore_proofs ---------------------------
(***************************************************************************)
(* Proofs that the publish protocol of RawStore keeps its promises for any *)
(* number of snapshots, writers, readers and calls.  The inductive         *)
(* invariant says, step by step, what the owner of a directory finds in it *)
(* and, once a receipt was returned, that nobody owns the directory again. *)
(***************************************************************************)
EXTENDS RawStore, TLAPS

\* What the call that reserved job[w] finds there at each of its steps.
OwnerView(w) ==
  /\ job[w] \in dirs
  /\ pc[w] \in {"stage", "payload"} => files[job[w]] = {} /\ published[w] = {}
  /\ pc[w] = "metadata" => files[job[w]] = {"payload"} /\ published[w] = {"payload"}
  /\ pc[w] = "unstage" => files[job[w]] = Files
  /\ pc[w] = "unlink" => files[job[w]] = published[w] /\ published[w] \subseteq {"payload"}
  /\ pc[w] = "rmdir" => files[job[w]] \subseteq {"payload"}

Owns(w) == pc[w] \in Owning

CallsHaveJobs ==
  \A w \in Writers :
    /\ pc[w] # "idle" => job[w] \in Snapshots
    /\ pc[w] = "reserve" => published[w] = {}

OwnersSeeTheirWork == \A w \in Writers : Owns(w) => OwnerView(w)

OneOwner == \A v, w \in Writers : Owns(v) /\ Owns(w) /\ job[v] = job[w] => v = w

UnreservedIsEmpty == \A s \in Snapshots \ dirs : files[s] = {}

ReceiptIsFinal ==
  \A s \in Snapshots : receipts[s] # 0 =>
    receipts[s] = 1 /\ Published(s) /\ \A w \in Writers : Owns(w) => job[w] # s

ReadersSawMetadata ==
  \A r \in Readers : rpc[r] = "payload" => rjob[r] \in Snapshots /\ Published(rjob[r])

IInv ==
  /\ TypeOK
  /\ CallsHaveJobs
  /\ OwnersSeeTheirWork
  /\ OneOwner
  /\ UnreservedIsEmpty
  /\ MetadataIsLast
  /\ ReceiptIsFinal
  /\ ReadersSawMetadata

-----------------------------------------------------------------------------
(* The inductive invariant *)

\* Before the first call nothing is reserved and nothing published.
LEMMA InitIInv == Init => IInv
  BY RawStoreAssumption DEF Init, IInv, TypeOK, CallsHaveJobs, OwnersSeeTheirWork, OneOwner,
     UnreservedIsEmpty, MetadataIsLast, ReceiptIsFinal, ReadersSawMetadata, Owns, Owning, Steps,
     Results, Files

\* Every step leaves the variables in their types.
LEMMA TypeStep == ASSUME IInv, [Next]_vars PROVE TypeOK'
<1> USE DEF TypeOK, Files, Steps, Results, writerVars, readerVars
<1>0. TypeOK /\ CallsHaveJobs
  BY DEF IInv
<1>1. ASSUME NEW w \in Writers, NEW s \in Snapshots, BeginStore(w, s) PROVE TypeOK'
  BY <1>0, <1>1, RawStoreAssumption DEF BeginStore, Goto
<1>2. ASSUME NEW w \in Writers, Reserve(w) PROVE TypeOK'
  BY <1>0, <1>2 DEF Reserve, Goto, Return, CallsHaveJobs
<1>3. ASSUME NEW w \in Writers, ReserveFails(w) PROVE TypeOK'
  BY <1>0, <1>3 DEF ReserveFails, Goto, Return
<1>4. ASSUME NEW w \in Writers, Stage(w) PROVE TypeOK'
  BY <1>0, <1>4 DEF Stage, Goto, NextStep
<1>5. ASSUME NEW w \in Writers, Link(w) PROVE TypeOK'
  <2>1. NextStep[pc[w]] \in {"metadata", "unstage"}
    BY <1>5 DEF Link, NextStep
  <2>2. pc' \in [Writers -> Steps \cup {"idle"}]
    BY <2>1, <1>0, <1>5 DEF Link, Goto
  <2>3. files' \in [Snapshots -> SUBSET Files] /\ published' \in [Writers -> SUBSET Files]
    BY <1>0, <1>5 DEF Link
  <2> QED BY <2>2, <2>3, <1>0, <1>5 DEF Link
<1>6. ASSUME NEW w \in Writers, StepFails(w) PROVE TypeOK'
  BY <1>0, <1>6 DEF StepFails, Goto
<1>7. ASSUME NEW w \in Writers, Unstage(w) PROVE TypeOK'
  BY <1>0, <1>7 DEF Unstage, Goto, Return, CallsHaveJobs
<1>8. ASSUME NEW w \in Writers, UnstageFails(w) PROVE TypeOK'
  BY <1>0, <1>8 DEF UnstageFails, Goto, Return
<1>9. ASSUME NEW w \in Writers, Unlink(w) PROVE TypeOK'
  BY <1>0, <1>9 DEF Unlink, Goto
<1>10. ASSUME NEW w \in Writers, Rmdir(w) PROVE TypeOK'
  BY <1>0, <1>10 DEF Rmdir, Goto, Return
<1>11. ASSUME NEW w \in Writers, Die(w) PROVE TypeOK'
  BY <1>0, <1>11 DEF Die, Goto, Return
<1>12. ASSUME NEW r \in Readers, ReaderStep(r) PROVE TypeOK'
  BY <1>0, <1>12 DEF ReaderStep, ReadMetadata, ReadPayload
<1>13. CASE UNCHANGED vars
  BY <1>0, <1>13 DEF vars
<1> QED
  BY <1>1, <1>2, <1>3, <1>4, <1>5, <1>6, <1>7, <1>8, <1>9, <1>10, <1>11, <1>12, <1>13
     DEF Next, WriterStep

\* Every step of a call preserves what the owners, receipts and readers rely on.
LEMMA InvStep == ASSUME IInv, TypeOK', [Next]_vars PROVE IInv'
<1> USE DEF IInv, CallsHaveJobs, OwnersSeeTheirWork, OneOwner, UnreservedIsEmpty, MetadataIsLast,
            ReceiptIsFinal, ReadersSawMetadata, Owns, OwnerView, Owning, Published, Steps, Files,
            writerVars, readerVars
<1>1. ASSUME NEW w \in Writers, NEW s \in Snapshots, BeginStore(w, s) PROVE IInv'
  BY <1>1 DEF BeginStore, Goto, TypeOK
<1>2. ASSUME NEW w \in Writers, Reserve(w) PROVE IInv'
  <2>1. CASE job[w] \in dirs
    BY <2>1, <1>2 DEF Reserve, Goto, Return, TypeOK
  <2>2. CASE job[w] \notin dirs
    <3>1. job[w] \in Snapshots /\ files[job[w]] = {} /\ receipts[job[w]] = 0 /\ published[w] = {}
      BY <2>2, <1>2 DEF Reserve, TypeOK
    <3>2. /\ dirs' = dirs \cup {job[w]} /\ pc' = [pc EXCEPT ![w] = "stage"]
          /\ UNCHANGED <<files, job, published, receipts, rpc, rjob>>
      BY <2>2, <1>2 DEF Reserve, Goto
    <3>3. \A v \in Writers : Owns(v) => job[v] # job[w]
      BY <2>2
    <3>4. OwnersSeeTheirWork' /\ OneOwner'
      BY <3>1, <3>2, <3>3 DEF TypeOK
    <3>5. CallsHaveJobs' /\ UnreservedIsEmpty' /\ MetadataIsLast' /\ ReceiptIsFinal' /\ ReadersSawMetadata'
      BY <3>1, <3>2, <3>3 DEF TypeOK
    <3> QED BY <3>4, <3>5
  <2> QED BY <2>1, <2>2
<1>3. ASSUME NEW w \in Writers, ReserveFails(w) PROVE IInv'
  BY <1>3 DEF ReserveFails, Goto, Return, TypeOK
<1>4. ASSUME NEW w \in Writers, Stage(w) PROVE IInv'
  BY <1>4 DEF Stage, Goto, NextStep, TypeOK
<1>5. ASSUME NEW w \in Writers, Link(w) PROVE IInv'
  <2>1. CASE pc[w] = "payload"
    BY <2>1, <1>5 DEF Link, Goto, NextStep, TypeOK
  <2>2. CASE pc[w] = "metadata"
    BY <2>2, <1>5 DEF Link, Goto, NextStep, TypeOK
  <2> QED BY <2>1, <2>2, <1>5 DEF Link
<1>6. ASSUME NEW w \in Writers, StepFails(w) PROVE IInv'
  <2>1. files[job[w]] = published[w] /\ published[w] \subseteq {"payload"} /\ Owns(w)
    BY <1>6 DEF StepFails
  <2>2. pc' = [pc EXCEPT ![w] = "unlink"] /\ UNCHANGED <<dirs, files, job, published, receipts, rpc, rjob>>
    BY <1>6 DEF StepFails, Goto
  <2>3. OwnersSeeTheirWork' /\ OneOwner'
    BY <2>1, <2>2 DEF TypeOK
  <2>4. CallsHaveJobs' /\ UnreservedIsEmpty' /\ MetadataIsLast' /\ ReceiptIsFinal' /\ ReadersSawMetadata'
    BY <2>1, <2>2 DEF TypeOK
  <2> QED BY <2>3, <2>4
<1>7. ASSUME NEW w \in Writers, Unstage(w) PROVE IInv'
  BY <1>7 DEF Unstage, Goto, Return, TypeOK
<1>8. ASSUME NEW w \in Writers, UnstageFails(w) PROVE IInv'
  BY <1>8 DEF UnstageFails, Goto, Return, TypeOK
<1>9. ASSUME NEW w \in Writers, Unlink(w) PROVE IInv'
  BY <1>9 DEF Unlink, Goto, TypeOK
<1>10. ASSUME NEW w \in Writers, Rmdir(w) PROVE IInv'
  BY <1>10 DEF Rmdir, Goto, Return, TypeOK
<1>11. ASSUME NEW w \in Writers, Die(w) PROVE IInv'
  BY <1>11 DEF Die, Goto, Return, TypeOK
<1>12. ASSUME NEW r \in Readers, ReaderStep(r) PROVE IInv'
  BY <1>12 DEF ReaderStep, ReadMetadata, ReadPayload, TypeOK
<1>13. CASE UNCHANGED vars
  BY <1>13 DEF vars, TypeOK
<1> QED
  BY <1>1, <1>2, <1>3, <1>4, <1>5, <1>6, <1>7, <1>8, <1>9, <1>10, <1>11, <1>12, <1>13
     DEF Next, WriterStep

\* The inductive invariant holds in every reachable state.
THEOREM ProtocolInvariant == Spec => []IInv
<1>1. IInv /\ [Next]_vars => IInv'
  BY TypeStep, InvStep
<1> QED BY InitIInv, <1>1, PTL DEF Spec

-----------------------------------------------------------------------------
(* The theorems about the store *)

\* The variables always have their types.
THEOREM StoreTypeCorrect == Spec => []TypeOK
BY ProtocolInvariant, PTL DEF IInv

\* No two calls ever work in the same snapshot directory.
THEOREM ReservationExclusive == Spec => []ExclusiveReservation
<1>1. IInv => ExclusiveReservation
  BY DEF IInv, OneOwner, Owns, ExclusiveReservation, Owners
<1> QED BY ProtocolInvariant, <1>1, PTL

\* The metadata file marks a complete snapshot in every state.
THEOREM MetadataMarksCompletion == Spec => []MetadataIsLast
BY ProtocolInvariant, PTL DEF IInv

\* A reader that has matched the metadata finds the payload.
THEOREM ReadsAreWhole == Spec => []NoTornRead
<1>1. IInv => NoTornRead
  BY DEF IInv, ReadersSawMetadata, NoTornRead, Published, Files
<1> QED BY ProtocolInvariant, <1>1, PTL

\* A directory that a dead or half-cleaned call left behind stays as it is.
THEOREM AbandonedStays == Spec => AbandonedForever
<1>1. ASSUME IInv, [Next]_vars, NEW s \in Snapshots, Abandoned(s)
      PROVE  Abandoned(s)' /\ files'[s] = files[s]
  <2> DEFINE Stays == s \in dirs' /\ files'[s] = files[s]
             Unowned == \A v \in Writers : pc'[v] \in Owning => job'[v] # s
  <2>0. s \in dirs /\ \A v \in Writers : pc[v] \in Owning => job[v] # s
    BY <1>1 DEF Abandoned, Owners
  <2>1. ASSUME NEW w \in Writers, WriterStep(w) PROVE Stays /\ Unowned
    <3> USE DEF TypeOK, IInv, CallsHaveJobs, Owning, Steps, Files, Goto, Return,
                writerVars, readerVars
    <3>1. CASE Link(w)
      BY <1>1, <2>0, <3>1 DEF Link, NextStep
    <3>2. CASE Unlink(w)
      BY <1>1, <2>0, <3>2 DEF Unlink
    <3>3. CASE Rmdir(w)
      BY <1>1, <2>0, <3>3 DEF Rmdir
    <3>4. CASE Reserve(w)
      BY <1>1, <2>0, <3>4 DEF Reserve
    <3>5. CASE Stage(w) \/ StepFails(w)
      BY <1>1, <2>0, <3>5 DEF Stage, StepFails, NextStep
    <3>6. CASE (\E t \in Snapshots : BeginStore(w, t)) \/ ReserveFails(w) \/ Unstage(w)
               \/ UnstageFails(w) \/ Die(w)
      BY <1>1, <2>0, <3>6 DEF BeginStore, ReserveFails, Unstage, UnstageFails, Die
    <3> QED BY <2>1, <3>1, <3>2, <3>3, <3>4, <3>5, <3>6 DEF WriterStep
  <2>2. ASSUME NEW r \in Readers, ReaderStep(r) PROVE Stays /\ Unowned
    BY <2>0, <2>2 DEF ReaderStep, ReadMetadata, ReadPayload, writerVars
  <2>3. ASSUME UNCHANGED vars PROVE Stays /\ Unowned
    BY <2>0, <2>3 DEF vars, writerVars
  <2>4. Stays /\ Unowned
    BY <1>1, <2>1, <2>2, <2>3 DEF Next
  <2> QED BY <1>1, <2>4 DEF Abandoned, Published, Owners
<1>2. IInv /\ [Next]_vars =>
        [\A s \in Snapshots : Abandoned(s) => Abandoned(s)' /\ files'[s] = files[s]]_vars
  BY <1>1
<1> QED BY ProtocolInvariant, <1>2, PTL DEF Spec, AbandonedForever

-----------------------------------------------------------------------------
(* Refinement of RawEvidence *)

\* A step of the protocol keeps one snapshot, hands out one receipt or does
\* nothing that RawEvidence sees.
LEMMA StepRefines ==
  ASSUME IInv, IInv', [Next]_vars
  PROVE  [Evidence!EvidenceNext]_(Evidence!evidenceVars)
<1> DEFINE Same == (\A s \in Snapshots : Published(s)' <=> Published(s)) /\ receipts' = receipts
<1>1. Same => [Evidence!EvidenceNext]_(Evidence!evidenceVars)
  <2>1. Same => {s \in Snapshots : Published(s)}' = {s \in Snapshots : Published(s)}
    OBVIOUS
  <2> QED BY <2>1 DEF Evidence!evidenceVars
<1>2. ASSUME NEW w \in Writers, Link(w), pc[w] = "payload" PROVE Same
  <2>1. job[w] \in Snapshots /\ files \in [Snapshots -> SUBSET Files] /\ files[job[w]] = {}
    BY <1>2 DEF IInv, TypeOK, OwnersSeeTheirWork, OwnerView, Owns, Owning, Steps, CallsHaveJobs
  <2>2. files' = [files EXCEPT ![job[w]] = @ \cup {"payload"}] /\ receipts' = receipts
    BY <1>2 DEF Link
  <2> QED BY <2>1, <2>2 DEF Published, Files
<1>3. ASSUME NEW w \in Writers, Link(w), pc[w] = "metadata" PROVE Evidence!EvidenceNext
  <2>1. job[w] \in Snapshots /\ files \in [Snapshots -> SUBSET Files] /\ files[job[w]] = {"payload"}
    BY <1>3 DEF IInv, TypeOK, OwnersSeeTheirWork, OwnerView, Owns, Owning, Steps, CallsHaveJobs
  <2>2. files' = [files EXCEPT ![job[w]] = @ \cup {"metadata"}] /\ receipts' = receipts
    BY <1>3 DEF Link
  <2>3. ~Published(job[w]) /\ \A s \in Snapshots : Published(s)' <=> Published(s) \/ s = job[w]
    BY <2>1, <2>2 DEF Published, Files
  <2>4. {s \in Snapshots : Published(s)}' = {s \in Snapshots : Published(s)} \cup {job[w]}
    BY <2>1, <2>3
  <2>5. Evidence!Keep(job[w])
    BY <2>2, <2>3, <2>4 DEF Evidence!Keep
  <2> QED BY <2>1, <2>5, Zenon DEF Evidence!EvidenceNext
<1>4. ASSUME NEW w \in Writers, Unstage(w) PROVE Evidence!EvidenceNext
  <2>1. job[w] \in Snapshots /\ Published(job[w]) /\ receipts[job[w]] = 0
    BY <1>4 DEF IInv, TypeOK, Unstage, OwnersSeeTheirWork, OwnerView, Owns, Owning, Steps,
       CallsHaveJobs, ReceiptIsFinal, Published
  <2>2. files' = files /\ receipts' = [receipts EXCEPT ![job[w]] = 1]
    BY <1>4, <2>1 DEF Unstage, IInv, TypeOK
  <2>3. {s \in Snapshots : Published(s)}' = {s \in Snapshots : Published(s)}
    BY <2>2 DEF Published
  <2>4. Evidence!GiveReceipt(job[w])
    BY <2>1, <2>2, <2>3 DEF Evidence!GiveReceipt
  <2> QED BY <2>1, <2>4, Zenon DEF Evidence!EvidenceNext
<1>5. ASSUME NEW w \in Writers, Unlink(w) PROVE Same
  <2>1. /\ job[w] \in Snapshots /\ files \in [Snapshots -> SUBSET Files]
        /\ files[job[w]] = published[w] /\ published[w] \subseteq {"payload"}
    BY <1>5 DEF IInv, TypeOK, Unlink, OwnersSeeTheirWork, OwnerView, Owns, Owning, Steps, CallsHaveJobs
  <2>2. files' = [files EXCEPT ![job[w]] = @ \ published[w]] \/ files' = files
    BY <1>5 DEF Unlink
  <2>3. receipts' = receipts
    BY <1>5 DEF Unlink
  <2> QED BY <2>1, <2>2, <2>3 DEF Published, Files
<1>6. ASSUME NEW w \in Writers, WriterStep(w), ~Link(w), ~Unstage(w), ~Unlink(w) PROVE Same
  BY <1>6 DEF WriterStep, BeginStore, Reserve, ReserveFails, Stage, StepFails, UnstageFails, Rmdir,
     Die, Published
<1>7. ASSUME NEW r \in Readers, ReaderStep(r) PROVE Same
  BY <1>7 DEF ReaderStep, ReadMetadata, ReadPayload, Published
<1>8. ASSUME UNCHANGED vars PROVE Same
  BY <1>8 DEF vars, Published
<1>9. ASSUME NEW w \in Writers, WriterStep(w) PROVE Same \/ Evidence!EvidenceNext
  <2>1. CASE Link(w)
    BY <2>1, <1>2, <1>3 DEF Link, Files
  <2>2. CASE ~Link(w)
    BY <2>2, <1>9, <1>4, <1>5, <1>6
  <2> QED BY <2>1, <2>2
<1>10. Same \/ Evidence!EvidenceNext
  BY <1>7, <1>8, <1>9 DEF Next
<1> QED BY <1>1, <1>10

\* The publish protocol implements the write-once store RawEvidence describes.
THEOREM StoreRefinesEvidence == Spec => ImplementsRawEvidence
<1>1. Init => Evidence!EvidenceInit
  BY DEF Init, Evidence!EvidenceInit, Published, Files
<1>2. IInv /\ IInv' /\ [Next]_vars => [Evidence!EvidenceNext]_(Evidence!evidenceVars)
  BY StepRefines
<1> QED BY ProtocolInvariant, <1>1, <1>2, PTL DEF Spec, ImplementsRawEvidence, Evidence!EvidenceSpec
=============================================================================
