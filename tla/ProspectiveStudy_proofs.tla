------------------------ MODULE ProspectiveStudy_proofs ------------------------
(***************************************************************************)
(* Proofs about ProspectiveStudy for any number of gameweeks, decisions,   *)
(* evaluators and report directories.  The evidence's invariant, ArchiveInv *)
(* of ReplayArchive_proofs, is used as a whole: an evaluation never writes *)
(* what it describes.                                                      *)
(***************************************************************************)
EXTENDS ProspectiveStudy, ReplayArchive_proofs

LockHeld == \A e \in Evaluators : Active(e) => lockFile /\ output[e] \in Outputs

\* What makes case c fit to be the primary archive of gameweek g.
Sound(g, c) ==
  /\ c \in Case
  /\ reports[c.decision] # NoReport
  /\ reports[c.decision].gw = g
  /\ reports[c.decision].prediction < Deadline[g]
  /\ c.at < Deadline[g]

LedgerSound == \A x \in ledger : Sound(x.gw, x.case)

InLedger(g, c) == [gw |-> g, case |-> c] \in ledger

\* Between selection and the last appended line: what is pending can be locked,
\* what is not pending is locked already.
Appending(e) ==
  epc[e] = "append" =>
    \A g \in Gameweeks :
      /\ g \in pending[e] => Sound(g, selected[e][g]) /\ \A x \in ledger : x.gw # g
      /\ g \notin pending[e] /\ selected[e][g] # NoCase => InLedger(g, selected[e][g])

Filling(e) ==
  epc[e] = "fill" =>
    /\ reportFile[output[e]] = "torn"
    /\ \A g \in Gameweeks : selected[e][g] # NoCase => InLedger(g, selected[e][g])

EvaluationsProgress == \A e \in Evaluators : Appending(e) /\ Filling(e)

StudyInv ==
  /\ TypeOK
  /\ LockHeld
  /\ OneEvaluation
  /\ OnePrimary
  /\ LedgerSound
  /\ EvaluationsProgress
  /\ ReportsShowLockedPrimaries

IInv == ArchiveInv /\ StudyInv

-----------------------------------------------------------------------------
\* The inductive invariant holds initially.
LEMMA InitIInv == Init => IInv
<1> SUFFICES ASSUME Init PROVE IInv
  OBVIOUS
<1>1. ArchiveInv
  BY InitArchive DEF Init
<1>2. NothingSelected \in Selection
  BY DEF NothingSelected, Selection
<1>3. TypeOK
  BY <1>1, <1>2 DEF Init, TypeOK, ArchiveInv
<1>4. LockHeld /\ OneEvaluation /\ OnePrimary /\ LedgerSound
  BY DEF Init, LockHeld, OneEvaluation, OnePrimary, LedgerSound, Active
<1>5. EvaluationsProgress /\ ReportsShowLockedPrimaries
  BY DEF Init, EvaluationsProgress, Appending, Filling, ReportsShowLockedPrimaries
<1> QED BY <1>1, <1>3, <1>4, <1>5 DEF IInv, StudyInv

\* A case stays fit while the archive goes on: reports are frozen.
LEMMA SoundStays ==
  ASSUME IInv, [ArchiveNext]_archiveVars, NEW g, NEW c, Sound(g, c)
  PROVE  Sound(g, c)'
<1>1. c.decision \in Decisions
  BY DEF Sound, Case
<1>2. reports'[c.decision] = reports[c.decision]
  BY <1>1, ReportsAreFrozen DEF IInv, ArchiveInv, Sound
<1> QED BY <1>2 DEF Sound

\* An archived case has been reported.
LEMMA EligibleIsSound ==
  ASSUME IInv, NEW g \in Gameweeks, NEW c \in Eligible(g)
  PROVE  Sound(g, c)
<1>1. c \in cases /\ c \in Case
  BY DEF IInv, ArchiveInv, ArchiveTypeOK, Eligible
<1>2. reports[c.decision] # NoReport
  BY <1>1 DEF IInv, ArchiveInv, CasesHaveReports
<1> QED BY <1>1, <1>2 DEF Eligible, Sound

\* Steps of the archive leave the study's invariant alone.
LEMMA StudyDuringArchive ==
  ASSUME IInv, ArchiveNext, UNCHANGED studyVars PROVE IInv'
<1> USE DEF studyVars, ledgerVars, evaluatorVars, reportVars
<1>1. ArchiveInv'
  BY ArchiveStep DEF IInv
<1>2. TypeOK'
  BY <1>1 DEF IInv, StudyInv, TypeOK, ArchiveInv
<1>3. LockHeld' /\ OneEvaluation' /\ OnePrimary' /\ ReportsShowLockedPrimaries'
  BY DEF IInv, StudyInv, LockHeld, OneEvaluation, OnePrimary, ReportsShowLockedPrimaries, Active
<1>4. LedgerSound'
  BY SoundStays DEF IInv, StudyInv, LedgerSound
<1>5. EvaluationsProgress'
  <2> SUFFICES ASSUME NEW e \in Evaluators PROVE Appending(e)' /\ Filling(e)'
    BY DEF EvaluationsProgress
  <2>1. Appending(e) /\ Filling(e)
    BY DEF IInv, StudyInv, EvaluationsProgress
  <2>2. Appending(e)'
    BY <2>1, SoundStays DEF Appending, InLedger
  <2> QED BY <2>1, <2>2 DEF Filling, InLedger
<1> QED BY <1>1, <1>2, <1>3, <1>4, <1>5 DEF IInv, StudyInv

-----------------------------------------------------------------------------
(* Steps of an evaluation *)

\* The variables keep their types.
LEMMA TypeOfEvaluator ==
  ASSUME IInv, NEW e \in Evaluators, EvaluatorStep(e) PROVE TypeOK'
<1> USE DEF ledgerVars, reportVars, Goes, Ends
<1>0. TypeOK /\ LockHeld /\ EvaluationsProgress
  BY DEF IInv, StudyInv
<1>1. ArchiveTypeOK'
  BY <1>0 DEF TypeOK, ArchiveTypeOK, EvaluatorStep, Evaluate, SelectArchives, EvaluationFails,
     AppendLock, OpenReport, FillReport, Unlock, EvaluatorDies, archiveVars, captureVars, desktopVars
<1>2. NothingSelected \in Selection
  BY DEF NothingSelected, Selection
<1>3. ASSUME NEW o \in Outputs, Evaluate(e, o) PROVE TypeOK'
  BY <1>0, <1>1, <1>3 DEF TypeOK, Evaluate
<1>4. CASE SelectArchives(e)
  <2>1. PICK s \in [Gameweeks -> cases \cup {NoCase}] :
           /\ selected' = [selected EXCEPT ![e] = s]
           /\ pending' = [pending EXCEPT ![e] = NewLocks(s)]
    BY <1>4 DEF SelectArchives
  <2>2. s \in Selection
    BY <1>0 DEF TypeOK, ArchiveTypeOK, Selection
  <2>3. NewLocks(s) \subseteq Gameweeks
    BY DEF NewLocks
  <2> QED BY <2>1, <2>2, <2>3, <1>0, <1>1, <1>4 DEF TypeOK, SelectArchives
<1>5. CASE EvaluationFails(e)
  BY <1>0, <1>1, <1>5 DEF TypeOK, EvaluationFails, LinesMayTear
<1>6. CASE AppendLock(e)
  <2>1. PICK g \in pending[e] :
           /\ ledger' = ledger \cup {[gw |-> g, case |-> selected[e][g]]}
           /\ pending' = [pending EXCEPT ![e] = @ \ {g}]
    BY <1>6 DEF AppendLock
  <2>2. g \in Gameweeks /\ selected[e][g] \in Case
    BY <1>0, <1>6 DEF TypeOK, EvaluationsProgress, Appending, AppendLock, Sound
  <2>3. [gw |-> g, case |-> selected[e][g]] \in Entry
    BY <2>2 DEF Entry
  <2> QED BY <2>1, <2>2, <2>3, <1>0, <1>1, <1>6 DEF TypeOK, AppendLock
<1>7. CASE OpenReport(e)
  BY <1>0, <1>1, <1>7 DEF TypeOK, OpenReport
<1>8. CASE FillReport(e)
  BY <1>0, <1>1, <1>8 DEF TypeOK, FillReport
<1>9. CASE Unlock(e)
  BY <1>0, <1>1, <1>2, <1>9 DEF TypeOK, Unlock
<1>10. CASE EvaluatorDies(e)
  BY <1>0, <1>1, <1>2, <1>10 DEF TypeOK, EvaluatorDies, LinesMayTear
<1> QED BY <1>3, <1>4, <1>5, <1>6, <1>7, <1>8, <1>9, <1>10 DEF EvaluatorStep

\* While an evaluation takes a step all others are idle.
LEMMA OthersAreIdle ==
  ASSUME IInv, NEW e \in Evaluators, EvaluatorStep(e), NEW d \in Evaluators \ {e}
  PROVE  epc[d] = "idle" /\ epc'[d] = "idle"
<1>0. TypeOK /\ LockHeld /\ OneEvaluation
  BY DEF IInv, StudyInv
<1>1. epc'[d] = epc[d]
  BY <1>0 DEF TypeOK, EvaluatorStep, Evaluate, SelectArchives, EvaluationFails, AppendLock, OpenReport,
     FillReport, Unlock, EvaluatorDies, Goes, Ends
<1>2. epc[d] = "idle"
  <2>1. CASE Active(e)
    BY <2>1, <1>0 DEF OneEvaluation, Active
  <2>2. CASE ~Active(e)
    <3>1. ~lockFile
      BY <2>2 DEF EvaluatorStep, Evaluate, SelectArchives, EvaluationFails, AppendLock, OpenReport,
         FillReport, Unlock, EvaluatorDies, Active
    <3> QED BY <3>1, <1>0 DEF LockHeld, Active
  <2> QED BY <2>1, <2>2
<1> QED BY <1>1, <1>2

\* Nothing an evaluation does changes what the archive holds.
LEMMA ArchiveDuringEvaluation ==
  ASSUME IInv, NEW e \in Evaluators, EvaluatorStep(e)
  PROVE  UNCHANGED archiveVars /\ ArchiveInv'
<1>1. UNCHANGED archiveVars
  BY DEF EvaluatorStep, Evaluate, SelectArchives, EvaluationFails, AppendLock, OpenReport, FillReport,
     Unlock, EvaluatorDies
<1> QED BY <1>1, ArchiveStep DEF IInv

\* The selection knows of every gameweek whether it is locked or can be.
LEMMA SelectionProgress ==
  ASSUME IInv, NEW e \in Evaluators, SelectArchives(e) PROVE Appending(e)'
<1>0. TypeOK
  BY DEF IInv, StudyInv
<1>1. PICK s \in [Gameweeks -> cases \cup {NoCase}] :
         /\ \A g \in Gameweeks : s[g] = NoCase \/ s[g] \in Choices(g)
         /\ selected' = [selected EXCEPT ![e] = s]
         /\ pending' = [pending EXCEPT ![e] = NewLocks(s)]
  BY DEF SelectArchives
<1>2. selected'[e] = s /\ pending'[e] = NewLocks(s) /\ ledger' = ledger /\ UNCHANGED archiveVars
  BY <1>0, <1>1 DEF TypeOK, SelectArchives, ledgerVars
<1>3. ASSUME NEW g \in Gameweeks, g \in NewLocks(s)
      PROVE  Sound(g, s[g]) /\ \A x \in ledger : x.gw # g
  <2>1. s[g] # NoCase /\ LockedFor(g) = {}
    BY <1>3 DEF NewLocks
  <2>2. s[g] \in Eligible(g)
    BY <2>1, <1>1 DEF Choices, Latest
  <2>3. \A x \in ledger : x.gw # g
    BY <2>1 DEF LockedFor
  <2> QED BY <2>2, <2>3, EligibleIsSound
<1>4. ASSUME NEW g \in Gameweeks, g \notin NewLocks(s), s[g] # NoCase
      PROVE  InLedger(g, s[g])
  <2>1. LockedFor(g) # {}
    BY <1>4 DEF NewLocks
  <2>2. s[g] \in LockedFor(g)
    BY <2>1, <1>1, <1>4 DEF Choices
  <2>3. PICK x \in ledger : x.gw = g /\ x.case = s[g]
    BY <2>2 DEF LockedFor
  <2>4. x = [gw |-> g, case |-> s[g]]
    BY <2>3, <1>0 DEF TypeOK, Entry
  <2> QED BY <2>4 DEF InLedger
<1> QED BY <1>2, <1>3, <1>4 DEF Appending, Sound, InLedger, archiveVars

\* An appended line is the first of its gameweek.
LEMMA AppendProgress ==
  ASSUME IInv, NEW e \in Evaluators, AppendLock(e)
  PROVE  OnePrimary' /\ LedgerSound' /\ Appending(e)' /\ ledger \subseteq ledger'
<1>0. TypeOK /\ OnePrimary /\ LedgerSound /\ Appending(e)
  BY DEF IInv, StudyInv, EvaluationsProgress
<1>1. PICK g \in pending[e] :
         /\ ledger' = ledger \cup {[gw |-> g, case |-> selected[e][g]]}
         /\ pending' = [pending EXCEPT ![e] = @ \ {g}]
  BY DEF AppendLock
<1>2. g \in Gameweeks /\ Sound(g, selected[e][g]) /\ \A x \in ledger : x.gw # g
  BY <1>0 DEF TypeOK, Appending, AppendLock
<1>3. pending'[e] = pending[e] \ {g} /\ UNCHANGED <<epc, selected>> /\ UNCHANGED archiveVars
  BY <1>0, <1>1 DEF TypeOK, AppendLock
<1>4. OnePrimary'
  BY <1>0, <1>1, <1>2 DEF OnePrimary
<1>5. LedgerSound'
  BY <1>0, <1>1, <1>2, <1>3 DEF LedgerSound, Sound, archiveVars
<1>6. Appending(e)'
  <2> SUFFICES ASSUME NEW h \in Gameweeks
               PROVE  /\ h \in pending'[e] => Sound(h, selected[e][h])' /\ \A x \in ledger' : x.gw # h
                      /\ h \notin pending'[e] /\ selected[e][h] # NoCase => InLedger(h, selected[e][h])'
    BY <1>3 DEF Appending
  <2>1. /\ h \in pending[e] => Sound(h, selected[e][h]) /\ \A x \in ledger : x.gw # h
        /\ h \notin pending[e] /\ selected[e][h] # NoCase => InLedger(h, selected[e][h])
    BY <1>0 DEF Appending, AppendLock
  <2>2. CASE h = g
    BY <2>2, <1>1, <1>3 DEF InLedger
  <2>3. CASE h # g
    BY <2>1, <2>3, <1>1, <1>3 DEF InLedger, Sound, archiveVars
  <2> QED BY <2>2, <2>3
<1> QED BY <1>1, <1>4, <1>5, <1>6

\* Every step of an evaluation preserves the invariant.
LEMMA StudyDuringEvaluation ==
  ASSUME IInv, NEW e \in Evaluators, EvaluatorStep(e) PROVE IInv'
<1> USE DEF ledgerVars, reportVars, Goes, Ends
<1>0. /\ TypeOK /\ LockHeld /\ OneEvaluation /\ OnePrimary /\ LedgerSound /\ EvaluationsProgress
      /\ ReportsShowLockedPrimaries /\ Appending(e) /\ Filling(e)
  BY DEF IInv, StudyInv, EvaluationsProgress
<1>1. ArchiveInv' /\ TypeOK' /\ UNCHANGED archiveVars
  BY TypeOfEvaluator, ArchiveDuringEvaluation
<1>2. \A d \in Evaluators : d # e => epc'[d] = "idle"
  BY OthersAreIdle
<1>3. OneEvaluation'
  BY <1>2 DEF OneEvaluation, Active
<1>4. LockHeld'
  <2>1. Active(e)' => lockFile' /\ output'[e] \in Outputs
    BY <1>0 DEF TypeOK, LockHeld, Active, EvaluatorStep, Evaluate, SelectArchives, EvaluationFails,
       AppendLock, OpenReport, FillReport, Unlock, EvaluatorDies
  <2> QED BY <2>1, <1>2 DEF LockHeld, Active
<1>5. OnePrimary' /\ LedgerSound' /\ ledger \subseteq ledger'
  <2>1. CASE AppendLock(e)
    BY <2>1, AppendProgress
  <2>2. CASE ~AppendLock(e)
    <3>1. ledger' = ledger
      BY <2>2 DEF EvaluatorStep, Evaluate, SelectArchives, EvaluationFails, OpenReport, FillReport,
         Unlock, EvaluatorDies
    <3> QED BY <3>1, <1>0, <1>1 DEF OnePrimary, LedgerSound, Sound, archiveVars
  <2> QED BY <2>1, <2>2
<1>6. Appending(e)'
  <2>1. CASE SelectArchives(e)
    BY <2>1, SelectionProgress
  <2>2. CASE AppendLock(e)
    BY <2>2, AppendProgress
  <2>3. CASE ~SelectArchives(e) /\ ~AppendLock(e)
    <3>1. epc'[e] # "append"
      BY <2>3, <1>0 DEF TypeOK, EvaluatorStep, Evaluate, EvaluationFails, OpenReport, FillReport,
         Unlock, EvaluatorDies
    <3> QED BY <3>1 DEF Appending
  <2> QED BY <2>1, <2>2, <2>3
<1>7. Filling(e)'
  <2>1. CASE OpenReport(e)
    <3>1. CASE reportFile[output[e]] = "absent"
      <4>1. reportFile'[output[e]] = "torn" /\ UNCHANGED <<output, selected, pending, ledger>>
            /\ epc[e] = "append" /\ pending[e] = {}
        BY <2>1, <3>1, <1>0 DEF OpenReport, TypeOK, LockHeld, Active
      <4> QED BY <4>1, <1>0 DEF Filling, Appending, InLedger
    <3>2. CASE reportFile[output[e]] # "absent"
      <4>1. epc'[e] = "unlock"
        BY <2>1, <3>2, <1>0 DEF OpenReport, TypeOK
      <4> QED BY <4>1 DEF Filling
    <3> QED BY <3>1, <3>2
  <2>2. CASE ~OpenReport(e)
    <3>1. epc'[e] # "fill"
      BY <2>2, <1>0 DEF TypeOK, EvaluatorStep, Evaluate, SelectArchives, EvaluationFails, AppendLock,
         FillReport, Unlock, EvaluatorDies
    <3> QED BY <3>1 DEF Filling
  <2> QED BY <2>1, <2>2
<1>8. EvaluationsProgress'
  BY <1>2, <1>6, <1>7 DEF EvaluationsProgress, Appending, Filling
<1>9. ReportsShowLockedPrimaries'
  <2> SUFFICES ASSUME NEW o \in Outputs, reportFile'[o] = "whole",
                      NEW g \in Gameweeks, published'[o][g] # NoCase
               PROVE  [gw |-> g, case |-> published'[o][g]] \in ledger'
    BY DEF ReportsShowLockedPrimaries
  <2>1. CASE FillReport(e) /\ o = output[e]
    <3>1. epc[e] = "fill" /\ published'[o] = selected[e]
      BY <2>1, <1>0 DEF FillReport, TypeOK
    <3> QED BY <3>1, <1>0, <1>5 DEF Filling, InLedger
  <2>2. CASE ~(FillReport(e) /\ o = output[e])
    <3>1. published'[o] = published[o] /\ reportFile[o] = "whole"
      BY <2>2, <1>0 DEF TypeOK, EvaluatorStep, Evaluate, SelectArchives, EvaluationFails, AppendLock,
         OpenReport, FillReport, Unlock, EvaluatorDies
    <3> QED BY <3>1, <1>0, <1>5 DEF ReportsShowLockedPrimaries
  <2> QED BY <2>1, <2>2
<1> QED BY <1>1, <1>3, <1>4, <1>5, <1>8, <1>9 DEF IInv, StudyInv

\* The inductive invariant is preserved by every step.
LEMMA StudyStep == ASSUME IInv, [Next]_vars PROVE IInv'
<1>1. ASSUME ArchiveNext, UNCHANGED studyVars PROVE IInv'
  BY <1>1, StudyDuringArchive
<1>2. ASSUME NEW e \in Evaluators, EvaluatorStep(e) PROVE IInv'
  BY <1>2, StudyDuringEvaluation
<1>3. ASSUME RemoveStaleLock \/ UNCHANGED vars PROVE IInv'
  <2> USE DEF ledgerVars, evaluatorVars, reportVars, studyVars, vars
  <2>1. UNCHANGED <<archiveVars, evaluatorVars, reportVars, ledger, tornLine>>
        /\ (lockFile' = lockFile \/ (lockFile' = FALSE /\ \A e \in Evaluators : ~Active(e)))
    BY <1>3 DEF RemoveStaleLock
  <2>2. ArchiveInv'
    BY <2>1, ArchiveStep DEF IInv
  <2>3. TypeOK'
    BY <2>1, <2>2 DEF IInv, StudyInv, TypeOK, ArchiveInv
  <2>4. LockHeld' /\ OneEvaluation'
    BY <2>1 DEF IInv, StudyInv, LockHeld, OneEvaluation, Active
  <2>5. OnePrimary' /\ LedgerSound' /\ EvaluationsProgress' /\ ReportsShowLockedPrimaries'
    BY <2>1 DEF IInv, StudyInv, OnePrimary, LedgerSound, EvaluationsProgress, Appending, Filling, Sound,
       InLedger, ReportsShowLockedPrimaries, archiveVars
  <2> QED BY <2>2, <2>3, <2>4, <2>5 DEF IInv, StudyInv
<1> QED BY <1>1, <1>2, <1>3 DEF Next

-----------------------------------------------------------------------------
(* Theorems *)

\* The inductive invariant of the study holds in every reachable state.
THEOREM StudyInvariant == Spec => []IInv
<1>1. IInv /\ [Next]_vars => IInv'
  BY StudyStep
<1> QED BY InitIInv, <1>1, PTL DEF Spec

\* The variables always have their types.
THEOREM StudyTypeCorrect == Spec => []TypeOK
BY StudyInvariant, PTL DEF IInv, StudyInv

\* Two evaluations of one ledger never overlap, whatever died before them.
THEOREM EvaluationsExclude == Spec => []OneEvaluation
BY StudyInvariant, PTL DEF IInv, StudyInv

\* The ledger never holds two primary archives of one gameweek.
THEOREM PrimaryIsUnique == Spec => []OnePrimary
BY StudyInvariant, PTL DEF IInv, StudyInv

\* Every primary was predicted and archived before its gameweek's deadline.
THEOREM PrimariesProspective == Spec => []PrimariesAreProspective
<1>1. IInv => PrimariesAreProspective
  BY DEF IInv, StudyInv, LedgerSound, Sound, PrimariesAreProspective
<1> QED BY StudyInvariant, <1>1, PTL

\* Every published report shows primaries of the ledger only.
THEOREM ReportsAgree == Spec => []ReportsShowLockedPrimaries
BY StudyInvariant, PTL DEF IInv, StudyInv

\* A published report is never replaced by a later evaluation.
ReportsAreImmutable ==
  [][\A o \in Outputs : reportFile[o] = "whole" =>
        reportFile'[o] = "whole" /\ published'[o] = published[o]]_vars

\* It stays as it is whatever is evaluated later.
THEOREM ReportsStay == Spec => ReportsAreImmutable
<1> DEFINE Kept == \A o \in Outputs : reportFile[o] = "whole" =>
                     reportFile'[o] = "whole" /\ published'[o] = published[o]
<1>1. ASSUME IInv, [Next]_vars PROVE Kept
  <2> USE DEF reportVars, studyVars, vars
  <2>0. TypeOK /\ LockHeld /\ EvaluationsProgress
    BY <1>1 DEF IInv, StudyInv
  <2>1. ASSUME NEW e \in Evaluators, EvaluatorStep(e) PROVE Kept
    <3>1. CASE OpenReport(e)
      BY <3>1, <2>0 DEF TypeOK, OpenReport
    <3>2. CASE FillReport(e)
      <4>1. reportFile[output[e]] = "torn"
        BY <3>2, <2>0 DEF FillReport, EvaluationsProgress, Filling
      <4> QED BY <4>1, <3>2, <2>0 DEF TypeOK, FillReport
    <3>3. CASE ~OpenReport(e) /\ ~FillReport(e)
      BY <2>1, <3>3 DEF EvaluatorStep, Evaluate, SelectArchives, EvaluationFails, AppendLock, Unlock,
         EvaluatorDies
    <3> QED BY <3>1, <3>2, <3>3
  <2>2. ASSUME (ArchiveNext /\ UNCHANGED studyVars) \/ RemoveStaleLock \/ UNCHANGED vars PROVE Kept
    BY <2>2 DEF RemoveStaleLock
  <2> QED BY <1>1, <2>1, <2>2 DEF Next
<1>2. IInv /\ [Next]_vars => [Kept]_vars
  BY <1>1
<1> QED BY StudyInvariant, <1>2, PTL DEF Spec, ReportsAreImmutable

\* Whatever an evaluation selects is intact and eligible when it is selected.
THEOREM ScoredIsIntact == Spec => ScoredEvidenceIsIntact
<1> DEFINE Intact == \A e \in Evaluators : epc[e] = "select" /\ epc'[e] = "append" =>
                       \A g \in Gameweeks : selected'[e][g] # NoCase => selected'[e][g] \in Eligible(g)
<1>1. ASSUME IInv, [Next]_vars PROVE Intact
  <2>0. TypeOK
    BY <1>1 DEF IInv, StudyInv
  <2> SUFFICES ASSUME NEW e \in Evaluators, epc[e] = "select", epc'[e] = "append",
                      NEW g \in Gameweeks, selected'[e][g] # NoCase
               PROVE  selected'[e][g] \in Eligible(g)
    OBVIOUS
  <2>1. SelectArchives(e)
    <3>1. PICK d \in Evaluators : EvaluatorStep(d)
      BY <1>1 DEF Next, RemoveStaleLock, studyVars, evaluatorVars, vars
    <3>2. d = e
      BY <3>1, <2>0 DEF TypeOK, EvaluatorStep, Evaluate, SelectArchives, EvaluationFails, AppendLock,
         OpenReport, FillReport, Unlock, EvaluatorDies, Goes, Ends
    <3> QED BY <3>1, <3>2, <2>0 DEF TypeOK, EvaluatorStep, Evaluate, EvaluationFails, AppendLock,
         OpenReport, FillReport, Unlock, EvaluatorDies, Goes, Ends
  <2>2. PICK gws : g \in gws /\ selected'[e][g] \in Choices(g) /\ ~Refused(gws)
    BY <2>1, <2>0 DEF SelectArchives, TypeOK
  <2>3. CASE LockedFor(g) # {}
    <3>1. PICK x \in ledger : x.gw = g /\ x.case = selected'[e][g]
      BY <2>2, <2>3 DEF Choices, LockedFor
    <3> QED BY <3>1, <2>2 DEF Refused
  <2>4. CASE LockedFor(g) = {}
    BY <2>2, <2>4 DEF Choices, Latest
  <2> QED BY <2>3, <2>4
<1>2. IInv /\ [Next]_vars => [Intact]_vars
  BY <1>1
<1> QED BY StudyInvariant, <1>2, PTL DEF Spec, ScoredEvidenceIsIntact

-----------------------------------------------------------------------------
(* The study implements the register *)

\* What evaluation e has selected is within min to max, and agrees there with the ledger.
Covers(e, min, max) ==
  /\ \A x \in ledger : x.gw \in min..max => selected[e][x.gw] = x.case
  /\ \A g \in Gameweeks : selected[e][g] # NoCase => g \in min..max

\* Once an evaluation has selected, its selection and the ledger know the same locks in
\* the range it was asked for, and nothing is selected or locked that is not archived.
Settled ==
  /\ \A x \in ledger : x.case \in cases
  /\ \A e \in Evaluators : epc[e] \in {"append", "fill"} =>
       /\ \A g \in Gameweeks : selected[e][g] # NoCase => selected[e][g] \in cases
       /\ \E min, max \in Gameweeks : Covers(e, min, max)

\* Archived cases are never removed.
LEMMA CasesGrow ==
  ASSUME [Next]_vars PROVE cases \subseteq cases'
<1>1. ASSUME ArchiveNext PROVE cases \subseteq cases'
  BY <1>1 DEF ArchiveNext, Tick, DesktopStep, RunDecision, DecisionFails, SaveAnalysis, ArchiveAnalysis, DesktopDies,
     CapturerStep, BeginCapture, CreateManifest, FillManifest, Finish, ReserveCase, WriteCase,
     CapturerDies
<1>2. ASSUME NEW e \in Evaluators, EvaluatorStep(e) PROVE cases \subseteq cases'
  BY <1>2 DEF EvaluatorStep, Evaluate, SelectArchives, EvaluationFails, AppendLock, OpenReport,
     FillReport, Unlock, EvaluatorDies, archiveVars
<1>3. ASSUME RemoveStaleLock \/ UNCHANGED vars PROVE cases \subseteq cases'
  BY <1>3 DEF RemoveStaleLock, archiveVars, vars
<1> QED BY <1>1, <1>2, <1>3 DEF Next

\* Selection takes the locked primaries over and chooses the others from the archive.
LEMMA SelectionSettles ==
  ASSUME IInv, Settled, NEW e \in Evaluators, SelectArchives(e)
  PROVE /\ \A g \in Gameweeks : selected'[e][g] # NoCase => selected'[e][g] \in cases
        /\ \E min, max \in Gameweeks : Covers(e, min, max)'
<1>0. TypeOK /\ OnePrimary
  BY DEF IInv, StudyInv
<1>1. PICK min \in Gameweeks, max \in Gameweeks, s \in [Gameweeks -> cases \cup {NoCase}] :
         /\ \A g \in Gameweeks : s[g] \in IF g \in min..max THEN Choices(g) ELSE {NoCase}
         /\ selected' = [selected EXCEPT ![e] = s]
  BY DEF SelectArchives
<1>2. selected'[e] = s
  BY <1>0, <1>1 DEF TypeOK
<1>3. ASSUME NEW x \in ledger, x.gw \in min..max PROVE s[x.gw] = x.case
  <2>1. x.gw \in Gameweeks
    BY <1>0 DEF TypeOK, Entry
  <2>2. x.case \in LockedFor(x.gw)
    BY DEF LockedFor
  <2>3. s[x.gw] \in LockedFor(x.gw)
    BY <1>1, <1>3, <2>1, <2>2 DEF Choices
  <2>4. PICK y \in ledger : y.gw = x.gw /\ y.case = s[x.gw]
    BY <2>3 DEF LockedFor
  <2> QED BY <1>0, <2>4 DEF OnePrimary
<1>4. ASSUME NEW g \in Gameweeks, s[g] # NoCase PROVE g \in min..max
  BY <1>1, <1>4
<1>5. ledger' = ledger
  BY DEF SelectArchives, ledgerVars
<1>6. Covers(e, min, max)'
  BY <1>2, <1>3, <1>4, <1>5 DEF Covers
<1> QED BY <1>1, <1>2, <1>6

\* The invariant holds throughout.
LEMMA SettledStep ==
  ASSUME IInv, Settled, [Next]_vars PROVE Settled'
<1>0. TypeOK /\ EvaluationsProgress
  BY DEF IInv, StudyInv
<1>1. cases \subseteq cases'
  BY CasesGrow
<1>2. ASSUME UNCHANGED <<ledger, epc, selected>> PROVE Settled'
  BY <1>1, <1>2 DEF Settled, Covers
<1>3. ASSUME NEW e \in Evaluators, EvaluatorStep(e) PROVE Settled'
  <2>1. \A d \in Evaluators : d # e => epc'[d] = "idle"
    BY <1>3, OthersAreIdle
  <2>2. cases' = cases
    BY <1>3, ArchiveDuringEvaluation DEF archiveVars
  <2>3. CASE SelectArchives(e)
    <3>1. ledger' = ledger
      BY <2>3 DEF SelectArchives, ledgerVars
    <3> QED BY <2>1, <2>2, <2>3, <3>1, SelectionSettles DEF Settled
  <2>4. CASE AppendLock(e)
    <3>1. PICK g \in pending[e] : ledger' = ledger \cup {[gw |-> g, case |-> selected[e][g]]}
      BY <2>4 DEF AppendLock
    <3>2. epc[e] = "append" /\ UNCHANGED <<epc, selected>>
      BY <2>4 DEF AppendLock
    <3>3. g \in Gameweeks /\ selected[e][g] \in Case
      BY <1>0, <3>1, <3>2 DEF TypeOK, EvaluationsProgress, Appending, Sound
    <3>4. selected[e][g] # NoCase /\ selected[e][g] \in cases
      BY <3>2, <3>3, ProspectiveStudyAssumption DEF Settled
    <3>5. PICK min \in Gameweeks, max \in Gameweeks : Covers(e, min, max)
      BY <3>2 DEF Settled
    <3>6. Covers(e, min, max)'
      BY <3>1, <3>2, <3>5 DEF Covers
    <3>7. \A x \in ledger' : x.case \in cases
      BY <3>1, <3>4 DEF Settled
    <3> QED BY <2>1, <2>2, <3>2, <3>6, <3>7 DEF Settled
  <2>5. CASE OpenReport(e) \/ FillReport(e)
    <3>1. UNCHANGED <<ledger, selected>> /\ epc[e] \in {"append", "fill"}
      BY <2>5 DEF OpenReport, FillReport, ledgerVars
    <3> QED BY <2>1, <2>2, <3>1 DEF Settled, Covers
  <2>6. CASE ~SelectArchives(e) /\ ~AppendLock(e) /\ ~OpenReport(e) /\ ~FillReport(e)
    <3>1. ledger' = ledger /\ epc'[e] \notin {"append", "fill"}
      BY <1>0, <1>3, <2>6 DEF TypeOK, EvaluatorStep, Evaluate, EvaluationFails, Unlock, EvaluatorDies,
         Goes, Ends
    <3> QED BY <2>1, <2>2, <3>1 DEF Settled
  <2> QED BY <2>3, <2>4, <2>5, <2>6
<1>4. ASSUME (ArchiveNext /\ UNCHANGED studyVars) \/ RemoveStaleLock \/ UNCHANGED vars
      PROVE Settled'
  BY <1>2, <1>4 DEF RemoveStaleLock, studyVars, ledgerVars, evaluatorVars, vars
<1> QED BY <1>3, <1>4 DEF Next

\* Every reachable state is settled.
LEMMA AlwaysSettled == Spec => []Settled
<1>1. Init => Settled
  BY DEF Init, Settled
<1>2. IInv /\ Settled /\ [Next]_vars => Settled'
  BY SettledStep
<1> QED BY <1>1, <1>2, StudyInvariant, PTL DEF Spec

\* A report that is filled shows the ledger over a range of gameweeks and nothing else.
LEMMA FilledReportIsLedger ==
  ASSUME IInv, Settled, NEW e \in Evaluators, FillReport(e)
  PROVE /\ output[e] \in Outputs /\ reportFile[output[e]] = "torn"
        /\ \E min, max \in Gameweeks :
             {[gw |-> g, case |-> selected[e][g]] : g \in {h \in Gameweeks : selected[e][h] # NoCase}}
               = {x \in ledger : min <= x.gw /\ x.gw <= max}
<1>0. TypeOK /\ LockHeld /\ Filling(e) /\ epc[e] = "fill"
  BY DEF IInv, StudyInv, EvaluationsProgress, FillReport
<1>1. output[e] \in Outputs /\ reportFile[output[e]] = "torn"
  BY <1>0 DEF LockHeld, Active, Filling
<1>2. PICK min \in Gameweeks, max \in Gameweeks : Covers(e, min, max)
  BY <1>0 DEF Settled
<1>3. \A g \in Gameweeks : g \in min..max <=> min <= g /\ g <= max
  BY <1>2, ReplayArchiveAssumption
<1>4. ASSUME NEW g \in Gameweeks, selected[e][g] # NoCase
      PROVE [gw |-> g, case |-> selected[e][g]] \in ledger /\ min <= g /\ g <= max
  BY <1>0, <1>2, <1>3, <1>4 DEF Filling, InLedger, Covers
<1>5. ASSUME NEW x \in ledger, min <= x.gw, x.gw <= max
      PROVE /\ x.gw \in Gameweeks /\ selected[e][x.gw] # NoCase
            /\ x = [gw |-> x.gw, case |-> selected[e][x.gw]]
  <2>1. x \in Entry
    BY <1>0 DEF TypeOK
  <2>2. selected[e][x.gw] = x.case
    BY <1>2, <1>3, <1>5, <2>1 DEF Covers, Entry
  <2> QED BY <2>1, <2>2, ProspectiveStudyAssumption DEF Entry
<1>6. {[gw |-> g, case |-> selected[e][g]] : g \in {h \in Gameweeks : selected[e][h] # NoCase}}
        = {x \in ledger : min <= x.gw /\ x.gw <= max}
  BY <1>4, <1>5
<1> QED BY <1>1, <1>6

\* Every step locks one primary for good, publishes one report or does nothing that the
\* register sees.
LEMMA StepImplementsRegister ==
  ASSUME IInv, Settled, [Next]_vars
  PROVE [Register!RegisterNext]_(Register!registerVars)
<1> DEFINE view == [o \in Outputs |-> IF reportFile[o] = "whole" THEN Shown(o) ELSE NoCase]
<1>0. TypeOK /\ LockHeld /\ EvaluationsProgress
  BY DEF IInv, StudyInv
<1>1. ASSUME ledger' = ledger, reportFile' = reportFile, published' = published
      PROVE UNCHANGED <<ledger, view>>
  BY <1>1 DEF Shown
<1>2. ASSUME NEW e \in Evaluators, AppendLock(e)
      PROVE Register!RegisterNext
  <2>1. PICK g \in pending[e] : ledger' = ledger \cup {[gw |-> g, case |-> selected[e][g]]}
    BY <1>2 DEF AppendLock
  <2>2. g \in Gameweeks /\ selected[e][g] \in Case /\ \A x \in ledger : x.gw # g
    BY <1>0, <1>2, <2>1 DEF TypeOK, EvaluationsProgress, Appending, AppendLock, Sound
  <2>3. view' = view
    BY <1>2 DEF AppendLock, Shown, reportVars
  <2>4. ledger' # ledger
    <3>1. PICK y : y = [gw |-> g, case |-> selected[e][g]]
      OBVIOUS
    <3>2. y \in ledger' /\ y.gw = g
      BY <2>1, <3>1
    <3> QED BY <2>2, <3>2
  <2>5. Register!LockPrimary(g, selected[e][g])
    BY <2>1, <2>2, <2>3 DEF Register!LockPrimary
  <2>6. Register!LockSome
    BY <2>2, <2>4, <2>5, Zenon DEF Register!LockSome
  <2> QED BY <2>6 DEF Register!RegisterNext
<1>3. ASSUME NEW e \in Evaluators, OpenReport(e)
      PROVE UNCHANGED <<ledger, view>>
  <2>1. ledger' = ledger /\ published' = published
    BY <1>3 DEF OpenReport, ledgerVars
  <2>2. output[e] \in Outputs
    BY <1>0, <1>3 DEF OpenReport, LockHeld, Active
  <2>3. \A o \in Outputs : reportFile'[o] = "whole" <=> reportFile[o] = "whole"
    BY <1>0, <1>3, <2>2 DEF OpenReport, TypeOK
  <2> QED BY <2>1, <2>3 DEF Shown
<1>4. ASSUME NEW e \in Evaluators, FillReport(e)
      PROVE Register!RegisterNext
  <2>1. PICK o \in Outputs : o = output[e]
    BY <1>4, FilledReportIsLedger
  <2>0. reportFile[o] = "torn" /\ ledger' = ledger
    BY <1>4, <2>1, FilledReportIsLedger DEF FillReport, ledgerVars
  <2>2. PICK min \in Gameweeks, max \in Gameweeks :
          {[gw |-> g, case |-> selected[e][g]] : g \in {h \in Gameweeks : selected[e][h] # NoCase}}
            = {x \in ledger : min <= x.gw /\ x.gw <= max}
    BY <1>4, FilledReportIsLedger
  <2>3. /\ reportFile' = [reportFile EXCEPT ![o] = "whole"]
        /\ published' = [published EXCEPT ![o] = selected[e]]
    BY <1>4, <2>1 DEF FillReport
  <2>4. /\ reportFile'[o] = "whole" /\ published'[o] = selected[e]
        /\ \A q \in Outputs : q # o => /\ reportFile'[q] = reportFile[q]
                                      /\ published'[q] = published[q]
    BY <1>0, <2>3 DEF TypeOK
  <2>5. Shown(o)' = {x \in ledger : min <= x.gw /\ x.gw <= max}
    BY <2>2, <2>4 DEF Shown
  <2>6. \A q \in Outputs : q # o => Shown(q)' = Shown(q)
    BY <2>4 DEF Shown
  <2>7. /\ view[o] = NoCase
        /\ view' = [view EXCEPT ![o] = {x \in ledger : min <= x.gw /\ x.gw <= max}]
    BY <2>0, <2>4, <2>5, <2>6
  <2>8. Register!Publish(o)
    <3>1. \E lo, hi \in Gameweeks :
            view' = [view EXCEPT ![o] = {x \in ledger : lo <= x.gw /\ x.gw <= hi}]
      BY <2>2, <2>7, Zenon
    <3> HIDE DEF view
    <3>2. view[o] = NoCase /\ ledger' = ledger
      BY <2>0, <2>7
    <3> QED BY <3>1, <3>2 DEF Register!Publish, view
  <2> QED BY <2>8, Zenon DEF Register!RegisterNext
<1>5. ASSUME NEW e \in Evaluators, EvaluatorStep(e), ~AppendLock(e), ~OpenReport(e), ~FillReport(e)
      PROVE UNCHANGED <<ledger, reportFile, published>>
  BY <1>5 DEF EvaluatorStep, Evaluate, SelectArchives, EvaluationFails, Unlock, EvaluatorDies,
     ledgerVars, reportVars
<1>6. ASSUME (ArchiveNext /\ UNCHANGED studyVars) \/ RemoveStaleLock \/ UNCHANGED vars
      PROVE UNCHANGED <<ledger, reportFile, published>>
  BY <1>6 DEF RemoveStaleLock, studyVars, ledgerVars, reportVars, vars
<1>7. Register!RegisterNext \/ UNCHANGED <<ledger, view>>
  <2>1. ASSUME NEW e \in Evaluators, EvaluatorStep(e)
        PROVE Register!RegisterNext \/ UNCHANGED <<ledger, view>>
    BY <1>1, <1>2, <1>3, <1>4, <1>5, <2>1
  <2>2. ASSUME ~ \E e \in Evaluators : EvaluatorStep(e)
        PROVE UNCHANGED <<ledger, view>>
    <3>1. UNCHANGED <<ledger, reportFile, published>>
      BY <1>6, <2>2 DEF Next
    <3> QED BY <1>1, <3>1
  <2> QED BY <2>1, <2>2
<1> QED BY <1>7 DEF Register!registerVars

\* The evaluation implements the write-once register of primaries with immutable
\* reports: whatever overlapped, failed or died, each report is the ledger of one moment.
THEOREM StudyImplementsRegister == Spec => ImplementsPrimaryRegister
<1>1. Init => Register!RegisterInit
  BY DEF Init, Register!RegisterInit
<1>2. IInv /\ Settled /\ [Next]_vars => [Register!RegisterNext]_(Register!registerVars)
  BY StepImplementsRegister
<1> QED BY <1>1, <1>2, StudyInvariant, AlwaysSettled, PTL
      DEF Spec, ImplementsPrimaryRegister, Register!RegisterSpec

\* An evaluation is refused for one of two reasons only: the ledger ends in half a line,
\* or the desktop has saved again the analysis that a locked archive in its range refers
\* to.  A primary that the decision worker captured itself never stands in the way.
RefusalsHaveACause ==
  \A min, max \in Gameweeks : Refused(min..max) =>
    \/ tornLine
    \/ \E x \in ledger : x.gw \in min..max /\ x.case.source \in Analyses /\ ~Valid(x.case)

\* The two reasons are the only ones, in every reachable state.
THEOREM RefusalsExplained == Spec => []RefusalsHaveACause
<1>1. ASSUME IInv, Settled, NEW gws, ~tornLine,
             \A x \in ledger : x.gw \in gws /\ x.case.source \in Analyses => Valid(x.case)
      PROVE ~Refused(gws)
  <2>0. TypeOK /\ OnePrimary /\ LedgerSound /\ ArchiveInv
    BY <1>1 DEF IInv, StudyInv
  <2>1. ASSUME NEW x \in ledger, x.gw \in gws PROVE x.case \in Eligible(x.gw)
    <3>1. x.case \in cases /\ x.case \in Case /\ Sound(x.gw, x.case)
      BY <1>1, <2>0 DEF Settled, LedgerSound, Sound
    <3>2. x.case.source \in Analyses \/ x.case.source = Capture
      BY <3>1 DEF Case
    <3>3. Valid(x.case)
      BY <1>1, <2>0, <2>1, <3>1, <3>2 DEF ArchiveInv, CapturedCasesStayValid
    <3> QED BY <3>1, <3>3 DEF Eligible, Sound
  <2> QED BY <1>1, <2>0, <2>1 DEF Refused, OnePrimary
<1>2. IInv /\ Settled => RefusalsHaveACause
  BY <1>1 DEF RefusalsHaveACause
<1> QED BY <1>2, StudyInvariant, AlwaysSettled, PTL

=============================================================================
