--------------------------- MODULE ProspectiveStudy ---------------------------
(***************************************************************************)
(* The prospective evaluation (validation/prospective.py) on top of the    *)
(* evidence of ReplayArchive: runs of the evaluator share a selection      *)
(* ledger and exclude each other with a lock file, choose one primary      *)
(* archive per gameweek and publish immutable reports, while decisions are *)
(* still being captured and analyses still being saved.  A run may raise   *)
(* or die at any step; a dead run leaves its lock file behind.             *)
(***************************************************************************)
EXTENDS ReplayArchive

CONSTANTS
  Evaluators,   \* processes that run evaluate()
  Outputs,      \* report directories
  NoCase, NoOutput

ASSUME ProspectiveStudyAssumption == NoCase \notin Case /\ NoOutput \notin Outputs

VARIABLES
  lockFile,     \* the ledger's ".lock" file exists
  ledger,       \* complete lines of the ledger: [gw, case]
  tornLine,     \* the ledger ends in half a line
  epc,          \* per evaluator: next step
  output,       \* per evaluator: its report directory
  selected,     \* per evaluator: primary archive of each gameweek
  pending,      \* per evaluator: gameweeks whose new lock is not appended yet
  reportFile,   \* per report directory: state of the report in it
  published     \* per report directory: the primaries its report shows

evaluatorVars == <<epc, output, selected, pending>>
ledgerVars == <<lockFile, ledger, tornLine>>
reportVars == <<reportFile, published>>
studyVars == <<ledgerVars, evaluatorVars, reportVars>>
vars == <<archiveVars, studyVars>>

-----------------------------------------------------------------------------
Selection == [Gameweeks -> Case \cup {NoCase}]

Entry == [gw : Gameweeks, case : Case]

NothingSelected == [g \in Gameweeks |-> NoCase]

Active(e) == epc[e] # "idle"

TypeOK ==
  /\ ArchiveTypeOK
  /\ lockFile \in BOOLEAN
  /\ ledger \subseteq Entry
  /\ tornLine \in BOOLEAN
  /\ epc \in [Evaluators -> {"idle", "select", "append", "fill", "unlock"}]
  /\ output \in [Evaluators -> Outputs \cup {NoOutput}]
  /\ selected \in [Evaluators -> Selection]
  /\ pending \in [Evaluators -> SUBSET Gameweeks]
  /\ reportFile \in [Outputs -> {"absent", "torn", "whole"}]
  /\ published \in [Outputs -> Selection]

Init ==
  /\ ArchiveInit
  /\ lockFile = FALSE
  /\ ledger = {}
  /\ tornLine = FALSE
  /\ epc = [e \in Evaluators |-> "idle"]
  /\ output = [e \in Evaluators |-> NoOutput]
  /\ selected = [e \in Evaluators |-> NothingSelected]
  /\ pending = [e \in Evaluators |-> {}]
  /\ reportFile = [o \in Outputs |-> "absent"]
  /\ published = [o \in Outputs |-> NothingSelected]

-----------------------------------------------------------------------------
Goes(e, step) == epc' = [epc EXCEPT ![e] = step]

\* The call is over and its local variables are gone.
Ends(e) ==
  /\ Goes(e, "idle")
  /\ output' = [output EXCEPT ![e] = NoOutput]
  /\ selected' = [selected EXCEPT ![e] = NothingSelected]
  /\ pending' = [pending EXCEPT ![e] = {}]

\* Defect: an existing lock file is taken for the own one.
Evaluate_LockIgnored(e, o) ==
  /\ epc[e] = "idle"
  /\ lockFile' = TRUE
  /\ Goes(e, "select")
  /\ output' = [output EXCEPT ![e] = o]
  /\ UNCHANGED <<archiveVars, ledger, tornLine, selected, pending, reportVars>>

\* evaluate: the lock file is created exclusively, or the call is refused.
Evaluate(e, o) ==
  /\ epc[e] = "idle"
  /\ ~lockFile
  /\ lockFile' = TRUE
  /\ Goes(e, "select")
  /\ output' = [output EXCEPT ![e] = o]
  /\ UNCHANGED <<archiveVars, ledger, tornLine, selected, pending, reportVars>>

\* Defect: the creation time of the archive is not compared with the deadline.
Eligible_AnyTime(g) ==
  {c \in cases : reports[c.decision].gw = g /\ Valid(c) /\ reports[c.decision].prediction < Deadline[g]}

Eligible(g) ==
  {c \in cases : /\ reports[c.decision].gw = g
                 /\ Valid(c)
                 /\ c.at < Deadline[g]
                 /\ reports[c.decision].prediction < Deadline[g]}

\* Latest prediction, then latest archive; the path breaks the remaining ties.
Later(b, c) ==
  LET p == reports[b.decision].prediction
      q == reports[c.decision].prediction
  IN  p > q \/ (p = q /\ b.at > c.at)

Latest(S) == {c \in S : \A b \in S : ~Later(b, c)}

LockedFor(g) == {x.case : x \in {y \in ledger : y.gw = g}}

\* A ledger that cannot be read, or a locked archive in the range that is not
\* eligible any more, ends the whole evaluation.
Refused(gws) ==
  \/ tornLine
  \/ \E x, y \in ledger : x.gw = y.gw /\ x # y
  \/ \E x \in ledger : x.gw \in gws /\ x.case \notin Eligible(x.gw)

Choices(g) ==
  IF LockedFor(g) # {} THEN LockedFor(g)
  ELSE IF Eligible(g) # {} THEN Latest(Eligible(g)) ELSE {NoCase}

\* The gameweeks of selection s that get a new lock.  Defect: also those without
\* any eligible archive.
NewLocks_All(s) == {g \in Gameweeks : LockedFor(g) = {}}

NewLocks(s) == {g \in Gameweeks : s[g] # NoCase /\ LockedFor(g) = {}}

\* _select_archives over the range of gameweeks asked for (gw_min to gw_max, an
\* argument of the call that is first used here): locked primaries are kept, the
\* others are chosen now.
SelectArchives(e) ==
  /\ epc[e] = "select"
  /\ \E min, max \in Gameweeks :
       /\ min <= max
       /\ ~Refused(min..max)
       /\ \E s \in [Gameweeks -> cases \cup {NoCase}] :
            /\ \A g \in Gameweeks : s[g] \in IF g \in min..max THEN Choices(g) ELSE {NoCase}
            /\ selected' = [selected EXCEPT ![e] = s]
            /\ pending' = [pending EXCEPT ![e] = NewLocks(s)]
  /\ Goes(e, "append")
  /\ UNCHANGED <<archiveVars, ledgerVars, output, reportVars>>

\* Lines are buffered and written without an fsync: an interrupted append may
\* leave half a line.
LinesMayTear(e) ==
  \/ epc[e] = "append" /\ pending[e] # {} /\ tornLine' = TRUE
  \/ UNCHANGED tornLine

\* Anything raised on the way; what was appended or half written stays.
EvaluationFails(e) ==
  /\ epc[e] \in {"select", "append", "fill"}
  /\ Goes(e, "unlock")
  /\ LinesMayTear(e)
  /\ UNCHANGED <<archiveVars, lockFile, ledger, output, selected, pending, reportVars>>

\* The lines of the new locks, in the order of the gameweeks.
AppendLock(e) ==
  /\ epc[e] = "append"
  /\ \E g \in pending[e] :
       /\ \A h \in pending[e] : g <= h
       /\ ledger' = ledger \cup {[gw |-> g, case |-> selected[e][g]]}
       /\ pending' = [pending EXCEPT ![e] = @ \ {g}]
  /\ UNCHANGED <<archiveVars, lockFile, tornLine, epc, output, selected, reportVars>>

\* Defect: the report is opened while locks are still to be appended.
OpenReport_BeforeLocks(e) ==
  /\ epc[e] = "append"
  /\ IF reportFile[output[e]] = "absent"
     THEN Goes(e, "fill") /\ reportFile' = [reportFile EXCEPT ![output[e]] = "torn"]
     ELSE Goes(e, "unlock") /\ UNCHANGED reportFile
  /\ UNCHANGED <<archiveVars, ledgerVars, output, selected, pending, published>>

\* Defect: an existing report is written again.
OpenReport_Overwrites(e) ==
  /\ epc[e] = "append"
  /\ pending[e] = {}
  /\ Goes(e, "fill")
  /\ reportFile' = [reportFile EXCEPT ![output[e]] = "torn"]
  /\ UNCHANGED <<archiveVars, ledgerVars, output, selected, pending, published>>

\* open("x"): an existing report is compared and never replaced.
OpenReport(e) ==
  /\ epc[e] = "append"
  /\ pending[e] = {}
  /\ IF reportFile[output[e]] = "absent"
     THEN Goes(e, "fill") /\ reportFile' = [reportFile EXCEPT ![output[e]] = "torn"]
     ELSE Goes(e, "unlock") /\ UNCHANGED reportFile
  /\ UNCHANGED <<archiveVars, ledgerVars, output, selected, pending, published>>

FillReport(e) ==
  /\ epc[e] = "fill"
  /\ Goes(e, "unlock")
  /\ reportFile' = [reportFile EXCEPT ![output[e]] = "whole"]
  /\ published' = [published EXCEPT ![output[e]] = selected[e]]
  /\ UNCHANGED <<archiveVars, ledgerVars, output, selected, pending>>

\* The finally block: the lock file is unlinked.
Unlock(e) ==
  /\ epc[e] = "unlock"
  /\ Ends(e)
  /\ lockFile' = FALSE
  /\ UNCHANGED <<archiveVars, ledger, tornLine, reportVars>>

\* Death leaves the lock file behind as well.
EvaluatorDies(e) ==
  /\ Active(e)
  /\ Ends(e)
  /\ LinesMayTear(e)
  /\ UNCHANGED <<archiveVars, lockFile, ledger, reportVars>>

\* Defect: the lock is broken without looking for a running evaluation.
RemoveStaleLock_Unchecked ==
  /\ lockFile
  /\ lockFile' = FALSE
  /\ UNCHANGED <<archiveVars, ledger, tornLine, evaluatorVars, reportVars>>

\* The documented repair: remove the lock after checking that no evaluation runs.
RemoveStaleLock ==
  /\ lockFile
  /\ \A e \in Evaluators : ~Active(e)
  /\ lockFile' = FALSE
  /\ UNCHANGED <<archiveVars, ledger, tornLine, evaluatorVars, reportVars>>

-----------------------------------------------------------------------------
EvaluatorStep(e) ==
  \/ \E o \in Outputs : Evaluate(e, o)
  \/ SelectArchives(e) \/ EvaluationFails(e)
  \/ AppendLock(e) \/ OpenReport(e) \/ FillReport(e)
  \/ Unlock(e) \/ EvaluatorDies(e)

Next ==
  \/ ArchiveNext /\ UNCHANGED studyVars
  \/ \E e \in Evaluators : EvaluatorStep(e)
  \/ RemoveStaleLock

Spec == Init /\ [][Next]_vars

-----------------------------------------------------------------------------
(* Properties *)

\* Evaluations that share a ledger never overlap, whatever died before.
OneEvaluation ==
  \A d, e \in Evaluators : Active(d) /\ Active(e) => d = e

\* A gameweek gets one primary archive, over all evaluations ever run.
OnePrimary == \A x, y \in ledger : x.gw = y.gw => x = y

\* A primary was predicted and archived before the deadline of its gameweek.
PrimariesAreProspective ==
  \A x \in ledger :
    /\ reports[x.case.decision].gw = x.gw
    /\ reports[x.case.decision].prediction < Deadline[x.gw]
    /\ x.case.at < Deadline[x.gw]

\* Every published report shows locked primaries only, so all reports agree.
ReportsShowLockedPrimaries ==
  \A o \in Outputs : reportFile[o] = "whole" =>
    \A g \in Gameweeks : published[o][g] # NoCase => [gw |-> g, case |-> published[o][g]] \in ledger

\* What an evaluation scores is intact when it is selected: a locked archive that
\* was changed, or lost what it refers to, is refused and never scored.
ScoredEvidenceIsIntact ==
  [][\A e \in Evaluators : epc[e] = "select" /\ epc'[e] = "append" =>
       \A g \in Gameweeks : selected'[e][g] # NoCase => selected'[e][g] \in Eligible(g)]_vars

\* What the report in directory o says of the primaries.
Shown(o) ==
  {[gw |-> g, case |-> published[o][g]] : g \in {h \in Gameweeks : published[o][h] # NoCase}}

Register == INSTANCE PrimaryRegister WITH
  Archives <- Case, Unpublished <- NoCase, register <- ledger,
  report <- [o \in Outputs |-> IF reportFile[o] = "whole" THEN Shown(o) ELSE NoCase]

\* Evaluations that overlap, fail, die and are retried come to a write-once register:
\* no primary is ever replaced or lost, and a report is published once and shows, for
\* its range of gameweeks, all primaries locked at that moment and no others.
ImplementsPrimaryRegister == Register!RegisterSpec

-----------------------------------------------------------------------------
(* What the documents of the repository say and the code does not do *)

\* Archived analyses are never rewritten, so a locked archive stays valid.
LockedEvidenceStaysValid == \A x \in ledger : Valid(x.case)
=============================================================================
