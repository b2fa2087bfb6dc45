------------------------ MODULE DesktopWorkflow_proofs ------------------------
(* Proofs about DesktopWorkflow, for any set of accounts and projection runs. *)
EXTENDS DesktopWorkflow, TLAPS

USE BoundsAssumption, SentinelAssumption

-----------------------------------------------------------------------------
(* Type correctness.  TypeOK is not inductive on its own: a cancellation arms   *)
(* the timer of chip run nChip, so a running chip worker has to be numbered.    *)

\* A running worker has the request it was started with.
ChipHasJob == "chip" \in busy => cJob \in ChipReport /\ nChip \in 1..MaxChips

DecisionHasJob == "decision" \in busy => dJob \in DecisionReport

\* What holds of the four process slots between two events.
WorkersInv ==
  /\ OneWorker
  /\ RunFlagsFollowWorkers
  /\ CancelFileIsOfThisRun
  /\ ChipHasJob
  /\ DecisionHasJob

\* What saving the active analysis may change, whatever reports are saved.
LEMMA PersistType ==
  ASSUME TypeOK,
         NEW status \in {"COMPLETE", "PARTIAL", "ERROR"},
         NEW d \in DecisionReport \cup {NoReport},
         NEW c \in ChipReport \cup {NoReport},
         Persist(status, d, c)
  PROVE  /\ history' \in [RunIds -> Manifest \cup {NoRun}]
         /\ sel' \in Bundles \cup {NoBundle}
<1>1. CASE active # NoRun /\ SameProjectionRun(d) /\ SameDecision(d, c)
  <2>1. active \in [id : RunIds, state : Accounts, bundle : Bundles]
    BY <1>1 DEF TypeOK
  <2>2. [status |-> status, state |-> active.state, bundle |-> active.bundle,
         decision |-> d, chip |-> c] \in Manifest
    BY <2>1 DEF Manifest
  <2>3. QED BY <1>1, <2>1, <2>2 DEF Persist, TypeOK
<1>2. CASE ~(active # NoRun /\ SameProjectionRun(d) /\ SameDecision(d, c))
  BY <1>2 DEF Persist, TypeOK
<1>3. QED BY <1>1, <1>2

\* A failed decision stage leaves state, history and selection in their ranges.
LEMMA AfterDecisionFailedType ==
  ASSUME TypeOK,
         NEW f \in FullAnalysisState,
         NEW d \in DecisionReport \cup {NoReport},
         NEW c \in ChipReport \cup {NoReport},
         AfterDecisionFailed(f, d, c)
  PROVE  /\ full' \in FullAnalysisState
         /\ history' \in [RunIds -> Manifest \cup {NoRun}]
         /\ sel' \in Bundles \cup {NoBundle}
<1>1. CASE f \in RUNNING_FULL_ANALYSIS_STATES
  <2>1. full' = "ERROR" /\ Persist("ERROR", d, c)
    BY <1>1 DEF AfterDecisionFailed
  <2>2. QED BY <2>1, PersistType DEF FullAnalysisState
<1>2. CASE f \notin RUNNING_FULL_ANALYSIS_STATES
  BY <1>2 DEF AfterDecisionFailed, TypeOK
<1>3. QED BY <1>1, <1>2

\* So does the end of a chip stage.
LEMMA AfterChipType ==
  ASSUME TypeOK,
         NEW f \in FullAnalysisState,
         NEW status \in {"COMPLETE", "PARTIAL"},
         NEW d \in DecisionReport \cup {NoReport},
         NEW c \in ChipReport \cup {NoReport},
         AfterChip(f, status, d, c)
  PROVE  /\ full' \in FullAnalysisState
         /\ history' \in [RunIds -> Manifest \cup {NoRun}]
         /\ sel' \in Bundles \cup {NoBundle}
<1>1. CASE f = "CHIP_SCREEN"
  <2>1. full' = status /\ Persist(status, d, c)
    BY <1>1 DEF AfterChip
  <2>2. QED BY <2>1, PersistType DEF FullAnalysisState
<1>2. CASE f # "CHIP_SCREEN"
  BY <1>2 DEF AfterChip, TypeOK
<1>3. QED BY <1>1, <1>2

\* Everything start_chip_run may change, on each of its four ways out.
LEMMA StartChipType ==
  ASSUME TypeOK,
         NEW f \in FullAnalysisState,
         NEW d \in DecisionReport \cup {NoReport},
         NEW b \in SUBSET Slots,
         start_chip_run(f, d, b)
  PROVE  /\ busy' \subseteq Slots
         /\ chipRun' \in ChipRunState
         /\ full' \in FullAnalysisState
         /\ retryEnabled' \in BOOLEAN
         /\ sel' \in Bundles \cup {NoBundle}
         /\ cJob' \in ChipReport \cup {NoReport}
         /\ history' \in [RunIds -> Manifest \cup {NoRun}]
         /\ nChip' \in 0..MaxChips
         /\ cancelRequested' \in BOOLEAN
         /\ cancelFile' \in BOOLEAN
         /\ timers' \subseteq 1..MaxChips
         /\ killedBy' \in 0..MaxChips
<1>1. CASE ChipRefused(f, d, b)
  BY <1>1 DEF ChipRefused, TypeOK, ChipRunState, cancelVars
<1>2. CASE ChipCouldNotStart(f, d, b)
  <2>1. AfterChip(f, "PARTIAL", d, cReport)
    BY <1>2 DEF ChipCouldNotStart
  <2>2. cReport \in ChipReport \cup {NoReport}
    BY DEF TypeOK
  <2>3. /\ full' \in FullAnalysisState
        /\ history' \in [RunIds -> Manifest \cup {NoRun}]
        /\ sel' \in Bundles \cup {NoBundle}
    BY <2>1, <2>2, AfterChipType
  <2>4. QED BY <1>2, <2>3 DEF ChipCouldNotStart, TypeOK, ChipRunState, cancelVars
<1>3. CASE ChipRequestNotWritten(f, d, b)
  BY <1>3 DEF ChipRequestNotWritten, TypeOK, cancelVars
<1>4. CASE ChipStarted(f, d, b)
  <2>1. cJob' \in ChipReport
    BY <1>4 DEF ChipStarted, ChipReport, TypeOK
  <2>2. nChip' \in 0..MaxChips
    BY <1>4 DEF ChipStarted, TypeOK
  <2>3. busy' \subseteq Slots
    BY <1>4 DEF ChipStarted, Slots
  <2>4. /\ retryEnabled' \in BOOLEAN
        /\ cancelRequested' \in BOOLEAN
        /\ cancelFile' \in BOOLEAN
    BY <1>4 DEF ChipStarted
  <2>5. killedBy' \in 0..MaxChips
    BY <1>4 DEF ChipStarted
  <2>6. QED BY <1>4, <2>1, <2>2, <2>3, <2>4, <2>5 DEF ChipStarted, TypeOK, ChipRunState
<1>5. QED BY <1>1, <1>2, <1>3, <1>4 DEF start_chip_run

\* Everything the start of a decision worker may change.
LEMMA DecisionStartedType ==
  ASSUME TypeOK, NEW f \in FullAnalysisState, DecisionStarted(f)
  PROVE  /\ busy' \subseteq Slots
         /\ decisionRun' \in DecisionRunState
         /\ full' \in FullAnalysisState
         /\ dJob' \in DecisionReport
         /\ nDecision' \in 0..MaxDecisions
         /\ sel' \in Bundles
         /\ history' \in [RunIds -> Manifest \cup {NoRun}]
<1>1. nDecision + 1 \in 1..MaxDecisions
  BY DEF DecisionStarted, TypeOK
<1>2. dJob' \in DecisionReport
  BY <1>1 DEF DecisionStarted, DecisionReport, TypeOK
<1>3. QED BY <1>1, <1>2 DEF DecisionStarted, TypeOK, Slots, DecisionRunState

\* A fresh window has the right types.
LEMMA InitType == Init => TypeOK
<1> SUFFICES ASSUME Init PROVE TypeOK
  OBVIOUS
<1>1. sel \in Bundles \cup {NoBundle} /\ runs \subseteq Bundles
  BY DEF Init
<1>2. history \in [RunIds -> Manifest \cup {NoRun}]
  BY DEF Init
<1>3. /\ busy \subseteq Slots
      /\ timers \subseteq 1..MaxChips
  BY DEF Init
<1>4. /\ lastRun \in 0..MaxAnalyses
      /\ nDecision \in 0..MaxDecisions
      /\ nChip \in 0..MaxChips
      /\ killedBy \in 0..MaxChips
  BY DEF Init
<1>5. QED
  BY <1>1, <1>2, <1>3, <1>4
  DEF Init, TypeOK, DecisionRunState, ChipRunState, FullAnalysisState

\* The chip screen's own three ways to end.
LEMMA ChipFinishedType == TypeOK /\ chip_finished => TypeOK'
<1> SUFFICES ASSUME TypeOK, chip_finished PROVE TypeOK'
  OBVIOUS
<1> USE DEF ChipRunState
<1>1. cJob \in ChipReport \cup {NoReport} /\ cReport \in ChipReport \cup {NoReport}
      /\ dReport \in DecisionReport \cup {NoReport} /\ full \in FullAnalysisState
  BY DEF TypeOK
<1>2. /\ chipRun' \in ChipRunState
      /\ retryEnabled' \in BOOLEAN
      /\ cancelRequested' \in BOOLEAN
      /\ cReport' \in ChipReport \cup {NoReport}
      /\ full' \in FullAnalysisState
      /\ history' \in [RunIds -> Manifest \cup {NoRun}]
      /\ sel' \in Bundles \cup {NoBundle}
  <2>1. CASE ChipCancelled
    <3>1. AfterChip(full, "PARTIAL", dReport, cReport)
      BY <2>1 DEF ChipCancelled
    <3>2. QED BY <1>1, <2>1, <3>1, AfterChipType DEF ChipCancelled, TypeOK
  <2>2. CASE ChipFailed
    <3>1. AfterChip(full, "PARTIAL", dReport, cReport)
      BY <2>2 DEF ChipFailed
    <3>2. QED BY <1>1, <2>2, <3>1, AfterChipType DEF ChipFailed, TypeOK
  <2>3. CASE ChipSucceeded
    <3>1. AfterChip(full, "COMPLETE", dReport, cJob)
      BY <2>3 DEF ChipSucceeded
    <3>2. QED BY <1>1, <2>3, <3>1, AfterChipType DEF ChipSucceeded, TypeOK
  <2>4. QED BY <2>1, <2>2, <2>3 DEF chip_finished
<1>3. QED BY <1>2 DEF chip_finished, TypeOK

\* The callback of a decision worker, chip start included, keeps the types.
LEMMA DecisionFinishedType == TypeOK /\ decision_finished => TypeOK'
<1> SUFFICES ASSUME TypeOK, decision_finished PROVE TypeOK'
  OBVIOUS
<1> USE DEF DecisionRunState
<1>1. dJob \in DecisionReport \cup {NoReport} /\ cReport \in ChipReport \cup {NoReport}
      /\ dReport \in DecisionReport \cup {NoReport} /\ full \in FullAnalysisState
      /\ busy \ {"decision"} \in SUBSET Slots
  BY DEF TypeOK
<1>2. CASE DecisionFailed
  <2>1. AfterDecisionFailed(full, dReport, cReport)
    BY <1>2 DEF DecisionFailed
  <2>2. /\ full' \in FullAnalysisState
        /\ history' \in [RunIds -> Manifest \cup {NoRun}]
        /\ sel' \in Bundles \cup {NoBundle}
    BY <1>1, <2>1, AfterDecisionFailedType
  <2>3. QED BY <1>1, <1>2, <2>2 DEF DecisionFailed, decision_finished, TypeOK, cancelVars
<1>3. CASE DecisionNotShown
  <2>1. AfterDecisionFailed(full, dJob, cReport)
    BY <1>3 DEF DecisionNotShown
  <2>2. /\ full' \in FullAnalysisState
        /\ history' \in [RunIds -> Manifest \cup {NoRun}]
        /\ sel' \in Bundles \cup {NoBundle}
    BY <1>1, <2>1, AfterDecisionFailedType
  <2>3. QED BY <1>1, <1>3, <2>2 DEF DecisionNotShown, decision_finished, TypeOK, cancelVars
<1>4. CASE DecisionSucceeded
  <2>1. CASE full \in RUNNING_FULL_ANALYSIS_STATES
    <3>1. start_chip_run("CHIP_SCREEN", dJob, busy \ {"decision"})
      BY <1>4, <2>1 DEF DecisionSucceeded
    <3>2. "CHIP_SCREEN" \in FullAnalysisState
      BY DEF FullAnalysisState
    <3>3. /\ busy' \subseteq Slots
          /\ chipRun' \in ChipRunState
          /\ full' \in FullAnalysisState
          /\ retryEnabled' \in BOOLEAN
          /\ sel' \in Bundles \cup {NoBundle}
          /\ cJob' \in ChipReport \cup {NoReport}
          /\ history' \in [RunIds -> Manifest \cup {NoRun}]
          /\ nChip' \in 0..MaxChips
          /\ cancelRequested' \in BOOLEAN
          /\ cancelFile' \in BOOLEAN
          /\ timers' \subseteq 1..MaxChips
          /\ killedBy' \in 0..MaxChips
      BY <1>1, <3>1, <3>2, StartChipType
    <3>4. QED BY <1>1, <1>4, <3>3 DEF DecisionSucceeded, decision_finished, TypeOK
  <2>2. CASE full \notin RUNNING_FULL_ANALYSIS_STATES
    BY <1>1, <1>4, <2>2 DEF DecisionSucceeded, decision_finished, TypeOK, cancelVars
  <2>3. QED BY <2>1, <2>2
<1>5. QED BY <1>2, <1>3, <1>4 DEF decision_finished

\* The two buttons that start a decision worker keep the types.
LEMMA StartsType ==
  TypeOK /\ (start_decision_run \/ start_full_analysis) => TypeOK'
<1> SUFFICES ASSUME TypeOK PROVE start_decision_run \/ start_full_analysis => TypeOK'
  OBVIOUS
<1> USE DEF DecisionRunState
<1>1. /\ full \in FullAnalysisState /\ "DECISION" \in FullAnalysisState
      /\ "ERROR" \in FullAnalysisState
      /\ dReport \in DecisionReport \cup {NoReport}
      /\ cReport \in ChipReport \cup {NoReport}
  BY DEF TypeOK, FullAnalysisState
<1>2. ASSUME start_decision_run PROVE TypeOK'
  <2>1. CASE DecisionStarted(full)
    BY <1>1, <1>2, <2>1, DecisionStartedType DEF start_decision_run, TypeOK, cancelVars
  <2>2. CASE DecisionCouldNotStart(full, dReport, cReport)
    <3>1. AfterDecisionFailed(full, dReport, cReport)
      BY <2>2 DEF DecisionCouldNotStart
    <3>2. /\ full' \in FullAnalysisState
          /\ history' \in [RunIds -> Manifest \cup {NoRun}]
          /\ sel' \in Bundles \cup {NoBundle}
      BY <1>1, <3>1, AfterDecisionFailedType
    <3>3. QED BY <1>2, <2>2, <3>2
              DEF DecisionCouldNotStart, start_decision_run, TypeOK, cancelVars
  <2>3. CASE DecisionRequestNotWritten(full)
    BY <1>2, <2>3 DEF DecisionRequestNotWritten, start_decision_run, TypeOK, cancelVars
  <2>4. QED BY <1>2, <2>1, <2>2, <2>3 DEF start_decision_run
<1>3. ASSUME start_full_analysis, FullAnalysisRejected PROVE TypeOK'
  BY <1>1, <1>3 DEF start_full_analysis, FullAnalysisRejected, TypeOK, cancelVars
<1>4. ASSUME start_full_analysis, FullAnalysisBegun PROVE TypeOK'
  <2>1. lastRun + 1 \in RunIds /\ lastRun' \in 0..MaxAnalyses
    BY <1>4 DEF FullAnalysisBegun, TypeOK, RunIds
  <2>2. sel \in Bundles /\ acct \in Accounts
    BY <1>4 DEF FullAnalysisBegun, TypeOK
  <2>3. active' \in [id : RunIds, state : Accounts, bundle : Bundles]
    BY <1>4, <2>1, <2>2 DEF FullAnalysisBegun, BegunAnalysis
  <2>4. /\ busy' \subseteq Slots
        /\ decisionRun' \in DecisionRunState
        /\ full' \in FullAnalysisState
        /\ dJob' \in DecisionReport \cup {NoReport}
        /\ nDecision' \in 0..MaxDecisions
        /\ sel' \in Bundles \cup {NoBundle}
        /\ history' \in [RunIds -> Manifest \cup {NoRun}]
    <3>1. CASE DecisionStarted("DECISION")
      BY <1>1, <3>1, DecisionStartedType
    <3>2. CASE DecisionRequestNotWritten("DECISION")
      BY <1>1, <3>2 DEF DecisionRequestNotWritten, TypeOK
    <3>3. CASE /\ decisionRun' = "ERROR"
               /\ full' = "ERROR"
               /\ history' = [history EXCEPT ![lastRun + 1] =
                               [status |-> "ERROR", state |-> acct, bundle |-> sel,
                                decision |-> NoReport, chip |-> NoReport]]
               /\ UNCHANGED <<busy, dJob, nDecision, sel>>
      <4>1. [status |-> "ERROR", state |-> acct, bundle |-> sel,
             decision |-> NoReport, chip |-> NoReport] \in Manifest
        BY <2>2 DEF Manifest
      <4>2. QED BY <1>1, <2>1, <3>3, <4>1 DEF TypeOK
    <3>4. QED BY <1>4, <3>1, <3>2, <3>3 DEF FullAnalysisBegun
  <2>5. /\ dReport' = NoReport /\ cReport' = NoReport /\ historical' = FALSE
    BY <1>4 DEF FullAnalysisBegun
  <2>6. QED BY <1>4, <2>1, <2>3, <2>4, <2>5 DEF start_full_analysis, TypeOK, cancelVars
<1>5. QED BY <1>2, <1>3, <1>4 DEF start_full_analysis

\* The chip buttons and the cancellation.
LEMMA ChipButtonsType ==
  TypeOK /\ ChipHasJob
    /\ (RunChipScreen \/ retry_chip_run \/ cancel_chip_run
             \/ \E t \in timers : force_cancel_chip_worker(t)) => TypeOK'
<1> SUFFICES ASSUME TypeOK, ChipHasJob
    PROVE RunChipScreen \/ retry_chip_run \/ cancel_chip_run
          \/ (\E t \in timers : force_cancel_chip_worker(t)) => TypeOK'
  OBVIOUS
<1>1. /\ full \in FullAnalysisState /\ Resumed \in FullAnalysisState
      /\ dReport \in DecisionReport \cup {NoReport}
      /\ busy \in SUBSET Slots
  BY DEF TypeOK, Resumed, FullAnalysisState
<1>2. ASSUME RunChipScreen PROVE TypeOK'
  <2>1. start_chip_run(full, dReport, busy)
    BY <1>2 DEF RunChipScreen
  <2>2. QED BY <1>1, <1>2, <2>1, StartChipType DEF RunChipScreen, TypeOK
<1>3. ASSUME retry_chip_run PROVE TypeOK'
  <2>1. start_chip_run(Resumed, dReport, busy)
    BY <1>3 DEF retry_chip_run
  <2>2. QED BY <1>1, <1>3, <2>1, StartChipType DEF retry_chip_run, TypeOK
<1>4. ASSUME cancel_chip_run PROVE TypeOK'
  <2>1. nChip \in 1..MaxChips
    BY <1>4 DEF cancel_chip_run, ChipHasJob
  <2>2. QED BY <1>4, <2>1 DEF cancel_chip_run, TypeOK, workVars, uiVars, jobVars, reportVars
<1>5. ASSUME NEW t \in timers, force_cancel_chip_worker(t) PROVE TypeOK'
  BY <1>5 DEF force_cancel_chip_worker, TypeOK, workVars, uiVars, jobVars, reportVars
<1>6. QED BY <1>2, <1>3, <1>4, <1>5

\* Projections, account, edits, loads and restarts keep the types.
LEMMA OtherType ==
  TypeOK /\ (start_projection_run \/ projection_process_error \/ projection_finished
             \/ start_account_sync \/ account_sync_finished \/ EditSquad
             \/ save_current_state \/ reset_saved_wc \/ use_selected_projection_run
             \/ (\E id \in RunIds : load_selected_analysis(id)) \/ Restart) => TypeOK'
<1> SUFFICES ASSUME TypeOK
    PROVE start_projection_run \/ projection_process_error \/ projection_finished
          \/ start_account_sync \/ account_sync_finished \/ EditSquad
          \/ save_current_state \/ reset_saved_wc \/ use_selected_projection_run
          \/ (\E id \in RunIds : load_selected_analysis(id)) \/ Restart => TypeOK'
  OBVIOUS
<1>1. ASSUME start_projection_run PROVE TypeOK'
  BY <1>1 DEF start_projection_run, TypeOK, Slots, uiVars, jobVars, reportVars, cancelVars
<1>2. ASSUME projection_process_error PROVE TypeOK'
  BY <1>2 DEF projection_process_error, TypeOK, uiVars, jobVars, reportVars, cancelVars
<1>3. ASSUME projection_finished PROVE TypeOK'
  BY <1>3 DEF projection_finished, TypeOK, jobVars, reportVars, cancelVars
<1>4. ASSUME start_account_sync PROVE TypeOK'
  BY <1>4 DEF start_account_sync, TypeOK, Slots, uiVars, jobVars, reportVars, cancelVars
<1>5. ASSUME account_sync_finished PROVE TypeOK'
  BY <1>5 DEF account_sync_finished, AccountSynced, TypeOK, jobVars, cancelVars
<1>6. ASSUME EditSquad PROVE TypeOK'
  BY <1>6 DEF EditSquad, TypeOK, workVars, jobVars, reportVars, cancelVars
<1>7. ASSUME save_current_state PROVE TypeOK'
  BY <1>7 DEF save_current_state, TypeOK, workVars, jobVars, reportVars, cancelVars
<1>8. ASSUME reset_saved_wc PROVE TypeOK'
  BY <1>8 DEF reset_saved_wc, TypeOK, workVars, jobVars, reportVars, cancelVars
<1>9. ASSUME use_selected_projection_run PROVE TypeOK'
  BY <1>9 DEF use_selected_projection_run, TypeOK, workVars, jobVars, reportVars, cancelVars
<1>10. ASSUME NEW id \in RunIds, load_selected_analysis(id) PROVE TypeOK'
  <2>1. history[id] \in Manifest
    BY <1>10 DEF load_selected_analysis, Usable, TypeOK
  <2>2. /\ dReport' \in DecisionReport \cup {NoReport}
        /\ cReport' \in ChipReport \cup {NoReport}
        /\ full' \in FullAnalysisState
        /\ active' \in [id : RunIds, state : Accounts, bundle : Bundles]
    BY <1>10, <2>1 DEF load_selected_analysis, Manifest, FullAnalysisState
  <2>3. QED BY <1>10, <2>2
            DEF load_selected_analysis, TypeOK, uiVars, jobVars, cancelVars
<1>11. ASSUME Restart PROVE TypeOK'
  <2>1. sel' \in Bundles \cup {NoBundle}
    BY <1>11 DEF Restart, TypeOK
  <2>2. /\ busy' \subseteq Slots
        /\ timers' \subseteq 1..MaxChips
        /\ killedBy' \in 0..MaxChips
    BY <1>11 DEF Restart
  <2>3. QED BY <1>11, <2>1, <2>2
            DEF Restart, TypeOK, DecisionRunState, ChipRunState, FullAnalysisState
<1>12. QED BY <1>1, <1>2, <1>3, <1>4, <1>5, <1>6, <1>7, <1>8, <1>9, <1>10, <1>11

\* TypeOK is preserved by every step that starts with ChipHasJob.
LEMMA TypeStep == TypeOK /\ ChipHasJob /\ [Next]_vars => TypeOK'
<1>1. TypeOK /\ UNCHANGED vars => TypeOK'
  BY DEF TypeOK, vars, workVars, uiVars, jobVars, reportVars, cancelVars
<1>2. QED
  BY <1>1, ChipFinishedType, DecisionFinishedType, StartsType, ChipButtonsType, OtherType
  DEF Next, WorkerEnds, UserActs

-----------------------------------------------------------------------------
(* The slots and their flags *)

\* start_chip_run either leaves every slot as it is, or finds none in use and
\* fills its own with a numbered request and no cancel file.
LEMMA StartChipSlots ==
  ASSUME TypeOK,
         NEW f, NEW d \in DecisionReport \cup {NoReport}, NEW b \in SUBSET Slots,
         start_chip_run(f, d, b)
  PROVE  \/ /\ busy' = b
            /\ UNCHANGED <<cJob, nChip, cancelRequested, cancelFile>>
            /\ chipRun' = chipRun \/ (b = {} /\ chipRun' = "ERROR")
         \/ /\ b = {} /\ busy' = {"chip"}
            /\ chipRun' = "RUNNING"
            /\ cJob' \in ChipReport /\ nChip' \in 1..MaxChips
            /\ cancelFile' = FALSE
<1>1. CASE ChipRefused(f, d, b)
  BY <1>1 DEF ChipRefused, NothingRuns, cancelVars
<1>2. CASE ChipCouldNotStart(f, d, b)
  BY <1>2 DEF ChipCouldNotStart, NothingRuns, cancelVars
<1>3. CASE ChipRequestNotWritten(f, d, b)
  BY <1>3 DEF ChipRequestNotWritten, NothingRuns, cancelVars
<1>4. CASE ChipStarted(f, d, b)
  <2>1. cJob' \in ChipReport
    BY <1>4 DEF ChipStarted, ChipReport, TypeOK
  <2>2. nChip' \in 1..MaxChips
    BY <1>4 DEF ChipStarted, TypeOK
  <2>3. QED BY <1>4, <2>1, <2>2 DEF ChipStarted, NothingRuns
<1>5. QED BY <1>1, <1>2, <1>3, <1>4 DEF start_chip_run

\* The buttons and timers of the chip screen respect the slots.
LEMMA ChipButtonsSlots ==
  TypeOK /\ WorkersInv
    /\ (RunChipScreen \/ retry_chip_run \/ cancel_chip_run
        \/ \E t \in timers : force_cancel_chip_worker(t)) => WorkersInv'
<1> SUFFICES ASSUME TypeOK, WorkersInv
    PROVE RunChipScreen \/ retry_chip_run \/ cancel_chip_run
          \/ (\E t \in timers : force_cancel_chip_worker(t)) => WorkersInv'
  OBVIOUS
<1> USE DEF WorkersInv, OneWorker, RunFlagsFollowWorkers, CancelFileIsOfThisRun,
            ChipHasJob, DecisionHasJob
<1>1. ASSUME NEW f, start_chip_run(f, dReport, busy),
             UNCHANGED <<decisionRun, dJob>>
      PROVE  WorkersInv'
  <2>1. dReport \in DecisionReport \cup {NoReport} /\ busy \in SUBSET Slots
    BY DEF TypeOK
  <2>2. CASE /\ busy' = busy
             /\ UNCHANGED <<cJob, nChip, cancelRequested, cancelFile>>
             /\ chipRun' = chipRun \/ (busy = {} /\ chipRun' = "ERROR")
    BY <1>1, <2>2
  <2>3. CASE /\ busy = {} /\ busy' = {"chip"}
             /\ chipRun' = "RUNNING"
             /\ cJob' \in ChipReport /\ nChip' \in 1..MaxChips
             /\ cancelFile' = FALSE
    BY <1>1, <2>3
  <2>4. QED BY <1>1, <2>1, <2>2, <2>3, StartChipSlots
<1>2. ASSUME RunChipScreen PROVE WorkersInv'
  BY <1>1, <1>2 DEF RunChipScreen
<1>3. ASSUME retry_chip_run PROVE WorkersInv'
  BY <1>1, <1>3 DEF retry_chip_run
<1>4. ASSUME cancel_chip_run PROVE WorkersInv'
  BY <1>4 DEF cancel_chip_run, workVars, uiVars, jobVars, reportVars
<1>5. ASSUME NEW t \in timers, force_cancel_chip_worker(t) PROVE WorkersInv'
  BY <1>5 DEF force_cancel_chip_worker, workVars, uiVars, jobVars, reportVars
<1>6. QED BY <1>2, <1>3, <1>4, <1>5

\* A worker that ends frees its slot, also when its callback starts the next one.
LEMMA WorkersEndSlots ==
  TypeOK /\ WorkersInv
    /\ (chip_finished \/ decision_finished \/ projection_finished
        \/ projection_process_error \/ account_sync_finished) => WorkersInv'
<1> SUFFICES ASSUME TypeOK, WorkersInv
    PROVE chip_finished \/ decision_finished \/ projection_finished
          \/ projection_process_error \/ account_sync_finished => WorkersInv'
  OBVIOUS
<1> USE DEF WorkersInv, OneWorker, RunFlagsFollowWorkers, CancelFileIsOfThisRun,
            ChipHasJob, DecisionHasJob
<1>1. ASSUME chip_finished PROVE WorkersInv'
  <2>1. busy = {"chip"} /\ busy' = {}
    BY <1>1 DEF chip_finished
  <2>2. chipRun' # "RUNNING"
    BY <1>1 DEF chip_finished, ChipCancelled, ChipFailed, ChipSucceeded
  <2>3. QED BY <1>1, <2>1, <2>2 DEF chip_finished
<1>2. ASSUME decision_finished PROVE WorkersInv'
  <2>1. busy = {"decision"} /\ busy \ {"decision"} = {} /\ {} \in SUBSET Slots
    BY <1>2 DEF decision_finished
  <2>2. CASE DecisionFailed
    BY <1>2, <2>1, <2>2 DEF DecisionFailed
  <2>3. CASE DecisionNotShown
    BY <1>2, <2>1, <2>3 DEF DecisionNotShown
  <2>4. CASE DecisionSucceeded /\ full \notin RUNNING_FULL_ANALYSIS_STATES
    BY <1>2, <2>1, <2>4 DEF DecisionSucceeded
  <2>5. CASE DecisionSucceeded /\ full \in RUNNING_FULL_ANALYSIS_STATES
    <3>1. start_chip_run("CHIP_SCREEN", dJob, {}) /\ decisionRun' = "SUCCESS"
      BY <2>1, <2>5 DEF DecisionSucceeded
    <3>2. dJob \in DecisionReport \cup {NoReport}
      BY DEF TypeOK
    <3>3. CASE /\ busy' = {}
               /\ chipRun' = chipRun \/ chipRun' = "ERROR"
      BY <2>1, <3>1, <3>3
    <3>4. CASE /\ busy' = {"chip"}
               /\ chipRun' = "RUNNING"
               /\ cJob' \in ChipReport /\ nChip' \in 1..MaxChips
               /\ cancelFile' = FALSE
      BY <3>1, <3>4
    <3>5. QED BY <2>1, <3>1, <3>2, <3>3, <3>4, StartChipSlots
  <2>6. QED BY <1>2, <2>2, <2>3, <2>4, <2>5 DEF decision_finished
<1>3. ASSUME projection_finished PROVE WorkersInv'
  BY <1>3 DEF projection_finished, jobVars, reportVars, cancelVars
<1>4. ASSUME projection_process_error PROVE WorkersInv'
  BY <1>4 DEF projection_process_error, jobVars, uiVars, reportVars, cancelVars
<1>5. ASSUME account_sync_finished PROVE WorkersInv'
  BY <1>5 DEF account_sync_finished, jobVars, cancelVars
<1>6. QED BY <1>1, <1>2, <1>3, <1>4, <1>5

\* A start handler takes a slot only while all four are free.
LEMMA StartsSlots ==
  TypeOK /\ WorkersInv
    /\ (start_decision_run \/ start_full_analysis \/ start_projection_run
        \/ start_account_sync) => WorkersInv'
<1> SUFFICES ASSUME TypeOK, WorkersInv
    PROVE start_decision_run \/ start_full_analysis \/ start_projection_run
          \/ start_account_sync => WorkersInv'
  OBVIOUS
<1> USE DEF WorkersInv, OneWorker, RunFlagsFollowWorkers, CancelFileIsOfThisRun,
            ChipHasJob, DecisionHasJob
<1>1. ASSUME NEW f \in FullAnalysisState, DecisionStarted(f), busy = {},
             UNCHANGED <<chipRun, cancelVars, cJob, nChip>>
      PROVE  WorkersInv'
  <2>1. busy' = {"decision"} /\ decisionRun' = "RUNNING"
    BY <1>1 DEF DecisionStarted
  <2>2. dJob' \in DecisionReport
    BY <1>1, DecisionStartedType
  <2>3. QED BY <1>1, <2>1, <2>2 DEF cancelVars
<1>2. ASSUME UNCHANGED <<busy, chipRun, cancelVars, cJob, nChip>>, busy = {},
             decisionRun' = decisionRun \/ decisionRun' = "ERROR"
      PROVE  WorkersInv'
  BY <1>2 DEF cancelVars
<1>3. full \in FullAnalysisState /\ "DECISION" \in FullAnalysisState
  BY DEF TypeOK, FullAnalysisState
<1>4. ASSUME start_decision_run PROVE WorkersInv'
  BY <1>1, <1>2, <1>3, <1>4
  DEF start_decision_run, NothingRuns, DecisionCouldNotStart, DecisionRequestNotWritten
<1>5. ASSUME start_full_analysis PROVE WorkersInv'
  BY <1>1, <1>2, <1>3, <1>5
  DEF start_full_analysis, NothingRuns, FullAnalysisRejected, FullAnalysisBegun,
      DecisionRequestNotWritten
<1>6. ASSUME start_projection_run PROVE WorkersInv'
  BY <1>6 DEF start_projection_run, NothingRuns, uiVars, jobVars, reportVars, cancelVars
<1>7. ASSUME start_account_sync PROVE WorkersInv'
  BY <1>7 DEF start_account_sync, NothingRuns, uiVars, jobVars, reportVars, cancelVars
<1>8. QED BY <1>4, <1>5, <1>6, <1>7

\* The user's edits, selections and loads leave the slots and their flags alone.
LEMMA EditsKeepWorkers ==
  EditSquad \/ save_current_state \/ reset_saved_wc \/ use_selected_projection_run
    \/ (\E id \in RunIds : load_selected_analysis(id))
  => UNCHANGED <<busy, decisionRun, chipRun, jobVars, cancelVars>>
  BY DEF EditSquad, save_current_state, reset_saved_wc, use_selected_projection_run,
         load_selected_analysis, workVars, jobVars, cancelVars

\* What holds of the slots is preserved by every step.
LEMMA WorkersStep == TypeOK /\ WorkersInv /\ [Next]_vars => WorkersInv'
<1> SUFFICES ASSUME TypeOK, WorkersInv, [Next]_vars PROVE WorkersInv'
  OBVIOUS
<1>1. ASSUME UNCHANGED <<busy, decisionRun, chipRun, jobVars, cancelVars>>
      PROVE  WorkersInv'
  BY <1>1 DEF WorkersInv, OneWorker, RunFlagsFollowWorkers, CancelFileIsOfThisRun,
              ChipHasJob, DecisionHasJob, jobVars, cancelVars
<1>2. ASSUME UNCHANGED vars PROVE WorkersInv'
  BY <1>1, <1>2 DEF vars, workVars
<1>3. ASSUME Restart PROVE WorkersInv'
  BY <1>3 DEF Restart, WorkersInv, OneWorker, RunFlagsFollowWorkers,
              CancelFileIsOfThisRun, ChipHasJob, DecisionHasJob
<1>4. QED
  BY <1>1, <1>2, <1>3, ChipButtonsSlots, WorkersEndSlots, StartsSlots, EditsKeepWorkers
  DEF Next, WorkerEnds, UserActs

\* A fresh window runs no worker.
LEMMA WorkersInitially == Init => WorkersInv
  BY DEF Init, WorkersInv, OneWorker, RunFlagsFollowWorkers, CancelFileIsOfThisRun,
         ChipHasJob, DecisionHasJob

-----------------------------------------------------------------------------
\* Every variable of the window stays in its range: TypeOK together with the
\* facts about the slots is inductive.
THEOREM TypeAndWorkers == Spec => [](TypeOK /\ WorkersInv)
<1>1. Init => TypeOK /\ WorkersInv
  BY InitType, WorkersInitially
<1>2. TypeOK /\ WorkersInv /\ [Next]_vars => (TypeOK /\ WorkersInv)'
  BY TypeStep, WorkersStep DEF WorkersInv
<1>3. QED BY <1>1, <1>2, PTL DEF Spec

\* Type correctness of the orchestration state.
THEOREM TypeCorrect == Spec => []TypeOK
  BY TypeAndWorkers, PTL

\* The four start handlers between them never run two workers.
THEOREM OneWorkerAtATime == Spec => []OneWorker
<1>1. TypeOK /\ WorkersInv => OneWorker
  BY DEF WorkersInv
<1>2. QED BY <1>1, TypeAndWorkers, PTL

\* The two run states are RUNNING exactly while their worker runs.
THEOREM FlagsFollowWorkers == Spec => []RunFlagsFollowWorkers
<1>1. TypeOK /\ WorkersInv => RunFlagsFollowWorkers
  BY DEF WorkersInv
<1>2. QED BY <1>1, TypeAndWorkers, PTL

\* No chip worker starts with the cancel file of an earlier cancellation.
THEOREM CancelFileFresh == Spec => []CancelFileIsOfThisRun
<1>1. TypeOK /\ WorkersInv => CancelFileIsOfThisRun
  BY DEF WorkersInv
<1>2. QED BY <1>1, TypeAndWorkers, PTL

-----------------------------------------------------------------------------
(* The saved analyses.  What is saved follows the state of the analysis, so the *)
(* invariant relates full, active and history: an analysis that can still be    *)
(* saved is not COMPLETE yet, and a run id is new when it is handed out.        *)

Finished(m) == m # NoRun /\ m.status = "COMPLETE"

\* The analysis states after which the active analysis may be saved again.
Savable == RUNNING_FULL_ANALYSIS_STATES \cup {"PARTIAL"}

Unfinished ==
  full \in Savable /\ active # NoRun
    => ~Finished(history[active.id])

FreshIds ==
  /\ active # NoRun => active.id <= lastRun
  /\ \A id \in RunIds : id > lastRun => history[id] = NoRun

HistoryInv ==
  /\ HistoricalShowsItsManifest
  /\ SavedReportsBelongTogether
  /\ Unfinished
  /\ FreshIds

NoRewrite == \A id \in RunIds : Finished(history[id]) => history'[id] = history[id]

\* A save changes only the manifest of the active analysis, to reports that belong together.
LEMMA SaveFacts ==
  ASSUME TypeOK, SavedReportsBelongTogether, FreshIds,
         NEW status \in {"COMPLETE", "PARTIAL", "ERROR"},
         NEW d \in DecisionReport \cup {NoReport},
         NEW c \in ChipReport \cup {NoReport},
         status = "COMPLETE" => c # NoReport,
         Persist(status, d, c),
         UNCHANGED <<active, lastRun>>
  PROVE  /\ SavedReportsBelongTogether'
         /\ FreshIds'
         /\ \A id \in RunIds :
              \/ history'[id] = history[id]
              \/ /\ active # NoRun /\ id = active.id
                 /\ history'[id] # NoRun
                 /\ history'[id].status = status
                 /\ history'[id].decision = d
<1>1. CASE active # NoRun /\ SameProjectionRun(d) /\ SameDecision(d, c)
  <2> DEFINE m == [status |-> status, state |-> active.state, bundle |-> active.bundle,
                   decision |-> d, chip |-> c]
  <2>1. active \in [id : RunIds, state : Accounts, bundle : Bundles]
    BY <1>1 DEF TypeOK
  <2>2. m \in Manifest /\ m # NoRun
    BY <2>1, SentinelAssumption DEF Manifest
  <2>3. /\ m.decision = NoReport \/ m.decision.bundle = m.bundle
        /\ m.chip = NoReport \/ m.chip.of = m.decision
        /\ m.status = "COMPLETE" => m.chip # NoReport
    BY <1>1 DEF SameProjectionRun, SameDecision
  <2>4. history' = [history EXCEPT ![active.id] = m]
    BY <1>1 DEF Persist
  <2>5. \A id \in RunIds : history'[id] = IF id = active.id THEN m ELSE history[id]
    BY <2>1, <2>4 DEF TypeOK
  <2>6. SavedReportsBelongTogether'
    BY <2>3, <2>5 DEF SavedReportsBelongTogether
  <2>7. FreshIds'
    BY <1>1, <2>1, <2>5 DEF FreshIds, RunIds, TypeOK
  <2>8. QED BY <1>1, <2>2, <2>5, <2>6, <2>7
<1>2. CASE ~(active # NoRun /\ SameProjectionRun(d) /\ SameDecision(d, c))
  <2>1. UNCHANGED history
    BY <1>2 DEF Persist
  <2>2. QED BY <2>1 DEF SavedReportsBelongTogether, FreshIds
<1>3. QED BY <1>1, <1>2

\* The end of the chip stage of an analysis in state f, decision d being shown.
LEMMA AfterChipHistory ==
  ASSUME TypeOK, HistoryInv,
         NEW f \in FullAnalysisState, f \in Savable => full \in Savable,
         NEW status \in {"COMPLETE", "PARTIAL"},
         NEW d \in DecisionReport \cup {NoReport},
         NEW c \in ChipReport \cup {NoReport},
         status = "COMPLETE" => c # NoReport,
         AfterChip(f, status, d, c),
         UNCHANGED <<active, lastRun>>, dReport' = d,
         \/ historical' = FALSE
         \/ historical' = historical /\ d = dReport
  PROVE  HistoryInv' /\ NoRewrite
<1>1. CASE f = "CHIP_SCREEN"
  <2>1. full \in Savable
    BY <1>1 DEF Savable, RUNNING_FULL_ANALYSIS_STATES
  <2>2. full' = status /\ Persist(status, d, c)
    BY <1>1 DEF AfterChip
  <2>3. /\ SavedReportsBelongTogether'
        /\ FreshIds'
        /\ \A id \in RunIds :
             \/ history'[id] = history[id]
             \/ /\ active # NoRun /\ id = active.id
                /\ history'[id] # NoRun
                /\ history'[id].status = status
                /\ history'[id].decision = d
    BY <2>2, SaveFacts DEF HistoryInv
  <2>4. active # NoRun => active.id \in RunIds /\ ~Finished(history[active.id])
    BY <2>1 DEF HistoryInv, Unfinished, TypeOK
  <2>5. Unfinished'
    BY <2>2, <2>3, <2>4 DEF Unfinished, Finished, Savable, RUNNING_FULL_ANALYSIS_STATES
  <2>6. HistoricalShowsItsManifest'
    BY <2>3, <2>4 DEF HistoryInv, HistoricalShowsItsManifest
  <2>7. NoRewrite
    BY <2>3, <2>4 DEF NoRewrite
  <2>8. QED BY <2>3, <2>5, <2>6, <2>7 DEF HistoryInv
<1>2. CASE f # "CHIP_SCREEN"
  <2>1. full' = f /\ UNCHANGED history
    BY <1>2 DEF AfterChip
  <2>2. QED BY <2>1 DEF HistoryInv, HistoricalShowsItsManifest, SavedReportsBelongTogether,
                        Unfinished, FreshIds, NoRewrite
<1>3. QED BY <1>1, <1>2

\* The start of the chip stage, on each of its four ways out.
LEMMA StartChipHistory ==
  ASSUME TypeOK, HistoryInv,
         NEW f \in FullAnalysisState, f \in Savable => full \in Savable,
         NEW d \in DecisionReport \cup {NoReport},
         NEW b, start_chip_run(f, d, b),
         UNCHANGED <<active, lastRun>>, dReport' = d,
         \/ historical' = FALSE
         \/ historical' = historical /\ d = dReport
  PROVE  HistoryInv' /\ NoRewrite
<1>1. CASE ChipCouldNotStart(f, d, b)
  <2>1. cReport \in ChipReport \cup {NoReport}
    BY DEF TypeOK
  <2>2. QED BY <1>1, <2>1, AfterChipHistory DEF ChipCouldNotStart
<1>2. CASE full' = f /\ UNCHANGED history
  BY <1>2 DEF HistoryInv, HistoricalShowsItsManifest, SavedReportsBelongTogether,
              Unfinished, FreshIds, NoRewrite
<1>3. QED
  BY <1>1, <1>2
  DEF start_chip_run, ChipRefused, ChipRequestNotWritten, ChipStarted

\* A failed decision stage, the decision d being shown and maybe not the old one.
LEMMA AfterDecisionFailedHistory ==
  ASSUME TypeOK, HistoryInv,
         NEW d \in DecisionReport \cup {NoReport},
         AfterDecisionFailed(full, d, cReport),
         UNCHANGED <<active, lastRun>>, dReport' = d,
         \/ historical' = FALSE
         \/ historical' = historical /\ d = dReport
  PROVE  HistoryInv' /\ NoRewrite
<1>1. CASE full \in RUNNING_FULL_ANALYSIS_STATES
  <2>1. full' = "ERROR" /\ Persist("ERROR", d, cReport)
    BY <1>1 DEF AfterDecisionFailed
  <2>2. cReport \in ChipReport \cup {NoReport}
    BY DEF TypeOK
  <2>3. /\ SavedReportsBelongTogether'
        /\ FreshIds'
        /\ \A id \in RunIds :
             \/ history'[id] = history[id]
             \/ /\ active # NoRun /\ id = active.id
                /\ history'[id] # NoRun
                /\ history'[id].status = "ERROR"
                /\ history'[id].decision = d
    BY <2>1, <2>2, SaveFacts DEF HistoryInv
  <2>4. active # NoRun => active.id \in RunIds /\ ~Finished(history[active.id])
    BY <1>1 DEF HistoryInv, Unfinished, Savable, TypeOK
  <2>5. Unfinished'
    BY <2>1, <2>3, <2>4 DEF Unfinished, Finished, Savable
  <2>6. HistoricalShowsItsManifest'
    BY <2>3, <2>4 DEF HistoryInv, HistoricalShowsItsManifest
  <2>7. NoRewrite
    BY <2>3, <2>4 DEF NoRewrite
  <2>8. QED BY <2>3, <2>5, <2>6, <2>7 DEF HistoryInv
<1>2. CASE full \notin RUNNING_FULL_ANALYSIS_STATES
  <2>1. full' = full /\ UNCHANGED history
    BY <1>2 DEF AfterDecisionFailed
  <2>2. QED BY <2>1 DEF HistoryInv, HistoricalShowsItsManifest, SavedReportsBelongTogether,
                        Unfinished, FreshIds, NoRewrite
<1>3. QED BY <1>1, <1>2

\* The actions that leave the saved analyses and the active one alone.
LEMMA QuietHistory ==
  ASSUME HistoryInv, UNCHANGED <<active, lastRun, history>>,
         full' \in Savable => full \in Savable,
         \/ historical' = FALSE
         \/ UNCHANGED <<historical, dReport>>
  PROVE  HistoryInv' /\ NoRewrite
  BY DEF HistoryInv, HistoricalShowsItsManifest, SavedReportsBelongTogether,
         Unfinished, FreshIds, NoRewrite

\* Ending workers save to the active analysis only while it is unfinished.
LEMMA WorkersEndHistory ==
  ASSUME TypeOK, WorkersInv, HistoryInv,
         chip_finished \/ decision_finished
  PROVE  HistoryInv' /\ NoRewrite
<1>1. /\ full \in FullAnalysisState /\ "CHIP_SCREEN" \in FullAnalysisState
      /\ dReport \in DecisionReport \cup {NoReport}
      /\ dJob \in DecisionReport \cup {NoReport}
      /\ cReport \in ChipReport \cup {NoReport}
  BY DEF TypeOK, FullAnalysisState
<1>2. ASSUME chip_finished PROVE HistoryInv' /\ NoRewrite
  <2>1. cJob \in ChipReport /\ cJob # NoReport
    BY <1>2, SentinelAssumption DEF chip_finished, WorkersInv, ChipHasJob
  <2>2. UNCHANGED <<dReport, active, lastRun, historical>>
    BY <1>2 DEF chip_finished
  <2>3. \/ AfterChip(full, "PARTIAL", dReport, cReport)
        \/ AfterChip(full, "COMPLETE", dReport, cJob)
    BY <1>2 DEF chip_finished, ChipCancelled, ChipFailed, ChipSucceeded
  <2>4. QED BY <1>1, <2>1, <2>2, <2>3, AfterChipHistory
<1>3. ASSUME decision_finished PROVE HistoryInv' /\ NoRewrite
  <2>1. UNCHANGED <<active, lastRun, cReport>>
    BY <1>3 DEF decision_finished
  <2>2. CASE DecisionFailed
    BY <1>1, <2>1, <2>2, AfterDecisionFailedHistory DEF DecisionFailed
  <2>3. CASE DecisionNotShown
    BY <1>1, <2>1, <2>3, AfterDecisionFailedHistory DEF DecisionNotShown
  <2>4. CASE DecisionSucceeded
    <3>1. dReport' = dJob /\ historical' = FALSE
      BY <2>4 DEF DecisionSucceeded
    <3>2. CASE full \in RUNNING_FULL_ANALYSIS_STATES
      <4>1. start_chip_run("CHIP_SCREEN", dJob, busy \ {"decision"})
        BY <2>4, <3>2 DEF DecisionSucceeded
      <4>2. full \in Savable
        BY <3>2 DEF Savable
      <4>3. QED BY <1>1, <2>1, <3>1, <4>1, <4>2, StartChipHistory
    <3>3. CASE full \notin RUNNING_FULL_ANALYSIS_STATES
      <4>1. UNCHANGED <<full, history>>
        BY <2>4, <3>3 DEF DecisionSucceeded
      <4>2. QED BY <2>1, <3>1, <4>1, QuietHistory
    <3>4. QED BY <3>2, <3>3
  <2>5. QED BY <1>3, <2>2, <2>3, <2>4 DEF decision_finished
<1>4. QED BY <1>2, <1>3

\* The chip buttons save a PARTIAL analysis at most.
LEMMA ChipButtonsHistory ==
  ASSUME TypeOK, HistoryInv, RunChipScreen \/ retry_chip_run
  PROVE  HistoryInv' /\ NoRewrite
<1>1. /\ full \in FullAnalysisState /\ Resumed \in FullAnalysisState
      /\ Resumed \in Savable => full \in Savable
      /\ dReport \in DecisionReport \cup {NoReport}
  BY DEF TypeOK, Resumed, FullAnalysisState, Savable
<1>2. UNCHANGED <<active, lastRun, historical, dReport>>
  BY DEF RunChipScreen, retry_chip_run
<1>3. \E f \in {full, Resumed} : start_chip_run(f, dReport, busy)
  BY DEF RunChipScreen, retry_chip_run
<1>4. QED BY <1>1, <1>2, <1>3, StartChipHistory

\* A new analysis gets a new run id; a standalone decision saves nothing finished.
LEMMA StartsHistory ==
  ASSUME TypeOK, HistoryInv, start_decision_run \/ start_full_analysis
  PROVE  HistoryInv' /\ NoRewrite
<1>1. ASSUME start_decision_run PROVE HistoryInv' /\ NoRewrite
  <2>1. UNCHANGED <<active, lastRun, historical, dReport, cReport>>
    BY <1>1 DEF start_decision_run
  <2>2. CASE DecisionStarted(full) \/ DecisionRequestNotWritten(full)
    BY <2>1, <2>2, QuietHistory DEF DecisionStarted, DecisionRequestNotWritten
  <2>3. CASE DecisionCouldNotStart(full, dReport, cReport)
    <3>1. dReport \in DecisionReport \cup {NoReport}
      BY DEF TypeOK
    <3>2. QED BY <2>1, <2>3, <3>1, AfterDecisionFailedHistory DEF DecisionCouldNotStart
  <2>4. QED BY <1>1, <2>2, <2>3 DEF start_decision_run
<1>2. ASSUME start_full_analysis, FullAnalysisRejected PROVE HistoryInv' /\ NoRewrite
  <2>1. "ERROR" \notin Savable
    BY DEF Savable, RUNNING_FULL_ANALYSIS_STATES
  <2>2. QED BY <1>2, <2>1, QuietHistory DEF FullAnalysisRejected
<1>3. ASSUME FullAnalysisBegun PROVE HistoryInv' /\ NoRewrite
  <2>1. /\ lastRun + 1 \in RunIds /\ lastRun' = lastRun + 1
        /\ history[lastRun + 1] = NoRun
        /\ active'.id = lastRun + 1
        /\ ~historical'
    BY <1>3 DEF FullAnalysisBegun, BegunAnalysis, TypeOK, RunIds, HistoryInv, FreshIds
  <2>2. CASE UNCHANGED history
    BY <2>1, <2>2 DEF HistoryInv, HistoricalShowsItsManifest, SavedReportsBelongTogether,
                      Unfinished, FreshIds, NoRewrite, Finished, TypeOK, RunIds
  <2>3. CASE /\ full' = "ERROR"
             /\ history' = [history EXCEPT ![lastRun + 1] =
                             [status |-> "ERROR", state |-> acct, bundle |-> sel,
                              decision |-> NoReport, chip |-> NoReport]]
    <3>1. /\ history'[lastRun + 1] = [status |-> "ERROR", state |-> acct, bundle |-> sel,
                                      decision |-> NoReport, chip |-> NoReport]
          /\ \A id \in RunIds \ {lastRun + 1} : history'[id] = history[id]
      BY <2>1, <2>3 DEF TypeOK
    <3>2. SavedReportsBelongTogether'
      BY <3>1 DEF HistoryInv, SavedReportsBelongTogether
    <3>3. FreshIds'
      BY <2>1, <3>1 DEF HistoryInv, FreshIds, TypeOK, RunIds
    <3>4. Unfinished' /\ HistoricalShowsItsManifest'
      BY <2>1, <2>3 DEF Unfinished, Savable, RUNNING_FULL_ANALYSIS_STATES,
                        HistoricalShowsItsManifest
    <3>5. NoRewrite
      BY <2>1, <3>1 DEF NoRewrite, Finished
    <3>6. QED BY <3>2, <3>3, <3>4, <3>5 DEF HistoryInv
  <2>4. QED BY <1>3, <2>2, <2>3
            DEF FullAnalysisBegun, DecisionStarted, DecisionRequestNotWritten
<1>4. QED BY <1>1, <1>2, <1>3 DEF start_full_analysis

\* Loading an analysis takes its decision together with its label.
LEMMA UserHistory ==
  ASSUME TypeOK, HistoryInv,
         Restart \/ account_sync_finished
           \/ \E id \in RunIds : load_selected_analysis(id)
  PROVE  HistoryInv' /\ NoRewrite
<1>1. ASSUME Restart PROVE HistoryInv' /\ NoRewrite
  BY <1>1 DEF Restart, HistoryInv, HistoricalShowsItsManifest,
              SavedReportsBelongTogether, Unfinished, FreshIds, NoRewrite
<1>2. ASSUME account_sync_finished PROVE HistoryInv' /\ NoRewrite
  BY <1>2 DEF account_sync_finished, AccountSynced, HistoryInv, HistoricalShowsItsManifest,
              SavedReportsBelongTogether, Unfinished, FreshIds, NoRewrite
<1>3. ASSUME NEW id \in RunIds, load_selected_analysis(id) PROVE HistoryInv' /\ NoRewrite
  <2>1. /\ history[id] # NoRun
        /\ active' = [id |-> id, state |-> history[id].state, bundle |-> sel]
        /\ dReport' = history[id].decision
        /\ full' = history[id].status
        /\ UNCHANGED <<history, lastRun>>
    BY <1>3 DEF load_selected_analysis, Usable
  <2>2. id <= lastRun
    BY <2>1 DEF HistoryInv, FreshIds, TypeOK, RunIds
  <2>3. Unfinished'
    BY <2>1 DEF Unfinished, Finished, Savable, RUNNING_FULL_ANALYSIS_STATES
  <2>4. FreshIds' /\ SavedReportsBelongTogether' /\ NoRewrite
    BY <2>1, <2>2 DEF HistoryInv, FreshIds, SavedReportsBelongTogether, NoRewrite
  <2>5. HistoricalShowsItsManifest'
    <3>1. active' # NoRun
      <4>1. active' \in [id : RunIds, state : Accounts, bundle : Bundles]
        BY <1>3, <2>1 DEF load_selected_analysis, Usable, TypeOK, Manifest
      <4>2. QED BY <4>1, SentinelAssumption
    <3>2. QED BY <2>1, <3>1 DEF HistoricalShowsItsManifest
  <2>6. QED BY <2>3, <2>4, <2>5 DEF HistoryInv
<1>4. QED BY <1>1, <1>2, <1>3

\* What holds of the saved analyses is preserved, and finished ones are not rewritten.
LEMMA HistoryStep == TypeOK /\ WorkersInv /\ HistoryInv /\ [Next]_vars
                       => HistoryInv' /\ (NoRewrite \/ UNCHANGED history)
<1> SUFFICES ASSUME TypeOK, WorkersInv, HistoryInv, [Next]_vars
    PROVE  HistoryInv' /\ (NoRewrite \/ UNCHANGED history)
  OBVIOUS
<1>1. ASSUME UNCHANGED <<full, dReport, active, historical, history, lastRun>>
      PROVE  HistoryInv' /\ NoRewrite
  BY <1>1, QuietHistory
<1>2. ASSUME UNCHANGED vars PROVE HistoryInv' /\ NoRewrite
  BY <1>1, <1>2 DEF vars, workVars, reportVars
<1>3. ASSUME \/ projection_finished \/ projection_process_error
             \/ start_projection_run \/ start_account_sync
      PROVE  HistoryInv' /\ NoRewrite
  BY <1>1, <1>3
  DEF projection_finished, projection_process_error, start_projection_run,
      start_account_sync, reportVars
<1>4. ASSUME \/ cancel_chip_run \/ (\E t \in timers : force_cancel_chip_worker(t))
             \/ EditSquad \/ save_current_state \/ reset_saved_wc
             \/ use_selected_projection_run
      PROVE  HistoryInv' /\ NoRewrite
  BY <1>1, <1>4
  DEF cancel_chip_run, force_cancel_chip_worker, EditSquad, save_current_state,
      reset_saved_wc, use_selected_projection_run, workVars, reportVars
<1>5. QED
  BY <1>2, <1>3, <1>4, WorkersEndHistory, ChipButtonsHistory, StartsHistory, UserHistory
  DEF Next, WorkerEnds, UserActs

\* A fresh window over an empty history.
LEMMA HistoryInitially == Init => HistoryInv
  BY DEF Init, HistoryInv, HistoricalShowsItsManifest, SavedReportsBelongTogether,
         Unfinished, FreshIds, RunIds

\* The slots and the saved analyses satisfy the inductive invariant in every state.
THEOREM HistoryInvariant == Spec => [](TypeOK /\ WorkersInv /\ HistoryInv)
<1>1. Init => HistoryInv
  BY HistoryInitially
<1>2. TypeOK /\ WorkersInv /\ HistoryInv /\ [Next]_vars => HistoryInv'
  BY HistoryStep
<1>3. QED BY <1>1, <1>2, TypeAndWorkers, PTL DEF Spec

\* A manifest on disk never mixes the reports of two decisions or two runs.
THEOREM SavedReportsTogether == Spec => []SavedReportsBelongTogether
<1>1. TypeOK /\ WorkersInv /\ HistoryInv => SavedReportsBelongTogether
  BY DEF HistoryInv
<1>2. QED BY <1>1, HistoryInvariant, PTL

\* The historical label never covers a decision other than the loaded one.
THEOREM HistoricalIsLoaded == Spec => []HistoricalShowsItsManifest
<1>1. TypeOK /\ WorkersInv /\ HistoryInv => HistoricalShowsItsManifest
  BY DEF HistoryInv
<1>2. QED BY <1>1, HistoryInvariant, PTL

\* No sequence of runs, retries, loads and restarts rewrites a COMPLETE analysis.
THEOREM CompleteImmutable == Spec => CompleteAnalysisImmutable
<1> DEFINE A == \A id \in RunIds :
                  history[id] # NoRun /\ history[id].status = "COMPLETE"
                    => history'[id] = history[id]
<1>1. TypeOK /\ WorkersInv /\ HistoryInv /\ [Next]_vars => [A]_history
  BY HistoryStep DEF NoRewrite, Finished
<1>2. QED BY <1>1, HistoryInvariant, PTL DEF Spec, CompleteAnalysisImmutable

-----------------------------------------------------------------------------
(* The account of the saved reports.  write_analysis_run compares projection    *)
(* runs and report identities but never accounts; that a chip report is of the  *)
(* account of its decision comes from the worker, several steps earlier.        *)

Accepted(c) == c # NoReport => ChipWorkerAccepts(c)

SavedAccepted == \A id \in RunIds : history[id] # NoRun => Accepted(history[id].chip)

ChipsAccepted == Accepted(cReport) /\ SavedAccepted

\* A saved chip report is of the account and the projection run of the decision
\* it is saved with, although the user may edit the squad, select another run and
\* repeat either stage in between.
SavedChipsShareContext ==
  \A id \in RunIds :
    history[id] # NoRun /\ history[id].chip # NoReport =>
      /\ history[id].decision # NoReport
      /\ history[id].chip.acct = history[id].decision.acct
      /\ history[id].chip.bundle = history[id].bundle

\* A save adds no chip report but the given one.
LEMMA SaveAccepted ==
  ASSUME TypeOK, SavedAccepted, NEW status, NEW d, NEW c, Accepted(c), Persist(status, d, c)
  PROVE  SavedAccepted'
<1>1. CASE active # NoRun /\ SameProjectionRun(d) /\ SameDecision(d, c)
  <2> DEFINE m == [status |-> status, state |-> active.state, bundle |-> active.bundle,
                   decision |-> d, chip |-> c]
  <2>1. \A id \in RunIds : history'[id] = history[id] \/ history'[id] = m
    BY <1>1 DEF Persist, TypeOK
  <2>2. Accepted(m.chip)
    OBVIOUS
  <2>3. QED BY <2>1, <2>2 DEF SavedAccepted, Accepted, ChipWorkerAccepts
<1>2. CASE ~(active # NoRun /\ SameProjectionRun(d) /\ SameDecision(d, c))
  BY <1>2 DEF Persist, SavedAccepted, Accepted, ChipWorkerAccepts
<1>3. QED BY <1>1, <1>2

\* Neither do the two ends of a stage.
LEMMA EndAccepted ==
  ASSUME TypeOK, SavedAccepted, NEW f, NEW status, NEW d, NEW c, Accepted(c),
         AfterChip(f, status, d, c) \/ AfterDecisionFailed(f, d, c)
  PROVE  SavedAccepted'
<1>1. ASSUME UNCHANGED history PROVE SavedAccepted'
  BY <1>1 DEF SavedAccepted, Accepted, ChipWorkerAccepts
<1>2. QED BY <1>1, SaveAccepted DEF AfterChip, AfterDecisionFailed

\* A start of the chip stage saves the report that is shown at most.
LEMMA StartAccepted ==
  ASSUME TypeOK, ChipsAccepted, NEW f, NEW d, NEW b, start_chip_run(f, d, b)
  PROVE  SavedAccepted'
<1>1. ASSUME UNCHANGED history PROVE SavedAccepted'
  BY <1>1 DEF ChipsAccepted, SavedAccepted, Accepted, ChipWorkerAccepts
<1>2. QED
  BY <1>1, EndAccepted
  DEF start_chip_run, ChipRefused, ChipCouldNotStart, ChipRequestNotWritten, ChipStarted,
      ChipsAccepted

\* A report is shown when its worker accepted the decision, or is loaded as saved.
LEMMA AcceptedStep == TypeOK /\ ChipsAccepted /\ [Next]_vars => ChipsAccepted'
<1> SUFFICES ASSUME TypeOK, ChipsAccepted, [Next]_vars PROVE ChipsAccepted'
  OBVIOUS
<1>1. Accepted(cReport) /\ Accepted(NoReport) /\ SavedAccepted
  BY DEF ChipsAccepted, Accepted
<1>2. ASSUME cReport' = cReport \/ cReport' = NoReport PROVE Accepted(cReport)'
  BY <1>1, <1>2 DEF Accepted, ChipWorkerAccepts
<1>3. ASSUME UNCHANGED history PROVE SavedAccepted'
  BY <1>1, <1>3 DEF SavedAccepted, Accepted, ChipWorkerAccepts
<1>4. ASSUME chip_finished PROVE ChipsAccepted'
  <2>1. CASE ChipCancelled \/ ChipFailed
    <3>1. cReport' = cReport /\ AfterChip(full, "PARTIAL", dReport, cReport)
      BY <2>1 DEF ChipCancelled, ChipFailed
    <3>2. QED BY <1>1, <1>2, <3>1, EndAccepted DEF ChipsAccepted
  <2>2. CASE ChipSucceeded
    <3>1. /\ Accepted(cJob) /\ cReport' = cJob
          /\ AfterChip(full, "COMPLETE", dReport, cJob)
      BY <2>2 DEF ChipSucceeded, Accepted
    <3>2. Accepted(cReport)'
      BY <3>1 DEF Accepted, ChipWorkerAccepts
    <3>3. QED BY <1>1, <3>1, <3>2, EndAccepted DEF ChipsAccepted
  <2>3. QED BY <1>4, <2>1, <2>2 DEF chip_finished
<1>5. ASSUME decision_finished PROVE ChipsAccepted'
  <2>1. cReport' = cReport
    BY <1>5 DEF decision_finished
  <2>2. \/ UNCHANGED history
        \/ \E d \in {dReport, dJob} : AfterDecisionFailed(full, d, cReport)
        \/ start_chip_run("CHIP_SCREEN", dJob, busy \ {"decision"})
    BY <1>5 DEF decision_finished, DecisionFailed, DecisionNotShown, DecisionSucceeded
  <2>3. SavedAccepted'
    BY <1>1, <1>3, <2>2, EndAccepted, StartAccepted
  <2>4. QED BY <1>2, <2>1, <2>3 DEF ChipsAccepted
<1>6. ASSUME RunChipScreen \/ retry_chip_run PROVE ChipsAccepted'
  <2>1. cReport' = cReport /\ \E f \in {full, Resumed} : start_chip_run(f, dReport, busy)
    BY <1>6 DEF RunChipScreen, retry_chip_run
  <2>2. QED BY <1>2, <2>1, StartAccepted DEF ChipsAccepted
<1>7. ASSUME start_decision_run PROVE ChipsAccepted'
  <2>1. cReport' = cReport
    BY <1>7 DEF start_decision_run
  <2>2. UNCHANGED history \/ AfterDecisionFailed(full, dReport, cReport)
    BY <1>7 DEF start_decision_run, DecisionStarted, DecisionCouldNotStart,
                DecisionRequestNotWritten
  <2>3. QED BY <1>1, <1>2, <1>3, <2>1, <2>2, EndAccepted DEF ChipsAccepted
<1>8. ASSUME start_full_analysis PROVE ChipsAccepted'
  <2>1. cReport' = cReport \/ cReport' = NoReport
    BY <1>8 DEF start_full_analysis, FullAnalysisRejected, FullAnalysisBegun
  <2>2. \/ UNCHANGED history
        \/ history' = [history EXCEPT ![lastRun + 1] =
                         [status |-> "ERROR", state |-> acct, bundle |-> sel,
                          decision |-> NoReport, chip |-> NoReport]]
    BY <1>8 DEF start_full_analysis, FullAnalysisRejected, FullAnalysisBegun,
                DecisionStarted, DecisionRequestNotWritten
  <2>3. \A id \in RunIds : history'[id] = history[id] \/ history'[id].chip = NoReport
    BY <2>2 DEF TypeOK
  <2>4. SavedAccepted'
    BY <1>1, <2>3 DEF SavedAccepted, Accepted, ChipWorkerAccepts
  <2>5. QED BY <1>2, <2>1, <2>4 DEF ChipsAccepted
<1>9. ASSUME NEW id \in RunIds, load_selected_analysis(id) PROVE ChipsAccepted'
  <2>1. history[id] # NoRun /\ cReport' = history[id].chip /\ UNCHANGED history
    BY <1>9 DEF load_selected_analysis, Usable
  <2>2. Accepted(cReport)'
    BY <1>1, <2>1 DEF SavedAccepted, Accepted, ChipWorkerAccepts
  <2>3. QED BY <1>3, <2>1, <2>2 DEF ChipsAccepted
<1>10. ASSUME Restart \/ account_sync_finished PROVE ChipsAccepted'
  <2>1. (cReport' = cReport \/ cReport' = NoReport) /\ UNCHANGED history
    BY <1>10 DEF Restart, account_sync_finished, AccountSynced
  <2>2. QED BY <1>2, <1>3, <2>1 DEF ChipsAccepted
<1>11. ASSUME UNCHANGED <<cReport, history>> PROVE ChipsAccepted'
  BY <1>2, <1>3, <1>11 DEF ChipsAccepted
<1>12. ASSUME \/ UNCHANGED vars
              \/ projection_finished \/ projection_process_error
              \/ start_projection_run \/ start_account_sync
              \/ cancel_chip_run \/ (\E t \in timers : force_cancel_chip_worker(t))
              \/ EditSquad \/ save_current_state \/ reset_saved_wc
              \/ use_selected_projection_run
       PROVE  UNCHANGED <<cReport, history>>
  BY <1>12
  DEF vars, reportVars, projection_finished, projection_process_error, start_projection_run,
      start_account_sync, cancel_chip_run, force_cancel_chip_worker, EditSquad,
      save_current_state, reset_saved_wc, use_selected_projection_run
<1>13. QED
  BY <1>4, <1>5, <1>6, <1>7, <1>8, <1>9, <1>10, <1>11, <1>12 DEF Next, WorkerEnds, UserActs

\* What the history shows as one analysis was computed for one squad: its chip
\* screen and its decision never mix two accounts or two projection runs.
THEOREM SavedChipsInContext == Spec => []SavedChipsShareContext
<1>1. Init => ChipsAccepted
  BY DEF Init, ChipsAccepted, SavedAccepted, Accepted
<1>2. Spec => []ChipsAccepted
  BY <1>1, AcceptedStep, TypeAndWorkers, PTL DEF Spec
<1>3. TypeOK /\ ChipsAccepted /\ SavedReportsBelongTogether => SavedChipsShareContext
  <2> SUFFICES ASSUME TypeOK, ChipsAccepted, SavedReportsBelongTogether,
                      NEW id \in RunIds, history[id] # NoRun, history[id].chip # NoReport
               PROVE  /\ history[id].decision # NoReport
                      /\ history[id].chip.acct = history[id].decision.acct
                      /\ history[id].chip.bundle = history[id].bundle
    BY DEF SavedChipsShareContext
  <2>1. history[id].chip.of = history[id].decision
    BY DEF SavedReportsBelongTogether
  <2>2. ChipWorkerAccepts(history[id].chip)
    BY DEF ChipsAccepted, SavedAccepted, Accepted
  <2>3. history[id].decision # NoReport
    <3>1. history[id].chip \in ChipReport
      BY DEF TypeOK, Manifest
    <3>2. QED BY <2>1, <3>1, SentinelAssumption DEF ChipReport
  <2>4. history[id].decision.bundle = history[id].bundle
    BY <2>3 DEF SavedReportsBelongTogether
  <2>5. QED BY <2>1, <2>2, <2>3, <2>4 DEF ChipWorkerAccepts
<1>4. QED BY <1>2, <1>3, TypeAndWorkers, SavedReportsTogether, PTL

-----------------------------------------------------------------------------
(* The decision stage, where writing a request file cannot fail *)

\* What start_chip_run may do to an analysis: only the chip stage is left by it.
LEMMA StartChipStage ==
  ASSUME NEW f, NEW d, NEW b, start_chip_run(f, d, b)
  PROVE  /\ full' = f \/ full' = "PARTIAL"
         /\ full' = "DECISION" => f = "DECISION"
         /\ b # {} => busy' = b
  BY DEF start_chip_run, ChipRefused, ChipCouldNotStart, ChipRequestNotWritten, ChipStarted,
         AfterChip, NothingRuns

\* A decision stage begins with its own worker or not at all.
LEMMA StageStarts ==
  ASSUME ~IoFaults, TypeOK, WorkersInv, DecisionStageOwnsWorker,
         start_decision_run \/ start_full_analysis
  PROVE  DecisionStageOwnsWorker'
<1>1. full # "DECISION" /\ busy = {}
  BY DEF start_decision_run, start_full_analysis, NothingRuns, DecisionStageOwnsWorker
<1>2. ASSUME start_decision_run PROVE full' # "DECISION"
  BY <1>1, <1>2 DEF start_decision_run, DecisionStarted, DecisionCouldNotStart,
                    AfterDecisionFailed, DecisionRequestNotWritten
<1>3. ASSUME FullAnalysisBegun, DecisionStarted("DECISION") PROVE DecisionStageOwnsWorker'
  <2>1. /\ active' = [id |-> lastRun + 1, state |-> acct, bundle |-> sel]
        /\ dJob' = [n |-> nDecision + 1, acct |-> acct, bundle |-> sel]
        /\ "decision" \in busy'
    BY <1>3 DEF FullAnalysisBegun, BegunAnalysis, DecisionStarted
  <2>2. active' \in [id : RunIds, state : Accounts, bundle : Bundles]
    BY <1>3, <2>1 DEF FullAnalysisBegun, TypeOK, RunIds
  <2>3. active' # NoRun
    BY <2>2, SentinelAssumption
  <2>4. QED BY <2>1, <2>3 DEF DecisionStageOwnsWorker
<1>4. ASSUME start_full_analysis, ~DecisionStarted("DECISION") PROVE full' # "DECISION"
  BY <1>4 DEF start_full_analysis, FullAnalysisRejected, FullAnalysisBegun,
              DecisionRequestNotWritten
<1>5. QED BY <1>2, <1>3, <1>4
          DEF DecisionStageOwnsWorker, start_full_analysis, FullAnalysisRejected

\* The decision stage keeps its worker, account and projection run until it ends.
LEMMA StageStep ==
  ASSUME ~IoFaults, TypeOK, WorkersInv, DecisionStageOwnsWorker, [Next]_vars
  PROVE  DecisionStageOwnsWorker'
<1>1. ASSUME full' = "DECISION" => full = "DECISION" /\ "decision" \in busy',
             full = "DECISION" => UNCHANGED <<active, dJob>>
      PROVE  DecisionStageOwnsWorker'
  BY <1>1 DEF DecisionStageOwnsWorker
<1>2. full = "DECISION" => busy = {"decision"} /\ full \in RUNNING_FULL_ANALYSIS_STATES
  BY DEF DecisionStageOwnsWorker, WorkersInv, OneWorker, RUNNING_FULL_ANALYSIS_STATES
<1>3. ASSUME UNCHANGED vars PROVE DecisionStageOwnsWorker'
  BY <1>3 DEF DecisionStageOwnsWorker, vars, workVars, jobVars, reportVars
<1>4. ASSUME decision_finished PROVE DecisionStageOwnsWorker'
  <2>1. CASE DecisionFailed \/ DecisionNotShown
    <3>1. full' # "DECISION"
      BY <1>2, <2>1 DEF DecisionFailed, DecisionNotShown, AfterDecisionFailed
    <3>2. QED BY <3>1 DEF DecisionStageOwnsWorker
  <2>2. CASE DecisionSucceeded
    <3>1. full' # "DECISION"
      BY <1>2, <2>2, StartChipStage DEF DecisionSucceeded
    <3>2. QED BY <3>1 DEF DecisionStageOwnsWorker
  <2>3. QED BY <1>4, <2>1, <2>2 DEF decision_finished
<1>5. ASSUME chip_finished PROVE DecisionStageOwnsWorker'
  <2>1. full # "DECISION"
    BY <1>2, <1>5 DEF chip_finished
  <2>2. full' # "DECISION"
    BY <1>5, <2>1 DEF chip_finished, ChipCancelled, ChipFailed, ChipSucceeded, AfterChip
  <2>3. QED BY <2>2 DEF DecisionStageOwnsWorker
<1>6. ASSUME RunChipScreen \/ retry_chip_run PROVE DecisionStageOwnsWorker'
  <2>1. \E f \in {full, Resumed} : start_chip_run(f, dReport, busy)
    BY <1>6 DEF RunChipScreen, retry_chip_run
  <2>2. full' = "DECISION" => full = "DECISION" /\ "decision" \in busy'
    BY <1>2, <2>1, StartChipStage DEF Resumed
  <2>3. UNCHANGED <<active, dJob>>
    BY <1>6 DEF RunChipScreen, retry_chip_run
  <2>4. QED BY <1>1, <2>2, <2>3
<1>7. ASSUME account_sync_finished PROVE DecisionStageOwnsWorker'
  BY <1>2, <1>7 DEF account_sync_finished, DecisionStageOwnsWorker
<1>8. ASSUME projection_finished \/ projection_process_error PROVE DecisionStageOwnsWorker'
  BY <1>2, <1>8 DEF projection_finished, projection_process_error, DecisionStageOwnsWorker
<1>9. ASSUME start_projection_run \/ start_account_sync PROVE DecisionStageOwnsWorker'
  BY <1>2, <1>9 DEF start_projection_run, start_account_sync, NothingRuns,
                    DecisionStageOwnsWorker
<1>10. ASSUME \/ EditSquad \/ save_current_state \/ reset_saved_wc
              \/ use_selected_projection_run \/ cancel_chip_run
              \/ \E t \in timers : force_cancel_chip_worker(t)
       PROVE  DecisionStageOwnsWorker'
  BY <1>1, <1>2, <1>10
  DEF EditSquad, save_current_state, reset_saved_wc, use_selected_projection_run,
      cancel_chip_run, force_cancel_chip_worker, workVars, jobVars, reportVars
<1>11. ASSUME NEW id \in RunIds, load_selected_analysis(id) PROVE DecisionStageOwnsWorker'
  BY <1>11 DEF load_selected_analysis, Usable, DecisionStageOwnsWorker
<1>12. ASSUME Restart PROVE DecisionStageOwnsWorker'
  BY <1>12 DEF Restart, DecisionStageOwnsWorker
<1>13. QED
  BY <1>3, <1>4, <1>5, <1>6, <1>7, <1>8, <1>9, <1>10, <1>11, <1>12, StageStarts
  DEF Next, WorkerEnds, UserActs

\* Nothing the user does while the decision worker of a full analysis runs
\* takes the worker, its account or its projection run away from the analysis.
THEOREM DecisionStageOwned ==
  ASSUME ~IoFaults PROVE Spec => []DecisionStageOwnsWorker
<1>1. Init => DecisionStageOwnsWorker
  BY DEF Init, DecisionStageOwnsWorker
<1>2. TypeOK /\ WorkersInv /\ DecisionStageOwnsWorker /\ [Next]_vars
        => DecisionStageOwnsWorker'
  BY StageStep
<1>3. QED BY <1>1, <1>2, TypeAndWorkers, PTL DEF Spec

=============================================================================
