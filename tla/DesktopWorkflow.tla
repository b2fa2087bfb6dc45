--------------------------- MODULE DesktopWorkflow ---------------------------
(***************************************************************************)
(* The process orchestration of the desktop main window                    *)
(* (desktop_app/main_window.py).                                           *)
(*                                                                         *)
(* One GUI thread owns four QProcess slots: the projection engine, the     *)
(* decision engine, the chip screen and the FPL account sync.  Every slot  *)
(* reports back through a callback, and in between the user may edit the   *)
(* squad, select another projection run, load a saved analysis, cancel,    *)
(* retry, or close the window.  One action below is one slot of the GUI    *)
(* thread: it runs to its end without interruption, so the interleaving is *)
(* that of user input, worker completions and timers.                      *)
(*                                                                         *)
(* Data is reduced to identities.  An account is what _state_from_ui()     *)
(* returns for the selected gameweek, a bundle is a production projection  *)
(* run, and <<account, bundle>> is the planning context of a report.       *)
(***************************************************************************)
EXTENDS Naturals

CONSTANTS
  Accounts,      \* planning states the squad editor can show
  Bundles,       \* production projection runs of the selected gameweek
  NoBundle,      \* selected_projection_bundle is None
  NoReport,      \* latest_decision_report / latest_chip_report is None
  NoRun,         \* _active_analysis_run_id is None; also: nothing saved
  MaxDecisions,  \* bound: decision workers started
  MaxChips,      \* bound: chip workers started
  MaxAnalyses,   \* bound: full analyses begun
  IoFaults       \* may writing a worker's request file raise OSError?

ASSUME BoundsAssumption ==
  /\ MaxDecisions \in Nat
  /\ MaxChips \in Nat
  /\ MaxAnalyses \in Nat
  /\ IoFaults \in BOOLEAN

VARIABLES
  busy,             \* slots whose QProcess is not NotRunning
  decisionRun,      \* decision_run_state
  chipRun,          \* chip_run_state
  full,             \* full_analysis_state
  projectionsEnabled, \* run_projections.isEnabled()
  retryEnabled,     \* retry_chip_button.isEnabled()
  acct,             \* what _state_from_ui() returns
  current,          \* _current_state: last applied or saved
  runs,             \* projection runs on disk
  sel,              \* selected_projection_bundle
  dJob, cJob,       \* the request the running worker was started with
  dReport, cReport, \* latest_decision_report, latest_chip_report
  active,           \* _active_analysis_run_id/_state and _full_analysis_bundle
  historical,       \* _active_analysis_is_historical
  history,          \* saved analysis manifests, by analysis run id
  lastRun,          \* analysis run ids handed out
  nDecision, nChip, \* workers started
  cancelRequested,  \* _chip_cancel_requested
  cancelFile,       \* the chip worker's cancel file exists
  timers,           \* chip runs whose 5 s force-cancel timer is pending
  killedBy          \* chip run whose timer terminated the current worker

workVars   == <<busy, decisionRun, chipRun, full, projectionsEnabled, retryEnabled>>
uiVars     == <<acct, current, runs, sel>>
jobVars    == <<dJob, cJob, nDecision, nChip>>
reportVars == <<dReport, cReport, active, historical, history, lastRun>>
cancelVars == <<cancelRequested, cancelFile, timers, killedBy>>
vars == <<workVars, uiVars, jobVars, reportVars, cancelVars>>

-----------------------------------------------------------------------------
Slots == {"engine", "decision", "chip", "account"}

FullAnalysisState ==
  {"IDLE", "VALIDATING", "PROJECTIONS", "DECISION", "RECOMMENDED_XI",
   "CHIP_SCREEN", "COMPLETE", "PARTIAL", "ERROR"}

RUNNING_FULL_ANALYSIS_STATES ==
  {"VALIDATING", "PROJECTIONS", "DECISION", "RECOMMENDED_XI", "CHIP_SCREEN"}

DecisionRunState == {"IDLE", "RUNNING", "SUCCESS", "ERROR"}
ChipRunState == {"IDLE", "RUNNING", "SUCCESS", "CANCELLED", "ERROR"}

RunIds == 1..MaxAnalyses

\* A decision report, named by the worker that wrote it, with the context in it.
DecisionReport == [n : 1..MaxDecisions, acct : Accounts, bundle : Bundles]

\* A chip report: its context and the decision report it was computed from.
ChipReport == [of : DecisionReport, acct : Accounts, bundle : Bundles]

Manifest ==
  [status : {"COMPLETE", "PARTIAL", "ERROR"}, state : Accounts, bundle : Bundles,
   decision : DecisionReport \cup {NoReport}, chip : ChipReport \cup {NoReport}]

ASSUME SentinelAssumption ==
  /\ NoBundle \notin Bundles
  /\ NoReport \notin DecisionReport \cup ChipReport
  /\ NoRun \notin Manifest \cup [id : RunIds, state : Accounts, bundle : Bundles]

\* Histories with an analysis the user can load.
Usable(m) == m # NoRun /\ m.status \in {"COMPLETE", "PARTIAL"}

TypeOK ==
  /\ busy \subseteq Slots
  /\ decisionRun \in DecisionRunState
  /\ chipRun \in ChipRunState
  /\ full \in FullAnalysisState
  /\ projectionsEnabled \in BOOLEAN
  /\ retryEnabled \in BOOLEAN
  /\ acct \in Accounts
  /\ current \in Accounts
  /\ runs \subseteq Bundles
  /\ sel \in Bundles \cup {NoBundle}
  /\ dJob \in DecisionReport \cup {NoReport}
  /\ cJob \in ChipReport \cup {NoReport}
  /\ dReport \in DecisionReport \cup {NoReport}
  /\ cReport \in ChipReport \cup {NoReport}
  /\ active \in [id : RunIds, state : Accounts, bundle : Bundles] \cup {NoRun}
  /\ historical \in BOOLEAN
  /\ history \in [RunIds -> Manifest \cup {NoRun}]
  /\ lastRun \in 0..MaxAnalyses
  /\ nDecision \in 0..MaxDecisions
  /\ nChip \in 0..MaxChips
  /\ cancelRequested \in BOOLEAN
  /\ cancelFile \in BOOLEAN
  /\ timers \subseteq 1..MaxChips
  /\ killedBy \in 0..MaxChips

\* MainWindow.__init__ over the files an earlier session left behind.
Init ==
  /\ busy = {}
  /\ decisionRun = "IDLE"
  /\ chipRun = "IDLE"
  /\ full = "IDLE"
  /\ projectionsEnabled = TRUE
  /\ retryEnabled = FALSE
  /\ dJob = NoReport
  /\ cJob = NoReport
  /\ dReport = NoReport
  /\ cReport = NoReport
  /\ active = NoRun
  /\ historical = FALSE
  /\ cancelRequested = FALSE
  /\ timers = {}
  /\ killedBy = 0
  /\ acct \in Accounts
  /\ current = acct
  /\ runs \in SUBSET Bundles
  /\ sel \in IF runs = {} THEN {NoBundle} ELSE runs
  /\ history = [id \in RunIds |-> NoRun]
  /\ lastRun = 0
  /\ nDecision = 0
  /\ nChip = 0
  /\ cancelFile = FALSE

-----------------------------------------------------------------------------
(* Saving the active analysis: _persist_active_analysis, write_analysis_run *)

\* Defect: the check of the projection run is dropped
SameProjectionRun_Unchecked(d) == TRUE

\* write_analysis_run refuses a report of another projection run.
SameProjectionRun(d) == d = NoReport \/ d.bundle = active.bundle

\* AnalysisManifestV2.create refuses a chip report of another decision report.
SameDecision(d, c) ==
  \/ c = NoReport
  \/ d # NoReport /\ c.of = d

\* A refused manifest leaves history and the selection alone; a written one
\* replaces what the run saved before and reselects its projection run.
Persist(status, d, c) ==
  IF active # NoRun /\ SameProjectionRun(d) /\ SameDecision(d, c)
  THEN /\ history' = [history EXCEPT ![active.id] =
                       [status |-> status, state |-> active.state,
                        bundle |-> active.bundle, decision |-> d, chip |-> c]]
       /\ sel' = active.bundle
  ELSE UNCHANGED <<history, sel>>

\* _full_analysis_after_decision(succeeded=False)
AfterDecisionFailed(f, d, c) ==
  IF f \in RUNNING_FULL_ANALYSIS_STATES
  THEN full' = "ERROR" /\ Persist("ERROR", d, c)
  ELSE full' = f /\ UNCHANGED <<history, sel>>

\* Defect: only a good chip report ends the stage
AfterChip_OnSuccessOnly(f, status, d, c) ==
  IF f = "CHIP_SCREEN" /\ status = "COMPLETE"
  THEN full' = status /\ Persist(status, d, c)
  ELSE full' = f /\ UNCHANGED <<history, sel>>

\* _full_analysis_after_chip: status is what the analysis becomes
AfterChip(f, status, d, c) ==
  IF f = "CHIP_SCREEN"
  THEN full' = status /\ Persist(status, d, c)
  ELSE full' = f /\ UNCHANGED <<history, sel>>

-----------------------------------------------------------------------------
(* The chip screen *)

\* Defect: the account slot is missing from the tuple that is tested
NothingRuns_ButAccount(b) == b \subseteq {"account"}

\* The test every start handler makes of the four slots.
NothingRuns(b) == b = {}

\* start_chip_run with analysis state f, decision report d and slots b in use.
\* Two early returns leave the analysis as it was; a failed preparation ends it.
ChipRefused(f, d, b) ==
  /\ ~NothingRuns(b) \/ d = NoReport
  /\ full' = f
  /\ busy' = b
  /\ IF ~NothingRuns(b)
     THEN UNCHANGED <<chipRun, retryEnabled>>
     ELSE chipRun' = "ERROR" /\ retryEnabled' = FALSE
  /\ UNCHANGED <<cJob, nChip, cancelVars, history, sel>>

ChipCouldNotStart(f, d, b) ==
  /\ NothingRuns(b) /\ d # NoReport
  /\ chipRun' = "ERROR"
  /\ retryEnabled' = TRUE
  /\ busy' = b
  /\ AfterChip(f, "PARTIAL", d, cReport)
  /\ UNCHANGED <<cJob, nChip, cancelVars>>

\* write_decision_request raises OSError, which the handler does not catch.
ChipRequestNotWritten(f, d, b) ==
  /\ IoFaults
  /\ NothingRuns(b) /\ d # NoReport
  /\ full' = f
  /\ busy' = b
  /\ UNCHANGED <<chipRun, retryEnabled, cJob, nChip, cancelVars, history, sel>>

\* Defect: the cancel file of the last run is not unlinked
ChipStarted_KeepsCancelFile(f, d, b) ==
  /\ NothingRuns(b) /\ d # NoReport
  /\ sel # NoBundle
  /\ nChip < MaxChips
  /\ nChip' = nChip + 1
  /\ busy' = b \cup {"chip"}
  /\ chipRun' = "RUNNING"
  /\ retryEnabled' = FALSE
  /\ full' = f
  /\ cJob' = [of |-> d, acct |-> acct, bundle |-> sel]
  /\ cancelRequested' = FALSE
  /\ killedBy' = 0
  /\ UNCHANGED <<timers, history, sel, cancelFile>>

ChipStarted(f, d, b) ==
  /\ NothingRuns(b) /\ d # NoReport
  /\ sel # NoBundle
  /\ nChip < MaxChips
  /\ nChip' = nChip + 1
  /\ busy' = b \cup {"chip"}
  /\ chipRun' = "RUNNING"
  /\ retryEnabled' = FALSE
  /\ full' = f
  /\ cJob' = [of |-> d, acct |-> acct, bundle |-> sel]
  /\ cancelFile' = FALSE
  /\ cancelRequested' = FALSE
  /\ killedBy' = 0
  /\ UNCHANGED <<timers, history, sel>>

start_chip_run(f, d, b) ==
  \/ ChipRefused(f, d, b)
  \/ ChipCouldNotStart(f, d, b)
  \/ ChipRequestNotWritten(f, d, b)
  \/ ChipStarted(f, d, b)

\* The "Run chip screen" button.
RunChipScreen ==
  /\ chipRun # "RUNNING"
  /\ start_chip_run(full, dReport, busy)
  /\ UNCHANGED <<decisionRun, projectionsEnabled, acct, current, runs,
                 dJob, nDecision, dReport, cReport, active, historical, lastRun>>

\* Defect: a COMPLETE analysis re-enters its screen as well
Resumed_Complete == IF full \in {"PARTIAL", "COMPLETE"} THEN "CHIP_SCREEN" ELSE full

\* The state retry_chip_run puts the analysis in before it starts the worker.
Resumed == IF full = "PARTIAL" THEN "CHIP_SCREEN" ELSE full

\* The "Retry chip analysis" button: a PARTIAL analysis re-enters the screen
\* before start_chip_run decides whether it may start.
retry_chip_run ==
  /\ retryEnabled
  /\ dReport # NoReport
  /\ start_chip_run(Resumed, dReport, busy)
  /\ UNCHANGED <<decisionRun, projectionsEnabled, acct, current, runs,
                 dJob, nDecision, dReport, cReport, active, historical, lastRun>>

cancel_chip_run ==
  /\ "chip" \in busy
  /\ ~cancelRequested
  /\ cancelRequested' = TRUE
  /\ cancelFile' = TRUE
  /\ timers' = timers \cup {nChip}
  /\ UNCHANGED <<killedBy, workVars, uiVars, jobVars, reportVars>>

\* QTimer.singleShot(5000, ...): it is never stopped, and it tests only whether
\* some chip worker is running with a cancellation requested.
force_cancel_chip_worker(t) ==
  /\ t \in timers
  /\ timers' = timers \ {t}
  /\ killedBy' = IF cancelRequested /\ "chip" \in busy THEN t ELSE killedBy
  /\ UNCHANGED <<cancelRequested, cancelFile, workVars, uiVars, jobVars, reportVars>>

\* The worker refuses a decision whose context is not that of its own request.
ChipWorkerAccepts(job) == job.acct = job.of.acct /\ job.bundle = job.of.bundle

\* Defect: the chip screen's own state is given to the analysis
ChipCancelled_OwnState ==
  /\ cancelRequested
  /\ cancelRequested' = FALSE
  /\ chipRun' = "CANCELLED"
  /\ retryEnabled' = (dReport # NoReport)
  /\ AfterChip(full, "CANCELLED", dReport, cReport)
  /\ UNCHANGED cReport

\* _chip_finished; FailedToStart is finished with exit code 1.
ChipCancelled ==
  /\ cancelRequested
  /\ cancelRequested' = FALSE
  /\ chipRun' = "CANCELLED"
  /\ retryEnabled' = (dReport # NoReport)
  /\ AfterChip(full, "PARTIAL", dReport, cReport)
  /\ UNCHANGED cReport

ChipFailed ==
  /\ ~cancelRequested
  /\ chipRun' = "ERROR"
  /\ retryEnabled' = (dReport # NoReport)
  /\ AfterChip(full, "PARTIAL", dReport, cReport)
  /\ UNCHANGED <<cReport, cancelRequested>>

ChipSucceeded ==
  /\ ~cancelRequested
  /\ ChipWorkerAccepts(cJob)
  /\ chipRun' = "SUCCESS"
  /\ retryEnabled' = FALSE
  /\ cReport' = cJob
  /\ AfterChip(full, "COMPLETE", dReport, cJob)
  /\ UNCHANGED cancelRequested

chip_finished ==
  /\ "chip" \in busy
  /\ busy' = busy \ {"chip"}
  /\ cJob' = NoReport
  /\ ChipCancelled \/ ChipFailed \/ ChipSucceeded
  /\ UNCHANGED <<decisionRun, projectionsEnabled, acct, current, runs, dJob, nDecision,
                 nChip, dReport, active, historical, lastRun, cancelFile, timers, killedBy>>

-----------------------------------------------------------------------------
(* The decision engine and the full analysis *)

\* start_decision_run past its guards, the analysis being in state f.
DecisionStarted(f) ==
  /\ sel # NoBundle
  /\ nDecision < MaxDecisions
  /\ nDecision' = nDecision + 1
  /\ dJob' = [n |-> nDecision + 1, acct |-> acct, bundle |-> sel]
  /\ busy' = busy \cup {"decision"}
  /\ decisionRun' = "RUNNING"
  /\ full' = f
  /\ UNCHANGED <<history, sel>>

DecisionCouldNotStart(f, d, c) ==
  /\ decisionRun' = "ERROR"
  /\ AfterDecisionFailed(f, d, c)
  /\ UNCHANGED <<busy, dJob, nDecision>>

DecisionRequestNotWritten(f) ==
  /\ IoFaults
  /\ full' = f
  /\ UNCHANGED <<busy, decisionRun, dJob, nDecision, history, sel>>

\* The "Run decision engine" button.
start_decision_run ==
  /\ NothingRuns(busy)
  /\ decisionRun # "RUNNING"
  /\ \/ DecisionStarted(full)
     \/ DecisionCouldNotStart(full, dReport, cReport)
     \/ DecisionRequestNotWritten(full)
  /\ UNCHANGED <<chipRun, projectionsEnabled, retryEnabled, acct, current, runs, cJob,
                 nChip, dReport, cReport, active, historical, lastRun, cancelVars>>

\* Account state or bundle rejected before the analysis begins.
FullAnalysisRejected ==
  /\ full' = "ERROR"
  /\ UNCHANGED <<busy, decisionRun, dJob, nDecision, dReport, cReport, active,
                 historical, history, lastRun, sel>>

\* What _begin_analysis_history files the analysis under.  Defect: the account
\* last saved instead of the one the decision worker is given.
BegunAnalysis_Saved == [id |-> lastRun + 1, state |-> current, bundle |-> sel]

BegunAnalysis == [id |-> lastRun + 1, state |-> acct, bundle |-> sel]

\* _begin_analysis_history hands out a run id and drops the earlier results;
\* the decision stage then starts with them gone.
FullAnalysisBegun ==
  /\ sel # NoBundle
  /\ lastRun < MaxAnalyses
  /\ lastRun' = lastRun + 1
  /\ active' = BegunAnalysis
  /\ historical' = FALSE
  /\ dReport' = NoReport
  /\ cReport' = NoReport
  /\ \/ DecisionStarted("DECISION")
     \/ DecisionRequestNotWritten("DECISION")
     \/ /\ decisionRun' = "ERROR"
        /\ full' = "ERROR"
        /\ history' = [history EXCEPT ![lastRun + 1] =
                        [status |-> "ERROR", state |-> acct, bundle |-> sel,
                         decision |-> NoReport, chip |-> NoReport]]
        /\ UNCHANGED <<busy, dJob, nDecision, sel>>

start_full_analysis ==
  /\ full \notin RUNNING_FULL_ANALYSIS_STATES
  /\ NothingRuns(busy)
  /\ FullAnalysisRejected \/ FullAnalysisBegun
  /\ UNCHANGED <<chipRun, projectionsEnabled, retryEnabled, acct, current, runs,
                 cJob, nChip, cancelVars>>

\* Defect: the button stays in its running state.
DecisionFailed_StillRunning ==
  /\ busy' = busy \ {"decision"}
  /\ AfterDecisionFailed(full, dReport, cReport)
  /\ UNCHANGED <<decisionRun, dReport, historical, chipRun, retryEnabled, cJob, nChip, cancelVars>>

\* Exit code, report path or report content is bad.
DecisionFailed ==
  /\ decisionRun' = "ERROR"
  /\ busy' = busy \ {"decision"}
  /\ AfterDecisionFailed(full, dReport, cReport)
  /\ UNCHANGED <<dReport, historical, chipRun, retryEnabled, cJob, nChip, cancelVars>>

\* The report is good, the lineup preview for the selected bundle is not.
DecisionNotShown ==
  /\ decisionRun' = "ERROR"
  /\ busy' = busy \ {"decision"}
  /\ dReport' = dJob
  /\ historical' = FALSE
  /\ AfterDecisionFailed(full, dJob, cReport)
  /\ UNCHANGED <<chipRun, retryEnabled, cJob, nChip, cancelVars>>

\* Defect: the new decision keeps the label of the loaded analysis
DecisionSucceeded_Historical ==
  /\ decisionRun' = "SUCCESS"
  /\ dReport' = dJob
  /\ UNCHANGED historical
  /\ IF full \in RUNNING_FULL_ANALYSIS_STATES
     THEN start_chip_run("CHIP_SCREEN", dJob, busy \ {"decision"})
     ELSE /\ busy' = busy \ {"decision"}
          /\ UNCHANGED <<full, chipRun, retryEnabled, cJob, nChip, cancelVars, history, sel>>

\* On success a running analysis goes on to the chip screen in the same call.
DecisionSucceeded ==
  /\ decisionRun' = "SUCCESS"
  /\ dReport' = dJob
  /\ historical' = FALSE
  /\ IF full \in RUNNING_FULL_ANALYSIS_STATES
     THEN start_chip_run("CHIP_SCREEN", dJob, busy \ {"decision"})
     ELSE /\ busy' = busy \ {"decision"}
          /\ UNCHANGED <<full, chipRun, retryEnabled, cJob, nChip, cancelVars, history, sel>>

decision_finished ==
  /\ "decision" \in busy
  /\ dJob' = NoReport
  /\ DecisionFailed \/ DecisionNotShown \/ DecisionSucceeded
  /\ UNCHANGED <<projectionsEnabled, acct, current, runs, nDecision, cReport, active, lastRun>>

-----------------------------------------------------------------------------
(* Projections and the account *)

start_projection_run ==
  /\ projectionsEnabled
  /\ NothingRuns(busy)
  /\ busy' = busy \cup {"engine"}
  /\ projectionsEnabled' = FALSE
  /\ UNCHANGED <<decisionRun, chipRun, full, retryEnabled, uiVars, jobVars, reportVars, cancelVars>>

\* FailedToStart emits no finished(); the error handler only writes a log line.
projection_process_error ==
  /\ "engine" \in busy
  /\ busy' = busy \ {"engine"}
  /\ UNCHANGED <<decisionRun, chipRun, full, projectionsEnabled, retryEnabled,
                 uiVars, jobVars, reportVars, cancelVars>>

\* A new run becomes the selected one; a failed run changes no selection.
projection_finished ==
  /\ "engine" \in busy
  /\ busy' = busy \ {"engine"}
  /\ projectionsEnabled' = TRUE
  /\ \/ UNCHANGED <<runs, sel>>
     \/ \E b \in Bundles \ runs : runs' = runs \cup {b} /\ sel' = b
  /\ UNCHANGED <<decisionRun, chipRun, full, retryEnabled, acct, current, jobVars,
                 reportVars, cancelVars>>

start_account_sync ==
  /\ NothingRuns(busy)
  /\ busy' = busy \cup {"account"}
  /\ UNCHANGED <<decisionRun, chipRun, full, projectionsEnabled, retryEnabled,
                 uiVars, jobVars, reportVars, cancelVars>>

\* The worker wrote a valid, complete state: a changed account drops the results.
AccountSynced(a) ==
  /\ acct' = a
  /\ current' = a
  /\ IF current # a
     THEN dReport' = NoReport /\ cReport' = NoReport /\ active' = NoRun
     ELSE UNCHANGED <<dReport, cReport, active>>

account_sync_finished ==
  /\ "account" \in busy
  /\ busy' = busy \ {"account"}
  /\ \/ \E a \in Accounts : AccountSynced(a)
     \/ UNCHANGED <<acct, current, dReport, cReport, active>>
  /\ UNCHANGED <<decisionRun, chipRun, full, projectionsEnabled, retryEnabled, runs, sel,
                 jobVars, historical, history, lastRun, cancelVars>>

-----------------------------------------------------------------------------
(* The user at any time: none of these looks at the running workers *)

EditSquad ==
  /\ acct' \in Accounts
  /\ UNCHANGED <<current, runs, sel, workVars, jobVars, reportVars, cancelVars>>

save_current_state ==
  /\ current' = acct
  /\ UNCHANGED <<acct, runs, sel, workVars, jobVars, reportVars, cancelVars>>

reset_saved_wc ==
  /\ acct' \in Accounts
  /\ current' = acct'
  /\ UNCHANGED <<runs, sel, workVars, jobVars, reportVars, cancelVars>>

use_selected_projection_run ==
  /\ sel' \in runs
  /\ UNCHANGED <<acct, current, runs, workVars, jobVars, reportVars, cancelVars>>

\* A saved analysis of the selected run whose context is the current one.
load_selected_analysis(id) ==
  /\ Usable(history[id])
  /\ history[id].decision # NoReport
  /\ history[id].bundle = sel
  /\ \A r \in {history[id].decision, history[id].chip} \ {NoReport} :
        r.acct = acct /\ r.bundle = sel
  /\ dReport' = history[id].decision
  /\ cReport' = history[id].chip
  /\ active' = [id |-> id, state |-> history[id].state, bundle |-> sel]
  /\ historical' = TRUE
  /\ full' = history[id].status
  /\ UNCHANGED <<busy, decisionRun, chipRun, projectionsEnabled, retryEnabled, uiVars,
                 jobVars, history, lastRun, cancelVars>>

\* Closing the window destroys its QProcess children; the files stay, and the
\* next window shows the account it finds in the state file.
Restart ==
  /\ busy' = {}
  /\ decisionRun' = "IDLE"
  /\ chipRun' = "IDLE"
  /\ full' = "IDLE"
  /\ projectionsEnabled' = TRUE
  /\ retryEnabled' = FALSE
  /\ dJob' = NoReport
  /\ cJob' = NoReport
  /\ dReport' = NoReport
  /\ cReport' = NoReport
  /\ active' = NoRun
  /\ historical' = FALSE
  /\ cancelRequested' = FALSE
  /\ timers' = {}
  /\ killedBy' = 0
  /\ acct' \in Accounts
  /\ current' = acct'
  /\ sel' \in IF runs = {} THEN {NoBundle} ELSE runs
  /\ UNCHANGED <<runs, history, lastRun, nDecision, nChip, cancelFile>>

-----------------------------------------------------------------------------
WorkerEnds ==
  \/ decision_finished
  \/ chip_finished
  \/ projection_finished
  \/ projection_process_error
  \/ account_sync_finished

UserActs ==
  \/ start_full_analysis
  \/ start_decision_run
  \/ RunChipScreen
  \/ retry_chip_run
  \/ cancel_chip_run
  \/ start_projection_run
  \/ start_account_sync
  \/ EditSquad
  \/ save_current_state
  \/ reset_saved_wc
  \/ use_selected_projection_run
  \/ \E id \in RunIds : load_selected_analysis(id)

Next ==
  \/ WorkerEnds
  \/ UserActs
  \/ \E t \in timers : force_cancel_chip_worker(t)
  \/ Restart

Spec == Init /\ [][Next]_vars

\* Workers are finite computations and Qt delivers their completion; the user
\* and the timers owe nothing.
Fairness ==
  /\ WF_vars(decision_finished)
  /\ WF_vars(chip_finished)
  /\ WF_vars(projection_finished \/ projection_process_error)
  /\ WF_vars(account_sync_finished)

FairSpec == Spec /\ Fairness

-----------------------------------------------------------------------------
(* Properties *)

\* At most one worker runs at a time: each of the four start handlers tests the
\* other three slots as well as its own, also when a callback starts the next
\* worker before it returns.
OneWorker == \A s, t \in busy : s = t

\* The run flags follow the workers, so no "running" label outlives its worker
\* and no finished worker leaves its button disabled.
RunFlagsFollowWorkers ==
  /\ decisionRun = "RUNNING" <=> "decision" \in busy
  /\ chipRun = "RUNNING" <=> "chip" \in busy

\* A full analysis in its decision stage has a decision worker, and that worker
\* computes for the account and projection run the analysis will be saved under,
\* whatever the user edits, selects or loads meanwhile.
DecisionStageOwnsWorker ==
  full = "DECISION" =>
    /\ "decision" \in busy
    /\ active # NoRun
    /\ dJob.acct = active.state
    /\ dJob.bundle = active.bundle

\* A cancel file a chip worker can see was written by a cancellation of that
\* very worker, never left behind by an earlier one.
CancelFileIsOfThisRun == "chip" \in busy /\ cancelFile => cancelRequested

\* What is labelled historical is the decision of the manifest it was loaded
\* from, also after workers that were already running have reported.
HistoricalShowsItsManifest ==
  historical /\ dReport # NoReport =>
    active # NoRun /\ history[active.id] # NoRun /\ history[active.id].decision = dReport

\* A saved analysis holds a decision of the projection run it is filed under and
\* a chip report computed from that decision, although the user may change the
\* selected run and repeat single stages in between.
SavedReportsBelongTogether ==
  \A id \in RunIds : history[id] # NoRun =>
    LET m == history[id] IN
    /\ m.decision = NoReport \/ m.decision.bundle = m.bundle
    /\ m.chip = NoReport \/ m.chip.of = m.decision
    /\ m.status = "COMPLETE" => m.chip # NoReport

\* A COMPLETE analysis is never rewritten.
CompleteAnalysisImmutable ==
  [][\A id \in RunIds :
       history[id] # NoRun /\ history[id].status = "COMPLETE"
         => history'[id] = history[id]]_history

\* A full analysis that has a worker of its own ends in COMPLETE, PARTIAL or
\* ERROR: cancelled, crashed, refused and unstartable workers included, and also
\* when the user loads, edits or retries in between.
RunningAnalysisEnds ==
  full \in RUNNING_FULL_ANALYSIS_STATES /\ busy \cap {"decision", "chip"} # {}
    ~> full \notin RUNNING_FULL_ANALYSIS_STATES

-----------------------------------------------------------------------------
(* What the documents of the repository say and these handlers do not do *)

\* No failure turns a saved analysis with results into an ERROR ("SHALL preserve
\* prior successful analysis results").
SavedResultsPreserved ==
  [][\A id \in RunIds : Usable(history[id]) => Usable(history'[id])]_history

\* A worker is terminated only by the grace period of its own cancellation.
GracePeriodIsOfThisRun == killedBy \in {0, nChip}

=============================================================================
