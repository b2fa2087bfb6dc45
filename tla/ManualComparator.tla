---------------------------- MODULE ManualComparator ----------------------------
(***************************************************************************)
(* ManualComparator (desktop_app/manual_comparator.py): one comparator tab *)
(* and the persistent workers it starts (manual_scenario_runner.py), which *)
(* answer one JSON line per command in the order of the commands.  The tab *)
(* saves into a ScenarioStore that other desktops write as well.           *)
(*                                                                         *)
(* The slots of the tab run on the GUI thread: each is one action, except  *)
(* that a slot which saves lets other clients of the store in between its  *)
(* reading and its writing.  A worker that was given up may go on for a    *)
(* while: kill() is not waited for to the end, and on Windows the Python   *)
(* behind the venv redirector ends when its guard notices                  *)
(* (manual_worker_guard.py).  Its lines must not count any more.           *)
(***************************************************************************)
EXTENDS ScenarioStore, Sequences

CONSTANTS
  Window,       \* the client that is this desktop
  Hold,         \* the package of no transfers
  Mismatch,     \* a selection whose OUT and IN differ in number
  Legal,        \* <<context, package>> whose final squad is valid
  MaxContext,   \* bound: contexts 1..MaxContext
  MaxLoads,     \* bound: workers started
  MaxCommands,  \* bound: commands sent to workers
  MaxActivity   \* bound: loads, commands and operations together

ASSUME ComparatorAssumption ==
  /\ MaxContext \in Nat \ {0} /\ MaxLoads \in Nat /\ MaxCommands \in Nat
  /\ MaxOperations \in Nat /\ MaxActivity \in Nat
  /\ Contexts = 1..MaxContext
  /\ Window \in Clients
  /\ Hold \in Packages /\ Mismatch \notin Packages
  /\ Legal \subseteq Contexts \X Packages
  /\ NoResult \notin Results /\ NoOperation \notin Operations

NoContext == 0
NoWorker == 0
NoCommand == 0

VARIABLES
  world,        \* the account and the selected projection run as they are now
  loads,        \* workers started so far
  current,      \* the worker of the present _generation
  fingerprint,  \* _fingerprint: the world the current worker was started for
  workers,      \* per load: the process, its context (while it starts: that of its
                \* request file) and its two pipes
  commands,     \* command ids given out
  context,      \* context_id with input_sha256
  package,      \* _package
  busy,         \* _busy
  valid,        \* _valid
  timer,        \* _timeout runs
  debounce,     \* _debounce runs
  validation,   \* _validation_id
  evaluation,   \* _evaluation_id
  result,       \* _current_result
  baseline,     \* _baseline_result: the context of its HOLD and production paths
  scenario      \* _scenario_id

pipeVars == <<loads, workers, commands>>
handles == <<current, fingerprint, context>>
answerVars == <<valid, validation, evaluation, result, baseline>>
tabVars == <<handles, package, busy, timer, debounce, answerVars, scenario>>
vars == <<storeVars, world, pipeVars, tabVars>>

-----------------------------------------------------------------------------
Worlds == 1..MaxContext
Loads == 1..MaxLoads
CommandIds == 0..MaxCommands
Selections == Packages \cup {Mismatch}

\* validate and evaluate as they are written to a worker.
Commands == [kind : {"validate", "evaluate"}, id : CommandIds, package : Selections]

\* The lines of a worker.  "error" with NoCommand is a failed start.
Lines == [kind : {"ready", "validation", "result", "error"}, id : CommandIds,
          context : {NoContext} \cup Contexts, package : Selections, valid : BOOLEAN]

Line(kind, id, c, p, ok) ==
  [kind |-> kind, id |-> id, context |-> c, package |-> p, valid |-> ok]

Workers == [state : {"none", "starting", "running", "exited", "crashed"},
            context : {NoContext} \cup Contexts,
            inbox : Seq(Commands), outbox : Seq(Lines)]

NoProcess == [state |-> "none", context |-> NoContext, inbox |-> <<>>, outbox |-> <<>>]

Starting(c) == [state |-> "starting", context |-> c, inbox |-> <<>>, outbox |-> <<>>]

TypeOK ==
  /\ StoreTypeOK
  /\ world \in Worlds
  /\ loads \in 0..MaxLoads /\ current \in 0..loads
  /\ fingerprint \in {0} \cup Worlds
  /\ workers \in [Loads -> Workers]
  /\ commands \in CommandIds
  /\ context \in {NoContext} \cup Contexts
  /\ package \in Selections
  /\ busy \in BOOLEAN /\ valid \in BOOLEAN /\ timer \in BOOLEAN /\ debounce \in BOOLEAN
  /\ validation \in CommandIds /\ evaluation \in CommandIds
  /\ result \in Results \cup {NoResult}
  /\ baseline \in {NoContext} \cup Contexts
  /\ scenario \in 0..identities

Init ==
  /\ StoreInit
  /\ world = 1
  /\ loads = 0 /\ current = NoWorker /\ fingerprint = 0
  /\ workers = [n \in Loads |-> NoProcess]
  /\ commands = 0
  /\ context = NoContext
  /\ package = Hold
  /\ busy = FALSE /\ valid = FALSE /\ timer = FALSE /\ debounce = FALSE
  /\ validation = NoCommand /\ evaluation = NoCommand
  /\ result = NoResult /\ baseline = NoContext
  /\ scenario = NoId

\* Saving the squad, a new projection run or another selected one.
WorldChanges ==
  /\ world < MaxContext
  /\ world' = world + 1
  /\ UNCHANGED <<storeVars, pipeVars, tabVars>>

\* Bound: what the tabs and the other desktops may still begin.
Bounded == loads + commands + operations < MaxActivity

\* A slot of the tab runs when no other one is in the middle of a save.
SlotRuns == pending[Window] = NoOperation

-----------------------------------------------------------------------------
(* Giving up a worker, and the edits *)

\* shutdown: the next generation has no worker, no context and no timers.
Shutdown ==
  /\ current' = NoWorker
  /\ fingerprint' = 0
  /\ context' = NoContext
  /\ timer' = FALSE /\ debounce' = FALSE
  /\ valid' = FALSE
  /\ baseline' = NoContext

\* cancel: whoever calls it, the tab is idle afterwards.
GivenUp ==
  /\ Shutdown
  /\ busy' = FALSE
  /\ result' = NoResult
  /\ UNCHANGED <<package, validation, evaluation, scenario>>

\* Defect: an edit leaves the id of the validation under way.
Edited_KeepsValidation(p, idle) ==
  /\ package' = p
  /\ valid' = FALSE
  /\ result' = NoResult
  /\ debounce' = (idle /\ p # Mismatch)
  /\ UNCHANGED validation

\* _edited: the selection is p, nothing is known of it, and it will be validated
\* when there is a context and the selection is complete.
Edited(p, idle) ==
  /\ package' = p
  /\ valid' = FALSE
  /\ result' = NoResult
  /\ validation' = NoCommand
  /\ debounce' = (idle /\ p # Mismatch)

-----------------------------------------------------------------------------
(* The user *)

\* load_context up to the moment the process is being started: with a new worker the
\* tab is busy and timed before start() can report anything.
LoadContext ==
  /\ SlotRuns /\ ~busy
  /\ loads < MaxLoads /\ Bounded
  /\ loads' = loads + 1
  /\ workers' = [workers EXCEPT ![loads + 1] =
                   Starting(world)]
  /\ current' = loads + 1
  /\ fingerprint' = world
  /\ context' = NoContext
  /\ busy' = TRUE /\ timer' = TRUE /\ debounce' = FALSE
  /\ valid' = FALSE /\ result' = NoResult /\ baseline' = NoContext
  /\ scenario' = NoId
  /\ UNCHANGED <<storeVars, world, commands, package, validation, evaluation>>

\* Defect: the tab is made busy after start() has reported that it failed.
LoadFails_BusyAfterStart ==
  /\ SlotRuns /\ ~busy
  /\ Shutdown
  /\ busy' = TRUE
  /\ result' = NoResult /\ scenario' = NoId
  /\ UNCHANGED <<storeVars, world, pipeVars, package, validation, evaluation>>

\* The account, the bundle or the request file cannot be had, or start() emits
\* FailedToStart before it returns.
LoadFails ==
  /\ SlotRuns /\ ~busy
  /\ Shutdown
  /\ busy' = FALSE
  /\ result' = NoResult /\ scenario' = NoId
  /\ UNCHANGED <<storeVars, world, pipeVars, package, validation, evaluation>>

\* Ticking players; Reset to HOLD forgets the loaded scenario as well.
Edit(p) ==
  /\ SlotRuns /\ ~busy
  /\ Edited(p, context # NoContext)
  /\ UNCHANGED <<storeVars, world, pipeVars, handles, busy, timer, evaluation, baseline, scenario>>

ResetHold ==
  /\ SlotRuns /\ ~busy
  /\ Edited(Hold, context # NoContext)
  /\ scenario' = NoId
  /\ UNCHANGED <<storeVars, world, pipeVars, handles, busy, timer, evaluation, baseline>>

\* load_saved: nothing without a context; the saved evaluation is not taken over.
LoadSaved(r) ==
  /\ SlotRuns /\ ~busy
  /\ context # NoContext
  /\ Edited(r.package, TRUE)
  /\ scenario' = r.id
  /\ UNCHANGED <<storeVars, world, pipeVars, handles, busy, timer, evaluation, baseline>>

\* A command with a new id goes to the current worker, or nowhere if that has ended.
Send(kind) ==
  /\ commands < MaxCommands /\ Bounded
  /\ commands' = commands + 1
  /\ workers' = IF workers[current].state # "running" THEN workers
                ELSE [workers EXCEPT ![current].inbox =
                        Append(@, [kind |-> kind, id |-> commands + 1, package |-> package])]

\* evaluate, when it finds the context unchanged (WatchContext otherwise).
Evaluate ==
  /\ SlotRuns /\ ~busy
  /\ valid /\ context # NoContext
  /\ fingerprint = world
  /\ Send("evaluate")
  /\ evaluation' = commands + 1
  /\ result' = NoResult
  /\ busy' = TRUE /\ timer' = TRUE
  /\ UNCHANGED <<storeVars, world, loads, handles, package, debounce, valid, validation,
                 baseline, scenario>>

Cancel ==
  /\ SlotRuns /\ busy
  /\ GivenUp
  /\ UNCHANGED <<storeVars, world, pipeVars>>

\* save_scenario up to the reading of the file.
SaveBegins(known, outcome) ==
  /\ Bounded
  /\ Load(Window, [op |-> "save", row |-> Row(known, context, package, outcome)])

Save ==
  /\ SlotRuns /\ ~busy
  /\ valid /\ context # NoContext
  /\ SaveBegins(scenario, result)
  /\ UNCHANGED <<world, pipeVars, tabVars>>

RenameSaved ==
  /\ SlotRuns /\ ~busy
  /\ Bounded
  /\ Load(Window, [op |-> "rename"])
  /\ UNCHANGED <<world, pipeVars, tabVars>>

\* The row chosen in the list may be gone from the file, or none is chosen (NoId).
DeleteSaved(i) ==
  /\ SlotRuns /\ ~busy
  /\ Bounded
  /\ Load(Window, [op |-> "delete", id |-> i])
  /\ UNCHANGED <<world, pipeVars, tabVars>>

\* The file is replaced: a saved row is the tab's scenario from now on, after a
\* deletion it has none.
SaveEnds ==
  /\ Commit(Window)
  /\ scenario' = CASE pending[Window].op = "save" -> SavedId(pending[Window].row, loaded[Window])
                   [] pending[Window].op = "delete" -> NoId
                   [] pending[Window].op = "rename" -> scenario
  /\ UNCHANGED <<world, pipeVars, handles, package, busy, timer, debounce, answerVars>>

SaveFails ==
  /\ Abort(Window)
  /\ UNCHANGED <<world, pipeVars, tabVars>>

\* The desktop is closed or dies, in the middle of a save too, and is opened again.
Reopened ==
  /\ Ended(Window)
  /\ Shutdown
  /\ package' = Hold
  /\ busy' = FALSE
  /\ validation' = NoCommand /\ evaluation' = NoCommand
  /\ result' = NoResult
  /\ scenario' = NoId
  /\ UNCHANGED <<scenarios, identities, world, pipeVars>>

-----------------------------------------------------------------------------
(* Timers *)

\* _validate, when the 250 ms of rest are over.
Debounced ==
  /\ SlotRuns /\ debounce
  /\ debounce' = FALSE
  /\ IF context # NoContext /\ ~busy
     THEN Send("validate") /\ validation' = commands + 1
     ELSE UNCHANGED <<workers, commands, validation>>
  /\ UNCHANGED <<storeVars, world, loads, handles, package, busy, timer, valid, evaluation,
                 result, baseline, scenario>>

\* _watch_context, every second and before an evaluation.
WatchContext ==
  /\ SlotRuns
  /\ fingerprint # 0 /\ fingerprint # world
  /\ GivenUp
  /\ UNCHANGED <<storeVars, world, pipeVars>>

\* _timeout: 60 s for the handshake, 185 s for an evaluation.
TimedOut ==
  /\ SlotRuns /\ timer
  /\ GivenUp
  /\ UNCHANGED <<storeVars, world, pipeVars>>

-----------------------------------------------------------------------------
(* What a worker reports *)

\* Defect: lines are handled whichever worker they are of.
Hears_AnyWorker(n) == workers[n].outbox # <<>>

\* _read_stdout: only the worker of this generation is heard.
Hears(n) == n = current /\ workers[n].outbox # <<>>

TakeLine(n) ==
  /\ workers' = [workers EXCEPT ![n].outbox = Tail(@)]
  /\ UNCHANGED <<world, loads, commands>>

\* The handshake: both selections are cleared, and the empty package is validated.
ReadyCame(line) ==
  /\ context' = line.context
  /\ timer' = FALSE /\ busy' = FALSE
  /\ Edited(Hold, TRUE)
  /\ UNCHANGED <<storeVars, current, fingerprint, evaluation, baseline, scenario>>

\* Only an answer about the present selection counts.
ValidationCame(line) ==
  /\ IF line.id = validation /\ line.context = context
     THEN valid' = line.valid /\ busy' = FALSE
     ELSE UNCHANGED <<valid, busy>>
  /\ UNCHANGED <<storeVars, handles, package, timer, debounce, validation, evaluation, result,
                 baseline, scenario>>

\* Another context gives the worker up, another package is an invalid answer; the
\* evaluation of a scenario loaded or saved before is saved at once.
ResultCame(line) ==
  \/ /\ line.id # evaluation
     /\ UNCHANGED <<storeVars, tabVars>>
  \/ /\ line.id = evaluation /\ line.context # context
     /\ GivenUp
     /\ UNCHANGED storeVars
  \/ /\ line.id = evaluation /\ line.context = context
     /\ timer' = FALSE /\ busy' = FALSE
     /\ IF line.package = package
        THEN /\ result' = [context |-> context, package |-> package]
             /\ baseline' = context
             /\ IF scenario # NoId /\ valid
                THEN SaveBegins(scenario, result')
                ELSE UNCHANGED storeVars
        ELSE result' = NoResult /\ baseline' = NoContext /\ UNCHANGED storeVars
     /\ UNCHANGED <<handles, package, debounce, valid, validation, evaluation, scenario>>

\* A failed start gives the worker up; a failed command must be repeated.
ErrorCame(line) ==
  /\ UNCHANGED storeVars
  /\ \/ /\ line.id \notin {NoCommand, evaluation, validation}
        /\ UNCHANGED tabVars
     \/ /\ line.id \in {NoCommand, evaluation, validation}
        /\ context = NoContext
        /\ GivenUp
     \/ /\ line.id \in {NoCommand, evaluation, validation}
        /\ context # NoContext
        /\ timer' = FALSE /\ busy' = FALSE /\ valid' = FALSE
        /\ UNCHANGED <<handles, package, debounce, validation, evaluation, result, baseline,
                       scenario>>

HandleMessage(n) ==
  LET line == Head(workers[n].outbox) IN
  /\ SlotRuns
  /\ Hears(n)
  /\ TakeLine(n)
  /\ CASE line.kind = "ready" -> ReadyCame(line)
       [] line.kind = "validation" -> ValidationCame(line)
       [] line.kind = "result" -> ResultCame(line)
       [] line.kind = "error" -> ErrorCame(line)

\* _finished handles what is left in the pipe first; a crash is also reported as an
\* error, which may come before the last lines are read.
WorkerEnded ==
  /\ SlotRuns
  /\ current # NoWorker
  /\ \/ workers[current].state = "crashed"
     \/ workers[current].state = "exited" /\ workers[current].outbox = <<>>
  /\ GivenUp
  /\ UNCHANGED <<storeVars, world, pipeVars>>

-----------------------------------------------------------------------------
(* The workers *)

OutsideTab == <<storeVars, world, loads, commands, tabVars>>

\* It loads the account of its request file with the projection run on disk.
WorkerReady(n) ==
  /\ workers[n].state = "starting"
  /\ \E c \in {workers[n].context, world} :
       workers' = [workers EXCEPT ![n].state = "running", ![n].context = c,
                     ![n].outbox = Append(@, Line("ready", NoCommand, c, Hold, FALSE))]
  /\ UNCHANGED OutsideTab

WorkerRefuses(n) ==
  /\ workers[n].state = "starting"
  /\ workers' = [workers EXCEPT ![n].state = "exited",
                   ![n].outbox = Append(@, Line("error", NoCommand, NoContext, Hold, FALSE))]
  /\ UNCHANGED OutsideTab

\* The answers to a command: it may always fail, and must when the projection run on
\* disk is seen to be another one than the worker's.
Answers(n, c) ==
  {Line("error", c.id, NoContext, c.package, FALSE)} \cup
  (IF c.kind = "validate"
   THEN {Line("validation", c.id, workers[n].context, c.package,
              <<workers[n].context, c.package>> \in Legal)}
   ELSE IF <<workers[n].context, c.package>> \in Legal
   THEN {Line("result", c.id, workers[n].context, c.package, TRUE)}
   ELSE {})

WorkerAnswers(n) ==
  /\ workers[n].state = "running"
  /\ workers[n].inbox # <<>>
  /\ \E a \in Answers(n, Head(workers[n].inbox)) :
       workers' = [workers EXCEPT ![n].inbox = Tail(@), ![n].outbox = Append(@, a)]
  /\ UNCHANGED OutsideTab

\* Killed, crashed, or its pipe was closed.
WorkerDies(n) ==
  /\ workers[n].state \in {"starting", "running"}
  /\ workers' = [workers EXCEPT ![n].state = "crashed", ![n].inbox = <<>>]
  /\ UNCHANGED OutsideTab

-----------------------------------------------------------------------------
(* The other desktops *)

\* Theirs may be the context of an earlier world, and a row that is deleted by now.
PeerSaves(c, p) ==
  \E x \in 1..world, i \in 0..identities :
    \E y \in {NoResult, [context |-> x, package |-> p]} :
      Load(c, [op |-> "save", row |-> Row(i, x, p, y)])

PeerBegins(c) ==
  /\ c # Window
  /\ Bounded
  /\ \/ \E p \in Packages : PeerSaves(c, p)
     \/ \E i \in 1..identities : Load(c, [op |-> "delete", id |-> i])
     \/ Load(c, [op |-> "rename"])
  /\ UNCHANGED <<world, pipeVars, tabVars>>

PeerEnds(c) ==
  /\ c # Window
  /\ Commit(c) \/ Abort(c)
  /\ UNCHANGED <<world, pipeVars, tabVars>>

UserStep ==
  \/ LoadContext \/ LoadFails \/ ResetHold
  \/ \E p \in Selections : Edit(p)
  \/ \E r \in scenarios : LoadSaved(r)
  \/ \E i \in 0..identities : DeleteSaved(i)
  \/ Evaluate \/ Cancel \/ Save \/ RenameSaved \/ Reopened

WorkerStep(n) == WorkerReady(n) \/ WorkerRefuses(n) \/ WorkerAnswers(n) \/ WorkerDies(n)

Next ==
  \/ WorldChanges
  \/ UserStep
  \/ SaveEnds \/ SaveFails
  \/ Debounced \/ WatchContext \/ TimedOut
  \/ \E n \in Loads : HandleMessage(n) \/ WorkerStep(n)
  \/ WorkerEnded
  \/ \E c \in Clients : PeerBegins(c) \/ PeerEnds(c)

Spec == Init /\ [][Next]_vars

-----------------------------------------------------------------------------
(* Properties *)

\* The tab is enabled for evaluation and saving only when the current worker found
\* the selection that is ticked now valid in the context that is shown: answers to
\* earlier selections, of earlier workers or after failures never enable it.
ValidatedPackage == valid => context # NoContext /\ <<context, package>> \in Legal

\* What the tab shows is of the worker it talks to and of the selection it shows,
\* whatever earlier workers still write and however the selection changed meanwhile.
ShownIsCurrent ==
  /\ context # NoContext => current # NoWorker /\ workers[current].context = context
  /\ result # NoResult => result.context = context /\ result.package = package
  /\ baseline # NoContext => baseline = context

\* A busy tab is timed, so that it cannot stay busy; an idle one is not, so that
\* its worker is not given up by the timer of something that ended.
BusyIsTimed == busy <=> timer

=============================================================================
