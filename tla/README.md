# Fantasy-PL: formal models and proofs

TLA+ models of the parts of Fantasy-PL in which several actors meet: the desktop
window and its worker processes, the transfer comparator with its long-lived worker,
the read path of the data providers through cache, quota and raw evidence store, the
capture and archiving of pre-deadline evidence, and the prospective evaluation on top
of it; the transfer rules that the planners and the comparator share, and the replay of a
season under them. TLC checks
them on small instances; TLAPS proves the main safety properties for every value of
the constants. `PROJECT.json` maps each definition to the lines it stands for.

Run, inside this directory:

    tlc -workers 2 -config MCDesktopSafety.cfg MCDesktopWorkflow
    tlapm DesktopWorkflow_proofs.tla

## 1. Inventory

| Component | State | Operations | Talks to | What is hard | What makes it correct |
|---|---|---|---|---|---|
| Main window (`desktop_app/main_window.py`, `full_analysis.py`, `*_orchestration.py`) | four `QProcess` slots, run states, full-analysis state, current reports, active analysis, cancel file, timers | start, finish, error, cancel, retry and load slots of one GUI thread | workers by files and exit codes, Run Center | callbacks and user input in any order; results that arrive after the context changed; refused retries; timers that outlive their run | one worker at a time; labels follow workers; a running analysis ends; saved reports belong together |
| Run Center (`run_center.py`) | analysis manifests, one file per analysis run | write, discover, verify references | replay archive | the file is rewritten while others refer to it by hash | reports of one context; a complete analysis stays |
| Decision and chip workers (`decision_runner.py`, `chip_runner.py`) | none beyond the process | validate the request, compute, write a report; the decision worker also captures | window, capture | cancellation, a stale cancel file, a request whose context is not the report's | accept only a matching decision |
| Raw evidence store (`fpl_engine/data/raw_store.py`) | one directory with two files per snapshot | `store_json`, `store_bytes`, `read_bytes`, `verify_snapshot` | providers | threads and processes in the same directory, failures between system calls, death | write once; metadata marks completion |
| Prospective capture (`validation/prospective_capture.py`) | capture manifests | `capture_decision` | replay archive | two clock readings around the deadline, concurrent captures, retries | evidence dated before the deadline, written once |
| Replay archive (`validation/replay_archive.py`) | archive cases that refer to evidence by hash | build, write, validate, attach outcomes | manifests, reports, bundles | what is referred to can change | a case stays valid |
| Prospective evaluation (`validation/prospective.py`) | ledger, lock file, report directories | `evaluate` | archive | concurrent evaluations, death at any step, stale locks, evidence that changes between evaluations | one primary per gameweek, chosen before its deadline; immutable reports that agree |
| HTTP cache (`data/http_cache.py`) | one ZIP per request | get, put, get_or_fetch, invalidate | adapters | the fetch is outside the lock; the clock is read after the file | a hit is within its lifetime; older over newer only between overlapping calls |
| Providers (`data/providers/`) | request budget of API-Football | fetch and parse | cache, raw store | budget shared by threads over a change of date, failures between transport, evidence and cache | budget never exceeded; what is served was kept first and is not backdated |
| Odds identity registry (`data/odds_identity.py`) | one JSON registry | load, merge, replace | market odds | two writers | atomic replacement |
| Transfer comparator (`desktop_app/manual_comparator.py`, `manual_scenario_runner.py`) | long-lived worker, generation, timers, current comparison | line protocol over stdin and stdout | scenario store | late lines of an earlier worker, handshake and evaluation timeouts | what is enabled, shown and saved is of the present worker and selection |
| Scenario store (`manual_scenario_store.py`) | one JSON file | save, rename, delete | comparator | read-modify-write by several desktops, without a lock | rows stay unique and hold their own evaluation |
| Transfer rules (`optimizer/core.py`, `strategy/strategic_planner_v3.py`, `manual_scenario_engine.py`) | none: a planning state goes in, packages and planning states come out | prices, free transfers, `validate_squad`, one action of the planner, two searches | comparator, planners | simultaneous transfers under bank, quota and club limits; a pruned search beside an exhaustive one | a squad stays lawful; no money is made or lost; both searches agree |
| Season replay (`validation/backtesting.py`, `optimizer/core.py`) | the account and chips of a simulated manager | one step per gameweek: new prices, a package or an unlimited squad, a chip | optimizers | prices and selling prices, chips of two halves and free transfers over a long sequence; a free hit that is undone | the account stays lawful and solvent; chips and free transfers stay within what was granted; money comes from prices only |
| Rest of planner, decision package, optimizers, simulation, models, features | none | batch computation | files | numeric | outside the reach of a model checker |
| Scripts, views, configuration | none | | | | |

Not modelled at all: statistics, simulation, mixed-integer programs, scoring of an
evaluation, rendering, provider payloads and one-off scripts. They are sequential
computations over real numbers or layout; only whether they succeed matters here.

## 2. Modules

| Module | Models | Composition |
|---|---|---|
| `DesktopWorkflow` | main window, full analysis, Run Center history | `MCDesktopWorkflow` instantiates it, `DesktopWorkflow_proofs` proves |
| `RawEvidence` | what a raw store promises | abstract specification of `RawStore` |
| `RawStore` | the publish protocol, call by call | refines `RawEvidence`; `MCRawStore`, `RawStore_proofs` |
| `ReplayArchive` | decisions, captures, saved manifests, archive cases | `MCReplayArchive`, `ReplayArchive_proofs` |
| `PrimaryRegister` | what the evaluation promises its readers | abstract specification of `ProspectiveStudy` |
| `ProspectiveStudy` | the evaluation | EXTENDS `ReplayArchive` and interleaves with it, refines `PrimaryRegister`; `MCProspectiveStudy`, `ProspectiveStudy_proofs` |
| `HttpCache` | entries, expiry, replacement | extended by `ProviderFetch` |
| `ProviderFetch` | the read path of all provider adapters, and the quota | `MCProviderFetch`, `ProviderFetch_proofs` |
| `ScenarioStore` | the file of manual scenarios and its clients | extended by `ManualComparator` |
| `ManualComparator` | the comparator tab, its workers and pipes | `ManualComparator_proofs` |
| `SquadRules` | transfer rules, no state | `SquadRules_proofs` |
| `ManualEngine` | what the comparator's workers accept and compute | EXTENDS `ManualComparator` and `SquadRules`; `MCManualComparator`, `ManualComparator_proofs` |
| `SeasonReplay` | the replay of a season with the first optimizer | EXTENDS `SquadRules`; `MCSeasonReplay`, `SeasonReplay_proofs` |

Operators named `X_Something` next to a definition `X` are deliberately defective
variants of it; no specification uses them. Replacing `X` by one must break the
property that `PROJECT.json` names, which shows that the property depends on `X`.

### DesktopWorkflow

One action is one slot of the GUI thread, from its call to its return, with all the
calls it makes: `decision_finished` includes the start of the chip worker, which is
why `start_chip_run` takes the analysis state, report and slots its caller has just
set as parameters. Actions keep the names of the methods where they can.

Data is reduced to identities. An *account* is what `_state_from_ui()` returns for the
selected gameweek; a *bundle* is a production projection run of that gameweek; a
decision report is the number of the worker that wrote it with its account and bundle;
a chip report is its context and the decision it was computed from. The window refuses
or reacts through equality of these, and the model does the same.

Abstractions. The state file on disk is not separate from the account the window holds,
so a save during an account sync cannot lose a write. A failed preparation is a free
choice, not a function of the state. `AccountSyncState`, the trust badge, progress bar,
advisory history and previews are left out, except where building a preview can fail
(`DecisionNotShown`). Closing the window kills its children; orphan workers after a
hard kill are not modelled. `IoFaults` says whether writing a request file may raise
`OSError`, which no handler catches: the safety run has it TRUE, the stage run FALSE,
since with it a full analysis stays in DECISION without a worker.

### RawEvidence and RawStore

One action per system call of `_publish`: `mkdir`, staging, `link` of the payload, `link`
of the metadata, removal of the staging directory, and the clean-up of the `finally`
block. Each can fail, clean-up errors are swallowed, and a process can die between any
two. A snapshot identity is a hash of everything in both files, so calls with equal
identities carry equal bytes and a file is either there or not. A read is two reads, the
metadata first. Loss of power after a link is not modelled: the code syncs the files and
not their directory, and promises nothing about it.

The refinement maps `kept` to the snapshots with both files. A link of the metadata is
the abstract `Keep`, a return is `GiveReceipt`, all else stutters.

### ReplayArchive

Capture processes, the desktop and a clock interleave. Each capture creates its manifest
exclusively, fills it, reads the clock again, reserves the case directory and writes the
case. The desktop saves an analysis under one path and archives it in a second step;
every save stamps a new time, so a manifest is known by writer and version, and
`Valid(c)` says that the version archived is the one on disk.

Abstractions. Decisions after the deadline are left out, since both archivers refuse
them. Decision reports, projection artifacts and official snapshots are taken to be
retained unchanged, which the documentation demands. One gameweek per analysis. The
desktop may save before the capture ends (more behaviour than the code, whose worker
captures before it exits). The desktop's own `mkdir` and write of a case are one step.
A saved manifest has its decision, or none, and is `final` unless its status is ERROR: the
first decision of an analysis that fails is saved over the same path without a decision
(`DecisionFails`), a later failure with the decision it keeps, and neither is archived. The
operator command that archives any manifest by hand is not modelled.

### PrimaryRegister and ProspectiveStudy

`evaluate` step by step: lock file, selection, append of new locks, creation and filling
of the report, unlock; it can raise or die at every step, and an interrupted append may
leave half a line, after which the ledger is refused. Selection reads ledger and archive
in one step, because of the lock file no other evaluation changes the ledger, and a case
that appears or changes a moment later is found by the next evaluation. The JSON and
Markdown reports are one file. A tie of prediction and archive time is decided by path;
the model allows either. All evaluations share one ledger, as the documentation says
they must. `RemoveStaleLock` is the documented manual repair: only while none runs. The range
of gameweeks (`gw_min`, `gw_max`) is an argument of the call; since it is first used by the
selection, `SelectArchives` chooses it, never empty.

`PrimaryRegister` is a set of locked primaries and a report per directory. `LockPrimary`
needs a gameweek without a primary, `Publish` an unpublished directory, and the report then
is the register over a range of gameweeks at that moment. The refinement maps `register` to
the ledger and a report to what a *whole* file shows: `AppendLock` is `LockPrimary`,
`FillReport` is `Publish`, all else stutters. That `FillReport` shows every primary of the
range is the point: it selected many steps earlier, and anything but the lock file would
let another evaluation lock in between.

### HttpCache and ProviderFetch

The seven adapters (official FPL, API-Football, The Odds API, football-data, StatsBomb,
Vaastav, fplcache) are the same steps in the same order: `get`, charge the quota (only
API-Football), call the provider, keep the exact bytes in the raw store, take the time of
publication, replace the entry, parse. `ProviderFetch` has one action per step and one per
way it fails, and threads interleave between any two; the cache's own lock covers a single
file operation and therefore never more than one action. `map` names the adapter each
action was read from.

A response is the state of the provider's data it shows, the instant it was received and
whether the adapter accepts it. An entry is a whole archive or none: it is staged and
replaced, and a refused archive raises. `kept` is the raw store at its contract, which
`RawStore` refines: a snapshot (request, bytes, instant) is kept once, and a store can raise
before or after it is kept. `reserved` and `sent` count the charges and the transport calls
of each UTC date; the code has only `_day` and `_used`.

Abstractions. The clock never goes back. The quota lives in one process. Pages of one
statistics query are separate calls. Other statuses than 2xx are raised by every adapter,
so `put` never sees one.

### ScenarioStore, ManualComparator, SquadRules and ManualEngine

The comparator tab runs on the GUI thread: each slot, timer and message is one action. A
slot that saves is two, `Load` and `Commit`, since other desktops write the same file
without a lock. A worker is a process with two pipes; giving it up advances the generation
and the process may still write. Validations and evaluations carry fresh ids, which the code
takes from `uuid4`.

A *context* is `context_id` with `input_sha256`; `world` is what account and selected run
are now. A worker reports the context of its request file or, if that was replaced while it
started, the present one. The request to validate is sent after the debounce; editing
forgets its id, and whatever answer comes later finds no id to match. An evaluation of a
loaded scenario is saved at once, as in the code.

`ManualEngine` fills in what a worker answers. A context is an account (`States`: squad,
bank, free transfers, purchase, current and quoted selling prices), a package is its
transfers, and `Legal` is exactly what `_package` accepts with the planner's `_make_action`:
equal numbers, at most 5, outgoing owned, incoming not, bank not negative, `validate_squad`
of the final squad. `SquadRules` also has the two searches of `optimizer/core.py`, each as
the set of the packages it lists.

Abstractions. `Projected` are the players with complete projections, which a package must
have of all it moves; values and rankings are left out.
Chips are not used by the comparator, and `next_free_transfers` is the case without one.
Malformed output of a worker gives it up like a failure does. Rows that other desktops save
are of any context so far, may bring back an id that was deleted and are not restricted to
legal packages, hence `ShownIsPlayable` speaks of the tab only. Some
defensive branches are never reached, as far as the run shows: a debounce that ends without
a context or while busy, and a result with the awaited id for another context or package.

### SeasonReplay

One step is one iteration of `simulate_season` with the call of `recommend` it makes. The
account gets the prices of the day and loses quoted selling prices (`Repriced`); a
`RegularStep` takes one of the listed packages or none, an `UnlimitedStep` any squad within the
constraints of `_unlimited_squad`; `decision_state` is `fielded`, and `Carried` is what the next
gameweek starts from. `chips` are the flags of `ChipState` that are still set, pairs of a
chip and a half; `lastFreeHit` is 0 for `None`. Whether free transfers are retained or reset is
a rule of each chip and season (`Retaining`, `ResetTo`). `played` and `entitled` are history
variables: no action reads them.

Abstractions. Forecasts rank the packages and squads, so any of them may be the best.
Gameweeks may be skipped, as the code allows. The rows of the pool show the prices of the step.
Whatever raises ends the replay. Lineups, points and hits are left out.

## 3. Runs

| Run | Instance | Shows |
|---|---|---|
| `desktop_safety` | 1 account, 2 bundles, 2 analyses, 2 decision workers, 2 chip workers, request faults; 1.2 million states | exclusion of workers, labels, cancel files, saved reports with a second analysis to load and repeat |
| `desktop_stages` | 2 accounts, 1 bundle, fair workers; 0.83 million states | the decision stage owns its worker; a running analysis ends |
| `raw_store` | 3 writers, 1 reader, 2 snapshots, 4 calls; 51 thousand states | the protocol and its refinement of `RawEvidence` |
| `replay_archive` | 2 decisions, 2 captures, 1 analysis, 2 moments before the deadline and one after; 0.37 million states | captured evidence |
| `prospective_study` | 2 gameweeks, 2 decisions, 1 capture, 1 analysis saved twice, 2 evaluators, 1 report directory, any range of gameweeks; 4.5 million states | the ledger and primaries, and the refinement of `PrimaryRegister` |
| `provider_fetch` | 2 threads, 1 immutable and 1 metered request with ttl 1, budget 2, 2 instants over 2 dates, 2 states of the provider's data, 3 calls; 1.6 million states | evidence before cache and answer, budget, dating, lifetimes, order of publications |
| `manual_comparator` | 2 workers, 2 contexts, hold and a double transfer, 2 commands, 2 file operations of 2 desktops, at most 5 of loads, commands and operations together; 4.9 million states | enabling, showing, timing and saving in the comparator, with the transfer rules on an instance of 6 players, 2 positions and 2 clubs |
| `season_replay` | 5 gameweeks with the halves split at 3, 2 price lists, 6 players of 2 positions and 2 clubs, at most 2 free transfers, a wildcard that retains and a free hit that resets them, 1 player chip; 0.17 million states | accounts, chips, free transfers and money over a season |

Why the bounds are enough to be interesting. `MaxDecisions`, `MaxChips` = 2: a run, and a
retry or standalone repetition that meets what the first left behind. Two bundles: the
selected run can differ from the one analysed. `MaxAnalyses` = 2: a saved analysis can be
loaded after another began. Three writers: a winner, one that cleans up and one that
arrives in between; 4 calls: a second call of one of them. `MaxTime` 1 and 2: the
clock can pass the deadline inside every call. `MaxSaves` = 2: a PARTIAL analysis that is
archived and saved again. Two gameweeks: an append of two lines that stops after the first.
`provider_fetch`: 3 calls of 2 threads give two that overlap and one after them; a hit is tested
at the instant its entry expires (a ttl of 0 is left to theorem `HitsAreFresh`, since a third
request would make the instance too large); the budget of 2 is reached by 3 calls on one date. `manual_comparator`: 2 loads are a
worker given up and its successor, 2 commands a validation and either an evaluation or a
second validation, `MaxActivity` 5 leaves one file operation after both; in the second
context the double transfer breaks the club limit, and both sold players have risen in
price, one with a quote of the account. `season_replay`: gameweeks 1 (no wildcard or free hit),
2 and 3 in the first half, 4 and 5 in the second: each chip can be played in both halves,
a free hit next to another over the boundary, and the cap of 2 free transfers is reached and
exceeded; a player that rises by three sells one above what was paid, and a quote is dropped.
The theorems remove these bounds for the safety properties.

Symmetry is used for interchangeable accounts, bundles, snapshots, writers, decisions,
captures, evaluators and threads in runs without liveness. `replay_archive` has
`CHECK_DEADLOCK FALSE`: with time at its bound and every capture refused after the deadline,
there is nothing left to do. So has `season_replay`: after its last gameweek the
replay is over.

Fairness (only `desktop_stages`). Each worker has weak fairness of its completion: workers
are finite computations and Qt reports their end or failed start. The user, the timers and
the closing of the window have none. No timeout exists in the code for decision and chip
workers, so a worker that hangs for ever would hang its analysis; the fairness is
exactly the assumption that it does not. `RunningAnalysisEnds` starts from a state with a
decision or chip worker, because the code has a running state without any (finding 1).

## 4. Where the documents and the code disagree

Each of these is a run whose property states what a document says, and which TLC violates.

1. `saved_results`: `retry_chip_run` enters the chip stage before `start_chip_run` may refuse
   (`main_window.py:935`). The analysis stays there without a worker, and a later failed
   decision run saves it as ERROR over its PARTIAL results.
2. `grace_period`: the 5 s timer of one cancellation is never stopped and terminates a later
   worker that was cancelled less than 5 s ago (`main_window.py:925`).
3. `raw_write_error`: an error while the staging directory is removed reports a failed write
   for a snapshot that is published (`raw_store.py:229`).
4. `prospective_rewrite`: a saved analysis is rewritten at its path after it was archived
   (`run_center.py:300`); if that archive case was locked as a primary, every later
   evaluation is refused.

Two more were read from the models and have no run of their own. A projection worker that fails
to start leaves its button disabled (`main_window.py:1696`, `projectionsEnabled`), where the
lifecycle requirement asks for recovery without a restart. The replay of a season files one
gameweek per kind of chip (`backtesting.py:543`), though each may be played once in each half.

## 5. Theorems

All proofs are in the `*_proofs` modules and hold for any sets of accounts, bundles,
snapshots, writers, decisions, captures, evaluators and outputs, and for any bounds. They
rest on `BoundsAssumption`, `SentinelAssumption`, `RawStoreAssumption`,
`ReplayArchiveAssumption`, `NoReportAssumption`, `ProspectiveStudyAssumption`,
`ProviderAssumption`, `ComparatorAssumption`, `RulesAssumption`, `EngineAssumption` and
`ReplayAssumption`, which
say that bounds, deadlines, lifetimes and quotas are naturals, that threads and players are
finitely many, that the values standing for "none" are not real ones and, for the engine, that
the workers' verdicts are those of the transfer rules and, for the replay, that it starts with a
lawful account and that a chip resets free transfers to no more than a gameweek grants.

* **Desktop.** `WorkersInv` adds to the three worker properties that a running worker has the
  request it was started with (`DecisionHasJob`, `ChipHasJob`): without it a finished worker
  could file `NoReport`. `HistoryInv` adds that an analysis that may still be saved, running
  or PARTIAL, has no COMPLETE manifest (`Unfinished`) and that ids not handed out have no manifest
  (`FreshIds`): without the first a retry could rewrite a COMPLETE one, without the second a
  new analysis could. `DecisionStageOwned` assumes `~IoFaults`; without that assumption it is
  false, since a decision whose request could not be written leaves the stage to a later one.
  `SavedChipsInContext` follows accounts, which `write_analysis_run` never compares: a chip
  report on disk is of the account of its decision because its worker refused any other
  (`ChipsAccepted`). That the account filed with the analysis may differ from both is listed
  as a hazard.
* **Raw store.** `OneOwner`, together with `OwnersSeeTheirWork` (what a call at each step
  finds in the directory it reserved: exactly what it linked), makes exclusion inductive: while
  a clean-up is under way the directory still exists, so nobody reserves it. `ReceiptIsFinal`
  says that a snapshot with a receipt is published, has one receipt and has no owner any more,
  which gives the refinement its "at most once". `ReadersSawMetadata` needs that the metadata,
  once linked, is never unlinked: nothing fails between that link and `complete`.
* **Archive.** `CapturesProgress` (what a capture has established at each step), `OneWriter`
  (one capture writes the case of a decision) and `ReservedHasNoCase` give the three properties. `ReportsArePast`, `CasesHaveReports` and `DesktopIsOpen` tie cases to reports.
* **Study.** `LockHeld` (a running evaluation has the lock file) gives `OneEvaluation`; with
  it the ledger cannot change between an evaluation's selection and its append, which
  `EvaluationsProgress` states and `OnePrimary` needs. `LedgerSound` says that what was
  eligible when it was locked was so for reasons that do not change (gameweek, times), unlike
  `Valid`, which finding 4 shows can. `Settled` adds what the refinement needs: after the
  selection, ledger and selection agree over the range asked for (`Covers`), in both
  directions, and no archived case is ever removed. `StudyImplementsRegister` follows step by
  step. `RefusalsExplained` is the complement of finding 4: an evaluation is refused only
  for half a ledger line or for an analysis that was saved again after it was locked; a primary
  that a decision worker captured never blocks one.
* **Providers.** `DataInv` follows a response: what a call has received, kept and staged at each
  step (`CallView`) and what it then answered (`AnswerView`). It also orders versions: a call
  that looked up an entry receives data no older than that entry's, so an older response can
  only meet an entry that was published later. `QuotaInv` counts charges that have not
  reached the transport yet (`Charged`), which is a set of threads and needs their finiteness.
* **Comparator.** `PipesInv` says that the ids in the pipes of a worker are distinct and given
  out, and that its lines are true of its context. `TabInv` adds `Asked`: a validation
  still to be answered is of the ticked selection and finds the tab neither enabled nor
  busy. Without it a validation that ends `busy` could leave the timer of an evaluation
  running. `StoreInv` says that what every client has read was sound, so that whatever it
  writes back is sound too (`SavedOnceHolds`), even where it loses the update of another.
* **Rules.** `PackageKeepsSquadLawful`: after an accepted package quotas, club limit, bank and
  free transfers are within the rules. `SearchesAgree`: on a lawful squad the search that prunes
  by position, bank and club count finds exactly the packages of the exhaustive one, for any
  pool and number of transfers. It rests on counting (`CountedInPosition`, `CountedOfClub`): the part of the
  squad in a position, or of a club, after an exchange is what was there less what went plus
  what came.
* **Money.** A squad's worth is a sum over a set, which the model takes with a fold of the
  community modules. The library's induction rules have an operator as their parameter and
  cannot be used, so the proofs go by smallest counterexample: `SmallestSubset` gets a minimal
  member of any set of subsets of a finite set from the well-foundedness of their strict
  order. The fold chooses a function that satisfies a recursion (`SumsUp`); that one exists
  (`SumsExist`) and is unique (`SumsAgree`) gives the unfolding of `Total` (`SumUnfolds`), from
  which sums take out any element and split over disjoint sets. `PackageKeepsWorth` needs these
  and `SalesAfter`: who leaves is paid at the selling price, who comes sells at what was
  paid. `PlansStayLawfulAndFair` carries both along a plan of any length, and
  `ShownKeepsWorthHolds` to whatever the comparator shows.
* **Season.** An unlimited squad is not made by a package, so its bank is bounded differently:
  `UnlimitedIsAffordable` splits the sums of `Affordable` into those who stay, go and come, and
  what stays cancels. `ExchangeKeepsWorth`, which packages share, then gives its worth. The
  inductive invariant says of the chips that those played have no flag in their half any more,
  that no free hit was played after `lastFreeHit` and that all of it is past; without the first,
  a chip could be played again in a half whose flag some other step left set.

Only model-checked: `RunningAnalysisEnds` (liveness under fairness is out of the prover's
reach) and the four documented statements above, which are false. Every other property of a
run is a theorem. Some theorems go beyond the runs: what
is scored is intact (`ScoredIsIntact`), an evaluated package keeps the account's worth
(`ShownKeepsWorthHolds`), the searches agree (`SeasonSearchIsExact`).

## 6. Plan

Done: the components of section 2, first those on which the program's main claim rests (that its
recommendations and their evaluation use evidence nobody changed later), then the way data
comes in and the comparator.

Left, in this order:

1. The state file as a variable of its own in `DesktopWorkflow`: save against account sync,
   account of a saved analysis against account of its decision.
2. The operator's archive and outcome commands in `ReplayArchive`.
3. The beam of the strategic planner over several gameweeks, as a set of paths under
   `SquadRules`.
4. The odds identity registry.

Not modelled, and why. Forecast models, feature builders, simulation, the scoring of
backtests and the numeric part of optimizers and decision package compute over real numbers, mostly through
numpy, pandas and an integer-program solver: a model checker cannot evaluate them and their
results are compared by tests, not by states. `scripts/`, by far the largest part of the
repository, are sequential one-off audits and experiments that read frozen files and write
a report. Views render. Payload parsing and configuration have no state. The map therefore
covers a small share of the repository's lines; it is the share in which order, failure and
concurrency matter.
