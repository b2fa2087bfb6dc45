---------------------------- MODULE ReplayArchive ----------------------------
(***************************************************************************)
(* How pre-deadline evidence comes into being: frozen decision reports,    *)
(* the capture a decision worker makes of its own report                   *)
(* (validation/prospective_capture.py), the analysis manifest the desktop  *)
(* saves and archives (desktop_app/run_center.py) and the archive cases    *)
(* both leave behind (validation/replay_archive.py).                       *)
(*                                                                         *)
(* Workers, the desktop and the clock interleave; a process may die        *)
(* between any two file operations.  An archive case refers to its         *)
(* analysis manifest by hash: a manifest is known here by who wrote it and *)
(* by its version, since every write stamps a new creation time.           *)
(***************************************************************************)
EXTENDS Naturals

CONSTANTS
  Gameweeks,
  Deadline,    \* the official deadline of each gameweek
  Decisions,   \* identities of frozen decision reports
  Analyses,    \* analysis run ids of the desktop
  Capturers,   \* processes inside capture_decision
  Capture,     \* source of a case that capture_decision archived
  NoDecision, NoReport, NoAnalysis,
  MaxTime,     \* bound: the clock
  MaxSaves     \* bound: writes of one analysis manifest

Time == 0..MaxTime

Report == [gw : Gameweeks, prediction : Time, created : Time]

Manifest == [decision : Decisions \cup {NoDecision}, version : 0..MaxSaves,
             final : BOOLEAN, at : Time]

Case == [decision : Decisions, source : Analyses \cup {Capture},
         version : 0..MaxSaves, at : Time]

ASSUME ReplayArchiveAssumption ==
  /\ Gameweeks \subseteq Nat
  /\ Deadline \in [Gameweeks -> Nat]
  /\ NoDecision \notin Decisions
  /\ Capture \notin Analyses /\ NoAnalysis \notin Analyses
  /\ MaxTime \in Nat /\ MaxSaves \in Nat

ASSUME NoReportAssumption == NoReport \notin Report

VARIABLES
  now,          \* the clock all processes read
  reports,      \* the frozen report of each decision
  cases,        \* archive cases whose file is complete
  reserved,     \* decisions whose case directory exists without its file
  captured,     \* the capture manifest of each decision
  cpc, cjob, cstamp,   \* per capturer: step, decision, "finished" time
  manifests,    \* the desktop's analysis manifests
  active,       \* analysis the desktop holds, with its gameweek
  latest,       \* decision the desktop shows
  archiving     \* the desktop is between write_text and archive_analysis

captureVars == <<captured, cpc, cjob, cstamp>>
desktopVars == <<manifests, active, latest, archiving>>
archiveVars == <<now, reports, cases, reserved, captureVars, desktopVars>>

-----------------------------------------------------------------------------
\* A manifest is final when it says COMPLETE or ERROR: PARTIAL may be saved again.
Unwritten == [decision |-> NoDecision, version |-> 0, final |-> FALSE, at |-> 0]

NoneActive == [analysis |-> NoAnalysis, gw |-> 0]

DeadlineOf(d) == Deadline[reports[d].gw]

ArchiveTypeOK ==
  /\ now \in Time
  /\ reports \in [Decisions -> Report \cup {NoReport}]
  /\ cases \subseteq Case
  /\ reserved \subseteq Decisions
  /\ captured \in [Decisions -> {"absent", "torn", "whole"}]
  /\ cpc \in [Capturers -> {"idle", "create", "fill", "finish", "reserve", "write"}]
  /\ cjob \in [Capturers -> Decisions \cup {NoDecision}]
  /\ cstamp \in [Capturers -> Time]
  /\ manifests \in [Analyses -> Manifest]
  /\ active \in [analysis : Analyses \cup {NoAnalysis}, gw : Gameweeks \cup {0}]
  /\ latest \in Decisions \cup {NoDecision}
  /\ archiving \in BOOLEAN

ArchiveInit ==
  /\ now = 0
  /\ reports = [d \in Decisions |-> NoReport]
  /\ cases = {}
  /\ reserved = {}
  /\ captured = [d \in Decisions |-> "absent"]
  /\ cpc = [k \in Capturers |-> "idle"]
  /\ cjob = [k \in Capturers |-> NoDecision]
  /\ cstamp = [k \in Capturers |-> 0]
  /\ manifests = [n \in Analyses |-> Unwritten]
  /\ active = NoneActive
  /\ latest = NoDecision
  /\ archiving = FALSE

Tick ==
  /\ now < MaxTime
  /\ now' = now + 1
  /\ UNCHANGED <<reports, cases, reserved, captureVars, desktopVars>>

-----------------------------------------------------------------------------
(* The desktop *)

\* A decision for gameweek g on a projection run predicted at p: the first stage
\* of a new full analysis, or the standalone button, which keeps the analysis.
\* Decisions made after the deadline are left out: both archivers refuse them.
RunDecision(d, g, p) ==
  /\ now < Deadline[g]
  /\ ~archiving
  /\ reports[d] = NoReport
  /\ p <= now
  /\ reports' = [reports EXCEPT ![d] = [gw |-> g, prediction |-> p, created |-> now]]
  /\ latest' = d
  /\ \/ UNCHANGED active
     \/ \E n \in Analyses : manifests[n] = Unwritten /\ active' = [analysis |-> n, gw |-> g]
  /\ UNCHANGED <<now, cases, reserved, captureVars, manifests, archiving>>

\* The manifest of analysis n with decision d, over the one that was there.
Save(n, d, final) ==
  /\ manifests[n].version < MaxSaves
  /\ manifests' = [manifests EXCEPT ![n] =
       [decision |-> d, version |-> @.version + 1, final |-> final, at |-> now]]

\* The first stage of a new full analysis fails: it is saved as ERROR without a
\* decision, hence without the planning context an archive needs.
DecisionFails(n, g) ==
  /\ ~archiving
  /\ manifests[n] = Unwritten
  /\ active' = [analysis |-> n, gw |-> g]
  /\ latest' = NoDecision
  /\ Save(n, NoDecision, TRUE)
  /\ UNCHANGED <<now, reports, cases, reserved, captureVars, archiving>>

\* write_analysis_run: PARTIAL, COMPLETE, or ERROR when the decision cannot be shown
\* or a later one fails while the chip screen is to be retried.
SaveAnalysis(final) ==
  /\ ~archiving
  /\ active # NoneActive
  /\ latest # NoDecision /\ reports[latest].gw = active.gw
  /\ ~manifests[active.analysis].final
  /\ Save(active.analysis, latest, final)
  /\ archiving' = TRUE
  /\ UNCHANGED <<now, reports, cases, reserved, captureVars, active, latest>>

\* archive_analysis: build_archive_case checks what was created before the
\* deadline, but not the time of the archive itself.
ArchiveAnalysis ==
  /\ archiving
  /\ LET m == manifests[active.analysis]
         d == m.decision
     IN  IF reports[d].prediction < DeadlineOf(d) /\ reports[d].created < DeadlineOf(d)
            /\ m.at < DeadlineOf(d)
         THEN cases' = cases \cup {[decision |-> d, source |-> active.analysis,
                                    version |-> m.version, at |-> now]}
         ELSE UNCHANGED cases
  /\ archiving' = FALSE
  /\ UNCHANGED <<now, reports, reserved, captureVars, manifests, active, latest>>

DesktopDies ==
  /\ active # NoneActive
  /\ active' = NoneActive
  /\ latest' = NoDecision
  /\ archiving' = FALSE
  /\ UNCHANGED <<now, reports, cases, reserved, captureVars, manifests>>

-----------------------------------------------------------------------------
(* capture_decision *)

Goto(k, step) == cpc' = [cpc EXCEPT ![k] = step]

GoOn(k, step) == Goto(k, step) /\ UNCHANGED <<cjob, cstamp>>

\* The call is over, with or without an archive, and its locals are gone.
Return(k) ==
  /\ Goto(k, "idle")
  /\ cjob' = [cjob EXCEPT ![k] = NoDecision]
  /\ cstamp' = [cstamp EXCEPT ![k] = 0]

\* The second reading of the clock is the case's creation time.
Stamp(k) ==
  /\ Goto(k, "reserve")
  /\ cstamp' = [cstamp EXCEPT ![k] = now]
  /\ UNCHANGED cjob

\* Refused at or after the deadline, or when an earlier manifest is unreadable.
BeginCapture(k, d) ==
  /\ cpc[k] = "idle"
  /\ reports[d] # NoReport
  /\ now < DeadlineOf(d)
  /\ captured[d] # "torn"
  /\ Goto(k, IF captured[d] = "whole" THEN "finish" ELSE "create")
  /\ cjob' = [cjob EXCEPT ![k] = d]
  /\ UNCHANGED <<now, reports, cases, reserved, captured, cstamp, desktopVars>>

\* Defect: the manifest is opened for writing whether it exists or not.
CreateManifest_Overwrites(k) ==
  /\ cpc[k] = "create"
  /\ GoOn(k, "fill") /\ captured' = [captured EXCEPT ![cjob[k]] = "torn"]
  /\ UNCHANGED <<now, reports, cases, reserved, desktopVars>>

\* open("xb"): a concurrent capture loses.
CreateManifest(k) ==
  /\ cpc[k] = "create"
  /\ IF captured[cjob[k]] = "absent"
     THEN GoOn(k, "fill") /\ captured' = [captured EXCEPT ![cjob[k]] = "torn"]
     ELSE Return(k) /\ UNCHANGED captured
  /\ UNCHANGED <<now, reports, cases, reserved, desktopVars>>

FillManifest(k) ==
  /\ cpc[k] = "fill"
  /\ GoOn(k, "finish")
  /\ captured' = [captured EXCEPT ![cjob[k]] = "whole"]
  /\ UNCHANGED <<now, reports, cases, reserved, desktopVars>>

\* Defect: the clock is not compared again after the manifest was written.
Finish_Unchecked(k) ==
  /\ cpc[k] = "finish"
  /\ Stamp(k)
  /\ UNCHANGED <<now, reports, cases, reserved, captured, desktopVars>>

\* Too late by now: no case, although the manifest stays.
Finish(k) ==
  /\ cpc[k] = "finish"
  /\ IF now < DeadlineOf(cjob[k]) THEN Stamp(k) ELSE Return(k)
  /\ UNCHANGED <<now, reports, cases, reserved, captured, desktopVars>>

CapturedCase(d) == \E c \in cases : c.decision = d /\ c.source = Capture

\* Defect: an existing case directory is used again.
ReserveCase_ExistOk(k) ==
  /\ cpc[k] = "reserve"
  /\ GoOn(k, "write")
  /\ reserved' = reserved \cup {cjob[k]}
  /\ UNCHANGED <<now, reports, cases, captured, desktopVars>>

\* write_archive_case: the same case again is returned as it is, and a directory
\* without a readable case is an error (mkdir with exist_ok=False).
ReserveCase(k) ==
  /\ cpc[k] = "reserve"
  /\ IF CapturedCase(cjob[k]) \/ cjob[k] \in reserved
     THEN Return(k) /\ UNCHANGED reserved
     ELSE GoOn(k, "write") /\ reserved' = reserved \cup {cjob[k]}
  /\ UNCHANGED <<now, reports, cases, captured, desktopVars>>

WriteCase(k) ==
  /\ cpc[k] = "write"
  /\ Return(k)
  /\ cases' = cases \cup {[decision |-> cjob[k], source |-> Capture, version |-> 0, at |-> cstamp[k]]}
  /\ reserved' = reserved \ {cjob[k]}
  /\ UNCHANGED <<now, reports, captured, desktopVars>>

CapturerDies(k) ==
  /\ cpc[k] # "idle"
  /\ Return(k)
  /\ UNCHANGED <<now, reports, cases, reserved, captured, desktopVars>>

-----------------------------------------------------------------------------
DesktopStep ==
  \/ \E d \in Decisions, g \in Gameweeks, p \in Time : RunDecision(d, g, p)
  \/ \E n \in Analyses, g \in Gameweeks : DecisionFails(n, g)
  \/ \E final \in BOOLEAN : SaveAnalysis(final)
  \/ ArchiveAnalysis
  \/ DesktopDies

CapturerStep(k) ==
  \/ \E d \in Decisions : BeginCapture(k, d)
  \/ CreateManifest(k) \/ FillManifest(k) \/ Finish(k) \/ ReserveCase(k) \/ WriteCase(k)
  \/ CapturerDies(k)

ArchiveNext == Tick \/ DesktopStep \/ \E k \in Capturers : CapturerStep(k)

ArchiveSpec == ArchiveInit /\ [][ArchiveNext]_archiveVars

-----------------------------------------------------------------------------
\* validate_archive_case: the referenced manifest still has the archived bytes.
Valid(c) ==
  IF c.source = Capture THEN captured[c.decision] = "whole"
  ELSE manifests[c.source].version = c.version

\* A captured case is of a time before the deadline and after its decision,
\* however long the capture took and however often it was retried.
CapturesAreProspective ==
  \A c \in cases : c.source = Capture =>
    reports[c.decision].created <= c.at /\ c.at < DeadlineOf(c.decision)

\* What a captured case refers to is never touched again, by no retry and no
\* concurrent capture, so the case stays valid.
CapturedCasesStayValid == \A c \in cases : c.source = Capture => Valid(c)

\* The captured case of a decision is written once: a retry or a concurrent
\* capture never changes the creation time that makes it eligible.
OneCapturedCase ==
  \A b, c \in cases : b.source = Capture /\ c.source = Capture /\ b.decision = c.decision => b = c
=============================================================================
