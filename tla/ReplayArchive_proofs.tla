------------------------- MODULE ReplayArchive_proofs -------------------------
(***************************************************************************)
(* Proofs about the evidence of ReplayArchive for any number of decisions, *)
(* analyses and capturing processes and for any clock.  The lemmas are     *)
(* stated for steps, so that ProspectiveStudy_proofs uses them as well.    *)
(***************************************************************************)
EXTENDS ReplayArchive, TLAPS

\* What a capture has established at each of its steps.
CaptureView(k) ==
  /\ cpc[k] # "idle" => cjob[k] \in Decisions /\ reports[cjob[k]] # NoReport
  /\ cpc[k] = "fill" => captured[cjob[k]] # "absent"
  /\ cpc[k] \in {"finish", "reserve", "write"} => captured[cjob[k]] = "whole"
  /\ cpc[k] \in {"reserve", "write"} =>
       reports[cjob[k]].created <= cstamp[k] /\ cstamp[k] < DeadlineOf(cjob[k])
  /\ cpc[k] = "write" => cjob[k] \in reserved

CapturesProgress == \A k \in Capturers : CaptureView(k)

OneWriter ==
  \A j, k \in Capturers : cpc[j] = "write" /\ cpc[k] = "write" /\ cjob[j] = cjob[k] => j = k

ReservedHasNoCase == \A c \in cases : c.source = Capture => c.decision \notin reserved

ReportsArePast == \A d \in Decisions : reports[d] # NoReport => reports[d].created <= now

CasesHaveReports ==
  \A c \in cases : reports[c.decision] # NoReport

DesktopIsOpen ==
  /\ active # NoneActive => active.analysis \in Analyses
  /\ latest # NoDecision => reports[latest] # NoReport
  /\ archiving => /\ active # NoneActive
                  /\ manifests[active.analysis].decision \in Decisions
                  /\ reports[manifests[active.analysis].decision] # NoReport

ArchiveInv ==
  /\ ArchiveTypeOK
  /\ CapturesProgress
  /\ OneWriter
  /\ ReservedHasNoCase
  /\ ReportsArePast
  /\ CasesHaveReports
  /\ DesktopIsOpen
  /\ CapturesAreProspective
  /\ CapturedCasesStayValid
  /\ OneCapturedCase

-----------------------------------------------------------------------------
\* An archive without reports satisfies the invariant.
LEMMA InitArchive == ArchiveInit => ArchiveInv
<1> SUFFICES ASSUME ArchiveInit PROVE ArchiveInv
  OBVIOUS
<1> USE DEF ArchiveInit
<1>1. ArchiveTypeOK
  <2>1. 0 \in Time /\ 0 \in 0..MaxSaves
    BY ReplayArchiveAssumption DEF Time
  <2>2. Unwritten \in Manifest
    BY <2>1 DEF Unwritten, Manifest
  <2>3. NoneActive \in [analysis : Analyses \cup {NoAnalysis}, gw : Gameweeks \cup {0}]
    BY DEF NoneActive
  <2> QED BY <2>1, <2>2, <2>3 DEF ArchiveTypeOK
<1>2. CapturesProgress /\ OneWriter /\ ReservedHasNoCase /\ CasesHaveReports
  BY DEF CapturesProgress, CaptureView, OneWriter, ReservedHasNoCase, CasesHaveReports
<1>3. ReportsArePast /\ DesktopIsOpen
  BY DEF ReportsArePast, DesktopIsOpen
<1>4. CapturesAreProspective /\ CapturedCasesStayValid /\ OneCapturedCase
  BY DEF CapturesAreProspective, CapturedCasesStayValid, OneCapturedCase
<1> QED BY <1>1, <1>2, <1>3, <1>4 DEF ArchiveInv

\* Whatever a gameweek's decision was reported as, it stays.
LEMMA ReportsAreFrozen ==
  ASSUME ArchiveTypeOK, [ArchiveNext]_archiveVars, NEW d \in Decisions, reports[d] # NoReport
  PROVE  reports'[d] = reports[d]
<1> USE DEF captureVars, desktopVars
<1>1. ASSUME NEW e \in Decisions, NEW g \in Gameweeks, NEW p \in Time, RunDecision(e, g, p)
      PROVE  reports'[d] = reports[d]
  BY <1>1 DEF RunDecision, ArchiveTypeOK
<1>2. ASSUME NEW k \in Capturers, CapturerStep(k) PROVE reports'[d] = reports[d]
  BY <1>2 DEF CapturerStep, BeginCapture, CreateManifest, FillManifest, Finish, ReserveCase,
     WriteCase, CapturerDies
<1>3. ASSUME NEW n \in Analyses, NEW g \in Gameweeks, DecisionFails(n, g)
      PROVE  reports'[d] = reports[d]
  BY <1>3 DEF DecisionFails
<1>5. ASSUME NEW final \in BOOLEAN, SaveAnalysis(final) PROVE reports'[d] = reports[d]
  BY <1>5 DEF SaveAnalysis
<1>4. ASSUME ArchiveAnalysis \/ DesktopDies \/ Tick \/ UNCHANGED archiveVars
      PROVE  reports'[d] = reports[d]
  BY <1>4 DEF ArchiveAnalysis, DesktopDies, Tick, archiveVars
<1> QED BY <1>1, <1>2, <1>3, <1>4, <1>5 DEF ArchiveNext, DesktopStep

-----------------------------------------------------------------------------
(* Types *)

\* The clock stays in its range.
LEMMA TypeOfTick == ASSUME ArchiveInv, Tick PROVE ArchiveTypeOK'
BY ReplayArchiveAssumption DEF ArchiveInv, ArchiveTypeOK, Tick, Time, captureVars, desktopVars

\* A saved manifest is well formed.
LEMMA TypeOfSave ==
  ASSUME ArchiveTypeOK, NEW n \in Analyses, NEW d \in Decisions \cup {NoDecision},
         NEW final \in BOOLEAN, Save(n, d, final)
  PROVE  manifests' \in [Analyses -> Manifest]
<1> DEFINE m == [decision |-> d, version |-> manifests[n].version + 1, final |-> final, at |-> now]
<1>1. manifests[n] \in Manifest /\ manifests[n].version < MaxSaves
  BY DEF ArchiveTypeOK, Save
<1>2. manifests[n].version + 1 \in 0..MaxSaves
  BY <1>1, ReplayArchiveAssumption DEF Manifest
<1>3. m \in Manifest
  BY <1>2 DEF ArchiveTypeOK, Manifest
<1>4. manifests' = [manifests EXCEPT ![n] = m]
  BY <1>1 DEF Save, ArchiveTypeOK
<1> QED BY <1>3, <1>4 DEF ArchiveTypeOK

\* The desktop writes well-formed reports, manifests and cases.
LEMMA TypeOfDesktop == ASSUME ArchiveInv, DesktopStep PROVE ArchiveTypeOK'
<1> USE DEF captureVars, desktopVars
<1>0. ArchiveTypeOK /\ DesktopIsOpen
  BY DEF ArchiveInv
<1>1. ASSUME NEW d \in Decisions, NEW g \in Gameweeks, NEW p \in Time, RunDecision(d, g, p)
      PROVE  ArchiveTypeOK'
  <2>1. [gw |-> g, prediction |-> p, created |-> now] \in Report
    BY <1>0 DEF ArchiveTypeOK, Report
  <2>2. reports' \in [Decisions -> Report \cup {NoReport}]
    BY <2>1, <1>0, <1>1 DEF ArchiveTypeOK, RunDecision
  <2>3. active' \in [analysis : Analyses \cup {NoAnalysis}, gw : Gameweeks \cup {0}]
    BY <1>0, <1>1 DEF ArchiveTypeOK, RunDecision
  <2> QED BY <2>2, <2>3, <1>0, <1>1 DEF ArchiveTypeOK, RunDecision
<1>2. ASSUME NEW final \in BOOLEAN, SaveAnalysis(final) PROVE ArchiveTypeOK'
  <2>1. active.analysis \in Analyses /\ latest \in Decisions
    BY <1>0, <1>2 DEF ArchiveTypeOK, DesktopIsOpen, SaveAnalysis
  <2>2. manifests' \in [Analyses -> Manifest]
    BY <2>1, <1>0, <1>2, TypeOfSave DEF SaveAnalysis
  <2> QED BY <2>2, <1>0, <1>2 DEF ArchiveTypeOK, SaveAnalysis
<1>5. ASSUME NEW n \in Analyses, NEW g \in Gameweeks, DecisionFails(n, g) PROVE ArchiveTypeOK'
  <2>1. manifests' \in [Analyses -> Manifest]
    BY <1>0, <1>5, TypeOfSave DEF DecisionFails
  <2>2. active' \in [analysis : Analyses \cup {NoAnalysis}, gw : Gameweeks \cup {0}]
    BY <1>5 DEF DecisionFails
  <2> QED BY <2>1, <2>2, <1>0, <1>5 DEF ArchiveTypeOK, DecisionFails
<1>3. CASE ArchiveAnalysis
  <2> DEFINE m == manifests[active.analysis]
             c == [decision |-> m.decision, source |-> active.analysis, version |-> m.version, at |-> now]
  <2>1. active.analysis \in Analyses /\ m \in Manifest /\ m.decision \in Decisions
    BY <1>0, <1>3 DEF ArchiveTypeOK, DesktopIsOpen, ArchiveAnalysis
  <2>2. c \in Case
    BY <2>1, <1>0 DEF ArchiveTypeOK, Manifest, Case
  <2>3. cases' \subseteq cases \cup {c}
    BY <1>3 DEF ArchiveAnalysis
  <2>4. cases' \subseteq Case
    BY <2>2, <2>3, <1>0 DEF ArchiveTypeOK
  <2> QED BY <2>4, <1>0, <1>3 DEF ArchiveTypeOK, ArchiveAnalysis
<1>4. CASE DesktopDies
  BY <1>0, <1>4 DEF ArchiveTypeOK, DesktopDies, NoneActive
<1> QED BY <1>1, <1>2, <1>3, <1>4, <1>5 DEF DesktopStep

\* Captures write well-formed cases.
LEMMA TypeOfCapturer ==
  ASSUME ArchiveInv, NEW k \in Capturers, CapturerStep(k) PROVE ArchiveTypeOK'
<1> USE DEF captureVars, desktopVars, Goto, GoOn, Return, Stamp
<1>0. ArchiveTypeOK /\ CaptureView(k) /\ 0 \in Time
  BY ReplayArchiveAssumption DEF ArchiveInv, CapturesProgress, Time
<1>1. ASSUME NEW d \in Decisions, BeginCapture(k, d) PROVE ArchiveTypeOK'
  BY <1>0, <1>1 DEF ArchiveTypeOK, BeginCapture
<1>2. CASE CreateManifest(k)
  BY <1>0, <1>2 DEF ArchiveTypeOK, CreateManifest
<1>3. CASE FillManifest(k)
  BY <1>0, <1>3 DEF ArchiveTypeOK, FillManifest
<1>4. CASE Finish(k)
  BY <1>0, <1>4 DEF ArchiveTypeOK, Finish
<1>5. CASE ReserveCase(k)
  BY <1>0, <1>5 DEF ArchiveTypeOK, ReserveCase, CaptureView
<1>6. CASE WriteCase(k)
  <2>1. cjob[k] \in Decisions /\ cstamp[k] \in Time
    BY <1>0, <1>6 DEF ArchiveTypeOK, WriteCase, CaptureView
  <2>2. [decision |-> cjob[k], source |-> Capture, version |-> 0, at |-> cstamp[k]] \in Case
    BY <2>1, ReplayArchiveAssumption DEF Case
  <2> QED BY <2>2, <1>0, <1>6 DEF ArchiveTypeOK, WriteCase
<1>7. CASE CapturerDies(k)
  BY <1>0, <1>7 DEF ArchiveTypeOK, CapturerDies
<1> QED BY <1>1, <1>2, <1>3, <1>4, <1>5, <1>6, <1>7 DEF CapturerStep

-----------------------------------------------------------------------------
(* What the captures and the archive rely on *)

\* The parts of the invariant that speak of captures and cases.
Evidence ==
  /\ CapturesProgress
  /\ OneWriter
  /\ ReservedHasNoCase
  /\ ReportsArePast
  /\ CasesHaveReports
  /\ CapturesAreProspective
  /\ CapturedCasesStayValid
  /\ OneCapturedCase

\* The clock and the desktop never weaken what captures rely on.
LEMMA EvidenceOfDesktop ==
  ASSUME ArchiveInv, ArchiveTypeOK', Tick \/ DesktopStep
  PROVE  Evidence' /\ DesktopIsOpen'
<1> USE DEF captureVars, desktopVars
<1>0. /\ ArchiveTypeOK /\ CapturesProgress /\ OneWriter /\ ReservedHasNoCase /\ ReportsArePast
      /\ CasesHaveReports /\ DesktopIsOpen /\ CapturesAreProspective /\ CapturedCasesStayValid
      /\ OneCapturedCase
  BY DEF ArchiveInv
<1>1. \A d \in Decisions : reports[d] # NoReport => reports'[d] = reports[d]
  BY <1>0, ReportsAreFrozen DEF ArchiveNext
<1>2. UNCHANGED <<reserved, captured, cpc, cjob, cstamp>>
  BY DEF Tick, DesktopStep, RunDecision, DecisionFails, SaveAnalysis, ArchiveAnalysis, DesktopDies
<1>3. cases' = cases \/ \E c \in Case : /\ c.source # Capture /\ cases' = cases \cup {c}
                                        /\ reports[c.decision] # NoReport
  <2>1. CASE ArchiveAnalysis
    <3> DEFINE m == manifests[active.analysis]
               c == [decision |-> m.decision, source |-> active.analysis, version |-> m.version, at |-> now]
    <3>1. active.analysis \in Analyses /\ m \in Manifest /\ m.decision \in Decisions
          /\ reports[m.decision] # NoReport
      BY <1>0, <2>1 DEF ArchiveTypeOK, DesktopIsOpen, ArchiveAnalysis
    <3>2. c \in Case /\ c.source # Capture
      BY <3>1, <1>0, ReplayArchiveAssumption DEF ArchiveTypeOK, Manifest, Case
    <3>3. cases' = cases \/ cases' = cases \cup {c}
      BY <2>1 DEF ArchiveAnalysis
    <3> QED BY <3>1, <3>2, <3>3
  <2>2. CASE ~ArchiveAnalysis
    BY <2>2 DEF Tick, DesktopStep, RunDecision, DecisionFails, SaveAnalysis, DesktopDies
  <2> QED BY <2>1, <2>2
<1>4. now \in Nat /\ now' \in Nat /\ now <= now'
  <2>1. now' = now \/ now' = now + 1
    BY DEF Tick, DesktopStep, RunDecision, DecisionFails, SaveAnalysis, ArchiveAnalysis, DesktopDies
  <2> QED BY <2>1, <1>0 DEF ArchiveTypeOK, Time
<1>5. CapturesProgress'
  BY <1>0, <1>1, <1>2 DEF CapturesProgress, CaptureView, DeadlineOf
<1>6. OneWriter' /\ ReservedHasNoCase' /\ OneCapturedCase'
  BY <1>0, <1>2, <1>3 DEF OneWriter, ReservedHasNoCase, OneCapturedCase
<1>7. CasesHaveReports'
  BY <1>0, <1>1, <1>3 DEF CasesHaveReports, ArchiveTypeOK, Case
<1>8. CapturesAreProspective' /\ CapturedCasesStayValid'
  BY <1>0, <1>1, <1>2, <1>3 DEF CapturesAreProspective, CapturedCasesStayValid, Valid, DeadlineOf,
     ArchiveTypeOK, Case, CasesHaveReports
<1>9. ReportsArePast'
  <2>1. ASSUME NEW d \in Decisions, reports[d] # NoReport PROVE reports'[d].created <= now'
    <3>1. reports[d] \in Report /\ reports[d].created <= now
      BY <2>1, <1>0 DEF ArchiveTypeOK, ReportsArePast
    <3>2. reports[d].created \in Nat
      BY <3>1 DEF Report, Time
    <3> QED BY <3>1, <3>2, <2>1, <1>1, <1>4
  <2>2. ASSUME NEW d \in Decisions, reports[d] = NoReport, reports'[d] # NoReport
        PROVE  reports'[d].created <= now'
    <3>1. PICK e \in Decisions, g \in Gameweeks, p \in Time : RunDecision(e, g, p)
      BY <2>2 DEF Tick, DesktopStep, DecisionFails, SaveAnalysis, ArchiveAnalysis, DesktopDies
    <3>2. reports'[d].created = now
      BY <3>1, <2>2, <1>0 DEF RunDecision, ArchiveTypeOK
    <3> QED BY <3>2, <1>4
  <2> QED BY <2>1, <2>2 DEF ReportsArePast
<1>10. DesktopIsOpen'
  <2>1. CASE Tick
    BY <2>1, <1>0 DEF Tick, DesktopIsOpen, NoneActive
  <2>2. ASSUME NEW d \in Decisions, NEW g \in Gameweeks, NEW p \in Time, RunDecision(d, g, p)
        PROVE  DesktopIsOpen'
    <3>1. reports'[d] # NoReport
      <4>1. reports'[d] = [gw |-> g, prediction |-> p, created |-> now]
        BY <2>2, <1>0 DEF RunDecision, ArchiveTypeOK
      <4>2. reports'[d] \in Report
        BY <4>1, <1>0 DEF Report, ArchiveTypeOK
      <4> QED BY <4>2, NoReportAssumption
    <3>2. active' # NoneActive => active'.analysis \in Analyses
      BY <2>2, <1>0 DEF RunDecision, DesktopIsOpen
    <3> QED BY <3>1, <3>2, <2>2 DEF RunDecision, DesktopIsOpen, NoneActive
  <2>3. ASSUME NEW final \in BOOLEAN, SaveAnalysis(final) PROVE DesktopIsOpen'
    <3> DEFINE n == active.analysis
    <3>1. n \in Analyses /\ latest \in Decisions /\ reports[latest] # NoReport /\ active # NoneActive
      BY <2>3, <1>0 DEF SaveAnalysis, DesktopIsOpen, ArchiveTypeOK
    <3>2. UNCHANGED <<reports, active, latest>> /\ NoneActive' = NoneActive
      BY <2>3 DEF SaveAnalysis, NoneActive
    <3>3. manifests'[n].decision = latest
      BY <2>3, <3>1, <1>0 DEF SaveAnalysis, Save, ArchiveTypeOK
    <3> QED BY <3>1, <3>2, <3>3, <1>0 DEF DesktopIsOpen
  <2>6. ASSUME NEW n \in Analyses, NEW g \in Gameweeks, DecisionFails(n, g) PROVE DesktopIsOpen'
    BY <2>6, <1>0 DEF DecisionFails, DesktopIsOpen, ArchiveTypeOK
  <2>4. CASE ArchiveAnalysis
    BY <2>4, <1>0 DEF ArchiveAnalysis, DesktopIsOpen, NoneActive
  <2>5. CASE DesktopDies
    BY <2>5, <1>0 DEF DesktopDies, DesktopIsOpen, NoneActive
  <2> QED BY <2>1, <2>2, <2>3, <2>4, <2>5, <2>6 DEF DesktopStep
<1> QED BY <1>5, <1>6, <1>7, <1>8, <1>9, <1>10 DEF Evidence

\* A capture that ends, early or late, disturbs nothing.
LEMMA EvidenceOfReturn ==
  ASSUME ArchiveInv, NEW k \in Capturers, Return(k),
         UNCHANGED <<now, reports, cases, reserved, captured>>
  PROVE  Evidence'
<1>0. /\ ArchiveTypeOK /\ CapturesProgress /\ OneWriter /\ ReservedHasNoCase /\ ReportsArePast
      /\ CasesHaveReports /\ CapturesAreProspective /\ CapturedCasesStayValid /\ OneCapturedCase
  BY DEF ArchiveInv
<1>1. /\ cpc'[k] = "idle" /\ \A j \in Capturers \ {k} :
                              cpc'[j] = cpc[j] /\ cjob'[j] = cjob[j] /\ cstamp'[j] = cstamp[j]
  BY <1>0 DEF ArchiveTypeOK, Return, Goto
<1>2. CapturesProgress'
  BY <1>0, <1>1 DEF CapturesProgress, CaptureView, DeadlineOf
<1>3. OneWriter'
  BY <1>0, <1>1 DEF OneWriter
<1>4. /\ ReservedHasNoCase' /\ ReportsArePast' /\ CasesHaveReports' /\ CapturesAreProspective'
      /\ CapturedCasesStayValid' /\ OneCapturedCase'
  BY <1>0 DEF ReservedHasNoCase, ReportsArePast, CasesHaveReports, CapturesAreProspective, DeadlineOf,
     CapturedCasesStayValid, Valid, OneCapturedCase
<1> QED BY <1>2, <1>3, <1>4 DEF Evidence

\* No step of a capture, death included, weakens the evidence.
LEMMA EvidenceOfCapturer ==
  ASSUME ArchiveInv, ArchiveTypeOK', NEW k \in Capturers, CapturerStep(k)
  PROVE  Evidence' /\ DesktopIsOpen'
<1> USE DEF captureVars, desktopVars, Goto, GoOn, Return, Stamp
<1>0. /\ ArchiveTypeOK /\ CapturesProgress /\ OneWriter /\ ReservedHasNoCase /\ ReportsArePast
      /\ CasesHaveReports /\ DesktopIsOpen /\ CapturesAreProspective /\ CapturedCasesStayValid
      /\ OneCapturedCase
  BY DEF ArchiveInv
<1>1. UNCHANGED <<now, reports, manifests, active, latest, archiving>>
  BY DEF CapturerStep, BeginCapture, CreateManifest, FillManifest, Finish, ReserveCase, WriteCase,
     CapturerDies
<1>2. DesktopIsOpen' /\ ReportsArePast'
  BY <1>0, <1>1 DEF DesktopIsOpen, NoneActive, ReportsArePast
<1>3. ASSUME NEW d \in Decisions, BeginCapture(k, d) PROVE Evidence'
  BY <1>0, <1>2, <1>3 DEF BeginCapture, Evidence, CapturesProgress, CaptureView, DeadlineOf, OneWriter,
     ReservedHasNoCase, CasesHaveReports, CapturesAreProspective, CapturedCasesStayValid, Valid,
     OneCapturedCase, ArchiveTypeOK
<1>4. CASE CreateManifest(k)
  <2>1. CASE Return(k) /\ UNCHANGED <<cases, captured, reserved>>
    BY <1>0, <1>1, <1>2, <2>1, EvidenceOfReturn
  <2>2. CASE captured[cjob[k]] = "absent" /\ GoOn(k, "fill")
             /\ captured' = [captured EXCEPT ![cjob[k]] = "torn"]
    <3>1. cpc[k] = "create" /\ UNCHANGED <<cases, reserved, cjob, cstamp>>
      BY <1>4, <2>2 DEF CreateManifest
    <3>2. cpc'[k] = "fill" /\ \A j \in Capturers \ {k} : cpc'[j] = cpc[j]
      BY <2>2, <1>0 DEF ArchiveTypeOK
    <3>3. cjob[k] \in Decisions /\ captured'[cjob[k]] = "torn"
          /\ \A d \in Decisions \ {cjob[k]} : captured'[d] = captured[d]
      BY <2>2, <3>1, <1>0 DEF ArchiveTypeOK, CapturesProgress, CaptureView
    <3>4. CapturesProgress'
      BY <1>0, <1>1, <2>2, <3>1, <3>2, <3>3 DEF CapturesProgress, CaptureView, DeadlineOf
    <3>5. OneWriter'
      BY <1>0, <3>1, <3>2 DEF OneWriter
    <3>6. CapturedCasesStayValid'
      BY <1>0, <2>2, <3>1, <3>3 DEF CapturedCasesStayValid, Valid, ArchiveTypeOK, Case
    <3>7. ReservedHasNoCase' /\ CasesHaveReports' /\ CapturesAreProspective' /\ OneCapturedCase'
      BY <1>0, <1>1, <3>1 DEF ReservedHasNoCase, CasesHaveReports, CapturesAreProspective, DeadlineOf,
         OneCapturedCase
    <3> QED BY <3>4, <3>5, <3>6, <3>7, <1>2 DEF Evidence
  <2> QED BY <1>4, <2>1, <2>2 DEF CreateManifest
<1>5. CASE FillManifest(k)
  <2>1. /\ cpc[k] = "fill" /\ UNCHANGED <<cases, reserved, cjob, cstamp>>
        /\ captured' = [captured EXCEPT ![cjob[k]] = "whole"]
    BY <1>5 DEF FillManifest
  <2>2. cpc'[k] = "finish" /\ \A j \in Capturers \ {k} : cpc'[j] = cpc[j]
    BY <1>5, <1>0 DEF ArchiveTypeOK, FillManifest
  <2>3. cjob[k] \in Decisions /\ captured'[cjob[k]] = "whole"
        /\ \A d \in Decisions \ {cjob[k]} : captured'[d] = captured[d]
    BY <2>1, <1>0 DEF ArchiveTypeOK, CapturesProgress, CaptureView
  <2>4. CapturesProgress'
    BY <1>0, <1>1, <2>1, <2>2, <2>3 DEF CapturesProgress, CaptureView, DeadlineOf
  <2>5. OneWriter'
    BY <1>0, <2>1, <2>2 DEF OneWriter
  <2>6. CapturedCasesStayValid'
    BY <1>0, <2>1, <2>3 DEF CapturedCasesStayValid, Valid, ArchiveTypeOK, Case
  <2>7. ReservedHasNoCase' /\ CasesHaveReports' /\ CapturesAreProspective' /\ OneCapturedCase'
    BY <1>0, <1>1, <2>1 DEF ReservedHasNoCase, CasesHaveReports, CapturesAreProspective, DeadlineOf,
       OneCapturedCase
  <2> QED BY <2>4, <2>5, <2>6, <2>7, <1>2 DEF Evidence
<1>6. CASE Finish(k)
  BY <1>0, <1>2, <1>6 DEF Finish, Evidence, CapturesProgress, CaptureView, DeadlineOf, OneWriter,
     ReservedHasNoCase, CasesHaveReports, CapturesAreProspective, CapturedCasesStayValid, Valid,
     OneCapturedCase, ArchiveTypeOK, ReportsArePast
<1>7. CASE ReserveCase(k)
  <2>1. CASE Return(k) /\ UNCHANGED <<cases, captured, reserved>>
    BY <1>0, <1>1, <1>2, <2>1, EvidenceOfReturn
  <2>2. ASSUME ~CapturedCase(cjob[k]), cjob[k] \notin reserved, GoOn(k, "write"), cpc[k] = "reserve",
               reserved' = reserved \cup {cjob[k]}, UNCHANGED <<cases, captured>>
        PROVE  Evidence'
    <3>1. cpc'[k] = "write" /\ \A j \in Capturers \ {k} : cpc'[j] = cpc[j]
      BY <2>2, <1>0 DEF ArchiveTypeOK
    <3>2. CapturesProgress'
      BY <1>0, <1>1, <2>2, <3>1 DEF CapturesProgress, CaptureView, DeadlineOf
    <3>3. OneWriter'
      BY <1>0, <2>2, <3>1 DEF OneWriter, CapturesProgress, CaptureView
    <3>4. ReservedHasNoCase'
      BY <1>0, <2>2 DEF ReservedHasNoCase, CapturedCase
    <3>5. CasesHaveReports' /\ CapturesAreProspective' /\ CapturedCasesStayValid' /\ OneCapturedCase'
      BY <1>0, <1>1, <2>2 DEF CasesHaveReports, CapturesAreProspective, DeadlineOf,
         CapturedCasesStayValid, Valid, OneCapturedCase
    <3> QED BY <3>2, <3>3, <3>4, <3>5, <1>2 DEF Evidence
  <2>3. cpc[k] = "reserve" /\ UNCHANGED <<cases, captured>>
    BY <1>7 DEF ReserveCase
  <2>4. CASE CapturedCase(cjob[k]) \/ cjob[k] \in reserved
    BY <1>2, <1>7, <2>1, <2>3, <2>4 DEF ReserveCase
  <2>5. CASE ~(CapturedCase(cjob[k]) \/ cjob[k] \in reserved)
    <3>1. GoOn(k, "write") /\ reserved' = reserved \cup {cjob[k]}
      BY <1>7, <2>5 DEF ReserveCase
    <3>2. ~CapturedCase(cjob[k]) /\ cjob[k] \notin reserved
      BY <2>5
    <3> QED BY <1>2, <2>2, <2>3, <3>1, <3>2
  <2> QED BY <2>4, <2>5
<1>8. CASE WriteCase(k)
  <2> DEFINE c == [decision |-> cjob[k], source |-> Capture, version |-> 0, at |-> cstamp[k]]
  <2>1. /\ cpc[k] = "write" /\ cases' = cases \cup {c} /\ reserved' = reserved \ {cjob[k]}
        /\ UNCHANGED captured /\ Return(k)
    BY <1>8 DEF WriteCase
  <2>2. /\ cjob[k] \in Decisions /\ reports[cjob[k]] # NoReport /\ captured[cjob[k]] = "whole"
        /\ reports[cjob[k]].created <= cstamp[k] /\ cstamp[k] < DeadlineOf(cjob[k])
        /\ cjob[k] \in reserved
    BY <2>1, <1>0 DEF CapturesProgress, CaptureView
  <2>3. /\ cpc'[k] = "idle" /\ \A j \in Capturers \ {k} :
                                cpc'[j] = cpc[j] /\ cjob'[j] = cjob[j] /\ cstamp'[j] = cstamp[j]
    BY <2>1, <1>0 DEF ArchiveTypeOK
  <2>4. CapturesProgress'
    <3>1. ASSUME NEW j \in Capturers, j # k PROVE CaptureView(j)'
      <4>1. CaptureView(j)
        BY <1>0 DEF CapturesProgress
      <4>2. cpc[j] = "write" => cjob[j] # cjob[k]
        BY <1>0, <2>1, <3>1 DEF OneWriter
      <4> QED BY <4>1, <4>2, <1>1, <2>1, <2>3, <3>1 DEF CaptureView, DeadlineOf
    <3>2. CaptureView(k)'
      BY <2>3 DEF CaptureView
    <3> QED BY <3>1, <3>2 DEF CapturesProgress
  <2>5. OneWriter'
    <3> SUFFICES ASSUME NEW i \in Capturers, NEW j \in Capturers, cpc'[i] = "write", cpc'[j] = "write",
                        cjob'[i] = cjob'[j]
                 PROVE  i = j
      BY DEF OneWriter
    <3>1. i # k /\ j # k
      BY <2>3
    <3>2. cpc[i] = "write" /\ cpc[j] = "write" /\ cjob[i] = cjob[j]
      BY <3>1, <2>3
    <3> QED BY <3>2, <1>0 DEF OneWriter
  <2>6. ReservedHasNoCase'
    BY <1>0, <2>1 DEF ReservedHasNoCase
  <2>7. CasesHaveReports' /\ CapturesAreProspective' /\ CapturedCasesStayValid'
    BY <1>0, <1>1, <2>1, <2>2 DEF CasesHaveReports, CapturesAreProspective, DeadlineOf,
       CapturedCasesStayValid, Valid
  <2>8. OneCapturedCase'
    <3>1. \A b \in cases : b.source = Capture => b.decision # cjob[k]
      BY <1>0, <2>2 DEF ReservedHasNoCase
    <3> QED BY <3>1, <1>0, <2>1 DEF OneCapturedCase
  <2> QED BY <1>2, <2>4, <2>5, <2>6, <2>7, <2>8 DEF Evidence
<1>9. CASE CapturerDies(k)
  BY <1>0, <1>2, <1>9 DEF CapturerDies, Evidence, CapturesProgress, CaptureView, DeadlineOf, OneWriter,
     ReservedHasNoCase, CasesHaveReports, CapturesAreProspective, CapturedCasesStayValid, Valid,
     OneCapturedCase, ArchiveTypeOK
<1> QED BY <1>2, <1>3, <1>4, <1>5, <1>6, <1>7, <1>8, <1>9 DEF CapturerStep

\* The archive's invariant is inductive.
LEMMA ArchiveStep == ASSUME ArchiveInv, [ArchiveNext]_archiveVars PROVE ArchiveInv'
<1>1. ASSUME Tick \/ DesktopStep PROVE ArchiveInv'
  BY <1>1, TypeOfTick, TypeOfDesktop, EvidenceOfDesktop DEF ArchiveInv, Evidence
<1>2. ASSUME NEW k \in Capturers, CapturerStep(k) PROVE ArchiveInv'
  BY <1>2, TypeOfCapturer, EvidenceOfCapturer DEF ArchiveInv, Evidence
<1>3. ASSUME UNCHANGED archiveVars PROVE ArchiveInv'
  BY <1>3 DEF archiveVars, captureVars, desktopVars, ArchiveInv, ArchiveTypeOK, CapturesProgress,
     CaptureView, DeadlineOf, OneWriter, ReservedHasNoCase, ReportsArePast, CasesHaveReports,
     DesktopIsOpen, NoneActive, CapturesAreProspective, CapturedCasesStayValid, Valid, OneCapturedCase
<1> QED BY <1>1, <1>2, <1>3 DEF ArchiveNext

-----------------------------------------------------------------------------
(* Theorems *)

\* The inductive invariant of the archive holds in every reachable state.
THEOREM ArchiveInvariant == ArchiveSpec => []ArchiveInv
<1>1. ArchiveInv /\ [ArchiveNext]_archiveVars => ArchiveInv'
  BY ArchiveStep
<1> QED BY InitArchive, <1>1, PTL DEF ArchiveSpec

\* The variables always have their types.
THEOREM ArchiveTypeCorrect == ArchiveSpec => []ArchiveTypeOK
BY ArchiveInvariant, PTL DEF ArchiveInv

\* No capture, however late or often retried, leaves a retrospective case.
THEOREM CapturesProspective == ArchiveSpec => []CapturesAreProspective
BY ArchiveInvariant, PTL DEF ArchiveInv

\* No later capture touches what a captured case refers to.
THEOREM CapturedCasesValid == ArchiveSpec => []CapturedCasesStayValid
BY ArchiveInvariant, PTL DEF ArchiveInv

\* A decision is captured by at most one case.
THEOREM CapturedOnce == ArchiveSpec => []OneCapturedCase
BY ArchiveInvariant, PTL DEF ArchiveInv
=============================================================================
