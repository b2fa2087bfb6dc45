------------------------- MODULE ProviderFetch_proofs -------------------------
(***************************************************************************)
(* Proofs about the shared read path for any number of requests, threads   *)
(* and calls, any lifetimes and any budget.  Two inductive invariants: one *)
(* follows a response from its receipt into the raw store, the cache and   *)
(* an answer; the other follows a charge from the quota to the transport.  *)
(***************************************************************************)
EXTENDS ProviderFetch, FiniteSetTheorems, TLAPS

\* A published or staged archive: kept first, and dated and limited by its put.
EntryOK(r, e) ==
  /\ KeptBefore(r, e.response, e.stored)
  /\ e.response.received <= e.stored /\ e.stored <= clock
  /\ e.response.version <= version
  /\ Lifetime[r] # Forever => e.expires = e.stored + Lifetime[r]

\* What a call knows at each of its steps.
SeenView(t) ==
  /\ pc[t] \in {"idle", "read"} => seen[t] = NoEntry
  /\ pc[t] = "check" => seen[t] # NoEntry
  /\ seen[t] # NoEntry => EntryOK(req[t], seen[t])

GotView(t) ==
  pc[t] \in {"keep", "put", "replace"} =>
    /\ got[t].received <= clock /\ got[t].version <= version
    /\ seen[t] # NoEntry => seen[t].response.version <= got[t].version

KeptView(t) ==
  pc[t] \in {"put", "replace"} =>
    /\ Snapshot(req[t], got[t], retrieved[t]) \in kept
    /\ got[t].received <= retrieved[t] /\ retrieved[t] <= clock

StagedView(t) ==
  pc[t] = "replace" =>
    /\ staged[t] \in Entries
    /\ staged[t].response = got[t]
    /\ EntryOK(req[t], staged[t])

CallView(t) == SeenView(t) /\ GotView(t) /\ KeptView(t) /\ StagedView(t)

AnswerView(t) ==
  /\ answer[t].outcome = "ok" =>
       /\ answer[t].request \in Requests
       /\ KeptBefore(answer[t].request, answer[t].response, answer[t].stored)
       /\ answer[t].response.received <= answer[t].at
  /\ answer[t].cached =>
       /\ answer[t].outcome = "ok"
       /\ Lifetime[answer[t].request] # Forever =>
            answer[t].given < answer[t].stored + Lifetime[answer[t].request]

CacheView == \A r \in Requests : entries[r] # NoEntry => EntryOK(r, entries[r])

DataInv ==
  /\ TypeOK
  /\ CacheView
  /\ \A t \in Threads : CallView(t)
  /\ \A t \in Threads : AnswerView(t)

-----------------------------------------------------------------------------
(* Types *)

\* Before the first call everything is empty.
LEMMA InitTypeOK == Init => TypeOK
<1> SUFFICES ASSUME Init PROVE TypeOK
  OBVIOUS
<1> USE ProviderAssumption DEF Init, TypeOK, Instants, Versions, Days
<1>1. NoResponse \in Responses
  BY DEF NoResponse, Responses
<1>2. NoResult("none") \in Answers
  BY <1>1 DEF NoResult, Answers, Outcomes
<1>3. answer \in [Threads -> Answers] /\ got \in [Threads -> Responses]
  BY <1>1, <1>2
<1>4. pc \in [Threads -> Steps \cup {"idle"}]
  OBVIOUS
<1>5. quotaDay \in 0..day /\ used \in 0..Budget /\ clock \in Instants /\ day \in 1..(clock + 1)
  OBVIOUS
<1> QED BY <1>3, <1>4, <1>5

\* Raising or returning leaves the call's variables in their types.
LEMMA LeaveType ==
  ASSUME TypeOK, NEW t \in Threads, Leave(t)
  PROVE /\ pc' \in [Threads -> Steps \cup {"idle"}]
        /\ req' \in [Threads -> Requests \cup {NoRequest}]
        /\ \A u \in Threads : pc'[u] # "idle" => req'[u] \in Requests
        /\ seen' \in [Threads -> Entries \cup {NoEntry}]
        /\ got' \in [Threads -> Responses]
        /\ retrieved' \in [Threads -> Instants]
        /\ staged' \in [Threads -> Entries \cup {NoEntry}]
        /\ charged' \in [Threads -> {0} \cup Days]
<1>1. NoResponse \in Responses /\ 0 \in Instants
  BY ProviderAssumption DEF NoResponse, Responses, Instants, Versions
<1>2. \A u \in Threads : u # t => pc'[u] = pc[u] /\ req'[u] = req[u]
  BY DEF Leave, Goto, TypeOK
<1>3. pc'[t] = "idle"
  BY DEF Leave, Goto, TypeOK
<1>4. \A u \in Threads : pc'[u] # "idle" => req'[u] \in Requests
  BY <1>2, <1>3 DEF TypeOK
<1>5. pc' \in [Threads -> Steps \cup {"idle"}] /\ req' \in [Threads -> Requests \cup {NoRequest}]
  BY DEF Leave, Goto, TypeOK
<1>6. seen' \in [Threads -> Entries \cup {NoEntry}] /\ staged' \in [Threads -> Entries \cup {NoEntry}]
  BY DEF Leave, TypeOK
<1>7. got' \in [Threads -> Responses] /\ retrieved' \in [Threads -> Instants]
  BY <1>1 DEF Leave, TypeOK
<1>8. charged' \in [Threads -> {0} \cup Days]
  BY DEF Leave, TypeOK
<1> QED BY <1>4, <1>5, <1>6, <1>7, <1>8

\* A result without data is an answer.
LEMMA NoResultType == NoResult("raised") \in Answers
  BY ProviderAssumption
  DEF NoResult, Answers, Outcomes, NoResponse, Responses, Instants, Versions

\* So is a parsed response with the times it was stored and obtained at.
LEMMA ConcludeType ==
  ASSUME TypeOK, NEW t \in Threads, NEW x \in Responses, NEW s \in Instants, NEW a \in Instants,
         NEW c \in BOOLEAN, Conclude(t, x, s, a, c)
  PROVE answer' \in [Threads -> Answers]
<1>1. [outcome |-> "ok", request |-> req[t], response |-> x, stored |-> s,
       at |-> a, cached |-> c, given |-> clock] \in Answers
  BY DEF TypeOK, Answers, Outcomes
<1> QED BY <1>1, NoResultType DEF Conclude, TypeOK

\* Every step leaves the variables in their types.
LEMMA TypeStep == ASSUME TypeOK, \A t \in Threads : pc[t] = "check" => seen[t] # NoEntry,
                         \A t \in Threads : pc[t] = "replace" => staged[t] \in Entries,
                         \A t \in Threads : pc[t] = "send" /\ req[t] \in Metered => charged[t] \in Days,
                         [Next]_vars
                  PROVE TypeOK'
<1> USE DEF Steps
<1>0. day \in Days /\ UsedToday \in 0..Budget /\ clock \in Instants /\ 0 \in Instants
  BY ProviderAssumption DEF TypeOK, Days, Instants, UsedToday
<1>1. ASSUME Tick PROVE TypeOK'
  <2>1. clock' \in Instants /\ day' \in 1..(clock' + 1) /\ quotaDay \in 0..day'
    BY <1>1, ProviderAssumption DEF Tick, TypeOK, Instants
  <2> QED BY <1>1, <2>1 DEF Tick, TypeOK, quotaVars, localVars
<1>2. ASSUME ProviderUpdates PROVE TypeOK'
  <2>1. version' \in Versions
    BY <1>2, ProviderAssumption DEF ProviderUpdates, TypeOK, Versions
  <2> QED BY <1>2, <2>1 DEF ProviderUpdates, TypeOK, quotaVars, localVars
<1>3. ASSUME QuotaStatus PROVE TypeOK'
  <2>1. quotaDay' \in 0..day /\ used' \in 0..Budget
    BY <1>3, <1>0 DEF QuotaStatus, TypeOK
  <2> QED BY <1>3, <2>1 DEF QuotaStatus, TypeOK, worldVars, localVars
<1>4. ASSUME NEW r \in Requests, Invalidate(r) PROVE TypeOK'
  BY <1>4 DEF Invalidate, Unlink, TypeOK, worldVars, quotaVars, localVars
<1>5. ASSUME NEW t \in Threads, NEW r \in Requests, Begin(t, r) PROVE TypeOK'
  <2>1. pc' \in [Threads -> Steps \cup {"idle"}] /\ req' \in [Threads -> Requests \cup {NoRequest}]
    BY <1>5 DEF Begin, Goto, TypeOK
  <2>2. \A u \in Threads : pc'[u] # "idle" => req'[u] \in Requests
    BY <1>5 DEF Begin, Goto, TypeOK
  <2> QED BY <1>5, <2>1, <2>2 DEF Begin, TypeOK, worldVars, quotaVars
<1>6. ASSUME NEW t \in Threads, Read(t) PROVE TypeOK'
  <2>1. req[t] \in Requests
    BY <1>6 DEF Read, TypeOK
  <2>2. pc' \in [Threads -> Steps \cup {"idle"}] /\ pc[t] # "idle"
    BY <1>6 DEF Read, Goto, TypeOK, FirstStepOfFetch
  <2>3. seen' \in [Threads -> Entries \cup {NoEntry}]
    BY <1>6, <2>1 DEF Read, TypeOK
  <2>4. \A u \in Threads : pc'[u] # "idle" => req'[u] \in Requests
    BY <1>6, <2>2 DEF Read, Goto, TypeOK
  <2> QED BY <1>6, <2>2, <2>3, <2>4 DEF Read, TypeOK, worldVars, quotaVars
<1>7. ASSUME NEW t \in Threads, ReadFails(t) PROVE TypeOK'
  BY <1>7, LeaveType, NoResultType DEF ReadFails, Fail, TypeOK, worldVars, quotaVars
<1>8. ASSUME NEW t \in Threads, Check(t) PROVE TypeOK'
  <2>1. CASE Stale(seen[t])
    <3>1. pc' \in [Threads -> Steps \cup {"idle"}]
      BY <1>8, <2>1 DEF Check, Goto, FirstStepOfFetch, TypeOK
    <3>2. \A u \in Threads : pc'[u] # "idle" => req'[u] \in Requests
      BY <1>8, <2>1 DEF Check, Goto, TypeOK, localVars
    <3> QED BY <1>8, <2>1, <3>1, <3>2 DEF Check, TypeOK, worldVars, quotaVars, localVars
  <2>2. CASE ~Stale(seen[t])
    <3>1. seen[t] \in Entries
      BY <1>8 DEF Check, TypeOK
    <3>2. seen[t].response \in Responses /\ seen[t].stored \in Instants
      BY <3>1 DEF Entries
    <3>3. Conclude(t, seen[t].response, seen[t].stored, seen[t].stored, TRUE)
      BY <1>8, <2>2 DEF Check
    <3>4. answer' \in [Threads -> Answers]
      BY <3>2, <3>3, ConcludeType
    <3>5. Leave(t)
      BY <3>3 DEF Conclude
    <3> QED BY <1>8, <3>4, <3>5, LeaveType DEF Check, TypeOK, worldVars, quotaVars
  <2> QED BY <2>1, <2>2
<1>9. ASSUME NEW t \in Threads, Charge(t) PROVE TypeOK'
  <2>1. pc' \in [Threads -> Steps \cup {"idle"}] /\ charged' \in [Threads -> {0} \cup Days]
    BY <1>0, <1>9 DEF Charge, Goto, TypeOK
  <2>2. \A u \in Threads : pc'[u] # "idle" => req'[u] \in Requests
    BY <1>9 DEF Charge, Goto, TypeOK
  <2>3. used' \in 0..Budget /\ quotaDay' \in 0..day
    BY <1>0, <1>9, ProviderAssumption DEF Charge, TypeOK
  <2>4. reserved' \in [Days -> Nat]
    BY <1>0, <1>9 DEF Charge, TypeOK
  <2> QED BY <1>9, <2>1, <2>2, <2>3, <2>4 DEF Charge, TypeOK, worldVars
<1>10. ASSUME NEW t \in Threads, ChargeRefused(t) PROVE TypeOK'
  <2>1. used' \in 0..Budget /\ quotaDay' \in 0..day
    BY <1>0, <1>10 DEF ChargeRefused, TypeOK
  <2> QED BY <1>10, <2>1, LeaveType, NoResultType DEF ChargeRefused, Fail, TypeOK, worldVars
<1>11. ASSUME NEW t \in Threads, pc[t] = "send", CountSent(t) PROVE sent' \in [Days -> Nat]
  BY <1>11 DEF CountSent, TypeOK
<1>12. ASSUME NEW t \in Threads, Respond(t) PROVE TypeOK'
  <2>1. \A good \in BOOLEAN : ResponseNow(t, good) \in Responses
    BY <1>0 DEF ResponseNow, Responses, TypeOK
  <2>2. got' \in [Threads -> Responses]
    BY <1>12, <2>1 DEF Respond, TypeOK
  <2>3. pc' \in [Threads -> Steps \cup {"idle"}]
    BY <1>12 DEF Respond, Goto, TypeOK
  <2>4. \A u \in Threads : pc'[u] # "idle" => req'[u] \in Requests
    BY <1>12 DEF Respond, Goto, TypeOK
  <2>5. sent' \in [Days -> Nat]
    BY <1>11, <1>12 DEF Respond
  <2> QED BY <1>12, <2>2, <2>3, <2>4, <2>5 DEF Respond, TypeOK, worldVars, quotaVars
<1>13. ASSUME NEW t \in Threads, RespondFails(t) PROVE TypeOK'
  <2>1. sent' \in [Days -> Nat]
    BY <1>11, <1>13 DEF RespondFails
  <2> QED BY <1>13, <2>1, LeaveType, NoResultType DEF RespondFails, Fail, TypeOK, worldVars, quotaVars
<1>14. ASSUME NEW t \in Threads, pc[t] = "keep"
       PROVE Snapshot(req[t], got[t], clock) \in Snapshots
  <2>1. req[t] \in Requests /\ got[t] \in Responses
    BY <1>14 DEF TypeOK
  <2> QED BY <2>1, <1>0 DEF Snapshot, Snapshots, Responses
<1>15. ASSUME NEW t \in Threads, Keep(t) PROVE TypeOK'
  <2>1. pc' \in [Threads -> Steps \cup {"idle"}] /\ retrieved' \in [Threads -> Instants]
    BY <1>0, <1>15 DEF Keep, Goto, TypeOK
  <2>2. \A u \in Threads : pc'[u] # "idle" => req'[u] \in Requests
    BY <1>15 DEF Keep, Goto, TypeOK
  <2>3. kept' \subseteq Snapshots
    BY <1>14, <1>15 DEF Keep, TypeOK
  <2> QED BY <1>15, <2>1, <2>2, <2>3 DEF Keep, TypeOK, worldVars, quotaVars
<1>16. ASSUME NEW t \in Threads, KeepFails(t) PROVE TypeOK'
  <2>1. kept' \subseteq Snapshots
    BY <1>14, <1>16 DEF KeepFails, TypeOK
  <2> QED BY <1>16, <2>1, LeaveType, NoResultType DEF KeepFails, Fail, TypeOK, worldVars, quotaVars
<1>17. ASSUME NEW t \in Threads, Put(t) PROVE TypeOK'
  <2>1. Expiry(req[t], clock) \in Nat \cup {Forever}
    <3>1. req[t] \in Requests /\ clock \in Nat
      BY <1>17, ProviderAssumption DEF Put, TypeOK, Instants
    <3> QED BY <3>1, ProviderAssumption DEF Expiry, Never
  <2>2. [response |-> got[t], stored |-> clock, expires |-> Expiry(req[t], clock)] \in Entries
    BY <2>1, <1>0 DEF Entries, TypeOK
  <2>3. staged' \in [Threads -> Entries \cup {NoEntry}]
    BY <1>17, <2>2 DEF Put, TypeOK
  <2>4. pc' \in [Threads -> Steps \cup {"idle"}]
    BY <1>17 DEF Put, Goto, TypeOK
  <2>5. \A u \in Threads : pc'[u] # "idle" => req'[u] \in Requests
    BY <1>17 DEF Put, Goto, TypeOK
  <2> QED BY <1>17, <2>3, <2>4, <2>5 DEF Put, TypeOK, worldVars, quotaVars
<1>18. ASSUME NEW t \in Threads, Publish(t) PROVE TypeOK'
  <2>1. staged[t] \in Entries /\ got[t] \in Responses /\ retrieved[t] \in Instants
    BY <1>18 DEF Publish, TypeOK
  <2>2. staged[t].stored \in Instants
    BY <2>1 DEF Entries
  <2>3. Conclude(t, got[t], staged[t].stored, retrieved[t], FALSE)
    BY <1>18 DEF Publish
  <2>4. answer' \in [Threads -> Answers]
    BY <2>1, <2>2, <2>3, ConcludeType
  <2>5. Leave(t)
    BY <2>3 DEF Conclude
  <2>6. entries' \in [Requests -> Entries \cup {NoEntry}]
    BY <1>18, <2>1 DEF Publish, Replace, TypeOK
  <2> QED BY <1>18, <2>4, <2>5, <2>6, LeaveType DEF Publish, TypeOK, worldVars, quotaVars
<1>19. ASSUME NEW t \in Threads, PublishFails(t) PROVE TypeOK'
  BY <1>19, LeaveType, NoResultType DEF PublishFails, Fail, TypeOK, worldVars, quotaVars
<1>20. ASSUME UNCHANGED vars PROVE TypeOK'
  BY <1>20 DEF vars, TypeOK, worldVars, quotaVars, localVars
<1> QED BY <1>1, <1>2, <1>3, <1>4, <1>5, <1>6, <1>7, <1>8, <1>9, <1>10, <1>12, <1>13, <1>15,
        <1>16, <1>17, <1>18, <1>19, <1>20 DEF Next, CallStep
-----------------------------------------------------------------------------
(* From the provider through the raw store and the cache to an answer *)

\* The same call as before, as far as its variables tell.
SameCall(u) ==
  /\ pc'[u] = pc[u] /\ req'[u] = req[u] /\ seen'[u] = seen[u] /\ got'[u] = got[u]
  /\ retrieved'[u] = retrieved[u] /\ staged'[u] = staged[u]

SameOthers(t) == \A u \in Threads \ {t} : SameCall(u) /\ answer'[u] = answer[u]

\* Evidence is never dropped and neither clock nor data go back.
Grows ==
  /\ kept \subseteq kept'
  /\ clock \in Nat /\ clock' \in Nat /\ clock <= clock'
  /\ version \in Nat /\ version' \in Nat /\ version <= version'

\* That holds of every step.
LEMMA StepGrows == ASSUME TypeOK, TypeOK', [Next]_vars PROVE Grows
<1>1. clock \in Nat /\ clock' \in Nat /\ version \in Nat /\ version' \in Nat
  BY ProviderAssumption DEF TypeOK, Instants, Versions
<1>2. clock' = clock \/ clock' = clock + 1
  BY DEF Next, vars, worldVars, Tick, ProviderUpdates, QuotaStatus, Invalidate, Begin, CallStep,
     Read, ReadFails, Check, Charge, ChargeRefused, Respond, RespondFails, Keep, KeepFails, Put,
     Publish, PublishFails
<1>3. version' = version \/ version' = version + 1
  BY DEF Next, vars, worldVars, Tick, ProviderUpdates, QuotaStatus, Invalidate, Begin, CallStep,
     Read, ReadFails, Check, Charge, ChargeRefused, Respond, RespondFails, Keep, KeepFails, Put,
     Publish, PublishFails
<1>4. kept \subseteq kept'
  BY DEF Next, vars, Tick, ProviderUpdates, QuotaStatus, Invalidate, Begin, CallStep,
     Read, ReadFails, Check, Charge, ChargeRefused, Respond, RespondFails, Keep, KeepFails, Put,
     Publish, PublishFails
<1> QED BY <1>1, <1>2, <1>3, <1>4 DEF Grows

\* EntryOK in the next state, of a request and an entry of this one.
EntryOKNext(r, e) ==
  /\ \E k \in kept' : /\ k.request = r /\ k.version = e.response.version
                      /\ k.good = e.response.good
                      /\ e.response.received <= k.at /\ k.at <= e.stored
  /\ e.response.received <= e.stored /\ e.stored <= clock'
  /\ e.response.version <= version'
  /\ Lifetime[r] # Forever => e.expires = e.stored + Lifetime[r]

\* An archive that was all right stays so.
LEMMA EntryStaysOK ==
  ASSUME Grows, NEW r, NEW e \in Entries, EntryOK(r, e) PROVE EntryOKNext(r, e)
<1>1. e.stored \in Nat /\ e.response.version \in Nat
  BY ProviderAssumption DEF Entries, Responses, Instants, Versions
<1>2. e.stored <= clock'
  <2>1. e.stored <= clock
    BY DEF EntryOK
  <2> QED BY <1>1, <2>1 DEF Grows
<1>3. e.response.version <= version'
  <2>1. e.response.version <= version
    BY DEF EntryOK
  <2> QED BY <1>1, <2>1 DEF Grows
<1> QED BY <1>2, <1>3 DEF EntryOK, KeptBefore, EntryOKNext, Grows

\* A call that takes no step keeps knowing what it knew.
LEMMA SameCallView ==
  ASSUME TypeOK, Grows, NEW u \in Threads, SameCall(u), CallView(u) PROVE CallView(u)'
<1>0. got[u] \in Responses /\ retrieved[u] \in Nat /\ seen[u] \in Entries \cup {NoEntry}
      /\ staged[u] \in Entries \cup {NoEntry}
  BY ProviderAssumption DEF TypeOK, Instants
<1>1. got[u].received \in Nat /\ got[u].version \in Nat
  BY <1>0, ProviderAssumption DEF Responses, Instants, Versions
<1>2. SeenView(u)'
  <2>1. ASSUME seen[u] # NoEntry PROVE EntryOKNext(req[u], seen[u])
    BY <1>0, <2>1, EntryStaysOK DEF CallView, SeenView
  <2>2. ASSUME seen'[u] # NoEntry PROVE EntryOK(req[u], seen[u])'
    BY <2>1, <2>2 DEF EntryOK, KeptBefore, EntryOKNext, SameCall
  <2> QED BY <2>2 DEF CallView, SeenView, SameCall
<1>3. GotView(u)'
  BY <1>1 DEF CallView, GotView, SameCall, Grows
<1>4. KeptView(u)'
  BY <1>0 DEF CallView, KeptView, SameCall, Grows, Snapshot
<1>5. StagedView(u)'
  <2>1. ASSUME pc[u] = "replace" PROVE EntryOKNext(req[u], staged[u])
    BY <1>0, <2>1, EntryStaysOK DEF CallView, StagedView
  <2>2. ASSUME pc'[u] = "replace" PROVE EntryOK(req[u], staged[u])'
    BY <2>1, <2>2 DEF EntryOK, KeptBefore, EntryOKNext, SameCall
  <2> QED BY <2>2 DEF CallView, StagedView, SameCall
<1> QED BY <1>2, <1>3, <1>4, <1>5 DEF CallView

\* An answer that was given keeps its evidence.
LEMMA SameAnswerView ==
  ASSUME Grows, NEW u \in Threads, answer'[u] = answer[u], AnswerView(u) PROVE AnswerView(u)'
  BY DEF AnswerView, KeptBefore, Grows

\* Nothing is known of a call that is over.
LEMMA LeftView == ASSUME TypeOK, NEW t \in Threads, Leave(t) PROVE CallView(t)'
  BY DEF Leave, Goto, TypeOK, CallView, SeenView, GotView, KeptView, StagedView

\* A call that raised has no data to answer for.
LEMMA RaisedView ==
  ASSUME TypeOK, NEW t \in Threads, answer' = [answer EXCEPT ![t] = NoResult("raised")]
  PROVE AnswerView(t)'
<1>1. answer'[t] = NoResult("raised")
  BY DEF TypeOK
<1> QED BY <1>1 DEF AnswerView, NoResult

\* A step of one call leaves the others alone.
LEMMA OthersAlone ==
  ASSUME TypeOK, NEW t \in Threads, CallStep(t) \/ \E r \in Requests : Begin(t, r)
  PROVE SameOthers(t)
<1> USE DEF SameOthers, SameCall, Goto, Leave, Fail, Conclude, localVars, TypeOK
<1>1. ASSUME Read(t) \/ Charge(t) \/ Respond(t) \/ Keep(t) \/ Put(t) PROVE SameOthers(t)
  BY <1>1 DEF Read, Charge, Respond, Keep, Put
<1>2. ASSUME ReadFails(t) \/ ChargeRefused(t) \/ RespondFails(t) \/ KeepFails(t) \/ PublishFails(t)
      PROVE SameOthers(t)
  BY <1>2 DEF ReadFails, ChargeRefused, RespondFails, KeepFails, PublishFails
<1>3. ASSUME Check(t) \/ Publish(t) PROVE SameOthers(t)
  BY <1>3 DEF Check, Publish
<1>4. ASSUME NEW r \in Requests, Begin(t, r) PROVE SameOthers(t)
  BY <1>4 DEF Begin
<1> QED BY <1>1, <1>2, <1>3, <1>4 DEF CallStep

\* Each step of a call finds out what the next one relies on.
LEMMA OwnCallView ==
  ASSUME DataInv, TypeOK', Grows, NEW t \in Threads, CallStep(t) \/ \E r \in Requests : Begin(t, r)
  PROVE CallView(t)'
<1>0. TypeOK /\ CallView(t) /\ CacheView
  BY DEF DataInv
<1>1. got[t] \in Responses /\ got[t].received \in Nat /\ got[t].version \in Nat /\ retrieved[t] \in Nat
  BY <1>0, ProviderAssumption DEF TypeOK, Instants, Responses, Versions
<1>2. ASSUME NEW r \in Requests, Begin(t, r) PROVE CallView(t)'
  BY <1>0, <1>2 DEF Begin, Goto, TypeOK, CallView, SeenView, GotView, KeptView, StagedView
<1>3. ASSUME Read(t) PROVE CallView(t)'
  <2>1. req[t] \in Requests /\ pc'[t] \in {"check", "charge", "send"}
    BY <1>0, <1>3 DEF Read, Goto, TypeOK, FirstStepOfFetch
  <2>2. seen'[t] = entries[req[t]] /\ req'[t] = req[t] /\ (pc'[t] = "check" => seen'[t] # NoEntry)
    BY <1>0, <1>3 DEF Read, Goto, TypeOK, FirstStepOfFetch
  <2>3. ASSUME seen'[t] # NoEntry PROVE EntryOKNext(req[t], seen'[t])
    <3>1. entries[req[t]] \in Entries /\ EntryOK(req[t], entries[req[t]])
      BY <1>0, <2>1, <2>2, <2>3 DEF TypeOK, CacheView
    <3> QED BY <3>1, <2>2, EntryStaysOK
  <2>4. seen'[t] # NoEntry => EntryOK(req[t], seen[t])'
    BY <2>2, <2>3 DEF EntryOK, KeptBefore, EntryOKNext
  <2> QED BY <2>1, <2>2, <2>4 DEF CallView, SeenView, GotView, KeptView, StagedView
<1>4. ASSUME UNCHANGED <<req, seen>>, seen[t] # NoEntry PROVE EntryOK(req[t], seen[t])'
  <2>1. seen[t] \in Entries /\ EntryOK(req[t], seen[t])
    BY <1>0, <1>4 DEF TypeOK, CallView, SeenView
  <2> QED BY <1>4, <2>1, EntryStaysOK DEF EntryOK, KeptBefore, EntryOKNext
<1>5. ASSUME Check(t) PROVE CallView(t)'
  <2>1. CASE Leave(t)
    BY <1>0, <2>1, LeftView
  <2>2. CASE Goto(t, FirstStepOfFetch(t)) /\ UNCHANGED <<localVars, answer>>
    <3>1. pc'[t] \in {"charge", "send"} /\ UNCHANGED <<req, seen>>
      BY <1>0, <2>2 DEF Goto, FirstStepOfFetch, TypeOK, localVars
    <3> QED BY <3>1, <1>4 DEF CallView, SeenView, GotView, KeptView, StagedView
  <2> QED BY <1>5, <2>1, <2>2 DEF Check, Conclude
<1>6. ASSUME Charge(t) PROVE CallView(t)'
  <2>1. pc'[t] = "send" /\ UNCHANGED <<req, seen>>
    BY <1>0, <1>6 DEF Charge, Goto, TypeOK
  <2> QED BY <2>1, <1>4 DEF CallView, SeenView, GotView, KeptView, StagedView
<1>7. ASSUME Respond(t) PROVE CallView(t)'
  <2>1. pc'[t] = "keep" /\ UNCHANGED <<req, seen, clock, version>>
    BY <1>0, <1>7 DEF Respond, Goto, TypeOK, worldVars
  <2>2. got'[t].received = clock /\ got'[t].version = version
    BY <1>0, <1>7 DEF Respond, ResponseNow, TypeOK
  <2>3. seen[t] # NoEntry => seen[t].response.version <= version
    BY <1>0 DEF CallView, SeenView, EntryOK
  <2>4. GotView(t)'
    BY <2>1, <2>2, <2>3 DEF GotView, Grows
  <2> QED BY <2>1, <2>4, <1>4 DEF CallView, SeenView, KeptView, StagedView
<1>8. ASSUME Keep(t) PROVE CallView(t)'
  <2>1. pc'[t] = "put" /\ UNCHANGED <<req, seen, got, clock, version>> /\ retrieved'[t] = clock
    BY <1>0, <1>8 DEF Keep, Goto, TypeOK, worldVars
  <2>2. Snapshot(req[t], got[t], clock) \in kept'
    BY <1>8 DEF Keep
  <2>3. got[t].received <= clock /\ got[t].version <= version
        /\ (seen[t] # NoEntry => seen[t].response.version <= got[t].version)
    BY <1>0, <1>8 DEF Keep, CallView, GotView
  <2>4. KeptView(t)'
    BY <2>1, <2>2, <2>3 DEF KeptView, Grows, Snapshot
  <2>5. GotView(t)'
    BY <2>1, <2>3 DEF GotView
  <2> QED BY <2>1, <2>4, <2>5, <1>4 DEF CallView, SeenView, StagedView
<1>9. ASSUME Put(t) PROVE CallView(t)'
  <2>1. pc'[t] = "replace" /\ UNCHANGED <<req, seen, got, retrieved, clock, version, kept>>
    BY <1>0, <1>9 DEF Put, Goto, TypeOK, worldVars
  <2>2. staged'[t] = [response |-> got[t], stored |-> clock, expires |-> Expiry(req[t], clock)]
    BY <1>0, <1>9 DEF Put, TypeOK
  <2>3. got[t].received <= retrieved[t] /\ retrieved[t] <= clock /\ got[t].version <= version
        /\ Snapshot(req[t], got[t], retrieved[t]) \in kept
        /\ (seen[t] # NoEntry => seen[t].response.version <= got[t].version)
    BY <1>0, <1>9 DEF Put, CallView, KeptView, GotView
  <2>4. KeptBefore(req[t], got[t], clock)
    BY <2>3 DEF KeptBefore, Snapshot
  <2>5. got[t].received <= clock
    BY <1>1, <2>3 DEF Grows
  <2>6. EntryOK(req[t], staged[t])'
    BY <2>1, <2>2, <2>3, <2>4, <2>5 DEF EntryOK, KeptBefore, Expiry, Grows
  <2>7. staged'[t] \in Entries'
    <3>1. Expiry(req[t], clock) \in Nat \cup {Forever}
      <4>1. req[t] \in Requests /\ clock \in Nat
        BY <1>0, <1>9 DEF Put, TypeOK, Grows
      <4> QED BY <4>1, ProviderAssumption DEF Expiry, Never
    <3>2. clock \in Instants
      BY <1>0 DEF TypeOK
    <3> QED BY <1>1, <2>2, <3>1, <3>2 DEF Entries
  <2>8. GotView(t)' /\ KeptView(t)'
    BY <2>1, <2>3, <2>5 DEF GotView, KeptView, Snapshot
  <2> QED BY <2>1, <2>2, <2>6, <2>7, <2>8, <1>4 DEF CallView, SeenView, StagedView
<1>10. ASSUME Leave(t) PROVE CallView(t)'
  BY <1>0, <1>10, LeftView
<1> QED BY <1>2, <1>3, <1>5, <1>6, <1>7, <1>8, <1>9, <1>10
        DEF CallStep, ReadFails, ChargeRefused, RespondFails, KeepFails, Publish, PublishFails,
            Fail, Conclude

\* What is handed out was kept first, and a hit was checked against its lifetime.
LEMMA OwnAnswerView ==
  ASSUME DataInv, Grows, NEW t \in Threads, CallStep(t) \/ \E r \in Requests : Begin(t, r)
  PROVE AnswerView(t)'
<1>0. TypeOK /\ CallView(t) /\ AnswerView(t)
  BY DEF DataInv
<1>1. ASSUME answer'[t] = answer[t] PROVE AnswerView(t)'
  BY <1>0, <1>1, SameAnswerView
<1>2. ASSUME Read(t) \/ Charge(t) \/ Respond(t) \/ Keep(t) \/ Put(t) \/ \E r \in Requests : Begin(t, r)
      PROVE AnswerView(t)'
  BY <1>1, <1>2 DEF Read, Charge, Respond, Keep, Put, Begin
<1>3. ASSUME Fail(t) PROVE AnswerView(t)'
  BY <1>0, <1>3, RaisedView DEF Fail
<1>4. ASSUME NEW x \in Responses, NEW s \in Instants, NEW a \in Instants, NEW c \in BOOLEAN,
             pc[t] # "idle", Conclude(t, x, s, a, c), x.received <= a,
             \E k \in kept' : /\ k.request = req[t] /\ k.version = x.version /\ k.good = x.good
                             /\ x.received <= k.at /\ k.at <= s,
             c /\ Lifetime[req[t]] # Forever => clock < s + Lifetime[req[t]]
      PROVE AnswerView(t)'
  <2>1. CASE x.good
    <3>1. answer'[t] = [outcome |-> "ok", request |-> req[t], response |-> x, stored |-> s,
                        at |-> a, cached |-> c, given |-> clock]
      BY <1>0, <1>4, <2>1 DEF Conclude, TypeOK
    <3>2. req[t] \in Requests
      BY <1>0, <1>4 DEF TypeOK
    <3> QED BY <1>4, <3>1, <3>2 DEF AnswerView, KeptBefore
  <2>2. CASE ~x.good
    BY <1>0, <1>4, <2>2, RaisedView DEF Conclude
  <2> QED BY <2>1, <2>2
<1>5. ASSUME Check(t) PROVE AnswerView(t)'
  <2>1. CASE Stale(seen[t])
    BY <1>1, <1>5, <2>1 DEF Check
  <2>2. CASE ~Stale(seen[t])
    <3>1. seen[t] \in Entries /\ EntryOK(req[t], seen[t]) /\ req[t] \in Requests
      BY <1>0, <1>5 DEF Check, CallView, SeenView, TypeOK
    <3>2. seen[t].response \in Responses /\ seen[t].stored \in Instants
      BY <3>1 DEF Entries
    <3>3. Lifetime[req[t]] # Forever => clock < seen[t].stored + Lifetime[req[t]]
      <4> SUFFICES ASSUME Lifetime[req[t]] # Forever
                   PROVE clock < seen[t].stored + Lifetime[req[t]]
        OBVIOUS
      <4>1. Lifetime[req[t]] \in Nat /\ seen[t].stored \in Nat /\ clock \in Nat
        BY <3>1, <3>2, ProviderAssumption DEF Grows, Instants
      <4>2. seen[t].expires = seen[t].stored + Lifetime[req[t]]
        BY <3>1 DEF EntryOK
      <4>3. seen[t].expires # Forever
        BY <4>1, <4>2, ProviderAssumption
      <4> QED BY <2>2, <4>1, <4>2, <4>3 DEF Stale, Never
    <3>4. UNCHANGED kept
      BY <1>5 DEF Check
    <3>5. KeptBefore(req[t], seen[t].response, seen[t].stored)
      BY <3>1 DEF EntryOK
    <3>6. \E k \in kept' : /\ k.request = req[t] /\ k.version = seen[t].response.version
                           /\ k.good = seen[t].response.good
                           /\ seen[t].response.received <= k.at /\ k.at <= seen[t].stored
      BY <3>4, <3>5 DEF KeptBefore
    <3>7. seen[t].response.received <= seen[t].stored
      BY <3>1 DEF EntryOK
    <3>8. Conclude(t, seen[t].response, seen[t].stored, seen[t].stored, TRUE) /\ pc[t] # "idle"
      BY <1>5, <2>2 DEF Check
    <3> QED BY <1>4, <3>2, <3>3, <3>6, <3>7, <3>8
  <2> QED BY <2>1, <2>2
<1>6. ASSUME Publish(t) PROVE AnswerView(t)'
  <2>1. got[t] \in Responses /\ retrieved[t] \in Instants /\ staged[t].stored \in Instants
        /\ staged[t].response = got[t] /\ EntryOK(req[t], staged[t])
    BY <1>0, <1>6 DEF Publish, CallView, StagedView, TypeOK, Entries
  <2>2. got[t].received <= retrieved[t]
    BY <1>0, <1>6 DEF Publish, CallView, KeptView
  <2>3. UNCHANGED kept
    BY <1>6 DEF Publish
  <2>4. \E k \in kept' : /\ k.request = req[t] /\ k.version = got[t].version
                         /\ k.good = got[t].good
                         /\ got[t].received <= k.at /\ k.at <= staged[t].stored
    BY <2>1, <2>3 DEF KeptBefore, EntryOK
  <2>5. Conclude(t, got[t], staged[t].stored, retrieved[t], FALSE) /\ pc[t] # "idle"
    BY <1>6 DEF Publish
  <2> QED BY <1>4, <2>1, <2>2, <2>4, <2>5
<1> QED BY <1>2, <1>3, <1>5, <1>6
        DEF CallStep, ReadFails, ChargeRefused, RespondFails, KeepFails, PublishFails

\* The cache holds what its calls staged, or nothing.
LEMMA CacheStep == ASSUME DataInv, Grows, [Next]_vars PROVE CacheView'
<1>0. TypeOK /\ CacheView /\ \A t \in Threads : CallView(t)
  BY DEF DataInv
<1> SUFFICES ASSUME NEW r \in Requests, entries'[r] # NoEntry PROVE EntryOK(r, entries[r])'
  BY DEF CacheView
<1>1. ASSUME entries'[r] = entries[r] PROVE EntryOK(r, entries[r])'
  <2>1. entries[r] \in Entries /\ EntryOK(r, entries[r])
    BY <1>0, <1>1 DEF CacheView, TypeOK
  <2> QED BY <1>1, <2>1, EntryStaysOK DEF EntryOK, KeptBefore, EntryOKNext
<1>2. ASSUME NEW t \in Threads, Publish(t), req[t] = r PROVE EntryOK(r, entries[r])'
  <2>1. entries'[r] = staged[t]
    BY <1>0, <1>2 DEF Publish, Replace, TypeOK
  <2>2. staged[t] \in Entries /\ EntryOK(r, staged[t])
    BY <1>0, <1>2 DEF Publish, CallView, StagedView
  <2> QED BY <2>1, <2>2, EntryStaysOK DEF EntryOK, KeptBefore, EntryOKNext
<1>3. ASSUME NEW t \in Threads, Publish(t), req[t] # r PROVE entries'[r] = entries[r]
  BY <1>0, <1>3 DEF Publish, Replace, TypeOK
<1>4. ASSUME NEW q \in Requests, Invalidate(q) PROVE entries'[r] = entries[r]
  BY <1>0, <1>4 DEF Invalidate, Unlink, TypeOK
<1>5. \/ entries'[r] = entries[r]
      \/ \E t \in Threads : Publish(t)
  BY <1>4 DEF Next, vars, Tick, ProviderUpdates, QuotaStatus, Begin, CallStep, Read,
     ReadFails, Check, Charge, ChargeRefused, Respond, RespondFails, Keep, KeepFails, Put,
     PublishFails
<1> QED BY <1>1, <1>2, <1>3, <1>5

\* The first invariant holds at first ...
LEMMA InitDataInv == Init => DataInv
<1> SUFFICES ASSUME Init PROVE DataInv
  OBVIOUS
<1>1. TypeOK
  BY InitTypeOK
<1>2. CacheView
  BY DEF Init, CacheView
<1>3. \A t \in Threads : CallView(t) /\ AnswerView(t)
  BY DEF Init, CallView, SeenView, GotView, KeptView, StagedView, AnswerView, NoResult
<1> QED BY <1>1, <1>2, <1>3 DEF DataInv

\* Only a charged call of a metered request is on its way to the provider.
ChargedCalls ==
  \A t \in Threads : pc[t] = "send" /\ req[t] \in Metered => charged[t] \in Days

LEMMA ChargedStep == ASSUME TypeOK, ChargedCalls, [Next]_vars PROVE ChargedCalls'
<1> SUFFICES ASSUME NEW u \in Threads, pc'[u] = "send", req'[u] \in Metered
             PROVE charged'[u] \in Days
  BY DEF ChargedCalls
<1>1. CASE UNCHANGED <<pc, localVars>>
  BY <1>1 DEF ChargedCalls, localVars
<1>2. ASSUME NEW t \in Threads, Charge(t) PROVE charged'[u] \in Days
  <2>1. day \in Days
    BY ProviderAssumption DEF TypeOK, Days, Instants
  <2> QED BY <1>2, <2>1 DEF Charge, Goto, TypeOK, ChargedCalls
<1>3. ASSUME NEW t \in Threads, Leave(t) PROVE charged'[u] \in Days
  BY <1>3 DEF Leave, Goto, TypeOK, ChargedCalls
<1>4. ASSUME NEW t \in Threads, Read(t) PROVE charged'[u] \in Days
  BY <1>4 DEF Read, Goto, FirstStepOfFetch, TypeOK, ChargedCalls
<1>5. ASSUME NEW t \in Threads, Check(t) PROVE charged'[u] \in Days
  BY <1>3, <1>5 DEF Check, Conclude, Goto, FirstStepOfFetch, TypeOK, ChargedCalls, localVars
<1>6. ASSUME NEW t \in Threads, Respond(t) \/ Keep(t) \/ Put(t) PROVE charged'[u] \in Days
  BY <1>6 DEF Respond, Keep, Put, Goto, TypeOK, ChargedCalls
<1>7. ASSUME NEW t \in Threads, NEW r \in Requests, Begin(t, r) PROVE charged'[u] \in Days
  BY <1>7 DEF Begin, Goto, TypeOK, ChargedCalls
<1> QED BY <1>1, <1>2, <1>3, <1>4, <1>5, <1>6, <1>7
        DEF Next, vars, Tick, ProviderUpdates, QuotaStatus, Invalidate, CallStep, ReadFails,
            ChargeRefused, RespondFails, KeepFails, Publish, PublishFails, Fail, Conclude

\* ... and every step keeps it.
LEMMA DataStep == ASSUME DataInv, ChargedCalls, [Next]_vars PROVE DataInv'
<1>0. TypeOK /\ (\A t \in Threads : CallView(t)) /\ (\A t \in Threads : AnswerView(t))
  BY DEF DataInv
<1>1. TypeOK'
  BY <1>0, TypeStep DEF CallView, SeenView, StagedView, ChargedCalls
<1>2. Grows
  BY <1>0, <1>1, StepGrows
<1>3. CacheView'
  BY <1>2, CacheStep
<1>4. ASSUME UNCHANGED <<pc, localVars, answer>>
      PROVE \A u \in Threads : CallView(u)' /\ AnswerView(u)'
  <2>1. \A u \in Threads : SameCall(u) /\ answer'[u] = answer[u]
    BY <1>4 DEF SameCall, localVars
  <2> QED BY <1>0, <1>2, <2>1, SameCallView, SameAnswerView
<1>5. ASSUME NEW t \in Threads, CallStep(t) \/ \E r \in Requests : Begin(t, r)
      PROVE \A u \in Threads : CallView(u)' /\ AnswerView(u)'
  <2>1. CallView(t)' /\ AnswerView(t)'
    BY <1>1, <1>2, <1>5, OwnCallView, OwnAnswerView
  <2>2. SameOthers(t)
    BY <1>0, <1>5, OthersAlone
  <2>3. \A u \in Threads \ {t} : CallView(u)' /\ AnswerView(u)'
    BY <1>0, <1>2, <2>2, SameCallView, SameAnswerView DEF SameOthers
  <2> QED BY <2>1, <2>3
<1>6. \A u \in Threads : CallView(u)' /\ AnswerView(u)'
  BY <1>4, <1>5 DEF Next, vars, Tick, ProviderUpdates, QuotaStatus, Invalidate
<1> QED BY <1>1, <1>3, <1>6 DEF DataInv

-----------------------------------------------------------------------------
(* From the quota to the transport *)

\* The calls that were charged to a day and have not reached the provider yet.
Charged(d) == {t \in Threads : pc[t] = "send" /\ req[t] \in Metered /\ charged[t] = d}

QuotaInv ==
  /\ quotaDay # 0 => reserved[quotaDay] = used
  /\ \A d \in Days : d > quotaDay => reserved[d] = 0
  /\ \A d \in Days : reserved[d] <= Budget
  /\ \A d \in Days : sent[d] + Cardinality(Charged(d)) <= reserved[d]

\* These sets are finite, so they can be counted.
LEMMA ChargedFinite ==
  \A d : IsFiniteSet(Charged(d)) /\ Cardinality(Charged(d)) \in Nat
<1>1. \A d : Charged(d) \subseteq Threads
  BY DEF Charged
<1> QED BY <1>1, ProviderAssumption, FS_Subset, FS_CardinalityType

\* Whoever leaves the set without a step of its own lowers the count.
LEMMA ChargedShrinks ==
  ASSUME NEW d, Charged(d)' \subseteq Charged(d)
  PROVE Cardinality(Charged(d)') <= Cardinality(Charged(d)) /\ Cardinality(Charged(d)') \in Nat
  BY ChargedFinite, FS_Subset, FS_CardinalityType

\* A step that touches neither the quota nor the transport keeps the accounts.
LEMMA QuietStep ==
  ASSUME TypeOK, QuotaInv, UNCHANGED <<reserved, sent>>,
         \/ UNCHANGED <<quotaDay, used>>
         \/ quotaDay' = day /\ used' = UsedToday,
         \A d \in Days : Charged(d)' \subseteq Charged(d)
  PROVE QuotaInv'
<1>1. \A d \in Days : sent'[d] + Cardinality(Charged(d)') <= reserved'[d]
  <2> SUFFICES ASSUME NEW d \in Days PROVE sent'[d] + Cardinality(Charged(d)') <= reserved'[d]
    OBVIOUS
  <2>1. sent[d] + Cardinality(Charged(d)) <= reserved[d] /\ sent[d] \in Nat /\ reserved[d] \in Nat
    BY DEF QuotaInv, TypeOK
  <2> QED BY <2>1, ChargedShrinks, ChargedFinite
<1>2. day \in Days /\ quotaDay <= day /\ quotaDay \in Nat
  BY ProviderAssumption DEF TypeOK, Days, Instants
<1>3. (quotaDay # 0 => reserved[quotaDay] = used)' /\ \A d \in Days : d > quotaDay' => reserved'[d] = 0
  BY <1>2 DEF QuotaInv, UsedToday, Days
<1> QED BY <1>1, <1>3 DEF QuotaInv

\* Every step of the system keeps the accounts.
LEMMA QuotaStep ==
  ASSUME TypeOK, TypeOK', ChargedCalls, QuotaInv, [Next]_vars PROVE QuotaInv'
<1>1. CASE UNCHANGED <<quotaVars, sent, pc, localVars>>
  <2>1. \A d \in Days : Charged(d)' = Charged(d)
    BY <1>1 DEF Charged, localVars
  <2> QED BY <1>1, <2>1, QuietStep DEF quotaVars
<1>2. ASSUME QuotaStatus PROVE QuotaInv'
  <2>1. \A d \in Days : Charged(d)' = Charged(d)
    BY <1>2 DEF QuotaStatus, Charged, localVars
  <2> QED BY <1>2, <2>1, QuietStep DEF QuotaStatus
<1>3. ASSUME NEW t \in Threads, Leave(t) PROVE \A d \in Days : Charged(d)' \subseteq Charged(d)
  BY <1>3 DEF Leave, Goto, Charged, TypeOK
<1>4. ASSUME NEW t \in Threads,
             ReadFails(t) \/ ChargeRefused(t) \/ KeepFails(t) \/ Publish(t) \/ PublishFails(t)
      PROVE QuotaInv'
  <2>1. Leave(t)
    BY <1>4 DEF ReadFails, ChargeRefused, KeepFails, Publish, PublishFails, Fail, Conclude
  <2>2. UNCHANGED <<reserved, sent>> /\ (UNCHANGED <<quotaDay, used>> \/ (quotaDay' = day /\ used' = UsedToday))
    BY <1>4 DEF ReadFails, ChargeRefused, KeepFails, Publish, PublishFails, quotaVars
  <2> QED BY <1>3, <2>1, <2>2, QuietStep
<1>5. ASSUME NEW t \in Threads, Check(t) \/ Read(t) \/ Keep(t) \/ Put(t) PROVE QuotaInv'
  <2>1. UNCHANGED <<reserved, sent, quotaDay, used>>
    BY <1>5 DEF Check, Read, Keep, Put, quotaVars
  <2>2. ASSUME Read(t) \/ Keep(t) \/ Put(t) PROVE \A d \in Days : Charged(d)' \subseteq Charged(d)
    BY <2>2 DEF Read, Keep, Put, Goto, FirstStepOfFetch, Charged, TypeOK
  <2>3. ASSUME Check(t) PROVE \A d \in Days : Charged(d)' \subseteq Charged(d)
    <3>1. CASE Leave(t)
      BY <1>3, <3>1
    <3>2. CASE Goto(t, FirstStepOfFetch(t)) /\ UNCHANGED <<localVars, answer>>
      BY <3>2 DEF Goto, FirstStepOfFetch, Charged, TypeOK, localVars
    <3> QED BY <2>3, <3>1, <3>2 DEF Check, Conclude
  <2> QED BY <1>5, <2>1, <2>2, <2>3, QuietStep
<1>6. ASSUME NEW t \in Threads, NEW r \in Requests, Begin(t, r) PROVE QuotaInv'
  <2>1. \A d \in Days : Charged(d)' \subseteq Charged(d)
    BY <1>6 DEF Begin, Goto, Charged, TypeOK
  <2> QED BY <1>6, <2>1, QuietStep DEF Begin, quotaVars
<1>7. ASSUME NEW t \in Threads, Charge(t) PROVE QuotaInv'
  <2>1. day \in Days /\ quotaDay <= day /\ quotaDay \in Nat /\ used \in Nat
    BY ProviderAssumption DEF TypeOK, Days, Instants
  <2>2. UsedToday = reserved[day] /\ UsedToday < Budget
    BY <1>7, <2>1 DEF Charge, UsedToday, QuotaInv, Days
  <2>3. reserved' = [reserved EXCEPT ![day] = @ + 1] /\ quotaDay' = day /\ used' = UsedToday + 1
        /\ UNCHANGED sent
    BY <1>7 DEF Charge
  <2>4. \A d \in Days : reserved'[d] <= Budget /\ (d > quotaDay' => reserved'[d] = 0)
    BY <2>1, <2>2, <2>3, ProviderAssumption DEF QuotaInv, TypeOK, Days
  <2>5. quotaDay' # 0 => reserved'[quotaDay'] = used'
    BY <2>1, <2>2, <2>3 DEF TypeOK
  <2>6. ASSUME NEW d \in Days PROVE sent'[d] + Cardinality(Charged(d)') <= reserved'[d]
    <3>0. sent[d] + Cardinality(Charged(d)) <= reserved[d] /\ sent[d] \in Nat /\ reserved[d] \in Nat
      BY DEF QuotaInv, TypeOK
    <3>1. CASE d = day
      <4>1. Charged(d)' \subseteq Charged(d) \cup {t}
        BY <1>7 DEF Charge, Goto, Charged, TypeOK
      <4>2. IsFiniteSet(Charged(d) \cup {t}) /\ Cardinality(Charged(d) \cup {t}) <= Cardinality(Charged(d)) + 1
            /\ Cardinality(Charged(d) \cup {t}) \in Nat
        <5>1. IsFiniteSet(Charged(d)) /\ Cardinality(Charged(d)) \in Nat
          BY ChargedFinite
        <5>2. IsFiniteSet(Charged(d) \cup {t})
              /\ (Cardinality(Charged(d) \cup {t}) = Cardinality(Charged(d))
                  \/ Cardinality(Charged(d) \cup {t}) = Cardinality(Charged(d)) + 1)
          BY <5>1, FS_AddElement
        <5> QED BY <5>1, <5>2
      <4>3. Cardinality(Charged(d)') <= Cardinality(Charged(d) \cup {t}) /\ Cardinality(Charged(d)') \in Nat
        BY <4>1, <4>2, FS_Subset, FS_CardinalityType
      <4>4. reserved'[d] = reserved[d] + 1
        BY <2>3, <3>1 DEF TypeOK
      <4> QED BY <2>3, <3>0, <4>2, <4>3, <4>4, ChargedFinite
    <3>2. CASE d # day
      <4>1. Charged(d)' \subseteq Charged(d)
        BY <1>7, <3>2 DEF Charge, Goto, Charged, TypeOK
      <4>2. reserved'[d] = reserved[d]
        BY <2>3, <3>2 DEF TypeOK
      <4> QED BY <2>3, <3>0, <4>1, <4>2, ChargedShrinks, ChargedFinite
    <3> QED BY <3>1, <3>2
  <2> QED BY <2>4, <2>5, <2>6 DEF QuotaInv
<1>8. ASSUME NEW t \in Threads, Respond(t) \/ RespondFails(t) PROVE QuotaInv'
  <2>1. pc[t] = "send" /\ pc'[t] # "send" /\ CountSent(t) /\ UNCHANGED <<quotaDay, used, reserved>>
    BY <1>8 DEF Respond, RespondFails, Fail, Leave, Goto, TypeOK, quotaVars
  <2>2. \A u \in Threads \ {t} : pc'[u] = pc[u] /\ req'[u] = req[u] /\ charged'[u] = charged[u]
    BY <1>8 DEF Respond, RespondFails, Fail, Leave, Goto, TypeOK
  <2>3. \A d \in Days : Charged(d)' = Charged(d) \ {t}
    BY <2>1, <2>2 DEF Charged
  <2>4. ASSUME NEW d \in Days PROVE sent'[d] + Cardinality(Charged(d)') <= reserved'[d]
    <3>0. sent[d] + Cardinality(Charged(d)) <= reserved[d] /\ sent[d] \in Nat /\ reserved[d] \in Nat
      BY DEF QuotaInv, TypeOK
    <3>1. CASE req[t] \in Metered /\ charged[t] = d
      <4>1. t \in Charged(d)
        BY <2>1, <3>1 DEF Charged
      <4>2. Cardinality(Charged(d)') = Cardinality(Charged(d)) - 1
        BY <2>3, <4>1, ChargedFinite, FS_RemoveElement
      <4>3. sent'[d] = sent[d] + 1
        BY <2>1, <3>1 DEF CountSent, TypeOK
      <4> QED BY <2>1, <3>0, <4>2, <4>3, ChargedFinite
    <3>2. CASE ~(req[t] \in Metered /\ charged[t] = d)
      <4>1. sent'[d] = sent[d]
        BY <2>1, <3>2 DEF CountSent, TypeOK, ChargedCalls
      <4>2. Charged(d)' \subseteq Charged(d)
        BY <2>3
      <4> QED BY <2>1, <3>0, <4>1, <4>2, ChargedShrinks, ChargedFinite
    <3> QED BY <3>1, <3>2
  <2> QED BY <2>1, <2>4 DEF QuotaInv
<1> QED BY <1>1, <1>2, <1>4, <1>5, <1>6, <1>7, <1>8
        DEF Next, vars, Tick, ProviderUpdates, Invalidate, CallStep

-----------------------------------------------------------------------------
(* The theorems *)

IInv == DataInv /\ ChargedCalls /\ QuotaInv

\* Nothing was charged at first.
LEMMA InitIInv == Init => IInv
<1> SUFFICES ASSUME Init PROVE IInv
  OBVIOUS
<1>1. \A d \in Days : Charged(d) = {}
  BY DEF Init, Charged
<1>2. QuotaInv
  <2>1. \A d \in Days : reserved[d] = 0 /\ sent[d] = 0 /\ Cardinality(Charged(d)) = 0
    BY <1>1, FS_EmptySet DEF Init
  <2>2. quotaDay = 0
    BY DEF Init
  <2> QED BY <2>1, <2>2, ProviderAssumption DEF QuotaInv
<1>3. ChargedCalls
  BY DEF Init, ChargedCalls
<1> QED BY <1>2, <1>3, InitDataInv DEF IInv

\* Both invariants together are inductive.
LEMMA StepIInv == IInv /\ [Next]_vars => IInv'
<1> SUFFICES ASSUME IInv, [Next]_vars PROVE IInv'
  OBVIOUS
<1>1. TypeOK /\ DataInv /\ ChargedCalls /\ QuotaInv
  BY DEF IInv, DataInv
<1>2. DataInv' /\ TypeOK'
  BY <1>1, DataStep DEF DataInv
<1>3. ChargedCalls' /\ QuotaInv'
  BY <1>1, <1>2, ChargedStep, QuotaStep
<1> QED BY <1>2, <1>3 DEF IInv

LEMMA AlwaysIInv == Spec => []IInv
  BY InitIInv, StepIInv, PTL DEF Spec

\* The variables keep their types, the quota's count within the budget.
THEOREM TypeCorrect == Spec => []TypeOK
<1>1. IInv => TypeOK
  BY DEF IInv, DataInv
<1> QED BY <1>1, AlwaysIInv, PTL

\* Cached and answered data was kept as raw evidence first.
THEOREM EvidenceComesFirst == Spec => []EvidenceFirst
<1>1. IInv => EvidenceFirst
  BY DEF IInv, DataInv, CacheView, EntryOK, AnswerView, EvidenceFirst
<1> QED BY <1>1, AlwaysIInv, PTL

\* No day's budget is exceeded, by charges or by calls.
THEOREM BudgetHolds == Spec => []DailyBudget
<1>1. ASSUME IInv, NEW d \in Days PROVE sent[d] <= reserved[d] /\ reserved[d] <= Budget
  <2>1. sent[d] + Cardinality(Charged(d)) <= reserved[d] /\ sent[d] \in Nat /\ reserved[d] \in Nat
    BY <1>1 DEF IInv, DataInv, QuotaInv, TypeOK
  <2>2. reserved[d] <= Budget
    BY <1>1 DEF IInv, QuotaInv
  <2> QED BY <2>1, <2>2, ChargedFinite
<1>2. IInv => DailyBudget
  BY <1>1 DEF DailyBudget
<1> QED BY <1>2, AlwaysIInv, PTL

\* No result is dated before its data was received.
THEOREM ResultsNotBackdated == Spec => []NeverBackdated
<1>1. IInv => NeverBackdated
  BY DEF IInv, DataInv, AnswerView, NeverBackdated
<1> QED BY <1>1, AlwaysIInv, PTL

\* No hit is served at or after its expiry.
THEOREM HitsAreFresh == Spec => []HitsWithinLifetime
<1>1. IInv => HitsWithinLifetime
  BY DEF IInv, DataInv, AnswerView, HitsWithinLifetime
<1> QED BY <1>1, AlwaysIInv, PTL

\* Only what overlapped a fetch can be replaced by something older.
THEOREM OlderOverOverlapping == Spec => OlderOnlyOverOverlapping
<1> DEFINE Step ==
      \A r \in Requests :
        /\ entries[r] # NoEntry /\ entries'[r] # NoEntry
        /\ entries'[r].response.version < entries[r].response.version
        => \E t \in Threads : pc[t] = "replace" /\ req[t] = r /\ seen[t] # entries[r]
<1>1. ASSUME IInv, Next PROVE Step
  <2> SUFFICES ASSUME NEW r \in Requests, entries[r] # NoEntry, entries'[r] # NoEntry,
                      entries'[r].response.version < entries[r].response.version
               PROVE \E t \in Threads : pc[t] = "replace" /\ req[t] = r /\ seen[t] # entries[r]
    OBVIOUS
  <2>1. entries[r].response.version \in Nat
    BY <1>1, ProviderAssumption DEF IInv, DataInv, TypeOK, Entries, Responses, Versions
  <2>2. entries'[r] # entries[r]
    BY <2>1
  <2>3. ASSUME NEW q \in Requests, Invalidate(q) PROVE FALSE
    BY <1>1, <2>2, <2>3 DEF Invalidate, Unlink, IInv, DataInv, TypeOK
  <2>4. PICK t \in Threads : Publish(t)
    BY <1>1, <2>2, <2>3 DEF Next, Tick, ProviderUpdates, QuotaStatus, Begin, CallStep, Read,
       ReadFails, Check, Charge, ChargeRefused, Respond, RespondFails, Keep, KeepFails, Put,
       PublishFails
  <2>5. req[t] = r /\ entries'[r] = staged[t] /\ pc[t] = "replace"
    BY <1>1, <2>2, <2>4 DEF Publish, Replace, IInv, DataInv, TypeOK
  <2>6. staged[t].response = got[t] /\ (seen[t] # NoEntry => seen[t].response.version <= got[t].version)
    BY <1>1, <2>5 DEF IInv, DataInv, CallView, StagedView, GotView
  <2>7. got[t].version \in Nat
    BY <1>1, ProviderAssumption DEF IInv, DataInv, TypeOK, Responses, Versions
  <2> QED BY <2>1, <2>5, <2>6, <2>7
<1>2. IInv /\ [Next]_vars => [Step]_vars
  BY <1>1
<1>3. Spec => [][Step]_vars
  BY <1>2, AlwaysIInv, PTL DEF Spec
<1> QED BY <1>3 DEF OlderOnlyOverOverlapping
=============================================================================
