----------------------------- MODULE ProviderFetch -----------------------------
(***************************************************************************)
(* The read path the provider adapters share (providers/fpl_api.py,        *)
(* api_football.py, the_odds_api.py, football_data.py, statsbomb_open.py,  *)
(* vaastav.py, fplcache.py): HttpCache.get_or_fetch around a fetch that    *)
(* charges the local quota, calls the provider, keeps the exact bytes in   *)
(* the raw store and only then lets the cache publish them; whatever came  *)
(* back, from the network or from the cache, is parsed last.               *)
(*                                                                         *)
(* Threads call the adapters concurrently over one cache, one raw store    *)
(* and one quota.  The cache's lock is held for a file operation only, so  *)
(* every step of another call may fall between two steps of a call.  The   *)
(* raw store is taken at its contract (RawEvidence): a snapshot identity   *)
(* is kept once, and a store may raise before or after it is kept.         *)
(***************************************************************************)
EXTENDS HttpCache, FiniteSets

CONSTANTS
  Threads,     \* callers
  Metered,     \* requests of API-Football, which are charged to the quota
  Budget,      \* daily_request_budget
  NoRequest,   \* no call in progress
  MaxClock,    \* bound: instants
  MaxVersion,  \* bound: changes of the providers' data
  MaxCalls     \* bound: calls begun

ASSUME ProviderAssumption ==
  /\ Metered \subseteq Requests
  /\ NoRequest \notin Requests
  /\ Forever \notin Nat
  /\ Lifetime \in [Requests -> Nat \cup {Forever}]
  /\ Budget \in Nat \ {0}
  /\ MaxClock \in Nat /\ MaxVersion \in Nat /\ MaxCalls \in Nat
  /\ IsFiniteSet(Threads)

VARIABLES
  day,         \* the clock's UTC date
  version,     \* how often the providers' data has changed
  kept,        \* the raw snapshots that verify
  quotaDay,    \* the quota's _day; 0 before its first use
  used,        \* the quota's _used
  pc, req,     \* per thread: next step and request of its call
  calls,       \* calls begun
  seen,        \* per thread: the file its lookup read
  got,         \* per thread: the response it received
  retrieved,   \* per thread: retrieved_at of its raw snapshot
  staged,      \* per thread: the archive it is about to publish
  answer,      \* per thread: how its last call ended
  charged,     \* per thread: the day its request was charged to
  reserved,    \* per day: requests charged to it
  sent         \* per day: transport calls that were charged to it

worldVars == <<clock, day, version>>
quotaVars == <<quotaDay, used, reserved>>
localVars == <<req, seen, got, retrieved, staged, charged>>
vars == <<worldVars, entries, kept, quotaVars, sent, calls, pc, localVars, answer>>

-----------------------------------------------------------------------------
Days == 1..(MaxClock + 1)
Instants == 0..MaxClock
Versions == 0..MaxVersion

\* A response: which state of the provider's data it shows, whether the adapter
\* accepts it (it parses, has the root shape, reports no error, is no later
\* snapshot than was asked for), and when it was received.
Responses == [version : Versions, good : BOOLEAN, received : Instants]

Entries == [response : Responses, stored : Instants, expires : Nat \cup {Forever}]

\* Identity of a raw snapshot: request, bytes and retrieved_at.
Snapshots == [request : Requests, version : Versions, good : BOOLEAN, at : Instants]

Snapshot(r, x, at) == [request |-> r, version |-> x.version, good |-> x.good, at |-> at]

Steps == {"read", "check", "charge", "send", "keep", "put", "replace"}

Outcomes == {"none", "ok", "raised"}

Answers == [outcome : Outcomes, request : Requests \cup {NoRequest},
            response : Responses, stored : Instants, at : Instants,
            cached : BOOLEAN, given : Instants]

NoResponse == [version |-> 0, good |-> FALSE, received |-> 0]

NoResult(outcome) ==
  [outcome |-> outcome, request |-> NoRequest, response |-> NoResponse,
   stored |-> 0, at |-> 0, cached |-> FALSE, given |-> 0]

TypeOK ==
  /\ clock \in Instants /\ day \in 1..(clock + 1) /\ version \in Versions
  /\ entries \in [Requests -> Entries \cup {NoEntry}]
  /\ kept \subseteq Snapshots
  /\ quotaDay \in 0..day /\ used \in 0..Budget
  /\ charged \in [Threads -> {0} \cup Days]
  /\ reserved \in [Days -> Nat] /\ sent \in [Days -> Nat]
  /\ pc \in [Threads -> Steps \cup {"idle"}]
  /\ req \in [Threads -> Requests \cup {NoRequest}]
  /\ \A t \in Threads : pc[t] # "idle" => req[t] \in Requests
  /\ calls \in Nat
  /\ seen \in [Threads -> Entries \cup {NoEntry}]
  /\ got \in [Threads -> Responses]
  /\ retrieved \in [Threads -> Instants]
  /\ staged \in [Threads -> Entries \cup {NoEntry}]
  /\ answer \in [Threads -> Answers]

Init ==
  /\ clock = 0 /\ day = 1 /\ version = 0
  /\ entries = [r \in Requests |-> NoEntry]
  /\ kept = {}
  /\ quotaDay = 0 /\ used = 0
  /\ charged = [t \in Threads |-> 0]
  /\ reserved = [d \in Days |-> 0]
  /\ sent = [d \in Days |-> 0]
  /\ pc = [t \in Threads |-> "idle"]
  /\ req = [t \in Threads |-> NoRequest]
  /\ calls = 0
  /\ seen = [t \in Threads |-> NoEntry]
  /\ got = [t \in Threads |-> NoResponse]
  /\ retrieved = [t \in Threads |-> 0]
  /\ staged = [t \in Threads |-> NoEntry]
  /\ answer = [t \in Threads |-> NoResult("none")]

-----------------------------------------------------------------------------
(* The world: time, and what the providers would answer *)

\* The UTC date may change with any instant; it never goes back.
Tick ==
  /\ clock < MaxClock
  /\ clock' = clock + 1
  /\ day' \in {day, day + 1}
  /\ UNCHANGED <<version, entries, kept, quotaVars, sent, calls, pc, localVars, answer>>

ProviderUpdates ==
  /\ version < MaxVersion
  /\ version' = version + 1
  /\ UNCHANGED <<clock, day, entries, kept, quotaVars, sent, calls, pc, localVars, answer>>

-----------------------------------------------------------------------------
(* The steps of a call *)

Goto(t, step) == pc' = [pc EXCEPT ![t] = step]

\* What a call knew is gone when it returns or raises.
Leave(t) ==
  /\ Goto(t, "idle")
  /\ req' = [req EXCEPT ![t] = NoRequest]
  /\ seen' = [seen EXCEPT ![t] = NoEntry]
  /\ got' = [got EXCEPT ![t] = NoResponse]
  /\ retrieved' = [retrieved EXCEPT ![t] = 0]
  /\ staged' = [staged EXCEPT ![t] = NoEntry]
  /\ charged' = [charged EXCEPT ![t] = 0]

\* The adapter raises; nothing else is undone and no older entry is served.
Fail(t) ==
  /\ Leave(t)
  /\ answer' = [answer EXCEPT ![t] = NoResult("raised")]

\* The end of every adapter's read: the body is parsed and checked, and the
\* result says when its data was obtained: its own raw snapshot's time after a
\* fetch, the entry's publication time after a hit.
Conclude(t, x, storedAt, at, cached) ==
  /\ Leave(t)
  /\ answer' = [answer EXCEPT ![t] =
       IF x.good
       THEN [outcome |-> "ok", request |-> req[t], response |-> x, stored |-> storedAt,
             at |-> at, cached |-> cached, given |-> clock]
       ELSE NoResult("raised")]

Begin(t, r) ==
  /\ pc[t] = "idle"
  /\ calls < MaxCalls
  /\ calls' = calls + 1
  /\ Goto(t, "read")
  /\ req' = [req EXCEPT ![t] = r]
  /\ UNCHANGED <<worldVars, entries, kept, quotaVars, sent, seen, got, retrieved, staged,
                 charged, answer>>

\* The fetch begins with the quota when the provider has one.
FirstStepOfFetch(t) == IF req[t] \in Metered THEN "charge" ELSE "send"

\* get: the file is read under the lock.
Read(t) ==
  /\ pc[t] = "read"
  /\ seen' = [seen EXCEPT ![t] = entries[req[t]]]
  /\ Goto(t, IF entries[req[t]] = NoEntry THEN FirstStepOfFetch(t) ELSE "check")
  /\ UNCHANGED <<worldVars, entries, kept, quotaVars, sent, calls, req, got, retrieved,
                 staged, charged, answer>>

\* The file cannot be read, or its archive, identity or checksum is refused.
ReadFails(t) ==
  /\ pc[t] \in {"read", "check"}
  /\ Fail(t)
  /\ UNCHANGED <<worldVars, entries, kept, quotaVars, sent, calls>>

\* Only then is the clock read: HIT_FRESH is served, HIT_STALE is fetched again.
Check(t) ==
  /\ pc[t] = "check"
  /\ IF Stale(seen[t])
     THEN Goto(t, FirstStepOfFetch(t)) /\ UNCHANGED <<localVars, answer>>
     ELSE Conclude(t, seen[t].response, seen[t].stored, seen[t].stored, TRUE)
  /\ UNCHANGED <<worldVars, entries, kept, quotaVars, sent, calls>>

\* consume_network_request, under the quota's lock: a new date resets the count.
UsedToday == IF quotaDay = day THEN used ELSE 0

\* Defects: the count may reach one more than the budget, or is read and written
\* back without the lock.
Charge_OffByOne(t) ==
  /\ pc[t] = "charge"
  /\ UsedToday <= Budget
  /\ quotaDay' = day
  /\ used' = UsedToday + 1
  /\ reserved' = [reserved EXCEPT ![day] = @ + 1]
  /\ charged' = [charged EXCEPT ![t] = day]
  /\ Goto(t, "send")
  /\ UNCHANGED <<worldVars, entries, kept, sent, calls, req, seen, got, retrieved, staged,
                 answer>>

Charge_Unlocked(t) ==
  /\ pc[t] = "charge"
  /\ UsedToday < Budget
  /\ quotaDay' = day
  /\ used' \in {UsedToday, UsedToday + 1}
  /\ reserved' = [reserved EXCEPT ![day] = @ + 1]
  /\ charged' = [charged EXCEPT ![t] = day]
  /\ Goto(t, "send")
  /\ UNCHANGED <<worldVars, entries, kept, sent, calls, req, seen, got, retrieved, staged,
                 answer>>

Charge(t) ==
  /\ pc[t] = "charge"
  /\ UsedToday < Budget
  /\ quotaDay' = day
  /\ used' = UsedToday + 1
  /\ reserved' = [reserved EXCEPT ![day] = @ + 1]
  /\ charged' = [charged EXCEPT ![t] = day]
  /\ Goto(t, "send")
  /\ UNCHANGED <<worldVars, entries, kept, sent, calls, req, seen, got, retrieved, staged,
                 answer>>

ChargeRefused(t) ==
  /\ pc[t] = "charge"
  /\ UsedToday >= Budget
  /\ quotaDay' = day /\ used' = UsedToday
  /\ Fail(t)
  /\ UNCHANGED <<worldVars, entries, kept, reserved, sent, calls>>

\* quota_status, asked by anybody at any time, resets the count as well.
QuotaStatus ==
  /\ quotaDay' = day /\ used' = UsedToday
  /\ UNCHANGED <<worldVars, entries, kept, reserved, sent, calls, pc, localVars, answer>>

\* A transport call of a metered request counts for the day it was charged to.
CountSent(t) ==
  sent' = IF req[t] \in Metered THEN [sent EXCEPT ![charged[t]] = @ + 1] ELSE sent

\* Defect: the adapter hands out the response of this thread's last call again.
ResponseNow_Memoised(t, good) ==
  IF answer[t].request = req[t] THEN answer[t].response
  ELSE [version |-> version, good |-> good, received |-> clock]

\* The body is what the provider has at that moment.
ResponseNow(t, good) == [version |-> version, good |-> good, received |-> clock]

\* client.get returns a 2xx.
Respond(t) ==
  /\ pc[t] = "send"
  /\ \E good \in BOOLEAN : got' = [got EXCEPT ![t] = ResponseNow(t, good)]
  /\ CountSent(t)
  /\ Goto(t, "keep")
  /\ UNCHANGED <<worldVars, entries, kept, quotaVars, calls, req, seen, retrieved, staged,
                 charged, answer>>

\* Timeout, transport error or another status: the charge is not given back.
RespondFails(t) ==
  /\ pc[t] = "send"
  /\ CountSent(t)
  /\ Fail(t)
  /\ UNCHANGED <<worldVars, entries, kept, quotaVars, calls>>

\* Defect: a response that could not be kept is cached all the same.
Keep_BestEffort(t) ==
  /\ pc[t] = "keep"
  /\ kept' \in {kept, kept \cup {Snapshot(req[t], got[t], clock)}}
  /\ retrieved' = [retrieved EXCEPT ![t] = clock]
  /\ Goto(t, "put")
  /\ UNCHANGED <<worldVars, entries, quotaVars, sent, calls, req, seen, got, staged,
                 charged, answer>>

\* store_bytes of the exact body, retrieved_at the clock's time.
Keep(t) ==
  LET s == Snapshot(req[t], got[t], clock) IN
  /\ pc[t] = "keep"
  /\ s \notin kept
  /\ kept' = kept \cup {s}
  /\ retrieved' = [retrieved EXCEPT ![t] = clock]
  /\ Goto(t, "put")
  /\ UNCHANGED <<worldVars, entries, quotaVars, sent, calls, req, seen, got, staged,
                 charged, answer>>

\* The same bytes were kept at this instant already (RawSnapshotExistsError), or
\* the store raises, before the snapshot is complete or after.
KeepFails(t) ==
  /\ pc[t] = "keep"
  /\ kept' \in {kept, kept \cup {Snapshot(req[t], got[t], clock)}}
  /\ Fail(t)
  /\ UNCHANGED <<worldVars, entries, quotaVars, sent, calls>>

\* Defect: a refreshed entry keeps the time it was first stored at.
Put_KeepsFirstTime(t) ==
  /\ pc[t] = "put"
  /\ staged' = [staged EXCEPT ![t] =
       [response |-> got[t],
        stored |-> IF seen[t] = NoEntry THEN clock ELSE seen[t].stored,
        expires |-> Expiry(req[t], clock)]]
  /\ Goto(t, "replace")
  /\ UNCHANGED <<worldVars, entries, kept, quotaVars, sent, calls, req, seen, got,
                 retrieved, charged, answer>>

\* put: the time of publication is taken before the archive is written.
Put(t) ==
  /\ pc[t] = "put"
  /\ staged' = [staged EXCEPT ![t] =
       [response |-> got[t], stored |-> clock, expires |-> Expiry(req[t], clock)]]
  /\ Goto(t, "replace")
  /\ UNCHANGED <<worldVars, entries, kept, quotaVars, sent, calls, req, seen, got,
                 retrieved, charged, answer>>

\* _publish replaces whatever entry there is by now.
Publish(t) ==
  /\ pc[t] = "replace"
  /\ Replace(req[t], staged[t])
  /\ Conclude(t, got[t], staged[t].stored, retrieved[t], FALSE)
  /\ UNCHANGED <<worldVars, kept, quotaVars, sent, calls>>

\* It raises OSError: the staged file is unlinked, the entry stays.
PublishFails(t) ==
  /\ pc[t] \in {"put", "replace"}
  /\ Fail(t)
  /\ UNCHANGED <<worldVars, entries, kept, quotaVars, sent, calls>>

-----------------------------------------------------------------------------
\* Any thread may drop an entry, also one that is being fetched.
Invalidate(r) ==
  /\ Unlink(r)
  /\ UNCHANGED <<worldVars, kept, quotaVars, sent, calls, pc, localVars, answer>>

CallStep(t) ==
  \/ Read(t) \/ ReadFails(t) \/ Check(t)
  \/ Charge(t) \/ ChargeRefused(t)
  \/ Respond(t) \/ RespondFails(t)
  \/ Keep(t) \/ KeepFails(t)
  \/ Put(t) \/ Publish(t) \/ PublishFails(t)

Next ==
  \/ Tick \/ ProviderUpdates \/ QuotaStatus
  \/ \E r \in Requests : Invalidate(r)
  \/ \E t \in Threads : CallStep(t) \/ \E r \in Requests : Begin(t, r)

Spec == Init /\ [][Next]_vars

-----------------------------------------------------------------------------
(* Properties *)

\* Whatever the cache holds, and whatever a caller was given, was kept as raw
\* evidence of the same request and bytes first, at a time between its receipt
\* and its publication: a hit can always name the snapshot its data came from,
\* as the player-history acquisition does, whichever calls overlapped or failed.
KeptBefore(r, x, at) ==
  \E s \in kept : /\ s.request = r /\ s.version = x.version /\ s.good = x.good
                  /\ x.received <= s.at /\ s.at <= at
EvidenceFirst ==
  /\ \A r \in Requests :
       entries[r] # NoEntry => KeptBefore(r, entries[r].response, entries[r].stored)
  /\ \A t \in Threads :
       answer[t].outcome = "ok" =>
         KeptBefore(answer[t].request, answer[t].response, answer[t].stored)

\* No day's charged requests exceed the budget, and no transport call of a metered
\* request is made without a charge, whichever threads meet the date change.
DailyBudget == \A d \in Days : sent[d] <= reserved[d] /\ reserved[d] <= Budget

\* The time a result gives for its data is never earlier than the receipt of the
\* bytes: data cannot pass for known at a prediction time it was not known at.
NeverBackdated ==
  \A t \in Threads : answer[t].outcome = "ok" => answer[t].response.received <= answer[t].at

\* A hit is served strictly within its lifetime, although the file is read before
\* the clock: with ttl 0 a response is never served twice.
HitsWithinLifetime ==
  \A t \in Threads :
    answer[t].cached /\ Lifetime[answer[t].request] # Forever =>
      answer[t].given < answer[t].stored + Lifetime[answer[t].request]

\* A fetch may publish an older response over a newer one, but only over one that
\* another call published after this call's lookup.
OlderOnlyOverOverlapping ==
  [][\A r \in Requests :
       /\ entries[r] # NoEntry /\ entries'[r] # NoEntry
       /\ entries'[r].response.version < entries[r].response.version
       => \E t \in Threads : pc[t] = "replace" /\ req[t] = r /\ seen[t] # entries[r]]_vars

=============================================================================
