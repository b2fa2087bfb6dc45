------------------------ MODULE ManualComparator_proofs ------------------------
(***************************************************************************)
(* Proofs about the comparator tab, its workers and the scenario file for  *)
(* any packages, contexts, clients and numbers of workers and commands.    *)
(* The invariant says of the pipes that no command is answered twice, of   *)
(* the tab that an answer still to come for the present selection finds it *)
(* neither enabled nor busy, and of the store that what a client read is   *)
(* as sound as the file was.  With what the rules accept                   *)
(* (SquadRules_proofs) this says what an evaluation on the tab can be.     *)
(***************************************************************************)
EXTENDS ManualEngine, SquadRules_proofs, TLAPS

\* Rows that could be the file's.
Sound(rows) ==
  /\ \A r, s \in rows : r.id = s.id \/ SameKey(r, s) => r = s
  /\ \A r \in rows : Belongs(r.result, r.context, r.package) /\ r.id \in 1..identities

SoundOperation(o) ==
  o.op = "save" => /\ Belongs(o.row.result, o.row.context, o.row.package)
                   /\ o.row.id \in 0..identities

StoreInv ==
  /\ StoreTypeOK
  /\ Sound(scenarios)
  /\ \A c \in Clients : Sound(loaded[c])
  /\ \A c \in Clients : pending[c] # NoOperation => SoundOperation(pending[c])

\* The pipes of a worker when so many ids have been given out.
Orderly(w, given) ==
  /\ \A i \in DOMAIN w.inbox : w.inbox[i].id \in 1..given
  /\ \A i \in DOMAIN w.outbox : w.outbox[i].id \in 0..given
  /\ \A i, j \in DOMAIN w.inbox : w.inbox[i].id = w.inbox[j].id => i = j
  /\ \A i, j \in DOMAIN w.outbox :
       w.outbox[i].id = w.outbox[j].id /\ w.outbox[i].id # NoCommand => i = j
  /\ \A i \in DOMAIN w.inbox, j \in DOMAIN w.outbox : w.inbox[i].id # w.outbox[j].id

\* What its lines say of its context.
Truthful(w) ==
  /\ w.state \in {"starting", "running"} => w.context \in Contexts
  /\ w.state = "starting" => w.inbox = <<>> /\ w.outbox = <<>>
  /\ \A i \in DOMAIN w.outbox :
       w.outbox[i].kind = "ready" => w.outbox[i].context = w.context /\ w.context \in Contexts
  /\ \A i \in DOMAIN w.outbox :
       w.outbox[i].kind = "validation" =>
         /\ w.outbox[i].id # NoCommand
         /\ w.outbox[i].context \in Contexts
         /\ w.outbox[i].valid => <<w.outbox[i].context, w.outbox[i].package>> \in Legal
  /\ \A i \in DOMAIN w.outbox :
       w.outbox[i].kind = "result" => <<w.outbox[i].context, w.outbox[i].package>> \in Legal

PipesInv == \A n \in Loads : Orderly(workers[n], commands) /\ Truthful(workers[n])

\* A validation that is still to be answered is of the ticked selection and finds
\* the tab neither enabled nor busy.
Asked(w) ==
  /\ \A i \in DOMAIN w.inbox :
       w.inbox[i].id = validation => w.inbox[i].package = package /\ ~valid /\ ~busy
  /\ \A i \in DOMAIN w.outbox :
       w.outbox[i].kind = "validation" /\ w.outbox[i].id = validation =>
         w.outbox[i].package = package /\ ~valid /\ ~busy

\* What is shown was evaluated, and the engine evaluates legal packages only.
ShownIsLegal == result # NoResult => <<result.context, result.package>> \in Legal

TabInv ==
  /\ ValidatedPackage
  /\ ShownIsCurrent
  /\ BusyIsTimed
  /\ ShownIsLegal
  /\ validation <= commands
  /\ context # NoContext => workers[current].state # "starting"
  /\ debounce => validation = NoCommand /\ ~valid
  /\ current # NoWorker => Asked(workers[current])

TabTypeOK ==
  /\ world \in Worlds
  /\ current \in 0..loads /\ fingerprint \in {0} \cup Worlds
  /\ context \in {NoContext} \cup Contexts
  /\ package \in Selections
  /\ busy \in BOOLEAN /\ valid \in BOOLEAN /\ timer \in BOOLEAN /\ debounce \in BOOLEAN
  /\ validation \in CommandIds /\ evaluation \in CommandIds
  /\ result \in Results \cup {NoResult}
  /\ baseline \in {NoContext} \cup Contexts
  /\ scenario \in 0..identities

PipesTypeOK ==
  /\ loads \in 0..MaxLoads
  /\ workers \in [Loads -> Workers]
  /\ commands \in CommandIds

Rest == PipesTypeOK /\ TabTypeOK /\ PipesInv /\ TabInv

IInv == StoreInv /\ Rest

-----------------------------------------------------------------------------
(* The store *)

\* An operation that is no save has a sound effect on what it read.
LEMMA KeptRows ==
  ASSUME NEW rows, Sound(rows), NEW kept \in SUBSET rows
  PROVE Sound(kept)
BY DEF Sound

\* A saved row takes the place of the one with its context and package.
LEMMA SavedRows ==
  ASSUME StoreTypeOK, NEW rows \in SUBSET Rows, Sound(rows),
         NEW row \in Rows, Belongs(row.result, row.context, row.package), row.id \in 0..identities
  PROVE /\ SavedId(row, rows) \in 1..(identities + 1)
        /\ RowsWith(row, rows) \in SUBSET Rows
        /\ \A r, s \in RowsWith(row, rows) : r.id = s.id \/ SameKey(r, s) => r = s
        /\ \A r \in RowsWith(row, rows) :
             /\ Belongs(r.result, r.context, r.package)
             /\ r.id \in 1..identities \/ r.id = SavedId(row, rows)
<1> DEFINE id == SavedId(row, rows)
           new == [row EXCEPT !.id = id]
<1>1. id \in 1..(identities + 1) /\ \A r \in rows : SameKey(r, row) => r.id = id
  <2>1. ASSUME NEW m \in rows, SameKey(m, row) PROVE id \in 1..identities /\ \A r \in rows : SameKey(r, row) => r.id = id
    <3>1. PICK k \in rows : SameKey(k, row) /\ id = k.id
      BY <2>1 DEF SavedId
    <3>2. id \in 1..identities
      BY <3>1 DEF Sound
    <3>3. \A r \in rows : SameKey(r, row) => r.id = id
      BY <3>1 DEF SameKey, Sound
    <3> QED BY <3>2, <3>3
  <2>2. ASSUME ~\E r \in rows : SameKey(r, row) PROVE id \in 1..(identities + 1)
    <3>1. id = IF row.id # NoId THEN row.id ELSE identities + 1
      BY <2>2 DEF SavedId
    <3> QED BY <3>1 DEF StoreTypeOK, NoId
  <2>3. 1..identities \subseteq 1..(identities + 1)
    BY DEF StoreTypeOK
  <2> QED BY <2>1, <2>2, <2>3
<1>2. new \in Rows /\ new.id = id /\ SameKey(new, row)
      /\ new.result = row.result /\ new.context = row.context /\ new.package = row.package
  BY <1>1 DEF Rows, SameKey
<1>3. RowsWith(row, rows) = {r \in rows : r.id # id} \cup {new}
  BY DEF RowsWith
<1>4. \A r \in rows : r.id # id => ~SameKey(r, new)
  BY <1>1, <1>2 DEF SameKey
<1>5. \A r, s \in RowsWith(row, rows) : r.id = s.id \/ SameKey(r, s) => r = s
  <2>1. \A r \in rows : r.id # id => ~SameKey(new, r)
    BY <1>4 DEF SameKey
  <2> QED BY <1>2, <1>3, <1>4, <2>1 DEF Sound
<1>6. \A r \in RowsWith(row, rows) : Belongs(r.result, r.context, r.package)
                                     /\ (r.id \in 1..identities \/ r.id = id)
  BY <1>2, <1>3 DEF Sound
<1> QED BY <1>1, <1>2, <1>3, <1>5, <1>6

\* Beginning an operation reads sound rows.
LEMMA StoreLoad ==
  ASSUME StoreInv, NEW c \in Clients, NEW o \in Operations, SoundOperation(o), Load(c, o)
  PROVE StoreInv'
<1> USE DEF StoreInv
<1>1. UNCHANGED <<scenarios, identities>>
  BY DEF Load
<1>2. operations' \in 0..MaxOperations
  BY ComparatorAssumption DEF Load, StoreTypeOK
<1>3. loaded' \in [Clients -> SUBSET Rows] /\ pending' \in [Clients -> Operations \cup {NoOperation}]
  BY DEF Load, StoreTypeOK
<1>4. StoreTypeOK'
  BY <1>1, <1>2, <1>3 DEF StoreTypeOK
<1>5. \A d \in Clients : loaded'[d] = scenarios \/ loaded'[d] = loaded[d]
  BY DEF Load, StoreTypeOK
<1>6. \A d \in Clients : pending'[d] = o \/ pending'[d] = pending[d]
  BY DEF Load, StoreTypeOK
<1>7. Sound(scenarios)'
  BY <1>1 DEF Sound
<1>8. \A d \in Clients : Sound(loaded[d])'
  BY <1>1, <1>5 DEF Sound
<1>9. \A d \in Clients : (pending[d] # NoOperation => SoundOperation(pending[d]))'
  BY <1>1, <1>6 DEF SoundOperation
<1> QED BY <1>4, <1>7, <1>8, <1>9

\* A client whose operation is over holds no rows; more identities keep rows sound.
LEMMA StoreEnded ==
  ASSUME StoreInv, NEW c \in Clients, Ended(c), identities' \in {identities, identities + 1},
         scenarios' \in SUBSET Rows, Sound(scenarios)'
  PROVE StoreInv'
<1> USE DEF StoreInv
<1>1. identities' \in Nat /\ 1..identities \subseteq 1..identities' /\ 0..identities \subseteq 0..identities'
  BY DEF StoreTypeOK
<1>2. loaded' \in [Clients -> SUBSET Rows] /\ pending' \in [Clients -> Operations \cup {NoOperation}]
  BY DEF Ended, StoreTypeOK
<1>3. operations' = operations
  BY DEF Ended
<1>4. \A r \in scenarios' : r.id \in 1..identities'
  BY DEF Sound
<1>5. StoreTypeOK'
  BY <1>1, <1>2, <1>3, <1>4 DEF StoreTypeOK
<1>6. \A d \in Clients : loaded'[d] = {} \/ loaded'[d] = loaded[d]
  BY DEF Ended, StoreTypeOK
<1>7. \A d \in Clients : pending'[d] = NoOperation \/ pending'[d] = pending[d]
  BY DEF Ended, StoreTypeOK
<1>8. \A d \in Clients : Sound(loaded[d])'
  BY <1>1, <1>6 DEF Sound
<1>9. \A d \in Clients : (pending[d] # NoOperation => SoundOperation(pending[d]))'
  BY <1>1, <1>7 DEF SoundOperation
<1> QED BY <1>5, <1>8, <1>9

\* Replacing the file by what was made of sound rows.
LEMMA StoreCommit ==
  ASSUME StoreInv, NEW c \in Clients, Commit(c)
  PROVE /\ StoreInv'
        /\ pending[c].op = "save" => SavedId(pending[c].row, loaded[c]) \in 1..identities'
        /\ identities' \in {identities, identities + 1}
<1> DEFINE o == pending[c]
           rows == loaded[c]
<1>1. o \in Operations /\ rows \in SUBSET Rows /\ Sound(rows) /\ SoundOperation(o) /\ identities \in Nat
  BY DEF StoreInv, StoreTypeOK, Commit
<1>2. ASSUME o.op = "save"
      PROVE /\ scenarios' \in SUBSET Rows /\ Sound(scenarios)'
            /\ SavedId(o.row, rows) \in 1..identities' /\ identities' \in {identities, identities + 1}
  <2>1. o.row \in Rows /\ Belongs(o.row.result, o.row.context, o.row.package)
        /\ o.row.id \in 0..identities
    BY <1>1, <1>2 DEF Operations, SoundOperation
  <2>2. StoreTypeOK
    BY DEF StoreInv
  <2>3. scenarios' = RowsWith(o.row, rows)
    BY <1>2 DEF Commit, Rewritten
  <2>4. SavedId(o.row, rows) \in 1..(identities + 1)
    BY <1>1, <2>1, <2>2, SavedRows
  <2>5. identities' = IF SavedId(o.row, rows) > identities THEN identities + 1 ELSE identities
    BY <1>2 DEF Commit
  <2>6. SavedId(o.row, rows) \in 1..identities' /\ identities' \in {identities, identities + 1}
        /\ 1..identities \subseteq 1..identities'
    BY <1>1, <2>4, <2>5
  <2>7. RowsWith(o.row, rows) \in SUBSET Rows
        /\ \A r, s \in RowsWith(o.row, rows) : r.id = s.id \/ SameKey(r, s) => r = s
    BY <1>1, <2>1, <2>2, SavedRows
  <2>8. \A r \in RowsWith(o.row, rows) :
          /\ Belongs(r.result, r.context, r.package)
          /\ r.id \in 1..identities \/ r.id = SavedId(o.row, rows)
    BY <1>1, <2>1, <2>2, SavedRows
  <2> QED BY <2>3, <2>6, <2>7, <2>8 DEF Sound
<1>3. ASSUME o.op # "save"
      PROVE scenarios' \in SUBSET Rows /\ Sound(scenarios)' /\ identities' = identities
  <2>1. identities' = identities
    BY <1>3 DEF Commit
  <2>2. o.op \in {"delete", "rename"}
    BY <1>1, <1>3 DEF Operations
  <2>3. scenarios' \in SUBSET rows
    BY <1>3, <2>2 DEF Commit, Rewritten
  <2> QED BY <1>1, <2>1, <2>3 DEF Sound
<1>4. Ended(c)
  BY DEF Commit
<1>5. StoreInv' /\ identities' \in {identities, identities + 1}
  BY <1>2, <1>3, <1>4, StoreEnded
<1> QED BY <1>2, <1>5

\* An operation that is given up changes nothing.
LEMMA StoreAbort ==
  ASSUME StoreInv, NEW c \in Clients, Ended(c), UNCHANGED <<scenarios, identities>>
  PROVE StoreInv'
<1>1. scenarios' \in SUBSET Rows /\ Sound(scenarios)'
  BY DEF StoreInv, StoreTypeOK, Sound
<1> QED BY <1>1, StoreEnded

\* Nothing happens to the store.
LEMMA StoreStays == ASSUME StoreInv, UNCHANGED storeVars PROVE StoreInv'
BY DEF StoreInv, StoreTypeOK, Sound, SoundOperation, storeVars

-----------------------------------------------------------------------------
(* The pipes *)

\* The fields of a worker.
LEMMA WorkerFields ==
  ASSUME NEW w \in Workers
  PROVE /\ w.state \in {"none", "starting", "running", "exited", "crashed"}
        /\ w.context \in {NoContext} \cup Contexts
        /\ w.inbox \in Seq(Commands) /\ w.outbox \in Seq(Lines)
BY DEF Workers

LineTaken(w, v) == v = [w EXCEPT !.outbox = Tail(@)]

\* Reading a line leaves the later ones; none of them, and no command still to be
\* answered, has the id of the line.
LEMMA LineRead ==
  ASSUME NEW w \in Workers, NEW given \in Nat, Orderly(w, given), Truthful(w), w.outbox # <<>>,
         NEW v, LineTaken(w, v)
  PROVE /\ v \in Workers /\ Orderly(v, given) /\ Truthful(v)
        /\ v.state = w.state /\ v.context = w.context /\ v.inbox = w.inbox
        /\ \A i \in DOMAIN v.outbox : i + 1 \in DOMAIN w.outbox /\ v.outbox[i] = w.outbox[i + 1]
        /\ \A i \in DOMAIN v.inbox : v.inbox[i].id # Head(w.outbox).id
        /\ Head(w.outbox).id # NoCommand =>
             \A i \in DOMAIN v.outbox : v.outbox[i].id # Head(w.outbox).id
        /\ Head(w.outbox) \in Lines
        /\ Head(w.outbox).kind = "ready" =>
             Head(w.outbox).context = w.context /\ w.context \in Contexts
        /\ w.state # "starting"
        /\ Head(w.outbox).kind = "validation" =>
             /\ Head(w.outbox).id # NoCommand
             /\ Head(w.outbox).context \in Contexts
             /\ Head(w.outbox).valid =>
                  <<Head(w.outbox).context, Head(w.outbox).package>> \in Legal
        /\ Head(w.outbox).kind = "result" =>
             <<Head(w.outbox).context, Head(w.outbox).package>> \in Legal
<1>1. w.outbox \in Seq(Lines) /\ w.inbox \in Seq(Commands)
  BY WorkerFields
<1>2. v.outbox = Tail(w.outbox) /\ v.state = w.state /\ v.context = w.context /\ v.inbox = w.inbox
  BY DEF Workers, LineTaken
<1>3. Head(w.outbox) = w.outbox[1] /\ Head(w.outbox) \in Lines /\ 1 \in DOMAIN w.outbox
  BY <1>1
<1>4. v.outbox \in Seq(Lines)
      /\ \A i \in DOMAIN v.outbox : i # 0 /\ i + 1 # 1 /\ i + 1 \in DOMAIN w.outbox
                                    /\ v.outbox[i] = w.outbox[i + 1]
  BY <1>1, <1>2
<1>5. v \in Workers
  BY <1>4 DEF Workers, LineTaken
<1>6. \A i, j \in DOMAIN v.outbox : i + 1 = j + 1 => i = j
  BY <1>4
<1>7. Orderly(v, given)
  BY <1>2, <1>4, <1>6 DEF Orderly
<1>8. w.state # "starting"
  BY DEF Truthful
<1>9. Truthful(v)
  <2>1. v.state \in {"starting", "running"} => v.context \in Contexts
    BY <1>2 DEF Truthful
  <2>2. v.state # "starting"
    BY <1>2, <1>8
  <2>3. \A i \in DOMAIN v.outbox :
          v.outbox[i].kind = "ready" => v.outbox[i].context = v.context /\ v.context \in Contexts
    BY <1>2, <1>4 DEF Truthful
  <2>4. \A i \in DOMAIN v.outbox :
          v.outbox[i].kind = "validation" =>
            /\ v.outbox[i].id # NoCommand
            /\ v.outbox[i].context \in Contexts
            /\ v.outbox[i].valid => <<v.outbox[i].context, v.outbox[i].package>> \in Legal
    BY <1>4 DEF Truthful
  <2>5. \A i \in DOMAIN v.outbox :
          v.outbox[i].kind = "result" => <<v.outbox[i].context, v.outbox[i].package>> \in Legal
    BY <1>4 DEF Truthful
  <2> QED BY <2>1, <2>2, <2>3, <2>4, <2>5 DEF Truthful
<1>10. \A i \in DOMAIN v.inbox : v.inbox[i].id # Head(w.outbox).id
  BY <1>2, <1>3 DEF Orderly
<1>11. Head(w.outbox).id # NoCommand =>
         \A i \in DOMAIN v.outbox : v.outbox[i].id # Head(w.outbox).id
  BY <1>3, <1>4 DEF Orderly
<1>12. Head(w.outbox).kind = "ready" =>
         Head(w.outbox).context = w.context /\ w.context \in Contexts
  BY <1>3 DEF Truthful
<1>13. Head(w.outbox).kind = "validation" =>
         /\ Head(w.outbox).id # NoCommand
         /\ Head(w.outbox).context \in Contexts
         /\ Head(w.outbox).valid =>
              <<Head(w.outbox).context, Head(w.outbox).package>> \in Legal
  BY <1>3 DEF Truthful
<1>14. Head(w.outbox).kind = "result" =>
         <<Head(w.outbox).context, Head(w.outbox).package>> \in Legal
  BY <1>3 DEF Truthful
<1> QED BY <1>2, <1>3, <1>4, <1>5, <1>7, <1>8, <1>9, <1>10, <1>11, <1>12, <1>13, <1>14

\* A command with a new id.
LEMMA CommandWritten ==
  ASSUME NEW w \in Workers, NEW given \in Nat, Orderly(w, given), Truthful(w),
         w.state # "starting", NEW c \in Commands, c.id = given + 1,
         NEW v, v = [w EXCEPT !.inbox = Append(@, c)]
  PROVE /\ v \in Workers /\ Orderly(v, given + 1) /\ Truthful(v)
        /\ v.state = w.state /\ v.context = w.context /\ v.outbox = w.outbox
        /\ \A i \in DOMAIN v.inbox :
             v.inbox[i] = c \/ (i \in DOMAIN w.inbox /\ v.inbox[i] = w.inbox[i])
<1>1. w.outbox \in Seq(Lines) /\ w.inbox \in Seq(Commands)
  BY WorkerFields
<1>2. v.inbox = Append(w.inbox, c) /\ v.state = w.state /\ v.context = w.context
      /\ v.outbox = w.outbox
  BY DEF Workers
<1>3. v.inbox \in Seq(Commands)
      /\ \A i \in DOMAIN v.inbox : \/ i \in DOMAIN w.inbox /\ v.inbox[i] = w.inbox[i]
                                   \/ i = Len(w.inbox) + 1 /\ v.inbox[i] = c
  BY <1>1, <1>2
<1>4. v \in Workers
  BY <1>3 DEF Workers
<1>5. \A i \in DOMAIN w.inbox : w.inbox[i].id # c.id /\ w.inbox[i].id \in 1..(given + 1)
  BY DEF Orderly
<1>6. \A i \in DOMAIN w.outbox : w.outbox[i].id # c.id /\ w.outbox[i].id \in 0..(given + 1)
  BY DEF Orderly
<1>7. Orderly(v, given + 1)
  <2>1. \A i \in DOMAIN v.inbox : v.inbox[i].id \in 1..(given + 1)
    BY <1>3, <1>5
  <2>2. \A i, j \in DOMAIN v.inbox : v.inbox[i].id = v.inbox[j].id => i = j
    BY <1>3, <1>5 DEF Orderly
  <2>3. \A i \in DOMAIN v.inbox, j \in DOMAIN v.outbox : v.inbox[i].id # v.outbox[j].id
    BY <1>2, <1>3, <1>6 DEF Orderly
  <2> QED BY <1>2, <1>6, <2>1, <2>2, <2>3 DEF Orderly
<1>8. Truthful(v)
  BY <1>2 DEF Truthful
<1> QED BY <1>2, <1>3, <1>4, <1>7, <1>8

Answered(w, a, v) == v = [w EXCEPT !.inbox = Tail(@), !.outbox = Append(@, a)]

Started(w, st, c, line, v) == v = [w EXCEPT !.state = st, !.context = c, !.outbox = Append(@, line)]

\* The answer to the oldest command has its id.
LEMMA CommandAnswered ==
  ASSUME NEW w \in Workers, NEW given \in Nat, Orderly(w, given), Truthful(w),
         w.state = "running", w.inbox # <<>>,
         NEW a \in Lines, a.id = Head(w.inbox).id, a.kind # "ready", a.package = Head(w.inbox).package,
         a.kind = "validation" => /\ a.context \in Contexts
                                  /\ a.valid => <<a.context, a.package>> \in Legal,
         a.kind = "result" => <<a.context, a.package>> \in Legal,
         NEW v, Answered(w, a, v)
  PROVE /\ v \in Workers /\ Orderly(v, given) /\ Truthful(v)
        /\ v.state = w.state /\ v.context = w.context
        /\ \A i \in DOMAIN v.inbox : i + 1 \in DOMAIN w.inbox /\ v.inbox[i] = w.inbox[i + 1]
        /\ 1 \in DOMAIN w.inbox /\ a.id = w.inbox[1].id /\ a.package = w.inbox[1].package
        /\ \A i \in DOMAIN v.outbox :
             v.outbox[i] = a \/ (i \in DOMAIN w.outbox /\ v.outbox[i] = w.outbox[i])
<1>1. w.outbox \in Seq(Lines) /\ w.inbox \in Seq(Commands)
  BY WorkerFields
<1>2. v.inbox = Tail(w.inbox) /\ v.outbox = Append(w.outbox, a) /\ v.state = w.state
      /\ v.context = w.context
  BY DEF Workers, Answered
<1>3. v.inbox \in Seq(Commands)
      /\ \A i \in DOMAIN v.inbox : i # 0 /\ i + 1 # 1 /\ i + 1 \in DOMAIN w.inbox
                                   /\ v.inbox[i] = w.inbox[i + 1]
  BY <1>1, <1>2
<1>4. v.outbox \in Seq(Lines)
      /\ \A i \in DOMAIN v.outbox : \/ i \in DOMAIN w.outbox /\ v.outbox[i] = w.outbox[i]
                                    \/ i = Len(w.outbox) + 1 /\ v.outbox[i] = a
  BY <1>1, <1>2
<1>5. 1 \in DOMAIN w.inbox /\ a.id = w.inbox[1].id /\ a.package = w.inbox[1].package
  BY <1>1
<1>6. v \in Workers
  BY <1>3, <1>4 DEF Workers, Answered
<1>7. a.id \in 1..given
  BY <1>5 DEF Orderly
<1>8. Orderly(v, given)
  <2>1. \A i \in DOMAIN v.inbox : v.inbox[i].id \in 1..given /\ v.inbox[i].id # a.id
    BY <1>3, <1>5 DEF Orderly
  <2>2. \A i, j \in DOMAIN v.inbox : v.inbox[i].id = v.inbox[j].id => i = j
    <3>1. \A i, j \in DOMAIN v.inbox : i + 1 = j + 1 => i = j
      BY <1>3
    <3> QED BY <1>3, <3>1 DEF Orderly
  <2>3. \A i \in DOMAIN w.outbox : w.outbox[i].id # a.id
    BY <1>5 DEF Orderly
  <2>4. \A i \in DOMAIN v.outbox : v.outbox[i].id \in 0..given
    BY <1>4, <1>7 DEF Orderly
  <2>5. \A i, j \in DOMAIN v.outbox :
          v.outbox[i].id = v.outbox[j].id /\ v.outbox[i].id # NoCommand => i = j
    BY <1>4, <2>3 DEF Orderly
  <2>6. \A i \in DOMAIN v.inbox, j \in DOMAIN v.outbox : v.inbox[i].id # v.outbox[j].id
    <3>1. SUFFICES ASSUME NEW i \in DOMAIN v.inbox, NEW j \in DOMAIN v.outbox
                   PROVE v.inbox[i].id # v.outbox[j].id
      OBVIOUS
    <3>2. i + 1 \in DOMAIN w.inbox /\ v.inbox[i] = w.inbox[i + 1]
      BY <1>3
    <3>3. ASSUME j \in DOMAIN w.outbox PROVE w.inbox[i + 1].id # w.outbox[j].id
      BY <3>2, <3>3 DEF Orderly
    <3> QED BY <1>4, <2>1, <3>2, <3>3
  <2> QED BY <2>1, <2>2, <2>4, <2>5, <2>6 DEF Orderly
<1>9. a.id # NoCommand
  BY <1>7 DEF NoCommand
<1>10. Truthful(v)
  <2>1. v.state \in {"starting", "running"} => v.context \in Contexts
    BY <1>2 DEF Truthful
  <2>2. v.state # "starting"
    BY <1>2
  <2>3. \A i \in DOMAIN v.outbox :
          v.outbox[i].kind = "ready" => v.outbox[i].context = v.context /\ v.context \in Contexts
    BY <1>2, <1>4 DEF Truthful
  <2>4. \A i \in DOMAIN v.outbox :
          v.outbox[i].kind = "validation" =>
            /\ v.outbox[i].id # NoCommand
            /\ v.outbox[i].context \in Contexts
            /\ v.outbox[i].valid => <<v.outbox[i].context, v.outbox[i].package>> \in Legal
    BY <1>4, <1>9 DEF Truthful
  <2>5. \A i \in DOMAIN v.outbox :
          v.outbox[i].kind = "result" => <<v.outbox[i].context, v.outbox[i].package>> \in Legal
    BY <1>4 DEF Truthful
  <2> QED BY <2>1, <2>2, <2>3, <2>4, <2>5 DEF Truthful
<1> QED BY <1>2, <1>3, <1>4, <1>5, <1>6, <1>8, <1>10

\* An empty pipe with one line.
LEMMA FirstLine ==
  ASSUME NEW line \in Lines
  PROVE /\ Append(<<>>, line) \in Seq(Lines) /\ DOMAIN Append(<<>>, line) = {1}
        /\ Append(<<>>, line)[1] = line
OBVIOUS

\* The first line of a worker, and that of one that could not start.
LEMMA WorkerStarted ==
  ASSUME NEW w \in Workers, NEW given \in Nat, Orderly(w, given), Truthful(w), w.state = "starting",
         NEW line \in Lines, line.id = NoCommand, line.kind \in {"ready", "error"},
         NEW c \in Contexts, NEW st \in {"running", "exited"},
         line.kind = "ready" => line.context = c,
         NEW v, Started(w, st, c, line, v)
  PROVE /\ v \in Workers /\ Orderly(v, given) /\ Truthful(v)
        /\ v.state = st /\ v.context = c /\ v.inbox = <<>>
        /\ \A i \in DOMAIN v.outbox : v.outbox[i] = line
<1>1. w.outbox = <<>> /\ w.inbox = <<>>
  BY DEF Truthful
<1>2. v.inbox = <<>> /\ v.outbox = Append(<<>>, line) /\ v.state = st /\ v.context = c
  BY <1>1 DEF Workers, Started
<1>3. v.outbox \in Seq(Lines) /\ DOMAIN v.outbox = {1} /\ v.outbox[1] = line
  BY <1>2, FirstLine
<1>5. v \in Workers
  BY <1>1, <1>2, <1>3 DEF Workers, Started
<1>6. Orderly(v, given)
  BY <1>2, <1>3 DEF Orderly, NoCommand
<1>7. Truthful(v)
  BY <1>2, <1>3 DEF Truthful
<1> QED BY <1>2, <1>3, <1>5, <1>6, <1>7

\* A dead worker answers no command any more.
LEMMA WorkerDied ==
  ASSUME NEW w \in Workers, NEW given \in Nat, Orderly(w, given), Truthful(w),
         w.state \in {"starting", "running"},
         NEW v, v = [w EXCEPT !.state = "crashed", !.inbox = <<>>]
  PROVE /\ v \in Workers /\ Orderly(v, given) /\ Truthful(v)
        /\ v.state = "crashed" /\ v.context = w.context /\ v.outbox = w.outbox /\ v.inbox = <<>>
<1>1. v.state = "crashed" /\ v.context = w.context /\ v.outbox = w.outbox /\ v.inbox = <<>>
  BY DEF Workers
<1>2. DOMAIN v.inbox = {}
  BY <1>1
<1>3. <<>> \in Seq(Commands)
  OBVIOUS
<1>4. v \in Workers
  BY <1>3 DEF Workers
<1>5. Orderly(v, given)
  BY <1>1, <1>2 DEF Orderly
<1>6. Truthful(v)
  BY <1>1 DEF Truthful
<1> QED BY <1>1, <1>4, <1>5, <1>6

\* A worker that is being started.
LEMMA WorkerCreated ==
  ASSUME NEW given \in Nat, NEW c \in Contexts,
         NEW v, v = [state |-> "starting", context |-> c, inbox |-> <<>>, outbox |-> <<>>]
  PROVE /\ v \in Workers /\ Orderly(v, given) /\ Truthful(v)
        /\ v.state = "starting" /\ v.inbox = <<>> /\ v.outbox = <<>>
<1>3. v \in Workers
  BY DEF Workers
<1>4. v.state = "starting" /\ v.context = c /\ v.inbox = <<>> /\ v.outbox = <<>>
  OBVIOUS
<1>5. DOMAIN v.inbox = {} /\ DOMAIN v.outbox = {}
  BY <1>4
<1>6. Orderly(v, given)
  BY <1>5 DEF Orderly
<1>7. Truthful(v)
  BY <1>4, <1>5 DEF Truthful
<1> QED BY <1>3, <1>4, <1>6, <1>7

-----------------------------------------------------------------------------
(* The tab *)

\* The current worker is one of the workers.
LEMMA CurrentWorker ==
  ASSUME Rest
  PROVE /\ loads \in Nat /\ commands \in Nat
        /\ current # NoWorker => current \in Loads /\ workers[current] \in Workers
        /\ context # NoContext => current # NoWorker
        /\ \A n \in Loads : workers[n] \in Workers /\ Orderly(workers[n], commands)
                            /\ Truthful(workers[n])
<1>1. loads \in Nat /\ commands \in Nat /\ loads <= MaxLoads
  BY ComparatorAssumption DEF Rest, PipesTypeOK, CommandIds
<1>2. current # NoWorker => current \in Loads
  BY <1>1, ComparatorAssumption DEF Rest, TabTypeOK, NoWorker, Loads
<1>3. \A n \in Loads : workers[n] \in Workers
  BY DEF Rest, PipesTypeOK
<1> QED BY <1>1, <1>2, <1>3 DEF Rest, PipesInv, TabInv, ShownIsCurrent, ShownIsLegal

\* Steps of the store and of the world around leave the tab as it is.
LEMMA TabKept ==
  ASSUME Rest, UNCHANGED <<handles, package, busy, timer, debounce, answerVars>>,
         UNCHANGED pipeVars, world' \in Worlds, scenario' \in 0..identities'
  PROVE Rest'
<1> USE DEF Rest, handles, answerVars, pipeVars
<1>1. PipesTypeOK' /\ TabTypeOK'
  BY DEF PipesTypeOK, TabTypeOK
<1>2. PipesInv'
  BY DEF PipesInv
<1>3. \A w : Asked(w) => Asked(w)'
  BY DEF Asked
<1>4. (current # NoWorker => Asked(workers[current]))'
  BY DEF TabInv, Asked
<1>5. TabInv'
  BY <1>4 DEF TabInv, ValidatedPackage, ShownIsCurrent, ShownIsLegal, BusyIsTimed
<1> QED BY <1>1, <1>2, <1>5

\* Giving up the worker, whatever it still does.
LEMMA TabGivesUp ==
  ASSUME Rest, GivenUp, world' = world, identities' = identities, loads' = loads,
         PipesTypeOK', PipesInv', commands' = commands
  PROVE Rest'
<1> USE DEF Rest, GivenUp, Shutdown
<1>1. TabTypeOK'
  <2>1. current' \in 0..loads'
    BY CurrentWorker DEF NoWorker
  <2>2. world' \in Worlds /\ fingerprint' \in {0} \cup Worlds /\ package' \in Selections
        /\ context' \in {NoContext} \cup Contexts /\ baseline' \in {NoContext} \cup Contexts
        /\ validation' \in CommandIds /\ evaluation' \in CommandIds
        /\ result' \in Results \cup {NoResult} /\ scenario' \in 0..identities'
    BY DEF TabTypeOK
  <2>3. busy' \in BOOLEAN /\ valid' \in BOOLEAN /\ timer' \in BOOLEAN /\ debounce' \in BOOLEAN
    OBVIOUS
  <2> QED BY <2>1, <2>2, <2>3 DEF TabTypeOK
<1>2. TabInv'
  BY DEF TabInv, ValidatedPackage, ShownIsCurrent, ShownIsLegal, BusyIsTimed, NoWorker, NoContext
<1> QED BY <1>1, <1>2

\* An edit leaves no answer to wait for.
LEMMA TabEdited ==
  ASSUME Rest, ~busy, NEW p \in Selections, NEW idle \in BOOLEAN, Edited(p, idle),
         UNCHANGED <<world, pipeVars, handles, busy, timer, evaluation, baseline>>,
         scenario' \in 0..identities'
  PROVE Rest'
<1> USE DEF Rest, Edited, pipeVars, handles
<1>1. PipesTypeOK' /\ PipesInv'
  BY DEF PipesTypeOK, PipesInv
<1>2. TabTypeOK'
  <2>1. validation' \in CommandIds
    BY ComparatorAssumption DEF CommandIds, NoCommand
  <2>2. debounce' \in BOOLEAN
    OBVIOUS
  <2> QED BY <2>1, <2>2 DEF TabTypeOK
<1>3. ASSUME current # NoWorker PROVE Asked(workers[current])'
  <2>1. Orderly(workers[current], commands) /\ Truthful(workers[current])
    BY <1>3, CurrentWorker
  <2>2. \A i \in DOMAIN workers[current].inbox : workers[current].inbox[i].id # NoCommand
    BY <2>1 DEF Orderly, NoCommand
  <2>3. \A i \in DOMAIN workers[current].outbox :
          workers[current].outbox[i].kind = "validation" => workers[current].outbox[i].id # NoCommand
    BY <2>1 DEF Truthful
  <2>4. validation' = NoCommand /\ workers' = workers /\ current' = current
    OBVIOUS
  <2> QED BY <2>2, <2>3, <2>4 DEF Asked
<1>4. validation' <= commands'
  BY CurrentWorker DEF NoCommand
<1>5. ValidatedPackage' /\ BusyIsTimed'
  BY DEF TabInv, ValidatedPackage, BusyIsTimed
<1>6. ShownIsCurrent' /\ ShownIsLegal'
  BY DEF TabInv, ShownIsCurrent, ShownIsLegal
<1>7. TabInv'
  BY <1>3, <1>4, <1>5, <1>6 DEF TabInv
<1> QED BY <1>1, <1>2, <1>7

\* What a worker does of its own accord keeps what the tab knows of it.
LEMMA WorkerMoves ==
  ASSUME Rest, UNCHANGED <<world, loads, commands, tabVars, identities>>,
         NEW n \in Loads, NEW v \in Workers, workers' = [workers EXCEPT ![n] = v],
         Orderly(v, commands), Truthful(v),
         workers[n].state # "starting" => v.state # "starting" /\ v.context = workers[n].context,
         Asked(workers[n]) => Asked(v)
  PROVE Rest'
<1> USE DEF Rest
<1>1. PipesTypeOK'
  BY DEF PipesTypeOK
<1>2. \A m \in Loads : workers'[m] = IF m = n THEN v ELSE workers[m]
  BY DEF PipesTypeOK
<1>3. PipesInv'
  BY <1>2 DEF PipesInv
<1>4. TabTypeOK'
  BY DEF TabTypeOK, tabVars, handles, answerVars
<1>5. UNCHANGED <<current, context, package, busy, valid, timer, debounce, validation, result, baseline>>
  BY DEF tabVars, handles, answerVars
<1>6. ValidatedPackage' /\ BusyIsTimed'
  BY <1>5 DEF TabInv, ValidatedPackage, BusyIsTimed
<1>7. ASSUME context # NoContext
      PROVE /\ current # NoWorker /\ workers'[current].context = context
            /\ workers'[current].state # "starting"
  BY <1>2, <1>7, CurrentWorker DEF TabInv, ShownIsCurrent
<1>8. ShownIsCurrent' /\ ShownIsLegal'
  BY <1>5, <1>7 DEF TabInv, ShownIsCurrent, ShownIsLegal
<1>9. ASSUME current # NoWorker PROVE Asked(workers'[current])
  BY <1>2, <1>9, CurrentWorker DEF TabInv
<1>10. (current # NoWorker => Asked(workers[current]))'
  BY <1>5, <1>9 DEF Asked
<1>11. TabInv'
  BY <1>5, <1>6, <1>7, <1>8, <1>10 DEF TabInv
<1> QED BY <1>1, <1>3, <1>4, <1>11

-----------------------------------------------------------------------------
(* The steps of the user and of the timers *)

\* A row made of the valid selection is a row of the store.
LEMMA RowToSave ==
  ASSUME IInv, valid, context # NoContext, NEW known \in 0..identities,
         NEW outcome \in Results \cup {NoResult}, Belongs(outcome, context, package)
  PROVE LET o == [op |-> "save", row |-> Row(known, context, package, outcome)]
        IN o \in Operations /\ SoundOperation(o)
<1>1. context \in Contexts /\ package \in Packages
  BY ComparatorAssumption DEF IInv, Rest, TabTypeOK, TabInv, ValidatedPackage
<1>2. known \in Nat
  BY DEF IInv, StoreInv, StoreTypeOK
<1>3. Row(known, context, package, outcome) \in Rows
  BY <1>1, <1>2 DEF Row, Rows
<1> QED BY <1>3 DEF Operations, SoundOperation, Row

\* Neither the store nor the tab changes when the world does.
LEMMA StepWorld == ASSUME IInv, WorldChanges PROVE IInv'
<1>1. world' \in Worlds
  BY ComparatorAssumption DEF IInv, Rest, TabTypeOK, WorldChanges, Worlds
<1>2. StoreInv'
  BY StoreStays DEF IInv, WorldChanges
<1>3. scenario' \in 0..identities' /\ UNCHANGED pipeVars
      /\ UNCHANGED <<handles, package, busy, timer, debounce, answerVars>>
  BY DEF IInv, Rest, TabTypeOK, WorldChanges, tabVars, storeVars
<1> QED BY <1>1, <1>2, <1>3, TabKept DEF IInv

\* A new worker finds the tab without a context and timed.
LEMMA StepLoadContext == ASSUME IInv, LoadContext PROVE IInv'
<1> DEFINE v == [state |-> "starting", context |-> world, inbox |-> <<>>, outbox |-> <<>>]
           n == loads + 1
<1>1. Rest /\ StoreInv
  BY DEF IInv
<1>2. n \in Loads /\ n # NoWorker /\ world \in Contexts /\ loads' = n /\ n \in Nat
  BY <1>1, CurrentWorker, ComparatorAssumption
  DEF LoadContext, Loads, NoWorker, Rest, TabTypeOK, Worlds
<1>3. workers' = [workers EXCEPT ![n] = v]
  BY DEF LoadContext, Starting
<1>4. v \in Workers /\ Orderly(v, commands) /\ Truthful(v) /\ v.inbox = <<>> /\ v.outbox = <<>>
  BY <1>1, <1>2, WorkerCreated, CurrentWorker
<1>5. \A m \in Loads : workers'[m] = IF m = n THEN v ELSE workers[m]
  BY <1>1, <1>3 DEF Rest, PipesTypeOK
<1>6. commands' = commands
  BY DEF LoadContext
<1> HIDE DEF v, n
<1>7. PipesTypeOK'
  <2>1. workers' \in [Loads -> Workers]
    BY <1>1, <1>3, <1>4 DEF Rest, PipesTypeOK
  <2>2. loads' \in 0..MaxLoads
    BY <1>2, ComparatorAssumption DEF Loads
  <2> QED BY <1>1, <1>6, <2>1, <2>2 DEF Rest, PipesTypeOK
<1>8. PipesInv'
  BY <1>1, <1>4, <1>5, <1>6 DEF Rest, PipesInv
<1>9. current' = n /\ identities' = identities
  BY DEF LoadContext, storeVars, n
<1>10. TabTypeOK'
  <2>1. current' \in 0..loads' /\ 0 \in 0..identities'
    BY <1>1, <1>2, <1>9 DEF IInv, StoreInv, StoreTypeOK
  <2>2. world' \in Worlds /\ fingerprint' \in {0} \cup Worlds /\ package' \in Selections
        /\ context' \in {NoContext} \cup Contexts /\ baseline' \in {NoContext} \cup Contexts
        /\ validation' \in CommandIds /\ evaluation' \in CommandIds
        /\ result' \in Results \cup {NoResult} /\ scenario' \in 0..identities'
    BY <1>1, <2>1 DEF Rest, TabTypeOK, LoadContext, NoId
  <2>3. busy' \in BOOLEAN /\ valid' \in BOOLEAN /\ timer' \in BOOLEAN /\ debounce' \in BOOLEAN
    BY DEF LoadContext
  <2> QED BY <2>1, <2>2, <2>3 DEF TabTypeOK
<1>11. (current # NoWorker => Asked(workers[current]))'
  <2>1. workers'[current'] = v
    BY <1>2, <1>5, <1>9
  <2>2. DOMAIN v.inbox = {} /\ DOMAIN v.outbox = {}
    BY <1>4
  <2> QED BY <2>1, <2>2 DEF Asked
<1>12. TabInv'
  BY <1>1, <1>6, <1>11
  DEF LoadContext, Rest, TabInv, ValidatedPackage, ShownIsCurrent, ShownIsLegal, BusyIsTimed, NoContext
<1>13. StoreInv'
  BY <1>1, StoreStays DEF LoadContext
<1> QED BY <1>7, <1>8, <1>10, <1>12, <1>13 DEF IInv, Rest

\* Everything that ends in an idle tab without a worker.
LEMMA StepGivenUp ==
  ASSUME IInv, GivenUp, UNCHANGED <<storeVars, world, pipeVars>>
  PROVE IInv'
<1>1. StoreInv' /\ identities' = identities
  BY StoreStays DEF IInv, storeVars
<1>2. PipesTypeOK' /\ PipesInv'
  BY DEF IInv, Rest, PipesTypeOK, PipesInv, pipeVars
<1> QED BY <1>1, <1>2, TabGivesUp DEF IInv, pipeVars

\* The failed load ends there too, without a scenario.
LEMMA StepLoadFails == ASSUME IInv, LoadFails PROVE IInv'
<1> USE DEF LoadFails, Shutdown
<1>1. StoreInv' /\ identities' = identities /\ identities \in Nat
  BY StoreStays DEF IInv, storeVars, StoreInv, StoreTypeOK
<1>2. PipesTypeOK' /\ PipesInv' /\ loads' = loads /\ commands' = commands
  BY DEF IInv, Rest, PipesTypeOK, PipesInv, pipeVars
<1>3. TabTypeOK'
  <2>1. current' \in 0..loads' /\ 0 \in 0..identities'
    BY <1>1, <1>2, CurrentWorker DEF IInv, NoWorker
  <2>2. world' \in Worlds /\ fingerprint' \in {0} \cup Worlds /\ package' \in Selections
        /\ context' \in {NoContext} \cup Contexts /\ baseline' \in {NoContext} \cup Contexts
        /\ validation' \in CommandIds /\ evaluation' \in CommandIds
        /\ result' \in Results \cup {NoResult} /\ scenario' \in 0..identities'
    BY <2>1 DEF IInv, Rest, TabTypeOK, NoId
  <2>3. busy' \in BOOLEAN /\ valid' \in BOOLEAN /\ timer' \in BOOLEAN /\ debounce' \in BOOLEAN
    OBVIOUS
  <2> QED BY <2>1, <2>2, <2>3 DEF TabTypeOK
<1>4. TabInv'
  BY <1>2 DEF IInv, Rest, TabInv, ValidatedPackage, ShownIsCurrent, ShownIsLegal, BusyIsTimed, NoWorker, NoContext
<1> QED BY <1>1, <1>2, <1>3, <1>4 DEF IInv, Rest

\* Edits of the selection.
LEMMA StepEdit ==
  ASSUME IInv, (\E p \in Selections : Edit(p)) \/ ResetHold \/ \E r \in scenarios : LoadSaved(r)
  PROVE IInv'
<1>1. StoreInv' /\ identities' = identities /\ identities \in Nat
  BY StoreStays DEF IInv, Edit, ResetHold, LoadSaved, storeVars, StoreInv, StoreTypeOK
<1>2. ASSUME NEW p \in Selections, Edit(p) PROVE Rest'
  BY <1>1, <1>2, TabEdited DEF IInv, Rest, Edit, TabTypeOK
<1>3. ASSUME ResetHold PROVE Rest'
  <2>1. Hold \in Selections /\ NoId \in 0..identities'
    BY <1>1, ComparatorAssumption DEF Selections, NoId
  <2> QED BY <1>3, <2>1, TabEdited DEF IInv, ResetHold
<1>4. ASSUME NEW r \in scenarios, LoadSaved(r) PROVE Rest'
  <2>1. r.package \in Selections /\ r.id \in 0..identities'
    BY <1>1 DEF IInv, StoreInv, StoreTypeOK, Rows, Selections
  <2> QED BY <1>4, <2>1, TabEdited DEF IInv, LoadSaved
<1> QED BY <1>1, <1>2, <1>3, <1>4 DEF IInv

\* The operations of the tab on the store.
LEMMA StepSave ==
  ASSUME IInv, Save \/ RenameSaved \/ (\E i \in 0..identities : DeleteSaved(i)) \/ SaveFails
  PROVE IInv'
<1>1. Window \in Clients /\ StoreInv /\ Rest /\ identities \in Nat
  BY ComparatorAssumption DEF IInv, StoreInv, StoreTypeOK
<1>2. UNCHANGED <<world, pipeVars, tabVars, identities>>
  BY DEF Save, RenameSaved, DeleteSaved, SaveFails, SaveBegins, Load, Abort
<1>3. ASSUME Save PROVE StoreInv'
  <2>1. scenario \in 0..identities /\ result \in Results \cup {NoResult}
        /\ Belongs(result, context, package)
    BY <1>1 DEF Rest, TabTypeOK, TabInv, ShownIsCurrent, ShownIsLegal, Belongs
  <2> QED BY <1>1, <1>3, <2>1, RowToSave, StoreLoad DEF Save, SaveBegins
<1>4. ASSUME RenameSaved PROVE StoreInv'
  BY <1>1, <1>4, StoreLoad DEF RenameSaved, Operations, SoundOperation
<1>5. ASSUME NEW i \in 0..identities, DeleteSaved(i) PROVE StoreInv'
  BY <1>1, <1>5, StoreLoad DEF DeleteSaved, Operations, SoundOperation
<1>6. ASSUME SaveFails PROVE StoreInv'
  BY <1>1, <1>6, StoreAbort DEF SaveFails, Abort
<1>7. StoreInv'
  BY <1>3, <1>4, <1>5, <1>6
<1>8. Rest'
  BY <1>1, <1>2, TabKept DEF Rest, TabTypeOK, tabVars, handles, answerVars
<1> QED BY <1>7, <1>8 DEF IInv

\* The saved row is one the file knows.
LEMMA StepSaveEnds == ASSUME IInv, SaveEnds PROVE IInv'
<1>1. Window \in Clients /\ Commit(Window) /\ StoreInv /\ Rest /\ identities \in Nat
  BY ComparatorAssumption DEF IInv, SaveEnds, StoreInv, StoreTypeOK
<1>2. StoreInv' /\ identities' \in {identities, identities + 1}
      /\ (pending[Window].op = "save" =>
            SavedId(pending[Window].row, loaded[Window]) \in 1..identities')
  BY <1>1, StoreCommit
<1>3. pending[Window].op \in {"save", "delete", "rename"}
  BY <1>1 DEF Commit, StoreInv, StoreTypeOK, Operations
<1>4. scenario' \in 0..identities'
  BY <1>1, <1>2, <1>3 DEF SaveEnds, NoId, Rest, TabTypeOK
<1>5. UNCHANGED <<handles, package, busy, timer, debounce, answerVars>> /\ UNCHANGED pipeVars
      /\ world' \in Worlds
  BY <1>1 DEF SaveEnds, Rest, TabTypeOK
<1> QED BY <1>1, <1>2, <1>4, <1>5, TabKept DEF IInv

\* The desktop opened again waits for nothing.
LEMMA StepReopened == ASSUME IInv, Reopened PROVE IInv'
<1> USE DEF Reopened, Shutdown
<1>1. StoreInv' /\ identities' = identities /\ identities \in Nat
  BY StoreAbort, ComparatorAssumption DEF IInv, StoreInv, StoreTypeOK
<1>2. PipesTypeOK' /\ PipesInv' /\ loads' = loads /\ commands' = commands
  BY DEF IInv, Rest, PipesTypeOK, PipesInv, pipeVars
<1>3. TabTypeOK'
  <2>1. current' \in 0..loads' /\ 0 \in 0..identities' /\ 0 \in CommandIds /\ Hold \in Selections
    BY <1>1, <1>2, CurrentWorker, ComparatorAssumption DEF IInv, NoWorker, CommandIds, Selections
  <2>2. world' \in Worlds /\ fingerprint' \in {0} \cup Worlds /\ package' \in Selections
        /\ context' \in {NoContext} \cup Contexts /\ baseline' \in {NoContext} \cup Contexts
        /\ validation' \in CommandIds /\ evaluation' \in CommandIds
        /\ result' \in Results \cup {NoResult} /\ scenario' \in 0..identities'
    BY <2>1 DEF IInv, Rest, TabTypeOK, NoId, NoCommand
  <2>3. busy' \in BOOLEAN /\ valid' \in BOOLEAN /\ timer' \in BOOLEAN /\ debounce' \in BOOLEAN
    OBVIOUS
  <2> QED BY <2>1, <2>2, <2>3 DEF TabTypeOK
<1>4. validation' <= commands'
  BY <1>2, CurrentWorker DEF IInv, NoCommand
<1>5. TabInv'
  BY <1>4 DEF IInv, Rest, TabInv, ValidatedPackage, ShownIsCurrent, ShownIsLegal, BusyIsTimed, NoWorker, NoContext
<1> QED BY <1>1, <1>2, <1>3, <1>5 DEF IInv, Rest

\* The other desktops write sound rows of their own.
LEMMA StepPeer ==
  ASSUME IInv, NEW c \in Clients, PeerBegins(c) \/ PeerEnds(c)
  PROVE IInv'
<1>1. StoreInv /\ Rest /\ identities \in Nat /\ world \in Contexts
  BY ComparatorAssumption DEF IInv, StoreInv, StoreTypeOK, Rest, TabTypeOK, Worlds
<1>2. ASSUME NEW p \in Packages, PeerSaves(c, p) PROVE StoreInv' /\ identities' = identities
  <2>1. PICK x \in 1..world, i \in 0..identities : \E y \in {NoResult, [context |-> x, package |-> p]} :
          Load(c, [op |-> "save", row |-> Row(i, x, p, y)])
    BY <1>2 DEF PeerSaves
  <2>2. PICK y \in {NoResult, [context |-> x, package |-> p]} :
          Load(c, [op |-> "save", row |-> Row(i, x, p, y)])
    BY <2>1
  <2>3. x \in Contexts
    BY <1>1, ComparatorAssumption
  <2>4. y \in Results \cup {NoResult} /\ Belongs(y, x, p)
    BY <2>3 DEF Results, Belongs
  <2>5. Row(i, x, p, y) \in Rows
    BY <1>1, <2>3, <2>4 DEF Row, Rows
  <2>6. [op |-> "save", row |-> Row(i, x, p, y)] \in Operations
        /\ SoundOperation([op |-> "save", row |-> Row(i, x, p, y)])
    BY <2>4, <2>5 DEF Operations, SoundOperation, Row
  <2> QED BY <1>1, <2>2, <2>6, StoreLoad DEF Load
<1>3. ASSUME PeerBegins(c) PROVE StoreInv' /\ identities' = identities
  <2>1. ASSUME NEW i \in 1..identities, Load(c, [op |-> "delete", id |-> i])
        PROVE StoreInv' /\ identities' = identities
    <3>1. i \in Nat
      BY <1>1
    <3> QED BY <1>1, <2>1, <3>1, StoreLoad DEF Operations, SoundOperation, Load
  <2>2. ASSUME Load(c, [op |-> "rename"]) PROVE StoreInv' /\ identities' = identities
    BY <1>1, <2>2, StoreLoad DEF Operations, SoundOperation, Load
  <2> QED BY <1>2, <1>3, <2>1, <2>2 DEF PeerBegins
<1>4. ASSUME PeerEnds(c) PROVE StoreInv' /\ identities' \in {identities, identities + 1}
  BY <1>1, <1>4, StoreCommit, StoreAbort DEF PeerEnds, Abort
<1>5. StoreInv' /\ identities' \in {identities, identities + 1}
  BY <1>3, <1>4
<1>6. UNCHANGED <<world, pipeVars, tabVars>>
  BY DEF PeerBegins, PeerEnds
<1>7. scenario' \in 0..identities'
  BY <1>1, <1>5, <1>6 DEF Rest, TabTypeOK, tabVars
<1>8. world' \in Worlds /\ UNCHANGED pipeVars
      /\ UNCHANGED <<handles, package, busy, timer, debounce, answerVars>>
  BY <1>1, <1>6 DEF Rest, TabTypeOK, tabVars, handles, answerVars
<1> QED BY <1>1, <1>5, <1>7, <1>8, TabKept DEF IInv

-----------------------------------------------------------------------------
(* Commands *)

\* More ids leave the pipes orderly.
LEMMA MoreIds ==
  ASSUME NEW w, NEW given \in Nat, Orderly(w, given)
  PROVE Orderly(w, given + 1)
BY DEF Orderly

\* Sending adds at most the new command to what the current worker has to answer.
LEMMA CommandSent ==
  ASSUME Rest, NEW kind \in {"validate", "evaluate"}, Send(kind), context # NoContext, loads' = loads
  PROVE /\ PipesTypeOK' /\ PipesInv'
        /\ commands' = commands + 1 /\ commands' \in CommandIds
        /\ current \in Loads
        /\ workers'[current].state = workers[current].state
        /\ workers'[current].context = workers[current].context
        /\ workers'[current].outbox = workers[current].outbox
        /\ \A i \in DOMAIN workers'[current].inbox :
             \/ /\ workers'[current].inbox[i].id = commands + 1
                /\ workers'[current].inbox[i].package = package
             \/ /\ i \in DOMAIN workers[current].inbox
                /\ workers'[current].inbox[i] = workers[current].inbox[i]
<1> DEFINE w == workers[current]
           c == [kind |-> kind, id |-> commands + 1, package |-> package]
           v == [w EXCEPT !.inbox = Append(@, c)]
<1>1. current \in Loads /\ w \in Workers /\ commands \in Nat /\ w.state # "starting"
      /\ \A m \in Loads : workers[m] \in Workers /\ Orderly(workers[m], commands) /\ Truthful(workers[m])
  BY CurrentWorker DEF Rest, TabInv
<1>2. commands' = commands + 1 /\ commands' \in CommandIds
  BY <1>1, ComparatorAssumption DEF Send, CommandIds, Rest, PipesTypeOK
<1>3. c \in Commands
  BY <1>2 DEF Commands, Rest, TabTypeOK
<1>4. v \in Workers /\ Orderly(v, commands + 1) /\ Truthful(v)
      /\ v.state = w.state /\ v.context = w.context /\ v.outbox = w.outbox
      /\ \A i \in DOMAIN v.inbox :
           v.inbox[i] = c \/ (i \in DOMAIN w.inbox /\ v.inbox[i] = w.inbox[i])
  BY <1>1, <1>3, CommandWritten
<1>5. workers' = workers \/ workers' = [workers EXCEPT ![current] = v]
  BY DEF Send
<1>6. \A m \in Loads : workers'[m] = workers[m] \/ (m = current /\ workers'[m] = v)
  BY <1>1, <1>5 DEF Rest, PipesTypeOK
<1> HIDE DEF v
<1>7. PipesTypeOK'
  <2>1. workers' \in [Loads -> Workers]
    BY <1>4, <1>5 DEF Rest, PipesTypeOK
  <2> QED BY <1>2, <2>1 DEF Rest, PipesTypeOK
<1>8. PipesInv'
  <2>1. \A m \in Loads : Orderly(workers'[m], commands + 1) /\ Truthful(workers'[m])
    BY <1>1, <1>4, <1>6, MoreIds
  <2> QED BY <1>2, <2>1 DEF PipesInv
<1>9. c.id = commands + 1 /\ c.package = package
  OBVIOUS
<1>10. workers'[current] = w \/ workers'[current] = v
  BY <1>1, <1>6
<1> HIDE DEF c
<1> QED BY <1>1, <1>2, <1>4, <1>7, <1>8, <1>9, <1>10

\* An enabled tab waits for no validation, and its evaluation gets an id of its own.
LEMMA StepEvaluate == ASSUME IInv, Evaluate PROVE IInv'
<1>1. Rest /\ StoreInv /\ valid /\ context # NoContext /\ Send("evaluate") /\ loads' = loads
      /\ commands \in Nat
  BY CurrentWorker DEF IInv, Evaluate
<1>2. /\ PipesTypeOK' /\ PipesInv'
      /\ commands' = commands + 1 /\ commands' \in CommandIds
      /\ current \in Loads
      /\ workers'[current].state = workers[current].state
      /\ workers'[current].context = workers[current].context
      /\ workers'[current].outbox = workers[current].outbox
      /\ \A i \in DOMAIN workers'[current].inbox :
           \/ workers'[current].inbox[i].id = commands + 1
           \/ /\ i \in DOMAIN workers[current].inbox
              /\ workers'[current].inbox[i] = workers[current].inbox[i]
  BY <1>1, CommandSent
<1>3. UNCHANGED <<storeVars, world, handles, package, debounce, valid, validation, baseline, scenario>>
      /\ evaluation' = commands + 1 /\ result' = NoResult /\ busy' = TRUE /\ timer' = TRUE
  BY DEF Evaluate
<1>4. StoreInv'
  BY <1>1, <1>3, StoreStays
<1>5. TabTypeOK'
  <2>1. world' = world /\ current' = current /\ fingerprint' = fingerprint /\ context' = context
        /\ package' = package /\ debounce' = debounce /\ valid' = valid /\ validation' = validation
        /\ baseline' = baseline /\ scenario' = scenario /\ identities' = identities
    BY <1>3 DEF handles, storeVars
  <2>2. evaluation' \in CommandIds
    BY <1>2, <1>3
  <2> QED BY <1>1, <1>3, <2>1, <2>2 DEF Rest, TabTypeOK
<1>6. validation # commands + 1 /\ validation' <= commands'
  BY <1>1, <1>2, <1>3, ComparatorAssumption DEF Rest, TabInv, TabTypeOK, CommandIds
<1>7. current # NoWorker /\ Asked(workers[current])
  BY <1>1, CurrentWorker DEF Rest, TabInv
<1>8. Asked(workers[current])'
  <2>1. \A i \in DOMAIN workers[current].inbox : workers[current].inbox[i].id # validation
    BY <1>1, <1>7 DEF Asked
  <2>2. \A i \in DOMAIN workers[current].outbox :
          ~(workers[current].outbox[i].kind = "validation" /\ workers[current].outbox[i].id = validation)
    BY <1>1, <1>7 DEF Asked
  <2>3. current' = current /\ validation' = validation
    BY <1>3 DEF handles
  <2>4. \A i \in DOMAIN workers'[current].inbox : workers'[current].inbox[i].id # validation
    BY <1>2, <1>6, <2>1
  <2>5. \A i \in DOMAIN workers'[current].outbox :
          ~(workers'[current].outbox[i].kind = "validation" /\ workers'[current].outbox[i].id = validation)
    BY <1>2, <2>2
  <2> QED BY <2>3, <2>4, <2>5 DEF Asked
<1>9. TabInv'
  BY <1>1, <1>2, <1>3, <1>6, <1>8
  DEF Rest, TabInv, ValidatedPackage, ShownIsCurrent, ShownIsLegal, BusyIsTimed, handles
<1> QED BY <1>2, <1>4, <1>5, <1>9 DEF IInv, Rest

\* The validation asked for is of the selection that is ticked.
LEMMA StepDebounced == ASSUME IInv, Debounced PROVE IInv'
<1>1. Rest /\ StoreInv /\ commands \in Nat /\ debounce /\ validation = NoCommand /\ ~valid
  BY CurrentWorker DEF IInv, Debounced, Rest, TabInv
<1>2. StoreInv'
  BY <1>1, StoreStays DEF Debounced
<1>3. UNCHANGED <<storeVars, world, loads, handles, package, busy, timer, valid, evaluation, result,
                  baseline, scenario>> /\ debounce' = FALSE
  BY DEF Debounced
<1>4. ASSUME context # NoContext, ~busy, Send("validate"), validation' = commands + 1 PROVE Rest'
  <2>1. /\ PipesTypeOK' /\ PipesInv'
        /\ commands' = commands + 1 /\ commands' \in CommandIds
        /\ current \in Loads
        /\ workers'[current].state = workers[current].state
        /\ workers'[current].context = workers[current].context
        /\ workers'[current].outbox = workers[current].outbox
        /\ \A i \in DOMAIN workers'[current].inbox :
             \/ /\ workers'[current].inbox[i].id = commands + 1
                /\ workers'[current].inbox[i].package = package
             \/ /\ i \in DOMAIN workers[current].inbox
                /\ workers'[current].inbox[i] = workers[current].inbox[i]
    BY <1>1, <1>3, <1>4, CommandSent
  <2>2. TabTypeOK'
    BY <1>1, <1>3, <1>4, <2>1 DEF Rest, TabTypeOK, handles, storeVars
  <2>3. Orderly(workers[current], commands)
    BY <1>1, <2>1, CurrentWorker
  <2>4. Asked(workers[current])'
    <3>1. current' = current /\ package' = package /\ valid' = valid /\ busy' = busy
      BY <1>3 DEF handles
    <3>2. \A i \in DOMAIN workers[current].inbox : workers[current].inbox[i].id # commands + 1
      BY <1>1, <2>3 DEF Orderly
    <3>3. \A i \in DOMAIN workers[current].outbox : workers[current].outbox[i].id # commands + 1
      BY <1>1, <2>3 DEF Orderly
    <3>4. \A i \in DOMAIN workers'[current].inbox :
            workers'[current].inbox[i].id = commands + 1 => workers'[current].inbox[i].package = package
      BY <2>1, <3>2
    <3> QED BY <1>1, <1>4, <2>1, <3>1, <3>3, <3>4 DEF Asked
  <2>5. TabInv'
    BY <1>1, <1>3, <1>4, <2>1, <2>4
    DEF Rest, TabInv, ValidatedPackage, ShownIsCurrent, ShownIsLegal, BusyIsTimed, handles
  <2> QED BY <2>1, <2>2, <2>5 DEF Rest
<1>5. ASSUME UNCHANGED <<workers, commands, validation>> PROVE Rest'
  <2>1. PipesTypeOK' /\ PipesInv'
    BY <1>1, <1>3, <1>5 DEF Rest, PipesTypeOK, PipesInv
  <2>2. TabTypeOK'
    BY <1>1, <1>3, <1>5 DEF Rest, TabTypeOK, handles, storeVars
  <2>3. (current # NoWorker => Asked(workers[current]))'
    BY <1>1, <1>3, <1>5 DEF Rest, TabInv, Asked, handles
  <2>4. TabInv'
    BY <1>1, <1>3, <1>5, <2>3 DEF Rest, TabInv, ValidatedPackage, ShownIsCurrent, ShownIsLegal, BusyIsTimed, handles
  <2> QED BY <2>1, <2>2, <2>4 DEF Rest
<1>6. Rest'
  BY <1>4, <1>5 DEF Debounced
<1> QED BY <1>2, <1>6 DEF IInv

-----------------------------------------------------------------------------
(* The workers *)

\* A worker that starts or fails to start has nothing to answer.
LEMMA StepWorkerStart ==
  ASSUME IInv, NEW n \in Loads, WorkerReady(n) \/ WorkerRefuses(n)
  PROVE IInv'
<1> DEFINE w == workers[n]
<1>1. Rest /\ StoreInv /\ w \in Workers /\ Orderly(w, commands) /\ Truthful(w) /\ commands \in Nat
      /\ w.state = "starting" /\ w.context \in Contexts /\ world \in Contexts
  BY CurrentWorker, ComparatorAssumption
  DEF IInv, WorkerReady, WorkerRefuses, Rest, TabTypeOK, Worlds, Truthful
<1>2. StoreInv' /\ identities' = identities
  BY <1>1, StoreStays DEF WorkerReady, WorkerRefuses, OutsideTab, storeVars
<1>3. UNCHANGED <<world, loads, commands, tabVars>>
  BY DEF WorkerReady, WorkerRefuses, OutsideTab
<1>4. ASSUME NEW line \in Lines, line.id = NoCommand, line.kind \in {"ready", "error"},
             NEW c \in Contexts, NEW st \in {"running", "exited"}, line.kind = "ready" => line.context = c,
             workers' = [workers EXCEPT ![n] =
                           [w EXCEPT !.state = st, !.context = c, !.outbox = Append(@, line)]]
      PROVE Rest'
  <2> DEFINE v == [w EXCEPT !.state = st, !.context = c, !.outbox = Append(@, line)]
  <2>1. Started(w, st, c, line, v)
    BY DEF Started
  <2>2. workers' = [workers EXCEPT ![n] = v]
    BY <1>4
  <2> HIDE DEF v, w
  <2>3. v \in Workers /\ Orderly(v, commands) /\ Truthful(v) /\ v.inbox = <<>>
        /\ \A i \in DOMAIN v.outbox : v.outbox[i] = line
    BY <1>1, <1>4, <2>1, WorkerStarted
  <2> USE DEF w
  <2>4. DOMAIN v.inbox = {}
    BY <2>3
  <2>5. Asked(v)
    BY <1>4, <2>3, <2>4 DEF Asked
  <2> QED BY <1>1, <1>2, <1>3, <2>3, <2>2, <2>5, WorkerMoves
<1>5. ASSUME WorkerReady(n) PROVE Rest'
  <2>1. PICK c \in {w.context, world} :
          workers' = [workers EXCEPT ![n].state = "running", ![n].context = c,
                        ![n].outbox = Append(@, Line("ready", NoCommand, c, Hold, FALSE))]
    BY <1>5 DEF WorkerReady
  <2>2. c \in Contexts
    BY <1>1
  <2>3. Line("ready", NoCommand, c, Hold, FALSE) \in Lines
    BY <2>2, ComparatorAssumption DEF Line, Lines, CommandIds, NoCommand, Selections
  <2>4. Line("ready", NoCommand, c, Hold, FALSE).id = NoCommand
        /\ Line("ready", NoCommand, c, Hold, FALSE).kind = "ready"
        /\ Line("ready", NoCommand, c, Hold, FALSE).context = c
    BY DEF Line
  <2>5. workers' = [workers EXCEPT ![n] =
                      [w EXCEPT !.state = "running", !.context = c,
                         !.outbox = Append(@, Line("ready", NoCommand, c, Hold, FALSE))]]
    BY <1>1, <2>1 DEF Rest, PipesTypeOK, Workers
  <2> QED BY <1>4, <2>2, <2>3, <2>4, <2>5
<1>6. ASSUME WorkerRefuses(n) PROVE Rest'
  <2> DEFINE line == Line("error", NoCommand, NoContext, Hold, FALSE)
  <2>1. line \in Lines /\ line.id = NoCommand /\ line.kind = "error"
    BY ComparatorAssumption DEF Line, Lines, CommandIds, NoCommand, Selections
  <2>2. workers' = [workers EXCEPT ![n] =
                      [w EXCEPT !.state = "exited", !.context = w.context, !.outbox = Append(@, line)]]
    BY <1>1, <1>6 DEF WorkerRefuses, Rest, PipesTypeOK, Workers
  <2> HIDE DEF line
  <2> QED BY <1>1, <1>4, <2>1, <2>2
<1> QED BY <1>2, <1>5, <1>6 DEF IInv

\* An answer is of the command's selection.
LEMMA StepWorkerAnswers == ASSUME IInv, NEW n \in Loads, WorkerAnswers(n) PROVE IInv'
<1> DEFINE w == workers[n]
           c == Head(w.inbox)
<1>1. Rest /\ StoreInv /\ w \in Workers /\ Orderly(w, commands) /\ Truthful(w) /\ commands \in Nat
      /\ w.state = "running" /\ w.inbox # <<>> /\ w.context \in Contexts
  BY CurrentWorker DEF IInv, WorkerAnswers, Truthful
<1>2. StoreInv' /\ UNCHANGED <<world, loads, commands, tabVars, identities>>
  BY <1>1, StoreStays DEF WorkerAnswers, OutsideTab, storeVars
<1>3. c \in Commands
  BY <1>1, WorkerFields
<1>4. PICK a \in Answers(n, c) :
        workers' = [workers EXCEPT ![n].inbox = Tail(@), ![n].outbox = Append(@, a)]
  BY DEF WorkerAnswers
<1>5. /\ a \in Lines /\ a.id = c.id /\ a.kind # "ready" /\ a.package = c.package
      /\ a.kind = "validation" => /\ a.context \in Contexts
                                  /\ a.valid => <<a.context, a.package>> \in Legal
      /\ a.kind = "result" => <<a.context, a.package>> \in Legal
  <2>1. ASSUME a = Line("error", c.id, NoContext, c.package, FALSE)
        PROVE a \in Lines /\ a.id = c.id /\ a.package = c.package /\ a.kind = "error"
    BY <1>3, <2>1 DEF Line, Lines, Commands
  <2>2. ASSUME a = Line("validation", c.id, w.context, c.package, <<w.context, c.package>> \in Legal)
        PROVE a \in Lines /\ a.id = c.id /\ a.package = c.package /\ a.kind = "validation"
              /\ a.context \in Contexts /\ (a.valid => <<a.context, a.package>> \in Legal)
    <3>1. (<<w.context, c.package>> \in Legal) \in BOOLEAN
      OBVIOUS
    <3> QED BY <1>1, <1>3, <2>2, <3>1 DEF Line, Lines, Commands
  <2>3. ASSUME a = Line("result", c.id, w.context, c.package, TRUE),
               <<w.context, c.package>> \in Legal
        PROVE a \in Lines /\ a.id = c.id /\ a.package = c.package /\ a.kind = "result"
              /\ <<a.context, a.package>> \in Legal
    BY <1>1, <1>3, <2>3 DEF Line, Lines, Commands
  <2> QED BY <2>1, <2>2, <2>3 DEF Answers
<1> DEFINE v == [w EXCEPT !.inbox = Tail(@), !.outbox = Append(@, a)]
<1>6. Answered(w, a, v)
  BY DEF Answered
<1>7. workers' = [workers EXCEPT ![n] = v]
  BY <1>1, <1>4 DEF Rest, PipesTypeOK, Workers
<1> HIDE DEF v, w, c
<1>8. /\ v \in Workers /\ Orderly(v, commands) /\ Truthful(v)
      /\ v.state = w.state /\ v.context = w.context
      /\ \A i \in DOMAIN v.inbox : i + 1 \in DOMAIN w.inbox /\ v.inbox[i] = w.inbox[i + 1]
      /\ 1 \in DOMAIN w.inbox /\ a.id = w.inbox[1].id /\ a.package = w.inbox[1].package
      /\ \A i \in DOMAIN v.outbox :
           v.outbox[i] = a \/ (i \in DOMAIN w.outbox /\ v.outbox[i] = w.outbox[i])
  <2>1. a.id = Head(w.inbox).id /\ a.package = Head(w.inbox).package
    BY <1>5 DEF c
  <2> QED BY <1>1, <1>5, <1>6, <2>1, CommandAnswered
<1>9. Asked(w) => Asked(v)
  BY <1>8 DEF Asked
<1> USE DEF w
<1>10. Rest'
  BY <1>1, <1>2, <1>8, <1>7, <1>9, WorkerMoves
<1> QED BY <1>2, <1>10 DEF IInv

\* A dead worker has nothing left to answer.
LEMMA StepWorkerDies == ASSUME IInv, NEW n \in Loads, WorkerDies(n) PROVE IInv'
<1> DEFINE w == workers[n]
           v == [w EXCEPT !.state = "crashed", !.inbox = <<>>]
<1>1. Rest /\ StoreInv /\ w \in Workers /\ Orderly(w, commands) /\ Truthful(w) /\ commands \in Nat
      /\ w.state \in {"starting", "running"}
  BY CurrentWorker DEF IInv, WorkerDies
<1>2. StoreInv' /\ UNCHANGED <<world, loads, commands, tabVars, identities>>
  BY <1>1, StoreStays DEF WorkerDies, OutsideTab, storeVars
<1>3. v \in Workers /\ Orderly(v, commands) /\ Truthful(v)
      /\ v.state = "crashed" /\ v.context = w.context /\ v.outbox = w.outbox /\ v.inbox = <<>>
  BY <1>1, WorkerDied
<1>4. workers' = [workers EXCEPT ![n] = v]
  BY <1>1 DEF WorkerDies, Rest, PipesTypeOK, Workers
<1> HIDE DEF v
<1>5. DOMAIN v.inbox = {}
  BY <1>3
<1>6. Asked(w) => Asked(v)
  BY <1>3, <1>5 DEF Asked
<1>7. Rest'
  BY <1>1, <1>2, <1>3, <1>4, <1>6, WorkerMoves
<1> QED BY <1>2, <1>7 DEF IInv

-----------------------------------------------------------------------------
(* What the tab makes of a line *)

\* The line is of the current worker, and the rest of the pipe is as sound as before.
LEMMA LineHeard ==
  ASSUME Rest, NEW n \in Loads, Hears(n), TakeLine(n), NEW line, line = Head(workers[n].outbox)
  PROVE /\ PipesTypeOK' /\ PipesInv' /\ commands' = commands /\ loads' = loads /\ world' = world
        /\ n = current /\ line \in Lines
        /\ workers'[n].context = workers[n].context /\ workers'[n].state = workers[n].state
        /\ workers[n].state # "starting"
        /\ Asked(workers[n]) /\ Asked(workers'[n])
        /\ line.kind = "ready" => line.context = workers[n].context /\ line.context \in Contexts
        /\ line.kind = "validation" =>
             /\ line.id # NoCommand /\ line.context \in Contexts
             /\ line.valid => <<line.context, line.package>> \in Legal
             /\ line.id = validation => line.package = package /\ ~busy
        /\ line.kind = "result" => <<line.context, line.package>> \in Legal
        /\ line.kind = "validation" /\ line.id = validation =>
             /\ \A i \in DOMAIN workers'[n].inbox : workers'[n].inbox[i].id # validation
             /\ \A i \in DOMAIN workers'[n].outbox : workers'[n].outbox[i].id # validation
        /\ \A i \in DOMAIN workers'[n].inbox : workers'[n].inbox[i].id # NoCommand
        /\ \A i \in DOMAIN workers'[n].outbox :
             workers'[n].outbox[i].kind = "validation" => workers'[n].outbox[i].id # NoCommand
<1> DEFINE w == workers[n]
           v == workers'[n]
<1>1. n = current /\ w \in Workers /\ Orderly(w, commands) /\ Truthful(w) /\ w.outbox # <<>>
      /\ commands \in Nat /\ n # NoWorker /\ Asked(w)
  BY CurrentWorker, ComparatorAssumption DEF Hears, Rest, TabInv, Loads, NoWorker
<1>2. workers' = [workers EXCEPT ![n] = [w EXCEPT !.outbox = Tail(@)]]
      /\ commands' = commands /\ loads' = loads /\ world' = world
  BY DEF TakeLine
<1>3. v = [w EXCEPT !.outbox = Tail(@)] /\ \A m \in Loads : m # n => workers'[m] = workers[m]
  BY <1>2 DEF Rest, PipesTypeOK
<1>4. LineTaken(w, v)
  BY <1>3 DEF LineTaken
<1>5. w.outbox \in Seq(Lines)
  BY <1>1, WorkerFields
<1>6. 1 \in DOMAIN w.outbox /\ line = w.outbox[1]
  BY <1>1, <1>5
<1> HIDE DEF w, v
<1>7. /\ v \in Workers /\ Orderly(v, commands) /\ Truthful(v)
      /\ v.state = w.state /\ v.context = w.context /\ v.inbox = w.inbox
      /\ \A i \in DOMAIN v.outbox : i + 1 \in DOMAIN w.outbox /\ v.outbox[i] = w.outbox[i + 1]
      /\ \A i \in DOMAIN v.inbox : v.inbox[i].id # Head(w.outbox).id
      /\ Head(w.outbox).id # NoCommand =>
           \A i \in DOMAIN v.outbox : v.outbox[i].id # Head(w.outbox).id
      /\ Head(w.outbox) \in Lines
      /\ Head(w.outbox).kind = "ready" =>
           Head(w.outbox).context = w.context /\ w.context \in Contexts
      /\ w.state # "starting"
      /\ Head(w.outbox).kind = "validation" =>
           /\ Head(w.outbox).id # NoCommand
           /\ Head(w.outbox).context \in Contexts
           /\ Head(w.outbox).valid =>
                <<Head(w.outbox).context, Head(w.outbox).package>> \in Legal
      /\ Head(w.outbox).kind = "result" =>
           <<Head(w.outbox).context, Head(w.outbox).package>> \in Legal
  BY <1>1, <1>4, LineRead
<1>8. line = Head(w.outbox)
  BY DEF w
<1>9. PipesTypeOK'
  <2>1. workers' = [workers EXCEPT ![n] = v]
    BY <1>2, <1>3 DEF v, w
  <2> QED BY <1>2, <1>7, <2>1 DEF Rest, PipesTypeOK
<1>10. PipesInv'
  <2>1. \A m \in Loads : Orderly(workers'[m], commands) /\ Truthful(workers'[m])
    BY <1>3, <1>7 DEF Rest, PipesInv, v
  <2> QED BY <1>2, <2>1 DEF PipesInv
<1>11. Asked(v)
  BY <1>1, <1>7 DEF Asked
<1>12. line.kind = "validation" /\ line.id = validation => line.package = package /\ ~busy
  BY <1>1, <1>6 DEF Asked
<1>13. \A i \in DOMAIN v.inbox : v.inbox[i].id # NoCommand
  BY <1>7 DEF Orderly, NoCommand
<1>14. \A i \in DOMAIN v.outbox : v.outbox[i].kind = "validation" => v.outbox[i].id # NoCommand
  BY <1>7 DEF Truthful
<1>15. v = workers'[n] /\ w = workers[n]
  BY DEF v, w
<1>16. line.kind = "ready" => line.context = w.context /\ line.context \in Contexts
  BY <1>7, <1>8
<1>17. line.kind = "validation" =>
         /\ line.id # NoCommand /\ line.context \in Contexts
         /\ line.valid => <<line.context, line.package>> \in Legal
         /\ line.id = validation => line.package = package /\ ~busy
  BY <1>7, <1>8, <1>12
<1>18. line.kind = "validation" /\ line.id = validation =>
         /\ \A i \in DOMAIN v.inbox : v.inbox[i].id # validation
         /\ \A i \in DOMAIN v.outbox : v.outbox[i].id # validation
  BY <1>7, <1>8
<1>19. line.kind = "result" => <<line.context, line.package>> \in Legal
  BY <1>7, <1>8
<1> QED BY <1>1, <1>2, <1>7, <1>8, <1>9, <1>10, <1>11, <1>13, <1>14, <1>15, <1>16, <1>17, <1>18, <1>19

\* The handshake shows the context of the worker and waits for nothing.
LEMMA MessageReady ==
  ASSUME IInv, NEW n \in Loads, Hears(n), TakeLine(n), NEW line, line = Head(workers[n].outbox),
         line.kind = "ready", ReadyCame(line)
  PROVE IInv'
<1> USE DEF ReadyCame, Edited
<1>1. StoreInv' /\ identities' = identities
  BY StoreStays DEF IInv, storeVars
<1>2. /\ PipesTypeOK' /\ PipesInv' /\ commands' = commands /\ loads' = loads /\ world' = world
      /\ n = current /\ line.context = workers[n].context /\ line.context \in Contexts
      /\ workers'[n].context = workers[n].context /\ workers'[n].state = workers[n].state
      /\ workers[n].state # "starting"
      /\ \A i \in DOMAIN workers'[n].inbox : workers'[n].inbox[i].id # NoCommand
      /\ \A i \in DOMAIN workers'[n].outbox :
           workers'[n].outbox[i].kind = "validation" => workers'[n].outbox[i].id # NoCommand
  BY LineHeard DEF IInv
<1>3. current # NoWorker /\ current' = current /\ 0 <= commands
  BY CurrentWorker DEF IInv, Hears, Loads, NoWorker
<1>4. context # NoContext => context = line.context
  BY <1>2 DEF IInv, Rest, TabInv, ShownIsCurrent, ShownIsLegal
<1>5. TabTypeOK'
  <2>1. validation' \in CommandIds /\ Hold \in Selections
    BY ComparatorAssumption DEF CommandIds, NoCommand, Selections
  <2>2. busy' \in BOOLEAN /\ valid' \in BOOLEAN /\ timer' \in BOOLEAN /\ debounce' \in BOOLEAN
    OBVIOUS
  <2>3. context' \in {NoContext} \cup Contexts
    BY <1>2
  <2> QED BY <1>1, <1>2, <2>1, <2>2, <2>3 DEF IInv, Rest, TabTypeOK
<1>6. Asked(workers[current])'
  BY <1>2, <1>3 DEF Asked
<1>7. ShownIsCurrent'
  BY <1>2, <1>3, <1>4 DEF IInv, Rest, TabInv, ShownIsCurrent, ShownIsLegal
<1>8. TabInv'
  BY <1>2, <1>3, <1>6, <1>7 DEF TabInv, ValidatedPackage, BusyIsTimed, ShownIsLegal, NoCommand
<1> QED BY <1>1, <1>2, <1>5, <1>8 DEF IInv, Rest

\* A validation counts only for the present selection, and no second one comes.
LEMMA MessageValidation ==
  ASSUME IInv, NEW n \in Loads, Hears(n), TakeLine(n), NEW line, line = Head(workers[n].outbox),
         line.kind = "validation", ValidationCame(line)
  PROVE IInv'
<1> USE DEF ValidationCame, handles
<1>1. StoreInv' /\ identities' = identities
  BY StoreStays DEF IInv, storeVars
<1>2. /\ PipesTypeOK' /\ PipesInv' /\ commands' = commands /\ loads' = loads /\ world' = world
      /\ n = current /\ line \in Lines
      /\ workers'[n].context = workers[n].context /\ workers'[n].state = workers[n].state
      /\ Asked(workers'[n])
      /\ line.id # NoCommand /\ line.context \in Contexts
      /\ line.valid => <<line.context, line.package>> \in Legal
      /\ line.id = validation => line.package = package /\ ~busy
      /\ line.id = validation =>
           /\ \A i \in DOMAIN workers'[n].inbox : workers'[n].inbox[i].id # validation
           /\ \A i \in DOMAIN workers'[n].outbox : workers'[n].outbox[i].id # validation
  BY LineHeard DEF IInv
<1>3. TabTypeOK'
  <2>1. line.valid \in BOOLEAN
    BY <1>2 DEF Lines
  <2>2. valid' \in BOOLEAN /\ busy' \in BOOLEAN
    BY <2>1 DEF IInv, Rest, TabTypeOK
  <2> QED BY <1>1, <1>2, <2>2 DEF IInv, Rest, TabTypeOK
<1>4. ASSUME line.id = validation, line.context = context PROVE TabInv'
  <2>1. Asked(workers[current])'
    BY <1>2, <1>4 DEF Asked
  <2>2. valid' = line.valid /\ busy' = FALSE /\ timer' = timer /\ busy = FALSE /\ ~debounce
    BY <1>2, <1>4 DEF IInv, Rest, TabInv, TabTypeOK
  <2>3. ValidatedPackage'
    <3>1. context' = context /\ package' = package /\ context # NoContext
      BY <1>2, <1>4, ComparatorAssumption DEF NoContext
    <3>2. line.valid => <<context, package>> \in Legal
      BY <1>2, <1>4
    <3> QED BY <2>2, <3>1, <3>2 DEF ValidatedPackage
  <2>4. BusyIsTimed'
    BY <2>2 DEF IInv, Rest, TabInv, BusyIsTimed, ShownIsLegal
  <2>5. ShownIsCurrent'
    BY <1>2 DEF IInv, Rest, TabInv, ShownIsCurrent, ShownIsLegal
  <2> QED BY <1>2, <2>1, <2>2, <2>3, <2>4, <2>5 DEF IInv, Rest, TabInv, ShownIsCurrent, ShownIsLegal
<1>5. ASSUME ~(line.id = validation /\ line.context = context) PROVE TabInv'
  <2>1. UNCHANGED <<current, context, package, busy, valid, timer, debounce, validation, result, baseline>>
    BY <1>5
  <2>2. Asked(workers[current])'
    BY <1>2, <2>1 DEF Asked
  <2>3. ShownIsCurrent' /\ ValidatedPackage' /\ BusyIsTimed'
    BY <1>2, <2>1 DEF IInv, Rest, TabInv, ShownIsCurrent, ShownIsLegal, ValidatedPackage, BusyIsTimed
  <2> QED BY <1>2, <2>1, <2>2, <2>3 DEF IInv, Rest, TabInv, ShownIsCurrent, ShownIsLegal
<1> QED BY <1>1, <1>2, <1>3, <1>4, <1>5 DEF IInv, Rest

\* A line that changes at most busy, timer, valid, result and baseline, makes the tab
\* idle or leaves busy and timer alone, and claims nothing new.
LEMMA MessageTaken ==
  ASSUME IInv, NEW n \in Loads, Hears(n), TakeLine(n),
         UNCHANGED <<handles, package, debounce, validation, evaluation, scenario>>,
         StoreInv', identities' = identities,
         \/ busy' = FALSE /\ timer' = FALSE
         \/ UNCHANGED <<busy, timer>>,
         valid' = FALSE \/ valid' = valid,
         \/ UNCHANGED <<result, baseline>>
         \/ result' = NoResult /\ baseline' = NoContext
         \/ /\ context # NoContext /\ <<context, package>> \in Legal
            /\ result' = [context |-> context, package |-> package] /\ baseline' = context
  PROVE IInv'
<1> USE DEF handles
<1> DEFINE line == Head(workers[n].outbox)
<1>1. /\ PipesTypeOK' /\ PipesInv' /\ commands' = commands /\ loads' = loads /\ world' = world
      /\ n = current
      /\ workers'[n].context = workers[n].context /\ workers'[n].state = workers[n].state
      /\ Asked(workers'[n])
  BY LineHeard DEF IInv
<1>2. UNCHANGED <<current, context, package, debounce, validation>>
  OBVIOUS
<1>3. TabTypeOK'
  <2>1. valid' \in BOOLEAN /\ busy' \in BOOLEAN /\ timer' \in BOOLEAN
    BY DEF IInv, Rest, TabTypeOK
  <2>2. result' \in Results \cup {NoResult} /\ baseline' \in {NoContext} \cup Contexts
    BY ComparatorAssumption DEF IInv, Rest, TabTypeOK, Results
  <2> QED BY <1>1, <2>1, <2>2 DEF IInv, Rest, TabTypeOK
<1>4. (valid' => valid) /\ (busy' => busy)
  BY DEF IInv, Rest, TabTypeOK
<1>5. Asked(workers[current])'
  BY <1>1, <1>2, <1>4 DEF Asked
<1>6. BusyIsTimed' /\ ValidatedPackage'
  BY <1>2, <1>4 DEF IInv, Rest, TabInv, BusyIsTimed, ValidatedPackage
<1>7. ShownIsCurrent'
  BY <1>1, <1>2, ComparatorAssumption DEF IInv, Rest, TabInv, ShownIsCurrent, ShownIsLegal
<1>8. ShownIsLegal'
  BY <1>1, <1>2, ComparatorAssumption DEF IInv, Rest, TabInv, ShownIsLegal
<1>9. TabInv'
  BY <1>1, <1>2, <1>4, <1>5, <1>6, <1>7, <1>8 DEF IInv, Rest, TabInv, ShownIsCurrent
<1> QED BY <1>1, <1>3, <1>9 DEF IInv, Rest

\* A result is shown and saved for the selection it was asked for.
LEMMA MessageResult ==
  ASSUME IInv, NEW n \in Loads, Hears(n), TakeLine(n), NEW line, line = Head(workers[n].outbox),
         line.kind = "result", ResultCame(line)
  PROVE IInv'
<1>0. /\ PipesTypeOK' /\ PipesInv' /\ commands' = commands /\ loads' = loads /\ world' = world
      /\ n = current /\ <<line.context, line.package>> \in Legal
  BY LineHeard DEF IInv
<1>1. ASSUME line.id # evaluation, UNCHANGED <<storeVars, tabVars>> PROVE IInv'
  <2>1. StoreInv' /\ identities' = identities
    BY <1>1, StoreStays DEF IInv, storeVars
  <2>2. UNCHANGED <<handles, package, debounce, validation, evaluation, scenario>>
        /\ UNCHANGED <<busy, timer>> /\ valid' = valid /\ UNCHANGED <<result, baseline>>
    BY <1>1 DEF tabVars, answerVars
  <2> QED BY <2>1, <2>2, MessageTaken
<1>2. ASSUME GivenUp, UNCHANGED storeVars PROVE IInv'
  <2>1. StoreInv' /\ identities' = identities
    BY <1>2, StoreStays DEF IInv, storeVars
  <2> QED BY <1>0, <1>2, <2>1, TabGivesUp DEF IInv
<1>3. ASSUME line.context = context, timer' = FALSE, busy' = FALSE,
             UNCHANGED <<handles, package, debounce, valid, validation, evaluation, scenario>>,
             IF line.package = package
             THEN /\ result' = [context |-> context, package |-> package]
                  /\ baseline' = context
                  /\ IF scenario # NoId /\ valid
                     THEN SaveBegins(scenario, result')
                     ELSE UNCHANGED storeVars
             ELSE result' = NoResult /\ baseline' = NoContext /\ UNCHANGED storeVars
      PROVE IInv'
  <2>1. Window \in Clients /\ StoreInv /\ StoreTypeOK /\ scenario \in 0..identities
    BY ComparatorAssumption DEF IInv, StoreInv, Rest, TabTypeOK
  <2>2. ASSUME line.package = package
        PROVE context # NoContext /\ package \in Packages /\ <<context, package>> \in Legal
    BY <1>0, <1>3, <2>2, ComparatorAssumption DEF NoContext
  <2>3. ASSUME line.package = package, valid, SaveBegins(scenario, result'),
               result' = [context |-> context, package |-> package]
        PROVE StoreInv' /\ identities' = identities
    <3> DEFINE x == [context |-> context, package |-> package]
               o == [op |-> "save", row |-> Row(scenario, context, package, x)]
    <3>1. x \in Results \cup {NoResult} /\ Belongs(x, context, package)
      BY <1>0, <1>3, <2>2, <2>3, ComparatorAssumption DEF Results, Belongs
    <3>2. Load(Window, o)
      BY <2>3 DEF SaveBegins
    <3> HIDE DEF x
    <3>3. o \in Operations /\ SoundOperation(o)
      BY <2>1, <2>2, <2>3, <3>1, RowToSave
    <3> QED BY <2>1, <3>2, <3>3, StoreLoad DEF Load
  <2>4. ASSUME UNCHANGED storeVars PROVE StoreInv' /\ identities' = identities
    BY <2>1, <2>4, StoreStays DEF storeVars
  <2>5. StoreInv' /\ identities' = identities
    BY <1>3, <2>3, <2>4
  <2>6. \/ result' = NoResult /\ baseline' = NoContext
        \/ /\ context # NoContext /\ <<context, package>> \in Legal
           /\ result' = [context |-> context, package |-> package] /\ baseline' = context
    BY <1>3, <2>2
  <2> QED BY <1>3, <2>5, <2>6, MessageTaken
<1> QED BY <1>1, <1>2, <1>3 DEF ResultCame

\* A refused command leaves the tab idle and disabled.
LEMMA MessageError ==
  ASSUME IInv, NEW n \in Loads, Hears(n), TakeLine(n), NEW line, line = Head(workers[n].outbox),
         line.kind = "error", ErrorCame(line)
  PROVE IInv'
<1>1. StoreInv' /\ identities' = identities
  BY StoreStays DEF IInv, ErrorCame, storeVars
<1>2. PipesTypeOK' /\ PipesInv' /\ commands' = commands /\ loads' = loads /\ world' = world
  BY LineHeard DEF IInv
<1>3. ASSUME UNCHANGED tabVars PROVE IInv'
  <2>1. UNCHANGED <<handles, package, debounce, validation, evaluation, scenario>>
        /\ UNCHANGED <<busy, timer>> /\ valid' = valid /\ UNCHANGED <<result, baseline>>
    BY <1>3 DEF tabVars, answerVars
  <2> QED BY <1>1, <2>1, MessageTaken
<1>4. ASSUME GivenUp PROVE IInv'
  BY <1>1, <1>2, <1>4, TabGivesUp DEF IInv
<1>5. ASSUME timer' = FALSE, busy' = FALSE, valid' = FALSE,
             UNCHANGED <<handles, package, debounce, validation, evaluation, result, baseline,
                         scenario>>
      PROVE IInv'
  BY <1>1, <1>5, MessageTaken
<1> QED BY <1>3, <1>4, <1>5 DEF ErrorCame

\* Whatever the line, its handler keeps the invariant.
LEMMA StepHandleMessage == ASSUME IInv, NEW n \in Loads, HandleMessage(n) PROVE IInv'
<1> DEFINE line == Head(workers[n].outbox)
<1>1. Hears(n) /\ TakeLine(n) /\ line.kind \in {"ready", "validation", "result", "error"}
  <2>1. Hears(n) /\ TakeLine(n)
    BY DEF HandleMessage
  <2>2. line \in Lines
    BY <2>1, LineHeard DEF IInv
  <2> QED BY <2>1, <2>2 DEF Lines
<1>2. ASSUME line.kind = "ready" PROVE IInv'
  BY <1>1, <1>2, MessageReady DEF HandleMessage
<1>3. ASSUME line.kind = "validation" PROVE IInv'
  BY <1>1, <1>3, MessageValidation DEF HandleMessage
<1>4. ASSUME line.kind = "result" PROVE IInv'
  BY <1>1, <1>4, MessageResult DEF HandleMessage
<1>5. ASSUME line.kind = "error" PROVE IInv'
  BY <1>1, <1>5, MessageError DEF HandleMessage
<1> QED BY <1>1, <1>2, <1>3, <1>4, <1>5

-----------------------------------------------------------------------------
(* The theorems *)

\* Nothing is open at the start.
LEMMA InitInv == Init => IInv
<1> SUFFICES ASSUME Init PROVE IInv
  OBVIOUS
<1> USE ComparatorAssumption DEF Init, StoreInit
<1>1. StoreInv
  BY DEF StoreInv, StoreTypeOK, Sound, SoundOperation
<1>2. <<>> \in Seq(Commands) /\ <<>> \in Seq(Lines)
  OBVIOUS
<1>3. NoProcess \in Workers
  BY <1>2 DEF NoProcess, Workers
<1>4. PipesTypeOK
  BY <1>3 DEF PipesTypeOK, CommandIds
<1>5. \A n \in Loads : workers[n] = NoProcess
  OBVIOUS
<1>6. Orderly(NoProcess, 0) /\ Truthful(NoProcess)
  BY DEF Orderly, Truthful, NoProcess
<1>7. PipesInv
  BY <1>5, <1>6 DEF PipesInv
<1>8. TabTypeOK
  <2>1. current \in 0..loads /\ scenario \in 0..identities /\ world \in Worlds
    BY DEF Worlds, NoWorker, NoId
  <2>2. validation \in CommandIds /\ evaluation \in CommandIds /\ package \in Selections
    BY DEF CommandIds, NoCommand, Selections
  <2>3. busy \in BOOLEAN /\ valid \in BOOLEAN /\ timer \in BOOLEAN /\ debounce \in BOOLEAN
    OBVIOUS
  <2>4. fingerprint \in {0} \cup Worlds /\ context \in {NoContext} \cup Contexts
        /\ result \in Results \cup {NoResult} /\ baseline \in {NoContext} \cup Contexts
    OBVIOUS
  <2> QED BY <2>1, <2>2, <2>3, <2>4 DEF TabTypeOK
<1>9. TabInv
  BY DEF TabInv, ValidatedPackage, ShownIsCurrent, ShownIsLegal, BusyIsTimed, NoCommand, NoWorker, NoContext
<1> QED BY <1>1, <1>4, <1>7, <1>8, <1>9 DEF IInv, Rest

\* Every step keeps the invariant.
LEMMA NextInv == IInv /\ [Next]_vars => IInv'
<1> SUFFICES ASSUME IInv, [Next]_vars PROVE IInv'
  OBVIOUS
<1>1. ASSUME UserStep PROVE IInv'
  <2>1. ASSUME Cancel PROVE IInv'
    BY <2>1, StepGivenUp DEF Cancel
  <2>2. ASSUME (\E p \in Selections : Edit(p)) \/ ResetHold \/ \E r \in scenarios : LoadSaved(r)
        PROVE IInv'
    BY <2>2, StepEdit
  <2>3. ASSUME Save \/ RenameSaved \/ (\E i \in 0..identities : DeleteSaved(i)) PROVE IInv'
    BY <2>3, StepSave
  <2> QED BY <1>1, <2>1, <2>2, <2>3, StepLoadContext, StepLoadFails, StepEvaluate, StepReopened
          DEF UserStep
<1>2. ASSUME NEW n \in Loads, WorkerStep(n) PROVE IInv'
  BY <1>2, StepWorkerStart, StepWorkerAnswers, StepWorkerDies DEF WorkerStep
<1>3. ASSUME WatchContext \/ TimedOut \/ WorkerEnded PROVE IInv'
  BY <1>3, StepGivenUp DEF WatchContext, TimedOut, WorkerEnded
<1>4. ASSUME UNCHANGED vars PROVE IInv'
  <2>1. StoreInv' /\ UNCHANGED <<world, pipeVars, tabVars, identities>>
    BY <1>4, StoreStays DEF IInv, vars, storeVars
  <2>2. world' \in Worlds /\ scenario' \in 0..identities'
        /\ UNCHANGED <<handles, package, busy, timer, debounce, answerVars>>
    BY <2>1 DEF IInv, Rest, TabTypeOK, tabVars, handles, answerVars
  <2> QED BY <2>1, <2>2, TabKept DEF IInv
<1>5. ASSUME SaveFails PROVE IInv'
  BY <1>5, StepSave
<1> QED BY <1>1, <1>2, <1>3, <1>4, <1>5, StepWorld, StepSaveEnds, StepDebounced,
           StepHandleMessage, StepPeer DEF Next

\* The invariant holds in every reachable state.
LEMMA Invariance == Spec => []IInv
<1> QED BY InitInv, NextInv, PTL DEF Spec

\* The tab, its workers and the file keep their types.
THEOREM TypeCorrect == Spec => []TypeOK
<1>1. IInv => TypeOK
  BY DEF IInv, Rest, StoreInv, PipesTypeOK, TabTypeOK, TypeOK
<1> QED BY <1>1, Invariance, PTL

\* Whatever the workers still write and however the selection changed, the tab is
\* enabled only for a selection that was found valid as it is.
THEOREM ValidatedPackageHolds == Spec => []ValidatedPackage
<1>1. IInv => ValidatedPackage
  BY DEF IInv, Rest, TabInv
<1> QED BY <1>1, Invariance, PTL

\* The context, the result and the baselines on show are those of the worker and the
\* selection of the moment.
THEOREM ShownIsCurrentHolds == Spec => []ShownIsCurrent
<1>1. IInv => ShownIsCurrent
  BY DEF IInv, Rest, TabInv
<1> QED BY <1>1, Invariance, PTL

\* Whatever was cancelled, edited or failed since, the result on show is of a package
\* that was legal in its context.
THEOREM ShownIsLegalHolds == Spec => []ShownIsLegal
<1>1. IInv => ShownIsLegal
  BY DEF IInv, Rest, TabInv
<1> QED BY <1>1, Invariance, PTL

\* The timer runs exactly while the tab is busy.
THEOREM BusyIsTimedHolds == Spec => []BusyIsTimed
<1>1. IInv => BusyIsTimed
  BY DEF IInv, Rest, TabInv
<1> QED BY <1>1, Invariance, PTL

\* The operations of any number of desktops on the unlocked file never mix rows.
THEOREM SavedOnceHolds == Spec => []SavedOnce
<1>1. IInv => SavedOnce
  BY DEF IInv, StoreInv, Sound, SavedOnce
<1> QED BY <1>1, Invariance, PTL

-----------------------------------------------------------------------------
(* The engine *)

\* What the engine accepts leaves a playable account.
LEMMA LegalIsLawful == EngineLegal \subseteq LawfulOutcomes
<1> USE EngineAssumption
<1>1. ASSUME NEW c \in Contexts, NEW p \in Packages, EnginePackage(Account[c], Projected[c], Outs[p], Ins[p])
      PROVE LET t == Outcome(c, p) IN ValidSquad(t.squad, t.free) /\ t.bank >= 0
  <2>1. Account[c] \in States /\ ValidSquad(Account[c].squad, Account[c].free)
    BY <1>1 DEF EnginePackage
  <2>2. CASE Outs[p] = {}
    BY <2>1, <2>2, HoldKeepsSquadLawful DEF Outcome
  <2>3. CASE Outs[p] # {}
    <3>1. CanMake(Account[c], Outs[p], Ins[p], EngineLimit) /\ EngineLimit \in Nat
      BY <1>1, <2>3 DEF EnginePackage, EngineLimit
    <3> QED BY <2>1, <2>3, <3>1, PackageKeepsSquadLawful DEF Outcome
  <2> QED BY <2>2, <2>3
<1>2. ASSUME NEW cp \in Contexts \X Packages,
         EnginePackage(Account[cp[1]], Projected[cp[1]], Outs[cp[2]], Ins[cp[2]])
      PROVE cp \in LawfulOutcomes
  <2> DEFINE t == Outcome(cp[1], cp[2])
  <2>1. ValidSquad(t.squad, t.free) /\ t.bank >= 0
    BY <1>1, <1>2
  <2> HIDE DEF t
  <2>2. /\ t.bank >= 0 /\ t.free \in 1..MaxFree
        /\ \A club \in Clubs : Cardinality(OfClub(t.squad, club)) <= ClubLimit
        /\ \A q \in Positions : Cardinality(InPosition(t.squad, q)) = Quota[q]
    BY <2>1 DEF ValidSquad
  <2> QED BY <2>2 DEF LawfulOutcomes, t
<1> QED BY <1>2 DEF EngineLegal

\* What the engine accepts makes no money and loses none.
LEMMA LegalIsFair == EngineLegal \subseteq FairTrades
<1> USE EngineAssumption
<1>1. ASSUME NEW c \in Contexts, NEW p \in Packages, EnginePackage(Account[c], Projected[c], Outs[p], Ins[p])
      PROVE Worth(Outcome(c, p)) = Worth(Account[c])
  <2>1. Account[c] \in States
    OBVIOUS
  <2>2. CASE Outs[p] = {}
    BY <2>1, <2>2, HoldKeepsWorth DEF Outcome
  <2>3. CASE Outs[p] # {}
    <3>1. Outs[p] \in SUBSET Account[c].squad /\ Ins[p] \in SUBSET (Players \ Account[c].squad)
      BY <1>1, <2>3 DEF EnginePackage, CanMake
    <3> QED BY <2>1, <2>3, <3>1, PackageKeepsWorth DEF Outcome
  <2> QED BY <2>2, <2>3
<1>2. ASSUME NEW cp \in Contexts \X Packages,
         EnginePackage(Account[cp[1]], Projected[cp[1]], Outs[cp[2]], Ins[cp[2]])
      PROVE cp \in FairTrades
  BY <1>1, <1>2 DEF FairTrades
<1> QED BY <1>2 DEF EngineLegal

\* In every reachable state the evaluation on the tab leaves a playable account:
\* what the interleavings keep legal, the rules keep playable.
THEOREM ShownIsPlayableHolds == Spec => []ShownIsPlayable
<1>1. ShownIsLegal => ShownIsPlayable
  BY LegalIsLawful, EngineAssumption DEF ShownIsLegal, ShownIsPlayable
<1> QED BY <1>1, ShownIsLegalHolds, PTL

\* In every reachable state the evaluation on the tab is of transfers that neither make
\* nor lose money.
THEOREM ShownKeepsWorthHolds == Spec => []ShownKeepsWorth
<1>1. ShownIsLegal => ShownKeepsWorth
  BY LegalIsFair, EngineAssumption DEF ShownIsLegal, ShownKeepsWorth
<1> QED BY <1>1, ShownIsLegalHolds, PTL

=============================================================================
