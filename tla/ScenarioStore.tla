----------------------------- MODULE ScenarioStore -----------------------------
(***************************************************************************)
(* ScenarioStore (desktop_app/manual_scenario_store.py): the manual        *)
(* scenarios of the transfer comparator, one JSON file that every          *)
(* operation reads whole, changes and replaces through a temporary file.   *)
(*                                                                         *)
(* There is no lock: every running desktop is a client, and between the    *)
(* reading and the replacing of one client another may do both.  A file    *)
(* that does not parse is refused and never replaced; since os.replace     *)
(* never leaves half a file, such a file comes from outside the program    *)
(* and is not in the model.  Names and times of rows are left out.         *)
(***************************************************************************)
EXTENDS Naturals

CONSTANTS
  Clients,     \* running desktops
  Contexts,    \* context_id with input_sha256
  Packages,    \* complete OUT/IN selections
  NoResult,    \* a row that was saved without an evaluation
  NoOperation,
  MaxOperations  \* bound: operations on the file

VARIABLES
  scenarios,   \* the rows of the file
  loaded,      \* per client: the rows its operation read
  pending,     \* per client: the operation it is about to write
  identities,  \* uuids given to rows so far
  operations   \* operations begun

storeVars == <<scenarios, loaded, pending, identities, operations>>

\* A row without an identity yet; scenario_id or uuid4().
NoId == 0

Results == [context : Contexts, package : Packages]

\* The identity part of _result: an evaluation is stored with its own context and
\* package or not at all.
Belongs(result, context, package) ==
  result = NoResult \/ (result.context = context /\ result.package = package)

Rows == [id : Nat, context : Contexts, package : Packages, result : Results \cup {NoResult}]

Row(id, context, package, result) ==
  [id |-> id, context |-> context, package |-> package, result |-> result]

Operations ==
  [op : {"save"}, row : Rows] \cup [op : {"delete"}, id : Nat] \cup [op : {"rename"}]

StoreTypeOK ==
  /\ scenarios \in SUBSET Rows
  /\ loaded \in [Clients -> SUBSET Rows]
  /\ pending \in [Clients -> Operations \cup {NoOperation}]
  /\ identities \in Nat /\ operations \in 0..MaxOperations
  /\ \A r \in scenarios : r.id \in 1..identities

StoreInit ==
  /\ scenarios = {}
  /\ loaded = [c \in Clients |-> {}]
  /\ pending = [c \in Clients |-> NoOperation]
  /\ identities = 0 /\ operations = 0

-----------------------------------------------------------------------------
SameKey(r, s) == r.context = s.context /\ r.package = s.package

\* Defect: a row saved for the first time gets no identity of its own.
SavedId_NotFresh(row, rows) ==
  IF \E r \in rows : SameKey(r, row) THEN (CHOOSE r \in rows : SameKey(r, row)).id ELSE row.id

\* The identity a saved row gets: that of the row with its context and package, else
\* the one it was loaded under, else a new one.
SavedId(row, rows) ==
  IF \E r \in rows : SameKey(r, row) THEN (CHOOSE r \in rows : SameKey(r, row)).id
  ELSE IF row.id # NoId THEN row.id ELSE identities + 1

\* Defect: an equivalent package is not looked for.
RowsWith_ByIdOnly(row, rows) ==
  LET id == IF row.id # NoId THEN row.id ELSE identities + 1 IN
  {r \in rows : r.id # id} \cup {[row EXCEPT !.id = id]}

\* save: the row replaces the one of its identity.
RowsWith(row, rows) ==
  LET id == SavedId(row, rows) IN
  {r \in rows : r.id # id} \cup {[row EXCEPT !.id = id]}

\* The rows an operation writes, made from those it read; a rename changes no field
\* the model keeps, and a missing identity is no error.
Rewritten(o, rows) ==
  CASE o.op = "save" -> RowsWith(o.row, rows)
    [] o.op = "delete" -> {r \in rows : r.id # o.id}
    [] o.op = "rename" -> rows

\* load, at the start of save, rename and delete.
Load(c, o) ==
  /\ pending[c] = NoOperation
  /\ operations < MaxOperations
  /\ operations' = operations + 1
  /\ loaded' = [loaded EXCEPT ![c] = scenarios]
  /\ pending' = [pending EXCEPT ![c] = o]
  /\ UNCHANGED <<scenarios, identities>>

\* The operation is over.
Ended(c) ==
  /\ pending' = [pending EXCEPT ![c] = NoOperation]
  /\ loaded' = [loaded EXCEPT ![c] = {}]
  /\ UNCHANGED operations

\* _write: os.replace, whatever the file holds by now.
Commit(c) ==
  /\ pending[c] # NoOperation
  /\ scenarios' = Rewritten(pending[c], loaded[c])
  /\ identities' = IF pending[c].op = "save" /\ SavedId(pending[c].row, loaded[c]) > identities
                   THEN identities + 1 ELSE identities
  /\ Ended(c)

\* OSError: the temporary file is unlinked, the file stays.
Abort(c) ==
  /\ pending[c] # NoOperation
  /\ Ended(c)
  /\ UNCHANGED <<scenarios, identities>>

-----------------------------------------------------------------------------
\* However the operations of the desktops interleave, the file never holds two rows
\* of one identity or of one context and package, and no row shows an evaluation of
\* another: a lost update loses a row, it never mixes two.
SavedOnce ==
  /\ \A r, s \in scenarios : r.id = s.id \/ SameKey(r, s) => r = s
  /\ \A r \in scenarios : Belongs(r.result, r.context, r.package)

=============================================================================
