--------------------------- MODULE PrimaryRegister ---------------------------
(***************************************************************************)
(* What the prospective evaluation promises its readers (the selection     *)
(* ledger and immutable reports of validation/prospective.py): a gameweek  *)
(* gets one primary archive and keeps it, and a report is published once,  *)
(* as a copy of the register, over a range of gameweeks, at one moment.    *)
(***************************************************************************)
EXTENDS Naturals

CONSTANTS
  Gameweeks,
  Archives,      \* archive cases
  Outputs,       \* report directories
  Unpublished    \* no report yet

VARIABLES
  register,      \* the locked primaries: [gw, case]
  report         \* per report directory: the primaries its report shows

registerVars == <<register, report>>

RegisterInit ==
  /\ register = {}
  /\ report = [o \in Outputs |-> Unpublished]

LockPrimary(g, c) ==
  /\ \A x \in register : x.gw # g
  /\ register' = register \cup {[gw |-> g, case |-> c]}
  /\ UNCHANGED report

Publish(o) ==
  /\ report[o] = Unpublished
  /\ \E min, max \in Gameweeks :
       report' = [report EXCEPT ![o] = {x \in register : min <= x.gw /\ x.gw <= max}]
  /\ UNCHANGED register

\* The first conjunct follows from the second one; it spares TLC the search for a lock
\* in every step that leaves the register alone.
LockSome ==
  /\ register' # register
  /\ \E g \in Gameweeks, c \in Archives : LockPrimary(g, c)

RegisterNext == LockSome \/ \E o \in Outputs : Publish(o)

RegisterSpec == RegisterInit /\ [][RegisterNext]_registerVars
=============================================================================
