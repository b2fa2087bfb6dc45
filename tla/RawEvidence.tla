----------------------------- MODULE RawEvidence -----------------------------
(***************************************************************************)
(* What a raw store promises its callers (the class docstring of RawStore  *)
(* and the adapters that rely on it): evidence is kept once and for ever,  *)
(* and the receipt of a snapshot is handed out at most once, after the     *)
(* snapshot is kept.                                                       *)
(***************************************************************************)
EXTENDS Naturals

CONSTANT Snapshots    \* snapshot identities

VARIABLES kept,       \* snapshots that verify when they are read
          receipts    \* how often the receipt of a snapshot was handed out

evidenceVars == <<kept, receipts>>

EvidenceInit ==
  /\ kept = {}
  /\ receipts = [s \in Snapshots |-> 0]

Keep(s) ==
  /\ s \notin kept
  /\ kept' = kept \cup {s}
  /\ UNCHANGED receipts

GiveReceipt(s) ==
  /\ s \in kept
  /\ receipts[s] = 0
  /\ receipts' = [receipts EXCEPT ![s] = 1]
  /\ UNCHANGED kept

EvidenceNext == \E s \in Snapshots : Keep(s) \/ GiveReceipt(s)

EvidenceSpec == EvidenceInit /\ [][EvidenceNext]_evidenceVars
=============================================================================
