--------------------------- MODULE MCReconciliation ---------------------------
(* Small instances of Reconciliation: a behaviour has two of three statements. *)
EXTENDS Reconciliation, TLC

CONSTANTS d1, d2, d3, a, b

VARIABLE part

\* One statement lists a row.  Of the others, one says that there was none, until an
\* operator writes the same row into it; the row of the last is missed at first.
\* The listing one is not declared empty while they move between two months.
OneRow == [d \in Docs |-> {1}]
Listed == d1 :> {a} @@ d2 :> {} @@ d3 :> {b}
Writable == d1 :> {a} @@ d2 :> {a} @@ d3 :> {a, b}
Read == d1 :> {{a}} @@ d2 :> {{}, {a}} @@ d3 :> {{}}

Present == {d \in Docs : reviews'[d].state # "none"}
InOneMonth == /\ \A d \in Present : reviews'[d].period = 1
              /\ expectations'[2].requirement = "absent"

MCInit == Init /\ part \in {"moving", "missed"}
MCNext == /\ UNCHANGED part
          /\ Next
          /\ \/ /\ part = "moving" /\ Present \subseteq {d1, d2}
                /\ reviews'[d1].activity # "zero_activity"
             \/ part = "missed" /\ Present \subseteq {d1, d3} /\ InOneMonth
MCSpec == MCInit /\ [][MCNext]_<<vars, part>>
=============================================================================
