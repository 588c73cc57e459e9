----------------------------- MODULE MonthLock -----------------------------
(***************************************************************************)
(* What the period policy promises a reader of the books, with no tables,  *)
(* keys or reviews: a month is sealed or not, and the rows of a sealed     *)
(* month are the rows it was sealed with.  A transaction that changes rows *)
(* may unseal months first, never afterwards.                              *)
(***************************************************************************)
CONSTANTS Months, Contents

VARIABLES sealed, rows

vars == <<sealed, rows>>

Init ==
    /\ sealed = {}
    /\ rows \in [Months -> Contents]

Seal(m) ==
    /\ m \notin sealed
    /\ sealed' = sealed \cup {m}
    /\ UNCHANGED rows

Unseal(ms) ==
    /\ sealed' = sealed \ ms
    /\ UNCHANGED rows

Change(ms) ==
    /\ sealed' = sealed \ ms
    /\ rows' \in [Months -> Contents]
    /\ \A m \in Months : rows'[m] # rows[m] => m \notin sealed'

Next ==
    \/ \E m \in Months : Seal(m)
    \/ \E ms \in SUBSET Months : Unseal(ms) \/ Change(ms)

Spec == Init /\ [][Next]_vars
=============================================================================
