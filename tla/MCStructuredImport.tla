-------------------------- MODULE MCStructuredImport --------------------------
(* Small instances of StructuredImport. *)
EXTENDS StructuredImport, TLC

CONSTANTS f1, f2, f3

Row(fitid, day, text, pending) == [fitid |-> fitid, day |-> day, text |-> text, pending |-> pending]

\* A pending row, the posted row of the same identity, and a row without identity
\* that agrees with the posted one on date and amount.
FileRows == f1 :> {Row("x", 1, "hold", TRUE)}
         @@ f2 :> {Row("x", 2, "final", FALSE)}
         @@ f3 :> {Row(Nothing, 2, "late", FALSE)}
Providers == f1 :> "bank" @@ f2 :> "bank" @@ f3 :> Nothing
\* The first file is submitted with two forms, the others to two accounts.
Submitted == {[file |-> f1, account |-> "main", form |-> 1], [file |-> f1, account |-> "main", form |-> 2],
              [file |-> f2, account |-> "main", form |-> 1], [file |-> f2, account |-> "spare", form |-> 1],
              [file |-> f3, account |-> "main", form |-> 1], [file |-> f3, account |-> "spare", form |-> 1]}
Months == f1 :> 1 @@ f2 :> 2 @@ f3 :> 2
=============================================================================
