----------------------------- MODULE MCJobQueue -----------------------------
(* An instance of JobQueue for TLC: a rolling deploy, in which the first
   process defines a job name more than the second. *)
EXTENDS JobQueue

CONSTANTS w1, w2, mail, report

TwoNames == {mail, report}
SecondTry == [n \in Names |-> IF n = report THEN 2 ELSE 1]
FirstDefinesMore == [w \in Workers |-> IF w = w1 THEN Names ELSE {mail}]
=============================================================================
