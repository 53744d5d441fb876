---------------------------- MODULE MCEvalReport ----------------------------
(* Suites of two benchmark tests: two cases, two tests that record the same  *)
(* case, a smoke test by its marker, and one that records, without the marker, *)
(* a case that another test records too.                                     *)
EXTENDS EvalReport

Test(case, marked, labelled) == [case |-> case, marked |-> marked, labelled |-> labelled]
SmallSuites ==
    {<<Test("a", FALSE, FALSE), Test("b", FALSE, FALSE)>>,
     <<Test("a", FALSE, FALSE), Test("a", FALSE, FALSE)>>,
     <<Test("b", TRUE, TRUE), Test("a", FALSE, FALSE)>>,
     <<Test("a", FALSE, TRUE), Test("a", FALSE, FALSE)>>}
=============================================================================
