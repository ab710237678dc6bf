------------------------- MODULE MCFailureClusters -------------------------
(* FailureClusters for TLC: a Python traceback seen at two line numbers, a *)
(* message of another kind, a trace whose last span carries no stack, and  *)
(* executions that share a trace or have one each.                         *)
EXTENDS FailureClusters, TLC

CONSTANTS t1, t2

Symmetry == Permutations(Passes)

Line(k, h, r, n) == [n |-> n, kind |-> k, head |-> h, rest |-> r]
Traceback(n) == <<Line("header", "", "", 0), Line("frame", "a.py:f", "", n),
                  Line("exception", "AssertionError", "1 # 2", n)>>
Panic(n) == <<Line("other", "", "goroutine", 1), Line("blank", "", "", 0),
              Line("other", "", "panic at", n)>>
Span(t, e, c, s) == [trace |-> t, end |-> e, code |-> c, stack |-> s]

MCRequests == {<<Span(t1, 1, "error", Traceback(3)), Span(t2, 1, "error", Panic(4))>>,
               <<Span(t1, 2, "ok", Empty), Span(t1, 2, "error", Panic(5)),
                 Span(t2, 2, "error", Empty)>>}

MCReports == {[stack |-> Traceback(7), exec |-> 2, outcome |-> "failed"],
              [stack |-> Empty, exec |-> 2, outcome |-> "passed"]}

Failed(t, old) == [Absent EXCEPT !.there = TRUE, !.trace = t, !.outcome = "failed",
                                 !.old = old]
MCHistory == {<<Failed(t1, FALSE), Failed(t1, FALSE)>>,
              <<Failed(t1, FALSE), Failed(t2, FALSE)>>,
              <<Failed(t1, TRUE), Absent>>}

MCFlags == {[dry |-> FALSE, since |-> TRUE], [dry |-> TRUE, since |-> FALSE]}
=============================================================================
