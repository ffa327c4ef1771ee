------------------------------ MODULE MCTestRuns ------------------------------
(* Small instances of TestRuns: two crcs, of one grouped or two isolated   *)
(* workflows, or one crc; one sender or two, with every crc or with one.   *)
EXTENDS TestRuns, TLC

CONSTANTS k1, k2, c1, c2, tcA, tcB, w1, w2, s1, s2

CasesOfTwo == (c1 :> tcA) @@ (c2 :> tcB)
TwoIsolated == (c1 :> w1) @@ (c2 :> w2)
OneGroup == (c1 :> w1) @@ (c2 :> w1)
OverlappingPlans == (s1 :> {c1, c2}) @@ (s2 :> {c2})

CaseOfOne == c1 :> tcA
Isolated == c1 :> w1
PlanOfOne == s1 :> {c1}
BothOfOne == (s1 :> {c1}) @@ (s2 :> {c1})

(* What a well-behaved workflow reports. *)
Progress ==
  {Res("running", "None", FALSE), Res("complete", "FAIL", TRUE)}

(* A bad outcome early, and a final result that goes back. *)
Anything == {Res("running", "FAIL", FALSE), Res("queued", "PASS", TRUE)}
=============================================================================
