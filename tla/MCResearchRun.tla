----------------------------- MODULE MCResearchRun -----------------------------
(* Constants for the runs of ResearchRun: two spellings of one page, two others. *)
EXTENDS ResearchRun

CONSTANTS a1, a2, b1, c1

SomeUrls == {a1, a2, b1, c1}

SomePages ==
  [u \in SomeUrls |-> CASE u = b1 -> "b" [] u = c1 -> "c" [] OTHER -> "a"]

SomeLists == {<<>>, <<a1, b1>>, <<a2, c1>>}
=============================================================================
