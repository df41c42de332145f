--------------------------------- MODULE MCSoul ---------------------------------
(* Three calls with two lines: the fewest that can clobber a line and then the   *)
(* snapshot that kept it, or fill and prune the feedback section.                *)
EXTENDS Soul, TLC

Symmetric == Permutations(Calls) \cup Permutations(Lines)
=================================================================================
