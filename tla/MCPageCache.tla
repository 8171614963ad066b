----------------------------- MODULE MCPageCache -----------------------------
(* Small instances of PageCache for TLC.                                      *)
EXTENDS PageCache, TLC

AllFaults == {"readFault", "writeFault", "noMemory"}
NoFaults == {}
TwoValues == {0, 1}
PageSymmetry == Permutations(PageNos)
=============================================================================
