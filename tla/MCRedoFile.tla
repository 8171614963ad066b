------------------------------ MODULE MCRedoFile ------------------------------
(* Small instances of RedoFile for TLC.                                       *)
EXTENDS RedoFile

NoHazards == {}
IoFaults == {"openFault", "writeFault"}
ShortWrites == {"shortWrite"}
NoneMC == {}
OneUnit == [b \in Blocks |-> 1]
\* The body of block 1 is as long as the other blocks.
Nested == [b \in Blocks |-> IF b = 1 THEN 3 ELSE 1]
FirstPacked == {1}
=============================================================================
