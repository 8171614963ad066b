--------------------------------- MODULE Pipe ---------------------------------
(***************************************************************************)
(* What lckfree_list of src/ec_list.hpp promises: "similar to a one-way     *)
(* pipe".  Values go in at one end and come out at the other, in the same   *)
(* order, none lost, none twice.                                            *)
(***************************************************************************)
EXTENDS Integers, Sequences

CONSTANT Values

VARIABLES content,  \* the values in the pipe, oldest first
          out       \* the values that came out

pvars == <<content, out>>

Init ==
    /\ content = <<>>
    /\ out = <<>>

Push(v) ==
    /\ content' = Append(content, v)
    /\ UNCHANGED out

Pop ==
    /\ content # <<>>
    /\ out' = Append(out, Head(content))
    /\ content' = Tail(content)

Next == (\E v \in Values : Push(v)) \/ Pop

Spec == Init /\ [][Next]_pvars
=============================================================================
