-------------------------------- MODULE Stream --------------------------------
(***************************************************************************)
(* What one end of a set of connections is promised of what the other end  *)
(* sends: it is given the messages that were sent, in the order they were  *)
(* sent, none lost in between and none twice, while its end is open; an    *)
(* end that is gone says nothing more and does not return.                 *)
(***************************************************************************)
EXTENDS Integers, Sequences

CONSTANTS Conns, Messages

VARIABLES life,  \* [Conns -> {"none", "open", "gone"}], of the end that is given
          sent,  \* [Conns -> Seq(Messages)], by the other end
          got    \* [Conns -> Seq(Messages)], those it was given

svars == <<life, sent, got>>

Init ==
    /\ life = [c \in Conns |-> "none"]
    /\ sent = [c \in Conns |-> <<>>]
    /\ got  = [c \in Conns |-> <<>>]

\* A peer may send before its connection is accepted, and in vain when it is
\* gone, and several messages at once.
Send(c) ==
    /\ sent' \in [Conns -> Seq(Messages)]
    /\ Len(sent'[c]) > Len(sent[c])
    /\ sent = [sent' EXCEPT ![c] = SubSeq(@, 1, Len(sent[c]))]
    /\ UNCHANGED <<life, got>>

Open(c) ==
    /\ life[c] = "none"
    /\ life' = [life EXCEPT ![c] = "open"]
    /\ UNCHANGED <<sent, got>>

\* The next messages.
Deliver(c) ==
    /\ life[c] = "open"
    /\ \E n \in (Len(got[c]) + 1)..Len(sent[c]) :
         got' = [got EXCEPT ![c] = @ \o SubSeq(sent[c], Len(@) + 1, n)]
    /\ UNCHANGED <<life, sent>>

\* Also a connection that never came to be open: refused, or not accepted.
Close(c) ==
    /\ life[c] # "gone"
    /\ life' = [life EXCEPT ![c] = "gone"]
    /\ UNCHANGED <<sent, got>>

Next == \E c \in Conns : Send(c) \/ Open(c) \/ Deliver(c) \/ Close(c)

Spec == Init /\ [][Next]_svars
=============================================================================
