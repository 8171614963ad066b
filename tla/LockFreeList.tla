----------------------------- MODULE LockFreeList -----------------------------
(***************************************************************************)
(* lckfree_list of src/ec_list.hpp, "one producer, one consumer", with the  *)
(* event of src/ec_event.h that wakes the consumer.  One memory access per  *)
(* step.                                                                     *)
(*                                                                          *)
(* The list always holds one node whose value is not used, at first         *)
(* _nulnode: the consumer frees the node it has left, never the one it is   *)
(* at.  The links and values are plain memory; the model is of a build that *)
(* keeps the stores in the order of the source, as x86 does.                *)
(***************************************************************************)
EXTENDS Integers, Sequences, FiniteSets

CONSTANTS
    MaxPush,     \* bound: values the producer pushes
    Null         \* nullptr

ASSUME ListAssumption ==
    /\ MaxPush \in Nat
    /\ Null \notin Int

Nodes == 0 .. MaxPush       \* _nulnode and the node of each push
NulNode == 0
NoValue == 0                \* a value that was never assigned

VARIABLES
    next,    \* next[x]: pnext
    value,   \* value[x]: the number of the push whose value was stored
    freed,   \* nodes that were deleted
    phead,   \* _phead, used by the consumer only
    ptail,   \* _ptail, used by the producer only
    size,    \* _size, atomic
    ready,   \* cEvent::_nready
    ppc,     \* the producer's next step
    pnew,    \* the producer's new node
    cpc,     \* the consumer's next step
    pre,     \* the node the consumer leaves
    out      \* the values the consumer got

producer == <<ptail, ppc, pnew>>
consumer == <<phead, freed, cpc, pre, out>>
vars == <<next, value, size, ready, producer, consumer>>

TypeOK ==
    /\ next \in [Nodes -> Nodes \cup {Null}]
    /\ value \in [Nodes -> 0 .. MaxPush]
    /\ freed \subseteq Nodes \ {NulNode}
    /\ phead \in Nodes
    /\ ptail \in Nodes
    /\ size \in -1 .. MaxPush
    /\ ready \in BOOLEAN
    /\ ppc \in {"idle", "link", "tail", "count", "set"}
    /\ pnew \in Nodes
    /\ cpc \in {"wait", "look", "take", "delete", "count"}
    /\ pre \in Nodes
    /\ out \in Seq(0 .. MaxPush)

Init ==
    /\ next = [x \in Nodes |-> Null]
    /\ value = [x \in Nodes |-> NoValue]
    /\ freed = {}
    /\ phead = NulNode
    /\ ptail = NulNode
    /\ size = 0
    /\ ready = FALSE
    /\ ppc = "idle"
    /\ pnew = NulNode
    /\ cpc = "wait"
    /\ pre = NulNode
    /\ out = <<>>

-----------------------------------------------------------------------------
(* push, by the producer.                                                    *)

\* A new node with the value.
PushNew ==
    /\ ppc = "idle"
    /\ pnew < MaxPush
    /\ pnew' = pnew + 1
    /\ value' = [value EXCEPT ![pnew + 1] = pnew + 1]
    /\ ppc' = "link"
    /\ UNCHANGED <<next, ptail, size, ready, consumer>>

PushLink ==
    /\ ppc = "link"
    /\ next' = [next EXCEPT ![ptail] = pnew]
    /\ ppc' = "tail"
    /\ UNCHANGED <<value, size, ready, ptail, pnew, consumer>>

PushTail ==
    /\ ppc = "tail"
    /\ ptail' = pnew
    /\ ppc' = "count"
    /\ UNCHANGED <<next, value, size, ready, pnew, consumer>>

PushCount ==
    /\ ppc = "count"
    /\ size' = size + 1
    /\ ppc' = "set"
    /\ UNCHANGED <<next, value, ready, ptail, pnew, consumer>>

\* SetEvent; its mutex makes everything stored before visible.
PushSet ==
    /\ ppc = "set"
    /\ value[pnew] = pnew
    /\ ready' = TRUE
    /\ ppc' = "idle"
    /\ UNCHANGED <<next, value, size, ptail, pnew, consumer>>

-----------------------------------------------------------------------------
(* The consumer: waits for the event, then pops until pop returns false.     *)

\* Mutant: an event set before Wait began is forgotten.
WaitForgets ==
    /\ cpc = "wait"
    /\ \/ ready /\ cpc' = "look"
       \/ ready /\ UNCHANGED cpc
    /\ ready' = FALSE
    /\ UNCHANGED <<next, value, size, producer, phead, freed, pre, out>>

\* Wait() under the event's mutex: it takes the event, or times out.
Wait ==
    /\ cpc = "wait"
    /\ ready
    /\ ready' = FALSE
    /\ cpc' = "look"
    /\ UNCHANGED <<next, value, size, producer, phead, freed, pre, out>>

WaitTimesOut ==
    /\ cpc = "wait"
    /\ ~ready
    /\ cpc' = "look"
    /\ UNCHANGED <<next, value, size, ready, producer, phead, freed, pre, out>>

\* Mutant: an empty list is counted down.
PopLookCounts ==
    /\ cpc = "look"
    /\ IF next[phead] = Null
       THEN cpc' = "wait" /\ size' = size - 1 /\ UNCHANGED <<phead, pre>>
       ELSE cpc' = "take" /\ pre' = phead /\ phead' = next[phead] /\ UNCHANGED size
    /\ UNCHANGED <<next, value, ready, producer, freed, out>>

PopLook ==
    /\ cpc = "look"
    /\ IF next[phead] = Null
       THEN cpc' = "wait" /\ UNCHANGED <<phead, pre>>
       ELSE cpc' = "take" /\ pre' = phead /\ phead' = next[phead]
    /\ UNCHANGED <<next, value, size, ready, producer, freed, out>>

\* Mutant: the value of the node that is left is taken.
PopTakeLeft ==
    /\ cpc = "take"
    /\ out' = Append(out, value[pre])
    /\ cpc' = "delete"
    /\ UNCHANGED <<next, value, size, ready, producer, phead, freed, pre>>

PopTake ==
    /\ cpc = "take"
    /\ out' = Append(out, value[phead])
    /\ cpc' = "delete"
    /\ UNCHANGED <<next, value, size, ready, producer, phead, freed, pre>>

\* Mutant: the node of the value is deleted, not the one before it.
PopDeleteTaken ==
    /\ cpc = "delete"
    /\ freed' = freed \cup {phead}
    /\ cpc' = "count"
    /\ UNCHANGED <<next, value, size, ready, producer, phead, pre, out>>

PopDelete ==
    /\ cpc = "delete"
    /\ freed' = IF pre = NulNode THEN freed ELSE freed \cup {pre}
    /\ cpc' = "count"
    /\ UNCHANGED <<next, value, size, ready, producer, phead, pre, out>>

PopCount ==
    /\ cpc = "count"
    /\ size' = size - 1
    /\ cpc' = "look"
    /\ UNCHANGED <<next, value, ready, producer, phead, freed, pre, out>>

-----------------------------------------------------------------------------
PushStep == PushLink \/ PushTail \/ PushCount \/ PushSet
PopStep == Wait \/ PopLook \/ PopTake \/ PopDelete \/ PopCount

Next == PushNew \/ PushStep \/ PopStep \/ WaitTimesOut

Spec == Init /\ [][Next]_vars

\* A push that began is finished, and the consumer keeps serving its queue.
\* Nothing is assumed of timeouts: the milliseconds may be a day.
FairSpec == Spec /\ WF_vars(PushStep) /\ WF_vars(PopStep)

-----------------------------------------------------------------------------
(* Properties.                                                               *)

\* Pushed and not yet popped: the nodes behind the consumer's, in order.
Linked ==
    LET last == IF ppc = "link" THEN pnew - 1 ELSE pnew
    IN  phead + 1 .. last

\* Each pointer a thread is about to follow leads to a node that is not freed,
\* and the nodes behind _phead are exactly those pushed and not popped: none
\* is cut off, none leaks.
PointersLive ==
    /\ phead \notin freed
    /\ ppc = "link" => ptail \notin freed
    /\ cpc \in {"take", "delete"} => pre \notin freed
    /\ freed = 1 .. (IF cpc \in {"take", "delete"} THEN pre ELSE phead) - 1
    /\ \A x \in Linked \cup {phead} : next[x] = IF x + 1 \in Linked THEN x + 1 ELSE Null

\* _size is off by at most the push and the pop under way.
SizeFollows ==
    size = Cardinality(Linked) - (IF ppc \in {"tail", "count"} THEN 1 ELSE 0)
                               + (IF cpc \in {"take", "delete", "count"} THEN 1 ELSE 0)

\* The list is a pipe.  A value enters it when its node is linked and leaves
\* it when it is taken.
ThePipe == INSTANCE Pipe WITH
    Values <- 1 .. MaxPush,
    content <- LET first == IF cpc = "take" THEN phead ELSE phead + 1
                   last == IF ppc = "link" THEN pnew - 1 ELSE pnew
               IN  [k \in 1 .. last - first + 1 |-> first + k - 1]

PipeSpec == ThePipe!Spec

\* Every value pushed is popped, though no wait times out: no wake-up is lost.
AllPopped == \A k \in 1 .. MaxPush : pnew = k ~> Len(out) >= k

=============================================================================
