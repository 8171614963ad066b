-------------------------- MODULE LockFreeListProofs --------------------------
(***************************************************************************)
(* Proofs about LockFreeList: for any number of pushes, under every         *)
(* interleaving of the producer and the consumer, no pointer to a deleted   *)
(* node is followed, _size is right, and the list implements a pipe.        *)
(***************************************************************************)
EXTENDS LockFreeList, FiniteSetTheorems, TLAPS

\* The last node linked, and whether the consumer is between two nodes.
LastLinked == IF ppc = "link" THEN pnew - 1 ELSE pnew
Leaving == cpc \in {"take", "delete"}

\* The producer is at the end of the list, or one node behind it.
ProducerAt ==
    /\ ppc # "idle" => pnew > 0
    /\ ptail = IF ppc \in {"link", "tail"} THEN pnew - 1 ELSE pnew
    /\ \A x \in 1 .. pnew : value[x] = x

\* The consumer is at a node that was linked, and deletes the one before it.
ConsumerAt ==
    /\ phead <= LastLinked
    /\ cpc \in {"take", "delete", "count"} => phead > 0
    /\ Leaving => pre = phead - 1
    /\ freed = 1 .. (IF Leaving THEN phead - 1 ELSE phead) - 1

\* From the consumer's node on the list is whole.
Whole == \A x \in phead .. MaxPush : next[x] = IF x < LastLinked THEN x + 1 ELSE Null

Counted ==
    size = LastLinked - phead - (IF ppc \in {"tail", "count"} THEN 1 ELSE 0)
                              + (IF cpc \in {"take", "delete", "count"} THEN 1 ELSE 0)

\* All types but that of _size, which Counted bounds.
Typed ==
    /\ next \in [Nodes -> Nodes \cup {Null}]
    /\ value \in [Nodes -> 0 .. MaxPush]
    /\ phead \in Nodes
    /\ ptail \in Nodes
    /\ ready \in BOOLEAN
    /\ ppc \in {"idle", "link", "tail", "count", "set"}
    /\ pnew \in Nodes
    /\ cpc \in {"wait", "look", "take", "delete", "count"}
    /\ pre \in Nodes
    /\ out \in Seq(0 .. MaxPush)

IInv == Typed /\ ProducerAt /\ ConsumerAt /\ Whole /\ Counted

-----------------------------------------------------------------------------
\* The empty list.
LEMMA InitIInv == Init => IInv
<1> SUFFICES ASSUME Init PROVE IInv
    OBVIOUS
<1> USE ListAssumption DEF ListAssumption, Init, Nodes, NulNode, NoValue
<1>1. Typed
    <2>1. ready \in BOOLEAN
        BY Zenon
    <2> QED
        BY <2>1 DEF Typed
<1>2. ProducerAt /\ ConsumerAt /\ Whole /\ Counted
    BY DEF ProducerAt, ConsumerAt, Whole, Counted, LastLinked, Leaving
<1> QED
    BY <1>1, <1>2 DEF IInv

\* Deleting the next node extends the interval of the deleted ones.
LEMMA OneMore == ASSUME NEW n \in Nat \ {0} PROVE (1 .. n - 1) \cup {n} = 1 .. n
OBVIOUS

\* A number other than p is below p + 1 when it is below p.
LEMMA BelowNext ==
    ASSUME NEW x \in Int, NEW p \in Int, NEW q \in Int, q = p + 1, x # p
    PROVE  x < q <=> x < p
OBVIOUS

\* Each step of push and of pop keeps it.
LEMMA NextIInv == IInv /\ [Next]_vars => IInv'
<1> SUFFICES ASSUME IInv, [Next]_vars PROVE IInv'
    OBVIOUS
<1> USE ListAssumption DEF ListAssumption, IInv, Nodes, NulNode, producer, consumer
<1>1. CASE PushNew
    <2> USE <1>1 DEF PushNew, Typed
    <2>0. pnew + 1 \in 0 .. MaxPush /\ pnew' = pnew + 1
        OBVIOUS
    <2>1. Typed'
        BY <2>0
    <2>2. ProducerAt'
        <3>1. ppc' # "idle" => pnew' > 0
            BY <2>0
        <3>2. ptail' = IF ppc' \in {"link", "tail"} THEN pnew' - 1 ELSE pnew'
            BY <2>0 DEF ProducerAt
        <3>3. ASSUME NEW x \in 1 .. pnew' PROVE value'[x] = x
            BY <2>0, <3>3 DEF ProducerAt
        <3> QED
            BY <3>1, <3>2, <3>3 DEF ProducerAt
    <2>3. ConsumerAt'
        BY DEF ConsumerAt, ProducerAt, Whole, LastLinked, Leaving
    <2>4. Whole'
        BY DEF Whole, ProducerAt, ConsumerAt, LastLinked
    <2>5. Counted'
        BY DEF Counted, ProducerAt, Whole, ConsumerAt, LastLinked
    <2> QED
        BY <2>1, <2>2, <2>3, <2>4, <2>5
<1>2. CASE PushLink
    <2> USE <1>2 DEF PushLink, Typed
    <2>1. Typed'
        OBVIOUS
    <2>2. ProducerAt'
        BY DEF ProducerAt
    <2>3. ConsumerAt'
        BY DEF ConsumerAt, ProducerAt, Whole, LastLinked, Leaving
    <2>4. Whole'
        <3>1. ptail \in Nodes /\ ptail = pnew - 1 /\ pnew > 0 /\ LastLinked = ptail
            BY DEF ProducerAt, LastLinked
        <3>2. LastLinked' = pnew
            BY DEF LastLinked
        <3>3. ASSUME NEW x \in phead .. MaxPush
              PROVE  next'[x] = IF x < pnew THEN x + 1 ELSE Null
            <4>0. x \in Nodes /\ next'[x] = IF x = ptail THEN pnew ELSE next[x]
                BY <3>3
            <4>1. next[x] = IF x < ptail THEN x + 1 ELSE Null
                BY <3>1, <3>3 DEF Whole
            <4>2. CASE x = ptail
                BY <3>1, <4>0, <4>2
            <4>3. CASE x # ptail
                <5>1. x < pnew <=> x < ptail
                    <6>1. x \in Int /\ ptail \in Int /\ pnew = ptail + 1
                        BY <3>1, <3>3
                    <6> QED
                        BY ONLY <4>3, <6>1, BelowNext
                <5>2. next'[x] = next[x]
                    BY <4>0, <4>3
                <5> QED
                    BY <4>1, <5>1, <5>2, Zenon
            <4> QED
                BY <4>2, <4>3
        <3> QED
            BY <3>2, <3>3 DEF Whole
    <2>5. Counted'
        BY DEF Counted, ProducerAt, Whole, ConsumerAt, LastLinked
    <2> QED
        BY <2>1, <2>2, <2>3, <2>4, <2>5
<1>3. CASE PushTail
    <2> USE <1>3 DEF PushTail, Typed
    <2>1. Typed'
        OBVIOUS
    <2>2. ProducerAt'
        BY DEF ProducerAt
    <2>3. ConsumerAt'
        BY DEF ConsumerAt, ProducerAt, Whole, LastLinked, Leaving
    <2>4. Whole'
        BY DEF Whole, ProducerAt, ConsumerAt, LastLinked
    <2>5. Counted'
        BY DEF Counted, ProducerAt, Whole, ConsumerAt, LastLinked
    <2> QED
        BY <2>1, <2>2, <2>3, <2>4, <2>5
<1>4. CASE PushCount
    <2> USE <1>4 DEF PushCount, Typed
    <2>1. Typed'
        OBVIOUS
    <2>2. ProducerAt'
        BY DEF ProducerAt
    <2>3. ConsumerAt'
        BY DEF ConsumerAt, ProducerAt, Whole, LastLinked, Leaving
    <2>4. Whole'
        BY DEF Whole, ProducerAt, ConsumerAt, LastLinked
    <2>5. Counted'
        BY DEF Counted, ProducerAt, Whole, ConsumerAt, LastLinked
    <2> QED
        BY <2>1, <2>2, <2>3, <2>4, <2>5
<1>5. CASE PushSet
    <2> USE <1>5 DEF PushSet, Typed
    <2>1. Typed'
        OBVIOUS
    <2>2. ProducerAt'
        BY DEF ProducerAt
    <2>3. ConsumerAt'
        BY DEF ConsumerAt, ProducerAt, Whole, LastLinked, Leaving
    <2>4. Whole'
        BY DEF Whole, ProducerAt, ConsumerAt, LastLinked
    <2>5. Counted'
        BY DEF Counted, ProducerAt, Whole, ConsumerAt, LastLinked
    <2> QED
        BY <2>1, <2>2, <2>3, <2>4, <2>5
<1>6. CASE Wait
    <2> USE <1>6 DEF Wait, Typed
    <2>1. Typed'
        OBVIOUS
    <2>2. ProducerAt'
        BY DEF ProducerAt
    <2>3. ConsumerAt'
        BY DEF ConsumerAt, ProducerAt, Whole, LastLinked, Leaving
    <2>4. Whole'
        BY DEF Whole, ProducerAt, ConsumerAt, LastLinked
    <2>5. Counted'
        BY DEF Counted, ProducerAt, Whole, ConsumerAt, LastLinked
    <2> QED
        BY <2>1, <2>2, <2>3, <2>4, <2>5
<1>7. CASE PopLook
    <2> USE <1>7 DEF PopLook, Typed
    <2>0. phead \in Nat /\ LastLinked \in Int /\ LastLinked <= MaxPush
        BY DEF LastLinked
    <2>a. CASE next[phead] = Null
        <3>1. Typed'
            BY <2>a
        <3>2. ProducerAt'
            BY DEF ProducerAt
        <3>3. ConsumerAt'
            BY <2>a DEF ConsumerAt, LastLinked, Leaving
        <3>4. Whole' /\ Counted'
            BY <2>a DEF Whole, Counted, LastLinked
        <3> QED
            BY <3>1, <3>2, <3>3, <3>4
    <2>b. CASE next[phead] # Null
        <3>0. phead' = phead + 1 /\ phead < LastLinked /\ pre' = phead /\ cpc' = "take"
            BY <2>b, <2>0 DEF Whole
        <3>1. Typed'
            BY <2>0, <3>0
        <3>2. ProducerAt'
            BY DEF ProducerAt
        <3>3. ConsumerAt'
            <4>1. LastLinked' = LastLinked /\ freed' = freed /\ Leaving' /\ ~Leaving
                BY <3>0 DEF LastLinked, Leaving
            <4>2. phead' - 1 = phead /\ phead' <= LastLinked /\ phead' > 0
                BY <2>0, <3>0
            <4>3. freed = 1 .. phead - 1
                BY <4>1, Zenon DEF ConsumerAt
            <4>4. freed' = 1 .. (IF Leaving' THEN phead' - 1 ELSE phead') - 1
                BY <4>1, <4>2, <4>3
            <4> QED
                BY <3>0, <4>1, <4>2, <4>4 DEF ConsumerAt
        <3>4. Whole'
            <4>1. LastLinked' = LastLinked /\ next' = next
                BY DEF LastLinked
            <4>2. \A x \in phead' .. MaxPush : x \in phead .. MaxPush
                BY <2>0, <3>0
            <4> QED
                BY <4>1, <4>2 DEF Whole
        <3>5. Counted'
            <4>1. LastLinked' = LastLinked /\ size' = size /\ ppc' = ppc
                BY DEF LastLinked
            <4> QED
                BY <2>0, <3>0, <4>1 DEF Counted
        <3> QED
            BY <3>1, <3>2, <3>3, <3>4, <3>5
    <2> QED
        BY <2>a, <2>b
<1>8. CASE PopTake
    <2> USE <1>8 DEF PopTake, Typed
    <2>1. Typed'
        <3>1. value[phead] \in 0 .. MaxPush
            OBVIOUS
        <3>2. out' \in Seq(0 .. MaxPush)
            BY <3>1
        <3>3. ready' \in BOOLEAN
            BY Zenon
        <3> QED
            BY <3>2, <3>3
    <2>2. ProducerAt'
        BY DEF ProducerAt
    <2>3. ConsumerAt'
        BY DEF ConsumerAt, ProducerAt, Whole, LastLinked, Leaving
    <2>4. Whole'
        BY DEF Whole, ProducerAt, ConsumerAt, LastLinked
    <2>5. Counted'
        BY DEF Counted, ProducerAt, Whole, ConsumerAt, LastLinked
    <2> QED
        BY <2>1, <2>2, <2>3, <2>4, <2>5
<1>9. CASE PopDelete
    <2> USE <1>9 DEF PopDelete, Typed
    <2>1. Typed'
        OBVIOUS
    <2>2. ProducerAt'
        BY DEF ProducerAt
    <2>3. ConsumerAt'
        <3>1. phead \in Nat /\ phead > 0 /\ pre = phead - 1 /\ freed = 1 .. phead - 1 - 1
            BY DEF ConsumerAt, Leaving
        <3>2. freed' = 1 .. phead - 1
            <4>1. CASE pre = 0
                BY <3>1, <4>1
            <4>2. CASE pre # 0
                <5>1. freed' = freed \cup {phead - 1} /\ phead - 1 \in Nat \ {0}
                    BY <3>1, <4>2
                <5> QED
                    BY <3>1, <5>1, OneMore
            <4> QED
                BY <4>1, <4>2
        <3> QED
            BY <3>1, <3>2 DEF ConsumerAt, LastLinked, Leaving
    <2>4. Whole'
        BY DEF Whole, ProducerAt, ConsumerAt, LastLinked
    <2>5. Counted'
        BY DEF Counted, ProducerAt, Whole, ConsumerAt, LastLinked
    <2> QED
        BY <2>1, <2>2, <2>3, <2>4, <2>5
<1>10. CASE PopCount
    <2> USE <1>10 DEF PopCount, Typed
    <2>1. Typed'
        OBVIOUS
    <2>2. ProducerAt'
        BY DEF ProducerAt
    <2>3. ConsumerAt'
        BY DEF ConsumerAt, ProducerAt, Whole, LastLinked, Leaving
    <2>4. Whole'
        BY DEF Whole, ProducerAt, ConsumerAt, LastLinked
    <2>5. Counted'
        BY DEF Counted, ProducerAt, Whole, ConsumerAt, LastLinked
    <2> QED
        BY <2>1, <2>2, <2>3, <2>4, <2>5
<1>11. CASE WaitTimesOut
    BY <1>11 DEF WaitTimesOut, Typed, ProducerAt, ConsumerAt, Whole, Counted, LastLinked, Leaving
<1>12. CASE UNCHANGED vars
    BY <1>12 DEF vars, Typed, ProducerAt, ConsumerAt, Whole, Counted, LastLinked, Leaving
<1> QED
    BY <1>1, <1>2, <1>3, <1>4, <1>5, <1>6, <1>7, <1>8, <1>9, <1>10, <1>11, <1>12
    DEF Next, PushStep, PopStep

\* The invariant holds in every state of every behaviour.
THEOREM ListInvariance == Spec => []IInv
BY InitIInv, NextIInv, PTL DEF Spec

\* The type invariant: _size stays within its bounds, whatever the order of
\* the steps of the two threads.
THEOREM ListTypeCorrect == Spec => []TypeOK
<1>1. IInv => TypeOK
    <2> SUFFICES ASSUME IInv PROVE TypeOK
        OBVIOUS
    <2> USE ListAssumption DEF ListAssumption, IInv, Typed, Nodes, NulNode
    <2>1. size \in -1 .. MaxPush
        <3>1. /\ LastLinked \in Int /\ LastLinked <= pnew /\ phead <= LastLinked
              /\ ppc = "link" => LastLinked = pnew - 1
              /\ ppc # "link" => LastLinked = pnew
            BY DEF ConsumerAt, LastLinked
        <3>2. pnew \in 0 .. MaxPush /\ phead \in 0 .. MaxPush
            OBVIOUS
        <3> QED
            BY <3>1, <3>2 DEF Counted, ConsumerAt, ProducerAt
    <2>2. freed \subseteq Nodes \ {NulNode}
        BY DEF ConsumerAt, Leaving, LastLinked
    <2> QED
        BY <2>1, <2>2, Zenon DEF TypeOK
<1> QED
    BY <1>1, ListInvariance, PTL

\* No thread follows a pointer to a node that was deleted, and the nodes that
\* were pushed and not popped are all reachable from _phead.
THEOREM NoNodeUsedFreed == Spec => []PointersLive
<1>1. IInv => PointersLive
    <2> SUFFICES ASSUME IInv PROVE PointersLive
        OBVIOUS
    <2> USE ListAssumption DEF ListAssumption, IInv, Typed, Nodes, NulNode
    <2>0. phead \in Nat /\ LastLinked \in Int /\ LastLinked <= MaxPush
        BY DEF LastLinked
    <2>1. Linked = phead + 1 .. LastLinked
        BY DEF Linked, LastLinked
    <2>2. phead \notin freed
        BY <2>0 DEF ConsumerAt, Leaving
    <2>3. ppc = "link" => ptail \notin freed
        BY <2>0 DEF ConsumerAt, ProducerAt, LastLinked, Leaving
    <2>4. cpc \in {"take", "delete"} => pre \notin freed
        BY <2>0 DEF ConsumerAt, Leaving
    <2>5. freed = 1 .. (IF cpc \in {"take", "delete"} THEN pre ELSE phead) - 1
        BY <2>0 DEF ConsumerAt, Leaving
    <2>6. ASSUME NEW x \in Linked \cup {phead}
          PROVE  next[x] = IF x + 1 \in Linked THEN x + 1 ELSE Null
        <3>0. phead <= LastLinked
            BY DEF ConsumerAt
        <3> HIDE DEF IInv, Typed
        <3>1. x \in phead .. MaxPush
            BY <2>0, <2>1, <2>6, <3>0
        <3>2. x < LastLinked <=> x + 1 \in Linked
            BY <2>0, <2>1, <3>1
        <3> USE DEF IInv
        <3> QED
            BY <3>1, <3>2, Zenon DEF Whole
    <2> QED
        BY <2>2, <2>3, <2>4, <2>5, <2>6 DEF PointersLive
<1> QED
    BY <1>1, ListInvariance, PTL

\* _size is the number of values in the list, but for the push and the pop
\* that are under way.
THEOREM SizeIsRight == Spec => []SizeFollows
<1>1. IInv => SizeFollows
    <2> SUFFICES ASSUME IInv PROVE SizeFollows
        OBVIOUS
    <2> USE ListAssumption DEF ListAssumption, IInv, Typed, Nodes
    <2>0. phead + 1 \in Int /\ LastLinked \in Int /\ phead <= LastLinked
        BY DEF LastLinked, ConsumerAt
    <2>1. Linked = phead + 1 .. LastLinked
        BY DEF Linked, LastLinked
    <2>2. Cardinality(Linked) = LastLinked - phead
        <3>1. Cardinality(phead + 1 .. LastLinked)
                = IF phead + 1 > LastLinked THEN 0 ELSE LastLinked - (phead + 1) + 1
            BY <2>0, FS_Interval, Zenon
        <3> QED
            <4>1. LastLinked - (phead + 1) + 1 = LastLinked - phead /\ phead \in Int
                BY <2>0
            <4> HIDE DEF IInv, Typed
            <4>2. Cardinality(Linked) = Cardinality(phead + 1 .. LastLinked)
                BY <2>1, Zenon
            <4>3. phead + 1 > LastLinked => LastLinked - phead = 0
                BY <2>0, <4>1
            <4> QED
                BY <3>1, <4>1, <4>2, <4>3, Zenon
    <2> QED
        BY <2>2 DEF SizeFollows, Counted
<1> QED
    BY <1>1, ListInvariance, PTL

-----------------------------------------------------------------------------
(* The list implements the pipe.                                             *)

\* The values from a to b, as the content of the pipe.
Run(a, b) == [k \in 1 .. b - a + 1 |-> a + k - 1]
First == IF cpc = "take" THEN phead ELSE phead + 1

\* Sequences of the same length with the same elements are equal.
LEMMA SameSequence ==
    ASSUME NEW s \in Seq(Int), NEW t \in Seq(Int), Len(s) = Len(t),
           \A k \in 1 .. Len(s) : s[k] = t[k]
    PROVE  s = t
OBVIOUS

\* Linking the next node appends its value.
LEMMA RunGrows ==
    ASSUME NEW a \in Int, NEW b \in Int, a <= b + 1
    PROVE  Run(a, b + 1) = Append(Run(a, b), b + 1)
<1>1. Run(a, b) \in Seq(Int) /\ Len(Run(a, b)) = b - a + 1
    BY DEF Run
<1>2. Run(a, b + 1) \in Seq(Int) /\ Len(Run(a, b + 1)) = b - a + 2
    BY DEF Run
<1>3. ASSUME NEW k \in 1 .. b - a + 2
      PROVE  Run(a, b + 1)[k] = Append(Run(a, b), b + 1)[k]
    BY <1>1, <1>3 DEF Run
<1>4. /\ Append(Run(a, b), b + 1) \in Seq(Int)
      /\ Len(Append(Run(a, b), b + 1)) = b - a + 2
    BY <1>1
<1> QED
    BY <1>2, <1>3, <1>4, SameSequence

\* Taking the first value leaves the others.
LEMMA RunShrinks ==
    ASSUME NEW a \in Int, NEW b \in Int, a <= b
    PROVE  /\ Run(a, b) # <<>>
           /\ Head(Run(a, b)) = a
           /\ Run(a + 1, b) = Tail(Run(a, b))
<1>1. Run(a, b) \in Seq(Int) /\ Len(Run(a, b)) = b - a + 1
    BY DEF Run
<1>2. Run(a + 1, b) \in Seq(Int) /\ Len(Run(a + 1, b)) = b - a
    BY DEF Run
<1>3. Run(a, b) # <<>> /\ Head(Run(a, b)) = a
    BY <1>1 DEF Run
<1>4. Tail(Run(a, b)) \in Seq(Int) /\ Len(Tail(Run(a, b))) = b - a
    BY <1>1, <1>3
<1>5. ASSUME NEW k \in 1 .. b - a
      PROVE  Run(a + 1, b)[k] = Tail(Run(a, b))[k]
    BY <1>1, <1>5 DEF Run
<1>6. Run(a + 1, b) = Tail(Run(a, b))
    BY <1>2, <1>4, <1>5, SameSequence
<1> QED
    BY <1>3, <1>6

\* Every step of the list is a push into the pipe, a pop from it, or neither.
LEMMA StepOfPipe ==
    ASSUME IInv, [Next]_vars
    PROVE  [ThePipe!Next]_(ThePipe!pvars)
<1> DEFINE content == Run(First, LastLinked)
<1>a. First \in Int /\ LastLinked \in Int /\ First <= LastLinked + 1
    <2>1. phead \in Int /\ pnew \in Int
        BY ListAssumption DEF ListAssumption, IInv, Typed, Nodes, NulNode
    <2>2. LastLinked \in Int /\ phead <= LastLinked
        BY <2>1 DEF LastLinked, ConsumerAt, IInv
    <2>3. First = phead \/ First = phead + 1
        BY DEF First
    <2> QED
        BY <2>1, <2>2, <2>3
<1> USE ListAssumption DEF ListAssumption, IInv, Typed, Nodes, NulNode, producer, consumer
<1>1. CASE PushLink
    <2>1. First' = First /\ LastLinked' = LastLinked + 1 /\ out' = out /\ pnew = LastLinked + 1
        BY <1>1 DEF PushLink, First, LastLinked
    <2>2. content' = Append(content, pnew)
        BY <1>a, <2>1, RunGrows, Zenon
    <2>3. pnew \in 1 .. MaxPush
        BY <1>1 DEF PushLink, ProducerAt
    <2>4. PICK v \in 1 .. MaxPush : v = pnew
        BY <2>3
    <2>5. ThePipe!Push(v)
        BY <2>1, <2>2, <2>4 DEF ThePipe!Push, Run, First, LastLinked
    <2> QED
        BY <2>5, Zenon DEF ThePipe!Next
<1>2. CASE PopTake
    <2>1. First = phead /\ First' = First + 1 /\ LastLinked' = LastLinked /\ phead <= LastLinked
        BY <1>2 DEF PopTake, First, LastLinked, ConsumerAt
    <2>2. content # <<>> /\ Head(content) = phead /\ content' = Tail(content)
        BY <1>a, <2>1, RunShrinks, Zenon
    <2>3. phead \in 1 .. pnew
        BY <1>2, <2>1 DEF PopTake, ConsumerAt, LastLinked
    <2>4. out' = Append(out, phead)
        BY <1>2, <2>3 DEF PopTake, ProducerAt
    <2>5. ThePipe!Pop
        BY <2>2, <2>4 DEF ThePipe!Pop, Run, First, LastLinked
    <2> QED
        BY <2>5 DEF ThePipe!Next
<1>3. ASSUME First' = First, LastLinked' = LastLinked, out' = out
      PROVE  UNCHANGED ThePipe!pvars
    BY <1>3 DEF ThePipe!pvars, First, LastLinked
<1>4. CASE PushNew
    <2>1. LastLinked' = LastLinked
        BY <1>4 DEF PushNew, LastLinked
    <2> QED
        BY <1>3, <1>4, <2>1 DEF PushNew, First
<1>5. CASE PushTail \/ PushCount \/ PushSet
    BY <1>3, <1>5 DEF PushTail, PushCount, PushSet, First, LastLinked
<1>8. CASE Wait \/ WaitTimesOut \/ PopDelete \/ PopCount
    BY <1>3, <1>8 DEF Wait, WaitTimesOut, PopDelete, PopCount, First, LastLinked
<1>6. CASE PopLook
    <2>1. LastLinked \in Nat /\ LastLinked <= MaxPush
        BY DEF LastLinked, ConsumerAt
    <2>2. First' = First
        <3>1. next[phead] = Null \/ next[phead] = phead + 1
            BY <2>1 DEF Whole
        <3> QED
            BY <1>6, <3>1 DEF PopLook, First
    <2> QED
        BY <1>3, <1>6, <2>2 DEF PopLook, LastLinked
<1>7. CASE UNCHANGED vars
    BY <1>3, <1>7 DEF vars, First, LastLinked
<1> QED
    BY <1>1, <1>2, <1>4, <1>5, <1>6, <1>7, <1>8 DEF Next, PushStep, PopStep

\* The list is a one-way pipe: what is pushed comes out once, in order.
THEOREM ListIsPipe == Spec => PipeSpec
<1>1. Init => ThePipe!Init
    BY DEF Init, ThePipe!Init, NulNode
<1>2. IInv /\ [Next]_vars => [ThePipe!Next]_(ThePipe!pvars)
    BY StepOfPipe
<1> QED
    BY <1>1, <1>2, ListInvariance, PTL DEF Spec, PipeSpec, ThePipe!Spec

=============================================================================
