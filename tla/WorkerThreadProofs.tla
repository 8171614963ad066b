-------------------------- MODULE WorkerThreadProofs --------------------------
(***************************************************************************)
(* Proofs about WorkerThread: for any number of starts, threadStop() leaves *)
(* no thread behind.                                                         *)
(***************************************************************************)
EXTENDS WorkerThread, TLAPS

\* Only the thread created last can be alive, and only while m_tid says so.
OnlyLast ==
    /\ opc # "idle" => tid # 0
    /\ \A w \in Threads : pc[w] \in {"none", "done"} \/ w = tid

IInv == TypeOK /\ OnlyLast

\* No thread before the first start.
LEMMA InitIInv == Init => IInv
<1> SUFFICES ASSUME Init PROVE IInv
    OBVIOUS
<1>1. tid \in 0 .. MaxStarts
    BY ThreadAssumption DEF ThreadAssumption, Init
<1>2. runonce \in BOOLEAN /\ stopflag \in BOOLEAN /\ runst \in BOOLEAN
    BY Zenon DEF Init
<1>3. asked \in [Threads -> BOOLEAN]
    BY Zenon DEF Init
<1>4. TypeOK
    BY <1>1, <1>2, <1>3 DEF Init, TypeOK
<1>5. OnlyLast
    BY DEF Init, OnlyLast
<1> QED
    BY <1>4, <1>5 DEF IInv

\* threadStart, threadStop and mainloop keep the invariant: a start needs
\* m_tid = 0, and m_tid becomes 0 only after the join.
LEMMA NextIInv == IInv /\ [Next]_vars => IInv'
<1> SUFFICES ASSUME IInv, [Next]_vars PROVE IInv'
    OBVIOUS
<1> USE ThreadAssumption DEF ThreadAssumption, IInv, TypeOK, OnlyLast, Threads, owner
<1>1. ASSUME NEW once \in BOOLEAN, Start(once) PROVE IInv'
    BY <1>1 DEF Start
<1>2. CASE Stop
    BY <1>2 DEF Stop
<1>3. CASE StopFlag
    BY <1>3 DEF StopFlag
<1>4. CASE StopPoll
    BY <1>4 DEF StopPoll
<1>5. CASE StopJoin
    BY <1>5 DEF StopJoin
<1>6. ASSUME NEW w \in Threads, Begin(w) PROVE IInv'
    BY <1>6 DEF Begin
<1>7. ASSUME NEW w \in Threads, Round(w) PROVE IInv'
    BY <1>7 DEF Round
<1>8. ASSUME NEW w \in Threads, Check(w) PROVE IInv'
    BY <1>8 DEF Check
<1>9. ASSUME NEW w \in Threads, Clear(w) PROVE IInv'
    BY <1>9 DEF Clear
<1>10. ASSUME NEW w \in Threads, Leave(w) PROVE IInv'
    BY <1>10 DEF Leave
<1>11. CASE UNCHANGED vars
    BY <1>11 DEF vars
<1> QED
    BY <1>1, <1>2, <1>3, <1>4, <1>5, <1>6, <1>7, <1>8, <1>9, <1>10, <1>11
    DEF Next, OwnerStep, ThreadStep

\* The invariant holds in every state of every behaviour.
THEOREM ThreadInvariance == Spec => []IInv
BY InitIInv, NextIInv, PTL DEF Spec

\* The type invariant of ec::thread.
THEOREM ThreadTypeCorrect == Spec => []TypeOK
<1>1. IInv => TypeOK
    BY DEF IInv
<1> QED
    BY <1>1, ThreadInvariance, PTL

\* When threadStop() has returned, and before the first start, no thread of
\* the object is alive.
THEOREM StopIsComplete == Spec => []StopMeansStopped
<1>1. IInv => StopMeansStopped
    BY DEF IInv, TypeOK, OnlyLast, StopMeansStopped, Threads
<1> QED
    BY <1>1, ThreadInvariance, PTL

=============================================================================
