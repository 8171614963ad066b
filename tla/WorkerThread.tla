----------------------------- MODULE WorkerThread -----------------------------
(***************************************************************************)
(* class ec::thread of src/ec_thread.h (the pthread one).  One thread owns  *)
(* the object and starts and stops it; each start creates a thread that     *)
(* runs threadRuntime() in rounds.  The two sides talk through the plain    *)
(* ints _stopflag and _runst, read and written one at a time.                *)
(***************************************************************************)
EXTENDS Integers

CONSTANTS
    MaxStarts    \* bound: threads created

ASSUME ThreadAssumption == MaxStarts \in Nat \ {0}

Threads == 1 .. MaxStarts

VARIABLES
    tid,       \* m_tid: the thread created last, 0 = none
    runonce,   \* _runonce
    stopflag,  \* _stopflag
    runst,     \* _runst
    opc,       \* the owner's next step
    pc,        \* pc[w]: the next step of thread w
    asked      \* asked[w]: threadStop() was called since w was created

owner == <<tid, runonce, opc>>
vars == <<owner, stopflag, runst, pc, asked>>

TypeOK ==
    /\ tid \in 0 .. MaxStarts
    /\ runonce \in BOOLEAN
    /\ stopflag \in BOOLEAN
    /\ runst \in BOOLEAN
    /\ opc \in {"idle", "flag", "poll", "join"}
    /\ pc \in [Threads -> {"none", "created", "round", "check", "clear", "leave", "done"}]
    /\ asked \in [Threads -> BOOLEAN]

Init ==
    /\ tid = 0
    /\ runonce = FALSE
    /\ stopflag = FALSE
    /\ runst = FALSE
    /\ opc = "idle"
    /\ pc = [w \in Threads |-> "none"]
    /\ asked = [w \in Threads |-> FALSE]

-----------------------------------------------------------------------------
(* The owner.                                                                *)

\* threadStart() on an object that was never started or was stopped.
Start(once) ==
    /\ opc = "idle"
    /\ tid = 0
    /\ \E w \in Threads :
          /\ pc[w] = "none"
          /\ \A v \in 1 .. w - 1 : pc[v] # "none"
          /\ tid' = w
          /\ pc' = [pc EXCEPT ![w] = "created"]
    /\ runonce' = once
    /\ UNCHANGED <<opc, stopflag, runst, asked>>

Stop ==
    /\ opc = "idle"
    /\ tid # 0
    /\ opc' = "flag"
    /\ asked' = [asked EXCEPT ![tid] = TRUE]
    /\ UNCHANGED <<tid, runonce, stopflag, runst, pc>>

StopFlag ==
    /\ opc = "flag"
    /\ stopflag' = TRUE
    /\ opc' = "poll"
    /\ UNCHANGED <<tid, runonce, runst, pc, asked>>

\* Mutant: a thread that does not run needs no join.
StopPollOnly ==
    /\ opc = "poll"
    /\ ~runst
    /\ tid' = 0
    /\ opc' = "idle"
    /\ UNCHANGED <<runonce, stopflag, runst, pc, asked>>

\* while (_runst) sleep: a thread that has not begun yet is not seen.
StopPoll ==
    /\ opc = "poll"
    /\ ~runst
    /\ opc' = "join"
    /\ UNCHANGED <<tid, runonce, stopflag, runst, pc, asked>>

StopJoin ==
    /\ opc = "join"
    /\ pc[tid] = "done"
    /\ tid' = 0
    /\ opc' = "idle"
    /\ UNCHANGED <<runonce, stopflag, runst, pc, asked>>

-----------------------------------------------------------------------------
(* mainloop(), in the thread that was created.                               *)

\* Mutant: the thread clears the flag when it begins.
BeginClears(w) ==
    /\ pc[w] = "created"
    /\ runst' = TRUE
    /\ stopflag' = FALSE
    /\ pc' = [pc EXCEPT ![w] = "round"]
    /\ UNCHANGED <<owner, asked>>

Begin(w) ==
    /\ pc[w] = "created"
    /\ runst' = TRUE
    /\ pc' = [pc EXCEPT ![w] = "round"]
    /\ UNCHANGED <<owner, stopflag, asked>>

Round(w) ==
    /\ pc[w] = "round"
    /\ pc' = [pc EXCEPT ![w] = "check"]
    /\ UNCHANGED <<owner, stopflag, runst, asked>>

Check(w) ==
    /\ pc[w] = "check"
    /\ pc' = [pc EXCEPT ![w] = IF ~stopflag /\ ~runonce THEN "round" ELSE "clear"]
    /\ UNCHANGED <<owner, stopflag, runst, asked>>

Clear(w) ==
    /\ pc[w] = "clear"
    /\ stopflag' = FALSE
    /\ pc' = [pc EXCEPT ![w] = "leave"]
    /\ UNCHANGED <<owner, runst, asked>>

Leave(w) ==
    /\ pc[w] = "leave"
    /\ runst' = FALSE
    /\ pc' = [pc EXCEPT ![w] = "done"]
    /\ UNCHANGED <<owner, stopflag, asked>>

-----------------------------------------------------------------------------
OwnerStep == StopFlag \/ StopPoll \/ StopJoin
ThreadStep(w) == Begin(w) \/ Round(w) \/ Check(w) \/ Clear(w) \/ Leave(w)

Next ==
    \/ \E once \in BOOLEAN : Start(once)
    \/ Stop
    \/ OwnerStep
    \/ \E w \in Threads : ThreadStep(w)

Spec == Init /\ [][Next]_vars

\* Every thread runs: a round returns, and threadStop() sleeps and looks again.
FairSpec == Spec /\ WF_vars(OwnerStep) /\ \A w \in Threads : WF_vars(ThreadStep(w))

-----------------------------------------------------------------------------
(* Properties.                                                               *)

\* Between starts no thread of the object is left: threadStop(), and so the
\* destructor, returns after the thread is over, however early it was called.
StopMeansStopped ==
    opc = "idle" /\ tid = 0 => \A w \in Threads : pc[w] \in {"none", "done"}

\* threadStop() returns.
StopReturns == opc = "flag" ~> opc = "idle"

\* "_stopflag: not 0 means that the thread has to end": a thread that was not
\* started for a single round ends only if threadStop() was called for it.
EndsWhenAsked ==
    \A w \in Threads : pc[w] = "clear" => runonce \/ asked[w]

=============================================================================
