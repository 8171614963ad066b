---------------------------- MODULE WriteBackStore ----------------------------
(***************************************************************************)
(* What the page cache of ec_dbpagecache.h promises: pages that can be read *)
(* and written at once, and copies of them on disk that follow.  Saving a   *)
(* page copies it; dropping a page from the cache falls back to its copy.   *)
(***************************************************************************)
CONSTANTS Pages, Contents

VARIABLES store,    \* what a client reads: page -> content
          durable   \* what is on disk

svars == <<store, durable>>

TypeOK ==
    /\ store \in [Pages -> Contents]
    /\ durable \in [Pages -> Contents]

Init ==
    /\ durable \in [Pages -> Contents]
    /\ store = durable

\* Any operation may save pages on the way, and never anything but their
\* present content.
Save(S) == durable' = [p \in Pages |-> IF p \in S THEN store[p] ELSE durable[p]]

Keep == store' = store

Write(p) == \E v \in Contents : store' = [store EXCEPT ![p] = v]

Discard(S) == store' = [p \in Pages |-> IF p \in S THEN durable[p] ELSE store[p]]

Next ==
    \E S \in SUBSET Pages :
        \/ Save(S) /\ (Keep \/ \E p \in Pages : Write(p))
        \/ Discard(S) /\ durable' = durable

Spec == Init /\ [][Next]_svars
=============================================================================
