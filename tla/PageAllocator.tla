---------------------------- MODULE PageAllocator ----------------------------
(***************************************************************************)
(* What the table space of ec_tbs.h promises to its clients, with no disk,  *)
(* no free chain and no files: every page of the space is owned by a        *)
(* client, free, in the hands of the running call, or lost, and a page is   *)
(* handed out only if nobody owns it.  A page may be lost (a call that      *)
(* failed half way, a crash) but never shared.                              *)
(***************************************************************************)
EXTENDS Integers

CONSTANT Pages          \* the page numbers the disk has room for

VARIABLES owned,        \* pages the clients own
          free,         \* pages pagealloc may hand out
          moving,       \* the page, if any, that the running call holds
          up            \* a process has the space open

avars == <<owned, free, moving, up>>

TypeOK ==
    /\ owned \subseteq Pages
    /\ free \subseteq Pages
    /\ moving \subseteq Pages
    /\ up \in BOOLEAN

Init ==
    /\ owned = {}
    /\ free = {}
    /\ moving = {}
    /\ up = FALSE

\* Create and Open find the pages as the last process left them.
Start ==
    /\ ~up
    /\ up' = TRUE
    /\ UNCHANGED <<owned, free, moving>>

\* pagealloc grew the space: pages nobody owns become free.
Extend(S) ==
    /\ up /\ moving = {}
    /\ S \cap owned = {}
    /\ free' = free \cup S
    /\ UNCHANGED <<owned, moving, up>>

\* pagealloc takes a free page off the chain ...
Reserve(p) ==
    /\ up /\ moving = {}
    /\ p \in free
    /\ free' = free \ {p}
    /\ moving' = {p}
    /\ UNCHANGED <<owned, up>>

\* ... and returns it to the client.
Grant ==
    /\ up /\ moving # {}
    /\ owned' = owned \cup moving
    /\ moving' = {}
    /\ UNCHANGED <<free, up>>

\* A client gives a page up by calling pagefree ...
Release(p) ==
    /\ up /\ moving = {}
    /\ owned' = owned \ {p}
    /\ moving' = {p} \ free
    /\ UNCHANGED <<free, up>>

\* ... and pagefree puts it on the chain.
Recycle ==
    /\ up
    /\ free' = free \cup moving
    /\ moving' = {}
    /\ UNCHANGED <<owned, up>>

\* A call fails: the page it was moving belongs to nobody any more.
Lose ==
    /\ up
    /\ moving' = {}
    /\ UNCHANGED <<owned, free, up>>

\* pagealloc dropped a free page because the new chain head was not saved.
Drop(p) ==
    /\ up /\ moving = {}
    /\ p \in free
    /\ free' = free \ {p}
    /\ UNCHANGED <<owned, moving, up>>

\* Part of the free chain became unreadable.
Shrink(S) ==
    /\ up /\ moving = {}
    /\ free' = free \ S
    /\ UNCHANGED <<owned, moving, up>>

\* The process dies; what the next one finds free is any pages nobody owns.
Stop(F) ==
    /\ up
    /\ F \cap owned = {}
    /\ up' = FALSE
    /\ free' = F
    /\ moving' = {}
    /\ UNCHANGED owned

Next ==
    \/ \E S \in SUBSET Pages : Extend(S) \/ Shrink(S) \/ Stop(S)
    \/ \E p \in Pages : Reserve(p) \/ Release(p) \/ Drop(p)
    \/ Start
    \/ Grant
    \/ Recycle
    \/ Lose

Spec == Init /\ [][Next]_avars

=============================================================================
