------------------------------- MODULE KeptMap --------------------------------
(***************************************************************************)
(* What the dictionary of the index promises: a map from tags to contents  *)
(* with a copy on disk.  A call changes the entry of one tag.  Only when   *)
(* the storage fails may the map and the copy go apart, and then at that   *)
(* entry; a tag that is not in the map is never in the copy.               *)
(***************************************************************************)
CONSTANTS Tags, Contents, None

VARIABLES
    entries,   \* [Tags -> content in memory, or None]
    kept,      \* [Tags -> content on disk, or None]
    failed     \* whether the storage failed in the last call

Init ==
    /\ entries \in [Tags -> Contents \union {None}]
    /\ kept = entries /\ failed = FALSE

\* A call that makes new of the entry of t.  It may be answered by a success
\* though the storage failed.  When the process dies, the copy is loaded.
Write ==
    LET was == entries  is == entries'
        had == kept     has == kept'
    IN  \E t \in Tags, new \in Contents \union {None} :
          /\ \A u \in Tags : has[u] \in IF u = t THEN {had[t], new} ELSE {had[u]}
          /\ \/ /\ \A u \in Tags : is[u] \in IF u = t THEN {was[t], new} ELSE {was[u]}
                /\ ~failed' => is[t] = new /\ has[t] = new
                /\ is[t] = None => has[t] = None
             \/ failed' /\ is = has

Reopen == entries' = kept /\ UNCHANGED <<kept, failed>>

Next == Reopen \/ Write

Spec == Init /\ [][Next]_<<entries, kept, failed>>
=============================================================================
