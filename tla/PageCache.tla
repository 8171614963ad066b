------------------------------ MODULE PageCache ------------------------------
(***************************************************************************)
(* The page cache of the data table, class CPageCache of                    *)
(* src/ec_dbpagecache.h, down to the pointers of its doubly linked list.    *)
(* A node holds one page; the list runs from the page used last to the one  *)
(* unused longest, which a full cache reuses.  The class is used by one      *)
(* thread, so each operation is one step.                                   *)
(***************************************************************************)
EXTENDS Integers, FiniteSets

CONSTANTS
    PageNos,     \* pages of the table space
    Size,        \* DB_WPG_SIZE: nodes the cache may have
    Parts,       \* parts of a page that are written separately
    Values,      \* contents of a part
    Hazards,     \* a subset of {"readFault", "writeFault", "noMemory"}
    Null         \* nullptr

ASSUME CacheAssumption ==
    /\ Size \in Nat \ {0}
    /\ Parts \in Nat \ {0}
    /\ Hazards \subseteq {"readFault", "writeFault", "noMemory"}
    /\ Values # {}
    /\ Null \notin PageNos \cup (1 .. Size)

Nodes == 1 .. Size
Contents == [1 .. Parts -> Values]
May(hazard) == hazard \in Hazards

VARIABLES
    phead,    \* _phead
    pgno,     \* pgno[x]: the page of node x, Null if x is not allocated
    pprev,    \* pprev[x], pnext[x]: the links of node x
    pnext,
    updated,  \* updatesize[x], in parts: 0 = the page was not changed
    page,     \* page[x]: the content held in node x
    disk,     \* the pages of the table space
    got,      \* the node the last call returned, Null if none
    died      \* the call in which a null pointer was followed, if any

list == <<phead, pgno, pprev, pnext>>
vars == <<list, updated, page, disk, got, died>>

\* The k-th node from the head on, by the links pnext.
NodeAt ==
    LET at[k \in 0 .. Size] ==
            IF k = 0 THEN phead ELSE IF at[k - 1] = Null THEN Null ELSE pnext[at[k - 1]]
    IN  at

Listed == { NodeAt[k] : k \in 0 .. Size } \ {Null}
Holding(p) == { x \in Listed : pgno[x] = p }
Tail == CHOOSE x \in Listed : pnext[x] = Null

TypeOK ==
    /\ phead \in Nodes \cup {Null}
    /\ pgno \in [Nodes -> PageNos \cup {Null}]
    /\ pprev \in [Nodes -> Nodes \cup {Null}]
    /\ pnext \in [Nodes -> Nodes \cup {Null}]
    /\ updated \in [Nodes -> 0 .. Parts]
    /\ page \in [Nodes -> Contents]
    /\ disk \in [PageNos -> Contents]
    /\ got \in Nodes \cup {Null}
    /\ died \in {"none", "reuse", "remove"}

Blank == CHOOSE content \in Contents : TRUE

Init ==
    /\ phead = Null
    /\ pgno = [x \in Nodes |-> Null]
    /\ pprev = [x \in Nodes |-> Null]
    /\ pnext = [x \in Nodes |-> Null]
    /\ updated = [x \in Nodes |-> 0]
    /\ page = [x \in Nodes |-> Blank]
    /\ disk = [p \in PageNos |-> Blank]
    /\ got = Null
    /\ died = "none"

-----------------------------------------------------------------------------
\* Mutant: one part short.
SavedShort(x) == [k \in 1 .. Parts |-> IF k < updated[x] THEN page[x][k] ELSE disk[pgno[x]][k]]

\* writepage() of a node: the first updatesize bytes of the page.
Saved(x) == [k \in 1 .. Parts |-> IF k <= updated[x] THEN page[x][k] ELSE disk[pgno[x]][k]]

\* The result of a call of GetPageNode(p) that returned node x holding the
\* content c: WritePage goes on with it, GetPage leaves it at that.
Change == [from : 1 .. Parts, to : 1 .. Parts, value : Values]
NoChange == [from |-> 1, to |-> 0, value |-> Null]

Use(x, c, u, change) ==
    /\ got' = x
    /\ page' = [page EXCEPT ![x] =
                   [k \in 1 .. Parts |->
                       IF k \in change.from .. change.to THEN change.value ELSE c[k]]]
    /\ updated' = [updated EXCEPT ![x] = IF change.to > u THEN change.to ELSE u]

Failed ==
    /\ got' = Null
    /\ UNCHANGED <<list, updated, page, disk, died>>

\* A null pprev is followed in a call, with the disk as the call left it.
NullFollowed(call, d) ==
    /\ died' = call
    /\ got' = Null
    /\ disk' = d
    /\ UNCHANGED <<list, updated, page>>

\* Mutant: the node moves without being taken out first.
HitLinked(p, change) ==
    \E x \in Holding(p) :
        /\ IF pprev[x] # Null
           THEN /\ phead' = x
                /\ pnext' = [pnext EXCEPT ![x] = phead]
                /\ pprev' = [pprev EXCEPT ![x] = Null]
           ELSE UNCHANGED <<phead, pnext, pprev>>
        /\ Use(x, page[x], updated[x], change)
        /\ UNCHANGED <<pgno, disk, died>>

\* The page is in the cache.  A node with a predecessor moves to the head;
\* pprev of the node that was the head stays as it is.
Hit(p, change) ==
    \E x \in Holding(p) :
        /\ IF pprev[x] # Null
           THEN /\ phead' = x
                /\ pnext' = [pnext EXCEPT ![pprev[x]] = pnext[x], ![x] = phead]
                /\ pprev' = [y \in Nodes |->
                                IF y = x THEN Null
                                ELSE IF y = pnext[x] THEN pprev[x] ELSE pprev[y]]
           ELSE UNCHANGED <<phead, pnext, pprev>>
        /\ Use(x, page[x], updated[x], change)
        /\ UNCHANGED <<pgno, disk, died>>

\* The cache is full: the last node is saved, taken out and reused.
Reuse(p, change) ==
    /\ Holding(p) = {}
    /\ Cardinality(Listed) >= Size
    /\ LET x == Tail
           saved == IF updated[x] > 0 THEN [disk EXCEPT ![pgno[x]] = Saved(x)] ELSE disk
       IN  \/ updated[x] > 0 /\ May("writeFault") /\ Failed
           \/ pprev[x] = Null /\ NullFollowed("reuse", saved)
           \/ /\ pprev[x] # Null
              /\ May("readFault")
              /\ disk' = saved
              /\ pgno' = [pgno EXCEPT ![x] = Null]
              /\ pnext' = [pnext EXCEPT ![pprev[x]] = Null]
              /\ pprev' = [pprev EXCEPT ![x] = Null]
              /\ updated' = [updated EXCEPT ![x] = 0]
              /\ page' = [page EXCEPT ![x] = Blank]
              /\ got' = Null
              /\ UNCHANGED <<phead, died>>
           \/ /\ pprev[x] # Null
              /\ disk' = saved
              /\ pgno' = [pgno EXCEPT ![x] = p]
              /\ pnext' = [pnext EXCEPT ![pprev[x]] = Null, ![x] = phead]
              /\ pprev' = [pprev EXCEPT ![x] = Null, ![phead] = x]
              /\ phead' = x
              /\ Use(x, saved[p], 0, change)
              /\ UNCHANGED died

\* There is room: a new node, put at the head if its page can be read.
Add(p, change) ==
    /\ Holding(p) = {}
    /\ Cardinality(Listed) < Size
    /\ \/ (May("readFault") \/ May("noMemory")) /\ Failed
       \/ LET x == CHOOSE y \in Nodes : pgno[y] = Null
          IN  /\ pgno' = [pgno EXCEPT ![x] = p]
              /\ pnext' = [pnext EXCEPT ![x] = phead]
              /\ pprev' = [y \in Nodes |->
                              IF y = x THEN Null ELSE IF y = phead THEN x ELSE pprev[y]]
              /\ phead' = x
              /\ Use(x, disk[p], 0, change)
              /\ UNCHANGED <<disk, died>>

GetPageNode(p, change) == Hit(p, change) \/ Reuse(p, change) \/ Add(p, change)

GetPage(p) == died = "none" /\ GetPageNode(p, NoChange)

WritePage(p, change) ==
    /\ died = "none"
    /\ change.from <= change.to
    /\ GetPageNode(p, change)

-----------------------------------------------------------------------------
\* Mutant: the loop ends before the last node.
FlushNodesButLast(S, F) ==
    LET good == { x \in S : updated[x] > 0 /\ pnext[x] # Null } \ F
    IN  /\ disk' = [p \in PageNos |->
                       IF \E x \in good : pgno[x] = p
                       THEN Saved(CHOOSE x \in good : pgno[x] = p) ELSE disk[p]]
        /\ updated' = [x \in Nodes |-> IF x \in good THEN 0 ELSE updated[x]]
        /\ got' = Null
        /\ UNCHANGED <<list, page, died>>

\* Saves the changed pages, head first, whatever failed before; the pages of
\* the nodes in F cannot be written.
FlushNodes(S, F) ==
    LET good == { x \in S : updated[x] > 0 } \ F
    IN  /\ disk' = [p \in PageNos |->
                       IF \E x \in good : pgno[x] = p
                       THEN Saved(CHOOSE x \in good : pgno[x] = p) ELSE disk[p]]
        /\ updated' = [x \in Nodes |-> IF x \in good THEN 0 ELSE updated[x]]
        /\ got' = Null
        /\ UNCHANGED <<list, page, died>>

Failures == IF May("writeFault") THEN SUBSET Nodes ELSE {{}}

FlushAll(F) == died = "none" /\ FlushNodes(Listed, F)

Flush(p, F) == died = "none" /\ FlushNodes(Holding(p), F)

\* Frees the node of the page without saving it.
RemovePage(p) ==
    /\ died = "none"
    /\ \E x \in Holding(p) :
          IF x # phead /\ pprev[x] = Null THEN NullFollowed("remove", disk)
          ELSE /\ phead' = IF x = phead THEN pnext[x] ELSE phead
               /\ pnext' = [y \in Nodes |->
                               IF y = x THEN Null
                               ELSE IF x # phead /\ y = pprev[x] THEN pnext[x]
                               ELSE pnext[y]]
               /\ pprev' = [y \in Nodes |->
                               IF y = x THEN Null
                               ELSE IF y = pnext[x]
                                    THEN IF x = phead THEN Null ELSE pprev[x]
                               ELSE pprev[y]]
               /\ pgno' = [pgno EXCEPT ![x] = Null]
               /\ updated' = [updated EXCEPT ![x] = 0]
               /\ page' = [page EXCEPT ![x] = Blank]
               /\ got' = Null
               /\ UNCHANGED <<disk, died>>

\* clear(): frees all nodes; so does the end of the process.
Clear ==
    /\ died = "none"
    /\ phead' = Null
    /\ pgno' = [x \in Nodes |-> IF x \in Listed THEN Null ELSE pgno[x]]
    /\ pprev' = [x \in Nodes |-> Null]
    /\ pnext' = [x \in Nodes |-> Null]
    /\ updated' = [x \in Nodes |-> 0]
    /\ page' = [x \in Nodes |-> Blank]
    /\ got' = Null
    /\ UNCHANGED <<disk, died>>

Next ==
    \/ \E p \in PageNos :
          \/ GetPage(p)
          \/ \E change \in Change : WritePage(p, change)
          \/ RemovePage(p)
          \/ \E F \in Failures : Flush(p, F)
    \/ \E F \in Failures : FlushAll(F)
    \/ Clear

Spec == Init /\ [][Next]_vars

-----------------------------------------------------------------------------
(* Properties.                                                               *)

\* The list reaches every allocated node, and no page has two nodes, so no
\* change can be stranded in a node FlushAll does not see or be overwritten
\* by an older copy; and nodes stay of their type, updatesize within a page.
ListSound ==
    /\ TypeOK
    /\ NodeAt[Size] = Null
    /\ Listed = { x \in Nodes : pgno[x] # Null }
    /\ \A x, y \in Listed : pgno[x] = pgno[y] => x = y

\* When FlushAll reports no failure every page of the cache is on disk.
FlushAllSaves ==
    [][ FlushAll({}) => \A x \in Listed : disk'[pgno[x]] = page[x] ]_vars

\* A page that is dropped to make room is not lost: the cache over the disk
\* behaves like a store that is written back.
Store == INSTANCE WriteBackStore WITH
    Pages <- PageNos,
    store <- [p \in PageNos |->
                 IF Holding(p) = {} THEN disk[p]
                 ELSE page[CHOOSE x \in Holding(p) : TRUE]],
    durable <- disk

StoreSpec == Store!Spec

\* "Full, reuse the last page": a full cache takes any page in for its last
\* node, and does not follow a null pointer there (ec_dbpagecache.h:180).
LastReused == died # "reuse"

=============================================================================
