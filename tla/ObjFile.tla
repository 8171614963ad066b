------------------------------- MODULE ObjFile --------------------------------
(***************************************************************************)
(* The object file (src/ec_objfile.h) and the dictionary of tags that the  *)
(* data index keeps in it (src/ec_dbindex.h).  An object is a list of      *)
(* pages; the pages of deleted objects are a list as well.  A call is one  *)
(* step, in which one write may fail or the process may die before it: the *)
(* writes from there on are lost, and the file is opened again.            *)
(***************************************************************************)
EXTENDS Integers, FiniteSets, SequencesExt

CONSTANTS
    Tags,
    Contents,   \* what an entry says beside the tag, numbers from 1
    Parts,      \* [Contents -> number of pages it fills]
    Grow,       \* OBF_GROW_SIZE
    MaxPages,   \* the pages the file has room for on disk
    Files,      \* what was written to the file before: sequences of entries
    Breaks,     \* which write of a call fails or is not reached, from 1
    MaxWrites   \* bound on calls

VARIABLES
    info,    \* _info: all pages, and the first free one
    saved,   \* _info in the file
    heads,   \* [page -> its head, with the part of an object behind it]
    map,     \* _map: [tag -> content, and the first page of its object]
    found,   \* what OpenObf would make of the file: Load(saved, heads)
    broke,   \* whether the storage failed in the last call
    todo     \* calls still to be made

vars == <<info, saved, heads, map, found, broke, todo>>

End == -1     \* OBF_PAGE_END
None == 0     \* no entry
PageNos == 0..MaxPages - 1
Page(flag, next, part) == [flag |-> flag, next |-> next, part |-> part]
NoData == <<>>

\* A call works on a copy f of the file.  fault counts down to the write that
\* fails; it is not met when it begins at 0.  failed tells that it was met, or
\* that the disk was full.
Copy(fault, dies) ==
    [info |-> info, saved |-> saved, heads |-> heads,
     fault |-> fault, dies |-> dies, failed |-> FALSE]

Success(f) == [f |-> f, ok |-> TRUE]
Failure(f) == [f |-> [f EXCEPT !.failed = TRUE], ok |-> FALSE]

\* Go on with next when the result r is a success.
Then(r, next(_)) == IF r.ok THEN next(r.f) ELSE r

\* One write, after which the file is as in next.
Write(f, next) ==
    IF f.fault = 1 THEN Failure(IF f.dies THEN f ELSE [f EXCEPT !.fault = 0])
    ELSE Success([next EXCEPT !.fault = IF @ = 0 THEN 0 ELSE @ - 1])

UpdateInfo(f) == Write(f, [f EXCEPT !.saved = f.info])

WriteHead(f, p, flag, next) ==
    Write(f, [f EXCEPT !.heads[p] = Page(flag, next, NoData)])

-----------------------------------------------------------------------------
(* Pages *)

\* grownpages.  The writes of the page heads count as one: nothing reads pages
\* beyond _numallpages, and the next growth writes them again.
GrownPages(f) ==
    LET first == f.info.all
        last == first + Grow - 1
        new == [p \in first..last |->
                  Page("free", IF p = last THEN f.info.next ELSE p + 1, NoData)]
    IN  IF last \notin PageNos THEN Failure(f)
        ELSE Then(Write(f, [f EXCEPT !.heads = new @@ @]),
                  LAMBDA g : UpdateInfo([g EXCEPT !.info = [all |-> last + 1, next |-> first]]))

\* The first free page of f, when it is marked so, or no page.
FreePage(f, Given(_, _)) ==
    LET p == f.info.next
    IN  IF f.heads[p].flag # "free" THEN [f |-> f, ok |-> FALSE]
        ELSE Given([f EXCEPT !.info.next = f.heads[p].next], p)

Allocated(f, Given(_, _)) ==
    Then(IF f.info.next = End THEN GrownPages(f) ELSE Success(f),
         LAMBDA g : FreePage(g, Given)) @@ [page |-> End]

GivenPage(f, p) == [f |-> WriteHead(f, p, "first", End).f, ok |-> TRUE, page |-> p]

\* Mutant: the information is saved by a later call.
PageAllocUnsaved(f) == Allocated(f, GivenPage)

\* pagealloc.  Whether the head is written is not looked at.
PageAlloc(f) ==
    Allocated(f, LAMBDA taken, p : Then(UpdateInfo(taken), LAMBDA u : GivenPage(u, p)))

\* Mutant: the information goes first, then the head of the page.
PageFreeInfoFirst(f, p) ==
    IF p + 1 >= f.info.all THEN f
    ELSE Then(UpdateInfo([f EXCEPT !.info.next = p]),
              LAMBDA u : WriteHead(u, p, "free", f.info.next)).f

\* pagefree refuses the last page.  It takes no page for a free one: isfreepage
\* is FALSE for every head that can be parsed.
PageFree(f, p) ==
    IF p + 1 >= f.info.all THEN f
    ELSE Then(WriteHead(f, p, "free", f.info.next),
              LAMBDA w : UpdateInfo([w EXCEPT !.info.next = p])).f

\* freepages, which goes from the highest page to the lowest.
FreePages(f, S) == FoldLeft(PageFree, f, SetToSortSeq(S, >))

\* writepage.  With 512 bytes to a page, page End is in an unused part of the
\* first 8K.
WritePage(f, p, flag, part, next) ==
    Write(f, IF p = End THEN f ELSE [f EXCEPT !.heads[p] = Page(flag, next, part)])

-----------------------------------------------------------------------------
(* Objects *)

\* The list of pages from p on.
Follow(hs, p) ==
    LET at[i \in 1..MaxPages + 1] ==
          IF i = 1 THEN p
          ELSE LET before == at[i - 1] IN IF before = End THEN End ELSE hs[before].next
    IN  SelectSeq([i \in 1..MaxPages + 1 |-> at[i]], LAMBDA q : q # End)

\* getPages and getObject accept it.
IsObject(hs, p) ==
    /\ p # End => hs[p].flag = "first"
    /\ \A q \in ToSet(Follow(hs, p)) : hs[q].flag \in {"first", "next"}

\* pgalloc: the next page of the object, or a new one.
Take(f, rest) ==
    IF rest = <<>> THEN PageAlloc(f) @@ [rest |-> <<>>]
    ELSE [f |-> f, ok |-> TRUE, page |-> Head(rest), rest |-> Tail(rest)]

\* The n parts of an object, from the first page on, that was taken with s.
\* That there is no page for the first part is not looked at.
WriteParts(s, t, content, n) ==
    LET first == s.page
        put(q, i, b) ==
            IF ~b.ok THEN b
            ELSE WritePage(b.f, q, IF q = first THEN "first" ELSE "next",
                           <<t, content, i>>, b.page) @@ b
        step(r, i) ==
            IF ~r.ok THEN r
            ELSE put(r.page, i, IF i = n THEN [r EXCEPT !.page = End] ELSE Take(r.f, r.rest))
    IN  FoldLeft(step, [s EXCEPT !.ok = TRUE], [i \in 1..n |-> i]) @@ [first |-> first]

\* writeObject over the object at p, or of a new one.
WriteObject(f, t, content, p) ==
    LET rid(w) == [f |-> FreePages(w.f, ToSet(w.rest)), ok |-> w.ok, page |-> w.first]
    IN  IF ~IsObject(f.heads, p) THEN [f |-> f, ok |-> FALSE, page |-> p]
        ELSE rid(WriteParts(Take(f, Follow(f.heads, p)), t, content, Parts[content]))

FreeObject(f, p) ==
    IF IsObject(f.heads, p) THEN FreePages(f, ToSet(Follow(f.heads, p))) ELSE f

\* getObject reads an entry of the dictionary from page p on: pages with data
\* are not free.  An object that is cut short ends within the name of the tag and
\* is not parsed.
IsEntry(hs, p) ==
    /\ hs[p].flag = "first" /\ hs[p].part # NoData
    /\ LET list == Follow(hs, p)
           parts == [i \in 1..Parts[hs[p].part[2]] |-> [hs[p].part EXCEPT ![3] = i]]
       IN  [i \in DOMAIN list |-> hs[list[i]].part] = parts

\* loadAll and what OpenObf makes of it; of a tag that comes twice the last is
\* taken.
Load(inf, hs) ==
    LET entry(p) == [content |-> IF p = End THEN None ELSE hs[p].part[2], page |-> p]
        firsts == {p \in 0..inf.all - 1 : IsEntry(hs, p)}
    IN  [t \in Tags |-> entry(Max({End} \union {p \in firsts : hs[p].part[1] = t}))]

-----------------------------------------------------------------------------
(* The calls *)

\* After a call, or after the process died in it.
Becomes(f, m) ==
    /\ todo' = todo - 1
    /\ saved' = f.saved /\ heads' = f.heads /\ broke' = f.failed
    /\ info' = IF f.dies THEN f.saved ELSE f.info
    /\ found' = Load(f.saved, f.heads)
    /\ map' = IF f.dies THEN found' ELSE m

\* InsertIdx writes the entry of a new tag, or a changed one, which it takes
\* back when the write fails; DelIdxRec writes a changed one and does not take
\* it back.  Left out are faults of calls that change an entry which needs
\* several pages, before or after, but for a crash while it shrinks.
WriteIdx(t, content, fault, dies) ==
    LET old == map[t]
        outcomes(w) ==
            IF w.ok THEN {[content |-> content, page |-> w.page]}
            ELSE IF old.content = None THEN {old}
            ELSE {[content |-> c, page |-> w.page] : c \in {old.content, content}}
    IN  /\ fault # 0 /\ old.content # None =>
             Parts[content] = 1 /\ (dies \/ Len(Follow(heads, old.page)) < 2)
        /\ \E w \in {WriteObject(Copy(fault, dies), t, content, old.page)} :
             /\ fault # 0 => w.f.failed
             /\ \E entry \in outcomes(w) : Becomes(w.f, [map EXCEPT ![t] = entry])

\* ClearIdxTree, which does not look at the answer of freeObject.  Left out are
\* calls that leave the object where it is, and a fault with several pages.
ClearIdxTree(t, fault, dies) ==
    LET p == map[t].page
    IN  /\ map[t].content # None
        /\ \E f \in {FreeObject(Copy(fault, dies), p)} :
             /\ fault # 0 => f.failed /\ Parts[map[t].content] = 1
             /\ ~dies /\ p # End => f.heads[p].flag = "free"
             /\ Becomes(f, [map EXCEPT ![t] = [content |-> None, page |-> End]])

\* The file is closed, or the process dies between two calls; OpenObf.
OpenObf ==
    /\ info' = saved
    /\ map' = found
    /\ UNCHANGED <<saved, heads, found, broke, todo>>

\* createFile, and files that were written without a failure; None takes the
\* entry out.
NewFile ==
    [info |-> [all |-> 0, next |-> End], saved |-> [all |-> 0, next |-> End],
     heads |-> [p \in PageNos |-> Page("free", End, NoData)],
     fault |-> 0, dies |-> FALSE, failed |-> FALSE]
Made(history) ==
    FoldLeft(LAMBDA f, e :
                LET p == Load(f.info, f.heads)[e[1]].page
                IN  IF e[2] = None THEN FreeObject(f, p) ELSE WriteObject(f, e[1], e[2], p).f,
             NewFile, history)

AtRest(f) ==
    /\ info = f.info /\ saved = f.saved /\ heads = f.heads
    /\ found = Load(f.saved, f.heads) /\ map = found
    /\ broke = FALSE

Init ==
    /\ \E history \in Files : AtRest(Made(history))
    /\ todo = MaxWrites

Next ==
    \/ /\ todo > 0
       /\ \E t \in Tags, fault \in Breaks \union {0}, dies \in BOOLEAN :
            /\ dies => fault # 0
            /\ \/ \E content \in Contents : WriteIdx(t, content, fault, dies)
               \/ ClearIdxTree(t, fault, dies)
    \/ OpenObf

Spec == Init /\ [][Next]_vars

-----------------------------------------------------------------------------
(* Properties *)

\* The free pages are a list that ends, within the file and all marked free.
FreeSound(inf) ==
    LET list == Follow(heads, inf.next)
    IN  /\ IsInjective(list)
        /\ \A p \in ToSet(list) : p < inf.all /\ heads[p].flag = "free"

\* The free list is sound by the information in memory and by the one a crash
\* would leave; each tag that has a place has its own list of pages there, and
\* no object is on disk that could be taken for the entry of a tag beside it.
Sound ==
    LET placed == {t \in Tags : map[t].page # End}
        list(t) == Follow(heads, map[t].page)
    IN  /\ FreeSound(info) /\ FreeSound(saved)
        /\ \A t \in placed :
             /\ IsObject(heads, map[t].page) /\ IsInjective(list(t))
             /\ \A p \in ToSet(list(t)) : p < info.all /\ p < saved.all
             /\ \A u \in placed \ {t} : ToSet(list(t)) \intersect ToSet(list(u)) = {}
        /\ \A p \in 0..info.all - 1 :
             IsEntry(heads, p) => map[heads[p].part[1]].page = p

\* To the data index the file is a map with a copy on disk.
ContentOf(m) == [t \in Tags |-> m[t].content]
TheMap == INSTANCE KeptMap WITH
    entries <- ContentOf(map), kept <- ContentOf(found), failed <- broke
KeptSpec == TheMap!Spec
=============================================================================
