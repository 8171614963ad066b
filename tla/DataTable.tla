------------------------------ MODULE DataTable -------------------------------
(***************************************************************************)
(* CDataTable (src/ec_dbtable.h): the records of a tag are spread over a   *)
(* doubly linked chain of pages (src/ec_dbdatapage.h), which are written   *)
(* through the page cache to the table space, and found by an index.  One  *)
(* thread uses a table; a call is one step.  Pages leave the cache between *)
(* calls, in any order, and the process may die there.                     *)
(***************************************************************************)
EXTENDS DataIndex, Integers, FiniteSets, SequencesExt

CONSTANTS
    Tags, Keys, Vals,
    Size,          \* [Vals -> units a record takes]
    PageSize,      \* units of data in a page
    Reserve,       \* RDB_DATAPAGE_INSERT_RES_SIZE
    ReuseMin,      \* RDB_REUSE_MIN_IDXNUM, and the reusepgnum of the callers
    NumPages,      \* the pages the table space can grow to
    Puts,          \* records that are given to insert: functions of one key
    Batches,       \* records that are given to insertfast: functions
    Loads,         \* chains of pages, as sets of keys, a table is opened with
    MaxCalls       \* bound on calls

ASSUME TableAssumption ==
    /\ Keys \subseteq Nat \ {0} /\ IsFiniteSet(Keys)
    /\ Vals \subseteq Nat \ {0} /\ Vals # {} /\ Size \in [Vals -> 1..PageSize]
    /\ PageSize \in Nat /\ Reserve \in 1..PageSize
    /\ ReuseMin \in Nat /\ ReuseMin > 3 /\ NumPages \in Nat
    /\ \A w \in Puts \union Batches :
         DOMAIN w \subseteq Keys /\ DOMAIN w # {} /\ w \in [DOMAIN w -> Vals]
    /\ \A w \in Puts : \E k \in Keys : DOMAIN w = {k}
    /\ \A load \in Loads :
         /\ load \in Seq((SUBSET Keys) \ {{}}) /\ Len(load) <= NumPages
         /\ \A i, j \in 1..Len(load) :
              i < j => \A k \in load[i], l \in load[j] : k < l

VARIABLES
    disk,    \* [page -> what is on disk: a data page, a free page, or neither]
    dirty,   \* pages of the cache that are not saved; the others are as on disk
    free,    \* the pages given back to the table space, last one first
    index,   \* [Tags -> index]
    reply,   \* the last call and its answer
    calls    \* calls still to be made

vars == <<disk, dirty, free, index, reply, calls>>

PageNos == 1..NumPages
Nil == -1
\* A page is beyond the end of the space, free (its head says so), taken but
\* not written (pagealloc fills the head with 0xFF), or holds records.
Page(idxval, prev, next, recs) ==
    [kind |-> "data", idxval |-> idxval, prev |-> prev, next |-> next, recs |-> recs]
NoRecords(kind) == [Page(0, Nil, Nil, << >>) EXCEPT !.kind = kind]
Absent == NoRecords("absent")
Free == NoRecords("free")
Taken == NoRecords("taken")

-----------------------------------------------------------------------------
(* The cache and the table space.  A call works on a copy d of the table.  *)

Table == [disk |-> disk, dirty |-> dirty, free |-> free, ix |-> index]

GetPage(d, p) == IF p \in DOMAIN d.dirty THEN d.dirty[p] ELSE d.disk[p]
WritePage(d, p, page) ==
    [d EXCEPT !.dirty = [q \in DOMAIN @ \union {p} |-> IF q = p THEN page ELSE @[q]]]
RemovePage(d, p) == [d EXCEPT !.dirty = [q \in DOMAIN @ \ {p} |-> @[q]]]
Flush(d, S) ==
    LET save == S \intersect DOMAIN d.dirty
    IN  [d EXCEPT !.disk = [p \in PageNos |-> IF p \in save THEN d.dirty[p] ELSE @[p]],
                  !.dirty = [q \in DOMAIN @ \ save |-> @[q]]]
FlushAll(d) == Flush(d, PageNos)

\* modifydatapageptr, or a head that is written alone.
SetNext(d, p, q) == WritePage(d, p, [GetPage(d, p) EXCEPT !.next = q])
SetPrev(d, p, q) ==
    IF p = Nil THEN d ELSE WritePage(d, p, [GetPage(d, p) EXCEPT !.prev = q])

\* pagealloc: the first page of the free chain, or a page beyond the end, also
\* when the head of the first free page is not that of a free page any more.
Alloc(d) ==
    LET take(e, p) == [d |-> [e EXCEPT !.disk[p] = Taken], page |-> p]
        beyond == {p \in PageNos : d.disk[p] = Absent}
    IN  IF d.free # <<>> /\ d.disk[Head(d.free)] = Free
        THEN take([d EXCEPT !.free = Tail(@)], Head(d.free))
        ELSE IF beyond = {} THEN [d |-> d, page |-> Nil]
        ELSE take(d, Min(beyond))

\* pagefree, which refuses a page that is free.
PageFree(d, p) ==
    IF d.disk[p] = Free THEN d
    ELSE [d EXCEPT !.disk[p] = Free, !.free = <<p>> \o @]

-----------------------------------------------------------------------------
(* Records of a page: a function from keys to values *)

SizeOf(recs) == FoldFunction(LAMBDA v, n : n + Size[v], 0, recs)

\* What fills three quarters of a page still fits in it, so that the halves of
\* a page that is split can be written.
ASSUME HalvesFit ==
    \A S \in SUBSET Keys : \A recs \in [S -> Vals], v \in Vals :
        4 * SizeOf(recs) < 3 * PageSize => SizeOf(recs) + Size[v] <= PageSize

MinKey(recs) == Min(DOMAIN recs)
MaxKey(recs) == Max(DOMAIN recs)
\* The records with those of w put among them.
Overwrite(recs, w) ==
    [k \in DOMAIN recs \union DOMAIN w |-> IF k \in DOMAIN w THEN w[k] ELSE recs[k]]
Below(recs, k) == [i \in {i \in DOMAIN recs : i < k} |-> recs[i]]
From(recs, k) == [i \in {i \in DOMAIN recs : i >= k} |-> recs[i]]
Lowest(S, n) == {k \in S : Cardinality({j \in S : j < k}) < n}

\* Whether a page is written back as it is.
Fits(recs, reserve) == SizeOf(recs) + reserve < PageSize

\* SplitPage: the keys of the second page.  The first keeps the record that
\* fills three quarters of a page, or one quarter; if that is the last record
\* there is no second page.
SecondKeys(recs, binc) ==
    LET quarters == IF binc THEN 3 ELSE 1
        full(k) == 4 * SizeOf(Below(recs, k + 1)) >= quarters * PageSize
    IN  {k \in DOMAIN recs : \E j \in DOMAIN recs : j < k /\ full(j)}

\* Mutant: what is in the page is not counted.
AppendedUncounted(w, used, limit, end) ==
    LET ok(n) == /\ \A k \in Lowest(DOMAIN w, n) : k < end
                 /\ SizeOf([k \in Lowest(DOMAIN w, n) |-> w[k]]) < limit
    IN  Max({1} \union {n \in 1..Cardinality(DOMAIN w) : ok(n)})

\* Mutant: the first record that belongs to the next page is taken along.
AppendedPast(w, used, limit, end) ==
    LET ok(n) == /\ \A k \in Lowest(DOMAIN w, n) : k <= end
                 /\ used + SizeOf([k \in Lowest(DOMAIN w, n) |-> w[k]]) < limit
    IN  Max({1} \union {n \in 1..Cardinality(DOMAIN w) : ok(n)})

\* insertfast: how many of the records given go to the page at once.  used is
\* what counts already, limit what must not be reached, end the key at which
\* the next page begins.
Appended(w, used, limit, end) ==
    LET ok(n) == /\ \A k \in Lowest(DOMAIN w, n) : k < end
                 /\ used + SizeOf([k \in Lowest(DOMAIN w, n) |-> w[k]]) < limit
    IN  Max({1} \union {n \in 1..Cardinality(DOMAIN w) : ok(n)})

-----------------------------------------------------------------------------
(* The parts of the calls.  What a part may come to is a set of outcomes.  *)

Done(d) == [d |-> d, ok |-> TRUE]
Failed(d) == [d |-> d, ok |-> FALSE]

\* Mutant: the index is written while the page is in the cache only.
NewTagUnsaved(d, t, recs) ==
    LET a == Alloc(d)
        w == WritePage(a.d, a.page, Page(0, Nil, Nil, recs))
    IN  IF a.page = Nil THEN {Failed(d)}
        ELSE {Done([w EXCEPT !.ix[t] = InsertIdx(@, 0, a.page)]), Failed(PageFree(w, a.page))}

\* InertNewTagData and AppendNewTagDatas: the first page of a new tag.  When
\* its write fails the page is freed and stays in the cache.
NewTag(d, t, recs) ==
    LET a == Alloc(d)
        w == WritePage(a.d, a.page, Page(0, Nil, Nil, recs))
    IN  IF a.page = Nil THEN {Failed(d)}
        ELSE {Done([Flush(w, {a.page}) EXCEPT !.ix[t] = InsertIdx(@, 0, a.page)]),
              Failed(PageFree(w, a.page))}

\* reuse: the second page takes the place of the first, whose records are
\* given up, and its number is free for another page.
Reuse(d, t, exclude) ==
    LET root == GetRootDataPgNo(d.ix[t])
        second == GetPage(d, root).next
        p2 == GetPage(d, second)
        moved == SetPrev(FlushAll(d), p2.next, root)
        written == WritePage(moved, root, Page(GetPage(d, root).idxval, Nil, p2.next, p2.recs))
        saved == FlushAll(RemovePage(written, second))
    IN  IF second \in {Nil, exclude} THEN {}
        ELSE {[d |-> [saved EXCEPT !.ix[t] = DelIdxRec(@, p2.idxval, second)], page |-> second]}

\* reuse gives up when its first flush fails; a new page is had then as well.
SecondPage(d, t, p, reuse) ==
    {Alloc(d)} \union
    (IF reuse /\ Cardinality(DOMAIN d.ix[t]) >= ReuseMin THEN Reuse(d, t, p) ELSE {})

\* splitsave of page p, which was read as old, and InsertIdx: the records go
\* to p and to a page behind it.  The first FlushAll may fail.
SplitSave(d, t, p, recs, binc, reuse) ==
    LET old == GetPage(d, p)
        keys2 == SecondKeys(recs, binc)
        idxval == Min(keys2)
        split(a) ==
            LET e1 == WritePage(FlushAll(a.d), a.page, Page(idxval, p, old.next, From(recs, idxval)))
                e2 == SetPrev(e1, old.next, a.page)
                e3 == WritePage(e2, p, [old EXCEPT !.next = a.page, !.recs = Below(recs, idxval)])
            IN  Done([FlushAll(e3) EXCEPT !.ix[t] = InsertIdx(@, idxval, a.page)])
        outcomes(a) ==
            IF a.page = Nil THEN {Failed(d)}
            ELSE {split(a)} \union
                 (IF DOMAIN a.d.dirty = {} THEN {} ELSE {Failed(PageFree(a.d, a.page))})
    IN  IF keys2 = {} THEN {Failed(d)}
        ELSE UNION {outcomes(a) : a \in SecondPage(d, t, p, reuse)}

\* The table after a call.
Becomes(d) ==
    /\ disk' = d.disk /\ dirty' = d.dirty /\ free' = d.free /\ index' = d.ix
    /\ calls' = calls - 1

Put(t, w, n, reuse) ==
    [call |-> "put", tag |-> t, put |-> w, n |-> n, reuse |-> reuse]

\* insert of one record.
Insert(t, w) ==
    LET d == Table
        k == MinKey(w)
        p == GetIdx(d.ix[t], k)
        page == GetPage(d, p)
        recs == Overwrite(page.recs, w)
        reserve == IF k \in DOMAIN page.recs THEN 0 ELSE Reserve
        outcomes ==
            IF ~HasTag(d.ix[t]) THEN NewTag(d, t, w)
            ELSE IF recs = page.recs THEN {Done(d)}
            ELSE IF Fits(recs, reserve) THEN {Done(WritePage(d, p, [page EXCEPT !.recs = recs]))}
            ELSE SplitSave(d, t, p, recs, k = MaxKey(recs), FALSE)
    IN  \E o \in outcomes :
            /\ Becomes(o.d)
            /\ reply' = Put(t, w, IF o.ok THEN 1 ELSE -1, FALSE)

\* insertfast of the records w, in the order of their keys.
InsertFast(t, w, reuse) ==
    LET d == Table
        p == GetIdx(d.ix[t], MinKey(w))
        page == GetPage(d, p)
        end == IF page.next = Nil THEN Max(Keys) + 1 ELSE GetPage(d, page.next).idxval
        n == IF HasTag(d.ix[t])
             THEN Appended(w, SizeOf(page.recs) + Reserve, PageSize + PageSize \div 2, end)
             ELSE Appended(w, 0, PageSize - Reserve, Max(Keys) + 1)
        put == [k \in Lowest(DOMAIN w, n) |-> w[k]]
        recs == Overwrite(page.recs, put)
        outcomes ==
            IF ~HasTag(d.ix[t]) THEN NewTag(d, t, put)
            ELSE IF Fits(recs, Reserve) THEN {Done(WritePage(d, p, [page EXCEPT !.recs = recs]))}
            ELSE SplitSave(d, t, p, recs, TRUE, reuse)
    IN  /\ reuse => HasTag(d.ix[t]) /\ page.next = Nil /\ MinKey(w) > MaxKey(page.recs)
        /\ \E o \in outcomes :
            /\ Becomes(o.d)
            /\ reply' = Put(t, w, IF o.ok THEN n ELSE -1, reuse)

-----------------------------------------------------------------------------
(* Deleting *)

\* Mutant: the page behind goes on pointing at the page that is gone.
DeletePageHalf(d, t, p) ==
    LET page == GetPage(d, p)
        e1 == [d EXCEPT !.ix[t] = DelIdxRec(@, page.idxval, p)]
    IN  FlushAll(PageFree(RemovePage(SetNext(e1, page.prev, page.next), p), p))

\* The last record of a page that is not the first: index, links, page.
DeletePage(d, t, p) ==
    LET page == GetPage(d, p)
        e1 == [d EXCEPT !.ix[t] = DelIdxRec(@, page.idxval, p)]
        e2 == SetPrev(SetNext(e1, page.prev, page.next), page.next, page.prev)
    IN  FlushAll(PageFree(RemovePage(e2, p), p))

\* The last record of the only page: the tag.
DeleteOnly(d, t, p) ==
    FlushAll(PageFree(RemovePage([d EXCEPT !.ix[t] = ClearIdxTree], p), p))

\* Mutant: the second page is not given back.
DeleteFirstKeeps(d, t, p) ==
    LET page == GetPage(d, p)
        p2 == GetPage(d, page.next)
        e1 == WritePage(d, p, [page EXCEPT !.recs = p2.recs, !.next = p2.next])
        e2 == FlushAll(RemovePage(SetPrev(e1, p2.next, p), page.next))
    IN  [e2 EXCEPT !.ix[t] = DelIdxRec(@, p2.idxval, page.next)]

\* The last record of the first page: the second page is copied there.
DeleteFirst(d, t, p) ==
    LET page == GetPage(d, p)
        second == page.next
        p2 == GetPage(d, second)
        e1 == WritePage(d, p, [page EXCEPT !.recs = p2.recs, !.next = p2.next])
        e2 == SetPrev(e1, p2.next, p)
        e3 == FlushAll(PageFree(RemovePage(e2, second), second))
    IN  [e3 EXCEPT !.ix[t] = DelIdxRec(@, p2.idxval, second)]

\* deleterecord.  Whether its first flush fails makes no difference: what is
\* dirty then is saved by the last.
Delete(t, k) ==
    LET d == Table
        p == GetIdx(d.ix[t], k)
        page == GetPage(d, p)
        there == HasTag(d.ix[t]) /\ k \in DOMAIN page.recs
        rest == [i \in DOMAIN page.recs \ {k} |-> page.recs[i]]
    IN  /\ Becomes(IF ~there THEN d
                   ELSE IF DOMAIN rest # {} THEN WritePage(d, p, [page EXCEPT !.recs = rest])
                   ELSE IF page.prev # Nil THEN DeletePage(d, t, p)
                   ELSE IF page.next = Nil THEN DeleteOnly(d, t, p)
                   ELSE DeleteFirst(d, t, p))
        /\ reply' = [call |-> "delete", tag |-> t, key |-> k, n |-> IF there THEN 0 ELSE 1]

\* DeleteTag frees the pages of the index, in its order, and leaves the cache.
DeleteTag(t) ==
    LET ix == index[t]
        pages == Cardinality(DOMAIN ix)
        nth(n) == ix[CHOOSE v \in DOMAIN ix : Cardinality({u \in DOMAIN ix : u < v}) = n - 1]
        freed[n \in 0..pages] == IF n = 0 THEN Table ELSE PageFree(freed[n - 1], nth(n))
    IN  /\ HasTag(ix)
        /\ Becomes([freed[pages] EXCEPT !.ix[t] = ClearIdxTree])
        /\ reply' = [call |-> "deletetag", tag |-> t]

-----------------------------------------------------------------------------
\* A page makes room for another, or the table is closed page by page.
Evict ==
    /\ \E p \in DOMAIN dirty :
          /\ disk' = Flush(Table, {p}).disk
          /\ dirty' = Flush(Table, {p}).dirty
    /\ UNCHANGED <<free, index, reply, calls>>

\* The process dies between two calls and the table is opened again.
Crash ==
    /\ dirty # << >>
    /\ dirty' = << >>
    /\ reply' = [call |-> "none"]
    /\ UNCHANGED <<disk, free, index, calls>>

\* A table that was closed with one tag, its records appended page by page.
Init ==
    /\ \E t \in Tags, load \in Loads :
         LET n == Len(load) IN
         /\ disk = [p \in PageNos |->
              IF p > n THEN Absent
              ELSE Page(IF p = 1 THEN 0 ELSE Min(load[p]), IF p = 1 THEN Nil ELSE p - 1,
                        IF p = n THEN Nil ELSE p + 1, [k \in load[p] |-> Min(Vals)])]
         /\ index = [u \in Tags |->
              IF u # t \/ n = 0 THEN ClearIdxTree
              ELSE [i \in {0} \union {Min(load[p]) : p \in 2..n} |->
                      IF i = 0 THEN 1 ELSE CHOOSE p \in 2..n : Min(load[p]) = i]]
    /\ dirty = << >> /\ free = <<>>
    /\ reply = [call |-> "none"]
    /\ calls = MaxCalls

Next ==
    \/ /\ calls > 0
       /\ \E t \in Tags :
            \/ \E w \in Puts : Insert(t, w)
            \/ \E w \in Batches, reuse \in BOOLEAN : InsertFast(t, w, reuse)
            \/ \E k \in Keys : Delete(t, k)
            \/ DeleteTag(t)
    \/ Evict
    \/ Crash

Spec == Init /\ [][Next]_vars

-----------------------------------------------------------------------------
(* Properties *)

InMemory(p) == GetPage(Table, p)
OnDisk(p) == disk[p]

\* The record with key k, where the index says it is.  In a sound chain query,
\* which walks on from there, finds the same and none behind that is below.
Found(view(_), t, k) ==
    IF ~HasTag(index[t]) THEN 0
    ELSE LET recs == view(GetIdx(index[t], k)).recs
         IN  IF k \in DOMAIN recs THEN recs[k] ELSE 0

\* Pages hold records that fit, and numbers that are pages.
TypeOK ==
    /\ \A p \in PageNos : disk[p].kind \in {"absent", "free", "taken", "data"}
    /\ DOMAIN dirty \subseteq PageNos
    /\ \A p \in PageNos : InMemory(p).kind = "data" =>
         /\ {InMemory(p).prev, InMemory(p).next} \subseteq PageNos \union {Nil}
         /\ SizeOf(InMemory(p).recs) <= PageSize
    /\ ToSet(free) \subseteq PageNos
    /\ \A t \in Tags : ToSet(index[t]) \subseteq PageNos

\* The page in front of the one with value v, and the one behind it.
Before(ix, v) == IF v = 0 THEN Nil ELSE GetIdx(ix, v - 1)
Behind(ix, v) ==
    LET above == {u \in DOMAIN ix : u > v} IN IF above = {} THEN Nil ELSE ix[Min(above)]

\* The chains of the tags, seen through view: each begins at the root of the
\* index, and its links, forwards and backwards, go through all pages of the
\* index in the order of its values and end there.  The index knows a page by
\* the value in its head, no page is empty, and every record is in the page
\* that the index gives for it.
Sound(view(_)) == \A t \in Tags : HasTag(index[t]) =>
    LET ix == index[t] IN
    /\ 0 \in DOMAIN ix /\ IsInjective(ix)
    /\ \A v \in DOMAIN ix :
         LET page == view(ix[v]) IN
         /\ page.kind = "data" /\ page.idxval = v /\ DOMAIN page.recs # {}
         /\ page.prev = Before(ix, v) /\ page.next = Behind(ix, v)
         /\ \A k \in DOMAIN page.recs : GetIdx(ix, k) = ix[v]

\* Splits, deletes of whole pages and reuse leave the chains sound ...
ChainSound == Sound(InMemory)

\* ... and what a process that dies leaves on disk as well, though the records
\* there may be older.
DiskSound == Sound(OnDisk)

\* A page belongs to one tag, or was given back once, or is beyond the end: no
\* page is shared, none is given back twice, and no call, failed or not, leaves
\* one behind that is in no index and was not given back.  Whether a page that
\* was given back is handed out again is not said: a flush that comes after
\* DeleteTag may write over the head of a free page and cut the chain there
\* (ec_dbtable.h:559).
PagesAccounted ==
    LET owners(p) == {t \in Tags : p \in ToSet(index[t])}
        one(holds) == IF holds THEN 1 ELSE 0
    IN  /\ IsInjective(free)
        /\ \A p \in PageNos :
             Cardinality(owners(p)) + one(p \in ToSet(free)) + one(disk[p] = Absent) = 1

\* The table is a map from keys to values for each tag, with a copy on disk
\* that follows record by record.
Records(view(_)) == [t \in Tags |-> [k \in Keys |-> Found(view, t, k)]]
TheRecords == INSTANCE RecordStore WITH
    store <- Records(InMemory), saved <- Records(OnDisk)
RecordsSpec == TheRecords!Spec
=============================================================================
