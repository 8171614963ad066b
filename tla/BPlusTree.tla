------------------------------ MODULE BPlusTree -------------------------------
(***************************************************************************)
(* The B+ tree of src/ec_bptree.h, which holds the index of the data pages *)
(* of a tag: leaf pages map index values to data pages, the pages above    *)
(* them map the first index values of pages to these pages.  Index pages   *)
(* come from an ipage_storage, are read and written as a whole, and go     *)
(* back to it.  A call is one step, in which one call of the storage -- a  *)
(* read, a write, an allocation or a free -- may fail.                     *)
(***************************************************************************)
EXTENDS DataIndex, SequencesExt

CONSTANTS
    Capacity,     \* page_::capacity: the items a page has room for, more than 3
    Entries,      \* pairs of an index value and a data page
    IndexPages,   \* the pages of the storage
    Faults,       \* which call of the storage fails in a call, counted from 1
    Histories,    \* calls that were made to the tree before the first step
    MaxOps        \* bound on steps; one with a failing call counts twice

VARIABLES
    rootpgno,  \* _rootpgno
    pages,     \* [index pages that are taken -> what is written there]
    leaked,    \* taken pages that the tree gave up and the storage has not back
    damaged,   \* whether a page went, or changed, without its neighbours
    done,      \* the last call and its result
    ops        \* steps still to be made

vars == <<rootpgno, pages, leaked, damaged, done, ops>>

Nil == -1   \* EC_PGF_ENDNO

\* A call works on a copy t of the tree.  fault counts down to the call of the
\* storage that fails; it is not met when it begins at 0.
Tree(fault) == [root |-> rootpgno, pages |-> pages, leaked |-> leaked, damaged |-> damaged,
                fault |-> fault, full |-> FALSE]
NoTree == [root |-> Nil, pages |-> << >>, leaked |-> {}, damaged |-> FALSE,
           fault |-> 0, full |-> FALSE]

Success(t) == [t |-> t, ok |-> TRUE]
Failure(t) == [t |-> t, ok |-> FALSE]

-----------------------------------------------------------------------------
(* The storage.  Each of its calls counts down to the one that fails. *)

Fails(t) == t.fault = 1
Counted(t) == [t EXCEPT !.fault = @ - 1]

Page(kind, pgidx, right, items) ==
    [kind |-> kind, pgidx |-> pgidx, right |-> right, items |-> items]
NewPage == Page("new", 0, Nil, << >>)

\* readpage refuses what is not an index page, or not any more.
Readable(t, p) == p \in DOMAIN t.pages /\ t.pages[p].kind # "new"
Read(t, p) ==
    IF p = Nil THEN Failure(t)
    ELSE [t |-> Counted(t), ok |-> Readable(t, p) /\ ~Fails(t)]

WritePage(t, p, page) ==
    IF Fails(t) THEN Failure(Counted(t))
    ELSE Success([Counted(t) EXCEPT !.pages = (p :> page) @@ @])

\* The storage gives its lowest page; which one it is makes no difference.
Alloc(t) ==
    LET left == IndexPages \ DOMAIN t.pages
        next == [Counted(t) EXCEPT !.full = @ \/ left = {}]
    IN  IF Fails(t) \/ left = {} THEN [t |-> next, page |-> Nil]
        ELSE [t |-> [next EXCEPT !.pages = (Min(left) :> NewPage) @@ @], page |-> Min(left)]

\* No caller looks at the result of pg_free.
PageFree(t, p) ==
    IF Fails(t) THEN [Counted(t) EXCEPT !.leaked = @ \union {p}]
    ELSE [Counted(t) EXCEPT !.pages = [q \in DOMAIN @ \ {p} |-> @[q]]]

-----------------------------------------------------------------------------
(* Finding *)

\* bsearch: the greatest index value in the page that is not above k, or the
\* first.
Bsearch(page, k) ==
    LET upto == {i \in DOMAIN page.items : i <= k}
    IN  IF upto = {} THEN Min(DOMAIN page.items) ELSE Max(upto)

\* find_in_page_: the page of the given kind that has the item (k, v), on the
\* way from page p to k.
RECURSIVE FindInPage(_, _, _, _, _)
FindInPage(t, p, k, v, kind) ==
    LET r == Read(t, p)
        page == t.pages[p]
        i == Bsearch(page, k)
    IN  IF ~r.ok THEN [t |-> r.t, page |-> Nil]
        ELSE IF i = k /\ page.items[i] = v /\ page.kind = kind THEN [t |-> r.t, page |-> p]
        ELSE IF k < i \/ page.kind = "leaf" THEN [t |-> r.t, page |-> Nil]
        ELSE FindInPage(r.t, page.items[i], k, v, kind)

\* The page above page p, which has an item for p.
Above(t, p) == FindInPage(t, t.root, t.pages[p].pgidx, p, "index")

\* The leaf to which find and insert come from page p, if they come to one.
RECURSIVE LeafOf(_, _, _)
LeafOf(t, p, k) ==
    LET r == Read(t, p)
        page == t.pages[p]
        i == Bsearch(page, k)
    IN  IF ~r.ok THEN [t |-> r.t, page |-> Nil]
        ELSE IF page.kind = "leaf" THEN [t |-> r.t, page |-> p]
        ELSE IF k < i THEN [t |-> r.t, page |-> Nil]
        ELSE LeafOf(r.t, page.items[i], k)

-----------------------------------------------------------------------------
(* Inserting *)

\* createroot, and the new root above the two halves of the old one.
NewRoot(t, kind, pgidx, items) ==
    LET a == Alloc(t)
        w == WritePage(a.t, a.page, Page(kind, pgidx, Nil, items))
    IN  IF a.page = Nil THEN Failure(a.t)
        ELSE IF ~w.ok THEN Failure(PageFree(w.t, a.page))
        ELSE Success([w.t EXCEPT !.root = a.page])

\* Mutant: the page that was split stays as it is.
PutBackHalf(t, new, p, page) == Failure(PageFree(t, new))

\* A split that cannot be carried on upwards is undone.
PutBack(t, new, p, page) ==
    LET w == WritePage(PageFree(t, new), p, page)
    IN  Failure([w.t EXCEPT !.damaged = @ \/ w.t.pages[p] # page])

\* insert_idx of item (k, v) into page p.  A page that becomes full is split
\* and the new page gets an item in the page above, which may split in turn.
RECURSIVE InsertIdxIn(_, _, _, _)
InsertIdxIn(t, p, k, v) ==
    LET r == Read(t, p)
        page == t.pages[p]
        items == (k :> v) @@ page.items
        half(i) == 2 * Cardinality({j \in DOMAIN items : j <= i}) <= Cardinality(DOMAIN items)
        part(S) == [i \in S |-> items[i]]
        left == {i \in DOMAIN items : half(i)}
        pgidx == Min(DOMAIN items \ left)
        a == Alloc(r.t)
        w1 == WritePage(a.t, a.page, Page(page.kind, pgidx, page.right, part(DOMAIN items \ left)))
        w2 == WritePage(w1.t, p, Page(page.kind, page.pgidx, a.page, part(left)))
        above == Above(w2.t, p)
        up == IF p = t.root
              THEN NewRoot(w2.t, "index", page.pgidx, (page.pgidx :> p) @@ (pgidx :> a.page))
              ELSE IF above.page = Nil THEN Failure(above.t)
              ELSE InsertIdxIn(above.t, above.page, pgidx, a.page)
    IN  IF ~r.ok THEN Failure(r.t)
        ELSE IF items = page.items THEN Success(r.t)
        ELSE IF DOMAIN items = DOMAIN page.items \/ Cardinality(DOMAIN items) + 1 < Capacity
             THEN WritePage(r.t, p, [page EXCEPT !.items = items])
        ELSE IF a.page = Nil THEN Failure(a.t)
        ELSE IF ~w1.ok THEN PutBack(w1.t, a.page, p, page)
        ELSE IF ~w2.ok THEN PutBack(w2.t, a.page, p, page)
        ELSE IF ~up.ok THEN PutBack(up.t, a.page, p, page)
        ELSE up

InsertEntry(t, k, v) ==
    LET leaf == LeafOf(t, t.root, k)
    IN  IF t.root = Nil THEN NewRoot(t, "leaf", 0, k :> v)
        ELSE IF leaf.page = Nil THEN Failure(leaf.t)
        ELSE InsertIdxIn(leaf.t, leaf.page, k, v)

-----------------------------------------------------------------------------
(* Deleting *)

\* Mutant: the link to the page that goes is kept.
JoinKeepsLink(page, next) == [page EXCEPT !.items = @ @@ next.items]

\* Two neighbours become one page.
Join(page, next) == [page EXCEPT !.items = @ @@ next.items, !.right = next.right]

Fit(page, next) ==
    Cardinality(DOMAIN page.items) + Cardinality(DOMAIN next.items) < Capacity

\* find_left and find_right: the index values, in the page above page p, that
\* stand before and behind the one of p.
Before(t, above, pgidx) ==
    IF above = Nil THEN {} ELSE {i \in DOMAIN t.pages[above].items : i < pgidx}
Behind(t, above, pgidx) ==
    IF above = Nil THEN {} ELSE {i \in DOMAIN t.pages[above].items : i > pgidx}

\* mergeright_ and mergeleft_ of page p, of which page is what is to stay.
Merge(t, result, gone) == [t |-> t, result |-> result, gone |-> gone]

MergeRight(t, p, page) ==
    LET above == Above(t, p)
        r == Read(above.t, page.right)
        next == t.pages[page.right]
        w == WritePage(r.t, p, Join(page, next))
    IN  IF page.right = Nil THEN Merge(t, "failed", Nil)
        ELSE IF Behind(t, above.page, page.pgidx) = {} THEN Merge(above.t, "failed", Nil)
        ELSE IF ~r.ok \/ ~Fit(page, next) THEN Merge(r.t, "failed", Nil)
        ELSE IF ~w.ok THEN Merge(w.t, "not written", Nil)
        ELSE Merge(PageFree(w.t, page.right), "merged", <<next.pgidx, page.right>>)

MergeLeft(t, p, page) ==
    LET above == Above(t, p)
        before == Before(t, above.page, page.pgidx)
        left == t.pages[above.page].items[Max(before)]
        r == Read(above.t, left)
        w == WritePage(r.t, left, Join(t.pages[left], page))
    IN  IF before = {} THEN Merge(above.t, "failed", Nil)
        ELSE IF ~r.ok \/ ~Fit(t.pages[left], page) THEN Merge(r.t, "failed", Nil)
        ELSE IF ~w.ok THEN Merge(w.t, "not written", Nil)
        ELSE Merge(PageFree(w.t, p), "merged", <<page.pgidx, p>>)

\* del_idx_ of item (k, v).  A page that is left with few items takes in its
\* right neighbour, or goes to its left one, if the two have the same page
\* above them, can be read and fit in one.  The page that goes loses its item
\* there.  A page left empty goes even where no neighbour takes its place.
RECURSIVE DelIdx(_, _, _, _)
DelIdx(t, k, v, kind) ==
    LET found == FindInPage(t, t.root, k, v, kind)
        p == found.page
        page == [t.pages[p] EXCEPT !.items = [i \in DOMAIN @ \ {k} |-> @[i]]]
        right == MergeRight(found.t, p, page)
        left == MergeLeft(right.t, p, page)
        freed == PageFree(left.t, p)
    IN  IF p = Nil THEN Failure(found.t)
        ELSE IF Cardinality(DOMAIN page.items) > Capacity \div 4 THEN WritePage(found.t, p, page)
        ELSE IF right.result = "merged" THEN DelIdx(right.t, right.gone[1], right.gone[2], "index")
        ELSE IF right.result = "not written" THEN Failure(right.t)
        ELSE IF left.result = "merged" THEN DelIdx(left.t, left.gone[1], left.gone[2], "index")
        ELSE IF DOMAIN page.items # {} THEN WritePage(left.t, p, page)
        ELSE IF p = t.root THEN Success([freed EXCEPT !.root = Nil])
        ELSE DelIdx([freed EXCEPT !.damaged = TRUE], page.pgidx, p, "index")

-----------------------------------------------------------------------------
(* Clearing *)

Children(page) ==
    LET order == SetToSortSeq(DOMAIN page.items, <)
    IN  [i \in DOMAIN order |-> page.items[order[i]]]

\* clear_: a page that cannot be read stays, with all that is below it.
RECURSIVE ClearFrom(_, _)
ClearFrom(t, p) ==
    LET r == Read(t, p)
        page == t.pages[p]
    IN  IF ~r.ok THEN r.t
        ELSE IF page.kind = "leaf" THEN PageFree(r.t, p)
        ELSE PageFree(FoldLeft(ClearFrom, r.t, Children(page)), p)

-----------------------------------------------------------------------------
(* The calls.  What a damaged tree does is not modelled. *)

Becomes(t) ==
    /\ rootpgno' = t.root /\ pages' = t.pages /\ leaked' = t.leaked /\ damaged' = t.damaged

\* A fault that is looked at is one that was met.
Call(name, k, v, fault, r) ==
    /\ fault # 0 => r.t.fault <= 0
    /\ ops' = ops - (IF fault # 0 THEN 2 ELSE 1)
    /\ done' = [call |-> name, key |-> k, page |-> v,
                fault |-> fault # 0 \/ r.t.full, ok |-> r.ok]

Insert(k, v, fault) ==
    LET r == InsertEntry(Tree(fault), k, v)
    IN  Call("insert", k, v, fault, r) /\ Becomes(r.t)

\* When pages were joined and the storage fails then, the item of a page that
\* is gone stays.
Erease(k, v, fault) ==
    LET r == DelIdx(Tree(fault), k, v, "leaf")
        joined == r.t.pages # pages
    IN  /\ Call("erease", k, v, fault, r)
        /\ Becomes([r.t EXCEPT !.damaged = @ \/ (~r.ok /\ joined)])

\* Whatever was not freed, the root is forgotten.
Clear(fault) ==
    LET t == ClearFrom(Tree(fault), rootpgno)
    IN  /\ rootpgno # Nil
        /\ Call("clear", Nil, Nil, fault, Success(t))
        /\ Becomes([t EXCEPT !.root = Nil, !.leaked = DOMAIN t.pages])

\* A history is a sequence of index values, which were inserted, or taken out
\* when they are negative.
Made(history) ==
    FoldLeft(LAMBDA t, i : IF i >= 0 THEN InsertEntry(t, i, i).t ELSE DelIdx(t, -i, -i, "leaf").t,
             NoTree, history)

AtRest(t) ==
    /\ rootpgno = t.root /\ pages = t.pages /\ leaked = t.leaked /\ damaged = t.damaged
    /\ done = [call |-> "none"]

Init ==
    /\ \E t \in {Made(history) : history \in Histories} : AtRest(t)
    /\ ops = MaxOps

Next ==
    /\ ops > 0 /\ ~damaged
    /\ \E fault \in {0} \union (IF ops > 1 THEN Faults ELSE {}) :
          \/ \E e \in Entries : Insert(e[1], e[2], fault) \/ Erease(e[1], e[2], fault)
          \/ Clear(fault)

Spec == Init /\ [][Next]_vars

-----------------------------------------------------------------------------
(* Properties *)

\* The pages of the tree below page p, and its leaves.
RECURSIVE From(_)
From(p) ==
    IF ~Readable(Tree(0), p) THEN {}
    ELSE {p} \union (IF pages[p].kind = "leaf" THEN {}
                     ELSE UNION {From(pages[p].items[i]) : i \in DOMAIN pages[p].items})
Leaves == {p \in From(rootpgno) : pages[p].kind = "leaf"}
Map ==
    LET leaves == Leaves
    IN  [i \in UNION {DOMAIN pages[p].items : p \in leaves} |->
            pages[CHOOSE p \in leaves : i \in DOMAIN pages[p].items].items[i]]

\* The rows of the tree from row on, from left to right.
RECURSIVE Rows(_)
Rows(row) ==
    IF \E i \in DOMAIN row : pages[row[i]].kind = "leaf" THEN <<row>>
    ELSE <<row>> \o Rows(FlattenSeq([i \in DOMAIN row |-> Children(pages[row[i]])]))

\* Each row is linked, has pages of one kind, and its index values ascend.
RowSound(row) ==
    \A i \in DOMAIN row :
        LET page == pages[row[i]]
            last == i = Len(row)
        IN  /\ page.kind = pages[row[1]].kind
            /\ page.right = IF last THEN Nil ELSE row[i + 1]
            /\ \A k \in DOMAIN page.items :
                  /\ page.pgidx <= k
                  /\ last \/ k < pages[row[i + 1]].pgidx
                  /\ page.kind = "index" => pages[page.items[k]].pgidx = k

\* What find answers for k: k itself if it is in the tree, else a neighbour,
\* which is above k when k is below every index value of its leaf.
FindsNear(k, there) ==
    LET leaf == LeafOf(Tree(0), rootpgno, k).page
        found == Bsearch(pages[leaf], k)
    IN  /\ leaf # Nil
        /\ \A i \in there : ~(found < i /\ i <= k) /\ ~(k <= i /\ i < found)

\* The pages that are taken are those of the tree, and the ones the storage did
\* not take back.  In the tree every page is in one place, rows are linked and
\* sorted, no page is empty or full, and every index value is found.  This
\* ends where an emptied page finds no neighbour to be joined with -- none has
\* the same page above it, or it could not be read or written -- and where the
\* storage fails after a join or when a split is undone.
Sound ==
    ~damaged =>
        /\ From(rootpgno) = DOMAIN pages \ leaked
        /\ leaked \subseteq DOMAIN pages
        /\ rootpgno # Nil =>
              /\ \A p \in From(rootpgno) : Cardinality(DOMAIN pages[p].items) \in 1..Capacity - 1
              /\ LET rows == Rows(<<rootpgno>>) IN
                   /\ \A i \in DOMAIN rows : RowSound(rows[i])
                   /\ IsInjective(FlattenSeq(rows))
              /\ LET there == DOMAIN Map IN \A e \in Entries : FindsNear(e[1], there)

\* A call that succeeds does to the map what the data table expects, one that
\* fails does nothing, and none fails for another reason than the storage or
\* an entry that is not there.  Only a call in which the storage fails leaves
\* pages behind that are neither in the tree nor free.
MapStep ==
    LET k == done'.key
        v == done'.page
        map == Map
        there == k \in DOMAIN map /\ map[k] = v
    IN  /\ done'.fault \/ leaked' = leaked
        /\ CASE done'.call = "clear" -> Map' = ClearIdxTree
             [] done'.call = "insert" /\ done'.ok -> Map' = InsertIdx(map, k, v)
             [] done'.call = "erease" /\ done'.ok -> there /\ Map' = DelIdxRec(map, k, v)
             [] OTHER -> /\ Map' = map
                         /\ done'.fault \/ (done'.call = "erease" /\ ~there)
MapKept == [][ops' # ops /\ ~damaged' => MapStep]_vars
=============================================================================
