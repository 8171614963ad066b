--------------------------- MODULE DataTableProofs ----------------------------
(***************************************************************************)
(* Proofs about DataTable: the chains of the tags stay sound in memory and *)
(* on disk, no page is shared or given back twice, and the table implements *)
(* RecordStore.                                                            *)
(***************************************************************************)
EXTENDS DataTable, TLAPS, FiniteSetTheorems, WellFoundedInduction

-----------------------------------------------------------------------------
(* Numbers.                                                                  *)

\* A set of numbers that is not empty has a least element ...
LEMMA LeastOf ==
    ASSUME NEW T \in SUBSET Nat, T # {}
    PROVE  \E x \in T : \A y \in T : x <= y
<1> DEFINE R == {ss \in Nat \X Nat : ss[1] < ss[2]}
<1>1. IsWellFoundedOn(R, Nat)
  BY NatLessThanWellFounded DEF OpToRel
<1> HIDE DEF R
<1>2. PICK x \in T : \A y \in T : <<y, x>> \notin R
  BY <1>1, WFMin
<1>3. \A y \in T : y \in Nat /\ x \in Nat /\ ~(y < x)
  BY <1>2 DEF R
<1> QED
  BY <1>3

\* ... which is its minimum.
LEMMA MinIs ==
    ASSUME NEW T \in SUBSET Nat, NEW m \in T, \A y \in T : m <= y
    PROVE  Min(T) = m
<1>1. Min(T) \in T /\ \A y \in T : Min(T) <= y
  BY DEF Min
<1>2. m <= Min(T) /\ Min(T) <= m /\ Min(T) \in Nat /\ m \in Nat
  BY <1>1
<1> QED
  BY <1>2

\* A set of numbers that is not empty holds its minimum.
LEMMA MinOf ==
    ASSUME NEW T \in SUBSET Nat, T # {}
    PROVE  Min(T) \in T /\ \A y \in T : Min(T) <= y
BY LeastOf DEF Min

\* The greatest of a set is the member that none exceeds.
LEMMA MaxIs ==
    ASSUME NEW T \in SUBSET Nat, NEW m \in T, \A y \in T : y <= m
    PROVE  Max(T) = m
<1>1. Max(T) \in T /\ \A y \in T : y <= Max(T)
  BY DEF Max
<1>2. m <= Max(T) /\ Max(T) <= m /\ Max(T) \in Nat /\ m \in Nat
  BY <1>1
<1> QED
  BY <1>2

\* A set with a bound has a greatest element.
LEMMA GreatestBelow ==
    ASSUME NEW T \in SUBSET Nat, T # {}, NEW b \in Nat, \A y \in T : y <= b
    PROVE  Max(T) \in T /\ \A y \in T : y <= Max(T)
<1> DEFINE U == {b - y : y \in T}
<1>1. U \in SUBSET Nat /\ U # {}
  <2>1. \A y \in T : b - y \in Nat
    OBVIOUS
  <2> QED
    BY <2>1
<1>2. PICK x \in U : \A z \in U : x <= z
  BY <1>1, LeastOf
<1>3. PICK m \in T : x = b - m
  BY <1>2
<1>4. \A y \in T : y <= m
  <2> TAKE y \in T
  <2>1. b - m <= b - y
    BY <1>2, <1>3
  <2> QED
    BY <2>1
<1> QED
  BY <1>4 DEF Max

\* A finite set has one, too: the element with the fewest above it.
LEMMA MaxOf ==
    ASSUME NEW T \in SUBSET Nat, T # {}, IsFiniteSet(T)
    PROVE  Max(T) \in T /\ \A y \in T : y <= Max(T)
<1> DEFINE above(k) == {j \in T : j > k}
           U == {Cardinality(above(k)) : k \in T}
<1>1. \A k \in T : IsFiniteSet(above(k)) /\ Cardinality(above(k)) \in Nat
  BY FS_Subset, FS_CardinalityType
<1>2. U \in SUBSET Nat /\ U # {}
  BY <1>1
<1>3. PICK m \in T : \A k \in T : Cardinality(above(m)) <= Cardinality(above(k))
  <2>1. PICK x \in U : \A z \in U : x <= z
    BY <1>2, LeastOf
  <2> QED
    BY <2>1
<1>4. ASSUME NEW y \in T, ~(y <= m) PROVE FALSE
  <2>1. above(y) \subseteq above(m) /\ above(y) # above(m)
    <3>1. y \in above(m) /\ y \notin above(y)
      BY <1>4
    <3>2. \A j \in T : j > y => j > m
      BY <1>4
    <3> QED
      BY <3>1, <3>2
  <2>2. Cardinality(above(y)) < Cardinality(above(m))
    BY <1>1, <2>1, FS_Subset
  <2> QED
    BY <1>1, <1>3, <2>2
<1> QED
  BY <1>4 DEF Max

-----------------------------------------------------------------------------
(* Tables.                                                                   *)

PageRecs == UNION {[S -> Vals] : S \in SUBSET Keys}
Pages == [kind : {"absent", "free", "taken", "data"}, idxval : Nat,
          prev : PageNos \union {Nil}, next : PageNos \union {Nil}, recs : PageRecs]
Caches == UNION {[S -> Pages] : S \in SUBSET PageNos}
Indexes == UNION {[S -> PageNos] : S \in SUBSET ({0} \union Keys)}
Tables == [disk : [PageNos -> Pages], dirty : Caches, free : Seq(PageNos),
           ix : [Tags -> Indexes]]

\* All pages as a call sees them.
Mem(d) == [q \in PageNos |-> GetPage(d, q)]

\* The members of the types.
LEMMA Recs ==
    ASSUME NEW r PROVE r \in PageRecs <=> DOMAIN r \subseteq Keys /\ r \in [DOMAIN r -> Vals]
BY DEF PageRecs

\* The cached changed pages, as a typed function of the pages held.
LEMMA Cache ==
    ASSUME NEW c PROVE c \in Caches <=> DOMAIN c \subseteq PageNos /\ c \in [DOMAIN c -> Pages]
BY DEF Caches

\* The index of a tag, as a typed function of the index values held.
LEMMA Index ==
    ASSUME NEW ix
    PROVE  ix \in Indexes <=> DOMAIN ix \subseteq {0} \union Keys /\ ix \in [DOMAIN ix -> PageNos]
BY DEF Indexes

\* A data page made by Page is a page with the fields it is given.
LEMMA PageIn ==
    ASSUME NEW v \in Nat, NEW p \in PageNos \union {Nil}, NEW n \in PageNos \union {Nil},
           NEW r \in PageRecs
    PROVE  LET x == Page(v, p, n, r) IN
           /\ x \in Pages /\ x.kind = "data" /\ x.idxval = v /\ x.prev = p /\ x.next = n
           /\ x.recs = r
BY DEF Page, Pages

\* The three pages that hold no data are pages too, each of its own kind.
LEMMA NoPages ==
    /\ Absent \in Pages /\ Free \in Pages /\ Taken \in Pages
    /\ Absent.kind = "absent" /\ Free.kind = "free" /\ Taken.kind = "taken"
<1>1. << >> \in PageRecs
  <2>1. DOMAIN << >> = {} /\ << >> \in [{} -> Vals]
    OBVIOUS
  <2> QED
    BY <2>1 DEF PageRecs
<1> QED
  BY <1>1 DEF Absent, Free, Taken, NoRecords, Page, Pages, Nil

\* What is assumed of the constants.
LEMMA Constants ==
    /\ PageNos \subseteq Nat \ {0} /\ Nil \notin PageNos /\ Nil \in Int /\ NumPages \in Nat
    /\ Keys \subseteq Nat \ {0} /\ IsFiniteSet(Keys) /\ Vals \subseteq Nat \ {0} /\ Vals # {}
    /\ ReuseMin \in Nat /\ ReuseMin > 3
BY TableAssumption DEF PageNos, Nil

\* What the calls see, the cache over the file, gives every page number a page.
LEMMA MemIn ==
    ASSUME NEW d \in Tables
    PROVE  Mem(d) \in [PageNos -> Pages]
BY Cache DEF Tables, Mem, GetPage

\* A page is changed in the cache ...
LEMMA Written ==
    ASSUME NEW d \in Tables, NEW p \in PageNos, NEW x \in Pages
    PROVE  LET w == WritePage(d, p, x) IN
           /\ w \in Tables /\ w.disk = d.disk /\ w.free = d.free /\ w.ix = d.ix
           /\ Mem(w) = [Mem(d) EXCEPT ![p] = x]
           /\ DOMAIN w.dirty = DOMAIN d.dirty \union {p} /\ w.dirty[p] = x
           /\ \A q \in DOMAIN d.dirty \ {p} : w.dirty[q] = d.dirty[q]
<1> DEFINE w == WritePage(d, p, x)
           c == [q \in DOMAIN d.dirty \union {p} |-> IF q = p THEN x ELSE d.dirty[q]]
<1>1. w = [d EXCEPT !.dirty = c]
  BY DEF WritePage, Tables
<1>2. w.disk = d.disk /\ w.free = d.free /\ w.ix = d.ix /\ w.dirty = c
  BY <1>1 DEF Tables
<1>3. d.dirty \in [DOMAIN d.dirty -> Pages] /\ DOMAIN d.dirty \subseteq PageNos
  BY Cache DEF Tables
<1>4. DOMAIN c = DOMAIN d.dirty \union {p} /\ \A q \in DOMAIN c : c[q] \in Pages
  BY <1>3
<1>5. c \in Caches
  <2>1. c \in [DOMAIN d.dirty \union {p} -> Pages] /\ DOMAIN d.dirty \union {p} \in SUBSET PageNos
    BY <1>3, <1>4
  <2> QED
    BY <2>1 DEF Caches
<1>6. w \in Tables
  BY <1>1, <1>5 DEF Tables
<1>7. Mem(w) = [Mem(d) EXCEPT ![p] = x]
  BY <1>2, <1>4 DEF Mem, GetPage
<1> QED
  BY <1>2, <1>4, <1>6, <1>7

\* ... and removed from it.
LEMMA Removed ==
    ASSUME NEW d \in Tables, NEW p \in PageNos
    PROVE  LET w == RemovePage(d, p) IN
           /\ w \in Tables /\ w.disk = d.disk /\ w.free = d.free /\ w.ix = d.ix
           /\ Mem(w) = [Mem(d) EXCEPT ![p] = d.disk[p]]
           /\ DOMAIN w.dirty = DOMAIN d.dirty \ {p}
           /\ \A q \in DOMAIN w.dirty : w.dirty[q] = d.dirty[q]
<1> DEFINE w == RemovePage(d, p)
           c == [q \in DOMAIN d.dirty \ {p} |-> d.dirty[q]]
<1>1. w = [d EXCEPT !.dirty = c]
  BY DEF RemovePage, Tables
<1>2. w.disk = d.disk /\ w.free = d.free /\ w.ix = d.ix /\ w.dirty = c
  BY <1>1 DEF Tables
<1>3. d.dirty \in [DOMAIN d.dirty -> Pages] /\ DOMAIN d.dirty \subseteq PageNos
  BY Cache DEF Tables
<1>4. DOMAIN c = DOMAIN d.dirty \ {p} /\ \A q \in DOMAIN c : c[q] \in Pages
  BY <1>3
<1>5. c \in Caches
  <2>1. c \in [DOMAIN d.dirty \ {p} -> Pages] /\ DOMAIN d.dirty \ {p} \in SUBSET PageNos
    BY <1>3, <1>4
  <2> QED
    BY <2>1 DEF Caches
<1>6. w \in Tables
  BY <1>1, <1>5 DEF Tables
<1>7. Mem(w) = [Mem(d) EXCEPT ![p] = d.disk[p]]
  BY <1>2, <1>4 DEF Mem, GetPage
<1> QED
  BY <1>2, <1>4, <1>6, <1>7

\* Pages are saved.
LEMMA Flushed ==
    ASSUME NEW d \in Tables, NEW S \in SUBSET PageNos
    PROVE  LET w == Flush(d, S) IN
           /\ w \in Tables /\ w.free = d.free /\ w.ix = d.ix /\ Mem(w) = Mem(d)
           /\ \A q \in PageNos : w.disk[q] = IF q \in S THEN Mem(d)[q] ELSE d.disk[q]
           /\ DOMAIN w.dirty = DOMAIN d.dirty \ S
           /\ \A q \in DOMAIN w.dirty : w.dirty[q] = d.dirty[q]
<1> DEFINE w == Flush(d, S)
           save == S \intersect DOMAIN d.dirty
           c == [q \in DOMAIN d.dirty \ save |-> d.dirty[q]]
           k == [q \in PageNos |-> IF q \in save THEN d.dirty[q] ELSE d.disk[q]]
<1>1. w = [d EXCEPT !.disk = k, !.dirty = c]
  BY DEF Flush, Tables
<1>2. w.disk = k /\ w.free = d.free /\ w.ix = d.ix /\ w.dirty = c
  BY <1>1 DEF Tables
<1>3. /\ d.dirty \in [DOMAIN d.dirty -> Pages] /\ DOMAIN d.dirty \subseteq PageNos
      /\ d.disk \in [PageNos -> Pages]
  BY Cache DEF Tables
<1>4. DOMAIN c = DOMAIN d.dirty \ S /\ \A q \in DOMAIN c : c[q] \in Pages
  BY <1>3
<1>5. c \in Caches
  <2>1. c \in [DOMAIN d.dirty \ S -> Pages] /\ DOMAIN d.dirty \ S \in SUBSET PageNos
    BY <1>3, <1>4
  <2> QED
    BY <2>1 DEF Caches
<1>6. k \in [PageNos -> Pages]
  BY <1>3
<1>7. w \in Tables
  BY <1>1, <1>5, <1>6, Zenon DEF Tables
<1>8. Mem(w) = Mem(d)
  BY <1>2, <1>4 DEF Mem, GetPage
<1>9. \A q \in PageNos : w.disk[q] = IF q \in S THEN Mem(d)[q] ELSE d.disk[q]
  BY <1>2 DEF Mem, GetPage
<1> QED
  BY <1>2, <1>4, <1>7, <1>8, <1>9

\* Writing every changed page leaves the file as the calls saw it and the cache clean.
LEMMA AllFlushed ==
    ASSUME NEW d \in Tables
    PROVE  LET w == FlushAll(d) IN
           /\ w \in Tables /\ w.free = d.free /\ w.ix = d.ix /\ Mem(w) = Mem(d)
           /\ w.disk = Mem(d) /\ DOMAIN w.dirty = {}
<1> DEFINE w == Flush(d, PageNos)
<1>1. /\ w \in Tables /\ w.free = d.free /\ w.ix = d.ix /\ Mem(w) = Mem(d)
      /\ \A q \in PageNos : w.disk[q] = Mem(d)[q]
      /\ DOMAIN w.dirty = DOMAIN d.dirty \ PageNos
  BY Flushed
<1>2. w.disk \in [PageNos -> Pages] /\ Mem(d) \in [PageNos -> Pages]
  BY <1>1, MemIn DEF Tables
<1>3. w.disk = Mem(d)
  BY <1>1, <1>2
<1>4. DOMAIN d.dirty \subseteq PageNos
  BY Cache DEF Tables
<1> QED
  BY <1>1, <1>3, <1>4 DEF FlushAll

\* With nothing in the cache the call sees what is on disk.
LEMMA Clean ==
    ASSUME NEW d \in Tables, DOMAIN d.dirty = {}
    PROVE  Mem(d) = d.disk
BY DEF Tables, Mem, GetPage

NextIsSet(d, p, q, w) ==
    /\ w \in Tables /\ w.disk = d.disk /\ w.free = d.free /\ w.ix = d.ix
    /\ Mem(w) = [Mem(d) EXCEPT ![p].next = q]

\* Links are changed.
LEMMA NextSet ==
    ASSUME NEW d \in Tables, NEW p \in PageNos, NEW q \in PageNos \union {Nil}
    PROVE  NextIsSet(d, p, q, SetNext(d, p, q))
<1> USE DEF NextIsSet
<1> DEFINE x == [Mem(d)[p] EXCEPT !.next = q]
<1>1. Mem(d)[p] \in Pages /\ Mem(d)[p] = GetPage(d, p)
  BY MemIn DEF Mem
<1>2. x \in Pages
  BY <1>1 DEF Pages
<1>3. SetNext(d, p, q) = WritePage(d, p, x)
  BY <1>1 DEF SetNext
<1>4. [Mem(d) EXCEPT ![p].next = q] = [Mem(d) EXCEPT ![p] = x]
  BY MemIn
<1> QED
  BY <1>2, <1>3, <1>4, Written

PrevIsSet(d, p, q, w) ==
    /\ w \in Tables /\ w.disk = d.disk /\ w.free = d.free /\ w.ix = d.ix
    /\ Mem(w) = IF p = Nil THEN Mem(d) ELSE [Mem(d) EXCEPT ![p].prev = q]

\* Setting the back link of a neighbour (or of none) changes that page alone.
LEMMA PrevSet ==
    ASSUME NEW d \in Tables, NEW p \in PageNos \union {Nil}, NEW q \in PageNos \union {Nil}
    PROVE  PrevIsSet(d, p, q, SetPrev(d, p, q))
<1> USE DEF PrevIsSet
<1>1. CASE p = Nil
  BY <1>1 DEF SetPrev
<1>2. CASE p # Nil
  <2> DEFINE x == [Mem(d)[p] EXCEPT !.prev = q]
  <2>1. p \in PageNos
    BY <1>2
  <2>2. Mem(d)[p] \in Pages /\ Mem(d)[p] = GetPage(d, p)
    BY <2>1, MemIn DEF Mem
  <2>3. x \in Pages
    BY <2>2 DEF Pages
  <2>4. SetPrev(d, p, q) = WritePage(d, p, x)
    BY <1>2, <2>2 DEF SetPrev
  <2>5. [Mem(d) EXCEPT ![p].prev = q] = [Mem(d) EXCEPT ![p] = x]
    BY MemIn
  <2> QED
    BY <1>2, <2>1, <2>3, <2>4, <2>5, Written
<1> QED
  BY <1>1, <1>2

\* A page is given back ...
LEMMA Freed ==
    ASSUME NEW d \in Tables, NEW p \in PageNos, d.disk[p] # Free
    PROVE  LET w == PageFree(d, p) IN
           /\ w \in Tables /\ w.dirty = d.dirty /\ w.ix = d.ix
           /\ w.free = <<p>> \o d.free /\ w.disk = [d.disk EXCEPT ![p] = Free]
<1>1. PageFree(d, p) = [d EXCEPT !.disk[p] = Free, !.free = <<p>> \o @]
  BY DEF PageFree
<1>2. <<p>> \o d.free \in Seq(PageNos)
  BY DEF Tables
<1>3. [d.disk EXCEPT ![p] = Free] \in [PageNos -> Pages]
  BY NoPages DEF Tables
<1> QED
  BY <1>1, <1>2, <1>3 DEF Tables

\* ... or taken, from the free chain or from beyond the end.
LEMMA Allocated ==
    ASSUME NEW d \in Tables
    PROVE  LET a == Alloc(d) IN
           \/ a = [d |-> d, page |-> Nil]
           \/ /\ a.page \in PageNos /\ a = [d |-> a.d, page |-> a.page]
              /\ a.d \in Tables /\ a.d.dirty = d.dirty /\ a.d.ix = d.ix
              /\ a.d.disk = [d.disk EXCEPT ![a.page] = Taken]
              /\ \/ d.free # <<>> /\ a.page = Head(d.free) /\ a.d.free = Tail(d.free)
                 \/ d.disk[a.page] = Absent /\ a.d.free = d.free
<1> DEFINE take(e, p) == [d |-> [e EXCEPT !.disk[p] = Taken], page |-> p]
           beyond == {p \in PageNos : d.disk[p] = Absent}
           e1 == [d EXCEPT !.free = Tail(@)]
<1>1. CASE d.free # <<>> /\ d.disk[Head(d.free)] = Free
  <2>1. Alloc(d) = take(e1, Head(d.free))
    BY <1>1 DEF Alloc
  <2>2. Head(d.free) \in PageNos /\ Tail(d.free) \in Seq(PageNos)
    BY <1>1 DEF Tables
  <2>3. e1 \in Tables /\ e1.disk = d.disk /\ e1.dirty = d.dirty /\ e1.ix = d.ix /\ e1.free = Tail(d.free)
    BY <2>2 DEF Tables
  <2> HIDE DEF e1
  <2>4. [e1.disk EXCEPT ![Head(d.free)] = Taken] \in [PageNos -> Pages]
    BY <2>2, <2>3, NoPages DEF Tables
  <2> DEFINE e == [e1 EXCEPT !.disk[Head(d.free)] = Taken]
  <2>5. /\ e \in Tables /\ e.dirty = d.dirty /\ e.ix = d.ix /\ e.free = Tail(d.free)
        /\ e.disk = [d.disk EXCEPT ![Head(d.free)] = Taken]
    BY <2>3, <2>4 DEF Tables
  <2>6. Alloc(d) = [d |-> e, page |-> Head(d.free)]
    BY <2>1
  <2> HIDE DEF e
  <2> QED
    BY <1>1, <2>2, <2>5, <2>6
<1>2. CASE ~(d.free # <<>> /\ d.disk[Head(d.free)] = Free) /\ beyond = {}
  BY <1>2 DEF Alloc
<1>3. CASE ~(d.free # <<>> /\ d.disk[Head(d.free)] = Free) /\ beyond # {}
  <2> DEFINE p == Min(beyond)
  <2>1. Alloc(d) = take(d, p)
    BY <1>3 DEF Alloc
  <2>2. p \in beyond
    <3>1. beyond \in SUBSET Nat /\ beyond # {}
      BY <1>3, Constants
    <3> QED
      BY <3>1, MinOf
  <2> HIDE DEF p
  <2>3. [d.disk EXCEPT ![p] = Taken] \in [PageNos -> Pages]
    BY <2>2, NoPages DEF Tables
  <2> DEFINE e == [d EXCEPT !.disk[p] = Taken]
  <2>4. /\ e \in Tables /\ e.dirty = d.dirty /\ e.ix = d.ix /\ e.free = d.free
        /\ e.disk = [d.disk EXCEPT ![p] = Taken]
    BY <2>3 DEF Tables
  <2>5. Alloc(d) = [d |-> e, page |-> p]
    BY <2>1
  <2> HIDE DEF e
  <2> QED
    BY <2>2, <2>4, <2>5
<1> QED
  BY <1>1, <1>2, <1>3

-----------------------------------------------------------------------------
(* Every page has its place.                                                 *)

\* The page is one of a tag.
Owned(ixs, p) == \E t \in Tags : \E v \in DOMAIN ixs[t] : ixs[t][v] = p

\* The pages of the index are distinct, of one tag and of all.
Distinct(ixs) ==
    \A t, u \in Tags : \A v \in DOMAIN ixs[t], w \in DOMAIN ixs[u] :
        ixs[t][v] = ixs[u][w] => t = u /\ v = w

\* Pages are of a tag, free, beyond the end, or those of L, which a call holds.
Accounted(ixs, free_, disk_, L) ==
    /\ Distinct(ixs) /\ IsInjective(free_)
    /\ \A p \in PageNos :
         /\ p \in L \union ToSet(free_) => ~Owned(ixs, p)
         /\ Owned(ixs, p) \/ p \in L \union ToSet(free_) => disk_[p] # Absent
         /\ p \in L => p \notin ToSet(free_)
         /\ Owned(ixs, p) \/ p \in ToSet(free_) \/ p \in L \/ disk_[p] = Absent

\* The free chain without its first page, and with one more.
LEMMA ChainPops ==
    ASSUME NEW s \in Seq(PageNos), s # <<>>, IsInjective(s)
    PROVE  /\ Head(s) \notin ToSet(Tail(s)) /\ ToSet(s) = {Head(s)} \union ToSet(Tail(s))
           /\ IsInjective(Tail(s))
<1>1. Len(s) \in Nat /\ Len(s) >= 1 /\ DOMAIN s = 1..Len(s) /\ Head(s) = s[1]
  OBVIOUS
<1>2. DOMAIN Tail(s) = 1..(Len(s) - 1) /\ \A i \in 1..(Len(s) - 1) : Tail(s)[i] = s[i + 1]
  BY <1>1
<1>3. \A i, j \in 1..Len(s) : s[i] = s[j] => i = j
  BY <1>1 DEF IsInjective
<1>4. \A i \in 1..Len(s) : i = 1 \/ \E j \in DOMAIN Tail(s) : Tail(s)[j] = s[i]
  <2> TAKE i \in 1..Len(s)
  <2>1. i # 1 => \E j \in 1..(Len(s) - 1) : i = j + 1
    <3>1. i # 1 => i - 1 \in 1..(Len(s) - 1) /\ i = (i - 1) + 1
      BY <1>1
    <3> QED
      BY <3>1
  <2> QED
    BY <1>2, <2>1
<1>5. \A i \in DOMAIN Tail(s) : i + 1 \in 1..Len(s) /\ i + 1 # 1 /\ Tail(s)[i] = s[i + 1]
  BY <1>1, <1>2
<1>6. Head(s) \notin ToSet(Tail(s))
  BY <1>1, <1>3, <1>5 DEF ToSet
<1>7. ToSet(s) = {Head(s)} \union ToSet(Tail(s))
  <2>1. ASSUME NEW i \in DOMAIN s PROVE s[i] = Head(s) \/ s[i] \in ToSet(Tail(s))
    BY <1>1, <1>4 DEF ToSet
  <2>2. ASSUME NEW i \in DOMAIN Tail(s) PROVE Tail(s)[i] \in ToSet(s)
    BY <1>1, <1>5 DEF ToSet
  <2>3. Head(s) \in ToSet(s)
    BY <1>1 DEF ToSet
  <2> QED
    BY <2>1, <2>2, <2>3 DEF ToSet
<1>8. IsInjective(Tail(s))
  BY <1>2, <1>3, <1>5 DEF IsInjective
<1> QED
  BY <1>6, <1>7, <1>8

\* A page put at the head of the free list joins it, and once if it was not there.
LEMMA ChainPushes ==
    ASSUME NEW s \in Seq(PageNos), NEW p \in PageNos
    PROVE  LET q == <<p>> \o s IN
           /\ ToSet(q) = {p} \union ToSet(s)
           /\ IsInjective(s) /\ p \notin ToSet(s) => IsInjective(q)
<1> DEFINE q == <<p>> \o s
<1>1. /\ Len(s) \in Nat /\ DOMAIN s = 1..Len(s) /\ DOMAIN q = 1..(Len(s) + 1) /\ q[1] = p
      /\ \A i \in 1..Len(s) : q[i + 1] = s[i]
  OBVIOUS
<1> HIDE DEF q
<1>2. \A i \in DOMAIN q : i = 1 \/ \E j \in DOMAIN s : s[j] = q[i] /\ i = j + 1
  <2> TAKE i \in DOMAIN q
  <2>1. i # 1 => \E j \in 1..Len(s) : i = j + 1
    <3>1. i # 1 => i - 1 \in 1..Len(s) /\ i = (i - 1) + 1
      BY <1>1
    <3> QED
      BY <3>1
  <2> QED
    BY <1>1, <2>1
<1>3. \A i \in DOMAIN s : i + 1 \in DOMAIN q
  BY <1>1
<1>4. ToSet(q) = {p} \union ToSet(s)
  BY <1>1, <1>2, <1>3 DEF ToSet
<1>5. ASSUME IsInjective(s), p \notin ToSet(s), NEW i \in DOMAIN q, NEW j \in DOMAIN q, q[i] = q[j]
      PROVE  i = j
  <2>1. CASE i = 1 /\ j = 1
    BY <2>1
  <2>2. CASE i # 1 /\ j # 1
    BY <1>1, <1>2, <1>5, <2>2 DEF IsInjective
  <2>3. CASE i = 1 /\ j # 1
    BY <1>1, <1>2, <1>5, <2>3 DEF ToSet
  <2>4. CASE i # 1 /\ j = 1
    BY <1>1, <1>2, <1>5, <2>4 DEF ToSet
  <2> QED
    BY <2>1, <2>2, <2>3, <2>4
<1> QED
  BY <1>4, <1>5 DEF q, IsInjective

-----------------------------------------------------------------------------
(* Chains.                                                                   *)

\* v is the next value of the index after u.
NextTo(ix, u, v) == u < v /\ \A w \in DOMAIN ix : w <= u \/ w >= v

PrevIs(ix, v, q) ==
    \/ v = 0 /\ q = Nil
    \/ \E u \in DOMAIN ix : NextTo(ix, u, v) /\ q = ix[u]

NextIs(ix, v, q) ==
    \/ q = Nil /\ \A w \in DOMAIN ix : w <= v
    \/ \E u \in DOMAIN ix : NextTo(ix, v, u) /\ q = ix[u]

\* The key k belongs to the page with value v.
Here(ix, v, k) == v <= k /\ \A u \in DOMAIN ix : u <= k => u <= v

\* What the page with value v is like.
Fine(ix, v, page) ==
    /\ page \in Pages /\ page.kind = "data" /\ page.idxval = v
    /\ PrevIs(ix, v, page.prev) /\ NextIs(ix, v, page.next)
    /\ DOMAIN page.recs # {} /\ \A k \in DOMAIN page.recs : Here(ix, v, k)

Chained(ix, view) ==
    /\ DOMAIN ix # {} => 0 \in DOMAIN ix
    /\ \A v \in DOMAIN ix : Fine(ix, v, view[ix[v]])

\* The index gives the page a key belongs to.
LEMMA HereIs ==
    ASSUME NEW ix \in Indexes, NEW k \in Nat, NEW v \in DOMAIN ix, Here(ix, v, k)
    PROVE  GetIdx(ix, k) = ix[v]
<1> DEFINE S == {i \in DOMAIN ix : i <= k}
<1>1. S \in SUBSET Nat /\ v \in S /\ \A y \in S : y <= v
  BY Index, Constants DEF Here
<1>2. Max(S) = v
  BY <1>1, MaxIs
<1> QED
  BY <1>2 DEF GetIdx

\* There is one for each key.
LEMMA SomeHere ==
    ASSUME NEW ix \in Indexes, NEW k \in Nat, 0 \in DOMAIN ix
    PROVE  \E v \in DOMAIN ix : Here(ix, v, k) /\ GetIdx(ix, k) = ix[v]
<1> DEFINE S == {i \in DOMAIN ix : i <= k}
           m == Max(S)
<1>1. S \in SUBSET Nat /\ 0 \in S /\ \A y \in S : y <= k
  BY Index, Constants
<1>2. m \in S /\ \A y \in S : y <= m
  BY <1>1, GreatestBelow
<1>3. m \in DOMAIN ix /\ Here(ix, m, k)
  BY <1>2 DEF Here
<1> QED
  BY <1>3, HereIs

\* A value of the index is in place itself.
LEMMA ValueHere ==
    ASSUME NEW ix \in Indexes, NEW v \in DOMAIN ix
    PROVE  v \in Nat /\ Here(ix, v, v)
BY Index, Constants DEF Here

\* Pages of other tags do not matter.
LEMMA ChainKept ==
    ASSUME NEW ix, NEW view, NEW new, Chained(ix, view),
           \A v \in DOMAIN ix : new[ix[v]] = view[ix[v]]
    PROVE  Chained(ix, new)
BY DEF Chained

\* No chain, and a chain of one page.
LEMMA ChainNone ==
    ASSUME NEW view
    PROVE  Chained(ClearIdxTree, view) /\ ClearIdxTree \in Indexes /\ DOMAIN ClearIdxTree = {}
<1>1. DOMAIN ClearIdxTree = {}
  BY DEF ClearIdxTree
<1> QED
  BY <1>1, Index DEF Chained, ClearIdxTree

\* The first page of a new tag is a sound chain of one page.
LEMMA ChainFirst ==
    ASSUME NEW p \in PageNos, NEW r \in PageRecs, DOMAIN r # {}, NEW view,
           view[p] = Page(0, Nil, Nil, r), NEW ix, DOMAIN ix = {0}, ix[0] = p
    PROVE  Chained(ix, view)
<1>1. /\ view[p] \in Pages /\ view[p].kind = "data" /\ view[p].idxval = 0
      /\ view[p].prev = Nil /\ view[p].next = Nil /\ view[p].recs = r
  BY PageIn
<1>2. \A k \in DOMAIN r : k \in Nat
  BY Recs, Constants
<1> QED
  BY <1>1, <1>2 DEF Chained, Fine, PrevIs, NextIs, Here

\* The records of a page change.
LEMMA ChainChanges ==
    ASSUME NEW ix, NEW view, NEW new, Chained(ix, view), NEW v \in DOMAIN ix, NEW r \in PageRecs, DOMAIN r # {},
           \A k \in DOMAIN r : Here(ix, v, k),
           new[ix[v]] = [view[ix[v]] EXCEPT !.recs = r],
           \A w \in DOMAIN ix \ {v} : new[ix[w]] = view[ix[w]]
    PROVE  Chained(ix, new)
<1>1. Fine(ix, v, view[ix[v]])
  BY DEF Chained
<1>2. Fine(ix, v, new[ix[v]])
  BY <1>1 DEF Fine, Pages
<1> QED
  BY <1>2 DEF Chained

\* The records of the page with value v and of the page with value x behind it.
Halves(ix, v, x, r1, r2) ==
    /\ v \in DOMAIN ix /\ Here(ix, v, x) /\ v < x
    /\ r1 \in PageRecs /\ DOMAIN r1 # {} /\ \A k \in DOMAIN r1 : Here(ix, v, k) /\ k < x
    /\ r2 \in PageRecs /\ DOMAIN r2 # {} /\ \A k \in DOMAIN r2 : Here(ix, v, k) /\ x <= k

\* A page n with value x is put behind the page with value v.
Grows(ix, view, new, v, x, n, r1, r2) ==
    LET nx == view[ix[v]].next IN
    /\ ix \in Indexes /\ IsInjective(ix) /\ Chained(ix, view)
    /\ Halves(ix, v, x, r1, r2) /\ x \in Nat
    /\ n \in PageNos /\ \A w \in DOMAIN ix : ix[w] # n
    /\ new[n] = Page(x, ix[v], nx, r2)
    /\ new[ix[v]] = [view[ix[v]] EXCEPT !.next = n, !.recs = r1]
    /\ \A w \in DOMAIN ix \ {v} :
         new[ix[w]] = IF ix[w] = nx THEN [view[ix[w]] EXCEPT !.prev = n] ELSE view[ix[w]]

\* A page split in two and linked in leaves the chain of its tag sound.
LEMMA ChainGrows ==
    ASSUME NEW ix, NEW view, NEW new, NEW v, NEW x, NEW n, NEW r1, NEW r2,
           Grows(ix, view, new, v, x, n, r1, r2)
    PROVE  Chained(InsertIdx(ix, x, n), new)
<1> DEFINE jx == InsertIdx(ix, x, n)
           nx == view[ix[v]].next
<1> USE DEF Grows, Halves
<1>1. /\ v \in Nat /\ DOMAIN ix \subseteq Nat /\ 0 \in DOMAIN ix
      /\ \A w \in DOMAIN ix : ix[w] \in PageNos /\ Fine(ix, w, view[ix[w]])
  BY Index, Constants DEF Chained
<1>2. \A w \in DOMAIN ix : w <= v \/ w > x
  BY <1>1 DEF Here
<1>3. /\ DOMAIN jx = DOMAIN ix \union {x} /\ jx[x] = n
      /\ \A w \in DOMAIN ix : jx[w] = ix[w] /\ w # x
  BY <1>1, <1>2 DEF InsertIdx
<1> HIDE DEF jx
<1>4. NextTo(jx, v, x)
  BY <1>1, <1>2, <1>3 DEF NextTo
<1>5. NextIs(ix, v, nx) /\ PrevIs(ix, v, view[ix[v]].prev) /\ nx \in PageNos \union {Nil}
  BY <1>1 DEF Fine, Pages
<1>6. \A u \in DOMAIN ix : NextTo(ix, v, u) => NextTo(jx, x, u) /\ ix[u] = nx
  <2> TAKE u \in DOMAIN ix
  <2> HAVE NextTo(ix, v, u)
  <2>1. ix[u] = nx
    <3>1. CASE \A w \in DOMAIN ix : w <= v
      BY <1>1, <3>1 DEF NextTo
    <3>2. ASSUME NEW z \in DOMAIN ix, NextTo(ix, v, z), nx = ix[z] PROVE ix[u] = nx
      <4>1. z = u
        BY <1>1, <3>2 DEF NextTo
      <4> QED
        BY <3>2, <4>1
    <3> QED
      BY <1>5, <3>1, <3>2 DEF NextIs
  <2>2. NextTo(jx, x, u)
    BY <1>1, <1>2, <1>3 DEF NextTo
  <2> QED
    BY <2>1, <2>2
<1>7. Fine(jx, x, new[n])
  <2>1. /\ new[n] \in Pages /\ new[n].kind = "data" /\ new[n].idxval = x /\ new[n].prev = ix[v]
        /\ new[n].next = nx /\ new[n].recs = r2
    <3>1. ix[v] \in PageNos \union {Nil}
      BY <1>1
    <3> DEFINE z == Page(x, ix[v], nx, r2)
    <3>2. /\ z \in Pages /\ z.kind = "data" /\ z.idxval = x /\ z.prev = ix[v] /\ z.next = nx
          /\ z.recs = r2
      BY <1>5, <3>1 DEF Page, Pages
    <3>3. new[n] = z
      OBVIOUS
    <3> HIDE DEF z
    <3> QED
      BY <3>2, <3>3
  <2>2. PrevIs(jx, x, ix[v])
    BY <1>3, <1>4 DEF PrevIs
  <2>3. NextIs(jx, x, nx)
    <3>1. CASE nx = Nil /\ \A w \in DOMAIN ix : w <= v
      BY <1>1, <1>3, <3>1 DEF NextIs
    <3>2. CASE \E u \in DOMAIN ix : NextTo(ix, v, u) /\ nx = ix[u]
      BY <1>3, <1>6, <3>2 DEF NextIs
    <3> QED
      BY <1>5, <3>1, <3>2 DEF NextIs
  <2>4. \A k \in DOMAIN r2 : k \in Nat /\ Here(jx, x, k)
    <3>1. \A k \in DOMAIN r2 : k \in Nat
      BY Recs, Constants
    <3> QED
      BY <1>1, <1>3, <3>1 DEF Here
  <2> QED
    BY <2>1, <2>2, <2>3, <2>4 DEF Fine
<1>8. Fine(jx, v, new[ix[v]])
  <2>1. Fine(ix, v, view[ix[v]])
    BY <1>1
  <2>2. /\ new[ix[v]] \in Pages /\ new[ix[v]].kind = "data" /\ new[ix[v]].idxval = v
        /\ new[ix[v]].prev = view[ix[v]].prev /\ new[ix[v]].next = n /\ new[ix[v]].recs = r1
    BY <2>1 DEF Fine, Pages
  <2>3. PrevIs(jx, v, view[ix[v]].prev)
    <3>1. \A u \in DOMAIN ix : NextTo(ix, u, v) => NextTo(jx, u, v)
      BY <1>1, <1>3 DEF NextTo
    <3> QED
      BY <1>3, <1>5, <3>1 DEF PrevIs
  <2>4. NextIs(jx, v, n)
    BY <1>3, <1>4 DEF NextIs
  <2>5. \A k \in DOMAIN r1 : Here(jx, v, k)
    <3>1. \A k \in DOMAIN r1 : k \in Nat
      BY Recs, Constants
    <3> QED
      BY <1>1, <1>3, <3>1 DEF Here
  <2> QED
    BY <2>2, <2>3, <2>4, <2>5 DEF Fine
<1>9. ASSUME NEW w \in DOMAIN ix \ {v} PROVE Fine(jx, w, new[jx[w]])
  <2> DEFINE old == view[ix[w]]
             is == new[ix[w]]
  <2>1. Fine(ix, w, old) /\ w \in Nat
    BY <1>1
  <2>2. /\ is \in Pages /\ is.kind = "data" /\ is.idxval = w /\ is.next = old.next /\ is.recs = old.recs
        /\ is.prev = IF ix[w] = nx THEN n ELSE old.prev
    <3>1. old \in Pages /\ old.kind = "data" /\ old.idxval = w
      BY <2>1 DEF Fine
    <3>2. is = IF ix[w] = nx THEN [old EXCEPT !.prev = n] ELSE old
      OBVIOUS
    <3>3. n \in PageNos
      OBVIOUS
    <3> HIDE DEF old, is, nx
    <3> QED
      BY <3>1, <3>2, <3>3 DEF Pages
  <2>3. \A u \in DOMAIN ix : NextTo(ix, w, u) => NextTo(jx, w, u)
    BY <1>1, <1>2, <1>3 DEF NextTo
  <2>4. NextIs(jx, w, is.next)
    <3>1. CASE \A u \in DOMAIN ix : u <= w
      <4>1. v < w
        BY <1>1, <2>1, <3>1
      <4>2. x < w
        BY <1>1, <1>2, <2>1, <4>1
      <4>3. old.next = Nil
        <5>1. \A u \in DOMAIN ix : ~NextTo(ix, w, u)
          BY <1>1, <2>1, <3>1 DEF NextTo
        <5> QED
          BY <2>1, <5>1 DEF Fine, NextIs
      <4> QED
        BY <1>3, <2>1, <2>2, <3>1, <4>2, <4>3 DEF NextIs
    <3>2. CASE ~(\A u \in DOMAIN ix : u <= w)
      <4>1. PICK u \in DOMAIN ix : NextTo(ix, w, u) /\ old.next = ix[u]
        BY <2>1, <3>2 DEF Fine, NextIs
      <4> QED
        BY <1>3, <2>2, <2>3, <4>1 DEF NextIs
    <3> QED
      BY <3>1, <3>2
  <2>5. PrevIs(jx, w, is.prev)
    <3>1. CASE ix[w] = nx
      <4>1. PICK u \in DOMAIN ix : NextTo(ix, v, u) /\ nx = ix[u]
        BY <1>1, <1>5, <3>1, Constants DEF NextIs
      <4>2. u = w
        BY <3>1, <4>1 DEF IsInjective
      <4>3. NextTo(jx, x, w)
        BY <1>6, <4>1, <4>2
      <4> QED
        BY <1>3, <2>2, <3>1, <4>3 DEF PrevIs
    <3>2. CASE ix[w] # nx
      <4>1. CASE w = 0 /\ old.prev = Nil
        BY <2>2, <3>2, <4>1 DEF PrevIs
      <4>2. ASSUME NEW u \in DOMAIN ix, NextTo(ix, u, w), old.prev = ix[u] PROVE PrevIs(jx, w, is.prev)
        <5>1. u # v
          BY <1>6, <3>2, <4>2
        <5>2. NextTo(jx, u, w)
          BY <1>1, <1>2, <1>3, <2>1, <4>2, <5>1 DEF NextTo
        <5> QED
          BY <1>3, <2>2, <3>2, <4>2, <5>2 DEF PrevIs
      <4> QED
        BY <2>1, <4>1, <4>2 DEF Fine, PrevIs
    <3> QED
      BY <3>1, <3>2
  <2>6. \A k \in DOMAIN old.recs : Here(jx, w, k)
    <3>1. \A k \in DOMAIN old.recs : k \in Nat /\ Here(ix, w, k)
      <4>1. old.recs \in PageRecs
        BY <2>1 DEF Fine, Pages
      <4> QED
        BY <2>1, <4>1, Recs, Constants DEF Fine
    <3>2. ASSUME NEW k \in DOMAIN old.recs, x <= k PROVE x <= w
      <4>1. v <= k
        BY <1>1, <3>1, <3>2
      <4>2. v <= w
        BY <3>1, <4>1 DEF Here
      <4> QED
        BY <1>1, <1>2, <2>1, <4>2
    <3> QED
      BY <1>3, <3>1, <3>2 DEF Here
  <2> QED
    BY <1>3, <2>1, <2>2, <2>4, <2>5, <2>6 DEF Fine
<1> QED
  BY <1>1, <1>3, <1>7, <1>8, <1>9 DEF Chained, jx

\* The page with value v leaves, the one in front of it may take its records.
Shrinks(ix, view, new, u, v, r) ==
    LET nx == view[ix[v]].next IN
    /\ ix \in Indexes /\ IsInjective(ix) /\ Chained(ix, view)
    /\ u \in DOMAIN ix /\ v \in DOMAIN ix /\ NextTo(ix, u, v)
    /\ r \in PageRecs /\ DOMAIN r # {} /\ \A k \in DOMAIN r : Here(ix, u, k) \/ Here(ix, v, k)
    /\ new[ix[u]] = Page(u, view[ix[u]].prev, nx, r)
    /\ \A w \in DOMAIN ix \ {u, v} :
         new[ix[w]] = IF ix[w] = nx THEN [view[ix[w]] EXCEPT !.prev = ix[u]] ELSE view[ix[w]]

\* A page whose records go to its left neighbour (or are gone) leaves the chain sound
\* once it is unlinked and its index value dropped.
LEMMA ChainShrinks ==
    ASSUME NEW ix, NEW view, NEW new, NEW u, NEW v, NEW r, Shrinks(ix, view, new, u, v, r)
    PROVE  /\ Chained(DelIdxRec(ix, v, ix[v]), new)
           /\ DOMAIN DelIdxRec(ix, v, ix[v]) = DOMAIN ix \ {v}
           /\ \A w \in DOMAIN ix \ {v} : DelIdxRec(ix, v, ix[v])[w] = ix[w]
<1> DEFINE jx == DelIdxRec(ix, v, ix[v])
           nx == view[ix[v]].next
<1> USE DEF Shrinks
<1>1. /\ DOMAIN ix \subseteq Nat /\ 0 \in DOMAIN ix /\ u < v /\ u \in Nat /\ v \in Nat
      /\ \A w \in DOMAIN ix : ix[w] \in PageNos /\ Fine(ix, w, view[ix[w]])
  BY Index, Constants DEF Chained, NextTo
<1>2. \A w \in DOMAIN ix : w <= u \/ w = v \/ w > v
  BY <1>1 DEF NextTo
<1>3. DOMAIN jx = DOMAIN ix \ {v} /\ \A w \in DOMAIN ix \ {v} : jx[w] = ix[w]
  BY DEF DelIdxRec
<1> HIDE DEF jx
<1>4. 0 \in DOMAIN jx
  BY <1>1, <1>3
<1>5. NextIs(ix, v, nx) /\ nx \in PageNos \union {Nil} /\ PrevIs(ix, u, view[ix[u]].prev)
  BY <1>1 DEF Fine, Pages
<1>6. \A z \in DOMAIN ix : NextTo(ix, v, z) => NextTo(jx, u, z) /\ ix[z] = nx /\ z # v /\ z # u
  <2> TAKE z \in DOMAIN ix
  <2> HAVE NextTo(ix, v, z)
  <2>1. ix[z] = nx
    <3>1. CASE \A w \in DOMAIN ix : w <= v
      BY <1>1, <3>1 DEF NextTo
    <3>2. ASSUME NEW y \in DOMAIN ix, NextTo(ix, v, y), nx = ix[y] PROVE ix[z] = nx
      <4>1. z = y
        BY <1>1, <3>2 DEF NextTo
      <4> QED
        BY <3>2, <4>1
    <3> QED
      BY <1>5, <3>1, <3>2 DEF NextIs
  <2>2. NextTo(jx, u, z) /\ z # v /\ z # u
    BY <1>1, <1>2, <1>3 DEF NextTo
  <2> QED
    BY <2>1, <2>2
<1>7. Fine(jx, u, new[ix[u]])
  <2>1. view[ix[u]].prev \in PageNos \union {Nil}
    BY <1>1 DEF Fine, Pages
  <2>2. LET x == new[ix[u]] IN
        /\ x \in Pages /\ x.kind = "data" /\ x.idxval = u /\ x.prev = view[ix[u]].prev
        /\ x.next = nx /\ x.recs = r
    <3> DEFINE z == Page(u, view[ix[u]].prev, nx, r)
    <3>2. /\ z \in Pages /\ z.kind = "data" /\ z.idxval = u /\ z.prev = view[ix[u]].prev
          /\ z.next = nx /\ z.recs = r
      BY <1>1, <1>5, <2>1 DEF Page, Pages
    <3>3. new[ix[u]] = z
      OBVIOUS
    <3> HIDE DEF z
    <3> QED
      BY <3>2, <3>3
  <2>3. PrevIs(jx, u, view[ix[u]].prev)
    <3>1. \A z \in DOMAIN ix : NextTo(ix, z, u) => NextTo(jx, z, u) /\ z # v
      BY <1>1, <1>3 DEF NextTo
    <3> QED
      BY <1>3, <1>5, <3>1 DEF PrevIs
  <2>4. NextIs(jx, u, nx)
    <3>1. CASE nx = Nil /\ \A w \in DOMAIN ix : w <= v
      BY <1>1, <1>2, <1>3, <3>1 DEF NextIs
    <3>2. CASE \E z \in DOMAIN ix : NextTo(ix, v, z) /\ nx = ix[z]
      BY <1>3, <1>6, <3>2 DEF NextIs
    <3> QED
      BY <1>5, <3>1, <3>2 DEF NextIs
  <2>5. \A k \in DOMAIN r : Here(jx, u, k)
    <3>1. \A k \in DOMAIN r : k \in Nat
      BY Recs, Constants
    <3>2. ASSUME NEW k \in DOMAIN r PROVE u <= k /\ \A w \in DOMAIN ix : w <= k => w <= u \/ w = v
      <4>1. k \in Nat
        BY <3>1
      <4> QED
        BY <1>1, <1>2, <4>1 DEF Here
    <3> QED
      BY <1>3, <3>2 DEF Here
  <2> QED
    BY <2>2, <2>3, <2>4, <2>5 DEF Fine
<1>8. ASSUME NEW w \in DOMAIN ix \ {u, v} PROVE Fine(jx, w, new[jx[w]])
  <2> DEFINE old == view[ix[w]]
             is == new[ix[w]]
  <2>1. Fine(ix, w, old) /\ w \in Nat
    BY <1>1
  <2>2. /\ is \in Pages /\ is.kind = "data" /\ is.idxval = w /\ is.next = old.next /\ is.recs = old.recs
        /\ is.prev = IF ix[w] = nx THEN ix[u] ELSE old.prev
    <3>1. old \in Pages /\ old.kind = "data" /\ old.idxval = w /\ ix[u] \in PageNos
      BY <1>1, <2>1 DEF Fine
    <3>2. is = IF ix[w] = nx THEN [old EXCEPT !.prev = ix[u]] ELSE old
      OBVIOUS
    <3> HIDE DEF is, old
    <3> QED
      BY <3>1, <3>2 DEF Pages
  <2>3. NextIs(jx, w, is.next)
    <3>1. CASE old.next = Nil /\ \A z \in DOMAIN ix : z <= w
      BY <1>3, <2>2, <3>1 DEF NextIs
    <3>2. ASSUME NEW z \in DOMAIN ix, NextTo(ix, w, z), old.next = ix[z] PROVE NextIs(jx, w, is.next)
      <4>1. z # v
        BY <1>1, <2>1, <3>2 DEF NextTo
      <4>2. NextTo(jx, w, z)
        BY <1>3, <3>2 DEF NextTo
      <4> QED
        BY <1>3, <2>2, <3>2, <4>1, <4>2 DEF NextIs
    <3> QED
      BY <2>1, <3>1, <3>2 DEF Fine, NextIs
  <2>4. PrevIs(jx, w, is.prev)
    <3>1. CASE ix[w] = nx
      <4>1. PICK z \in DOMAIN ix : NextTo(ix, v, z) /\ nx = ix[z]
        BY <1>1, <1>5, <3>1, Constants DEF NextIs
      <4>2. z = w
        BY <3>1, <4>1 DEF IsInjective
      <4>3. NextTo(jx, u, w)
        BY <1>6, <4>1, <4>2
      <4> QED
        BY <1>1, <1>3, <2>2, <3>1, <4>3 DEF PrevIs
    <3>2. CASE ix[w] # nx
      <4>1. CASE w = 0 /\ old.prev = Nil
        BY <2>2, <3>2, <4>1 DEF PrevIs
      <4>2. ASSUME NEW z \in DOMAIN ix, NextTo(ix, z, w), old.prev = ix[z] PROVE PrevIs(jx, w, is.prev)
        <5>1. z # v
          BY <1>6, <3>2, <4>2
        <5>2. NextTo(jx, z, w)
          BY <1>3, <4>2 DEF NextTo
        <5> QED
          BY <1>3, <2>2, <3>2, <4>2, <5>1, <5>2 DEF PrevIs
      <4> QED
        BY <2>1, <4>1, <4>2 DEF Fine, PrevIs
    <3> QED
      BY <3>1, <3>2
  <2>5. \A k \in DOMAIN old.recs : Here(jx, w, k)
    BY <1>3, <2>1 DEF Fine, Here
  <2> QED
    BY <1>3, <2>1, <2>2, <2>3, <2>4, <2>5 DEF Fine
<1> QED
  BY <1>1, <1>3, <1>4, <1>7, <1>8 DEF Chained, jx

-----------------------------------------------------------------------------
(* Pages come and go.                                                        *)

\* The same pages are beyond the end.
SameEnd(a, b) == \A p \in PageNos : a[p] = Absent <=> b[p] = Absent

\* The account of the pages only reads where the file ends.
LEMMA AccountSame ==
    ASSUME NEW ixs, NEW f, NEW L, NEW a, NEW b, Accounted(ixs, f, a, L), SameEnd(a, b)
    PROVE  Accounted(ixs, f, b, L)
BY DEF Accounted, SameEnd

\* A call takes a page ...
LEMMA AccountTakes ==
    ASSUME NEW d \in Tables, Accounted(d.ix, d.free, d.disk, {}),
           NEW a, a = Alloc(d), a.page # Nil
    PROVE  /\ a.d \in Tables /\ a.page \in PageNos /\ a.d.dirty = d.dirty /\ a.d.ix = d.ix
           /\ a.d.disk = [d.disk EXCEPT ![a.page] = Taken]
           /\ a.d.disk[a.page] # Free /\ a.d.disk[a.page] # Absent
           /\ ~Owned(d.ix, a.page)
           /\ Accounted(a.d.ix, a.d.free, a.d.disk, {a.page})
<1>1. /\ a.page \in PageNos /\ a.d \in Tables /\ a.d.dirty = d.dirty /\ a.d.ix = d.ix
      /\ a.d.disk = [d.disk EXCEPT ![a.page] = Taken]
      /\ \/ d.free # <<>> /\ a.page = Head(d.free) /\ a.d.free = Tail(d.free)
         \/ d.disk[a.page] = Absent /\ a.d.free = d.free
  <2>1. a # [d |-> d, page |-> Nil]
    OBVIOUS
  <2> QED
    BY <2>1, Allocated
<1>2. d.disk \in [PageNos -> Pages] /\ d.free \in Seq(PageNos)
  BY DEF Tables
<1>3. Taken # Free /\ Taken # Absent
  BY NoPages
<1>4. \A q \in PageNos : a.d.disk[q] = IF q = a.page THEN Taken ELSE d.disk[q]
  BY <1>1, <1>2
<1>5. CASE d.free # <<>> /\ a.page = Head(d.free) /\ a.d.free = Tail(d.free)
  <2>1. /\ a.page \notin ToSet(a.d.free) /\ ToSet(d.free) = {a.page} \union ToSet(a.d.free)
        /\ IsInjective(a.d.free)
    BY <1>2, <1>5, ChainPops DEF Accounted
  <2>2. Accounted(a.d.ix, a.d.free, a.d.disk, {a.page})
    BY <1>1, <1>3, <1>4, <2>1 DEF Accounted
  <2> QED
    BY <1>1, <1>3, <1>4, <2>1, <2>2 DEF Accounted
<1>6. CASE d.disk[a.page] = Absent /\ a.d.free = d.free
  <2>1. ~Owned(d.ix, a.page) /\ a.page \notin ToSet(d.free)
    BY <1>1, <1>6 DEF Accounted
  <2>2. Accounted(a.d.ix, a.d.free, a.d.disk, {a.page})
    BY <1>1, <1>3, <1>4, <1>6, <2>1 DEF Accounted
  <2> QED
    BY <1>1, <1>3, <1>4, <2>1, <2>2
<1> QED
  BY <1>1, <1>5, <1>6

\* ... gives one back ...
LEMMA AccountFrees ==
    ASSUME NEW d \in Tables, NEW L, Accounted(d.ix, d.free, d.disk, L),
           NEW p \in L, p \in PageNos, d.disk[p] # Free
    PROVE  LET w == PageFree(d, p) IN
           /\ w \in Tables /\ w.dirty = d.dirty /\ w.ix = d.ix
           /\ w.disk = [d.disk EXCEPT ![p] = Free] /\ SameEnd(w.disk, d.disk)
           /\ Accounted(w.ix, w.free, w.disk, L \ {p})
<1> DEFINE w == PageFree(d, p)
<1>1. /\ w \in Tables /\ w.dirty = d.dirty /\ w.ix = d.ix
      /\ w.free = <<p>> \o d.free /\ w.disk = [d.disk EXCEPT ![p] = Free]
  BY Freed
<1> HIDE DEF w
<1>2. d.disk \in [PageNos -> Pages] /\ d.free \in Seq(PageNos)
  BY DEF Tables
<1>3. p \notin ToSet(d.free) /\ ~Owned(d.ix, p) /\ d.disk[p] # Absent /\ IsInjective(d.free)
  BY DEF Accounted
<1>4. ToSet(w.free) = {p} \union ToSet(d.free) /\ IsInjective(w.free)
  BY <1>1, <1>2, <1>3, ChainPushes
<1>5. Free # Absent
  BY NoPages
<1>6. \A q \in PageNos : w.disk[q] = IF q = p THEN Free ELSE d.disk[q]
  BY <1>1, <1>2
<1>7. SameEnd(w.disk, d.disk)
  BY <1>3, <1>5, <1>6 DEF SameEnd
<1>8. Accounted(w.ix, w.free, w.disk, L \ {p})
  BY <1>1, <1>3, <1>4, <1>7 DEF Accounted, SameEnd
<1> QED
  BY <1>1, <1>7, <1>8 DEF w

\* ... gives the index of a tag a page it holds ...
LEMMA AccountGrows ==
    ASSUME NEW ixs, NEW f, NEW a, NEW n, Accounted(ixs, f, a, {n}), NEW t \in Tags,
           DOMAIN ixs = Tags, NEW x, x \notin DOMAIN ixs[t],
           NEW jx, DOMAIN jx = DOMAIN ixs[t] \union {x}, jx[x] = n,
           \A w \in DOMAIN ixs[t] : jx[w] = ixs[t][w], n \in PageNos
    PROVE  Accounted([ixs EXCEPT ![t] = jx], f, a, {})
<1> DEFINE new == [ixs EXCEPT ![t] = jx]
<1>1. new[t] = jx /\ \A u \in Tags \ {t} : new[u] = ixs[u]
  OBVIOUS
<1> HIDE DEF new
<1>2. /\ Distinct(ixs) /\ IsInjective(f) /\ ~Owned(ixs, n) /\ n \notin ToSet(f) /\ a[n] # Absent
  BY DEF Accounted
<1>3. \A p \in PageNos : Owned(new, p) <=> Owned(ixs, p) \/ p = n
  BY <1>1 DEF Owned
<1>4. Distinct(new)
  <2> SUFFICES ASSUME NEW u \in Tags, NEW s \in Tags, NEW v \in DOMAIN new[u], NEW w \in DOMAIN new[s],
                      new[u][v] = new[s][w]
               PROVE  u = s /\ v = w
    BY DEF Distinct
  <2>1. ASSUME NEW r \in Tags, NEW y \in DOMAIN new[r]
        PROVE  \/ r = t /\ y = x /\ new[r][y] = n
               \/ ~(r = t /\ y = x) /\ y \in DOMAIN ixs[r] /\ new[r][y] = ixs[r][y] /\ ixs[r][y] # n
    BY <1>1, <1>2 DEF Owned
  <2> QED
    BY <1>2, <2>1 DEF Distinct
<1>5. Accounted(new, f, a, {})
  BY <1>2, <1>3, <1>4 DEF Accounted
<1> QED
  BY <1>5 DEF new

\* ... or takes pages from it.
LEMMA AccountShrinks ==
    ASSUME NEW ixs, NEW f, NEW a, Accounted(ixs, f, a, {}), NEW t \in Tags,
           DOMAIN ixs = Tags, NEW jx, DOMAIN jx \subseteq DOMAIN ixs[t],
           \A w \in DOMAIN jx : jx[w] = ixs[t][w]
    PROVE  Accounted([ixs EXCEPT ![t] = jx], f, a, {ixs[t][v] : v \in DOMAIN ixs[t] \ DOMAIN jx})
<1> DEFINE new == [ixs EXCEPT ![t] = jx]
           L == {ixs[t][v] : v \in DOMAIN ixs[t] \ DOMAIN jx}
<1>1. new[t] = jx /\ \A u \in Tags \ {t} : new[u] = ixs[u]
  OBVIOUS
<1> HIDE DEF new
<1>2. Distinct(ixs) /\ IsInjective(f)
  BY DEF Accounted
<1>3. \A p \in PageNos : Owned(new, p) => Owned(ixs, p) /\ p \notin L
  <2> SUFFICES ASSUME NEW p \in PageNos, NEW u \in Tags, NEW w \in DOMAIN new[u], new[u][w] = p
               PROVE  Owned(ixs, p) /\ p \notin L
    BY DEF Owned
  <2>1. w \in DOMAIN ixs[u] /\ ixs[u][w] = p
    BY <1>1
  <2>2. \A v \in DOMAIN ixs[t] \ DOMAIN jx : ixs[t][v] # p
    BY <1>1, <1>2, <2>1 DEF Distinct
  <2> QED
    BY <2>1, <2>2 DEF Owned
<1>4. \A p \in PageNos : Owned(ixs, p) => Owned(new, p) \/ p \in L
  <2> SUFFICES ASSUME NEW p \in PageNos, NEW u \in Tags, NEW w \in DOMAIN ixs[u], ixs[u][w] = p
               PROVE  Owned(new, p) \/ p \in L
    BY DEF Owned
  <2>1. CASE u = t /\ w \notin DOMAIN jx
    BY <2>1
  <2>2. CASE ~(u = t /\ w \notin DOMAIN jx)
    <3>1. w \in DOMAIN new[u] /\ new[u][w] = p
      BY <1>1, <2>2
    <3> QED
      BY <3>1 DEF Owned
  <2> QED
    BY <2>1, <2>2
<1>5. \A p \in L : Owned(ixs, p)
  BY DEF Owned
<1>6. Distinct(new)
  BY <1>1, <1>2 DEF Distinct
<1> HIDE DEF L
<1>7. Accounted(new, f, a, L)
  BY <1>2, <1>3, <1>4, <1>5, <1>6 DEF Accounted
<1> QED
  BY <1>7 DEF new, L

-----------------------------------------------------------------------------
(* The inductive invariant.                                                  *)

\* All pages are accounted for when a call holds those of L, a page of the
\* cache holds records and is not beyond the end, and the chains are sound as
\* a call sees them and on disk.  Each page of a chain is fine in both views,
\* so it does not matter which pages were saved.
Good(d, L) ==
    /\ d \in Tables /\ Accounted(d.ix, d.free, d.disk, L)
    /\ \A p \in DOMAIN d.dirty : d.dirty[p].kind = "data" /\ d.disk[p] # Absent
    /\ \A t \in Tags : Chained(d.ix[t], Mem(d)) /\ Chained(d.ix[t], d.disk)

\* The pages of the tags stay as they are.
SamePages(d, e) ==
    /\ e.ix = d.ix
    /\ \A p \in PageNos : Owned(d.ix, p) => Mem(e)[p] = Mem(d)[p] /\ e.disk[p] = d.disk[p]

\* What a good table gives at once: the types of its parts, and the cache reaching no
\* further than the file.
LEMMA GoodParts ==
    ASSUME NEW d, NEW L, Good(d, L)
    PROVE  /\ d \in Tables /\ d.disk \in [PageNos -> Pages] /\ Mem(d) \in [PageNos -> Pages]
           /\ d.ix \in [Tags -> Indexes] /\ DOMAIN d.dirty \subseteq PageNos
           /\ SameEnd(Mem(d), d.disk)
<1>1. d \in Tables /\ d.disk \in [PageNos -> Pages] /\ d.ix \in [Tags -> Indexes]
  BY DEF Good, Tables
<1>2. DOMAIN d.dirty \subseteq PageNos /\ d.dirty \in [DOMAIN d.dirty -> Pages]
  BY Cache DEF Good, Tables
<1>3. \A p \in PageNos : Mem(d)[p] = IF p \in DOMAIN d.dirty THEN d.dirty[p] ELSE d.disk[p]
  BY DEF Mem, GetPage
<1>4. \A p \in DOMAIN d.dirty : d.dirty[p] # Absent /\ d.disk[p] # Absent
  BY NoPages DEF Good
<1> QED
  BY <1>1, <1>2, <1>3, <1>4, MemIn DEF SameEnd

\* A page of a tag.
LEMMA GoodPage ==
    ASSUME NEW d, NEW L, Good(d, L), NEW t \in Tags, NEW v \in DOMAIN d.ix[t]
    PROVE  LET p == d.ix[t][v] IN
           /\ d.ix[t] \in Indexes /\ IsInjective(d.ix[t]) /\ 0 \in DOMAIN d.ix[t]
           /\ p \in PageNos /\ Owned(d.ix, p) /\ p \notin L /\ GetPage(d, p) = Mem(d)[p]
           /\ Fine(d.ix[t], v, Mem(d)[p]) /\ Fine(d.ix[t], v, d.disk[p])
           /\ d.disk[p] # Free
<1> DEFINE p == d.ix[t][v]
<1>1. d.ix[t] \in Indexes
  BY GoodParts
<1>2. p \in PageNos
  BY <1>1, Index
<1>3. IsInjective(d.ix[t]) /\ Owned(d.ix, p)
  BY DEF Good, Accounted, Distinct, Owned, IsInjective
<1>4. Fine(d.ix[t], v, Mem(d)[p]) /\ Fine(d.ix[t], v, d.disk[p]) /\ 0 \in DOMAIN d.ix[t]
  BY DEF Good, Chained
<1>5. d.disk[p].kind = "data"
  BY <1>4, Zenon DEF Fine
<1>6. p \notin L
  BY <1>2, <1>3 DEF Good, Accounted
<1> QED
  BY <1>1, <1>2, <1>3, <1>4, <1>5, <1>6, NoPages DEF Mem

\* The chains do not change with the pages of no tag.
LEMMA GoodChains ==
    ASSUME NEW d, NEW L, Good(d, L), NEW view,
           \A p \in PageNos : Owned(d.ix, p) => view[p] \in {Mem(d)[p], d.disk[p]}
    PROVE  \A t \in Tags : Chained(d.ix[t], view)
<1> TAKE t \in Tags
<1>1. ASSUME NEW v \in DOMAIN d.ix[t] PROVE Fine(d.ix[t], v, view[d.ix[t][v]])
  BY GoodPage
<1>2. DOMAIN d.ix[t] # {} => 0 \in DOMAIN d.ix[t]
  BY DEF Good, Chained
<1> QED
  BY <1>1, <1>2 DEF Chained

\* With an empty cache there is one view.
LEMMA GoodSaved ==
    ASSUME NEW e \in Tables, NEW L, Accounted(e.ix, e.free, e.disk, L), DOMAIN e.dirty = {},
           \A t \in Tags : Chained(e.ix[t], e.disk)
    PROVE  Good(e, L)
BY Clean DEF Good

\* Pages are saved, all or some.
LEMMA GoodFlush ==
    ASSUME NEW d, NEW L, Good(d, L), NEW S \in SUBSET PageNos
    PROVE  LET w == Flush(d, S) IN
           /\ Good(w, L) /\ w.ix = d.ix /\ w.free = d.free /\ Mem(w) = Mem(d)
           /\ \A q \in PageNos : w.disk[q] = IF q \in S THEN Mem(d)[q] ELSE d.disk[q]
<1> DEFINE w == Flush(d, S)
<1>1. /\ w \in Tables /\ w.free = d.free /\ w.ix = d.ix /\ Mem(w) = Mem(d)
      /\ \A q \in PageNos : w.disk[q] = IF q \in S THEN Mem(d)[q] ELSE d.disk[q]
      /\ DOMAIN w.dirty = DOMAIN d.dirty \ S
      /\ \A q \in DOMAIN w.dirty : w.dirty[q] = d.dirty[q]
  BY GoodParts, Flushed
<1> HIDE DEF w
<1>2. SameEnd(d.disk, w.disk)
  BY <1>1, GoodParts DEF SameEnd
<1>3. Accounted(w.ix, w.free, w.disk, L)
  BY <1>1, <1>2, AccountSame DEF Good
<1>4. \A p \in DOMAIN w.dirty : w.dirty[p].kind = "data" /\ w.disk[p] # Absent
  BY <1>1, <1>2, GoodParts DEF Good, SameEnd
<1>5. \A t \in Tags : Chained(w.ix[t], Mem(w))
  BY <1>1 DEF Good
<1>6. \A t \in Tags : Chained(w.ix[t], w.disk)
  BY <1>1, GoodChains
<1> QED
  BY <1>1, <1>3, <1>4, <1>5, <1>6 DEF Good, w

\* A page is taken ...
LEMMA GoodAlloc ==
    ASSUME NEW d, Good(d, {}), NEW a, a = Alloc(d), a.page # Nil
    PROVE  /\ Good(a.d, {a.page}) /\ SamePages(d, a.d) /\ a.d.dirty = d.dirty
           /\ a.page \in PageNos /\ ~Owned(d.ix, a.page) /\ a.d.disk[a.page] # Free
<1>1. /\ a.d \in Tables /\ a.page \in PageNos /\ a.d.dirty = d.dirty /\ a.d.ix = d.ix
      /\ a.d.disk = [d.disk EXCEPT ![a.page] = Taken]
      /\ a.d.disk[a.page] # Free /\ a.d.disk[a.page] # Absent
      /\ ~Owned(d.ix, a.page)
      /\ Accounted(a.d.ix, a.d.free, a.d.disk, {a.page})
  BY AccountTakes DEF Good
<1>2. d.disk \in [PageNos -> Pages]
  BY GoodParts
<1>3. \A q \in PageNos : Owned(d.ix, q) => Mem(a.d)[q] = Mem(d)[q] /\ a.d.disk[q] = d.disk[q]
  BY <1>1, <1>2 DEF Mem, GetPage
<1>4. \A t \in Tags : Chained(a.d.ix[t], Mem(a.d)) /\ Chained(a.d.ix[t], a.d.disk)
  <2> DEFINE view == Mem(a.d)
             there == a.d.disk
  <2>1. \A q \in PageNos : Owned(d.ix, q) => view[q] = Mem(d)[q] /\ there[q] = d.disk[q]
    BY <1>3
  <2> HIDE DEF view, there
  <2>2. \A t \in Tags : Chained(d.ix[t], view) /\ Chained(d.ix[t], there)
    BY <2>1, GoodChains
  <2> QED
    BY <1>1, <2>2 DEF view, there
<1>5. \A p \in DOMAIN a.d.dirty : a.d.dirty[p].kind = "data" /\ a.d.disk[p] # Absent
  BY <1>1, <1>2, GoodParts DEF Good
<1> QED
  BY <1>1, <1>3, <1>4, <1>5 DEF Good, SamePages

\* ... and given back.
LEMMA GoodFree ==
    ASSUME NEW d, NEW L, Good(d, L), NEW p \in L, p \in PageNos, d.disk[p] # Free
    PROVE  LET w == PageFree(d, p) IN
           /\ Good(w, L \ {p}) /\ SamePages(d, w) /\ w.dirty = d.dirty
           /\ \A q \in PageNos \ {p} : w.disk[q] = d.disk[q]
<1> DEFINE w == PageFree(d, p)
<1>1. /\ w \in Tables /\ w.dirty = d.dirty /\ w.ix = d.ix
      /\ w.disk = [d.disk EXCEPT ![p] = Free] /\ SameEnd(w.disk, d.disk)
      /\ Accounted(w.ix, w.free, w.disk, L \ {p})
  BY AccountFrees DEF Good
<1> HIDE DEF w
<1>2. d.disk \in [PageNos -> Pages] /\ ~Owned(d.ix, p) /\ DOMAIN d.dirty \subseteq PageNos
  BY GoodParts DEF Good, Accounted
<1>3. \A q \in PageNos : Owned(d.ix, q) => Mem(w)[q] = Mem(d)[q] /\ w.disk[q] = d.disk[q]
  BY <1>1, <1>2 DEF Mem, GetPage
<1>4. \A t \in Tags : Chained(w.ix[t], Mem(w)) /\ Chained(w.ix[t], w.disk)
  BY <1>1, <1>3, GoodChains
<1>5. \A q \in DOMAIN w.dirty : w.dirty[q].kind = "data" /\ w.disk[q] # Absent
  BY <1>1, <1>2 DEF Good, SameEnd
<1> QED
  BY <1>1, <1>2, <1>3, <1>4, <1>5 DEF Good, SamePages, w

\* A page that a call holds is written to the cache.
LEMMA GoodHeld ==
    ASSUME NEW d, NEW L, Good(d, L), NEW n \in L, n \in PageNos,
           NEW x \in Pages, x.kind = "data"
    PROVE  LET w == WritePage(d, n, x) IN
           /\ Good(w, L) /\ SamePages(d, w) /\ w.free = d.free /\ w.disk = d.disk
           /\ Mem(w) = [Mem(d) EXCEPT ![n] = x]
<1> DEFINE w == WritePage(d, n, x)
<1>1. /\ w \in Tables /\ w.disk = d.disk /\ w.free = d.free /\ w.ix = d.ix
      /\ Mem(w) = [Mem(d) EXCEPT ![n] = x]
      /\ DOMAIN w.dirty = DOMAIN d.dirty \union {n} /\ w.dirty[n] = x
      /\ \A q \in DOMAIN d.dirty \ {n} : w.dirty[q] = d.dirty[q]
  BY GoodParts, Written
<1> HIDE DEF w
<1>2. ~Owned(d.ix, n) /\ d.disk[n] # Absent
  BY DEF Good, Accounted
<1>3. \A q \in PageNos : Owned(d.ix, q) => Mem(w)[q] = Mem(d)[q] /\ w.disk[q] = d.disk[q]
  BY <1>1, <1>2, GoodParts
<1>4. \A t \in Tags : Chained(w.ix[t], Mem(w)) /\ Chained(w.ix[t], w.disk)
  BY <1>1, <1>3, GoodChains
<1>5. \A q \in DOMAIN w.dirty : w.dirty[q].kind = "data" /\ w.disk[q] # Absent
  BY <1>1, <1>2 DEF Good
<1>6. Accounted(w.ix, w.free, w.disk, L)
  BY <1>1 DEF Good
<1> QED
  BY <1>1, <1>3, <1>4, <1>5, <1>6 DEF Good, SamePages, w

\* The chain of one tag was moved and everything was saved.
LEMMA GoodMoved ==
    ASSUME NEW d, NEW K, Good(d, K), NEW t \in Tags, NEW jx \in Indexes,
           NEW e \in Tables, NEW L, DOMAIN e.dirty = {}, e.ix = [d.ix EXCEPT ![t] = jx],
           Accounted(e.ix, e.free, e.disk, L), Chained(jx, e.disk),
           \A u \in Tags \ {t} : \A w \in DOMAIN d.ix[u] : e.disk[d.ix[u][w]] = Mem(d)[d.ix[u][w]]
    PROVE  Good(e, L)
<1>1. ASSUME NEW u \in Tags PROVE Chained(e.ix[u], e.disk)
  <2>1. CASE u = t
    BY <2>1, GoodParts
  <2>2. CASE u # t
    <3>1. e.ix[u] = d.ix[u] /\ Chained(d.ix[u], Mem(d))
      BY <2>2, GoodParts DEF Good
    <3>2. Chained(d.ix[u], e.disk)
      <4> DEFINE view == e.disk
                 seen == Mem(d)
                 ix == d.ix[u]
      <4>1. Chained(ix, seen) /\ \A w \in DOMAIN ix : view[ix[w]] = seen[ix[w]]
        BY <2>2, <3>1
      <4>2. Chained(ix, view)
        <5> HIDE DEF view, seen, ix
        <5> QED
          BY <4>1, ChainKept
      <4> QED
        BY <4>2 DEF view
    <3> QED
      BY <3>1, <3>2
  <2> QED
    BY <2>1, <2>2
<1> QED
  BY <1>1, GoodSaved

\* The neighbours of a page are of its tag.
LEMMA GoodLinks ==
    ASSUME NEW d, NEW L, Good(d, L), NEW t \in Tags, NEW v \in DOMAIN d.ix[t]
    PROVE  LET page == Mem(d)[d.ix[t][v]] IN
           /\ page.next \in PageNos \union {Nil}
           /\ page.next # Nil =>
                \E u \in DOMAIN d.ix[t] : NextTo(d.ix[t], v, u) /\ page.next = d.ix[t][u]
           /\ page.next = Nil => \A u \in DOMAIN d.ix[t] : u <= v
           /\ page.prev \in PageNos \union {Nil}
           /\ page.prev # Nil =>
                \E u \in DOMAIN d.ix[t] : NextTo(d.ix[t], u, v) /\ page.prev = d.ix[t][u]
           /\ page.prev = Nil => v = 0
<1> DEFINE page == Mem(d)[d.ix[t][v]]
<1>1. Fine(d.ix[t], v, page) /\ d.ix[t] \in Indexes
  BY GoodPage
<1> HIDE DEF page
<1>2. \A u \in DOMAIN d.ix[t] : d.ix[t][u] # Nil
  <2>1. \A u \in DOMAIN d.ix[t] : d.ix[t][u] \in PageNos
    BY <1>1, Index
  <2> QED
    BY <2>1, Constants
<1> QED
  BY <1>1, <1>2 DEF Fine, Pages, PrevIs, NextIs, page

\* The records of a page are written.
CanWrite(d, t, v, p, r) ==
    /\ Good(d, {}) /\ t \in Tags /\ v \in DOMAIN d.ix[t] /\ p = d.ix[t][v]
    /\ r \in PageRecs /\ DOMAIN r # {} /\ \A k \in DOMAIN r : Here(d.ix[t], v, k)

IsWritten(d, p, r, w) ==
    /\ Good(w, {}) /\ w.ix = d.ix /\ w.disk = d.disk
    /\ \A q \in PageNos : Mem(w)[q].recs = IF q = p THEN r ELSE Mem(d)[q].recs

\* Records written to a page of a chain, within the range of its index value, leave the
\* table good.
LEMMA GoodWrite ==
    ASSUME NEW d, NEW t, NEW v, NEW p, NEW r, CanWrite(d, t, v, p, r)
    PROVE  IsWritten(d, p, r, WritePage(d, p, [GetPage(d, p) EXCEPT !.recs = r]))
<1> DEFINE x == [Mem(d)[p] EXCEPT !.recs = r]
           w == WritePage(d, p, x)
<1> /\ Good(d, {}) /\ t \in Tags /\ v \in DOMAIN d.ix[t] /\ p = d.ix[t][v]
    /\ r \in PageRecs /\ DOMAIN r # {} /\ \A k \in DOMAIN r : Here(d.ix[t], v, k)
  BY DEF CanWrite
<1>1. /\ p \in PageNos /\ GetPage(d, p) = Mem(d)[p] /\ Owned(d.ix, p)
      /\ Mem(d)[p] \in Pages /\ Mem(d)[p].kind = "data" /\ d.disk[p].kind = "data"
  BY GoodPage DEF Fine
<1>2. x \in Pages /\ x.kind = "data" /\ x.recs = r
  BY <1>1 DEF Pages
<1> HIDE DEF x
<1>3. /\ w \in Tables /\ w.disk = d.disk /\ w.free = d.free /\ w.ix = d.ix
      /\ Mem(w) = [Mem(d) EXCEPT ![p] = x]
      /\ DOMAIN w.dirty = DOMAIN d.dirty \union {p} /\ w.dirty[p] = x
      /\ \A q \in DOMAIN d.dirty \ {p} : w.dirty[q] = d.dirty[q]
  <2>1. d \in Tables
    BY GoodParts
  <2> QED
    BY <1>1, <1>2, <2>1, Written
<1> HIDE DEF w
<1>4. \A q \in PageNos : Mem(w)[q] = IF q = p THEN x ELSE Mem(d)[q]
  BY <1>1, <1>3, GoodParts
<1>5. \A q \in DOMAIN w.dirty : w.dirty[q].kind = "data" /\ w.disk[q] # Absent
  BY <1>1, <1>2, <1>3, NoPages DEF Good
<1>6. Accounted(w.ix, w.free, w.disk, {}) /\ \A u \in Tags : Chained(w.ix[u], w.disk)
  BY <1>3 DEF Good
<1>7. \A u \in Tags : Chained(w.ix[u], Mem(w))
  <2> TAKE u \in Tags
  <2> DEFINE view == Mem(w)
  <2>1. \A y \in DOMAIN d.ix[u] : view[d.ix[u][y]] = IF u = t /\ y = v THEN x ELSE Mem(d)[d.ix[u][y]]
    <3> TAKE y \in DOMAIN d.ix[u]
    <3>1. d.ix[u][y] \in PageNos
      BY GoodPage
    <3>2. d.ix[u][y] = p <=> u = t /\ y = v
      BY DEF Good, Accounted, Distinct
    <3> QED
      BY <1>4, <3>1, <3>2
  <2> HIDE DEF view
  <2>2. Chained(d.ix[u], Mem(d))
    BY DEF Good
  <2>3. Chained(d.ix[u], view)
    <3>1. CASE u = t
      <4>1. view[d.ix[t][v]] = [Mem(d)[d.ix[t][v]] EXCEPT !.recs = r]
        BY <2>1, <3>1 DEF x
      <4>2. \A y \in DOMAIN d.ix[t] \ {v} : view[d.ix[t][y]] = Mem(d)[d.ix[t][y]]
        BY <2>1, <3>1
      <4> QED
        BY <2>2, <3>1, <4>1, <4>2, ChainChanges
    <3>2. CASE u # t
      BY <2>1, <2>2, <3>2, ChainKept
    <3> QED
      BY <3>1, <3>2
  <2> QED
    BY <1>3, <2>3 DEF view
<1>8. Good(w, {})
  BY <1>3, <1>5, <1>6, <1>7, Zenon DEF Good
<1>9. \A q \in PageNos : Mem(w)[q].recs = IF q = p THEN r ELSE Mem(d)[q].recs
  BY <1>2, <1>4
<1>10. IsWritten(d, p, r, w)
  BY <1>3, <1>8, <1>9 DEF IsWritten
<1> QED
  BY <1>1, <1>10, Zenon DEF w, x

\* The index of a tag is changed.
IndexIsSet(d, t, jx, e) ==
    /\ e \in Tables /\ e.disk = d.disk /\ e.dirty = d.dirty /\ e.free = d.free
    /\ e.ix = [d.ix EXCEPT ![t] = jx] /\ Mem(e) = Mem(d)

\* Replacing the index of one tag replaces nothing else.
LEMMA IndexSet ==
    ASSUME NEW d \in Tables, NEW t \in Tags, NEW jx \in Indexes
    PROVE  IndexIsSet(d, t, jx, [d EXCEPT !.ix[t] = jx])
<1> USE DEF IndexIsSet
<1> DEFINE e == [d EXCEPT !.ix[t] = jx]
<1>1. [d.ix EXCEPT ![t] = jx] \in [Tags -> Indexes]
  BY DEF Tables
<1>2. /\ e \in Tables /\ e.disk = d.disk /\ e.dirty = d.dirty /\ e.free = d.free
      /\ e.ix = [d.ix EXCEPT ![t] = jx]
  BY <1>1 DEF Tables
<1> HIDE DEF e
<1>3. Mem(e) = Mem(d)
  BY <1>2 DEF Mem, GetPage
<1> QED
  BY <1>2, <1>3 DEF e

IsInserted(ix, x, n, jx) ==
    /\ jx \in Indexes /\ DOMAIN jx = DOMAIN ix \union {x} /\ jx[x] = n
    /\ \A w \in DOMAIN ix \ {x} : jx[w] = ix[w]

\* InsertIdx adds one index value and leaves the others where they were.
LEMMA Inserted ==
    ASSUME NEW ix \in Indexes, NEW x \in {0} \union Keys, NEW n \in PageNos
    PROVE  IsInserted(ix, x, n, InsertIdx(ix, x, n))
BY Index DEF InsertIdx, IsInserted

\* DelIdxRec drops one index value and leaves the others where they were.
LEMMA Dropped ==
    ASSUME NEW ix \in Indexes, NEW v \in DOMAIN ix
    PROVE  LET jx == DelIdxRec(ix, v, ix[v]) IN
           /\ jx \in Indexes /\ DOMAIN jx = DOMAIN ix \ {v}
           /\ \A w \in DOMAIN jx : jx[w] = ix[w]
<1> DEFINE jx == DelIdxRec(ix, v, ix[v])
<1>1. DOMAIN jx = DOMAIN ix \ {v} /\ \A w \in DOMAIN jx : jx[w] = ix[w]
  BY DEF DelIdxRec
<1>2. jx = [w \in DOMAIN jx |-> jx[w]]
  BY DEF DelIdxRec
<1> HIDE DEF jx
<1>3. jx \in Indexes
  BY <1>1, <1>2, Index
<1> QED
  BY <1>1, <1>3 DEF jx

\* A new tag gets its first page, or nothing changes.
IsNew(d, t, r, o) ==
    \/ o.ok = FALSE /\ SamePages(d, o.d)
    \/ /\ o.ok = TRUE
       /\ \E n \in PageNos :
            /\ ~Owned(d.ix, n) /\ o.d.ix = [d.ix EXCEPT ![t] = InsertIdx(d.ix[t], 0, n)]
            /\ Mem(o.d)[n].recs = r /\ o.d.disk[n].recs = r
            /\ \A q \in PageNos : Owned(d.ix, q) =>
                 Mem(o.d)[q] = Mem(d)[q] /\ o.d.disk[q] = d.disk[q]

\* The first insert of a tag, with or without a free page left for it, leaves the table
\* good.
LEMMA GoodNew ==
    ASSUME NEW d, Good(d, {}), NEW t \in Tags, DOMAIN d.ix[t] = {},
           NEW r \in PageRecs, DOMAIN r # {}, NEW o \in NewTag(d, t, r)
    PROVE  Good(o.d, {}) /\ IsNew(d, t, r, o)
<1> DEFINE a == Alloc(d)
           n == a.page
           x == Page(0, Nil, Nil, r)
           w == WritePage(a.d, n, x)
           jx == InsertIdx(d.ix[t], 0, n)
           f == Flush(w, {n})
           s == [f EXCEPT !.ix[t] = InsertIdx(@, 0, n)]
<1>1. CASE n = Nil
  <2>1. o = Failed(d)
    BY <1>1 DEF NewTag
  <2> QED
    BY <2>1 DEF Failed, SamePages, IsNew
<1>2. CASE n # Nil
  <2>1. o = Done(s) \/ o = Failed(PageFree(w, n))
    BY <1>2 DEF NewTag
  <2>2. /\ Good(a.d, {n}) /\ SamePages(d, a.d) /\ n \in PageNos /\ ~Owned(d.ix, n)
        /\ a.d.disk[n] # Free
    BY <1>2, GoodAlloc
  <2>3. x \in Pages /\ x.kind = "data" /\ x.recs = r
    BY DEF Page, Pages
  <2> HIDE DEF a, x
  <2>4. /\ Good(w, {n}) /\ SamePages(a.d, w) /\ w.disk = a.d.disk
        /\ Mem(w) = [Mem(a.d) EXCEPT ![n] = x]
    BY <2>2, <2>3, GoodHeld
  <2>5. SamePages(d, w) /\ w.ix = d.ix
    BY <2>2, <2>4 DEF SamePages
  <2> HIDE DEF w
  <2>6. Good(PageFree(w, n), {}) /\ SamePages(w, PageFree(w, n))
    <3>1. w.disk[n] # Free /\ {n} \ {n} = {}
      BY <2>2, <2>4
    <3>2. n \in {n}
      OBVIOUS
    <3> QED
      BY <2>2, <2>4, <3>1, <3>2, GoodFree
  <2>7. SamePages(d, PageFree(w, n))
    BY <2>5, <2>6 DEF SamePages
  <2>8. /\ Good(f, {n}) /\ f.ix = d.ix /\ Mem(f) = Mem(w)
        /\ \A q \in PageNos : f.disk[q] = IF q = n THEN Mem(w)[q] ELSE w.disk[q]
    <3>1. {n} \in SUBSET PageNos
      BY <2>2
    <3>2. /\ Good(f, {n}) /\ f.ix = w.ix /\ Mem(f) = Mem(w)
          /\ \A q \in PageNos : f.disk[q] = IF q \in {n} THEN Mem(w)[q] ELSE w.disk[q]
      <4>1. Good(w, {n})
        BY <2>4
      <4> HIDE DEF w
      <4> QED
        BY <3>1, <4>1, GoodFlush
    <3> QED
      BY <2>5, <3>2
  <2>9. f \in Tables /\ d.ix \in [Tags -> Indexes] /\ Mem(a.d) \in [PageNos -> Pages]
    BY <2>2, <2>8, GoodParts
  <2> HIDE DEF f
  <2>10. jx \in Indexes /\ DOMAIN jx = {0} /\ jx[0] = n
    BY <2>2, <2>9, Inserted DEF IsInserted
  <2>11. s = [f EXCEPT !.ix[t] = jx]
    BY <2>8, <2>9 DEF Tables
  <2>12. /\ s \in Tables /\ s.disk = f.disk /\ s.dirty = f.dirty /\ s.free = f.free
         /\ s.ix = [d.ix EXCEPT ![t] = jx] /\ Mem(s) = Mem(f)
    BY <2>8, <2>9, <2>10, <2>11, IndexSet DEF IndexIsSet
  <2> HIDE DEF s
  <2>13. Mem(s)[n] = x /\ s.disk[n] = x
    BY <2>2, <2>4, <2>8, <2>9, <2>12
  <2>14. \A q \in PageNos : Owned(d.ix, q) => Mem(s)[q] = Mem(d)[q] /\ s.disk[q] = d.disk[q]
    <3> TAKE q \in PageNos
    <3> HAVE Owned(d.ix, q)
    <3>1. q # n /\ Mem(w)[q] = Mem(d)[q] /\ w.disk[q] = d.disk[q]
      BY <2>2, <2>5 DEF SamePages
    <3> QED
      BY <2>8, <2>12, <3>1
  <2>15. Accounted(s.ix, s.free, s.disk, {})
    <3>1. Accounted(d.ix, f.free, f.disk, {n}) /\ DOMAIN d.ix = Tags
      BY <2>8, <2>9 DEF Good
    <3> HIDE DEF jx
    <3> QED
      BY <2>2, <2>10, <2>12, <3>1, AccountGrows
  <2>16. \A q \in DOMAIN s.dirty : s.dirty[q].kind = "data" /\ s.disk[q] # Absent
    BY <2>8, <2>12 DEF Good
  <2>17. ASSUME NEW u \in Tags PROVE Chained(s.ix[u], Mem(s)) /\ Chained(s.ix[u], s.disk)
    <3>1. CASE u = t
      <4>1. s.ix[u] = jx
        BY <2>9, <2>12, <3>1
      <4> HIDE DEF jx
      <4>2. Chained(jx, Mem(s))
        BY <2>2, <2>10, <2>13, ChainFirst DEF x
      <4>3. Chained(jx, s.disk)
        BY <2>2, <2>10, <2>13, ChainFirst DEF x
      <4> QED
        BY <4>1, <4>2, <4>3
    <3>2. CASE u # t
      <4>1. s.ix[u] = f.ix[u]
        BY <2>8, <2>9, <2>12, <3>2
      <4> QED
        BY <2>8, <2>12, <4>1 DEF Good
    <3> QED
      BY <3>1, <3>2
  <2>18. Good(s, {})
    BY <2>12, <2>15, <2>16, <2>17 DEF Good
  <2>19. CASE o = Done(s)
    <3>1. o.d = s /\ o.ok = TRUE
      BY <2>19 DEF Done
    <3> QED
      BY <2>2, <2>3, <2>12, <2>13, <2>14, <2>18, <3>1 DEF IsNew
  <2>20. CASE o = Failed(PageFree(w, n))
    <3>1. o.d = PageFree(w, n) /\ o.ok = FALSE
      BY <2>20 DEF Failed
    <3> QED
      BY <2>6, <2>7, <3>1 DEF IsNew
  <2> QED
    BY <2>1, <2>19, <2>20
<1> QED
  BY <1>1, <1>2

\* A page of a tag is split: the records from x on go to the page n behind it.
Split(d, t, p, n, x, r1, r2) ==
    LET old == GetPage(d, p)
        e1 == WritePage(FlushAll(d), n, Page(x, p, old.next, r2))
        e2 == SetPrev(e1, old.next, n)
        e3 == WritePage(e2, p, [old EXCEPT !.next = n, !.recs = r1])
    IN  [FlushAll(e3) EXCEPT !.ix[t] = InsertIdx(@, x, n)]

CanSplit(d, t, v, p, n, x, r1, r2) ==
    /\ n \in PageNos /\ Good(d, {n}) /\ t \in Tags /\ p = d.ix[t][v]
    /\ x \in Keys /\ Halves(d.ix[t], v, x, r1, r2)

IsSplit(d, t, p, n, x, r1, r2, s) ==
    /\ Good(s, {}) /\ DOMAIN s.dirty = {}
    /\ s.ix = [d.ix EXCEPT ![t] = InsertIdx(d.ix[t], x, n)]
    /\ \A q \in PageNos :
         s.disk[q].recs = IF q = n THEN r2 ELSE IF q = p THEN r1 ELSE Mem(d)[q].recs

\* Splitting a page of a chain over a page just taken leaves the table good, both halves
\* on disk.
LEMMA GoodSplit ==
    ASSUME NEW d, NEW t, NEW v, NEW p, NEW n, NEW x, NEW r1, NEW r2,
           CanSplit(d, t, v, p, n, x, r1, r2)
    PROVE  IsSplit(d, t, p, n, x, r1, r2, Split(d, t, p, n, x, r1, r2))
<1> DEFINE ix == d.ix[t]
           V == Mem(d)
           old == V[p]
           nx == old.next
           z == Page(x, p, nx, r2)
           y == [old EXCEPT !.next = n, !.recs = r1]
           f == FlushAll(d)
           e1 == WritePage(f, n, z)
           e2 == SetPrev(e1, nx, n)
           e3 == WritePage(e2, p, y)
           e4 == FlushAll(e3)
           jx == InsertIdx(ix, x, n)
           s == Split(d, t, p, n, x, r1, r2)
<1> USE DEF CanSplit
<1>0. v \in DOMAIN d.ix[t] /\ Here(ix, v, x) /\ v < x /\ r1 \in PageRecs /\ r2 \in PageRecs
  BY DEF Halves
<1>1. /\ ix \in Indexes /\ IsInjective(ix) /\ p \in PageNos /\ p # n /\ GetPage(d, p) = old
      /\ Fine(ix, v, old) /\ old \in Pages /\ old.kind = "data" /\ Owned(d.ix, p)
  BY <1>0, GoodPage DEF Fine
<1>2. /\ nx \in PageNos \union {Nil} /\ v \in Nat
      /\ nx # Nil => \E u \in DOMAIN ix : NextTo(ix, v, u) /\ nx = ix[u]
  <2>1. v \in Nat
    BY <1>0, <1>1, ValueHere
  <2>2. v \in DOMAIN d.ix[t] /\ Good(d, {n})
    BY <1>0
  <2> QED
    BY <2>1, <2>2, GoodLinks
<1>3. nx # n /\ nx # p /\ (nx # Nil => V[nx].kind = "data" /\ d.disk[nx].kind = "data")
  <2>1. CASE nx = Nil
    BY <1>1, <2>1, Constants
  <2>2. ASSUME NEW u \in DOMAIN ix, NextTo(ix, v, u), nx = ix[u]
        PROVE  nx # n /\ nx # p /\ V[nx].kind = "data" /\ d.disk[nx].kind = "data"
    <3>1. u # v
      BY <1>2, <2>2 DEF NextTo
    <3> QED
      <4>1. /\ nx # n /\ Fine(ix, u, V[nx]) /\ Fine(ix, u, d.disk[nx])
        BY <2>2, GoodPage
      <4>2. nx # p
        BY <1>0, <1>1, <2>2, <3>1 DEF IsInjective
      <4> QED
        BY <4>1, <4>2, Zenon DEF Fine
  <2> QED
    BY <1>2, <2>1, <2>2
<1>4. s = [e4 EXCEPT !.ix[t] = InsertIdx(@, x, n)]
  BY <1>1 DEF Split
<1> HIDE DEF s
<1>5. z \in Pages /\ z.kind = "data" /\ z.recs = r2 /\ x \in Nat
  <2>1. x \in Nat
    BY Constants
  <2> QED
    BY <1>0, <1>1, <1>2, <2>1 DEF Page, Pages
<1>6. y \in Pages /\ y.kind = "data" /\ y.recs = r1
  BY <1>0, <1>1 DEF Pages
<1>7. V \in [PageNos -> Pages] /\ d \in Tables /\ d.ix \in [Tags -> Indexes]
  BY GoodParts
<1> HIDE DEF ix, V, z, y, nx
<1>8. /\ f \in Tables /\ f.free = d.free /\ f.ix = d.ix /\ Mem(f) = V
  BY <1>7, AllFlushed DEF V
<1> HIDE DEF f
<1>9. /\ e1 \in Tables /\ e1.free = d.free /\ e1.ix = d.ix /\ Mem(e1) = [V EXCEPT ![n] = z]
  BY <1>5, <1>8, Written
<1> HIDE DEF e1
<1>10. /\ e2 \in Tables /\ e2.free = d.free /\ e2.ix = d.ix
       /\ Mem(e2) = IF nx = Nil THEN Mem(e1) ELSE [Mem(e1) EXCEPT ![nx].prev = n]
  <2>1. n \in PageNos \union {Nil}
    OBVIOUS
  <2>2. nx \in PageNos \union {Nil} /\ e1 \in Tables
    BY <1>2, <1>9
  <2>3. PrevIsSet(e1, nx, n, e2)
    BY <2>1, <2>2, PrevSet
  <2> QED
    BY <1>9, <2>3 DEF PrevIsSet
<1> HIDE DEF e2
<1>11. /\ e3 \in Tables /\ e3.free = d.free /\ e3.ix = d.ix /\ Mem(e3) = [Mem(e2) EXCEPT ![p] = y]
  <2>1. p \in PageNos /\ y \in Pages /\ e2 \in Tables
    BY <1>1, <1>6, <1>10
  <2>2. /\ e3 \in Tables /\ e3.free = e2.free /\ e3.ix = e2.ix /\ Mem(e3) = [Mem(e2) EXCEPT ![p] = y]
    BY <2>1, Written
  <2> QED
    BY <1>10, <2>2
<1> HIDE DEF e3
<1>12. /\ e4 \in Tables /\ e4.free = d.free /\ e4.ix = d.ix /\ e4.disk = Mem(e3) /\ DOMAIN e4.dirty = {}
  BY <1>11, AllFlushed
<1> HIDE DEF e4
<1>13. /\ jx \in Indexes /\ DOMAIN jx = DOMAIN ix \union {x} /\ jx[x] = n
       /\ \A w \in DOMAIN ix \ {x} : jx[w] = ix[w]
  BY <1>1, Inserted DEF IsInserted
<1>14. x \notin DOMAIN ix
  BY <1>0, <1>1, <1>2, <1>5 DEF Here, ix
<1>15. s = [e4 EXCEPT !.ix[t] = jx]
  BY <1>4, <1>7, <1>12 DEF ix, Tables
<1>16. /\ s \in Tables /\ s.disk = Mem(e3) /\ DOMAIN s.dirty = {} /\ s.free = d.free
       /\ s.ix = [d.ix EXCEPT ![t] = jx]
  BY <1>12, <1>13, <1>15, IndexSet DEF IndexIsSet
<1>17. /\ s.disk[n] = z /\ s.disk[p] = y
       /\ \A q \in PageNos \ {n, p} : s.disk[q] = IF q = nx THEN [V[q] EXCEPT !.prev = n] ELSE V[q]
  <2>1. DOMAIN Mem(e2) = PageNos /\ DOMAIN Mem(e1) = PageNos
    BY DEF Mem
  <2>2. s.disk[p] = y /\ \A q \in PageNos \ {p} : s.disk[q] = Mem(e2)[q]
    BY <1>1, <1>11, <1>16, <2>1
  <2>3. \A q \in PageNos : q # nx => Mem(e2)[q] = Mem(e1)[q]
    BY <1>10, <2>1
  <2>4. nx # Nil => Mem(e2)[nx] = [Mem(e1)[nx] EXCEPT !.prev = n]
    BY <1>2, <1>10, <2>1
  <2>5. Mem(e1)[n] = z /\ \A q \in PageNos \ {n} : Mem(e1)[q] = V[q]
    BY <1>7, <1>9
  <2> QED
    BY <1>1, <1>2, <1>3, <2>2, <2>3, <2>4, <2>5, Constants
<1>18. SameEnd(d.disk, s.disk)
  <2>1. ASSUME NEW q \in PageNos PROVE d.disk[q] = Absent <=> s.disk[q] = Absent
    <3>1. CASE q = n
      BY <1>5, <1>17, <3>1, NoPages DEF Good, Accounted
    <3>2. CASE q = p
      <4>1. d.disk[p].kind = "data"
        BY <1>0, GoodPage DEF Fine, ix
      <4> QED
        BY <1>6, <1>17, <3>2, <4>1, NoPages
    <3>3. CASE q = nx /\ q \notin {n, p}
      <4>1. s.disk[q] = [V[q] EXCEPT !.prev = n] /\ V[q] \in Pages
        BY <1>7, <1>17, <3>3
      <4>2. s.disk[q].kind = V[q].kind
        BY <4>1 DEF Pages
      <4>3. V[q].kind = "data" /\ d.disk[q].kind = "data"
        BY <1>3, <3>3, Constants
      <4> QED
        BY <4>2, <4>3, NoPages
    <3>4. CASE q \notin {n, p, nx}
      <4>1. s.disk[q] = V[q]
        BY <1>17, <3>4
      <4>2. V[q] = Absent <=> d.disk[q] = Absent
        BY GoodParts DEF SameEnd, V
      <4> QED
        BY <4>1, <4>2
    <3> QED
      BY <3>1, <3>2, <3>3, <3>4
  <2> QED
    BY <2>1 DEF SameEnd
<1>19. Accounted(s.ix, s.free, s.disk, {})
  <2>1. Accounted(d.ix, s.free, s.disk, {n}) /\ DOMAIN d.ix = Tags
    BY <1>7, <1>16, <1>18, AccountSame DEF Good
  <2> HIDE DEF jx
  <2> QED
    BY <1>13, <1>14, <1>16, <2>1, AccountGrows DEF ix
<1>20. \A u \in Tags : \A w \in DOMAIN d.ix[u] :
         /\ d.ix[u][w] \in PageNos /\ d.ix[u][w] # n
         /\ d.ix[u][w] = p => u = t /\ w = v
         /\ d.ix[u][w] = nx => u = t
  <2> TAKE u \in Tags
  <2> TAKE w \in DOMAIN d.ix[u]
  <2>1. d.ix[u][w] \in PageNos /\ d.ix[u][w] # n
    BY GoodPage
  <2>2. Distinct(d.ix)
    BY DEF Good, Accounted
  <2>3. d.ix[u][w] = p => u = t /\ w = v
    BY <1>0, <2>2 DEF Distinct, ix
  <2>4. d.ix[u][w] = nx => u = t
    <3>1. nx # Nil => \E c \in DOMAIN d.ix[t] : nx = d.ix[t][c]
      BY <1>2 DEF ix
    <3>2. d.ix[u][w] # Nil
      BY <2>1, Constants
    <3> QED
      BY <2>2, <3>1, <3>2 DEF Distinct
  <2> QED
    BY <2>1, <2>3, <2>4
<1>21. Chained(jx, s.disk)
  <2> DEFINE new == s.disk
  <2>1. Chained(ix, V)
    BY DEF Good, ix, V
  <2>2. Halves(ix, v, x, r1, r2) /\ p = ix[v] /\ v \in DOMAIN ix
    BY <1>0 DEF ix
  <2>3. \A w \in DOMAIN ix : ix[w] # n
    BY <1>20 DEF ix
  <2>4. new[n] = Page(x, ix[v], nx, r2) /\ new[ix[v]] = [V[ix[v]] EXCEPT !.next = n, !.recs = r1]
    BY <1>17, <2>2 DEF z, y
  <2>5. \A w \in DOMAIN ix \ {v} :
          new[ix[w]] = IF ix[w] = nx THEN [V[ix[w]] EXCEPT !.prev = n] ELSE V[ix[w]]
    <3> TAKE w \in DOMAIN ix \ {v}
    <3>1. ix[w] \in PageNos \ {n, p}
      BY <1>20 DEF ix
    <3> QED
      BY <1>17, <3>1
  <2>6. nx = V[ix[v]].next
    BY <2>2 DEF nx
  <2> HIDE DEF new, jx
  <2>7. Chained(InsertIdx(ix, x, n), new)
    <3>1. Grows(ix, V, new, v, x, n, r1, r2)
      BY <1>1, <1>5, <2>1, <2>2, <2>3, <2>4, <2>5, <2>6 DEF Grows
    <3> QED
      BY <3>1, ChainGrows
  <2> QED
    BY <2>7 DEF new, jx
<1>22. \A u \in Tags \ {t} : \A w \in DOMAIN d.ix[u] : s.disk[d.ix[u][w]] = Mem(d)[d.ix[u][w]]
  <2> TAKE u \in Tags \ {t}
  <2> TAKE w \in DOMAIN d.ix[u]
  <2>1. d.ix[u][w] \in PageNos \ {n, p} /\ d.ix[u][w] # nx
    BY <1>20
  <2> QED
    BY <1>17, <2>1 DEF V
<1>23. Good(s, {})
  <2> HIDE DEF jx
  <2> QED
    BY <1>13, <1>16, <1>19, <1>21, <1>22, GoodMoved
<1>24. \A q \in PageNos : s.disk[q].recs = IF q = n THEN r2 ELSE IF q = p THEN r1 ELSE V[q].recs
  <2> TAKE q \in PageNos
  <2>1. V[q] \in Pages
    BY <1>7
  <2>2. [V[q] EXCEPT !.prev = n].recs = V[q].recs
    BY <2>1 DEF Pages
  <2> QED
    BY <1>1, <1>5, <1>6, <1>17, <2>2
<1> QED
  BY <1>16, <1>23, <1>24 DEF V, jx, ix, s, IsSplit

\* The page with value v left the chain of tag t, the one with value u in front
\* of it has the records r, everything was saved; the page is of the free chain
\* or held by the call.
Shrunk(d, t, u, v, r, e, L) ==
    LET ix == d.ix[t]
        V == Mem(d)
        nx == V[ix[v]].next
    IN  /\ u \in DOMAIN ix /\ v \in DOMAIN ix /\ NextTo(ix, u, v)
        /\ r \in PageRecs /\ DOMAIN r # {} /\ \A k \in DOMAIN r : Here(ix, u, k) \/ Here(ix, v, k)
        /\ e \in Tables /\ DOMAIN e.dirty = {}
        /\ e.ix = [d.ix EXCEPT ![t] = DelIdxRec(ix, v, ix[v])]
        /\ \/ e.free = d.free /\ L = {ix[v]}
           \/ e.free = <<ix[v]>> \o d.free /\ L = {}
        /\ e.disk[ix[u]] = Page(u, V[ix[u]].prev, nx, r) /\ e.disk[ix[v]] # Absent
        /\ \A q \in PageNos \ {ix[u], ix[v]} :
             e.disk[q] = IF q = nx THEN [V[q] EXCEPT !.prev = ix[u]] ELSE V[q]

\* A page in transit that is put on the free list is accounted for again.
LEMMA AccountPush ==
    ASSUME NEW ixs, NEW f \in Seq(PageNos), NEW a, NEW L, Accounted(ixs, f, a, L),
           NEW p \in L, p \in PageNos
    PROVE  Accounted(ixs, <<p>> \o f, a, L \ {p})
<1> DEFINE g == <<p>> \o f
<1>1. p \notin ToSet(f) /\ ~Owned(ixs, p) /\ a[p] # Absent /\ IsInjective(f)
  BY DEF Accounted
<1>2. ToSet(g) = {p} \union ToSet(f) /\ IsInjective(g)
  BY <1>1, ChainPushes
<1> HIDE DEF g
<1>3. Accounted(ixs, g, a, L \ {p})
  BY <1>1, <1>2 DEF Accounted
<1> QED
  BY <1>3 DEF g

\* Unlinking a page of a chain leaves the table good but for the page itself, which is
\* then in transit.
LEMMA GoodShrinks ==
    ASSUME NEW d, Good(d, {}), NEW t \in Tags, NEW u, NEW v, NEW r, NEW e, NEW L,
           Shrunk(d, t, u, v, r, e, L)
    PROVE  /\ Good(e, L)
           /\ \A q \in PageNos \ {d.ix[t][v]} :
                e.disk[q].recs = IF q = d.ix[t][u] THEN r ELSE Mem(d)[q].recs
<1> DEFINE ix == d.ix[t]
           V == Mem(d)
           nx == V[ix[v]].next
           jx == DelIdxRec(ix, v, ix[v])
<1>1. u \in DOMAIN ix /\ v \in DOMAIN ix /\ NextTo(ix, u, v)
  BY DEF Shrunk
<1>2. r \in PageRecs /\ DOMAIN r # {} /\ \A k \in DOMAIN r : Here(ix, u, k) \/ Here(ix, v, k)
  BY DEF Shrunk
<1>3. /\ e \in Tables /\ DOMAIN e.dirty = {} /\ e.ix = [d.ix EXCEPT ![t] = jx]
      /\ \/ e.free = d.free /\ L = {ix[v]}
         \/ e.free = <<ix[v]>> \o d.free /\ L = {}
  BY DEF Shrunk
<1>4. /\ e.disk[ix[u]] = Page(u, V[ix[u]].prev, nx, r) /\ e.disk[ix[v]] # Absent
      /\ \A q \in PageNos \ {ix[u], ix[v]} :
           e.disk[q] = IF q = nx THEN [V[q] EXCEPT !.prev = ix[u]] ELSE V[q]
  BY DEF Shrunk
<1>5. /\ ix \in Indexes /\ IsInjective(ix) /\ ix[u] \in PageNos /\ ix[v] \in PageNos
      /\ Fine(ix, u, V[ix[u]]) /\ Fine(ix, v, V[ix[v]])
      /\ d.disk[ix[u]].kind = "data" /\ d.disk[ix[v]].kind = "data"
  BY <1>1, GoodPage DEF Fine
<1>6. u # v /\ u \in Nat /\ v \in Nat
  <2>1. u \in Nat /\ v \in Nat
    BY <1>1, <1>5, ValueHere
  <2> QED
    BY <1>1, <2>1 DEF NextTo
<1>7. nx # Nil => \E c \in DOMAIN ix : NextTo(ix, v, c) /\ nx = ix[c]
  BY <1>1, GoodLinks
<1>8. V \in [PageNos -> Pages] /\ d.ix \in [Tags -> Indexes] /\ SameEnd(V, d.disk) /\ d \in Tables
  BY GoodParts
<1>9. /\ jx \in Indexes /\ DOMAIN jx = DOMAIN ix \ {v}
      /\ \A w \in DOMAIN jx : jx[w] = ix[w]
  BY <1>1, <1>5, Dropped
<1>10. nx # Nil => V[nx].kind = "data"
  <2>1. \A c \in DOMAIN ix : V[ix[c]].kind = "data"
    BY GoodPage DEF Fine
  <2> QED
    BY <1>7, <2>1
<1>11. Distinct(d.ix) /\ Accounted(d.ix, d.free, d.disk, {}) /\ Chained(ix, V)
  BY DEF Good, Accounted
<1>12. \A s \in Tags : \A w \in DOMAIN d.ix[s] : d.ix[s][w] \in PageNos
  BY GoodPage
<1>13. \A s \in Tags \ {t} : \A w \in DOMAIN d.ix[s] : d.ix[s][w] \notin {ix[u], ix[v], nx}
  <2> TAKE s \in Tags \ {t}
  <2> TAKE w \in DOMAIN d.ix[s]
  <2>1. d.ix[s][w] # Nil
    BY <1>12, Constants
  <2>2. \A c \in DOMAIN ix : d.ix[s][w] # ix[c]
    BY <1>11 DEF Distinct
  <2> QED
    BY <1>1, <1>7, <2>1, <2>2
<1> HIDE DEF V, nx, jx, ix
<1>14. SameEnd(d.disk, e.disk)
  <2> SUFFICES ASSUME NEW q \in PageNos PROVE d.disk[q] = Absent <=> e.disk[q] = Absent
    BY DEF SameEnd
  <2>1. CASE q = ix[v]
    BY <1>4, <1>5, <2>1, NoPages
  <2>2. CASE q = ix[u]
    <3>1. e.disk[q].kind = "data"
      BY <1>4, <2>2 DEF Page
    <3> QED
      BY <1>5, <2>2, <3>1, NoPages
  <2>3. CASE q = nx /\ q \notin {ix[u], ix[v]}
    <3>1. e.disk[q] = [V[q] EXCEPT !.prev = ix[u]] /\ V[q] \in Pages /\ V[q].kind = "data"
      BY <1>4, <1>8, <1>10, <2>3, Constants
    <3>2. e.disk[q].kind = "data"
      BY <3>1 DEF Pages
    <3> QED
      BY <1>8, <3>1, <3>2, NoPages DEF SameEnd
  <2>4. CASE q \notin {ix[u], ix[v], nx}
    BY <1>4, <1>8, <2>4 DEF SameEnd
  <2> QED
    BY <2>1, <2>2, <2>3, <2>4
<1>15. Accounted(e.ix, d.free, e.disk, {ix[v]})
  <2>1. DOMAIN ix \ DOMAIN jx = {v}
    BY <1>1, <1>9
  <2>2. {ix[c] : c \in DOMAIN ix \ DOMAIN jx} = {ix[v]}
    BY <2>1
  <2>3. DOMAIN d.ix = Tags /\ DOMAIN jx \subseteq DOMAIN d.ix[t] /\ \A w \in DOMAIN jx : jx[w] = d.ix[t][w]
    BY <1>8, <1>9 DEF ix
  <2>4. Accounted([d.ix EXCEPT ![t] = jx], d.free, d.disk, {d.ix[t][c] : c \in DOMAIN d.ix[t] \ DOMAIN jx})
    BY <1>11, <2>3, AccountShrinks
  <2>5. Accounted(e.ix, d.free, d.disk, {ix[v]})
    BY <1>3, <2>2, <2>4 DEF ix
  <2> QED
    BY <1>14, <2>5, AccountSame
<1>16. Accounted(e.ix, e.free, e.disk, L)
  <2>1. CASE e.free = d.free /\ L = {ix[v]}
    BY <1>15, <2>1
  <2>2. CASE e.free = <<ix[v]>> \o d.free /\ L = {}
    <3>1. d.free \in Seq(PageNos)
      BY <1>8 DEF Tables
    <3>2. {ix[v]} \ {ix[v]} = {} /\ ix[v] \in {ix[v]}
      OBVIOUS
    <3>3. Accounted(e.ix, <<ix[v]>> \o d.free, e.disk, {ix[v]} \ {ix[v]})
      BY <1>5, <1>15, <3>1, <3>2, AccountPush
    <3> QED
      BY <2>2, <3>2, <3>3
  <2> QED
    BY <1>3, <2>1, <2>2
<1>17. Chained(jx, e.disk)
  <2> DEFINE new == e.disk
  <2>1. \A w \in DOMAIN ix \ {u, v} :
          new[ix[w]] = IF ix[w] = nx THEN [V[ix[w]] EXCEPT !.prev = ix[u]] ELSE V[ix[w]]
    <3> TAKE w \in DOMAIN ix \ {u, v}
    <3>1. ix[w] \in PageNos \ {ix[u], ix[v]}
      BY <1>1, <1>5, <1>12 DEF IsInjective, ix
    <3> QED
      BY <1>4, <3>1
  <2>2. new[ix[u]] = Page(u, V[ix[u]].prev, V[ix[v]].next, r)
    BY <1>4 DEF nx
  <2> HIDE DEF new
  <2>3. Shrinks(ix, V, new, u, v, r)
    BY <1>1, <1>2, <1>5, <1>11, <2>1, <2>2 DEF Shrinks, nx
  <2>4. Chained(jx, new)
    BY <2>3, ChainShrinks DEF jx
  <2> QED
    BY <2>4 DEF new
<1>18. \A s \in Tags \ {t} : \A w \in DOMAIN d.ix[s] : e.disk[d.ix[s][w]] = Mem(d)[d.ix[s][w]]
  <2> TAKE s \in Tags \ {t}
  <2> TAKE w \in DOMAIN d.ix[s]
  <2>1. d.ix[s][w] \in PageNos \ {ix[u], ix[v]} /\ d.ix[s][w] # nx
    BY <1>12, <1>13
  <2> QED
    BY <1>4, <2>1 DEF V
<1>19. Good(e, L)
  BY <1>3, <1>9, <1>16, <1>17, <1>18, GoodMoved
<1>20. \A q \in PageNos \ {ix[v]} : e.disk[q].recs = IF q = ix[u] THEN r ELSE V[q].recs
  <2> TAKE q \in PageNos \ {ix[v]}
  <2>1. V[q] \in Pages
    BY <1>8
  <2>2. [V[q] EXCEPT !.prev = ix[u]].recs = V[q].recs
    BY <2>1 DEF Pages
  <2>3. CASE q = ix[u]
    BY <1>4, <2>3 DEF Page
  <2>4. CASE q # ix[u]
    BY <1>4, <2>2, <2>4
  <2> QED
    BY <2>3, <2>4
<1> QED
  BY <1>19, <1>20 DEF V, ix

\* The second page takes the place of the first; the call holds its number.
LEMMA GoodReuse ==
    ASSUME NEW d, Good(d, {}), NEW t \in Tags, DOMAIN d.ix[t] # {}, NEW exclude,
           NEW a \in Reuse(d, t, exclude)
    PROVE  \E v \in DOMAIN d.ix[t] :
             /\ 0 \in DOMAIN d.ix[t] /\ NextTo(d.ix[t], 0, v)
             /\ a.page = d.ix[t][v] /\ a.page # exclude /\ a.page # Nil
             /\ Shrunk(d, t, 0, v, Mem(d)[a.page].recs, a.d, {a.page})
             /\ a.d.disk[a.page] # Free
<1> DEFINE ix == d.ix[t]
           V == Mem(d)
           root == ix[0]
           second == V[root].next
           p2 == V[second]
           nx == p2.next
           f == FlushAll(d)
           moved == SetPrev(f, nx, root)
           x == Page(V[root].idxval, Nil, nx, p2.recs)
           written == WritePage(moved, root, x)
           rest == RemovePage(written, second)
           saved == FlushAll(rest)
<1>1. /\ 0 \in DOMAIN ix /\ ix \in Indexes /\ root \in PageNos /\ GetPage(d, root) = V[root]
      /\ Fine(ix, 0, V[root]) /\ IsInjective(ix)
  <2>1. 0 \in DOMAIN ix
    BY DEF Good, Chained
  <2> QED
    BY <2>1, GoodPage
<1>2. V[root].idxval = 0 /\ V[root].prev = Nil
  <2>1. \A u \in DOMAIN ix : ~(u < 0)
    BY <1>1, Index, Constants
  <2> QED
    BY <1>1, <2>1 DEF Fine, PrevIs, NextTo
<1>3. second # Nil /\ second # exclude
  BY <1>1, Zenon DEF Reuse, GetRootDataPgNo
<1>4. PICK v \in DOMAIN ix : NextTo(ix, 0, v) /\ second = ix[v]
  BY <1>1, <1>3, GoodLinks
<1>5. /\ second \in PageNos /\ Fine(ix, v, p2) /\ GetPage(d, second) = p2 /\ p2 \in Pages
      /\ d.disk[second] # Free
  <2>1. Fine(ix, v, p2)
    BY <1>4, GoodPage
  <2>2. ix[v] \in PageNos /\ GetPage(d, ix[v]) = V[ix[v]] /\ d.disk[ix[v]] # Free
    BY GoodPage
  <2> QED
    BY <1>4, <2>1, <2>2 DEF Fine
<1>6. p2.idxval = v
  BY <1>5, Zenon DEF Fine
<1>7. /\ nx \in PageNos \union {Nil}
      /\ nx # Nil => \E u \in DOMAIN ix : NextTo(ix, v, u) /\ nx = ix[u]
  BY <1>4, GoodLinks
<1>8. v \in Nat /\ v # 0 /\ root # second
  <2>1. v \in Nat /\ v # 0
    <3>1. v \in Nat
      BY <1>1, ValueHere
    <3> QED
      BY <1>4, <3>1 DEF NextTo
  <2> QED
    BY <1>1, <1>4, <2>1 DEF IsInjective
<1>9. nx # root /\ nx # second
  <2>1. CASE nx = Nil
    BY <1>1, <1>5, <2>1, Constants, Zenon
  <2>2. ASSUME NEW u \in DOMAIN ix, NextTo(ix, v, u), nx = ix[u] PROVE nx # root /\ nx # second
    <3>1. u # v /\ u # 0
      BY <1>1, <1>8, <2>2, Index, Constants DEF NextTo
    <3> QED
      BY <1>1, <1>4, <2>2, <3>1 DEF IsInjective
  <2> QED
    BY <1>7, <2>1, <2>2, Zenon
<1>10. a = [d |-> [saved EXCEPT !.ix[t] = DelIdxRec(@, v, second)], page |-> second]
  BY <1>1, <1>3, <1>5, <1>6, Zenon DEF Reuse, GetRootDataPgNo
<1>11. V \in [PageNos -> Pages] /\ d \in Tables /\ d.ix \in [Tags -> Indexes] /\ SameEnd(V, d.disk)
  BY GoodParts
<1>12. p2.recs \in PageRecs
  BY <1>5, Zenon DEF Pages
<1> HIDE DEF ix, V, nx, p2, root, second
<1>13. x \in Pages
  <2>1. V[root].idxval \in Nat /\ Nil \in PageNos \union {Nil}
    BY <1>2
  <2> QED
    BY <1>7, <1>12, <2>1 DEF Page, Pages
<1> HIDE DEF x
<1>14. /\ f \in Tables /\ f.free = d.free /\ f.ix = d.ix /\ Mem(f) = V /\ f.disk = V
  BY <1>11, AllFlushed DEF V
<1> HIDE DEF f
<1>15. /\ moved \in Tables /\ moved.free = d.free /\ moved.ix = d.ix /\ moved.disk = V
       /\ Mem(moved) = IF nx = Nil THEN V ELSE [V EXCEPT ![nx].prev = root]
  <2>1. nx \in PageNos \union {Nil} /\ root \in PageNos \union {Nil}
    BY <1>1, <1>7
  <2>2. PrevIsSet(f, nx, root, moved)
    BY <1>14, <2>1, PrevSet
  <2> QED
    BY <1>14, <2>2 DEF PrevIsSet
<1> HIDE DEF moved
<1>16. /\ written \in Tables /\ written.free = d.free /\ written.ix = d.ix /\ written.disk = V
       /\ Mem(written) = [Mem(moved) EXCEPT ![root] = x]
  <2>1. /\ written \in Tables /\ written.free = moved.free /\ written.ix = moved.ix
        /\ written.disk = moved.disk /\ Mem(written) = [Mem(moved) EXCEPT ![root] = x]
    BY <1>1, <1>13, <1>15, Written
  <2> QED
    BY <1>15, <2>1
<1> HIDE DEF written
<1>17. /\ rest \in Tables /\ rest.free = d.free /\ rest.ix = d.ix
       /\ Mem(rest) = [Mem(written) EXCEPT ![second] = V[second]]
  <2>1. /\ rest \in Tables /\ rest.free = written.free /\ rest.ix = written.ix
        /\ Mem(rest) = [Mem(written) EXCEPT ![second] = written.disk[second]]
    BY <1>5, <1>16, Removed
  <2> QED
    BY <1>16, <2>1
<1> HIDE DEF rest
<1>18. /\ saved \in Tables /\ saved.free = d.free /\ saved.ix = d.ix /\ saved.disk = Mem(rest)
       /\ DOMAIN saved.dirty = {}
  BY <1>17, AllFlushed
<1> HIDE DEF saved
<1> DEFINE jx == DelIdxRec(ix, v, second)
<1>19. jx \in Indexes
  BY <1>1, <1>4, Dropped
<1>20. a.page = second /\ a.d = [saved EXCEPT !.ix[t] = jx]
  BY <1>10, <1>11, <1>18 DEF ix, Tables
<1>21. /\ a.d \in Tables /\ DOMAIN a.d.dirty = {} /\ a.d.free = d.free /\ a.d.disk = Mem(rest)
       /\ a.d.ix = [d.ix EXCEPT ![t] = jx]
  BY <1>18, <1>19, <1>20, IndexSet DEF IndexIsSet
<1>22. /\ a.d.disk[second] = V[second] /\ a.d.disk[root] = x
       /\ \A q \in PageNos \ {root, second} :
            a.d.disk[q] = IF q = nx THEN [V[q] EXCEPT !.prev = root] ELSE V[q]
  <2>1. DOMAIN Mem(moved) = PageNos /\ DOMAIN Mem(written) = PageNos /\ DOMAIN V = PageNos
    BY DEF Mem, V
  <2>2. a.d.disk[second] = V[second] /\ \A q \in PageNos \ {second} : a.d.disk[q] = Mem(written)[q]
    BY <1>5, <1>17, <1>21, <2>1
  <2>3. Mem(written)[root] = x /\ \A q \in PageNos \ {root} : Mem(written)[q] = Mem(moved)[q]
    BY <1>1, <1>16, <2>1
  <2>4. \A q \in PageNos : Mem(moved)[q] = IF q = nx THEN [V[q] EXCEPT !.prev = root] ELSE V[q]
    BY <1>7, <1>15, <2>1, Constants
  <2> QED
    BY <1>1, <1>8, <2>2, <2>3, <2>4
<1>23. a.d.disk[second].kind = "data" /\ a.d.disk[second] # Free /\ a.d.disk[second] # Absent
  BY <1>5, <1>22, NoPages DEF Fine, p2
<1>24. /\ p2.recs \in PageRecs /\ DOMAIN p2.recs # {} /\ \A k \in DOMAIN p2.recs : Here(ix, v, k)
  BY <1>5 DEF Fine, Pages
<1>25. Shrunk(d, t, 0, v, p2.recs, a.d, {second})
  <2>1. x = Page(0, V[root].prev, nx, p2.recs)
    BY <1>2 DEF x
  <2> HIDE DEF jx
  <2>2. a.d.ix = [d.ix EXCEPT ![t] = DelIdxRec(ix, v, ix[v])]
    BY <1>4, <1>21 DEF jx
  <2>3. root = ix[0] /\ second = ix[v] /\ nx = V[ix[v]].next
    BY <1>4, Zenon DEF root, nx, p2
  <2>4. a.d.disk[ix[0]] = Page(0, V[ix[0]].prev, V[ix[v]].next, p2.recs) /\ a.d.disk[ix[v]] # Absent
    BY <1>22, <1>23, <2>1, <2>3
  <2>5. \A q \in PageNos \ {ix[0], ix[v]} :
          a.d.disk[q] = IF q = V[ix[v]].next THEN [V[q] EXCEPT !.prev = ix[0]] ELSE V[q]
    BY <1>22, <2>3
  <2>6. a.d.free = d.free /\ {second} = {ix[v]}
    BY <1>21, <2>3
  <2>7. \A k \in DOMAIN p2.recs : Here(ix, 0, k) \/ Here(ix, v, k)
    BY <1>24
  <2> QED
    BY <1>1, <1>4, <1>21, <1>24, <2>2, <2>4, <2>5, <2>6, <2>7, Zenon DEF Shrunk, ix, V
<1> QED
  BY <1>1, <1>3, <1>4, <1>20, <1>23, <1>25 DEF ix, V, p2

\* The second page of a split: the chain keeps the page that is split.
AtPage(d, t, v, p, reuse) ==
    /\ Good(d, {}) /\ t \in Tags /\ v \in DOMAIN d.ix[t] /\ p = d.ix[t][v]
    /\ reuse \in BOOLEAN /\ (reuse => Mem(d)[p].next = Nil)

Second(d, t, v, p, reuse, a) ==
    /\ Good(a.d, {a.page}) /\ a.page \in PageNos /\ a.d.disk[a.page] # Free
    /\ v \in DOMAIN a.d.ix[t] /\ a.d.ix[t][v] = p /\ GetPage(a.d, p) = GetPage(d, p)
    /\ DOMAIN a.d.ix[t] \subseteq DOMAIN d.ix[t]
    /\ \/ SamePages(d, a.d)
       \/ /\ reuse /\ DOMAIN a.d.dirty = {}
          /\ \E c \in DOMAIN d.ix[t] :
               /\ 0 < c /\ c <= v /\ NextTo(d.ix[t], 0, c) /\ a.page = d.ix[t][c]
               /\ Shrunk(d, t, 0, c, Mem(d)[a.page].recs, a.d, {a.page})

\* Three index values are at most three.
LEMMA AtMostThree ==
    ASSUME NEW x, NEW y, NEW z
    PROVE  IsFiniteSet({x, y, z}) /\ Cardinality({x, y, z}) <= 3
<1>1. IsFiniteSet({x}) /\ Cardinality({x}) = 1
  BY FS_Singleton
<1> DEFINE two == {x} \union {y}
<1>2. IsFiniteSet(two) /\ Cardinality(two) \in {1, 2}
  BY <1>1, FS_AddElement
<1> HIDE DEF two
<1>3. IsFiniteSet(two \union {z}) /\ Cardinality(two \union {z}) \in {1, 2, 3}
  BY <1>2, FS_AddElement
<1>4. two \union {z} = {x, y, z}
  BY DEF two
<1> QED
  BY <1>3, <1>4

\* The page a split writes its second half to: taken from the free list, or the next page
\* unlinked and reused.
LEMMA GoodSecond ==
    ASSUME NEW d, NEW t, NEW v, NEW p, NEW reuse, AtPage(d, t, v, p, reuse),
           NEW a \in SecondPage(d, t, p, reuse), a.page # Nil
    PROVE  Second(d, t, v, p, reuse, a)
<1> DEFINE ix == d.ix[t]
           V == Mem(d)
<1> USE DEF AtPage
<1>1. /\ ix \in Indexes /\ IsInjective(ix) /\ p \in PageNos /\ Owned(d.ix, p)
      /\ GetPage(d, p) = V[p] /\ 0 \in DOMAIN ix
  BY GoodPage
<1>2. DOMAIN ix \subseteq Nat /\ IsFiniteSet(DOMAIN ix)
  <2>1. IsFiniteSet({0} \union Keys)
    BY Constants, FS_Singleton, FS_Union
  <2> QED
    BY <1>1, <2>1, Index, Constants, FS_Subset
<1>3. CASE a = Alloc(d)
  <2>1. /\ Good(a.d, {a.page}) /\ SamePages(d, a.d) /\ a.page \in PageNos /\ a.d.disk[a.page] # Free
    BY <1>3, GoodAlloc
  <2>2. a.d.ix = d.ix /\ Mem(a.d)[p] = V[p]
    BY <1>1, <2>1 DEF SamePages
  <2>3. GetPage(a.d, p) = GetPage(d, p)
    BY <1>1, <2>2 DEF Mem
  <2> QED
    BY <2>1, <2>2, <2>3 DEF Second
<1>4. CASE reuse /\ Cardinality(DOMAIN ix) >= ReuseMin /\ a \in Reuse(d, t, p)
  <2>1. PICK c \in DOMAIN ix :
          /\ 0 \in DOMAIN ix /\ NextTo(ix, 0, c)
          /\ a.page = ix[c] /\ a.page # p /\ a.page # Nil
          /\ Shrunk(d, t, 0, c, V[a.page].recs, a.d, {a.page})
          /\ a.d.disk[a.page] # Free
    <3>1. DOMAIN d.ix[t] # {}
      OBVIOUS
    <3> QED
      BY <1>4, <3>1, GoodReuse
  <2>2. c \in Nat /\ 0 < c /\ v \in Nat /\ c # v /\ (c <= v \/ v = 0)
    BY <1>2, <2>1 DEF NextTo
  <2>3. v # 0
    <3>1. V[ix[0]].next # Nil
      <4>1. V[ix[0]].next = Nil => \A u \in DOMAIN ix : u <= 0
        BY <1>1, GoodLinks
      <4> QED
        BY <1>2, <2>1, <4>1 DEF NextTo
    <3> QED
      BY <1>4, <3>1
  <2>4. V[ix[c]].next # p
    <3> SUFFICES ASSUME V[ix[c]].next = p PROVE FALSE
      OBVIOUS
    <3>1. PICK u \in DOMAIN ix : NextTo(ix, c, u) /\ p = ix[u]
      BY <1>1, GoodLinks, Constants
    <3>2. u = v
      BY <1>1, <3>1 DEF IsInjective
    <3>3. \A w \in DOMAIN ix : w <= v
      BY <1>4, GoodLinks
    <3>4. DOMAIN ix \subseteq {0, c, v}
      BY <1>2, <2>1, <3>1, <3>2, <3>3 DEF NextTo
    <3>5. IsFiniteSet({0, c, v}) /\ Cardinality({0, c, v}) <= 3
      BY AtMostThree
    <3>6. Cardinality(DOMAIN ix) <= Cardinality({0, c, v}) /\ Cardinality(DOMAIN ix) \in Nat
      BY <1>2, <3>4, <3>5, FS_Subset, FS_CardinalityType
    <3>7. Cardinality({0, c, v}) \in Nat
      BY <3>5, FS_CardinalityType
    <3> QED
      BY <1>4, <3>5, <3>6, <3>7, Constants
  <2>5. p # ix[0] /\ p # ix[c]
    BY <1>1, <2>1, <2>3 DEF IsInjective
  <2>6. Good(a.d, {a.page})
    BY <2>1, GoodShrinks, Zenon
  <2>7. /\ a.d.ix = [d.ix EXCEPT ![t] = DelIdxRec(ix, c, ix[c])] /\ DOMAIN a.d.dirty = {}
        /\ a.d.disk[p] = V[p]
    BY <1>1, <2>1, <2>4, <2>5 DEF Shrunk
  <2>8. GetPage(a.d, p) = GetPage(d, p)
    BY <1>1, <2>7 DEF GetPage
  <2>9. d.ix \in [Tags -> Indexes]
    BY GoodParts
  <2>10. /\ DOMAIN a.d.ix[t] = DOMAIN ix \ {c}
         /\ \A w \in DOMAIN a.d.ix[t] : a.d.ix[t][w] = ix[w]
    <3>1. a.d.ix[t] = DelIdxRec(ix, c, ix[c])
      BY <2>7, <2>9
    <3> DEFINE jx == DelIdxRec(ix, c, ix[c])
    <3>2. DOMAIN jx = DOMAIN ix \ {c} /\ \A w \in DOMAIN jx : jx[w] = ix[w]
      BY <1>1, <2>1, Dropped
    <3> HIDE DEF jx
    <3> QED
      BY <3>1, <3>2 DEF jx
  <2>11. v \in DOMAIN a.d.ix[t]
    BY <2>1, <2>5, <2>10
  <2>12. a.page \in PageNos
    BY <2>1, GoodPage
  <2> QED
    BY <1>4, <2>1, <2>2, <2>3, <2>6, <2>7, <2>8, <2>10, <2>11, <2>12 DEF Second
<1> QED
  BY <1>3, <1>4 DEF SecondPage

\* splitsave, and the insert of the second page into the index.
LEMMA GoodSplitSave ==
    ASSUME NEW d, NEW t, NEW v, NEW p, NEW reuse, AtPage(d, t, v, p, reuse),
           NEW recs \in PageRecs, \A k \in DOMAIN recs : Here(d.ix[t], v, k), NEW binc,
           NEW o \in SplitSave(d, t, p, recs, binc, reuse)
    PROVE  /\ Good(o.d, {})
           /\ \/ o.ok = FALSE /\ SamePages(d, o.d)
              \/ /\ o.ok = TRUE /\ DOMAIN o.d.dirty = {}
                 /\ \E a \in SecondPage(d, t, p, reuse) : \E x \in DOMAIN recs :
                      /\ a.page # Nil /\ o.d.ix = [a.d.ix EXCEPT ![t] = InsertIdx(a.d.ix[t], x, a.page)]
                      /\ \A q \in PageNos :
                           o.d.disk[q].recs = IF q = a.page THEN From(recs, x)
                                              ELSE IF q = p THEN Below(recs, x)
                                              ELSE Mem(a.d)[q].recs
<1> DEFINE keys2 == SecondKeys(recs, binc)
           x == Min(keys2)
           r1 == Below(recs, x)
           r2 == From(recs, x)
<1>1. CASE keys2 = {}
  <2>1. o = Failed(d)
    BY <1>1 DEF SplitSave
  <2> QED
    BY <2>1 DEF Failed, SamePages, AtPage
<1>2. CASE keys2 # {}
  <2> DEFINE split(b) ==
               LET old == GetPage(d, p)
                   e1 == WritePage(FlushAll(b.d), b.page, Page(x, p, old.next, r2))
                   e2 == SetPrev(e1, old.next, b.page)
                   e3 == WritePage(e2, p, [old EXCEPT !.next = b.page, !.recs = r1])
               IN  Done([FlushAll(e3) EXCEPT !.ix[t] = InsertIdx(@, x, b.page)])
             outcomes(b) ==
               IF b.page = Nil THEN {Failed(d)}
               ELSE {split(b)} \union
                    (IF DOMAIN b.d.dirty = {} THEN {} ELSE {Failed(PageFree(b.d, b.page))})
  <2>1. PICK a \in SecondPage(d, t, p, reuse) :
          \/ a.page = Nil /\ o = Failed(d)
          \/ a.page # Nil /\ o = split(a)
          \/ a.page # Nil /\ DOMAIN a.d.dirty # {} /\ o = Failed(PageFree(a.d, a.page))
    <3>1. SplitSave(d, t, p, recs, binc, reuse) = UNION {outcomes(b) : b \in SecondPage(d, t, p, reuse)}
      BY <1>2, Zenon DEF SplitSave
    <3> HIDE DEF outcomes
    <3>2. PICK a \in SecondPage(d, t, p, reuse) : o \in outcomes(a)
      BY <3>1
    <3> HIDE DEF split
    <3>3. \/ a.page = Nil /\ o = Failed(d)
          \/ a.page # Nil /\ o = split(a)
          \/ a.page # Nil /\ DOMAIN a.d.dirty # {} /\ o = Failed(PageFree(a.d, a.page))
      BY <3>2 DEF outcomes
    <3> QED
      BY <3>3
  <2>2. CASE a.page = Nil /\ o = Failed(d)
    BY <2>2 DEF Failed, SamePages, AtPage
  <2>3. ASSUME a.page # Nil PROVE Second(d, t, v, p, reuse, a)
    BY <2>3, GoodSecond
  <2>4. CASE a.page # Nil /\ DOMAIN a.d.dirty # {} /\ o = Failed(PageFree(a.d, a.page))
    <3>1. SamePages(d, a.d) /\ Good(a.d, {a.page}) /\ a.page \in PageNos /\ a.d.disk[a.page] # Free
      BY <2>3, <2>4 DEF Second
    <3>2. {a.page} \ {a.page} = {} /\ a.page \in {a.page}
      OBVIOUS
    <3>3. Good(PageFree(a.d, a.page), {a.page} \ {a.page}) /\ SamePages(a.d, PageFree(a.d, a.page))
      BY <3>1, <3>2, GoodFree
    <3>4. SamePages(d, PageFree(a.d, a.page))
      BY <3>1, <3>3 DEF SamePages
    <3>5. o.d = PageFree(a.d, a.page) /\ o.ok = FALSE
      BY <2>4 DEF Failed
    <3> QED
      BY <3>2, <3>3, <3>4, <3>5
  <2>5. CASE a.page # Nil /\ ~(DOMAIN a.d.dirty # {} /\ o = Failed(PageFree(a.d, a.page)))
    <3> DEFINE n == a.page
               e == a.d
               s == Split(e, t, p, n, x, r1, r2)
    <3>1. /\ Good(e, {n}) /\ n \in PageNos
          /\ v \in DOMAIN e.ix[t] /\ e.ix[t][v] = p /\ GetPage(e, p) = GetPage(d, p)
          /\ DOMAIN e.ix[t] \subseteq DOMAIN d.ix[t]
      BY <2>3, <2>5 DEF Second
    <3>2. o = Done(s)
      BY <2>1, <2>5, <3>1 DEF Split
    <3>3. o.d = s /\ o.ok = TRUE
      BY <3>2 DEF Done
    <3>4. DOMAIN recs \subseteq Keys /\ recs \in [DOMAIN recs -> Vals]
      BY Recs
    <3>5. keys2 \subseteq DOMAIN recs /\ \A k \in keys2 : \E j \in DOMAIN recs : j < k
      BY DEF SecondKeys
    <3>6. x \in keys2 /\ x \in Keys
      <4>1. keys2 \in SUBSET Nat
        BY <3>4, <3>5, Constants
      <4> QED
        BY <1>2, <3>4, <3>5, <4>1, MinOf
    <3> HIDE DEF keys2, x
    <3>7. PICK j \in DOMAIN recs : j < x
      BY <3>5, <3>6
    <3>8. \A k \in DOMAIN recs : k \in Nat /\ Here(e.ix[t], v, k)
      <4>1. \A k \in DOMAIN recs : k \in Nat
        BY <3>4, Constants
      <4> QED
        BY <3>1, <4>1 DEF Here
    <3>9. /\ DOMAIN r1 = {i \in DOMAIN recs : i < x} /\ r1 \in PageRecs
          /\ DOMAIN r2 = {i \in DOMAIN recs : i >= x} /\ r2 \in PageRecs
      <4>1. /\ DOMAIN r1 = {i \in DOMAIN recs : i < x} /\ \A i \in DOMAIN r1 : r1[i] = recs[i]
            /\ DOMAIN r2 = {i \in DOMAIN recs : i >= x} /\ \A i \in DOMAIN r2 : r2[i] = recs[i]
        BY DEF Below, From
      <4>2. r1 \in [DOMAIN r1 -> Vals] /\ r2 \in [DOMAIN r2 -> Vals]
        BY <3>4 DEF Below, From
      <4>3. DOMAIN r1 \subseteq Keys /\ DOMAIN r2 \subseteq Keys
        BY <3>4, <4>1
      <4> QED
        BY <4>1, <4>2, <4>3, Recs
    <3> HIDE DEF r1, r2
    <3>10. /\ DOMAIN r1 # {} /\ \A k \in DOMAIN r1 : Here(e.ix[t], v, k) /\ k < x
           /\ DOMAIN r2 # {} /\ \A k \in DOMAIN r2 : Here(e.ix[t], v, k) /\ x <= k
      <4>1. x \in DOMAIN recs /\ x \in Nat
        BY <3>5, <3>6, Constants
      <4> QED
        BY <3>7, <3>8, <3>9, <4>1
    <3>11. v < x /\ Here(e.ix[t], v, x)
      <4>1. x \in DOMAIN recs /\ x \in Nat /\ j \in Nat /\ v <= j
        BY <3>5, <3>6, <3>7, <3>8 DEF Here
      <4>2. v \in Nat
        BY GoodPage, ValueHere DEF AtPage
      <4> QED
        BY <3>7, <3>8, <4>1, <4>2
    <3>12. IsSplit(e, t, p, n, x, r1, r2, s)
      <4> HIDE DEF e, n
      <4>2. Halves(e.ix[t], v, x, r1, r2)
        BY <3>1, <3>9, <3>10, <3>11 DEF Halves
      <4>4. CanSplit(e, t, v, p, n, x, r1, r2)
        BY <3>1, <3>6, <4>2 DEF CanSplit, AtPage
      <4> QED
        BY <4>4, GoodSplit
    <3>13. x \in DOMAIN recs
      BY <3>5, <3>6
    <3> QED
      BY <2>5, <3>3, <3>12, <3>13 DEF r1, r2, IsSplit
  <2> QED
    BY <2>1, <2>2, <2>4, <2>5, Zenon
<1> QED
  BY <1>1, <1>2

\* A page is removed from the cache and freed, and everything is saved.
LEMMA Given ==
    ASSUME NEW d \in Tables, NEW p \in PageNos, d.disk[p] # Free
    PROVE  LET w == FlushAll(PageFree(RemovePage(d, p), p)) IN
           /\ w \in Tables /\ DOMAIN w.dirty = {} /\ w.ix = d.ix /\ w.free = <<p>> \o d.free
           /\ w.disk = [Mem(d) EXCEPT ![p] = Free]
<1> DEFINE e == RemovePage(d, p)
           f == PageFree(e, p)
           w == FlushAll(f)
<1>1. /\ e \in Tables /\ e.disk = d.disk /\ e.free = d.free /\ e.ix = d.ix
      /\ Mem(e) = [Mem(d) EXCEPT ![p] = d.disk[p]] /\ p \notin DOMAIN e.dirty
  BY Removed
<1> HIDE DEF e
<1>2. /\ f \in Tables /\ f.dirty = e.dirty /\ f.ix = d.ix /\ f.free = <<p>> \o d.free
      /\ f.disk = [d.disk EXCEPT ![p] = Free]
  <2>1. e.disk[p] # Free
    BY <1>1
  <2>2. /\ f \in Tables /\ f.dirty = e.dirty /\ f.ix = e.ix /\ f.free = <<p>> \o e.free
        /\ f.disk = [e.disk EXCEPT ![p] = Free]
    BY <1>1, <2>1, Freed
  <2> QED
    BY <1>1, <2>2
<1> HIDE DEF f
<1>3. Mem(f) = [Mem(d) EXCEPT ![p] = Free]
  <2>1. d.disk \in [PageNos -> Pages] /\ Mem(d) \in [PageNos -> Pages]
    BY MemIn DEF Tables
  <2>2. \A q \in PageNos : Mem(f)[q] = IF q \in DOMAIN f.dirty THEN f.dirty[q] ELSE f.disk[q]
    BY DEF Mem, GetPage
  <2>3. \A q \in PageNos : Mem(e)[q] = IF q \in DOMAIN e.dirty THEN e.dirty[q] ELSE e.disk[q]
    BY DEF Mem, GetPage
  <2>4. \A q \in PageNos : Mem(f)[q] = IF q = p THEN Free ELSE Mem(d)[q]
    <3> TAKE q \in PageNos
    <3>1. CASE q = p
      BY <1>1, <1>2, <2>1, <2>2, <3>1
    <3>2. CASE q # p
      <4>1. Mem(f)[q] = Mem(e)[q]
        BY <1>1, <1>2, <2>1, <2>2, <2>3, <3>2
      <4> QED
        BY <1>1, <2>1, <3>2, <4>1
    <3> QED
      BY <3>1, <3>2
  <2>5. Mem(f) = [q \in PageNos |-> Mem(f)[q]]
    BY DEF Mem
  <2> QED
    BY <2>1, <2>4, <2>5
<1>4. /\ w \in Tables /\ w.free = f.free /\ w.ix = f.ix /\ w.disk = Mem(f) /\ DOMAIN w.dirty = {}
  BY <1>2, AllFlushed
<1> QED
  BY <1>2, <1>3, <1>4 DEF e, f

\* The last record of a page that is not the first is deleted.
LEMMA GoodDeletePage ==
    ASSUME NEW d, Good(d, {}), NEW t \in Tags, NEW v \in DOMAIN d.ix[t],
           Mem(d)[d.ix[t][v]].prev # Nil
    PROVE  \E u \in DOMAIN d.ix[t] :
             Shrunk(d, t, u, v, Mem(d)[d.ix[t][u]].recs, DeletePage(d, t, d.ix[t][v]), {})
<1> DEFINE ix == d.ix[t]
           V == Mem(d)
           p == ix[v]
           pr == V[p].prev
           nx == V[p].next
           jx == DelIdxRec(ix, v, p)
           e1 == [d EXCEPT !.ix[t] = jx]
           e2 == SetNext(e1, pr, nx)
           e3 == SetPrev(e2, nx, pr)
           w == FlushAll(PageFree(RemovePage(e3, p), p))
<1>1. /\ ix \in Indexes /\ IsInjective(ix) /\ p \in PageNos /\ GetPage(d, p) = V[p]
      /\ Fine(ix, v, V[p]) /\ d.disk[p] # Free /\ v \in Nat
  BY GoodPage, ValueHere
<1>2. PICK u \in DOMAIN ix : NextTo(ix, u, v) /\ pr = ix[u]
  BY GoodLinks
<1>3. /\ nx \in PageNos \union {Nil}
      /\ nx # Nil => \E c \in DOMAIN ix : NextTo(ix, v, c) /\ nx = ix[c]
  BY GoodLinks
<1>4. u \in Nat /\ u # v /\ pr \in PageNos /\ pr # p
  <2>1. u \in Nat /\ ix[u] \in PageNos
    BY <1>1, GoodPage, ValueHere
  <2>2. u # v
    BY <1>1, <1>2, <2>1 DEF NextTo
  <2> QED
    BY <1>1, <1>2, <2>1, <2>2 DEF IsInjective
<1>5. nx # p /\ nx # pr
  <2>1. CASE nx = Nil
    BY <1>1, <1>4, <2>1, Constants
  <2>2. ASSUME NEW c \in DOMAIN ix, NextTo(ix, v, c), nx = ix[c] PROVE nx # p /\ nx # pr
    <3>1. c # v /\ c # u
      <4>1. c \in Nat
        BY <1>1, ValueHere
      <4> QED
        BY <1>1, <1>2, <1>4, <2>2, <4>1 DEF NextTo
    <3> QED
      BY <1>1, <1>2, <2>2, <3>1 DEF IsInjective
  <2> QED
    BY <1>3, <2>1, <2>2
<1>6. V \in [PageNos -> Pages] /\ d \in Tables /\ d.ix \in [Tags -> Indexes]
  BY GoodParts
<1>7. jx \in Indexes
  BY <1>1, Dropped
<1>8. DeletePage(d, t, p) = w
  <2>1. V[p].idxval = v
    BY <1>1 DEF Fine
  <2>2. [d EXCEPT !.ix[t] = DelIdxRec(@, v, p)] = e1
    BY <1>6 DEF Tables
  <2> HIDE DEF e1, jx
  <2> QED
    BY <1>1, <2>1, <2>2 DEF DeletePage
<1>9. Fine(ix, u, V[pr])
  BY <1>2, GoodPage
<1> HIDE DEF ix, V, p, pr, nx, jx
<1>10. /\ e1 \in Tables /\ e1.disk = d.disk /\ e1.free = d.free
       /\ e1.ix = [d.ix EXCEPT ![t] = jx] /\ Mem(e1) = V
  BY <1>6, <1>7, IndexSet DEF IndexIsSet, V
<1> HIDE DEF e1
<1>11. /\ e2 \in Tables /\ e2.disk = d.disk /\ e2.free = d.free /\ e2.ix = e1.ix
       /\ Mem(e2) = [V EXCEPT ![pr].next = nx]
  <2>1. /\ e2 \in Tables /\ e2.disk = e1.disk /\ e2.free = e1.free /\ e2.ix = e1.ix
        /\ Mem(e2) = [Mem(e1) EXCEPT ![pr].next = nx]
    <3>1. e1 \in Tables /\ pr \in PageNos /\ nx \in PageNos \union {Nil}
      BY <1>3, <1>4, <1>10
    <3>2. NextIsSet(e1, pr, nx, e2)
      BY <3>1, NextSet
    <3> QED
      BY <3>2 DEF NextIsSet
  <2> QED
    BY <1>10, <2>1
<1> HIDE DEF e2
<1>12. /\ e3 \in Tables /\ e3.disk = d.disk /\ e3.free = d.free /\ e3.ix = e1.ix
       /\ Mem(e3) = IF nx = Nil THEN Mem(e2) ELSE [Mem(e2) EXCEPT ![nx].prev = pr]
  <2>1. pr \in PageNos \union {Nil}
    BY <1>4
  <2>2. PrevIsSet(e2, nx, pr, e3)
    BY <1>3, <1>11, <2>1, PrevSet
  <2> QED
    BY <1>11, <2>2 DEF PrevIsSet
<1> HIDE DEF e3
<1>13. /\ w \in Tables /\ DOMAIN w.dirty = {} /\ w.ix = [d.ix EXCEPT ![t] = jx]
       /\ w.free = <<p>> \o d.free /\ w.disk = [Mem(e3) EXCEPT ![p] = Free]
  <2>1. e3.disk[p] # Free
    BY <1>1, <1>12
  <2>2. /\ w \in Tables /\ DOMAIN w.dirty = {} /\ w.ix = e3.ix
        /\ w.free = <<p>> \o e3.free /\ w.disk = [Mem(e3) EXCEPT ![p] = Free]
    BY <1>1, <1>12, <2>1, Given
  <2> QED
    BY <1>10, <1>12, <2>2
<1> HIDE DEF w
<1>14. /\ w.disk[p] = Free /\ w.disk[pr] = [V[pr] EXCEPT !.next = nx]
       /\ \A q \in PageNos \ {p, pr} : w.disk[q] = IF q = nx THEN [V[q] EXCEPT !.prev = pr] ELSE V[q]
  <2>1. DOMAIN Mem(e3) = PageNos /\ DOMAIN Mem(e2) = PageNos /\ DOMAIN V = PageNos
    BY DEF Mem, V
  <2>2. w.disk[p] = Free /\ \A q \in PageNos \ {p} : w.disk[q] = Mem(e3)[q]
    BY <1>1, <1>13, <2>1
  <2>3. Mem(e2)[pr] = [V[pr] EXCEPT !.next = nx] /\ \A q \in PageNos \ {pr} : Mem(e2)[q] = V[q]
    BY <1>4, <1>11, <2>1
  <2>4. \A q \in PageNos : Mem(e3)[q] = IF q = nx THEN [Mem(e2)[q] EXCEPT !.prev = pr] ELSE Mem(e2)[q]
    BY <1>3, <1>12, <2>1, Constants
  <2> QED
    BY <1>4, <1>5, <2>2, <2>3, <2>4
<1>15. w.disk[pr] = Page(u, V[pr].prev, nx, V[pr].recs)
  <2>1. V[pr] \in Pages /\ V[pr].kind = "data" /\ V[pr].idxval = u
    BY <1>9 DEF Fine
  <2> QED
    BY <1>14, <2>1 DEF Page, Pages
<1>16. /\ V[pr].recs \in PageRecs /\ DOMAIN V[pr].recs # {}
       /\ \A k \in DOMAIN V[pr].recs : Here(ix, u, k)
  BY <1>9 DEF Fine, Pages
<1>17. Shrunk(d, t, u, v, V[pr].recs, w, {})
  <2>1. w.disk[p] # Absent
    BY <1>14, NoPages
  <2> QED
    BY <1>2, <1>13, <1>14, <1>15, <1>16, <2>1, Zenon DEF Shrunk, V, ix, p, nx, jx
<1> QED
  BY <1>2, <1>8, <1>17 DEF V, ix, p

\* The link of a page and its records change together.
LEMMA HeadAndRecs ==
    ASSUME NEW y \in Pages, NEW nx, NEW r \in PageRecs
    PROVE  [y EXCEPT !.recs = r, !.next = nx] =
           [kind |-> y.kind, idxval |-> y.idxval, prev |-> y.prev, next |-> nx, recs |-> r]
<1> DEFINE z == [y EXCEPT !.recs = r]
<1>1. z = [kind |-> y.kind, idxval |-> y.idxval, prev |-> y.prev, next |-> y.next, recs |-> r]
  BY DEF Pages
<1>2. z \in Pages
  BY <1>1 DEF Pages
<1>3. [y EXCEPT !.recs = r, !.next = nx] = [z EXCEPT !.next = nx]
  OBVIOUS
<1> HIDE DEF z
<1>4. [z EXCEPT !.next = nx] =
      [kind |-> z.kind, idxval |-> z.idxval, prev |-> z.prev, next |-> nx, recs |-> z.recs]
  BY <1>2 DEF Pages
<1> QED
  BY <1>1, <1>3, <1>4

\* The last record of the first page is deleted: the second page goes there.
LEMMA GoodDeleteFirst ==
    ASSUME NEW d, Good(d, {}), NEW t \in Tags, NEW v \in DOMAIN d.ix[t],
           Mem(d)[d.ix[t][v]].prev = Nil, Mem(d)[d.ix[t][v]].next # Nil
    PROVE  \E c \in DOMAIN d.ix[t] :
             Shrunk(d, t, v, c, Mem(d)[d.ix[t][c]].recs, DeleteFirst(d, t, d.ix[t][v]), {})
<1> DEFINE ix == d.ix[t]
           V == Mem(d)
           p == ix[v]
           second == V[p].next
           p2 == V[second]
           nx == p2.next
           x == [V[p] EXCEPT !.recs = p2.recs, !.next = nx]
           e1 == WritePage(d, p, x)
           e2 == SetPrev(e1, nx, p)
           e3 == FlushAll(PageFree(RemovePage(e2, second), second))
<1>1. /\ ix \in Indexes /\ IsInjective(ix) /\ p \in PageNos /\ GetPage(d, p) = V[p]
      /\ Fine(ix, v, V[p]) /\ v \in Nat
  BY GoodPage, ValueHere
<1>2. PICK c \in DOMAIN ix : NextTo(ix, v, c) /\ second = ix[c]
  BY GoodLinks
<1>3. Fine(ix, c, p2)
  BY <1>2, GoodPage
<1>4. second \in PageNos /\ GetPage(d, second) = p2 /\ d.disk[second] # Free
  <2>1. ix[c] \in PageNos /\ GetPage(d, ix[c]) = V[ix[c]] /\ d.disk[ix[c]] # Free
    BY GoodPage
  <2> QED
    BY <1>2, <2>1
<1>5. /\ nx \in PageNos \union {Nil}
      /\ nx # Nil => \E b \in DOMAIN ix : NextTo(ix, c, b) /\ nx = ix[b]
  BY <1>2, GoodLinks
<1>6. c \in Nat /\ c # v /\ second # p
  <2>1. c \in Nat
    BY <1>1, ValueHere
  <2>2. c # v
    BY <1>1, <1>2, <2>1 DEF NextTo
  <2> QED
    BY <1>1, <1>2, <2>1, <2>2 DEF IsInjective
<1>7. nx # p /\ nx # second
  <2>1. CASE nx = Nil
    BY <1>1, <1>4, <2>1, Constants
  <2>2. ASSUME NEW b \in DOMAIN ix, NextTo(ix, c, b), nx = ix[b] PROVE nx # p /\ nx # second
    <3>1. b # v /\ b # c
      <4>1. b \in Nat
        BY <1>1, ValueHere
      <4> QED
        BY <1>1, <1>2, <1>6, <2>2, <4>1 DEF NextTo
    <3> QED
      BY <1>1, <1>2, <2>2, <3>1 DEF IsInjective
  <2> QED
    BY <1>5, <2>1, <2>2
<1>8. V \in [PageNos -> Pages] /\ d \in Tables /\ d.ix \in [Tags -> Indexes]
  BY GoodParts
<1>9. /\ p2.idxval = c /\ p2.recs \in PageRecs /\ DOMAIN p2.recs # {}
      /\ \A k \in DOMAIN p2.recs : Here(ix, c, k)
  BY <1>3, Zenon DEF Fine, Pages
<1>10. V[p] \in Pages /\ V[p].kind = "data" /\ V[p].idxval = v /\ V[p].prev = Nil
  BY <1>1 DEF Fine
<1> DEFINE w == [e3 EXCEPT !.ix[t] = DelIdxRec(@, c, second)]
<1>11. DeleteFirst(d, t, p) = w
  <2> HIDE DEF p2
  <2> QED
    BY <1>1, <1>4, <1>9 DEF DeleteFirst
<1> HIDE DEF ix, V, p, second, p2, nx
<1>12. x \in Pages /\ x = Page(v, V[p].prev, nx, p2.recs)
  <2>1. v \in Nat /\ Nil \in PageNos \union {Nil} /\ nx \in PageNos \union {Nil}
    BY <1>1, <1>5
  <2> DEFINE y == V[p]
  <2>2. x = Page(v, V[p].prev, nx, p2.recs)
    <3>1. y \in Pages /\ y.kind = "data" /\ y.idxval = v /\ p2.recs \in PageRecs
      BY <1>9, <1>10
    <3> HIDE DEF y
    <3>2. [y EXCEPT !.recs = p2.recs, !.next = nx] = Page(v, y.prev, nx, p2.recs)
      BY <3>1, HeadAndRecs, Zenon DEF Page
    <3> QED
      BY <3>2 DEF y, x
  <2>3. Page(v, Nil, nx, p2.recs) \in Pages
    BY <1>9, <2>1 DEF Page, Pages
  <2> QED
    BY <1>10, <2>2, <2>3
<1> HIDE DEF x
<1>13. /\ e1 \in Tables /\ e1.disk = d.disk /\ e1.free = d.free /\ e1.ix = d.ix
       /\ Mem(e1) = [V EXCEPT ![p] = x]
  <2>1. d \in Tables /\ p \in PageNos /\ x \in Pages
    BY <1>1, <1>8, <1>12
  <2> QED
    BY <2>1, Written DEF V
<1> HIDE DEF e1
<1>14. /\ e2 \in Tables /\ e2.disk = d.disk /\ e2.free = d.free /\ e2.ix = d.ix
       /\ Mem(e2) = IF nx = Nil THEN Mem(e1) ELSE [Mem(e1) EXCEPT ![nx].prev = p]
  <2>1. p \in PageNos \union {Nil}
    BY <1>1
  <2>2. PrevIsSet(e1, nx, p, e2)
    BY <1>5, <1>13, <2>1, PrevSet
  <2> QED
    BY <1>13, <2>2 DEF PrevIsSet
<1> HIDE DEF e2
<1>15. /\ e3 \in Tables /\ DOMAIN e3.dirty = {} /\ e3.ix = d.ix
       /\ e3.free = <<second>> \o d.free /\ e3.disk = [Mem(e2) EXCEPT ![second] = Free]
  <2>1. e2.disk[second] # Free
    BY <1>4, <1>14
  <2>2. /\ e3 \in Tables /\ DOMAIN e3.dirty = {} /\ e3.ix = e2.ix
        /\ e3.free = <<second>> \o e2.free /\ e3.disk = [Mem(e2) EXCEPT ![second] = Free]
    BY <1>4, <1>14, <2>1, Given
  <2> QED
    BY <1>14, <2>2
<1> HIDE DEF e3
<1> DEFINE jx == DelIdxRec(ix, c, second)
<1>16. jx \in Indexes
  BY <1>1, <1>2, Dropped
<1>17. w = [e3 EXCEPT !.ix[t] = jx]
  BY <1>8, <1>15 DEF ix, Tables
<1>18. /\ w \in Tables /\ DOMAIN w.dirty = {} /\ w.ix = [d.ix EXCEPT ![t] = jx]
       /\ w.free = <<second>> \o d.free /\ w.disk = [Mem(e2) EXCEPT ![second] = Free]
  <2> HIDE DEF jx
  <2>1. IndexIsSet(e3, t, jx, w)
    BY <1>15, <1>16, <1>17, IndexSet
  <2> QED
    BY <1>15, <2>1 DEF IndexIsSet
<1> HIDE DEF w
<1>19. /\ w.disk[second] = Free /\ w.disk[p] = x
       /\ \A q \in PageNos \ {p, second} : w.disk[q] = IF q = nx THEN [V[q] EXCEPT !.prev = p] ELSE V[q]
  <2>1. DOMAIN Mem(e2) = PageNos /\ DOMAIN Mem(e1) = PageNos /\ DOMAIN V = PageNos
    BY DEF Mem, V
  <2>2. w.disk[second] = Free /\ \A q \in PageNos \ {second} : w.disk[q] = Mem(e2)[q]
    BY <1>4, <1>18, <2>1
  <2>3. Mem(e1)[p] = x /\ \A q \in PageNos \ {p} : Mem(e1)[q] = V[q]
    BY <1>1, <1>13, <2>1
  <2>4. \A q \in PageNos : Mem(e2)[q] = IF q = nx THEN [Mem(e1)[q] EXCEPT !.prev = p] ELSE Mem(e1)[q]
    BY <1>5, <1>14, <2>1, Constants
  <2> QED
    BY <1>1, <1>6, <1>7, <2>2, <2>3, <2>4
<1>20. Shrunk(d, t, v, c, p2.recs, w, {})
  <2>1. w.disk[second] # Absent
    BY <1>19, NoPages
  <2>2. p = ix[v] /\ second = ix[c] /\ nx = V[ix[c]].next
    BY <1>2, Zenon DEF p, nx, p2
  <2>3. w.disk[ix[v]] = Page(v, V[ix[v]].prev, V[ix[c]].next, p2.recs) /\ w.disk[ix[c]] # Absent
    BY <1>12, <1>19, <2>1, <2>2
  <2>4. \A q \in PageNos \ {ix[v], ix[c]} :
          w.disk[q] = IF q = V[ix[c]].next THEN [V[q] EXCEPT !.prev = ix[v]] ELSE V[q]
    BY <1>19, <2>2
  <2>5. w.free = <<ix[c]>> \o d.free /\ w.ix = [d.ix EXCEPT ![t] = DelIdxRec(ix, c, ix[c])]
    BY <1>18, <2>2 DEF jx
  <2>6. \A k \in DOMAIN p2.recs : Here(ix, v, k) \/ Here(ix, c, k)
    BY <1>9
  <2> QED
    BY <1>2, <1>9, <1>18, <2>3, <2>4, <2>5, <2>6, Zenon DEF Shrunk, V, ix
<1> QED
  BY <1>2, <1>11, <1>20 DEF V, ix, p, p2

\* The last record of the only page is deleted.
LEMMA GoodDeleteOnly ==
    ASSUME NEW d, Good(d, {}), NEW t \in Tags, NEW v \in DOMAIN d.ix[t],
           Mem(d)[d.ix[t][v]].prev = Nil, Mem(d)[d.ix[t][v]].next = Nil
    PROVE  LET w == DeleteOnly(d, t, d.ix[t][v]) IN
           /\ Good(w, {}) /\ DOMAIN w.dirty = {} /\ w.ix = [d.ix EXCEPT ![t] = ClearIdxTree]
           /\ DOMAIN d.ix[t] = {v}
           /\ \A q \in PageNos \ {d.ix[t][v]} : w.disk[q].recs = Mem(d)[q].recs
<1> DEFINE ix == d.ix[t]
           V == Mem(d)
           p == ix[v]
           e == [d EXCEPT !.ix[t] = ClearIdxTree]
           w == FlushAll(PageFree(RemovePage(e, p), p))
<1>1. /\ ix \in Indexes /\ p \in PageNos /\ d.disk[p] # Free /\ 0 \in DOMAIN ix
      /\ V[p] \in Pages /\ V[p].kind = "data" /\ d.disk[p].kind = "data"
  BY GoodPage DEF Fine
<1>2. DOMAIN ix = {v}
  <2>1. v = 0 /\ \A u \in DOMAIN ix : u <= v
    BY GoodLinks
  <2>2. \A u \in DOMAIN ix : u \in Nat
    BY <1>1, ValueHere
  <2> QED
    BY <2>1, <2>2
<1>3. V \in [PageNos -> Pages] /\ d \in Tables /\ d.ix \in [Tags -> Indexes] /\ SameEnd(V, d.disk)
  BY GoodParts
<1>4. ClearIdxTree \in Indexes /\ DOMAIN ClearIdxTree = {} /\ \A view : Chained(ClearIdxTree, view)
  BY ChainNone
<1>5. Accounted([d.ix EXCEPT ![t] = ClearIdxTree], d.free, d.disk, {p})
  <2>1. DOMAIN d.ix = Tags /\ DOMAIN ClearIdxTree \subseteq DOMAIN d.ix[t]
    BY <1>3, <1>4
  <2>2. \A u \in DOMAIN ClearIdxTree : ClearIdxTree[u] = d.ix[t][u]
    BY <1>4
  <2>3. {d.ix[t][u] : u \in DOMAIN d.ix[t] \ DOMAIN ClearIdxTree} = {p}
    BY <1>2, <1>4
  <2>4. Accounted(d.ix, d.free, d.disk, {})
    BY DEF Good
  <2>5. Accounted([d.ix EXCEPT ![t] = ClearIdxTree], d.free, d.disk,
                  {d.ix[t][u] : u \in DOMAIN d.ix[t] \ DOMAIN ClearIdxTree})
    BY <2>1, <2>2, <2>4, AccountShrinks
  <2> QED
    BY <2>3, <2>5
<1>6. \A u \in Tags \ {t} : \A c \in DOMAIN d.ix[u] : d.ix[u][c] \in PageNos \ {p}
  <2> TAKE u \in Tags \ {t}
  <2> TAKE c \in DOMAIN d.ix[u]
  <2>1. d.ix[u][c] \in PageNos
    BY GoodPage
  <2>2. d.ix[u][c] # p
    BY DEF Good, Accounted, Distinct
  <2> QED
    BY <2>1, <2>2
<1>7. DeleteOnly(d, t, p) = w
  BY DEF DeleteOnly
<1> HIDE DEF ix, V, p
<1>8. /\ e \in Tables /\ e.disk = d.disk /\ e.free = d.free
      /\ e.ix = [d.ix EXCEPT ![t] = ClearIdxTree] /\ Mem(e) = V
  BY <1>3, <1>4, IndexSet DEF IndexIsSet, V
<1> HIDE DEF e
<1>9. /\ w \in Tables /\ DOMAIN w.dirty = {} /\ w.ix = e.ix /\ w.free = <<p>> \o d.free
      /\ w.disk = [V EXCEPT ![p] = Free]
  <2>1. e.disk[p] # Free
    BY <1>1, <1>8
  <2> QED
    <3>1. e \in Tables /\ p \in PageNos
      BY <1>1, <1>8
    <3>2. /\ w \in Tables /\ DOMAIN w.dirty = {} /\ w.ix = e.ix /\ w.free = <<p>> \o e.free
          /\ w.disk = [Mem(e) EXCEPT ![p] = Free]
      BY <2>1, <3>1, Given
    <3> QED
      BY <1>8, <3>2
<1> HIDE DEF w
<1>10. w.disk[p] = Free /\ \A q \in PageNos \ {p} : w.disk[q] = V[q]
  BY <1>1, <1>3, <1>9
<1>11. SameEnd(d.disk, w.disk)
  BY <1>1, <1>3, <1>10, NoPages DEF SameEnd
<1>12. Accounted(w.ix, w.free, w.disk, {})
  <2>1. d.free \in Seq(PageNos) /\ p \in {p} /\ {p} \ {p} = {}
    BY <1>3 DEF Tables
  <2>2. Accounted(e.ix, <<p>> \o d.free, d.disk, {p} \ {p})
    BY <1>1, <1>5, <1>8, <2>1, AccountPush
  <2> QED
    BY <1>9, <1>11, <2>1, <2>2, AccountSame
<1>13. Good(w, {})
  <2>1. w.ix = [d.ix EXCEPT ![t] = ClearIdxTree]
    BY <1>8, <1>9
  <2>2. \A u \in Tags \ {t} : \A c \in DOMAIN d.ix[u] : w.disk[d.ix[u][c]] = Mem(d)[d.ix[u][c]]
    BY <1>6, <1>10 DEF V
  <2> QED
    <3>1. Chained(ClearIdxTree, w.disk) /\ ClearIdxTree \in Indexes
      BY <1>4
    <3>2. w \in Tables /\ DOMAIN w.dirty = {}
      BY <1>9
    <3> QED
      BY <1>12, <2>1, <2>2, <3>1, <3>2, GoodMoved
<1> QED
  BY <1>2, <1>7, <1>8, <1>9, <1>10, <1>13 DEF V, ix, p

-----------------------------------------------------------------------------
(* The calls. *)

\* What deleterecord makes of the table.
Deleted(d, t, k) ==
    LET p == GetIdx(d.ix[t], k)
        page == GetPage(d, p)
        there == HasTag(d.ix[t]) /\ k \in DOMAIN page.recs
        rest == [i \in DOMAIN page.recs \ {k} |-> page.recs[i]]
    IN  IF ~there THEN d
        ELSE IF DOMAIN rest # {} THEN WritePage(d, p, [page EXCEPT !.recs = rest])
        ELSE IF page.prev # Nil THEN DeletePage(d, t, p)
        ELSE IF page.next = Nil THEN DeleteOnly(d, t, p)
        ELSE DeleteFirst(d, t, p)

\* The page a key belongs to, in a tag that is there.
LEMMA GoodHere ==
    ASSUME NEW d, NEW L, Good(d, L), NEW t \in Tags, HasTag(d.ix[t]), NEW k \in Nat
    PROVE  \E v \in DOMAIN d.ix[t] :
             /\ Here(d.ix[t], v, k) /\ GetIdx(d.ix[t], k) = d.ix[t][v]
             /\ v \in Nat /\ d.ix[t][v] \in PageNos
             /\ GetPage(d, d.ix[t][v]) = Mem(d)[d.ix[t][v]]
<1>1. PICK w \in DOMAIN d.ix[t] : TRUE
  BY DEF HasTag
<1>2. d.ix[t] \in Indexes /\ 0 \in DOMAIN d.ix[t]
  BY <1>1, GoodPage
<1>3. PICK v \in DOMAIN d.ix[t] : Here(d.ix[t], v, k) /\ GetIdx(d.ix[t], k) = d.ix[t][v]
  BY <1>2, SomeHere
<1>4. v \in Nat
  BY <1>2, ValueHere
<1>5. d.ix[t][v] \in PageNos /\ GetPage(d, d.ix[t][v]) = Mem(d)[d.ix[t][v]]
  BY GoodPage
<1> QED
  BY <1>3, <1>4, <1>5

\* What is left of the records of a page without one of them.
Without(r, k) == [i \in DOMAIN r \ {k} |-> r[i]]

\* The outcomes of deleterecord for a record that is in the page with value v.
IsDeleted(d, t, k, v, e) ==
    LET ix == d.ix[t]
        V == Mem(d)
        p == ix[v]
        r == V[p].recs
    IN  \/ /\ DOMAIN r \ {k} # {} /\ e.ix = d.ix /\ e.disk = d.disk
           /\ \A q \in PageNos : Mem(e)[q].recs = IF q = p THEN Without(r, k) ELSE V[q].recs
        \/ /\ DOMAIN r \ {k} = {}
           /\ \/ \E u \in DOMAIN ix : Shrunk(d, t, u, v, V[ix[u]].recs, e, {})
              \/ \E c \in DOMAIN ix : Shrunk(d, t, v, c, V[ix[c]].recs, e, {})
              \/ /\ DOMAIN e.dirty = {} /\ DOMAIN ix = {v}
                 /\ e.ix = [d.ix EXCEPT ![t] = ClearIdxTree]
                 /\ \A q \in PageNos \ {p} : e.disk[q].recs = V[q].recs

\* Deleting a record, with the page freed or merged when it empties, leaves the table good.
LEMMA GoodDelete ==
    ASSUME NEW d, Good(d, {}), NEW t \in Tags, NEW k \in Keys,
           NEW v \in DOMAIN d.ix[t], Here(d.ix[t], v, k), GetIdx(d.ix[t], k) = d.ix[t][v],
           k \in DOMAIN Mem(d)[d.ix[t][v]].recs
    PROVE  Good(Deleted(d, t, k), {}) /\ IsDeleted(d, t, k, v, Deleted(d, t, k))
<1> DEFINE ix == d.ix[t]
           V == Mem(d)
           p == ix[v]
           rest == Without(V[p].recs, k)
           e == Deleted(d, t, k)
<1>1. /\ ix \in Indexes /\ p \in PageNos /\ GetPage(d, p) = V[p] /\ Fine(ix, v, V[p])
  BY GoodPage
<1>2. e = IF DOMAIN rest # {} THEN WritePage(d, p, [V[p] EXCEPT !.recs = rest])
          ELSE IF V[p].prev # Nil THEN DeletePage(d, t, p)
          ELSE IF V[p].next = Nil THEN DeleteOnly(d, t, p)
          ELSE DeleteFirst(d, t, p)
  <2> HIDE DEF V
  <2> QED
    BY <1>1 DEF Deleted, HasTag, Without, V
<1>3. DOMAIN rest = DOMAIN V[p].recs \ {k}
  BY DEF Without
<1>4. CASE DOMAIN rest # {}
  <2>1. rest \in PageRecs /\ \A i \in DOMAIN rest : Here(ix, v, i)
    <3>1. V[p].recs \in PageRecs /\ \A i \in DOMAIN V[p].recs : Here(ix, v, i)
      BY <1>1 DEF Fine, Pages
    <3>2. DOMAIN V[p].recs \subseteq Keys /\ V[p].recs \in [DOMAIN V[p].recs -> Vals]
      BY <3>1, Recs
    <3>3. DOMAIN rest \subseteq Keys /\ rest \in [DOMAIN rest -> Vals]
      BY <1>3, <3>2 DEF Without
    <3> HIDE DEF rest
    <3>4. rest \in PageRecs
      BY <3>3, Recs
    <3> QED
      BY <1>3, <3>1, <3>4
  <2> HIDE DEF rest
  <2>2. IsWritten(d, p, rest, WritePage(d, p, [GetPage(d, p) EXCEPT !.recs = rest]))
    BY <1>4, <2>1, GoodWrite DEF CanWrite
  <2>3. e = WritePage(d, p, [GetPage(d, p) EXCEPT !.recs = rest])
    BY <1>1, <1>2, <1>4
  <2> HIDE DEF e
  <2>4. /\ Good(e, {}) /\ e.ix = d.ix /\ e.disk = d.disk
        /\ \A q \in PageNos : Mem(e)[q].recs = IF q = p THEN rest ELSE Mem(d)[q].recs
    BY <2>2, <2>3 DEF IsWritten
  <2> QED
    BY <1>3, <1>4, <2>4 DEF IsDeleted, rest, e
<1> HIDE DEF rest
<1>5. ASSUME DOMAIN rest = {}, V[p].prev # Nil PROVE Good(e, {}) /\ IsDeleted(d, t, k, v, e)
  <2>1. e = DeletePage(d, t, p)
    BY <1>2, <1>5
  <2>2. PICK u \in DOMAIN ix : Shrunk(d, t, u, v, V[ix[u]].recs, e, {})
    BY <1>5, <2>1, GoodDeletePage
  <2> HIDE DEF e
  <2>3. Good(e, {})
    BY <2>2, GoodShrinks
  <2> QED
    BY <1>3, <1>5, <2>2, <2>3 DEF IsDeleted
<1>6. ASSUME DOMAIN rest = {}, V[p].prev = Nil, V[p].next # Nil
      PROVE Good(e, {}) /\ IsDeleted(d, t, k, v, e)
  <2>1. e = DeleteFirst(d, t, p)
    BY <1>2, <1>6
  <2>2. PICK c \in DOMAIN ix : Shrunk(d, t, v, c, V[ix[c]].recs, e, {})
    BY <1>6, <2>1, GoodDeleteFirst
  <2> HIDE DEF e
  <2>3. Good(e, {})
    BY <2>2, GoodShrinks
  <2> QED
    BY <1>3, <1>6, <2>2, <2>3 DEF IsDeleted
<1>7. ASSUME DOMAIN rest = {}, V[p].prev = Nil, V[p].next = Nil
      PROVE Good(e, {}) /\ IsDeleted(d, t, k, v, e)
  <2>1. e = DeleteOnly(d, t, p)
    BY <1>2, <1>7
  <2>2. /\ Good(e, {}) /\ DOMAIN e.dirty = {} /\ e.ix = [d.ix EXCEPT ![t] = ClearIdxTree]
        /\ DOMAIN d.ix[t] = {v}
        /\ \A q \in PageNos \ {d.ix[t][v]} : e.disk[q].recs = Mem(d)[q].recs
    BY <1>7, <2>1, GoodDeleteOnly
  <2> HIDE DEF e
  <2> QED
    BY <1>3, <1>7, <2>2 DEF IsDeleted
<1> QED
  BY <1>4, <1>5, <1>6, <1>7

\* Records that belong to the page with value v.
Batch(d, t, v, put) ==
    put \in PageRecs /\ DOMAIN put # {} /\ \A k \in DOMAIN put : Here(d.ix[t], v, k)

\* The outcomes when records are put into a page.
IsStored(d, t, p, put, reuse, o) ==
    LET recs == Overwrite(Mem(d)[p].recs, put)
    IN  \/ o.ok = FALSE /\ SamePages(d, o.d)
        \/ /\ o.ok = TRUE /\ o.d.ix = d.ix /\ o.d.disk = d.disk
           /\ \A q \in PageNos : Mem(o.d)[q].recs = IF q = p THEN recs ELSE Mem(d)[q].recs
        \/ /\ o.ok = TRUE /\ DOMAIN o.d.dirty = {}
           /\ \E a \in SecondPage(d, t, p, reuse) : \E x \in DOMAIN recs :
                /\ a.page # Nil /\ o.d.ix = [a.d.ix EXCEPT ![t] = InsertIdx(a.d.ix[t], x, a.page)]
                /\ \A q \in PageNos :
                     o.d.disk[q].recs = IF q = a.page THEN From(recs, x)
                                        ELSE IF q = p THEN Below(recs, x)
                                        ELSE Mem(a.d)[q].recs

\* Records that are put among others.
LEMMA Overwritten ==
    ASSUME NEW r \in PageRecs, NEW w \in PageRecs
    PROVE  LET s == Overwrite(r, w) IN
           /\ s \in PageRecs /\ DOMAIN s = DOMAIN r \union DOMAIN w
           /\ \A k \in DOMAIN s : s[k] = IF k \in DOMAIN w THEN w[k] ELSE r[k]
<1> DEFINE s == Overwrite(r, w)
<1>1. DOMAIN s = DOMAIN r \union DOMAIN w
  BY DEF Overwrite
<1>2. /\ \A k \in DOMAIN s : s[k] = IF k \in DOMAIN w THEN w[k] ELSE r[k]
      /\ s = [k \in DOMAIN s |-> IF k \in DOMAIN w THEN w[k] ELSE r[k]]
  BY DEF Overwrite
<1>3. /\ DOMAIN r \subseteq Keys /\ r \in [DOMAIN r -> Vals]
      /\ DOMAIN w \subseteq Keys /\ w \in [DOMAIN w -> Vals]
  BY Recs
<1> HIDE DEF s
<1>4. DOMAIN s \subseteq Keys /\ s \in [DOMAIN s -> Vals]
  BY <1>1, <1>2, <1>3
<1>5. s \in PageRecs
  BY <1>4, Recs
<1> QED
  BY <1>1, <1>2, <1>5 DEF s

\* Storing a batch in the page its keys belong to, split or not, leaves the table good.
LEMMA GoodStore ==
    ASSUME NEW d, NEW t, NEW v, NEW p, NEW reuse, AtPage(d, t, v, p, reuse),
           NEW put, Batch(d, t, v, put), NEW binc
    PROVE  LET recs == Overwrite(Mem(d)[p].recs, put) IN
           \A o \in {Done(WritePage(d, p, [GetPage(d, p) EXCEPT !.recs = recs]))}
                    \union SplitSave(d, t, p, recs, binc, reuse) :
             Good(o.d, {}) /\ IsStored(d, t, p, put, reuse, o)
<1> DEFINE recs == Overwrite(Mem(d)[p].recs, put)
<1>1. /\ d.ix[t] \in Indexes /\ p \in PageNos /\ GetPage(d, p) = Mem(d)[p]
      /\ Fine(d.ix[t], v, Mem(d)[p])
  BY GoodPage DEF AtPage
<1>2. Mem(d)[p].recs \in PageRecs /\ put \in PageRecs
  BY <1>1 DEF Fine, Pages, Batch
<1>3. recs \in PageRecs /\ DOMAIN recs = DOMAIN Mem(d)[p].recs \union DOMAIN put
  BY <1>2, Overwritten
<1>4. DOMAIN recs # {} /\ \A k \in DOMAIN recs : Here(d.ix[t], v, k)
  BY <1>1, <1>3 DEF Fine, Batch
<1>5. Good(d, {}) /\ t \in Tags /\ v \in DOMAIN d.ix[t] /\ p = d.ix[t][v]
  BY DEF AtPage
<1>6. \A o : IsStored(d, t, p, put, reuse, o) <=>
        \/ o.ok = FALSE /\ SamePages(d, o.d)
        \/ /\ o.ok = TRUE /\ o.d.ix = d.ix /\ o.d.disk = d.disk
           /\ \A q \in PageNos : Mem(o.d)[q].recs = IF q = p THEN recs ELSE Mem(d)[q].recs
        \/ /\ o.ok = TRUE /\ DOMAIN o.d.dirty = {}
           /\ \E a \in SecondPage(d, t, p, reuse) : \E x \in DOMAIN recs :
                /\ a.page # Nil /\ o.d.ix = [a.d.ix EXCEPT ![t] = InsertIdx(a.d.ix[t], x, a.page)]
                /\ \A q \in PageNos :
                     o.d.disk[q].recs = IF q = a.page THEN From(recs, x)
                                        ELSE IF q = p THEN Below(recs, x)
                                        ELSE Mem(a.d)[q].recs
  BY DEF IsStored
<1> HIDE DEF recs
<1> DEFINE w == WritePage(d, p, [GetPage(d, p) EXCEPT !.recs = recs])
<1>7. Good(Done(w).d, {}) /\ IsStored(d, t, p, put, reuse, Done(w))
  <2>1. /\ Good(w, {}) /\ w.ix = d.ix /\ w.disk = d.disk
        /\ \A q \in PageNos : Mem(w)[q].recs = IF q = p THEN recs ELSE Mem(d)[q].recs
    <3>1. CanWrite(d, t, v, p, recs)
      BY <1>3, <1>4, <1>5 DEF CanWrite
    <3>2. IsWritten(d, p, recs, w)
      BY <3>1, GoodWrite
    <3> HIDE DEF w
    <3> QED
      BY <3>2 DEF IsWritten
  <2> HIDE DEF w
  <2>2. Done(w).d = w /\ Done(w).ok = TRUE
    BY DEF Done
  <2> QED
    BY <1>6, <2>1, <2>2
<1>8. ASSUME NEW o \in SplitSave(d, t, p, recs, binc, reuse)
      PROVE  Good(o.d, {}) /\ IsStored(d, t, p, put, reuse, o)
  <2>1. /\ Good(o.d, {})
        /\ \/ o.ok = FALSE /\ SamePages(d, o.d)
           \/ /\ o.ok = TRUE /\ DOMAIN o.d.dirty = {}
              /\ \E a \in SecondPage(d, t, p, reuse) : \E x \in DOMAIN recs :
                   /\ a.page # Nil /\ o.d.ix = [a.d.ix EXCEPT ![t] = InsertIdx(a.d.ix[t], x, a.page)]
                   /\ \A q \in PageNos :
                        o.d.disk[q].recs = IF q = a.page THEN From(recs, x)
                                           ELSE IF q = p THEN Below(recs, x)
                                           ELSE Mem(a.d)[q].recs
    BY <1>3, <1>4, GoodSplitSave
  <2> QED
    BY <1>6, <2>1
<1> HIDE DEF w
<1>9. \A o \in {Done(w)} \union SplitSave(d, t, p, recs, binc, reuse) :
        Good(o.d, {}) /\ IsStored(d, t, p, put, reuse, o)
  BY <1>7, <1>8
<1> QED
  BY <1>9 DEF w, recs

\* The records that are given to the calls.
LEMMA GivenRecords ==
    ASSUME NEW w \in Puts \union Batches
    PROVE  /\ w \in PageRecs /\ DOMAIN w # {} /\ DOMAIN w \subseteq Nat /\ IsFiniteSet(DOMAIN w)
           /\ MinKey(w) \in DOMAIN w /\ \A k \in DOMAIN w : MinKey(w) <= k
<1>1. DOMAIN w \subseteq Keys /\ DOMAIN w # {} /\ w \in [DOMAIN w -> Vals]
  BY TableAssumption
<1>2. w \in PageRecs
  BY <1>1, Recs
<1>3. DOMAIN w \subseteq Nat /\ IsFiniteSet(DOMAIN w)
  BY <1>1, Constants, FS_Subset
<1>4. MinKey(w) \in DOMAIN w /\ \A k \in DOMAIN w : MinKey(w) <= k
  BY <1>1, <1>3, MinOf DEF MinKey
<1> QED
  BY <1>1, <1>2, <1>3, <1>4

\* The lowest keys of a set, as many as are asked for but one at least.
LEMMA LowestOf ==
    ASSUME NEW S \in SUBSET Nat, S # {}, IsFiniteSet(S), NEW n \in Nat, n >= 1
    PROVE  /\ Lowest(S, n) \subseteq S /\ Min(S) \in Lowest(S, n)
           /\ Lowest(S, 1) = {Min(S)}
<1> DEFINE m == Min(S)
<1>1. m \in S /\ S \subseteq Nat /\ \A y \in S : m <= y
  BY MinOf
<1> HIDE DEF m
<1>2. {j \in S : j < m} = {}
  <2> SUFFICES ASSUME NEW j \in S, j < m PROVE FALSE
    OBVIOUS
  <2> QED
    BY <1>1
<1>3. Cardinality({j \in S : j < m}) = 0
  BY <1>2, FS_EmptySet
<1>4. ASSUME NEW k \in S, k # m PROVE ~(Cardinality({j \in S : j < k}) < 1)
  <2> DEFINE T == {j \in S : j < k}
  <2>1. m \in T
    <3>1. m \in Nat /\ k \in Nat /\ m <= k
      BY <1>1
    <3> QED
      BY <1>1, <1>4, <3>1
  <2>2. IsFiniteSet(T)
    BY FS_Subset
  <2> HIDE DEF T
  <2>3. Cardinality(T) \in Nat /\ Cardinality(T) # 0
    BY <2>1, <2>2, FS_CardinalityType, FS_EmptySet
  <2> QED
    BY <2>3 DEF T
<1>5. m \in Lowest(S, n) /\ m \in Lowest(S, 1)
  BY <1>1, <1>3 DEF Lowest
<1>6. Lowest(S, 1) \subseteq {m}
  BY <1>4 DEF Lowest
<1> QED
  BY <1>5, <1>6 DEF Lowest, m

\* The outcomes when records are given to a tag, of which those of put are
\* stored: in the page they belong to, or in the first page of a new tag.
HasPut(d, t, put, reuse, o) ==
    \/ ~HasTag(d.ix[t]) /\ put \in PageRecs /\ DOMAIN put # {} /\ IsNew(d, t, put, o)
    \/ \E v \in DOMAIN d.ix[t] :
         /\ Batch(d, t, v, put) /\ AtPage(d, t, v, d.ix[t][v], reuse)
         /\ IsStored(d, t, d.ix[t][v], put, reuse, o)

\* The outcomes of insert.
Inserts(d, t, w) ==
    LET k == MinKey(w)
        p == GetIdx(d.ix[t], k)
        page == GetPage(d, p)
        recs == Overwrite(page.recs, w)
        reserve == IF k \in DOMAIN page.recs THEN 0 ELSE Reserve
    IN  IF ~HasTag(d.ix[t]) THEN NewTag(d, t, w)
        ELSE IF recs = page.recs THEN {Done(d)}
        ELSE IF Fits(recs, reserve) THEN {Done(WritePage(d, p, [page EXCEPT !.recs = recs]))}
        ELSE SplitSave(d, t, p, recs, k = MaxKey(recs), FALSE)

\* A record that is there already is not written.
LEMMA GoodSame ==
    ASSUME NEW d, NEW t, NEW p, NEW put, Overwrite(Mem(d)[p].recs, put) = Mem(d)[p].recs
    PROVE  IsStored(d, t, p, put, FALSE, Done(d))
BY DEF IsStored, Done

\* The insert of one record leaves the table good, whatever it returns.
LEMMA GoodInsert ==
    ASSUME NEW d, Good(d, {}), NEW t \in Tags, NEW w \in Puts, NEW o \in Inserts(d, t, w)
    PROVE  Good(o.d, {}) /\ HasPut(d, t, w, FALSE, o)
<1>1. /\ w \in PageRecs /\ DOMAIN w # {} /\ DOMAIN w \subseteq Nat
      /\ MinKey(w) \in DOMAIN w
  BY GivenRecords
<1>2. DOMAIN w = {MinKey(w)}
  <2>1. \E k \in Keys : DOMAIN w = {k}
    BY TableAssumption
  <2> QED
    BY <1>1, <2>1
<1>3. CASE ~HasTag(d.ix[t])
  <2>1. o \in NewTag(d, t, w) /\ DOMAIN d.ix[t] = {}
    BY <1>3 DEF Inserts, HasTag
  <2> QED
    BY <1>1, <1>3, <2>1, GoodNew DEF HasPut
<1>4. CASE HasTag(d.ix[t])
  <2> DEFINE k == MinKey(w)
  <2>1. PICK v \in DOMAIN d.ix[t] :
          /\ Here(d.ix[t], v, k) /\ GetIdx(d.ix[t], k) = d.ix[t][v]
          /\ v \in Nat /\ d.ix[t][v] \in PageNos
          /\ GetPage(d, d.ix[t][v]) = Mem(d)[d.ix[t][v]]
    BY <1>1, <1>4, GoodHere
  <2> DEFINE p == d.ix[t][v]
             recs == Overwrite(Mem(d)[p].recs, w)
             binc == (k = MaxKey(recs))
  <2>2. AtPage(d, t, v, p, FALSE) /\ Batch(d, t, v, w)
    BY <1>1, <1>2, <2>1 DEF AtPage, Batch
  <2>3. \/ o = Done(d) /\ recs = Mem(d)[p].recs
        \/ o \in {Done(WritePage(d, p, [GetPage(d, p) EXCEPT !.recs = recs]))}
                   \union SplitSave(d, t, p, recs, binc, FALSE)
    BY <1>4, <2>1 DEF Inserts
  <2>4. ASSUME o = Done(d), recs = Mem(d)[p].recs PROVE Good(o.d, {}) /\ IsStored(d, t, p, w, FALSE, o)
    <3>1. o.d = d
      BY <2>4 DEF Done
    <3> QED
      BY <2>4, <3>1, GoodSame
  <2>5. ASSUME o \in {Done(WritePage(d, p, [GetPage(d, p) EXCEPT !.recs = recs]))}
                       \union SplitSave(d, t, p, recs, binc, FALSE)
        PROVE  Good(o.d, {}) /\ IsStored(d, t, p, w, FALSE, o)
    <3> HIDE DEF binc, p
    <3>1. LET s == Overwrite(Mem(d)[p].recs, w) IN
          \A y \in {Done(WritePage(d, p, [GetPage(d, p) EXCEPT !.recs = s]))}
                   \union SplitSave(d, t, p, s, binc, FALSE) :
             Good(y.d, {}) /\ IsStored(d, t, p, w, FALSE, y)
      BY <2>2, GoodStore
    <3> QED
      BY <2>5, <3>1
  <2> QED
    BY <2>2, <2>3, <2>4, <2>5 DEF HasPut
<1> QED
  BY <1>3, <1>4

\* How many records insertfast takes: one, or as many as are below the next page.
LEMMA AppendedIs ==
    ASSUME NEW w, IsFiniteSet(DOMAIN w), NEW used, NEW limit, NEW end
    PROVE  LET n == Appended(w, used, limit, end) IN
           n \in Nat /\ n >= 1 /\ (n = 1 \/ \A k \in Lowest(DOMAIN w, n) : k < end)
<1> DEFINE c == Cardinality(DOMAIN w)
           ok(n) == /\ \A k \in Lowest(DOMAIN w, n) : k < end
                    /\ used + SizeOf([k \in Lowest(DOMAIN w, n) |-> w[k]]) < limit
           T == {n \in 1..c : ok(n)}
           U == {1} \union T
           n == Max(U)
<1>1. Appended(w, used, limit, end) = n
  BY DEF Appended
<1>2. \A m \in T : m \in 1..c /\ \A k \in Lowest(DOMAIN w, m) : k < end
  OBVIOUS
<1>3. c \in Nat
  BY FS_CardinalityType
<1> HIDE DEF c, T
<1>4. T \subseteq 1..c /\ IsFiniteSet(1..c)
  BY <1>2, <1>3, FS_Interval
<1>5. IsFiniteSet(T)
  BY <1>4, FS_Subset
<1>6. IsFiniteSet({1})
  BY FS_Singleton
<1>7. IsFiniteSet(U)
  BY <1>5, <1>6, FS_Union
<1>8. U \in SUBSET Nat /\ U # {}
  BY <1>3, <1>4
<1> HIDE DEF U
<1>9. n \in U
  BY <1>7, <1>8, MaxOf
<1> HIDE DEF n
<1>10. n = 1 \/ n \in T
  BY <1>9 DEF U
<1> QED
  BY <1>1, <1>2, <1>3, <1>10

\* How many of the records w insertfast takes, and its outcomes.
Count(d, t, w) ==
    LET p == GetIdx(d.ix[t], MinKey(w))
        page == GetPage(d, p)
        end == IF page.next = Nil THEN Max(Keys) + 1 ELSE GetPage(d, page.next).idxval
    IN  IF HasTag(d.ix[t])
        THEN Appended(w, SizeOf(page.recs) + Reserve, PageSize + PageSize \div 2, end)
        ELSE Appended(w, 0, PageSize - Reserve, Max(Keys) + 1)

FastInserts(d, t, put, p, reuse) ==
    LET page == GetPage(d, p)
        recs == Overwrite(page.recs, put)
    IN  IF ~HasTag(d.ix[t]) THEN NewTag(d, t, put)
        ELSE IF Fits(recs, Reserve) THEN {Done(WritePage(d, p, [page EXCEPT !.recs = recs]))}
        ELSE SplitSave(d, t, p, recs, TRUE, reuse)

Taking(w, n) == [k \in Lowest(DOMAIN w, n) |-> w[k]]

\* The records that are taken.
LEMMA TakingIs ==
    ASSUME NEW w \in Puts \union Batches, NEW n \in Nat, n >= 1
    PROVE  /\ Taking(w, n) \in PageRecs /\ DOMAIN Taking(w, n) = Lowest(DOMAIN w, n)
           /\ Lowest(DOMAIN w, n) \subseteq DOMAIN w /\ MinKey(w) \in Lowest(DOMAIN w, n)
           /\ Lowest(DOMAIN w, 1) = {MinKey(w)}
           /\ \A k \in Lowest(DOMAIN w, n) : Taking(w, n)[k] = w[k]
<1> DEFINE S == Lowest(DOMAIN w, n)
           r == Taking(w, n)
<1>1. /\ w \in PageRecs /\ DOMAIN w # {} /\ DOMAIN w \in SUBSET Nat /\ IsFiniteSet(DOMAIN w)
      /\ MinKey(w) = Min(DOMAIN w)
  BY GivenRecords DEF MinKey
<1>2. S \subseteq DOMAIN w /\ MinKey(w) \in S /\ Lowest(DOMAIN w, 1) = {MinKey(w)}
  BY <1>1, LowestOf
<1>3. r = [k \in S |-> w[k]]
  BY DEF Taking
<1>4. DOMAIN w \subseteq Keys /\ w \in [DOMAIN w -> Vals]
  BY <1>1, Recs
<1> HIDE DEF S, r
<1>5. DOMAIN r = S /\ \A k \in S : r[k] = w[k]
  BY <1>3
<1>6. r \in [DOMAIN r -> Vals] /\ DOMAIN r \subseteq Keys
  BY <1>2, <1>3, <1>4, <1>5
<1>7. r \in PageRecs
  BY <1>6, Recs
<1> QED
  BY <1>2, <1>5, <1>7 DEF S, r

\* The records that are taken belong to the page of the first of them.
LEMMA CountIs ==
    ASSUME NEW d, Good(d, {}), NEW t \in Tags, HasTag(d.ix[t]), NEW w \in Puts \union Batches,
           NEW v \in DOMAIN d.ix[t], Here(d.ix[t], v, MinKey(w)),
           GetIdx(d.ix[t], MinKey(w)) = d.ix[t][v]
    PROVE  LET n == Count(d, t, w) IN
           n \in Nat /\ n >= 1 /\ Batch(d, t, v, Taking(w, n))
<1> DEFINE n == Count(d, t, w)
           ix == d.ix[t]
           V == Mem(d)
           nx == V[ix[v]].next
           end == IF nx = Nil THEN Max(Keys) + 1 ELSE GetPage(d, nx).idxval
<1>1. /\ ix \in Indexes /\ ix[v] \in PageNos /\ GetPage(d, ix[v]) = V[ix[v]] /\ v \in Nat
  BY GoodPage, ValueHere
<1>2. n = Appended(w, SizeOf(V[ix[v]].recs) + Reserve, PageSize + PageSize \div 2, end)
  BY <1>1 DEF Count
<1>3. DOMAIN w \subseteq Nat /\ IsFiniteSet(DOMAIN w) /\ \A k \in DOMAIN w : MinKey(w) <= k
  BY GivenRecords
<1> HIDE DEF end, n
<1>4. n \in Nat /\ n >= 1 /\ (n = 1 \/ \A k \in Lowest(DOMAIN w, n) : k < end)
  BY <1>2, <1>3, AppendedIs
<1>5. /\ Taking(w, n) \in PageRecs /\ DOMAIN Taking(w, n) = Lowest(DOMAIN w, n)
      /\ Lowest(DOMAIN w, n) \subseteq DOMAIN w /\ MinKey(w) \in Lowest(DOMAIN w, n)
      /\ Lowest(DOMAIN w, 1) = {MinKey(w)}
  BY <1>4, TakingIs
<1>6. ASSUME NEW k \in Lowest(DOMAIN w, n) PROVE Here(ix, v, k)
  <2>1. k \in Nat /\ MinKey(w) \in Nat /\ MinKey(w) <= k /\ v <= k
    BY <1>1, <1>3, <1>5 DEF Here
  <2>2. \A u \in DOMAIN ix : u \in Nat
    BY <1>1, ValueHere
  <2>3. CASE n = 1
    BY <1>5, <2>3
  <2>4. CASE nx = Nil
    <3>1. \A u \in DOMAIN ix : u <= v
      BY <2>4, GoodLinks
    <3> QED
      BY <2>1, <3>1 DEF Here
  <2>5. ASSUME n # 1, nx # Nil PROVE Here(ix, v, k)
    <3>1. PICK c \in DOMAIN ix : NextTo(ix, v, c) /\ nx = ix[c]
      BY <2>5, GoodLinks
    <3>2. GetPage(d, ix[c]) = V[ix[c]] /\ V[ix[c]].idxval = c
      BY GoodPage DEF Fine
    <3>3. end = c
      BY <2>5, <3>1, <3>2 DEF end
    <3>4. k < c
      BY <1>4, <2>5, <3>3
    <3> QED
      BY <1>1, <2>1, <2>2, <3>1, <3>4 DEF Here, NextTo
  <2> QED
    BY <2>3, <2>4, <2>5
<1>7. Batch(d, t, v, Taking(w, n))
  BY <1>5, <1>6 DEF Batch
<1> QED
  BY <1>4, <1>7 DEF n

\* The insert of a batch leaves the table good and takes at least one record of it.
LEMMA GoodInsertFast ==
    ASSUME NEW d, Good(d, {}), NEW t \in Tags, NEW w \in Batches, NEW reuse \in BOOLEAN,
           NEW p, p = GetIdx(d.ix[t], MinKey(w)),
           reuse => HasTag(d.ix[t]) /\ GetPage(d, p).next = Nil,
           NEW put, put = Taking(w, Count(d, t, w)), NEW o \in FastInserts(d, t, put, p, reuse)
    PROVE  /\ Good(o.d, {}) /\ HasPut(d, t, put, reuse, o)
           /\ Count(d, t, w) \in Nat /\ Count(d, t, w) >= 1
<1>1. CASE ~HasTag(d.ix[t])
  <2>1. o \in NewTag(d, t, put) /\ DOMAIN d.ix[t] = {}
    BY <1>1 DEF FastInserts, HasTag
  <2>2. Count(d, t, w) = Appended(w, 0, PageSize - Reserve, Max(Keys) + 1)
    BY <1>1 DEF Count
  <2>3. IsFiniteSet(DOMAIN w)
    BY GivenRecords
  <2>4. Count(d, t, w) \in Nat /\ Count(d, t, w) >= 1
    BY <2>2, <2>3, AppendedIs
  <2>5. put \in PageRecs /\ DOMAIN put # {}
    BY <2>4, TakingIs
  <2> QED
    BY <1>1, <2>1, <2>4, <2>5, GoodNew DEF HasPut
<1>2. CASE HasTag(d.ix[t])
  <2>1. MinKey(w) \in Nat
    BY GivenRecords
  <2>2. PICK v \in DOMAIN d.ix[t] :
          /\ Here(d.ix[t], v, MinKey(w)) /\ GetIdx(d.ix[t], MinKey(w)) = d.ix[t][v]
          /\ v \in Nat /\ d.ix[t][v] \in PageNos
          /\ GetPage(d, d.ix[t][v]) = Mem(d)[d.ix[t][v]]
    BY <1>2, <2>1, GoodHere
  <2>3. Count(d, t, w) \in Nat /\ Count(d, t, w) >= 1 /\ Batch(d, t, v, put)
    BY <1>2, <2>2, CountIs
  <2>4. AtPage(d, t, v, p, reuse)
    BY <2>2 DEF AtPage
  <2>5. LET recs == Overwrite(Mem(d)[p].recs, put) IN
        o \in {Done(WritePage(d, p, [GetPage(d, p) EXCEPT !.recs = recs]))}
              \union SplitSave(d, t, p, recs, TRUE, reuse)
    BY <1>2, <2>2 DEF FastInserts
  <2>6. Good(o.d, {}) /\ IsStored(d, t, p, put, reuse, o)
    <3>1. LET s == Overwrite(Mem(d)[p].recs, put) IN
          \A y \in {Done(WritePage(d, p, [GetPage(d, p) EXCEPT !.recs = s]))}
                   \union SplitSave(d, t, p, s, TRUE, reuse) :
             Good(y.d, {}) /\ IsStored(d, t, p, put, reuse, y)
      BY <2>3, <2>4, GoodStore
    <3> QED
      BY <2>5, <3>1
  <2> QED
    BY <2>2, <2>3, <2>4, <2>6 DEF HasPut
<1> QED
  BY <1>1, <1>2

-----------------------------------------------------------------------------
(* DeleteTag frees the pages one by one. *)

\* The member of D that has n - 1 others below it.
Nth(D, n) == CHOOSE v \in D : Cardinality({u \in D : u < v}) = n - 1

\* That way each member is met once.
LEMMA NthOf ==
    ASSUME NEW D \in SUBSET Nat, IsFiniteSet(D)
    PROVE  LET c == Cardinality(D) IN
           /\ c \in Nat /\ \A n \in 1..c : Nth(D, n) \in D
           /\ \A m, n \in 1..c : Nth(D, m) = Nth(D, n) => m = n
           /\ \A v \in D : \E n \in 1..c : Nth(D, n) = v
<1> DEFINE c == Cardinality(D)
           B(v) == {u \in D : u < v}
           rank == [v \in D |-> Cardinality(B(v)) + 1]
<1>1. c \in Nat
  BY FS_CardinalityType
<1>2. \A v \in D : v \in Nat
  OBVIOUS
<1>3. ASSUME NEW v \in D
      PROVE  Cardinality(B(v)) \in Nat /\ rank[v] \in 1..c /\ IsFiniteSet(B(v))
  <2>1. B(v) \in SUBSET D /\ v \notin B(v)
    BY <1>2
  <2> HIDE DEF B
  <2>2. IsFiniteSet(B(v)) /\ Cardinality(B(v)) <= c /\ (c = Cardinality(B(v)) => D = B(v))
    BY <2>1, FS_Subset
  <2>3. Cardinality(B(v)) \in Nat
    BY <2>2, FS_CardinalityType
  <2>4. Cardinality(B(v)) # c
    BY <2>1, <2>2
  <2> HIDE DEF c
  <2>5. Cardinality(B(v)) + 1 \in 1..c
    BY <1>1, <2>2, <2>3, <2>4
  <2>6. rank[v] = Cardinality(B(v)) + 1
    OBVIOUS
  <2> QED
    BY <2>2, <2>3, <2>5, <2>6
<1>4. ASSUME NEW u \in D, NEW v \in D, u < v PROVE Cardinality(B(u)) # Cardinality(B(v))
  <2>1. u \in Nat /\ v \in Nat
    BY <1>2
  <2>2. B(u) \in SUBSET B(v)
    <3> SUFFICES ASSUME NEW x \in D, x < u PROVE x < v
      OBVIOUS
    <3> QED
      BY <1>2, <1>4
  <2>3. u \in B(v) /\ u \notin B(u)
    BY <1>4, <2>1
  <2>4. IsFiniteSet(B(v))
    BY <1>3
  <2> HIDE DEF B
  <2>5. Cardinality(B(v)) = Cardinality(B(u)) => B(v) = B(u)
    BY <2>2, <2>4, FS_Subset
  <2> QED
    BY <2>3, <2>5
<1>5. \A u, v \in D : Cardinality(B(u)) = Cardinality(B(v)) => u = v
  <2> TAKE u, v \in D
  <2> HAVE Cardinality(B(u)) = Cardinality(B(v))
  <2>1. u \in Nat /\ v \in Nat
    BY <1>2
  <2>2. ~(u < v) /\ ~(v < u)
    BY <1>4
  <2> QED
    BY <2>1, <2>2
<1>6. rank \in Injection(D, 1..c)
  <2> HIDE DEF B
  <2>1. \A v \in D : rank[v] = Cardinality(B(v)) + 1
    OBVIOUS
  <2>2. rank \in [D -> 1..c]
    <3>1. \A v \in D : rank[v] \in 1..c
      BY <1>3
    <3>2. rank = [v \in D |-> rank[v]]
      OBVIOUS
    <3> HIDE DEF rank
    <3> QED
      BY <3>1, <3>2
  <2> HIDE DEF rank
  <2>3. \A u, v \in D : rank[u] = rank[v] => u = v
    <3> TAKE u, v \in D
    <3>1. Cardinality(B(u)) \in Nat /\ Cardinality(B(v)) \in Nat
      BY <1>3
    <3> QED
      BY <1>5, <2>1, <3>1
  <2> QED
    BY <2>2, <2>3 DEF Injection, IsInjective
<1>7. IsFiniteSet(1..c) /\ Cardinality(1..c) = c
  BY <1>1, FS_Interval
<1>8. rank \in Surjection(D, 1..c)
  <2> HIDE DEF rank
  <2> QED
    BY <1>6, <1>7, FS_Injection
<1>9. \A n \in 1..c : \E v \in D : Cardinality(B(v)) = n - 1
  <2> TAKE n \in 1..c
  <2>1. PICK v \in D : rank[v] = n
    BY <1>8 DEF Surjection
  <2>2. rank[v] = Cardinality(B(v)) + 1 /\ Cardinality(B(v)) \in Nat
    BY <1>3
  <2> HIDE DEF rank, B
  <2> QED
    BY <2>1, <2>2
<1>10. \A n : Nth(D, n) = CHOOSE v \in D : Cardinality(B(v)) = n - 1
  BY DEF Nth
<1> HIDE DEF B
<1>11. \A n \in 1..c : Nth(D, n) \in D /\ Cardinality(B(Nth(D, n))) = n - 1
  BY <1>9, <1>10
<1>12. \A m, n \in 1..c : Nth(D, m) = Nth(D, n) => m = n
  <2> TAKE m, n \in 1..c
  <2>1. m - 1 = n - 1 => m = n
    BY <1>1
  <2> QED
    BY <1>11, <2>1
<1>13. \A v \in D : \E n \in 1..c : Nth(D, n) = v
  <2> TAKE v \in D
  <2>1. rank[v] \in 1..c /\ rank[v] = Cardinality(B(v)) + 1 /\ Cardinality(B(v)) \in Nat
    BY <1>3
  <2> HIDE DEF rank
  <2>2. Cardinality(B(Nth(D, rank[v]))) = Cardinality(B(v)) /\ Nth(D, rank[v]) \in D
    BY <1>11, <2>1
  <2> QED
    BY <1>5, <2>1, <2>2
<1> QED
  BY <1>1, <1>11, <1>12, <1>13

\* The table after n pages of the index were freed.
Freeing(d, ix, c) ==
    CHOOSE f : f = [n \in 0..c |-> IF n = 0 THEN d ELSE PageFree(f[n - 1], ix[Nth(DOMAIN ix, n)])]

\* Deleting a tag frees its pages one after the other in the order of their index values.
LEMMA FreeingIs ==
    ASSUME NEW d, NEW ix, NEW c \in Nat
    PROVE  LET f == Freeing(d, ix, c) IN
           /\ f[0] = d
           /\ \A n \in 1..c : f[n] = PageFree(f[n - 1], ix[Nth(DOMAIN ix, n)])
<1> DEFINE Step(f, n) == PageFree(f[n - 1], ix[Nth(DOMAIN ix, n)])
           Runs(m, f) == f = [n \in 0..m |-> IF n = 0 THEN d ELSE Step(f, n)]
           T == {m \in Nat : ~ \E f : Runs(m, f)}
<1>1. T = {}
  <2> SUFFICES ASSUME T # {} PROVE FALSE
    OBVIOUS
  <2>1. PICK x \in T : \A y \in T : x <= y
    <3>1. T \in SUBSET Nat /\ T # {}
      OBVIOUS
    <3> HIDE DEF T
    <3> QED
      BY <3>1, LeastOf
  <2>2. x \in Nat /\ ~ \E f : Runs(x, f)
    OBVIOUS
  <2>3. CASE x = 0
    <3> DEFINE f == [n \in 0..0 |-> d]
    <3>1. \A n \in 0..0 : n = 0
      OBVIOUS
    <3>2. f = [n \in 0..0 |-> IF n = 0 THEN d ELSE Step(f, n)]
      BY <3>1
    <3> HIDE DEF f, Step
    <3> QED
      BY <2>2, <2>3, <3>2
  <2>4. CASE x # 0
    <3>1. x - 1 \in Nat /\ ~(x <= x - 1)
      BY <2>2, <2>4
    <3>2. x - 1 \notin T
      BY <2>1, <3>1
    <3>3. PICK g : Runs(x - 1, g)
      BY <3>1, <3>2
    <3> DEFINE f == [n \in 0..x |-> IF n = x THEN Step(g, x) ELSE g[n]]
    <3> HIDE DEF T
    <3>4. \A n \in 0..x : n # x => n \in 0..(x - 1)
      BY <2>2, <2>4
    <3>5. \A n \in 0..(x - 1) : g[n] = IF n = 0 THEN d ELSE Step(g, n)
      <4> HIDE DEF Step
      <4> QED
        BY <3>3
    <3>6. \A n \in 0..x : n # 0 => f[n - 1] = g[n - 1]
      <4> TAKE n \in 0..x
      <4> HAVE n # 0
      <4>1. n - 1 \in 0..x /\ n - 1 # x
        BY <2>2
      <4> HIDE DEF Step
      <4> QED
        BY <4>1
    <3>7. \A n \in 0..x : n # 0 => Step(f, n) = Step(g, n)
      <4> HIDE DEF f
      <4> QED
        BY <3>6
    <3>8. \A n \in 0..x : (IF n = x THEN Step(g, x) ELSE g[n]) = IF n = 0 THEN d ELSE Step(f, n)
      <4> HIDE DEF f, Step
      <4> TAKE n \in 0..x
      <4>1. CASE n = x
        BY <2>4, <3>7, <4>1
      <4>2. CASE n # x
        <5>1. n \in 0..(x - 1)
          BY <3>4, <4>2
        <5> QED
          BY <3>5, <3>7, <4>2, <5>1
      <4> QED
        BY <4>1, <4>2
    <3>9. f = [n \in 0..x |-> IF n = x THEN Step(g, x) ELSE g[n]]
      OBVIOUS
    <3> HIDE DEF f, Step
    <3>10. f = [n \in 0..x |-> IF n = 0 THEN d ELSE Step(f, n)]
      BY <3>8, <3>9
    <3> QED
      BY <2>2, <3>10
  <2> QED
    BY <2>3, <2>4
<1>2. \E f : Runs(c, f)
  BY <1>1
<1>3. Freeing(d, ix, c) = CHOOSE f : Runs(c, f)
  BY DEF Freeing
<1> DEFINE f == Freeing(d, ix, c)
<1>4. Runs(c, f)
  <2> HIDE DEF Runs
  <2> QED
    BY <1>2, <1>3
<1> HIDE DEF f
<1>5. \A n \in 0..c : f[n] = IF n = 0 THEN d ELSE Step(f, n)
  <2> HIDE DEF Step
  <2> QED
    BY <1>4
<1> QED
  <2>1. 0 \in 0..c /\ \A n \in 1..c : n \in 0..c /\ n # 0
    OBVIOUS
  <2> HIDE DEF Step
  <2>2. f[0] = d /\ \A n \in 1..c : f[n] = Step(f, n)
    BY <1>5, <2>1
  <2> QED
    BY <2>2 DEF Step, f

\* A table is its parts.
LEMMA TableIs ==
    ASSUME NEW d \in Tables, NEW e \in Tables,
           d.disk = e.disk, d.dirty = e.dirty, d.free = e.free, d.ix = e.ix
    PROVE  d = e
BY DEF Tables

\* Freeing a page does not look at the index.
LEMMA FreeCleared ==
    ASSUME NEW d \in Tables, NEW t \in Tags, NEW p \in PageNos, d.disk[p] # Free
    PROVE  [PageFree(d, p) EXCEPT !.ix[t] = ClearIdxTree] =
           PageFree([d EXCEPT !.ix[t] = ClearIdxTree], p)
<1> DEFINE e == PageFree(d, p)
           c == [d EXCEPT !.ix[t] = ClearIdxTree]
           x == [e EXCEPT !.ix[t] = ClearIdxTree]
           y == PageFree(c, p)
<1>1. ClearIdxTree \in Indexes
  BY ChainNone
<1>2. /\ e \in Tables /\ e.dirty = d.dirty /\ e.ix = d.ix
      /\ e.free = <<p>> \o d.free /\ e.disk = [d.disk EXCEPT ![p] = Free]
  BY Freed
<1>3. IndexIsSet(d, t, ClearIdxTree, c)
  BY <1>1, IndexSet
<1> HIDE DEF e, c
<1>4. IndexIsSet(e, t, ClearIdxTree, x)
  BY <1>1, <1>2, IndexSet
<1>5. c \in Tables /\ c.disk[p] # Free
  BY <1>3 DEF IndexIsSet
<1>6. /\ y \in Tables /\ y.dirty = c.dirty /\ y.ix = c.ix
      /\ y.free = <<p>> \o c.free /\ y.disk = [c.disk EXCEPT ![p] = Free]
  BY <1>5, Freed
<1> HIDE DEF x, y
<1>7. /\ x \in Tables /\ x.disk = y.disk /\ x.dirty = y.dirty /\ x.free = y.free /\ x.ix = y.ix
  BY <1>2, <1>3, <1>4, <1>6 DEF IndexIsSet
<1>8. x = y
  BY <1>6, <1>7, TableIs
<1> QED
  BY <1>8 DEF x, y, e, c

\* A tag leaves the index, and its pages are held.
LEMMA GoodCleared ==
    ASSUME NEW d, Good(d, {}), NEW t \in Tags
    PROVE  LET e == [d EXCEPT !.ix[t] = ClearIdxTree] IN
           /\ Good(e, {d.ix[t][v] : v \in DOMAIN d.ix[t]})
           /\ IndexIsSet(d, t, ClearIdxTree, e)
<1> DEFINE e == [d EXCEPT !.ix[t] = ClearIdxTree]
           L == {d.ix[t][v] : v \in DOMAIN d.ix[t]}
<1>1. d \in Tables /\ d.ix \in [Tags -> Indexes] /\ Accounted(d.ix, d.free, d.disk, {})
  BY GoodParts DEF Good
<1>2. ClearIdxTree \in Indexes /\ DOMAIN ClearIdxTree = {} /\ \A view : Chained(ClearIdxTree, view)
  BY ChainNone
<1>3. IndexIsSet(d, t, ClearIdxTree, e)
  BY <1>1, <1>2, IndexSet
<1> HIDE DEF e
<1>4. Accounted([d.ix EXCEPT ![t] = ClearIdxTree], d.free, d.disk, L)
  <2>1. DOMAIN d.ix = Tags /\ DOMAIN ClearIdxTree \subseteq DOMAIN d.ix[t]
    BY <1>1, <1>2
  <2>2. \A u \in DOMAIN ClearIdxTree : ClearIdxTree[u] = d.ix[t][u]
    BY <1>2
  <2>3. {d.ix[t][u] : u \in DOMAIN d.ix[t] \ DOMAIN ClearIdxTree} = L
    BY <1>2
  <2>4. Accounted([d.ix EXCEPT ![t] = ClearIdxTree], d.free, d.disk,
                  {d.ix[t][u] : u \in DOMAIN d.ix[t] \ DOMAIN ClearIdxTree})
    BY <1>1, <2>1, <2>2, AccountShrinks
  <2> QED
    BY <2>3, <2>4
<1> HIDE DEF L
<1>5. ASSUME NEW u \in Tags PROVE Chained(e.ix[u], Mem(e)) /\ Chained(e.ix[u], e.disk)
  <2>1. e.ix[u] = IF u = t THEN ClearIdxTree ELSE d.ix[u]
    BY <1>1, <1>3 DEF IndexIsSet
  <2>2. Mem(e) = Mem(d) /\ e.disk = d.disk
    BY <1>3 DEF IndexIsSet
  <2>3. Chained(d.ix[u], Mem(d)) /\ Chained(d.ix[u], d.disk)
    BY DEF Good
  <2> QED
    BY <1>2, <2>1, <2>2, <2>3
<1>6. \A q \in DOMAIN e.dirty : e.dirty[q].kind = "data" /\ e.disk[q] # Absent
  BY <1>3 DEF Good, IndexIsSet
<1>7. Good(e, L)
  BY <1>3, <1>4, <1>5, <1>6 DEF Good, IndexIsSet
<1> QED
  BY <1>3, <1>7 DEF e, L

\* What DeleteTag makes of the table.
TagDeleted(d, t) ==
    LET ix == d.ix[t]
        c == Cardinality(DOMAIN ix)
    IN  [Freeing(d, ix, c)[c] EXCEPT !.ix[t] = ClearIdxTree]

IsTagDeleted(d, t, e) ==
    /\ e.ix = [d.ix EXCEPT ![t] = ClearIdxTree] /\ e.dirty = d.dirty
    /\ \A q \in PageNos : (\A v \in DOMAIN d.ix[t] : d.ix[t][v] # q) => e.disk[q] = d.disk[q]

\* The pages that are freed after the first n.
Left(ix, n) == {ix[Nth(DOMAIN ix, m)] : m \in (n + 1)..Cardinality(DOMAIN ix)}

\* After n pages.
AfterFreeing(d, t, n, x) ==
    LET e == [x EXCEPT !.ix[t] = ClearIdxTree] IN
    /\ Good(e, Left(d.ix[t], n)) /\ IsTagDeleted(d, t, e) /\ e.disk = x.disk
    /\ x \in Tables /\ \A p \in Left(d.ix[t], n) : p \in PageNos /\ x.disk[p] # Free

\* The values of an index are numbers, finitely many.
LEMMA ValuesOf ==
    ASSUME NEW ix \in Indexes
    PROVE  DOMAIN ix \in SUBSET Nat /\ IsFiniteSet(DOMAIN ix)
<1>1. DOMAIN ix \in SUBSET ({0} \union Keys)
  BY Index
<1>2. IsFiniteSet({0}) /\ IsFiniteSet(Keys) /\ Keys \subseteq Nat
  BY Constants, FS_Singleton
<1>3. IsFiniteSet({0} \union Keys)
  BY <1>2, FS_Union
<1>4. IsFiniteSet(DOMAIN ix)
  BY <1>1, <1>3, FS_Subset
<1>5. \A v \in DOMAIN ix : v \in Nat
  <2> TAKE v \in DOMAIN ix
  <2>1. v \in {0} \/ v \in Keys
    BY <1>1
  <2>2. Keys \subseteq Nat \ {0} /\ 0 \in Nat
    BY Constants
  <2> QED
    BY <2>1, <2>2
<1> QED
  BY <1>4, <1>5

\* One page more.
LEMMA FreesOne ==
    ASSUME NEW d, Good(d, {}), NEW t \in Tags, NEW n \in 1..Cardinality(DOMAIN d.ix[t]),
           Cardinality(DOMAIN d.ix[t]) \in Nat,
           NEW x, AfterFreeing(d, t, n - 1, x)
    PROVE  AfterFreeing(d, t, n, PageFree(x, d.ix[t][Nth(DOMAIN d.ix[t], n)]))
<1> DEFINE ix == d.ix[t]
           D == DOMAIN ix
           c == Cardinality(D)
           p == ix[Nth(D, n)]
           e == [x EXCEPT !.ix[t] = ClearIdxTree]
           y == PageFree(x, p)
           w == [y EXCEPT !.ix[t] = ClearIdxTree]
           L == Left(ix, n - 1)
           M == Left(ix, n)
<1>1. D \in SUBSET Nat /\ IsFiniteSet(D) /\ d.ix[t] \in Indexes
  BY GoodParts, ValuesOf
<1>2. /\ \A m \in 1..c : Nth(D, m) \in D
      /\ \A l, m \in 1..c : Nth(D, l) = Nth(D, m) => l = m
  BY <1>1, NthOf
<1>3. IsInjective(ix)
  BY <1>2, GoodPage
<1>4. p \in L /\ M = L \ {p}
  <2>1. c \in Nat /\ n \in 1..c
    OBVIOUS
  <2>2. \A l, m \in 1..c : ix[Nth(D, l)] = ix[Nth(D, m)] => l = m
    BY <1>2, <1>3 DEF IsInjective
  <2>3. L = {ix[Nth(D, m)] : m \in n..c} /\ M = {ix[Nth(D, m)] : m \in (n + 1)..c}
    <3>1. (n - 1) + 1 = n
      BY <2>1
    <3> QED
      BY <3>1 DEF Left
  <2> HIDE DEF c, L, M
  <2>4. n..c = {n} \union ((n + 1)..c) /\ n \notin (n + 1)..c /\ (n + 1)..c \subseteq 1..c
    BY <2>1
  <2> DEFINE P(m) == ix[Nth(D, m)]
  <2>5. L = {P(n)} \union M
    <3> HIDE DEF P
    <3>1. L = {P(m) : m \in n..c} /\ M = {P(m) : m \in (n + 1)..c}
      BY <2>3 DEF P
    <3> QED
      BY <2>4, <3>1
  <2>6. P(n) \notin M
    <3> SUFFICES ASSUME NEW m \in (n + 1)..c, P(n) = P(m) PROVE FALSE
      BY <2>3
    <3> QED
      BY <2>1, <2>2, <2>4
  <2> QED
    BY <2>5, <2>6
<1>5. /\ Good(e, L) /\ IsTagDeleted(d, t, e) /\ e.disk = x.disk
      /\ x \in Tables /\ \A q \in L : q \in PageNos /\ x.disk[q] # Free
  BY DEF AfterFreeing
<1>6. p = ix[Nth(D, n)] /\ Nth(D, n) \in D
  BY <1>2
<1>7. w = PageFree(e, p)
  BY <1>4, <1>5, FreeCleared
<1> HIDE DEF e, p, L, M, w
<1>8. /\ y \in Tables /\ y.disk = [x.disk EXCEPT ![p] = Free]
  BY <1>4, <1>5, Freed
<1> HIDE DEF y
<1>9. /\ Good(w, L \ {p}) /\ SamePages(e, w) /\ w.dirty = e.dirty
      /\ \A q \in PageNos \ {p} : w.disk[q] = e.disk[q]
  <2>1. Good(e, L) /\ p \in L /\ p \in PageNos /\ e.disk[p] # Free
    BY <1>4, <1>5
  <2>2. LET u == PageFree(e, p) IN
        /\ Good(u, L \ {p}) /\ SamePages(e, u) /\ u.dirty = e.dirty
        /\ \A q \in PageNos \ {p} : u.disk[q] = e.disk[q]
    BY <2>1, GoodFree
  <2> QED
    BY <1>7, <2>2
<1>10. x.disk \in [PageNos -> Pages] /\ y.disk \in [PageNos -> Pages]
  BY <1>5, <1>8 DEF Tables
<1>11. w.disk = y.disk
  <2>1. IndexIsSet(y, t, ClearIdxTree, [y EXCEPT !.ix[t] = ClearIdxTree])
    BY <1>8, ChainNone, IndexSet
  <2> QED
    BY <2>1 DEF IndexIsSet, w
<1>12. \A q \in M : q \in PageNos /\ y.disk[q] # Free
  BY <1>4, <1>5, <1>8, <1>10
<1>13. IsTagDeleted(d, t, w)
  <2>1. w.ix = [d.ix EXCEPT ![t] = ClearIdxTree] /\ w.dirty = d.dirty
    BY <1>5, <1>9 DEF IsTagDeleted, SamePages
  <2>2. ASSUME NEW q \in PageNos, \A v \in DOMAIN d.ix[t] : d.ix[t][v] # q
        PROVE  w.disk[q] = d.disk[q]
    <3>1. q # p
      BY <1>6, <2>2
    <3> QED
      BY <1>5, <1>9, <2>2, <3>1 DEF IsTagDeleted
  <2> QED
    BY <2>1, <2>2 DEF IsTagDeleted
<1> QED
  BY <1>4, <1>8, <1>9, <1>11, <1>12, <1>13 DEF AfterFreeing, w, y, p, M

\* Deleting a tag leaves the table good, with none of its pages left in use.
LEMMA GoodDeleteTag ==
    ASSUME NEW d, Good(d, {}), NEW t \in Tags
    PROVE  Good(TagDeleted(d, t), {}) /\ IsTagDeleted(d, t, TagDeleted(d, t))
<1> DEFINE ix == d.ix[t]
           D == DOMAIN ix
           c == Cardinality(D)
           f == Freeing(d, ix, c)
<1>1. D \in SUBSET Nat /\ IsFiniteSet(D)
  BY GoodParts, ValuesOf
<1>2. /\ c \in Nat /\ \A m \in 1..c : Nth(D, m) \in D
      /\ \A v \in D : \E n \in 1..c : Nth(D, n) = v
  BY <1>1, NthOf
<1>3. f[0] = d /\ \A n \in 1..c : f[n] = PageFree(f[n - 1], ix[Nth(D, n)])
  BY <1>2, FreeingIs
<1> HIDE DEF f
<1>4. AfterFreeing(d, t, 0, d)
  <2>1. Left(ix, 0) = {ix[v] : v \in D}
    <3>1. Left(ix, 0) = {ix[Nth(D, m)] : m \in 1..c}
      BY DEF Left
    <3> HIDE DEF c, D
    <3> QED
      BY <1>2, <3>1
  <2> DEFINE e == [d EXCEPT !.ix[t] = ClearIdxTree]
  <2>2. Good(e, {ix[v] : v \in D}) /\ IndexIsSet(d, t, ClearIdxTree, e)
    BY GoodCleared
  <2> HIDE DEF e
  <2>3. IsTagDeleted(d, t, e) /\ e.disk = d.disk
    BY <2>2 DEF IndexIsSet, IsTagDeleted
  <2>4. d \in Tables /\ \A v \in D : ix[v] \in PageNos /\ d.disk[ix[v]] # Free
    BY GoodParts, GoodPage
  <2> HIDE DEF ix
  <2>5. Good(e, Left(ix, 0)) /\ \A p \in Left(ix, 0) : p \in PageNos /\ d.disk[p] # Free
    BY <2>1, <2>2, <2>4
  <2> QED
    BY <2>3, <2>4, <2>5 DEF AfterFreeing, e, ix
<1> DEFINE T == {n \in Nat : n <= c /\ ~AfterFreeing(d, t, n, f[n])}
<1>5. T = {}
  <2> SUFFICES ASSUME T # {} PROVE FALSE
    OBVIOUS
  <2>1. PICK n \in T : \A m \in T : n <= m
    <3>1. T \in SUBSET Nat /\ T # {}
      OBVIOUS
    <3> HIDE DEF T
    <3> QED
      BY <3>1, LeastOf
  <2>2. n \in Nat /\ n <= c /\ ~AfterFreeing(d, t, n, f[n])
    OBVIOUS
  <2>3. n # 0
    BY <1>3, <1>4, <2>2
  <2>4. n - 1 \in Nat /\ n - 1 <= c /\ ~(n <= n - 1) /\ n \in 1..c
    BY <1>2, <2>2, <2>3
  <2>5. AfterFreeing(d, t, n - 1, f[n - 1])
    BY <2>1, <2>4
  <2>6. AfterFreeing(d, t, n, PageFree(f[n - 1], ix[Nth(D, n)]))
    BY <1>2, <2>4, <2>5, FreesOne
  <2> QED
    BY <1>3, <2>2, <2>4, <2>6
<1>6. AfterFreeing(d, t, c, f[c])
  BY <1>2, <1>5
<1>7. Left(ix, c) = {}
  <2>1. (c + 1)..c = {}
    BY <1>2
  <2> QED
    BY <2>1 DEF Left
<1>8. TagDeleted(d, t) = [f[c] EXCEPT !.ix[t] = ClearIdxTree]
  BY DEF TagDeleted, f
<1> QED
  BY <1>6, <1>7, <1>8 DEF AfterFreeing

-----------------------------------------------------------------------------
(* The table. *)

\* The inductive invariant: between two calls the table is sound, in memory
\* and on disk, and no page is held.
IInv == Good(Table, {})

\* The pages of a table that was closed with one tag.
Loaded(load) ==
    LET n == Len(load) IN
    [p \in PageNos |->
        IF p > n THEN Absent
        ELSE Page(IF p = 1 THEN 0 ELSE Min(load[p]), IF p = 1 THEN Nil ELSE p - 1,
                  IF p = n THEN Nil ELSE p + 1, [k \in load[p] |-> Min(Vals)])]

LoadedIndex(load) ==
    LET n == Len(load) IN
    IF n = 0 THEN ClearIdxTree
    ELSE [i \in {0} \union {Min(load[p]) : p \in 2..n} |->
            IF i = 0 THEN 1 ELSE CHOOSE p \in 2..n : Min(load[p]) = i]

\* The value of a page of such a table.
ValueOf(load, p) == IF p = 1 THEN 0 ELSE Min(load[p])

\* The values go up from page to page, and what is in a page is between its
\* value and the next.
LEMMA LoadedValues ==
    ASSUME NEW load \in Loads
    PROVE  LET n == Len(load) IN
           /\ n \in Nat /\ n <= NumPages
           /\ \A p \in 1..n : /\ load[p] \subseteq Keys /\ load[p] # {}
                              /\ ValueOf(load, p) \in {0} \union Keys
                              /\ \A k \in load[p] : ValueOf(load, p) <= k
           /\ \A p, q \in 1..n : p < q => ValueOf(load, p) < ValueOf(load, q)
           /\ \A p, q \in 1..n : p < q => \A k \in load[p] : k < ValueOf(load, q)
<1> DEFINE n == Len(load)
<1>1. /\ load \in Seq((SUBSET Keys) \ {{}}) /\ n <= NumPages
      /\ \A i, j \in 1..n : i < j => \A k \in load[i], l \in load[j] : k < l
  BY TableAssumption
<1>2. n \in Nat /\ \A p \in 1..n : load[p] \in (SUBSET Keys) \ {{}}
  BY <1>1
<1> HIDE DEF n
<1>3. \A p \in 1..n : load[p] \subseteq Keys /\ load[p] # {}
  BY <1>2
<1>4. \A k \in Keys : k \in Nat /\ 0 < k
  BY Constants
<1>5. ASSUME NEW p \in 1..n PROVE Min(load[p]) \in load[p] /\ \A k \in load[p] : Min(load[p]) <= k
  <2>1. load[p] \in SUBSET Nat /\ load[p] # {}
    BY <1>3, <1>4
  <2> QED
    BY <2>1, MinOf
<1>6. ASSUME NEW p \in 1..n
      PROVE  /\ ValueOf(load, p) \in {0} \union Keys /\ ValueOf(load, p) \in Nat
             /\ \A k \in load[p] : k \in Nat /\ ValueOf(load, p) <= k
             /\ p # 1 => ValueOf(load, p) \in load[p]
  <2>1. CASE p = 1
    <3>1. ValueOf(load, p) = 0
      BY <2>1 DEF ValueOf
    <3>2. \A k \in load[p] : k \in Nat /\ 0 <= k
      BY <1>3, <1>4
    <3> QED
      BY <2>1, <3>1, <3>2
  <2>2. CASE p # 1
    <3>1. ValueOf(load, p) = Min(load[p])
      BY <2>2 DEF ValueOf
    <3> QED
      BY <1>3, <1>4, <1>5, <3>1
  <2> QED
    BY <2>1, <2>2
<1>7. ASSUME NEW p \in 1..n, NEW q \in 1..n, p < q, NEW k \in load[p]
      PROVE  k < ValueOf(load, q)
  <2>1. q # 1 /\ n \in Nat
    BY <1>2, <1>7
  <2>2. ValueOf(load, q) \in load[q]
    BY <1>6, <2>1
  <2> QED
    BY <1>1, <1>7, <2>2 DEF n
<1>8. ASSUME NEW p \in 1..n, NEW q \in 1..n, p < q
      PROVE  ValueOf(load, p) < ValueOf(load, q)
  <2>1. PICK k \in load[p] : TRUE
    BY <1>3
  <2>2. k < ValueOf(load, q)
    BY <1>7, <1>8
  <2>3. ValueOf(load, p) <= k /\ k \in Nat /\ ValueOf(load, p) \in Nat /\ ValueOf(load, q) \in Nat
    BY <1>6
  <2> QED
    BY <2>2, <2>3
<1> QED
  BY <1>1, <1>2, <1>3, <1>6, <1>7, <1>8 DEF n

\* The index of a table opened on a file finds each page under its value: 0 for the first
\* page, the least key for the others.
LEMMA LoadedIndexIs ==
    ASSUME NEW load \in Loads
    PROVE  LET n == Len(load)
               ix == LoadedIndex(load) IN
           /\ ix \in Indexes
           /\ \A i : i \in DOMAIN ix <=> \E p \in 1..n : i = ValueOf(load, p)
           /\ \A p \in 1..n : ix[ValueOf(load, p)] = p
<1> DEFINE n == Len(load)
           ix == LoadedIndex(load)
<1>1. /\ n \in Nat /\ n <= NumPages
      /\ \A p \in 1..n : ValueOf(load, p) \in {0} \union Keys
      /\ \A p, q \in 1..n : p < q => ValueOf(load, p) < ValueOf(load, q)
  BY LoadedValues
<1>2. CASE n = 0
  <2>1. ix = ClearIdxTree /\ 1..n = {}
    BY <1>2 DEF LoadedIndex
  <2> QED
    BY <2>1, ChainNone
<1>3. CASE n # 0
  <2>1. ix = [i \in {0} \union {Min(load[p]) : p \in 2..n} |->
                IF i = 0 THEN 1 ELSE CHOOSE p \in 2..n : Min(load[p]) = i]
    BY <1>3 DEF LoadedIndex
  <2>2. 1 \in 1..n /\ ValueOf(load, 1) = 0
    BY <1>1, <1>3 DEF ValueOf
  <2>3. \A p \in 2..n : p \in 1..n /\ p # 1 /\ ValueOf(load, p) = Min(load[p])
    BY <1>1 DEF ValueOf
  <2>4. \A p \in 1..n : p = 1 \/ p \in 2..n
    BY <1>1
  <2> HIDE DEF ix, n
  <2>5. \A p, q \in 1..n : ValueOf(load, p) = ValueOf(load, q) => p = q
    <3> TAKE p, q \in 1..n
    <3>1. p \in Nat /\ q \in Nat
      BY <1>1
    <3>2. ValueOf(load, p) \in Nat /\ ValueOf(load, q) \in Nat
      <4>1. /\ ValueOf(load, p) \in {0} \/ ValueOf(load, p) \in Keys
            /\ ValueOf(load, q) \in {0} \/ ValueOf(load, q) \in Keys
        BY <1>1
      <4>2. Keys \subseteq Nat \ {0} /\ 0 \in Nat
        BY Constants
      <4> QED
        BY <4>1, <4>2
    <3> QED
      BY <1>1, <3>1, <3>2
  <2>6. \A i : i \in DOMAIN ix <=> \E p \in 1..n : i = ValueOf(load, p)
    BY <2>1, <2>2, <2>3, <2>4
  <2>7. ASSUME NEW p \in 1..n PROVE ix[ValueOf(load, p)] = p
    <3>1. CASE p = 1
      BY <2>1, <2>2, <3>1
    <3>2. CASE p # 1
      <4>1. p \in 2..n /\ ValueOf(load, p) = Min(load[p])
        BY <2>3, <2>4, <3>2
      <4>2. Min(load[p]) # 0
        BY <2>2, <2>5, <3>2, <4>1
      <4>3. \A q \in 2..n : Min(load[q]) = Min(load[p]) => q = p
        BY <2>3, <2>5, <4>1
      <4>4. (CHOOSE q \in 2..n : Min(load[q]) = Min(load[p])) = p
        BY <4>1, <4>3
      <4>5. ix[Min(load[p])] = CHOOSE q \in 2..n : Min(load[q]) = Min(load[p])
        BY <2>1, <4>1, <4>2
      <4> QED
        BY <4>1, <4>4, <4>5
    <3> QED
      BY <3>1, <3>2
  <2>8. DOMAIN ix \subseteq {0} \union Keys
    BY <1>1, <2>6
  <2>9. ix \in [DOMAIN ix -> PageNos]
    <3>1. \A i \in DOMAIN ix : ix[i] \in PageNos
      <4> TAKE i \in DOMAIN ix
      <4>1. PICK p \in 1..n : i = ValueOf(load, p)
        BY <2>6
      <4>2. p \in PageNos
        BY <1>1, Constants DEF PageNos
      <4> QED
        BY <2>7, <4>1, <4>2
    <3>2. ix = [i \in DOMAIN ix |-> ix[i]]
      BY <2>1
    <3> QED
      BY <3>1, <3>2
  <2>10. ix \in Indexes
    BY <2>8, <2>9, Index
  <2> QED
    BY <2>6, <2>7, <2>10 DEF ix, n
<1> QED
  BY <1>2, <1>3

\* Every page of the opened file carries the index value and the links its chain needs.
LEMMA LoadedFine ==
    ASSUME NEW load \in Loads, NEW p \in 1..Len(load)
    PROVE  Fine(LoadedIndex(load), ValueOf(load, p), Loaded(load)[p])
<1> DEFINE n == Len(load)
           ix == LoadedIndex(load)
           V(q) == ValueOf(load, q)
           page == Loaded(load)[p]
           r == [k \in load[p] |-> Min(Vals)]
           pr == IF p = 1 THEN Nil ELSE p - 1
           nx == IF p = n THEN Nil ELSE p + 1
<1>1. /\ n \in Nat /\ n <= NumPages
      /\ \A q \in 1..n : /\ load[q] \subseteq Keys /\ load[q] # {}
                         /\ V(q) \in {0} \union Keys
                         /\ \A k \in load[q] : V(q) <= k
      /\ \A o, q \in 1..n : o < q => V(o) < V(q)
      /\ \A o, q \in 1..n : o < q => \A k \in load[o] : k < V(q)
  BY LoadedValues
<1>2. /\ \A i : i \in DOMAIN ix <=> \E q \in 1..n : i = V(q)
      /\ \A q \in 1..n : ix[V(q)] = q
  BY LoadedIndexIs
<1>3. p \in PageNos /\ p \in 1..n /\ p \in Nat
  BY <1>1, Constants DEF PageNos
<1>4. page = Page(V(p), pr, nx, r)
  <2>1. ~(p > n)
    BY <1>1
  <2> QED
    BY <1>3, <2>1 DEF Loaded, ValueOf
<1>5. r \in PageRecs /\ DOMAIN r = load[p]
  <2>1. Min(Vals) \in Vals
    BY Constants, MinOf
  <2>2. DOMAIN r = load[p] /\ r \in [load[p] -> Vals]
    BY <2>1
  <2> HIDE DEF r
  <2>3. DOMAIN r \subseteq Keys /\ r \in [DOMAIN r -> Vals]
    BY <1>1, <2>2
  <2> QED
    BY <2>2, <2>3, Recs
<1> HIDE DEF r, V, ix, n
<1>6. \A q \in 1..n : V(q) \in Nat
  <2> TAKE q \in 1..n
  <2>1. V(q) \in {0} \/ V(q) \in Keys
    BY <1>1
  <2>2. Keys \subseteq Nat \ {0} /\ 0 \in Nat
    BY Constants
  <2> QED
    BY <2>1, <2>2
<1>7. p - 1 \in PageNos \/ p = 1
  BY <1>1, <1>3, Constants DEF PageNos
<1>8. p = n \/ (p + 1 \in PageNos /\ p + 1 \in 1..n)
  BY <1>1, <1>3, Constants DEF PageNos
<1>9. page \in Pages /\ page.kind = "data" /\ page.idxval = V(p) /\ page.prev = pr /\ page.next = nx
      /\ page.recs = r
  <2>1. pr \in PageNos \union {Nil} /\ nx \in PageNos \union {Nil}
    BY <1>7, <1>8
  <2> HIDE DEF pr, nx
  <2>2. V(p) \in Nat
    BY <1>3, <1>6
  <2>3. r \in PageRecs
    BY <1>5
  <2> QED
    BY <1>4, <2>1, <2>2, <2>3 DEF Page, Pages
<1> HIDE DEF page
<1>10. \A o, q \in 1..n : V(o) <= V(q) => o <= q
  <2> TAKE o, q \in 1..n
  <2>1. o \in Nat /\ q \in Nat /\ V(o) \in Nat /\ V(q) \in Nat
    BY <1>6
  <2>2. q < o => V(q) < V(o)
    BY <1>1
  <2> QED
    BY <2>1, <2>2
<1>11. \A o, q \in 1..n : o <= q => V(o) <= V(q)
  <2> TAKE o, q \in 1..n
  <2>1. o \in Nat /\ q \in Nat /\ V(o) \in Nat /\ V(q) \in Nat
    BY <1>6
  <2>2. o < q => V(o) < V(q)
    BY <1>1
  <2> QED
    BY <2>1, <2>2
<1>12. PrevIs(ix, V(p), page.prev)
  <2>1. CASE p = 1
    <3>1. V(1) = 0
      BY DEF V, ValueOf
    <3> QED
      BY <1>9, <2>1, <3>1 DEF PrevIs
  <2>2. CASE p # 1
    <3>1. p - 1 \in 1..n /\ p - 1 < p /\ \A q \in 1..n : q <= p - 1 \/ q >= p
      BY <1>1, <1>3, <2>2
    <3>2. V(p - 1) \in DOMAIN ix /\ ix[V(p - 1)] = p - 1
      BY <1>2, <3>1
    <3>3. V(p - 1) < V(p)
      BY <1>1, <1>3, <3>1
    <3>4. \A w \in DOMAIN ix : w <= V(p - 1) \/ w >= V(p)
      <4> TAKE w \in DOMAIN ix
      <4>1. PICK q \in 1..n : w = V(q)
        BY <1>2
      <4>2. CASE q <= p - 1
        BY <1>11, <3>1, <4>1, <4>2
      <4>3. CASE q >= p
        <5>1. p <= q
          BY <1>3, <4>3
        <5>2. V(p) <= V(q) /\ V(p) \in Nat /\ V(q) \in Nat
          BY <1>3, <1>6, <1>11, <5>1
        <5> QED
          BY <4>1, <5>2
      <4> QED
        BY <3>1, <4>2, <4>3
    <3> QED
      BY <1>9, <2>2, <3>2, <3>3, <3>4 DEF PrevIs, NextTo
  <2> QED
    BY <2>1, <2>2
<1>13. NextIs(ix, V(p), page.next)
  <2>1. CASE p = n
    <3>1. \A w \in DOMAIN ix : w <= V(p)
      <4> TAKE w \in DOMAIN ix
      <4>1. PICK q \in 1..n : w = V(q)
        BY <1>2
      <4>2. q <= p
        BY <1>1, <2>1
      <4> QED
        BY <1>3, <1>11, <4>1, <4>2
    <3> QED
      BY <1>9, <2>1, <3>1 DEF NextIs
  <2>2. CASE p # n
    <3>1. p + 1 \in 1..n /\ p < p + 1 /\ \A q \in 1..n : q <= p \/ p + 1 <= q
      BY <1>1, <1>3, <1>8, <2>2
    <3>2. V(p + 1) \in DOMAIN ix /\ ix[V(p + 1)] = p + 1
      BY <1>2, <3>1
    <3>3. V(p) < V(p + 1)
      BY <1>1, <1>3, <3>1
    <3>4. \A w \in DOMAIN ix : w <= V(p) \/ w >= V(p + 1)
      <4> TAKE w \in DOMAIN ix
      <4>1. PICK q \in 1..n : w = V(q)
        BY <1>2
      <4>2. CASE q <= p
        BY <1>3, <1>11, <4>1, <4>2
      <4>3. CASE p + 1 <= q
        <5>1. V(p + 1) <= V(q) /\ V(p + 1) \in Nat /\ V(q) \in Nat
          BY <1>6, <1>11, <3>1, <4>3
        <5> QED
          BY <4>1, <5>1
      <4> QED
        BY <3>1, <4>2, <4>3
    <3> QED
      BY <1>9, <2>2, <3>2, <3>3, <3>4 DEF NextIs, NextTo
  <2> QED
    BY <2>1, <2>2
<1>14. ASSUME NEW k \in load[p] PROVE Here(ix, V(p), k)
  <2>1. V(p) <= k /\ V(p) \in Nat /\ k \in Nat
    BY <1>1, <1>3, <1>6, Constants
  <2>2. ASSUME NEW w \in DOMAIN ix, w <= k PROVE w <= V(p)
    <3>1. PICK q \in 1..n : w = V(q)
      BY <1>2
    <3>2. q <= p
      <4>1. p < q => k < V(q)
        BY <1>1, <1>3
      <4>2. q \in Nat /\ V(q) \in Nat
        BY <1>6
      <4> QED
        BY <1>3, <2>1, <2>2, <3>1, <4>1, <4>2
    <3> QED
      BY <1>3, <1>11, <3>1, <3>2
  <2> QED
    BY <2>1, <2>2 DEF Here
<1>15. DOMAIN page.recs # {} /\ \A k \in DOMAIN page.recs : Here(ix, V(p), k)
  BY <1>1, <1>3, <1>5, <1>9, <1>14
<1>16. Fine(ix, V(p), page)
  BY <1>9, <1>12, <1>13, <1>15 DEF Fine
<1> QED
  BY <1>16 DEF ix, V, page

\* A table that is opened is sound.
LEMMA GoodInit == Init => IInv
<1> SUFFICES ASSUME Init PROVE IInv
  OBVIOUS
<1>1. PICK t \in Tags, load \in Loads :
        /\ disk = Loaded(load)
        /\ index = [u \in Tags |-> IF u # t THEN ClearIdxTree ELSE LoadedIndex(load)]
        /\ dirty = << >> /\ free = <<>>
  <2>1. PICK t \in Tags, load \in Loads :
          LET n == Len(load) IN
          /\ disk = Loaded(load)
          /\ index = [u \in Tags |->
              IF u # t \/ n = 0 THEN ClearIdxTree
              ELSE [i \in {0} \union {Min(load[p]) : p \in 2..n} |->
                      IF i = 0 THEN 1 ELSE CHOOSE p \in 2..n : Min(load[p]) = i]]
    BY DEF Init, Loaded
  <2>2. index = [u \in Tags |-> IF u # t THEN ClearIdxTree ELSE LoadedIndex(load)]
    BY <2>1 DEF LoadedIndex
  <2> QED
    BY <2>1, <2>2 DEF Init
<1> DEFINE n == Len(load)
           ix == LoadedIndex(load)
           d == Table
<1>2. /\ n \in Nat /\ n <= NumPages /\ ix \in Indexes
      /\ \A i : i \in DOMAIN ix <=> \E p \in 1..n : i = ValueOf(load, p)
      /\ \A p \in 1..n : ix[ValueOf(load, p)] = p
  BY LoadedValues, LoadedIndexIs
<1>3. \A p \in 1..n : Fine(ix, ValueOf(load, p), disk[p]) /\ p \in PageNos
  <2> TAKE p \in 1..n
  <2>1. Fine(ix, ValueOf(load, p), Loaded(load)[p])
    BY LoadedFine
  <2>2. p \in PageNos
    BY <1>2, Constants DEF PageNos
  <2> QED
    BY <1>1, <2>1, <2>2
<1>4. \A p \in PageNos : p \in 1..n \/ disk[p] = Absent
  <2> TAKE p \in PageNos
  <2>1. p \in Nat /\ p # 0
    BY Constants
  <2>2. CASE p > n
    BY <1>1, <2>2 DEF Loaded
  <2> QED
    BY <1>2, <2>1, <2>2
<1>5. d.disk = disk /\ d.dirty = << >> /\ d.free = << >> /\ d.ix = index
  BY <1>1 DEF Table
<1>6. disk \in [PageNos -> Pages]
  <2>1. \A p \in PageNos : disk[p] \in Pages
    BY <1>3, <1>4, NoPages DEF Fine
  <2>2. disk = [p \in PageNos |-> disk[p]]
    BY <1>1 DEF Loaded
  <2> QED
    BY <2>1, <2>2
<1> HIDE DEF ix, n
<1>7. index \in [Tags -> Indexes] /\ \A u \in Tags : index[u] = IF u # t THEN ClearIdxTree ELSE ix
  BY <1>1, <1>2, ChainNone DEF ix
<1>8. d \in Tables
  <2>1. << >> \in Caches
    <3>1. DOMAIN << >> = {} /\ << >> \in [{} -> Pages]
      OBVIOUS
    <3> QED
      BY <3>1, Cache
  <2>2. << >> \in Seq(PageNos)
    OBVIOUS
  <2> QED
    BY <1>1, <1>6, <1>7, <2>1, <2>2 DEF Tables, Table
<1> HIDE DEF d
<1>9. DOMAIN d.dirty = {}
  BY <1>5
<1>10. ASSUME NEW u \in Tags PROVE Chained(d.ix[u], d.disk)
  <2>1. CASE u # t
    BY <1>5, <1>7, <2>1, ChainNone
  <2>2. CASE u = t
    <3>1. \A v \in DOMAIN ix : Fine(ix, v, disk[ix[v]])
      BY <1>2, <1>3
    <3>2. DOMAIN ix # {} => 0 \in DOMAIN ix
      <4> SUFFICES ASSUME DOMAIN ix # {} PROVE 0 \in DOMAIN ix
        OBVIOUS
      <4>1. 1 \in 1..n /\ ValueOf(load, 1) = 0
        BY <1>2 DEF ValueOf
      <4> QED
        BY <1>2, <4>1
    <3> QED
      BY <1>5, <1>7, <2>2, <3>1, <3>2 DEF Chained
  <2> QED
    BY <2>1, <2>2
<1>11. ASSUME NEW u \in Tags, NEW v \in DOMAIN index[u]
       PROVE  u = t /\ v \in DOMAIN ix /\ index[u][v] \in 1..n /\ v = ValueOf(load, index[u][v])
  <2>1. u = t
    BY <1>7, ChainNone
  <2> QED
    BY <1>2, <1>7, <2>1
<1>12. Accounted(d.ix, d.free, d.disk, {})
  <2>1. Distinct(index)
    BY <1>11 DEF Distinct
  <2>2. IsInjective(<< >>) /\ ToSet(<< >>) = {}
    BY DEF IsInjective, ToSet
  <2>3. ASSUME NEW p \in PageNos PROVE Owned(index, p) <=> disk[p] # Absent
    <3>1. ASSUME Owned(index, p) PROVE disk[p] # Absent
      <4>1. p \in 1..n
        BY <1>11, <3>1 DEF Owned
      <4> QED
        BY <1>3, <4>1, NoPages DEF Fine
    <3>2. ASSUME disk[p] # Absent PROVE Owned(index, p)
      <4>1. p \in 1..n
        BY <1>4, <3>2
      <4>2. ValueOf(load, p) \in DOMAIN index[t] /\ index[t][ValueOf(load, p)] = p
        BY <1>2, <1>7, <4>1
      <4> QED
        BY <4>2 DEF Owned
    <3> QED
      BY <3>1, <3>2
  <2> QED
    BY <1>5, <2>1, <2>2, <2>3 DEF Accounted
<1>13. Good(d, {})
  BY <1>8, <1>9, <1>10, <1>12, GoodSaved
<1> QED
  BY <1>13 DEF IInv, d

\* The table after a call.
LEMMA TableAfter ==
    ASSUME NEW d \in Tables, Becomes(d)
    PROVE  Table' = d
<1>1. Table' = [disk |-> d.disk, dirty |-> d.dirty, free |-> d.free, ix |-> d.ix]
  BY DEF Becomes, Table
<1> QED
  BY <1>1 DEF Tables

\* A call that leaves a good table keeps the inductive invariant.
LEMMA StepGood ==
    ASSUME NEW d, Good(d, {}), Becomes(d)
    PROVE  IInv' /\ Table' = d
<1>1. d \in Tables
  BY DEF Good
<1>2. Table' = d
  BY <1>1, TableAfter
<1> QED
  BY <1>2 DEF IInv

\* What an insert of one record does to the table and returns.
LEMMA InsertStep ==
    ASSUME IInv, NEW t \in Tags, NEW w \in Puts, Insert(t, w)
    PROVE  /\ IInv'
           /\ \E o : /\ Table' = o.d /\ Good(o.d, {}) /\ HasPut(Table, t, w, FALSE, o)
                     /\ reply' = Put(t, w, IF o.ok THEN 1 ELSE -1, FALSE)
<1>1. PICK o \in Inserts(Table, t, w) :
        Becomes(o.d) /\ reply' = Put(t, w, IF o.ok THEN 1 ELSE -1, FALSE)
  BY DEF Insert, Inserts
<1>2. Good(o.d, {}) /\ HasPut(Table, t, w, FALSE, o)
  BY GoodInsert DEF IInv
<1>3. IInv' /\ Table' = o.d
  BY <1>1, <1>2, StepGood
<1> QED
  BY <1>1, <1>2, <1>3

\* What an insert of a batch does to the table and returns.
LEMMA InsertFastStep ==
    ASSUME IInv, NEW t \in Tags, NEW w \in Batches, NEW reuse \in BOOLEAN, InsertFast(t, w, reuse)
    PROVE  /\ IInv'
           /\ \E o : \E n \in Nat :
                /\ Table' = o.d /\ Good(o.d, {}) /\ n >= 1 /\ n = Count(Table, t, w)
                /\ HasPut(Table, t, Taking(w, n), reuse, o)
                /\ reply' = Put(t, w, IF o.ok THEN n ELSE -1, reuse)
                /\ reuse => /\ HasTag(Table.ix[t])
                            /\ MinKey(w) > MaxKey(GetPage(Table, GetIdx(Table.ix[t], MinKey(w))).recs)
<1> DEFINE d == Table
           n == Count(d, t, w)
           p == GetIdx(d.ix[t], MinKey(w))
           put == Taking(w, n)
<1>1. /\ reuse => /\ HasTag(d.ix[t]) /\ GetPage(d, p).next = Nil
                  /\ MinKey(w) > MaxKey(GetPage(d, p).recs)
      /\ \E o \in FastInserts(d, t, put, p, reuse) :
           Becomes(o.d) /\ reply' = Put(t, w, IF o.ok THEN n ELSE -1, reuse)
  BY Zenon DEF InsertFast, Count, FastInserts, Taking
<1>2. PICK o \in FastInserts(d, t, put, p, reuse) :
        Becomes(o.d) /\ reply' = Put(t, w, IF o.ok THEN n ELSE -1, reuse)
  BY <1>1
<1>3. Good(d, {})
  BY DEF IInv
<1> HIDE DEF d
<1>4. Good(o.d, {}) /\ HasPut(d, t, put, reuse, o) /\ n \in Nat /\ n >= 1
  <2>1. reuse => HasTag(d.ix[t]) /\ GetPage(d, p).next = Nil
    BY <1>1
  <2> HIDE DEF put, p
  <2>2. p = GetIdx(d.ix[t], MinKey(w)) /\ put = Taking(w, Count(d, t, w))
    BY DEF p, put
  <2>3. o \in FastInserts(d, t, put, p, reuse)
    OBVIOUS
  <2> QED
    BY <1>3, <2>1, <2>2, <2>3, GoodInsertFast
<1>5. IInv' /\ Table' = o.d
  BY <1>2, <1>4, StepGood
<1> QED
  BY <1>1, <1>2, <1>4, <1>5 DEF d

\* What a delete does to the table and returns, whether the record is there or not.
LEMMA DeleteStep ==
    ASSUME IInv, NEW t \in Tags, NEW k \in Keys, Delete(t, k)
    PROVE  /\ IInv' /\ reply'.call = "delete" /\ reply'.tag = t /\ reply'.key = k
           /\ \/ /\ reply'.n = 0
                 /\ \E v \in DOMAIN Table.ix[t] :
                      /\ Here(Table.ix[t], v, k) /\ k \in DOMAIN Mem(Table)[Table.ix[t][v]].recs
                      /\ IsDeleted(Table, t, k, v, Table')
              \/ /\ reply'.n = 1 /\ Table' = Table
                 /\ HasTag(Table.ix[t]) =>
                      \E v \in DOMAIN Table.ix[t] :
                        Here(Table.ix[t], v, k) /\ k \notin DOMAIN Mem(Table)[Table.ix[t][v]].recs
<1> DEFINE d == Table
           e == Deleted(d, t, k)
           there == HasTag(d.ix[t]) /\ k \in DOMAIN GetPage(d, GetIdx(d.ix[t], k)).recs
<1>1. Becomes(e) /\ reply' = [call |-> "delete", tag |-> t, key |-> k, n |-> IF there THEN 0 ELSE 1]
  BY DEF Delete, Deleted
<1>2. Good(d, {}) /\ k \in Nat
  BY Constants DEF IInv
<1>3. CASE ~HasTag(d.ix[t])
  <2>1. e = d
    BY <1>3 DEF Deleted
  <2> HIDE DEF e, d
  <2>2. IInv' /\ Table' = d
    BY <1>1, <1>2, <2>1, StepGood
  <2> QED
    BY <1>1, <1>3, <2>2 DEF d
<1>4. CASE HasTag(d.ix[t])
  <2> HIDE DEF d
  <2>1. PICK v \in DOMAIN d.ix[t] :
          /\ Here(d.ix[t], v, k) /\ GetIdx(d.ix[t], k) = d.ix[t][v]
          /\ v \in Nat /\ d.ix[t][v] \in PageNos
          /\ GetPage(d, d.ix[t][v]) = Mem(d)[d.ix[t][v]]
    BY <1>2, <1>4, GoodHere
  <2>2. there <=> k \in DOMAIN Mem(d)[d.ix[t][v]].recs
    BY <1>4, <2>1
  <2>3. CASE there
    <3>1. Good(e, {}) /\ IsDeleted(d, t, k, v, e)
      BY <1>2, <2>1, <2>2, <2>3, GoodDelete
    <3> HIDE DEF e
    <3>2. IInv' /\ Table' = e
      BY <1>1, <3>1, StepGood
    <3> HIDE DEF there
    <3>3. reply'.call = "delete" /\ reply'.tag = t /\ reply'.key = k /\ reply'.n = 0
      BY <1>1, <2>3
    <3> QED
      BY <2>1, <2>2, <2>3, <3>1, <3>2, <3>3 DEF d
  <2>4. CASE ~there
    <3>1. e = d
      BY <2>4 DEF Deleted
    <3> HIDE DEF e
    <3>2. IInv' /\ Table' = d
      BY <1>1, <1>2, <3>1, StepGood
    <3> HIDE DEF there
    <3>3. reply'.call = "delete" /\ reply'.tag = t /\ reply'.key = k /\ reply'.n = 1
      BY <1>1, <2>4
    <3> QED
      BY <2>1, <2>2, <2>4, <3>2, <3>3 DEF d
  <2> QED
    BY <2>3, <2>4
<1> QED
  BY <1>3, <1>4

\* What the deletion of a tag does to the table and returns.
LEMMA DeleteTagStep ==
    ASSUME IInv, NEW t \in Tags, DeleteTag(t)
    PROVE  /\ IInv' /\ reply' = [call |-> "deletetag", tag |-> t]
           /\ IsTagDeleted(Table, t, Table')
<1> DEFINE d == Table
           e == TagDeleted(d, t)
<1>1. Becomes(e) /\ reply' = [call |-> "deletetag", tag |-> t]
  BY DEF DeleteTag, TagDeleted, Freeing, Nth, Table
<1>2. Good(e, {}) /\ IsTagDeleted(d, t, e)
  BY GoodDeleteTag DEF IInv
<1> HIDE DEF e
<1>3. IInv' /\ Table' = e
  BY <1>1, <1>2, StepGood
<1> QED
  BY <1>1, <1>2, <1>3

\* A changed page evicted from the cache reaches the file, and no call sees a difference.
LEMMA EvictStep ==
    ASSUME IInv, Evict
    PROVE  /\ IInv' /\ reply' = reply
           /\ \E p \in PageNos :
                /\ Table'.ix = Table.ix /\ Mem(Table') = Mem(Table)
                /\ \A q \in PageNos :
                     Table'.disk[q] = IF q = p THEN Mem(Table)[q] ELSE Table.disk[q]
<1>1. PICK p \in DOMAIN dirty :
        disk' = Flush(Table, {p}).disk /\ dirty' = Flush(Table, {p}).dirty
  BY DEF Evict
<1>2. p \in PageNos
  BY GoodParts DEF IInv, Table
<1> DEFINE w == Flush(Table, {p})
<1>3. /\ Good(w, {}) /\ w.ix = Table.ix /\ w.free = Table.free /\ Mem(w) = Mem(Table)
      /\ \A q \in PageNos : w.disk[q] = IF q \in {p} THEN Mem(Table)[q] ELSE Table.disk[q]
  <2>1. {p} \in SUBSET PageNos
    BY <1>2
  <2> QED
    BY <2>1, GoodFlush DEF IInv
<1> HIDE DEF w
<1>4. Table' = w
  <2>1. Table' = [disk |-> w.disk, dirty |-> w.dirty, free |-> w.free, ix |-> w.ix]
    BY <1>1, <1>3 DEF Evict, Table, w
  <2>2. w \in Tables
    BY <1>3 DEF Good
  <2> QED
    BY <2>1, <2>2 DEF Tables
<1>5. IInv' /\ reply' = reply
  BY <1>3, <1>4 DEF IInv, Evict
<1> QED
  BY <1>2, <1>3, <1>4, <1>5

\* A crash loses the cache and nothing else, and the file alone is a good table.
LEMMA CrashStep ==
    ASSUME IInv, Crash
    PROVE  /\ IInv' /\ reply' = [call |-> "none"]
           /\ Table'.ix = Table.ix /\ Table'.disk = Table.disk /\ Mem(Table') = Table.disk
<1> DEFINE e == [disk |-> disk, dirty |-> << >>, free |-> free, ix |-> index]
           d == Table
<1>1. Table' = e /\ reply' = [call |-> "none"]
  BY DEF Crash, Table
<1>2. /\ d \in Tables /\ Accounted(d.ix, d.free, d.disk, {})
      /\ \A t \in Tags : Chained(d.ix[t], d.disk)
  BY DEF IInv, Good
<1>3. e.disk = d.disk /\ e.dirty = << >> /\ e.free = d.free /\ e.ix = d.ix
  BY DEF Table
<1>4. e \in Tables
  <2>1. << >> \in Caches
    <3>1. DOMAIN << >> = {} /\ << >> \in [{} -> Pages]
      OBVIOUS
    <3> QED
      BY <3>1, Cache
  <2> QED
    BY <1>2, <2>1 DEF Tables, Table
<1>5. DOMAIN e.dirty = {}
  BY <1>3
<1> HIDE DEF e, d
<1>6. Good(e, {})
  BY <1>2, <1>3, <1>4, <1>5, GoodSaved
<1>7. Mem(e) = e.disk
  BY <1>4, <1>5, Clean
<1> QED
  BY <1>1, <1>3, <1>6, <1>7 DEF IInv, d

\* The inductive invariant is kept by every step.
LEMMA NextStep == IInv /\ [Next]_vars => IInv'
<1> SUFFICES ASSUME IInv, [Next]_vars PROVE IInv'
  OBVIOUS
<1>1. ASSUME NEW t \in Tags, NEW w \in Puts, Insert(t, w) PROVE IInv'
  BY <1>1, InsertStep
<1>2. ASSUME NEW t \in Tags, NEW w \in Batches, NEW reuse \in BOOLEAN, InsertFast(t, w, reuse)
      PROVE  IInv'
  BY <1>2, InsertFastStep
<1>3. ASSUME NEW t \in Tags, NEW k \in Keys, Delete(t, k) PROVE IInv'
  BY <1>3, DeleteStep
<1>4. ASSUME NEW t \in Tags, DeleteTag(t) PROVE IInv'
  BY <1>4, DeleteTagStep
<1>5. CASE Evict
  BY <1>5, EvictStep
<1>6. CASE Crash
  BY <1>6, CrashStep
<1>7. CASE UNCHANGED vars
  <2>1. Table' = Table
    BY <1>7 DEF vars, Table
  <2> QED
    BY <2>1 DEF IInv
<1> QED
  BY <1>1, <1>2, <1>3, <1>4, <1>5, <1>6, <1>7 DEF Next

\* Between two calls the table is sound: the inductive invariant holds.
THEOREM TableInvariant == Spec => []IInv
<1>1. Init => IInv
  BY GoodInit
<1>2. IInv /\ [Next]_vars => IInv'
  BY NextStep
<1> QED
  BY <1>1, <1>2, PTL DEF Spec

\* The links of a page that is in order are those to its neighbours.
LEMMA FineLinks ==
    ASSUME NEW ix \in Indexes, NEW v \in DOMAIN ix, NEW page, Fine(ix, v, page)
    PROVE  /\ page.kind = "data" /\ page.idxval = v /\ DOMAIN page.recs # {}
           /\ page.prev = Before(ix, v) /\ page.next = Behind(ix, v)
           /\ \A k \in DOMAIN page.recs : GetIdx(ix, k) = ix[v]
<1>1. v \in Nat /\ \A u \in DOMAIN ix : u \in Nat
  BY ValueHere
<1>2. page.prev = Before(ix, v)
  <2>1. CASE v = 0 /\ page.prev = Nil
    BY <2>1 DEF Before
  <2>2. ASSUME NEW u \in DOMAIN ix, NextTo(ix, u, v), page.prev = ix[u]
        PROVE  page.prev = Before(ix, v)
    <3>1. u \in Nat /\ u < v /\ v - 1 \in Nat /\ u <= v - 1 /\ v # 0
      BY <1>1, <2>2 DEF NextTo
    <3>2. \A w \in DOMAIN ix : w <= v - 1 => w <= u
      BY <1>1, <2>2 DEF NextTo
    <3>3. Here(ix, u, v - 1)
      BY <3>1, <3>2 DEF Here
    <3>4. GetIdx(ix, v - 1) = ix[u]
      BY <3>1, <3>3, HereIs
    <3> QED
      BY <2>2, <3>1, <3>4 DEF Before
  <2> QED
    BY <2>1, <2>2 DEF Fine, PrevIs
<1>3. page.next = Behind(ix, v)
  <2> DEFINE above == {u \in DOMAIN ix : u > v}
  <2>1. ASSUME page.next = Nil, \A w \in DOMAIN ix : w <= v PROVE page.next = Behind(ix, v)
    <3>1. above = {}
      BY <1>1, <2>1
    <3> QED
      BY <2>1, <3>1 DEF Behind
  <2>2. ASSUME NEW u \in DOMAIN ix, NextTo(ix, v, u), page.next = ix[u]
        PROVE  page.next = Behind(ix, v)
    <3>1. above \in SUBSET Nat /\ u \in above /\ \A w \in above : u <= w
      BY <1>1, <2>2 DEF NextTo
    <3> HIDE DEF above
    <3>2. Min(above) = u /\ above # {}
      BY <3>1, MinIs
    <3> QED
      BY <2>2, <3>2 DEF Behind, above
  <2> QED
    BY <2>1, <2>2 DEF Fine, NextIs
<1>4. ASSUME NEW k \in DOMAIN page.recs PROVE GetIdx(ix, k) = ix[v]
  <2>1. Here(ix, v, k) /\ page.recs \in PageRecs
    BY DEF Fine, Pages
  <2>2. k \in Nat
    BY <2>1, Recs, Constants
  <2> QED
    BY <2>1, <2>2, HereIs
<1> QED
  BY <1>2, <1>3, <1>4 DEF Fine

\* A good table has its chains sound, for the calls and on disk.
LEMMA GoodSound == IInv => ChainSound /\ DiskSound
<1> SUFFICES ASSUME IInv PROVE ChainSound /\ DiskSound
  OBVIOUS
<1>1. Good(Table, {}) /\ Table.ix = index /\ Table.disk = disk
  BY DEF IInv, Table
<1> DEFINE d == Table
<1> HIDE DEF d
<1>2. Good(d, {}) /\ d.ix = index /\ d.disk = disk
  BY <1>1 DEF d
<1>3. ASSUME NEW t \in Tags, HasTag(index[t])
      PROVE  /\ index[t] \in Indexes /\ 0 \in DOMAIN index[t] /\ IsInjective(index[t])
             /\ \A v \in DOMAIN index[t] :
                  /\ Fine(index[t], v, InMemory(index[t][v]))
                  /\ Fine(index[t], v, OnDisk(index[t][v]))
  <2>1. PICK w \in DOMAIN index[t] : TRUE
    BY <1>3 DEF HasTag
  <2>2. index[t] \in Indexes /\ 0 \in DOMAIN index[t] /\ IsInjective(index[t])
    BY <1>2, <2>1, GoodPage
  <2>3. ASSUME NEW v \in DOMAIN index[t]
        PROVE  Fine(index[t], v, InMemory(index[t][v])) /\ Fine(index[t], v, OnDisk(index[t][v]))
    <3>1. /\ GetPage(d, d.ix[t][v]) = Mem(d)[d.ix[t][v]]
          /\ Fine(d.ix[t], v, Mem(d)[d.ix[t][v]]) /\ Fine(d.ix[t], v, d.disk[d.ix[t][v]])
      BY <1>2, GoodPage
    <3> QED
      BY <1>2, <3>1 DEF InMemory, OnDisk, d
  <2> QED
    BY <2>2, <2>3
<1>4. ChainSound
  BY <1>3, FineLinks DEF ChainSound, Sound
<1>5. DiskSound
  BY <1>3, FineLinks DEF DiskSound, Sound
<1> QED
  BY <1>4, <1>5

\* A good table has every page of the file in exactly one place.
LEMMA GoodAccounted == IInv => PagesAccounted
<1> SUFFICES ASSUME IInv PROVE PagesAccounted
  OBVIOUS
<1>1. /\ Accounted(index, free, disk, {}) /\ index \in [Tags -> Indexes] /\ free \in Seq(PageNos)
  BY GoodParts DEF IInv, Good, Table, Tables
<1> DEFINE owners(p) == {t \in Tags : p \in ToSet(index[t])}
           one(holds) == IF holds THEN 1 ELSE 0
<1>2. IsInjective(free)
  BY <1>1 DEF Accounted
<1>3. ASSUME NEW p \in PageNos
      PROVE  Cardinality(owners(p)) + one(p \in ToSet(free)) + one(disk[p] = Absent) = 1
  <2>1. ASSUME NEW t \in Tags PROVE p \in ToSet(index[t]) <=> \E v \in DOMAIN index[t] : index[t][v] = p
    BY DEF ToSet
  <2>2. Owned(index, p) <=> owners(p) # {}
    BY <2>1 DEF Owned
  <2>3. ASSUME NEW t \in owners(p) PROVE owners(p) = {t}
    <3>1. \A u \in owners(p) : u = t
      BY <1>1, <2>1 DEF Accounted, Distinct
    <3> QED
      BY <3>1
  <2> HIDE DEF owners
  <2>4. owners(p) = {} \/ \E t : owners(p) = {t}
    BY <2>3
  <2>5. Cardinality(owners(p)) = IF Owned(index, p) THEN 1 ELSE 0
    BY <2>2, <2>4, FS_EmptySet, FS_Singleton
  <2>6. /\ p \in ToSet(free) => ~Owned(index, p)
        /\ Owned(index, p) \/ p \in ToSet(free) => disk[p] # Absent
        /\ Owned(index, p) \/ p \in ToSet(free) \/ disk[p] = Absent
    BY <1>1 DEF Accounted
  <2> QED
    BY <2>5, <2>6
<1> QED
  BY <1>2, <1>3 DEF PagesAccounted

\* ChainSound, in every reachable state: the links of each tag and the index
\* agree, whatever was inserted, split, taken over or deleted.
THEOREM ChainsAreSound == Spec => []ChainSound
<1>1. IInv => ChainSound
  BY GoodSound
<1> QED
  BY <1>1, TableInvariant, PTL

\* DiskSound, in every reachable state: so do the links on disk, which a
\* process that dies between two calls leaves.
THEOREM DiskIsSound == Spec => []DiskSound
<1>1. IInv => DiskSound
  BY GoodSound
<1> QED
  BY <1>1, TableInvariant, PTL

\* PagesAccounted, in every reachable state: a page is in one index, or was
\* given back once, or is beyond the end; no page is shared, none is given back
\* twice, and none is left behind by a call, failed or not.
THEOREM PagesAreAccounted == Spec => []PagesAccounted
<1>1. IInv => PagesAccounted
  BY GoodAccounted
<1> QED
  BY <1>1, TableInvariant, PTL

-----------------------------------------------------------------------------
(* The table keeps its records. *)

\* The record with key k in some records, and in those of a tag.
At(r, k) == IF k \in DOMAIN r THEN r[k] ELSE 0

Rec(ix, view, k) == IF ~HasTag(ix) THEN 0 ELSE At(view[GetIdx(ix, k)].recs, k)

\* It is in the page to which the key belongs.
LEMMA RecHere ==
    ASSUME NEW ix \in Indexes, NEW view, NEW k \in Nat, NEW v \in DOMAIN ix, Here(ix, v, k)
    PROVE  Rec(ix, view, k) = At(view[ix[v]].recs, k)
<1>1. GetIdx(ix, k) = ix[v]
  BY HereIs
<1> QED
  BY <1>1 DEF Rec, HasTag

\* A key belongs to one page.
LEMMA OneHere ==
    ASSUME NEW ix \in Indexes, NEW k, NEW u \in DOMAIN ix, NEW v \in DOMAIN ix,
           Here(ix, u, k), Here(ix, v, k)
    PROVE  u = v
<1>1. u \in Nat /\ v \in Nat
  BY ValueHere
<1> QED
  BY <1>1 DEF Here

\* A tag whose pages hold the same records has the same records.
SameRecs(ix, view, new) == \A v \in DOMAIN ix : new[ix[v]].recs = view[ix[v]].recs
SameFound(ix, view, new) == \A k \in Keys : Rec(ix, new, k) = Rec(ix, view, k)

\* Pages whose records stay the same hold the same records for every key.
LEMMA RecSame ==
    ASSUME NEW d, NEW L, Good(d, L), NEW u \in Tags, NEW view, NEW new,
           SameRecs(d.ix[u], view, new)
    PROVE  SameFound(d.ix[u], view, new)
<1> USE DEF SameFound
<1> TAKE k \in Keys
<1>1. CASE ~HasTag(d.ix[u])
  BY <1>1 DEF Rec
<1>2. CASE HasTag(d.ix[u])
  <2>1. k \in Nat
    BY Constants
  <2>2. PICK v \in DOMAIN d.ix[u] : Here(d.ix[u], v, k)
    BY <1>2, <2>1, GoodHere
  <2>3. d.ix[u] \in Indexes
    BY GoodPage
  <2>4. /\ Rec(d.ix[u], new, k) = At(new[d.ix[u][v]].recs, k)
        /\ Rec(d.ix[u], view, k) = At(view[d.ix[u][v]].recs, k)
    BY <2>1, <2>2, <2>3, RecHere
  <2> QED
    BY <2>4 DEF SameRecs
<1> QED
  BY <1>1, <1>2

\* The record of a key in some page of a tag.
LEMMA RecOf ==
    ASSUME NEW d, NEW L, Good(d, L), NEW t \in Tags, HasTag(d.ix[t]), NEW k \in Keys
    PROVE  \E v \in DOMAIN d.ix[t] :
             /\ v \in Nat /\ Here(d.ix[t], v, k) /\ d.ix[t][v] \in PageNos
             /\ \A view : Rec(d.ix[t], view, k) = At(view[d.ix[t][v]].recs, k)
<1>1. k \in Nat
  BY Constants
<1>2. PICK v \in DOMAIN d.ix[t] : v \in Nat /\ Here(d.ix[t], v, k) /\ d.ix[t][v] \in PageNos
  BY <1>1, GoodHere
<1>3. d.ix[t] \in Indexes
  BY GoodPage
<1>4. \A view : Rec(d.ix[t], view, k) = At(view[d.ix[t][v]].recs, k)
  BY <1>1, <1>2, <1>3, RecHere
<1> QED
  BY <1>2, <1>4

\* The records on disk are what they were, or those in memory, before or after.
Trails(d, e) ==
    \A u \in Tags : \A k \in Keys :
        Rec(e.ix[u], e.disk, k) \in
            {Rec(d.ix[u], d.disk, k), Rec(d.ix[u], Mem(d), k), Rec(e.ix[u], Mem(e), k)}

Stays(d, e) == \A u \in Tags : \A k \in Keys : Rec(e.ix[u], Mem(e), k) = Rec(d.ix[u], Mem(d), k)

\* After a call that saved everything the disk is as the memory.
LEMMA TrailsSaved ==
    ASSUME NEW d, NEW e \in Tables, DOMAIN e.dirty = {}
    PROVE  Trails(d, e)
<1>1. Mem(e) = e.disk
  BY Clean
<1> QED
  BY <1>1 DEF Trails

\* A call that left the pages of the tags alone.
LEMMA StaysSame ==
    ASSUME NEW d, Good(d, {}), NEW e, SamePages(d, e)
    PROVE  Stays(d, e) /\ Trails(d, e)
<1>1. ASSUME NEW u \in Tags, NEW k \in Keys
      PROVE  /\ Rec(e.ix[u], Mem(e), k) = Rec(d.ix[u], Mem(d), k)
             /\ Rec(e.ix[u], e.disk, k) = Rec(d.ix[u], d.disk, k)
  <2>1. e.ix[u] = d.ix[u]
    BY DEF SamePages
  <2>2. \A v \in DOMAIN d.ix[u] : /\ Mem(e)[d.ix[u][v]] = Mem(d)[d.ix[u][v]]
                                  /\ e.disk[d.ix[u][v]] = d.disk[d.ix[u][v]]
    BY GoodPage DEF SamePages
  <2>3. SameRecs(d.ix[u], Mem(d), Mem(e)) /\ SameRecs(d.ix[u], d.disk, e.disk)
    BY <2>2 DEF SameRecs
  <2>4. Good(d, {})
    OBVIOUS
  <2>5. Rec(d.ix[u], Mem(e), k) = Rec(d.ix[u], Mem(d), k)
    <3>1. SameFound(d.ix[u], Mem(d), Mem(e))
      BY <2>3, <2>4, RecSame
    <3> QED
      BY <3>1 DEF SameFound
  <2>6. Rec(d.ix[u], e.disk, k) = Rec(d.ix[u], d.disk, k)
    <3>1. SameFound(d.ix[u], d.disk, e.disk)
      BY <2>3, <2>4, RecSame
    <3> QED
      BY <3>1 DEF SameFound
  <2> QED
    BY <2>1, <2>5, <2>6
<1> QED
  BY <1>1 DEF Stays, Trails

\* The first record of a page put down and taken up again.
LEMMA EvictRecs ==
    ASSUME NEW d, Good(d, {}), NEW e, NEW p \in PageNos, e.ix = d.ix, Mem(e) = Mem(d),
           \A q \in PageNos : e.disk[q] = IF q = p THEN Mem(d)[q] ELSE d.disk[q]
    PROVE  Stays(d, e) /\ Trails(d, e)
<1>1. Stays(d, e)
  BY DEF Stays
<1>2. ASSUME NEW u \in Tags, NEW k \in Keys
      PROVE  Rec(e.ix[u], e.disk, k) \in {Rec(d.ix[u], d.disk, k), Rec(d.ix[u], Mem(d), k)}
  <2>1. CASE ~HasTag(d.ix[u])
    BY <2>1 DEF Rec
  <2>2. CASE HasTag(d.ix[u])
    <3>1. PICK v \in DOMAIN d.ix[u] :
            /\ d.ix[u][v] \in PageNos
            /\ \A view : Rec(d.ix[u], view, k) = At(view[d.ix[u][v]].recs, k)
      BY <2>2, RecOf
    <3>2. e.disk[d.ix[u][v]] \in {Mem(d)[d.ix[u][v]], d.disk[d.ix[u][v]]}
      BY <3>1
    <3> QED
      BY <3>1, <3>2
  <2> QED
    BY <2>1, <2>2
<1> QED
  BY <1>1, <1>2 DEF Trails

\* The records of a tag after its pages shrank.
LEMMA ShrunkRecs ==
    ASSUME NEW d, Good(d, {}), NEW t \in Tags, NEW u, NEW v, NEW r, NEW e, NEW L,
           Shrunk(d, t, u, v, r, e, L), NEW k \in Keys
    PROVE  /\ Rec(e.ix[t], Mem(e), k) =
              IF Here(d.ix[t], u, k) \/ Here(d.ix[t], v, k) THEN At(r, k)
              ELSE Rec(d.ix[t], Mem(d), k)
           /\ \A s \in Tags \ {t} : Rec(e.ix[s], Mem(e), k) = Rec(d.ix[s], Mem(d), k)
<1> DEFINE ix == d.ix[t]
           jx == DelIdxRec(ix, v, ix[v])
           V == Mem(d)
<1>1. /\ Good(e, L)
      /\ \A q \in PageNos \ {ix[v]} : e.disk[q].recs = IF q = ix[u] THEN r ELSE V[q].recs
  BY GoodShrinks
<1>2. /\ u \in DOMAIN ix /\ v \in DOMAIN ix /\ NextTo(ix, u, v)
      /\ e \in Tables /\ DOMAIN e.dirty = {} /\ e.ix = [d.ix EXCEPT ![t] = jx]
  BY DEF Shrunk
<1>3. Mem(e) = e.disk
  BY <1>2, Clean
<1>4. d.ix \in [Tags -> Indexes]
  BY GoodParts
<1>5. e.ix[t] = jx /\ \A s \in Tags \ {t} : e.ix[s] = d.ix[s]
  BY <1>2, <1>4
<1>6. jx \in Indexes /\ DOMAIN jx = DOMAIN ix \ {v} /\ \A w \in DOMAIN jx : jx[w] = ix[w]
  <2>1. ix \in Indexes /\ v \in DOMAIN ix
    BY <1>2, <1>4
  <2> HIDE DEF ix
  <2> QED
    BY <2>1, Dropped
<1>7. /\ \A w \in DOMAIN ix : w \in Nat /\ ix[w] \in PageNos
      /\ \A w \in DOMAIN ix : ix[w] = ix[v] => w = v
      /\ \A w \in DOMAIN ix : ix[w] = ix[u] => w = u
  BY <1>2, <1>4, GoodPage, ValueHere DEF IsInjective
<1>8. u < v /\ u # v
  BY <1>2, <1>7 DEF NextTo
<1> HIDE DEF jx, V
<1>9. Rec(e.ix[t], Mem(e), k) =
        IF Here(ix, u, k) \/ Here(ix, v, k) THEN At(r, k) ELSE Rec(ix, V, k)
  <2>1. HasTag(ix) /\ HasTag(jx) /\ k \in Nat
    BY <1>2, <1>6, <1>8, Constants DEF HasTag
  <2>2. PICK w \in DOMAIN ix : w \in Nat /\ Here(ix, w, k) /\ Rec(ix, V, k) = At(V[ix[w]].recs, k)
    BY <2>1, RecOf
  <2>3. \A y \in DOMAIN ix : Here(ix, y, k) => y = w
    BY <1>4, <2>2, OneHere
  <2>4. CASE w = u \/ w = v
    <3>1. Here(jx, u, k)
      <4>1. \A y \in DOMAIN jx : y <= k => y <= u
        <5> TAKE y \in DOMAIN jx
        <5> HAVE y <= k
        <5>1. y \in DOMAIN ix /\ y # v /\ y \in Nat /\ y <= w
          BY <1>6, <1>7, <2>2 DEF Here
        <5>2. y <= u \/ y >= v
          BY <1>2, <5>1 DEF NextTo
        <5> QED
          BY <1>2, <1>7, <1>8, <2>4, <5>1, <5>2
      <4>2. u <= k
        BY <1>2, <1>7, <1>8, <2>1, <2>2, <2>4 DEF Here
      <4> QED
        BY <4>1, <4>2 DEF Here
    <3>2. u \in DOMAIN jx /\ jx[u] = ix[u]
      BY <1>2, <1>6, <1>8
    <3>3. Rec(jx, e.disk, k) = At(e.disk[ix[u]].recs, k)
      BY <1>6, <2>1, <3>1, <3>2, RecHere
    <3>4. e.disk[ix[u]].recs = r
      BY <1>1, <1>2, <1>7, <1>8
    <3> QED
      BY <1>3, <1>5, <2>2, <2>4, <3>3, <3>4
  <2>5. CASE w # u /\ w # v
    <3>1. w \in DOMAIN jx /\ jx[w] = ix[w] /\ Here(jx, w, k)
      BY <1>6, <2>2, <2>5 DEF Here
    <3>2. Rec(jx, e.disk, k) = At(e.disk[ix[w]].recs, k)
      BY <1>6, <2>1, <3>1, RecHere
    <3>3. e.disk[ix[w]].recs = V[ix[w]].recs
      BY <1>1, <1>2, <1>7, <2>5
    <3>4. ~Here(ix, u, k) /\ ~Here(ix, v, k)
      BY <1>2, <2>3, <2>5
    <3> QED
      BY <1>3, <1>5, <2>2, <3>2, <3>3, <3>4
  <2> QED
    BY <2>4, <2>5
<1>10. ASSUME NEW s \in Tags \ {t} PROVE Rec(e.ix[s], Mem(e), k) = Rec(d.ix[s], V, k)
  <2>1. e.ix[s] = d.ix[s]
    BY <1>5
  <2>2. ASSUME NEW w \in DOMAIN d.ix[s] PROVE e.disk[d.ix[s][w]].recs = V[d.ix[s][w]].recs
    <3>1. d.ix[s][w] \in PageNos
      BY GoodPage
    <3>2. d.ix[s][w] # ix[v] /\ d.ix[s][w] # ix[u]
      BY <1>2 DEF Good, Accounted, Distinct
    <3> QED
      BY <1>1, <3>1, <3>2
  <2>3. SameRecs(d.ix[s], V, e.disk)
    BY <2>2 DEF SameRecs
  <2>4. SameFound(d.ix[s], V, e.disk)
    BY <2>3, RecSame
  <2> QED
    BY <1>3, <2>1, <2>4 DEF SameFound
<1> QED
  BY <1>9, <1>10 DEF V

\* deleterecord takes out the record, and no other.
LEMMA DeletedRecs ==
    ASSUME NEW d, Good(d, {}), NEW t \in Tags, NEW k \in Keys, NEW v \in DOMAIN d.ix[t],
           Here(d.ix[t], v, k), NEW e, Good(e, {}), IsDeleted(d, t, k, v, e)
    PROVE  /\ Trails(d, e)
           /\ \A s \in Tags : \A i \in Keys :
                Rec(e.ix[s], Mem(e), i) = IF s = t /\ i = k THEN 0 ELSE Rec(d.ix[s], Mem(d), i)
<1> DEFINE ix == d.ix[t]
           V == Mem(d)
           p == ix[v]
           r == V[p].recs
           Wanted(s, i) == Rec(e.ix[s], Mem(e), i) = IF s = t /\ i = k THEN 0 ELSE Rec(d.ix[s], V, i)
<1>1. /\ ix \in Indexes /\ p \in PageNos /\ e \in Tables /\ HasTag(ix)
      /\ \A w \in DOMAIN ix : w \in Nat /\ ix[w] \in PageNos
      /\ \A w \in DOMAIN ix : ix[w] = p => w = v
      /\ \A w \in DOMAIN ix : \A i \in DOMAIN V[ix[w]].recs : Here(ix, w, i)
  <2>1. /\ ix \in Indexes /\ p \in PageNos /\ IsInjective(ix)
        /\ \A w \in DOMAIN ix : ix[w] \in PageNos /\ Fine(ix, w, V[ix[w]])
    BY GoodPage
  <2>2. \A w \in DOMAIN ix : \A i \in DOMAIN V[ix[w]].recs : Here(ix, w, i)
    BY <2>1 DEF Fine
  <2>3. e \in Tables /\ HasTag(ix)
    BY DEF Good, HasTag
  <2>4. \A w \in DOMAIN ix : w \in Nat
    BY <2>1, ValueHere
  <2> QED
    BY <2>1, <2>2, <2>3, <2>4 DEF IsInjective
<1>2. d.ix \in [Tags -> Indexes]
  BY GoodParts
<1>3. \A i \in Keys : i \in Nat
  BY Constants
<1>4. ASSUME NEW i \in Keys, Here(ix, v, i) PROVE Rec(ix, V, i) = At(r, i)
  BY <1>1, <1>3, <1>4, RecHere
<1> HIDE DEF V
<1>5. ASSUME DOMAIN r \ {k} # {}, e.ix = d.ix, e.disk = d.disk,
             \A q \in PageNos : Mem(e)[q].recs = IF q = p THEN Without(r, k) ELSE V[q].recs
      PROVE  Trails(d, e) /\ \A s \in Tags : \A i \in Keys : Wanted(s, i)
  <2>1. Trails(d, e)
    BY <1>5 DEF Trails
  <2>2. ASSUME NEW s \in Tags, NEW i \in Keys PROVE Wanted(s, i)
    <3>1. CASE s # t
      <4>1. ASSUME NEW w \in DOMAIN d.ix[s] PROVE Mem(e)[d.ix[s][w]].recs = V[d.ix[s][w]].recs
        <5>1. d.ix[s][w] \in PageNos
          BY GoodPage
        <5>2. d.ix[s][w] # p
          BY <3>1 DEF Good, Accounted, Distinct
        <5> QED
          BY <1>5, <5>1, <5>2
      <4>2. SameRecs(d.ix[s], V, Mem(e))
        BY <4>1 DEF SameRecs
      <4>3. Rec(d.ix[s], Mem(e), i) = Rec(d.ix[s], V, i)
        <5>1. SameFound(d.ix[s], V, Mem(e))
          BY <4>2, RecSame
        <5> QED
          BY <5>1 DEF SameFound
      <4> QED
        BY <1>5, <3>1, <4>3
    <3>2. CASE s = t
      <4>1. PICK w \in DOMAIN ix :
              /\ w \in Nat /\ Here(ix, w, i) /\ ix[w] \in PageNos
              /\ \A view : Rec(ix, view, i) = At(view[ix[w]].recs, i)
        BY <1>1, RecOf
      <4>2. Rec(e.ix[t], Mem(e), i) = At(Mem(e)[ix[w]].recs, i)
        BY <1>5, <4>1
      <4>3. Rec(ix, V, i) = At(V[ix[w]].recs, i)
        BY <4>1
      <4>4. CASE w = v
        <5>1. Mem(e)[ix[w]].recs = Without(r, k)
          BY <1>1, <1>5, <4>4
        <5>2. At(Without(r, k), i) = IF i = k THEN 0 ELSE At(r, i)
          BY DEF At, Without
        <5> QED
          BY <3>2, <4>2, <4>3, <4>4, <5>1, <5>2
      <4>5. CASE w # v
        <5>1. i # k
          BY <1>1, <1>3, <4>1, <4>5, OneHere
        <5>2. Mem(e)[ix[w]].recs = V[ix[w]].recs
          BY <1>1, <1>5, <4>1, <4>5
        <5> QED
          BY <3>2, <4>2, <4>3, <5>1, <5>2
      <4> QED
        BY <4>4, <4>5
    <3> QED
      BY <3>1, <3>2
  <2> QED
    BY <2>1, <2>2
<1>6. ASSUME DOMAIN r \ {k} = {}, NEW i \in Keys, Here(ix, v, i), i # k PROVE Rec(ix, V, i) = 0
  <2>1. At(r, i) = 0
    BY <1>6 DEF At
  <2> QED
    BY <1>4, <1>6, <2>1
<1>7. ASSUME DOMAIN r \ {k} = {}, NEW u \in DOMAIN ix, NEW y \in DOMAIN ix, v \in {u, y},
             NEW w \in {u, y}, w # v, Shrunk(d, t, u, y, V[ix[w]].recs, e, {})
      PROVE  Trails(d, e) /\ \A s \in Tags : \A i \in Keys : Wanted(s, i)
  <2>1. Trails(d, e)
    BY <1>7, TrailsSaved DEF Shrunk
  <2> DEFINE x == V[ix[w]].recs
  <2>2. ASSUME NEW s \in Tags, NEW i \in Keys PROVE Wanted(s, i)
    <3>1. /\ Rec(e.ix[t], Mem(e), i) = IF Here(ix, u, i) \/ Here(ix, y, i) THEN At(x, i)
                                       ELSE Rec(ix, V, i)
          /\ \A z \in Tags \ {t} : Rec(e.ix[z], Mem(e), i) = Rec(d.ix[z], V, i)
      <4> HIDE DEF x
      <4>1. Shrunk(d, t, u, y, x, e, {})
        BY <1>7 DEF x
      <4> QED
        BY <4>1, ShrunkRecs DEF V
    <3>2. CASE s # t
      BY <3>1, <3>2
    <3>3. CASE s = t /\ Here(ix, v, i)
      <4>1. i \notin DOMAIN x
        <5>1. ~Here(ix, w, i)
          BY <1>1, <1>7, <3>3, OneHere
        <5> QED
          BY <1>1, <1>7, <5>1
      <4>2. Rec(e.ix[t], Mem(e), i) = 0
        BY <1>7, <3>1, <3>3, <4>1 DEF At
      <4>3. i # k => Rec(ix, V, i) = 0
        BY <1>6, <1>7, <3>3
      <4> QED
        BY <3>3, <4>2, <4>3
    <3>4. CASE s = t /\ ~Here(ix, v, i)
      <4>1. i # k
        BY <3>4
      <4>2. Here(ix, w, i) => Rec(ix, V, i) = At(x, i)
        BY <1>1, <1>3, <1>7, RecHere
      <4>3. Here(ix, u, i) \/ Here(ix, y, i) <=> Here(ix, w, i)
        BY <1>7, <3>4
      <4> QED
        BY <3>1, <3>4, <4>1, <4>2, <4>3
    <3> QED
      BY <3>2, <3>3, <3>4
  <2> QED
    BY <2>1, <2>2, Zenon
<1>8. ASSUME DOMAIN r \ {k} = {}, DOMAIN e.dirty = {}, DOMAIN ix = {v},
             e.ix = [d.ix EXCEPT ![t] = ClearIdxTree],
             \A q \in PageNos \ {p} : e.disk[q].recs = V[q].recs
      PROVE  Trails(d, e) /\ \A s \in Tags : \A i \in Keys : Wanted(s, i)
  <2>1. Trails(d, e) /\ Mem(e) = e.disk
    BY <1>1, <1>8, TrailsSaved, Clean
  <2>2. e.ix[t] = ClearIdxTree /\ \A s \in Tags \ {t} : e.ix[s] = d.ix[s]
    BY <1>2, <1>8
  <2>3. ASSUME NEW s \in Tags, NEW i \in Keys PROVE Wanted(s, i)
    <3>1. CASE s = t
      <4>1. Rec(e.ix[t], Mem(e), i) = 0
        BY <2>2, ChainNone DEF Rec, HasTag
      <4>2. PICK w \in DOMAIN ix : Here(ix, w, i)
        BY <1>1, RecOf
      <4>3. i # k => Rec(ix, V, i) = 0
        BY <1>6, <1>8, <4>2
      <4> QED
        BY <3>1, <4>1, <4>3
    <3>2. CASE s # t
      <4>1. ASSUME NEW w \in DOMAIN d.ix[s] PROVE e.disk[d.ix[s][w]].recs = V[d.ix[s][w]].recs
        <5>1. d.ix[s][w] \in PageNos
          BY GoodPage
        <5>2. d.ix[s][w] # p
          BY <3>2 DEF Good, Accounted, Distinct
        <5> QED
          BY <1>8, <5>1, <5>2
      <4>2. SameRecs(d.ix[s], V, e.disk)
        BY <4>1 DEF SameRecs
      <4>3. Rec(d.ix[s], e.disk, i) = Rec(d.ix[s], V, i)
        <5>1. SameFound(d.ix[s], V, e.disk)
          BY <4>2, RecSame
        <5> QED
          BY <5>1 DEF SameFound
      <4> QED
        BY <2>1, <2>2, <3>2, <4>3
    <3> QED
      BY <3>1, <3>2
  <2> QED
    BY <2>1, <2>3
<1>9. Trails(d, e) /\ \A s \in Tags : \A i \in Keys : Wanted(s, i)
  <2>1. \/ /\ DOMAIN r \ {k} # {} /\ e.ix = d.ix /\ e.disk = d.disk
           /\ \A q \in PageNos : Mem(e)[q].recs = IF q = p THEN Without(r, k) ELSE V[q].recs
        \/ /\ DOMAIN r \ {k} = {}
           /\ \/ \E u \in DOMAIN ix : Shrunk(d, t, u, v, V[ix[u]].recs, e, {})
              \/ \E c \in DOMAIN ix : Shrunk(d, t, v, c, V[ix[c]].recs, e, {})
              \/ /\ DOMAIN e.dirty = {} /\ DOMAIN ix = {v}
                 /\ e.ix = [d.ix EXCEPT ![t] = ClearIdxTree]
                 /\ \A q \in PageNos \ {p} : e.disk[q].recs = V[q].recs
    BY Zenon DEF IsDeleted, V
  <2> DEFINE Goal == Trails(d, e) /\ \A s \in Tags : \A i \in Keys : Wanted(s, i)
  <2>2. ASSUME DOMAIN r \ {k} = {}, NEW u \in DOMAIN ix, Shrunk(d, t, u, v, V[ix[u]].recs, e, {})
        PROVE  Goal
    <3>1. u # v
      BY <1>1, <2>2 DEF Shrunk, NextTo
    <3> HIDE DEF Wanted
    <3> QED
      BY <1>7, <2>2, <3>1
  <2>3. ASSUME DOMAIN r \ {k} = {}, NEW c \in DOMAIN ix, Shrunk(d, t, v, c, V[ix[c]].recs, e, {})
        PROVE  Goal
    <3>1. c # v
      BY <1>1, <2>3 DEF Shrunk, NextTo
    <3> HIDE DEF Wanted
    <3> QED
      BY <1>7, <2>3, <3>1
  <2> HIDE DEF Wanted, r, p
  <2> QED
    BY <1>5, <1>8, <2>1, <2>2, <2>3
<1> QED
  BY <1>9 DEF V

\* DeleteTag takes out the records of the tag, also on disk.
LEMMA TagDeletedRecs ==
    ASSUME NEW d, Good(d, {}), NEW t \in Tags, NEW e, Good(e, {}), IsTagDeleted(d, t, e)
    PROVE  /\ Trails(d, e)
           /\ \A s \in Tags : \A i \in Keys :
                Rec(e.ix[s], Mem(e), i) = IF s = t THEN 0 ELSE Rec(d.ix[s], Mem(d), i)
           /\ \A i \in Keys : Rec(e.ix[t], e.disk, i) = 0
<1>1. d.ix \in [Tags -> Indexes]
  BY GoodParts
<1>2. e.ix[t] = ClearIdxTree /\ \A s \in Tags \ {t} : e.ix[s] = d.ix[s]
  BY <1>1 DEF IsTagDeleted
<1>3. \A view : \A i : Rec(e.ix[t], view, i) = 0
  BY <1>2, ChainNone DEF Rec, HasTag
<1>4. ASSUME NEW s \in Tags \ {t}, NEW i \in Keys
      PROVE  /\ Rec(e.ix[s], Mem(e), i) = Rec(d.ix[s], Mem(d), i)
             /\ Rec(e.ix[s], e.disk, i) = Rec(d.ix[s], d.disk, i)
  <2>1. ASSUME NEW w \in DOMAIN d.ix[s]
        PROVE  /\ Mem(e)[d.ix[s][w]] = Mem(d)[d.ix[s][w]]
               /\ e.disk[d.ix[s][w]] = d.disk[d.ix[s][w]]
    <3>1. d.ix[s][w] \in PageNos
      BY GoodPage
    <3>2. \A v \in DOMAIN d.ix[t] : d.ix[t][v] # d.ix[s][w]
      BY DEF Good, Accounted, Distinct
    <3>3. e.disk[d.ix[s][w]] = d.disk[d.ix[s][w]] /\ e.dirty = d.dirty
      BY <3>1, <3>2 DEF IsTagDeleted
    <3> QED
      BY <3>1, <3>3 DEF Mem, GetPage
  <2>2. SameRecs(d.ix[s], Mem(d), Mem(e)) /\ SameRecs(d.ix[s], d.disk, e.disk)
    BY <2>1 DEF SameRecs
  <2>3. Rec(d.ix[s], Mem(e), i) = Rec(d.ix[s], Mem(d), i)
    <3>1. SameFound(d.ix[s], Mem(d), Mem(e))
      BY <2>2, RecSame
    <3> QED
      BY <3>1 DEF SameFound
  <2>4. Rec(d.ix[s], e.disk, i) = Rec(d.ix[s], d.disk, i)
    <3>1. SameFound(d.ix[s], d.disk, e.disk)
      BY <2>2, RecSame
    <3> QED
      BY <3>1 DEF SameFound
  <2> QED
    BY <1>2, <2>3, <2>4
<1>5. Trails(d, e)
  <2>1. \A s \in Tags : \A i \in Keys :
          Rec(e.ix[s], e.disk, i) \in {Rec(d.ix[s], d.disk, i), Rec(e.ix[s], Mem(e), i)}
    BY <1>3, <1>4
  <2> QED
    BY <2>1 DEF Trails
<1> QED
  BY <1>3, <1>4, <1>5

\* The records after those of put were stored, and those below low given up.
Stored(d, e, t, put, low) ==
    \A s \in Tags : \A i \in Keys :
        Rec(e.ix[s], Mem(e), i) =
            IF s # t THEN Rec(d.ix[s], Mem(d), i)
            ELSE IF i \in DOMAIN put THEN put[i]
            ELSE IF i < low THEN 0 ELSE Rec(d.ix[t], Mem(d), i)

\* The records of a tag that was not there.
LEMMA NewRecs ==
    ASSUME NEW d, Good(d, {}), NEW t \in Tags, ~HasTag(d.ix[t]), NEW put \in PageRecs,
           NEW o, Good(o.d, {}), o.ok = TRUE, IsNew(d, t, put, o)
    PROVE  Trails(d, o.d) /\ Stored(d, o.d, t, put, 0)
<1> DEFINE e == o.d
<1>1. PICK n \in PageNos :
        /\ ~Owned(d.ix, n) /\ e.ix = [d.ix EXCEPT ![t] = InsertIdx(d.ix[t], 0, n)]
        /\ Mem(e)[n].recs = put /\ e.disk[n].recs = put
        /\ \A q \in PageNos : Owned(d.ix, q) =>
             Mem(e)[q] = Mem(d)[q] /\ e.disk[q] = d.disk[q]
  BY DEF IsNew
<1> HIDE DEF e
<1> DEFINE jx == InsertIdx(d.ix[t], 0, n)
<1>2. d.ix \in [Tags -> Indexes]
  BY GoodParts
<1>3. jx \in Indexes /\ DOMAIN jx = {0} /\ jx[0] = n
  BY <1>2, Inserted DEF HasTag, IsInserted
<1>4. e.ix[t] = jx /\ \A s \in Tags \ {t} : e.ix[s] = d.ix[s]
  BY <1>1, <1>2
<1> HIDE DEF jx
<1>5. ASSUME NEW i \in Keys
      PROVE  /\ Rec(e.ix[t], Mem(e), i) = At(put, i) /\ Rec(e.ix[t], e.disk, i) = At(put, i)
             /\ Rec(d.ix[t], Mem(d), i) = 0
  <2>1. i \in Nat
    BY Constants
  <2>2. Here(jx, 0, i) /\ 0 \in DOMAIN jx
    BY <1>3, <2>1 DEF Here
  <2>3. Rec(jx, Mem(e), i) = At(Mem(e)[n].recs, i) /\ Rec(jx, e.disk, i) = At(e.disk[n].recs, i)
    BY <1>3, <2>1, <2>2, RecHere
  <2>4. Rec(d.ix[t], Mem(d), i) = 0
    BY DEF Rec
  <2> QED
    BY <1>1, <1>4, <2>3, <2>4
<1>6. ASSUME NEW s \in Tags \ {t}, NEW i \in Keys
      PROVE  /\ Rec(e.ix[s], Mem(e), i) = Rec(d.ix[s], Mem(d), i)
             /\ Rec(e.ix[s], e.disk, i) = Rec(d.ix[s], d.disk, i)
  <2>1. ASSUME NEW w \in DOMAIN d.ix[s]
        PROVE  /\ Mem(e)[d.ix[s][w]] = Mem(d)[d.ix[s][w]]
               /\ e.disk[d.ix[s][w]] = d.disk[d.ix[s][w]]
    BY <1>1, GoodPage
  <2>2. SameRecs(d.ix[s], Mem(d), Mem(e)) /\ SameRecs(d.ix[s], d.disk, e.disk)
    BY <2>1 DEF SameRecs
  <2>3. Rec(d.ix[s], Mem(e), i) = Rec(d.ix[s], Mem(d), i)
    <3>1. SameFound(d.ix[s], Mem(d), Mem(e))
      BY <2>2, RecSame
    <3> QED
      BY <3>1 DEF SameFound
  <2>4. Rec(d.ix[s], e.disk, i) = Rec(d.ix[s], d.disk, i)
    <3>1. SameFound(d.ix[s], d.disk, e.disk)
      BY <2>2, RecSame
    <3> QED
      BY <3>1 DEF SameFound
  <2> QED
    BY <1>4, <2>3, <2>4
<1>7. Trails(d, e)
  <2>1. \A s \in Tags : \A i \in Keys :
          Rec(e.ix[s], e.disk, i) \in {Rec(d.ix[s], d.disk, i), Rec(e.ix[s], Mem(e), i)}
    BY <1>5, <1>6
  <2> QED
    BY <2>1 DEF Trails
<1>8. Stored(d, e, t, put, 0)
  <2>1. \A i \in Keys : ~(i < 0)
    BY Constants
  <2> QED
    BY <1>5, <1>6, <2>1 DEF Stored, At
<1> QED
  BY <1>7, <1>8 DEF e

\* A record that is put among others.
LEMMA AtOverwritten ==
    ASSUME NEW r, NEW put, NEW i
    PROVE  At(Overwrite(r, put), i) = IF i \in DOMAIN put THEN put[i] ELSE At(r, i)
BY DEF At, Overwrite

\* The records of a tag when those of one page were written.
LEMMA WrittenRecs ==
    ASSUME NEW d, NEW t, NEW v, NEW p, NEW reuse, AtPage(d, t, v, p, reuse),
           NEW put, Batch(d, t, v, put), NEW e, e.ix = d.ix, e.disk = d.disk,
           \A q \in PageNos : Mem(e)[q].recs = IF q = p THEN Overwrite(Mem(d)[p].recs, put)
                                               ELSE Mem(d)[q].recs
    PROVE  Trails(d, e) /\ Stored(d, e, t, put, 0)
<1> DEFINE ix == d.ix[t]
           V == Mem(d)
<1>1. /\ Good(d, {}) /\ t \in Tags /\ v \in DOMAIN ix /\ p = ix[v] /\ HasTag(ix)
  BY DEF AtPage, HasTag
<1>2. ix \in Indexes /\ IsInjective(ix) /\ p \in PageNos
  BY <1>1, GoodPage
<1>3. \A i \in DOMAIN put : Here(ix, v, i)
  BY DEF Batch
<1> HIDE DEF V
<1>4. ASSUME NEW s \in Tags \ {t}, NEW i \in Keys PROVE Rec(e.ix[s], Mem(e), i) = Rec(d.ix[s], V, i)
  <2>1. ASSUME NEW w \in DOMAIN d.ix[s] PROVE Mem(e)[d.ix[s][w]].recs = V[d.ix[s][w]].recs
    <3>1. d.ix[s][w] \in PageNos
      BY <1>1, GoodPage
    <3>2. d.ix[s][w] # p
      BY <1>1 DEF Good, Accounted, Distinct
    <3> QED
      BY <3>1, <3>2 DEF V
  <2>2. SameRecs(d.ix[s], V, Mem(e))
    BY <2>1 DEF SameRecs
  <2>3. Rec(d.ix[s], Mem(e), i) = Rec(d.ix[s], V, i)
    <3>1. SameFound(d.ix[s], V, Mem(e))
      BY <1>1, <2>2, RecSame
    <3> QED
      BY <3>1 DEF SameFound
  <2> QED
    BY <2>3
<1>5. ASSUME NEW i \in Keys
      PROVE  Rec(e.ix[t], Mem(e), i) = IF i \in DOMAIN put THEN put[i] ELSE Rec(ix, V, i)
  <2>1. PICK w \in DOMAIN ix :
          /\ w \in Nat /\ Here(ix, w, i) /\ ix[w] \in PageNos
          /\ \A view : Rec(ix, view, i) = At(view[ix[w]].recs, i)
    BY <1>1, RecOf
  <2>2. Rec(ix, Mem(e), i) = At(Mem(e)[ix[w]].recs, i) /\ Rec(ix, V, i) = At(V[ix[w]].recs, i)
    BY <2>1
  <2>3. CASE w = v
    <3>1. Mem(e)[ix[w]].recs = Overwrite(V[ix[w]].recs, put)
      BY <1>1, <2>1, <2>3 DEF V
    <3> QED
      BY <2>2, <3>1, AtOverwritten
  <2>4. CASE w # v
    <3>1. i \notin DOMAIN put
      BY <1>1, <1>2, <1>3, <2>1, <2>4, OneHere
    <3>2. ix[w] # p
      BY <1>1, <1>2, <2>4 DEF IsInjective
    <3>3. Mem(e)[ix[w]].recs = V[ix[w]].recs
      BY <2>1, <3>2 DEF V
    <3> QED
      BY <2>2, <3>1, <3>3
  <2> QED
    BY <2>3, <2>4
<1>6. Trails(d, e)
  BY DEF Trails
<1>7. Stored(d, e, t, put, 0)
  <2>1. \A i \in Keys : ~(i < 0)
    BY Constants
  <2> QED
    BY <1>4, <1>5, <2>1 DEF Stored, V
<1> QED
  BY <1>6, <1>7

\* The page for the second half and the records: those of a page that was
\* taken over are given up.
LEMMA SecondRecs ==
    ASSUME NEW d, NEW t, NEW v, NEW p, NEW reuse, AtPage(d, t, v, p, reuse),
           NEW a, Second(d, t, v, p, reuse, a)
    PROVE  /\ \A k \in Nat : Here(a.d.ix[t], v, k) <=> Here(d.ix[t], v, k)
           /\ \E low \in {0} \union (IF reuse THEN Keys ELSE {}) :
                /\ low <= v
                /\ \A s \in Tags : \A i \in Keys :
                     Rec(a.d.ix[s], Mem(a.d), i) =
                       IF s = t /\ i < low THEN 0 ELSE Rec(d.ix[s], Mem(d), i)
<1> DEFINE ix == d.ix[t]
           jx == a.d.ix[t]
           e == a.d
           V == Mem(d)
<1>1. /\ Good(d, {}) /\ t \in Tags /\ v \in DOMAIN ix /\ p = ix[v]
      /\ ix \in Indexes /\ \A w \in DOMAIN ix : w \in Nat
  <2>1. Good(d, {}) /\ t \in Tags /\ v \in DOMAIN ix /\ p = ix[v]
    BY DEF AtPage
  <2>2. ix \in Indexes
    BY <2>1, GoodPage
  <2> QED
    BY <2>1, <2>2, ValueHere
<1>2. /\ Good(e, {a.page}) /\ v \in DOMAIN jx /\ jx[v] = p /\ DOMAIN jx \subseteq DOMAIN ix
  BY DEF Second
<1> HIDE DEF V, e
<1>3. CASE SamePages(d, e)
  <2>1. Stays(d, e) /\ e.ix = d.ix
    BY <1>1, <1>3, StaysSame DEF SamePages
  <2>2. \A i \in Keys : ~(i < 0)
    BY Constants
  <2>3. 0 <= v
    BY <1>1
  <2>4. \A s \in Tags : \A i \in Keys :
          Rec(e.ix[s], Mem(e), i) = IF s = t /\ i < 0 THEN 0 ELSE Rec(d.ix[s], Mem(d), i)
    BY <2>1, <2>2 DEF Stays
  <2>5. 0 \in {0} \union (IF reuse THEN Keys ELSE {})
    OBVIOUS
  <2> QED
    BY <2>1, <2>3, <2>4, <2>5 DEF e
<1>4. ASSUME reuse, DOMAIN e.dirty = {}, NEW c \in DOMAIN ix,
             0 < c, c <= v, NextTo(ix, 0, c), a.page = ix[c],
             Shrunk(d, t, 0, c, Mem(d)[a.page].recs, e, {a.page})
      PROVE  /\ \A k \in Nat : Here(jx, v, k) <=> Here(ix, v, k)
             /\ c \in Keys
             /\ \A s \in Tags : \A i \in Keys :
                  Rec(e.ix[s], Mem(e), i) =
                    IF s = t /\ i < c THEN 0 ELSE Rec(d.ix[s], Mem(d), i)
  <2>1. jx = DelIdxRec(ix, c, ix[c])
    <3>1. d.ix \in [Tags -> Indexes]
      BY <1>1, GoodParts
    <3>2. e.ix = [d.ix EXCEPT ![t] = DelIdxRec(ix, c, ix[c])]
      BY <1>4 DEF Shrunk
    <3> QED
      BY <1>1, <3>1, <3>2 DEF e
  <2>2. DOMAIN jx = DOMAIN ix \ {c}
    <3>1. ix \in Indexes /\ c \in DOMAIN ix /\ jx = DelIdxRec(ix, c, ix[c])
      BY <1>1, <2>1
    <3> HIDE DEF ix, jx
    <3> QED
      BY <3>1, Dropped
  <2>3. ASSUME NEW k \in Nat PROVE Here(jx, v, k) <=> Here(ix, v, k)
    BY <1>1, <1>4, <2>2 DEF Here
  <2>4. c \in Keys
    BY <1>1, <1>4, Index
  <2>5. ASSUME NEW s \in Tags, NEW i \in Keys
        PROVE  Rec(e.ix[s], Mem(e), i) = IF s = t /\ i < c THEN 0 ELSE Rec(d.ix[s], V, i)
    <3> DEFINE r == Mem(d)[a.page].recs
    <3>1. /\ Rec(e.ix[t], Mem(e), i) = IF Here(ix, 0, i) \/ Here(ix, c, i) THEN At(r, i)
                                       ELSE Rec(ix, V, i)
          /\ \A z \in Tags \ {t} : Rec(e.ix[z], Mem(e), i) = Rec(d.ix[z], V, i)
      <4> HIDE DEF r
      <4>1. Shrunk(d, t, 0, c, r, e, {a.page})
        BY <1>4 DEF r
      <4> QED
        BY <1>1, <4>1, ShrunkRecs DEF V
    <3>2. i \in Nat /\ c \in Nat
      BY <1>1, Constants
    <3>3. i < c <=> Here(ix, 0, i)
      BY <1>1, <1>4, <3>2 DEF Here, NextTo
    <3>4. \A j \in DOMAIN r : Here(ix, c, j)
      BY <1>1, <1>4, GoodPage, Zenon DEF Fine
    <3>5. Here(ix, c, i) => Rec(ix, V, i) = At(r, i) /\ ~(i < c)
      BY <1>1, <1>4, <3>2, RecHere DEF Here, V
    <3>6. i < c => At(r, i) = 0
      <4>1. \A j \in DOMAIN r : c <= j
        BY <3>4 DEF Here
      <4> HIDE DEF r
      <4> QED
        BY <3>2, <4>1 DEF At
    <3> HIDE DEF r
    <3> QED
      BY <3>1, <3>3, <3>5, <3>6
  <2> QED
    BY <2>3, <2>4, <2>5 DEF V
<1>5. \/ SamePages(d, e)
      \/ /\ reuse /\ DOMAIN e.dirty = {}
         /\ \E c \in DOMAIN ix :
              /\ 0 < c /\ c <= v /\ NextTo(ix, 0, c) /\ a.page = ix[c]
              /\ Shrunk(d, t, 0, c, Mem(d)[a.page].recs, e, {a.page})
  BY DEF Second, e
<1> QED
  BY <1>3, <1>4, <1>5 DEF e

\* Table e is d with the records of put among those of page p, and half of them
\* in the page behind it.
IsHalved(d, t, v, p, reuse, put, e, a, x) ==
    LET recs == Overwrite(Mem(d)[p].recs, put)
    IN  /\ AtPage(d, t, v, p, reuse) /\ Batch(d, t, v, put) /\ Second(d, t, v, p, reuse, a)
        /\ Good(e, {}) /\ DOMAIN e.dirty = {} /\ x \in DOMAIN recs
        /\ e.ix = [a.d.ix EXCEPT ![t] = InsertIdx(a.d.ix[t], x, a.page)]
        /\ \A q \in PageNos : e.disk[q].recs = IF q = a.page THEN From(recs, x)
                                               ELSE IF q = p THEN Below(recs, x)
                                               ELSE Mem(a.d)[q].recs

\* The records after a page was split: half of them are in the page behind it.
LEMMA SplitRecs ==
    ASSUME NEW d, NEW t, NEW v, NEW p, NEW reuse, NEW put, NEW e, NEW a, NEW x,
           IsHalved(d, t, v, p, reuse, put, e, a, x)
    PROVE  /\ Trails(d, e)
           /\ \E low \in {0} \union (IF reuse THEN Keys ELSE {}) :
                (\A i \in DOMAIN put : low <= i) /\ Stored(d, e, t, put, low)
<1> DEFINE ix == d.ix[t]
           jx == a.d.ix[t]
           kx == InsertIdx(jx, x, a.page)
           W == Mem(a.d)
           recs == Overwrite(Mem(d)[p].recs, put)
<1>a. AtPage(d, t, v, p, reuse)
  BY DEF IsHalved
<1>b. Batch(d, t, v, put)
  BY DEF IsHalved
<1>c. Second(d, t, v, p, reuse, a)
  BY DEF IsHalved
<1>d. Good(e, {}) /\ DOMAIN e.dirty = {} /\ x \in DOMAIN recs
  BY DEF IsHalved
<1>e. e.ix = [a.d.ix EXCEPT ![t] = InsertIdx(a.d.ix[t], x, a.page)]
  BY DEF IsHalved
<1>f. \A q \in PageNos : e.disk[q].recs = IF q = a.page THEN From(recs, x)
                                          ELSE IF q = p THEN Below(recs, x) ELSE W[q].recs
  BY DEF IsHalved
<1>1. /\ Good(d, {}) /\ t \in Tags /\ v \in DOMAIN ix /\ p = ix[v] /\ v \in Nat
      /\ p \in PageNos /\ Fine(ix, v, Mem(d)[p]) /\ ix \in Indexes
  <2>1. Good(d, {}) /\ t \in Tags /\ v \in DOMAIN ix /\ p = ix[v]
    BY <1>a DEF AtPage
  <2>2. ix \in Indexes /\ p \in PageNos /\ Fine(ix, v, Mem(d)[p])
    BY <2>1, GoodPage
  <2> QED
    BY <2>1, <2>2, ValueHere
<1>2. /\ Good(a.d, {a.page}) /\ a.page \in PageNos /\ v \in DOMAIN jx /\ jx[v] = p
  BY <1>c DEF Second
<1>3. jx \in Indexes /\ IsInjective(jx) /\ a.d.ix \in [Tags -> Indexes]
  BY <1>1, <1>2, GoodPage, GoodParts
<1>4. ASSUME NEW s \in Tags, NEW w \in DOMAIN a.d.ix[s]
      PROVE  w \in Nat /\ a.d.ix[s][w] \in PageNos /\ a.d.ix[s][w] # a.page
  <2>1. a.d.ix[s] \in Indexes /\ a.d.ix[s][w] \in PageNos /\ a.d.ix[s][w] \notin {a.page}
    BY <1>2, GoodPage
  <2> QED
    BY <2>1, ValueHere
<1>5. PICK low \in {0} \union (IF reuse THEN Keys ELSE {}) :
        /\ low <= v
        /\ \A s \in Tags : \A i \in Keys :
             Rec(a.d.ix[s], W, i) = IF s = t /\ i < low THEN 0 ELSE Rec(d.ix[s], Mem(d), i)
  BY <1>a, <1>c, SecondRecs
<1>6. \A k \in Nat : Here(jx, v, k) <=> Here(ix, v, k)
  BY <1>a, <1>c, SecondRecs
<1>7. DOMAIN recs \subseteq Keys /\ \A k \in DOMAIN recs : Here(ix, v, k)
  <2>1. Mem(d)[p].recs \in PageRecs /\ put \in PageRecs
    BY <1>1, <1>b DEF Fine, Pages, Batch
  <2>2. recs \in PageRecs /\ DOMAIN recs = DOMAIN Mem(d)[p].recs \union DOMAIN put
    BY <2>1, Overwritten
  <2> QED
    BY <1>1, <1>b, <2>2, Recs DEF Fine, Batch
<1>8. x \in Keys /\ x \in Nat /\ Here(jx, v, x) /\ low \in Nat
  <2>1. Keys \subseteq Nat /\ 0 \in Nat
    BY Constants
  <2>2. low = 0 \/ low \in Keys
    BY <1>5
  <2>3. low \in Nat
    BY <2>1, <2>2
  <2>4. x \in Keys /\ Here(ix, v, x)
    BY <1>d, <1>7
  <2>5. x \in Nat
    BY <2>1, <2>4
  <2> QED
    BY <1>6, <2>3, <2>4, <2>5
<1>9. /\ kx \in Indexes /\ DOMAIN kx = DOMAIN jx \union {x} /\ kx[x] = a.page
      /\ \A w \in DOMAIN jx \ {x} : kx[w] = jx[w]
  <2>1. x \in {0} \union Keys
    BY <1>8
  <2>2. jx \in Indexes /\ a.page \in PageNos
    BY <1>2, <1>3
  <2>3. IsInserted(jx, x, a.page, kx)
    <3> HIDE DEF jx
    <3> QED
      BY <2>1, <2>2, Inserted
  <2> HIDE DEF jx, kx
  <2> QED
    BY <2>3 DEF IsInserted
<1>10. e.ix[t] = kx /\ \A s \in Tags \ {t} : e.ix[s] = a.d.ix[s]
  BY <1>1, <1>3, <1>e
<1>11. Mem(e) = e.disk /\ Trails(d, e)
  BY <1>d, Clean, TrailsSaved DEF Good
<1>12. \A q \in PageNos : e.disk[q].recs = IF q = a.page THEN From(recs, x)
                                           ELSE IF q = p THEN Below(recs, x) ELSE W[q].recs
  BY <1>f
<1> HIDE DEF kx, W, recs
<1>13. ASSUME NEW i \in Keys
       PROVE  Rec(kx, e.disk, i) = IF Here(ix, v, i) THEN At(recs, i) ELSE Rec(jx, W, i)
  <2>1. i \in Nat /\ HasTag(kx) /\ HasTag(e.ix[t])
    BY <1>9, <1>10, Constants DEF HasTag
  <2>a. Good(e, {}) /\ t \in Tags
    BY <1>1, <1>d
  <2>b. PICK w \in DOMAIN e.ix[t] :
          /\ w \in Nat /\ Here(e.ix[t], w, i) /\ e.ix[t][w] \in PageNos
          /\ \A view : Rec(e.ix[t], view, i) = At(view[e.ix[t][w]].recs, i)
    BY <2>1, <2>a, RecOf
  <2>2. w \in DOMAIN kx /\ w \in Nat /\ Here(kx, w, i) /\ Rec(kx, e.disk, i) = At(e.disk[kx[w]].recs, i)
    BY <1>10, <2>b
  <2>3. w <= i /\ \A u \in DOMAIN kx : u <= i => u <= w
    BY <2>2 DEF Here
  <2>4. CASE w = x
    <3>1. Here(jx, v, i)
      <4>1. \A u \in DOMAIN jx : u <= i => u <= v
        BY <1>8, <1>9, <2>3, <2>4 DEF Here
      <4>2. v <= i
        BY <1>1, <1>8, <2>1, <2>3, <2>4 DEF Here
      <4> QED
        BY <4>1, <4>2 DEF Here
    <3>2. At(From(recs, x), i) = At(recs, i)
      BY <2>3, <2>4 DEF At, From
    <3>3. e.disk[kx[w]].recs = From(recs, x)
      BY <1>2, <1>9, <1>12, <2>4
    <3> QED
      BY <1>6, <2>1, <2>2, <3>1, <3>2, <3>3
  <2>5. CASE w # x /\ w = v
    <3>1. Here(jx, v, i)
      BY <1>9, <2>3, <2>5 DEF Here
    <3>2. kx[w] = p /\ p # a.page
      BY <1>1, <1>2, <1>4, <1>9, <2>5
    <3>3. e.disk[kx[w]].recs = Below(recs, x)
      BY <1>1, <1>12, <3>2
    <3>4. i < x
      <4>1. v <= x /\ v < x
        BY <1>1, <1>8, <2>5 DEF Here
      <4>2. x <= i => x <= v
        BY <1>9, <2>3, <2>5
      <4> QED
        BY <1>1, <1>8, <2>1, <4>1, <4>2
    <3>5. At(Below(recs, x), i) = At(recs, i)
      BY <3>4 DEF At, Below
    <3> QED
      BY <1>6, <2>1, <2>2, <3>1, <3>3, <3>5
  <2>6. CASE w # x /\ w # v
    <3>1. w \in DOMAIN jx /\ kx[w] = jx[w] /\ Here(jx, w, i)
      BY <1>9, <2>2, <2>6 DEF Here
    <3>2. jx[w] \in PageNos /\ jx[w] # a.page /\ jx[w] # p
      BY <1>1, <1>2, <1>3, <1>4, <2>6, <3>1 DEF IsInjective
    <3>3. e.disk[kx[w]].recs = W[jx[w]].recs
      BY <1>12, <3>1, <3>2
    <3>4. Rec(jx, W, i) = At(W[jx[w]].recs, i)
      BY <1>3, <2>1, <3>1, RecHere
    <3>5. ~Here(jx, v, i)
      BY <1>2, <1>3, <2>6, <3>1, OneHere
    <3> QED
      BY <1>6, <2>1, <2>2, <3>3, <3>4, <3>5
  <2> QED
    BY <2>4, <2>5, <2>6
<1>14. ASSUME NEW s \in Tags \ {t}, NEW i \in Keys PROVE Rec(e.ix[s], e.disk, i) = Rec(a.d.ix[s], W, i)
  <2>1. ASSUME NEW w \in DOMAIN a.d.ix[s] PROVE e.disk[a.d.ix[s][w]].recs = W[a.d.ix[s][w]].recs
    <3>1. a.d.ix[s][w] # p
      BY <1>1, <1>2 DEF Good, Accounted, Distinct
    <3> QED
      BY <1>4, <1>12, <3>1
  <2>2. SameRecs(a.d.ix[s], W, e.disk)
    BY <2>1 DEF SameRecs
  <2>a. Good(a.d, {a.page}) /\ s \in Tags
    BY <1>2
  <2>b. SameFound(a.d.ix[s], W, e.disk)
    <3> DEFINE c == a.d
               L == {a.page}
               F == e.disk
    <3>1. Good(c, L) /\ SameRecs(c.ix[s], W, F) /\ s \in Tags
      BY <2>a, <2>2
    <3>2. SameFound(c.ix[s], W, F)
      <4> HIDE DEF c, L, F
      <4> QED
        BY <3>1, RecSame
    <3> QED
      BY <3>2
  <2>3. Rec(a.d.ix[s], e.disk, i) = Rec(a.d.ix[s], W, i)
    BY <2>b DEF SameFound
  <2> QED
    BY <1>10, <2>3
<1>15. \A i \in DOMAIN put : low <= i
  <2> TAKE i \in DOMAIN put
  <2>1. Here(ix, v, i) /\ i \in Nat
    BY <1>b, Recs, Constants DEF Batch
  <2> QED
    BY <1>1, <1>5, <1>8, <2>1 DEF Here
<1>16. ASSUME NEW i \in Keys
       PROVE  Rec(kx, e.disk, i) = IF i \in DOMAIN put THEN put[i]
                                   ELSE IF i < low THEN 0 ELSE Rec(ix, Mem(d), i)
  <2>1. At(recs, i) = IF i \in DOMAIN put THEN put[i] ELSE At(Mem(d)[p].recs, i)
    BY AtOverwritten DEF recs
  <2>2. i \in DOMAIN put => Here(ix, v, i)
    BY <1>b DEF Batch
  <2>3. CASE Here(ix, v, i)
    <3>1. i \in Nat /\ ~(i < low)
      BY <1>1, <1>5, <1>8, <2>3, Constants DEF Here
    <3>2. Rec(ix, Mem(d), i) = At(Mem(d)[ix[v]].recs, i)
      BY <1>1, <2>3, <3>1, RecHere
    <3> QED
      BY <1>1, <1>13, <2>1, <2>3, <3>1, <3>2
  <2>4. CASE ~Here(ix, v, i)
    BY <1>1, <1>5, <1>13, <2>2, <2>4
  <2> QED
    BY <2>3, <2>4
<1>17. Stored(d, e, t, put, low)
  BY <1>5, <1>10, <1>11, <1>14, <1>16 DEF Stored
<1> QED
  BY <1>11, <1>15, <1>17

\* What became of the records that were given to a tag.
LEMMA PutRecs ==
    ASSUME NEW d, Good(d, {}), NEW t \in Tags, NEW put, NEW reuse, NEW o, Good(o.d, {}),
           HasPut(d, t, put, reuse, o)
    PROVE  /\ o.ok \in BOOLEAN /\ Trails(d, o.d)
           /\ o.ok = FALSE => Stays(d, o.d)
           /\ o.ok = TRUE =>
                \E low \in {0} \union (IF reuse THEN Keys ELSE {}) :
                  (\A i \in DOMAIN put : low <= i) /\ Stored(d, o.d, t, put, low)
<1> DEFINE Goal == /\ o.ok \in BOOLEAN /\ Trails(d, o.d)
                   /\ o.ok = FALSE => Stays(d, o.d)
                   /\ o.ok = TRUE =>
                        \E low \in {0} \union (IF reuse THEN Keys ELSE {}) :
                          (\A i \in DOMAIN put : low <= i) /\ Stored(d, o.d, t, put, low)
<1>1. ASSUME o.ok = FALSE, SamePages(d, o.d) PROVE Goal
  <2>1. Stays(d, o.d) /\ Trails(d, o.d)
    BY <1>1, StaysSame
  <2> QED
    BY <1>1, <2>1
<1>2. ASSUME o.ok = TRUE, put \in PageRecs, Trails(d, o.d), Stored(d, o.d, t, put, 0) PROVE Goal
  <2>1. \A i \in DOMAIN put : 0 <= i
    BY <1>2, Recs, Constants
  <2>2. 0 \in {0} \union (IF reuse THEN Keys ELSE {})
    OBVIOUS
  <2> QED
    BY <1>2, <2>1, <2>2
<1>3. ASSUME ~HasTag(d.ix[t]), put \in PageRecs, IsNew(d, t, put, o) PROVE Goal
  <2>1. CASE o.ok = FALSE /\ SamePages(d, o.d)
    BY <1>1, <2>1
  <2>2. CASE o.ok = TRUE
    BY <1>2, <1>3, <2>2, NewRecs
  <2> QED
    BY <1>3, <2>1, <2>2 DEF IsNew
<1>4. ASSUME NEW v \in DOMAIN d.ix[t], Batch(d, t, v, put), AtPage(d, t, v, d.ix[t][v], reuse),
             IsStored(d, t, d.ix[t][v], put, reuse, o)
      PROVE  Goal
  <2> DEFINE p == d.ix[t][v]
             recs == Overwrite(Mem(d)[p].recs, put)
  <2>1. CASE o.ok = FALSE /\ SamePages(d, o.d)
    BY <1>1, <2>1
  <2>2. ASSUME o.ok = TRUE, o.d.ix = d.ix, o.d.disk = d.disk,
               \A q \in PageNos : Mem(o.d)[q].recs = IF q = p THEN recs ELSE Mem(d)[q].recs
        PROVE  Goal
    <3>1. put \in PageRecs
      BY <1>4 DEF Batch
    <3> HIDE DEF Goal
    <3>2. Trails(d, o.d) /\ Stored(d, o.d, t, put, 0)
      BY <1>4, <2>2, WrittenRecs
    <3> QED
      BY <1>2, <2>2, <3>1, <3>2
  <2>3. ASSUME o.ok = TRUE, DOMAIN o.d.dirty = {}, NEW a \in SecondPage(d, t, p, reuse),
               NEW x \in DOMAIN recs, a.page # Nil,
               o.d.ix = [a.d.ix EXCEPT ![t] = InsertIdx(a.d.ix[t], x, a.page)],
               \A q \in PageNos :
                 o.d.disk[q].recs = IF q = a.page THEN From(recs, x)
                                    ELSE IF q = p THEN Below(recs, x)
                                    ELSE Mem(a.d)[q].recs
        PROVE  Goal
    <3>1. Second(d, t, v, p, reuse, a)
      BY <1>4, <2>3, GoodSecond
    <3>2. /\ Trails(d, o.d)
          /\ \E low \in {0} \union (IF reuse THEN Keys ELSE {}) :
               (\A i \in DOMAIN put : low <= i) /\ Stored(d, o.d, t, put, low)
      <4>1. IsHalved(d, t, v, p, reuse, put, o.d, a, x)
        BY <1>4, <2>3, <3>1 DEF IsHalved
      <4> HIDE DEF p
      <4> QED
        BY <4>1, SplitRecs
    <3> QED
      BY <2>3, <3>2
  <2> HIDE DEF Goal
  <2> QED
    BY <1>4, <2>1, <2>2, <2>3, Zenon DEF IsStored
<1> HIDE DEF Goal
<1>5. ASSUME NEW v \in DOMAIN d.ix[t],
             /\ Batch(d, t, v, put) /\ AtPage(d, t, v, d.ix[t][v], reuse)
             /\ IsStored(d, t, d.ix[t][v], put, reuse, o)
      PROVE  Goal
  BY <1>4, <1>5
<1>6. Goal
  <2>1. CASE ~HasTag(d.ix[t]) /\ put \in PageRecs /\ DOMAIN put # {} /\ IsNew(d, t, put, o)
    BY <1>3, <2>1
  <2>2. CASE \E v \in DOMAIN d.ix[t] :
               /\ Batch(d, t, v, put) /\ AtPage(d, t, v, d.ix[t][v], reuse)
               /\ IsStored(d, t, d.ix[t][v], put, reuse, o)
    BY <1>5, <2>2
  <2> QED
    BY <2>1, <2>2 DEF HasPut
<1> QED
  BY <1>6 DEF Goal

\* The records of the tags when their pages are those of view.
AllRecs(ix, view) == [t \in Tags |-> [k \in Keys |-> Rec(ix[t], view, k)]]

\* What the refinement mapping says of a table.
RecordsAre ==
    /\ Records(InMemory) = AllRecs(Table.ix, Mem(Table))
    /\ Records(OnDisk) = AllRecs(Table.ix, Table.disk)

\* The refinement mapping written with the record found under each key.
LEMMA RecordsHere == IInv => RecordsAre
<1> SUFFICES ASSUME IInv PROVE RecordsAre
  OBVIOUS
<1>1. ASSUME NEW t \in Tags, NEW k \in Keys
      PROVE  /\ Found(InMemory, t, k) = Rec(Table.ix[t], Mem(Table), k)
             /\ Found(OnDisk, t, k) = Rec(Table.ix[t], Table.disk, k)
  <2>1. Good(Table, {}) /\ k \in Nat
    BY Constants DEF IInv
  <2>2. CASE HasTag(Table.ix[t])
    <3>1. PICK v \in DOMAIN Table.ix[t] :
            /\ GetIdx(Table.ix[t], k) = Table.ix[t][v]
            /\ GetPage(Table, Table.ix[t][v]) = Mem(Table)[Table.ix[t][v]]
      BY <2>1, <2>2, GoodHere
    <3> QED
      BY <2>2, <3>1 DEF Found, InMemory, OnDisk, Rec, At, Table
  <2>3. CASE ~HasTag(Table.ix[t])
    BY <2>3 DEF Found, Rec, Table
  <2> QED
    BY <2>2, <2>3
<1>2. /\ Records(InMemory) = AllRecs(Table.ix, Mem(Table))
      /\ Records(OnDisk) = AllRecs(Table.ix, Table.disk)
  BY <1>1 DEF Records, AllRecs
<1> QED
  BY <1>2 DEF RecordsAre

\* The records on disk follow those in memory.
LEMMA FollowsIs ==
    ASSUME RecordsAre, RecordsAre', Trails(Table, Table')
    PROVE  TheRecords!Follows
BY DEF TheRecords!Follows, RecordsAre, Trails, AllRecs

\* A record is a value or none.
LEMMA RecType ==
    ASSUME IInv, NEW t \in Tags, NEW k \in Keys
    PROVE  Rec(Table.ix[t], Mem(Table), k) \in Vals \union {0}
<1>1. Good(Table, {})
  BY DEF IInv
<1>2. CASE HasTag(Table.ix[t])
  <2>1. PICK v \in DOMAIN Table.ix[t] :
          /\ Table.ix[t][v] \in PageNos
          /\ \A view : Rec(Table.ix[t], view, k) = At(view[Table.ix[t][v]].recs, k)
    BY <1>1, <1>2, RecOf
  <2>2. Mem(Table)[Table.ix[t][v]] \in Pages
    BY <1>1, <2>1, GoodParts
  <2>3. Mem(Table)[Table.ix[t][v]].recs \in PageRecs
    BY <2>2 DEF Pages
  <2>4. At(Mem(Table)[Table.ix[t][v]].recs, k) \in Vals \union {0}
    BY <2>3, Recs DEF At
  <2> QED
    BY <2>1, <2>4
<1>3. CASE ~HasTag(Table.ix[t])
  BY <1>3 DEF Rec
<1> QED
  BY <1>2, <1>3

\* A call that stored the records of put, the first n of w.
LEMMA PutIs ==
    ASSUME RecordsAre, RecordsAre', Trails(Table, Table'), NEW t \in Tags, NEW w, NEW n \in Nat,
           n >= 1, NEW reuse, reply' = Put(t, w, n, reuse),
           NEW low \in {0} \union (IF reuse THEN Keys ELSE {}), \A k \in DOMAIN w : low <= k,
           Stored(Table, Table', t, Taking(w, n), low)
    PROVE  TheRecords!Put
<1>1. TheRecords!Follows
  BY FollowsIs
<1>2. /\ reply'.call = "put" /\ reply'.tag = t /\ reply'.put = w /\ reply'.n = n
      /\ reply'.reuse = reuse
  BY DEF Put
<1>3. DOMAIN Taking(w, n) = Lowest(DOMAIN w, n) /\ \A k \in Lowest(DOMAIN w, n) : Taking(w, n)[k] = w[k]
  BY DEF Taking
<1>4. TheRecords!Lowest(DOMAIN w, n) = Lowest(DOMAIN w, n)
  <2>1. \A S : TheRecords!Cardinality(S) = Cardinality(S)
    BY DEF TheRecords!Cardinality, Cardinality
  <2> QED
    BY <2>1 DEF TheRecords!Lowest, Lowest
<1>5. ~(n < 0)
  OBVIOUS
<1>6. \A s \in Tags : \A i \in Keys :
        Records(InMemory)'[s][i] =
          IF s # t THEN Records(InMemory)[s][i]
          ELSE IF i \in Lowest(DOMAIN w, n) THEN w[i]
          ELSE IF i < low THEN 0 ELSE Records(InMemory)[t][i]
  BY <1>3 DEF Stored, RecordsAre, AllRecs
<1> QED
  BY <1>1, <1>2, <1>4, <1>5, <1>6 DEF TheRecords!Put, TheRecords!Change, TheRecords!NoRec

\* A call that has failed.
LEMMA FailedIs ==
    ASSUME RecordsAre, RecordsAre', Trails(Table, Table'), Stays(Table, Table'),
           NEW t, NEW w, NEW reuse, reply' = Put(t, w, -1, reuse)
    PROVE  TheRecords!Put
<1>1. TheRecords!Follows
  BY FollowsIs
<1>2. reply'.call = "put" /\ reply'.n = -1
  BY DEF Put
<1>3. TheRecords!Keep
  BY DEF TheRecords!Keep, RecordsAre, AllRecs, Stays
<1> QED
  BY <1>1, <1>2, <1>3 DEF TheRecords!Put, TheRecords!Change

\* The call that insert and insertfast come to, of the first n records of w.
LEMMA PutRefines ==
    ASSUME IInv, IInv', NEW t \in Tags, NEW w \in Puts \union Batches, NEW n \in Nat, n >= 1,
           NEW reuse \in BOOLEAN, NEW o, Table' = o.d, HasPut(Table, t, Taking(w, n), reuse, o),
           reply' = Put(t, w, IF o.ok THEN n ELSE -1, reuse)
    PROVE  TheRecords!Put
<1>1. Good(Table, {}) /\ Good(o.d, {})
  BY DEF IInv
<1>2. /\ o.ok \in BOOLEAN /\ Trails(Table, o.d)
      /\ o.ok = FALSE => Stays(Table, o.d)
      /\ o.ok = TRUE =>
           \E low \in {0} \union (IF reuse THEN Keys ELSE {}) :
             /\ \A i \in DOMAIN Taking(w, n) : low <= i
             /\ Stored(Table, o.d, t, Taking(w, n), low)
  BY <1>1, PutRecs
<1>3. RecordsAre /\ RecordsAre'
  <2>1. IInv => RecordsAre
    BY RecordsHere
  <2>2. IInv' => RecordsAre'
    BY RecordsHere, PTL
  <2> QED
    BY <2>1, <2>2
<1>4. CASE o.ok = FALSE
  <2>1. reply' = Put(t, w, -1, reuse)
    BY <1>4
  <2>2. Trails(Table, Table') /\ Stays(Table, Table')
    BY <1>2, <1>4
  <2> QED
    BY <1>3, <2>1, <2>2, FailedIs
<1>5. CASE o.ok = TRUE
  <2>1. PICK low \in {0} \union (IF reuse THEN Keys ELSE {}) :
          /\ \A i \in DOMAIN Taking(w, n) : low <= i
          /\ Stored(Table, o.d, t, Taking(w, n), low)
    BY <1>2, <1>5
  <2>2. low <= MinKey(w) /\ \A k \in DOMAIN w : MinKey(w) <= k
    BY <2>1, TakingIs, GivenRecords
  <2>3. low \in Nat
    <3>1. low = 0 \/ low \in Keys
      BY <2>1
    <3> QED
      BY <3>1, Constants
  <2>4. DOMAIN w \subseteq Nat /\ MinKey(w) \in Nat
    BY GivenRecords
  <2>5. \A k \in DOMAIN w : low <= k
    BY <2>2, <2>3, <2>4
  <2>6. reply' = Put(t, w, n, reuse)
    BY <1>5
  <2>7. Trails(Table, Table') /\ Stored(Table, Table', t, Taking(w, n), low)
    BY <1>2, <2>1
  <2> QED
    BY <1>3, <2>5, <2>6, <2>7, PutIs
<1> QED
  BY <1>2, <1>4, <1>5

\* insert stores its record, or nothing.
LEMMA InsertRefines ==
    ASSUME IInv, NEW t \in Tags, NEW w \in Puts, Insert(t, w)
    PROVE  TheRecords!Put
<1>1. IInv'
  BY InsertStep
<1>2. PICK o : /\ Table' = o.d /\ HasPut(Table, t, w, FALSE, o)
               /\ reply' = Put(t, w, IF o.ok THEN 1 ELSE -1, FALSE)
  BY InsertStep
<1>3. PICK k \in Keys : DOMAIN w = {k}
  BY TableAssumption
<1>4. Lowest(DOMAIN w, 1) = DOMAIN w /\ w \in [DOMAIN w -> Vals]
  <2>1. Lowest(DOMAIN w, 1) = {MinKey(w)} /\ MinKey(w) \in DOMAIN w
    BY TakingIs, GivenRecords
  <2>2. MinKey(w) = k
    BY <1>3, <2>1
  <2> QED
    BY <1>3, <2>1, <2>2, TableAssumption
<1>5. Taking(w, 1) = w
  BY <1>4 DEF Taking
<1>6. HasPut(Table, t, Taking(w, 1), FALSE, o)
  BY <1>2, <1>5
<1>7. PICK n \in Nat : n = 1
  OBVIOUS
<1>8. PICK r \in BOOLEAN : r = FALSE
  OBVIOUS
<1>9. HasPut(Table, t, Taking(w, n), r, o) /\ reply' = Put(t, w, IF o.ok THEN n ELSE -1, r)
  BY <1>2, <1>6, <1>7, <1>8
<1>10. w \in Puts \union Batches /\ n >= 1
  BY <1>7
<1> QED
  BY <1>1, <1>2, <1>9, <1>10, PutRefines

\* insertfast stores as many as it says of the records it was given, or nothing.
LEMMA InsertFastRefines ==
    ASSUME IInv, NEW t \in Tags, NEW w \in Batches, NEW reuse \in BOOLEAN, InsertFast(t, w, reuse)
    PROVE  TheRecords!Put
<1>1. IInv'
  BY InsertFastStep
<1>2. PICK o : \E n \in Nat :
        /\ Table' = o.d /\ n >= 1 /\ HasPut(Table, t, Taking(w, n), reuse, o)
        /\ reply' = Put(t, w, IF o.ok THEN n ELSE -1, reuse)
  BY InsertFastStep
<1>3. w \in Puts \union Batches
  OBVIOUS
<1>4. PICK n \in Nat :
        /\ Table' = o.d /\ n >= 1 /\ HasPut(Table, t, Taking(w, n), reuse, o)
        /\ reply' = Put(t, w, IF o.ok THEN n ELSE -1, reuse)
  BY <1>2
<1> QED
  BY <1>1, <1>3, <1>4, PutRefines

\* deleterecord takes out the record, and says whether there was one.
LEMMA DeleteRefines ==
    ASSUME IInv, NEW t \in Tags, NEW k \in Keys, Delete(t, k)
    PROVE  TheRecords!Delete
<1>1. IInv' /\ reply'.call = "delete" /\ reply'.tag = t /\ reply'.key = k
  BY DeleteStep
<1>2. RecordsAre /\ RecordsAre'
  <2>1. IInv => RecordsAre
    BY RecordsHere
  <2>2. IInv' => RecordsAre'
    BY RecordsHere, PTL
  <2> QED
    BY <1>1, <2>1, <2>2
<1>3. Good(Table, {}) /\ Good(Table', {}) /\ k \in Nat
  BY <1>1, Constants DEF IInv
<1>4. SUFFICES
        /\ Trails(Table, Table')
        /\ \A s \in Tags : \A i \in Keys :
             Rec(Table'.ix[s], Mem(Table'), i) =
               IF s = t /\ i = k THEN 0 ELSE Rec(Table.ix[s], Mem(Table), i)
        /\ reply'.n = IF Rec(Table.ix[t], Mem(Table), k) = 0 THEN 1 ELSE 0
  <2>1. TheRecords!Follows
    BY <1>2, <1>4, FollowsIs
  <2>2. reply'.n = IF Records(InMemory)[t][k] = 0 THEN 1 ELSE 0
    BY <1>2, <1>4 DEF RecordsAre, AllRecs
  <2>3. \A s \in Tags : \A i \in Keys :
          Records(InMemory)'[s][i] =
            IF s = t THEN IF i = k THEN 0 ELSE Records(InMemory)[t][i] ELSE Records(InMemory)[s][i]
    BY <1>2, <1>4 DEF RecordsAre, AllRecs
  <2> QED
    BY <1>1, <2>1, <2>2, <2>3 DEF TheRecords!Delete, TheRecords!Change, TheRecords!NoRec
<1>5. ASSUME reply'.n = 0, NEW v \in DOMAIN Table.ix[t], Here(Table.ix[t], v, k),
             k \in DOMAIN Mem(Table)[Table.ix[t][v]].recs, IsDeleted(Table, t, k, v, Table')
      PROVE  /\ Trails(Table, Table')
             /\ \A s \in Tags : \A i \in Keys :
                  Rec(Table'.ix[s], Mem(Table'), i) =
                    IF s = t /\ i = k THEN 0 ELSE Rec(Table.ix[s], Mem(Table), i)
             /\ reply'.n = IF Rec(Table.ix[t], Mem(Table), k) = 0 THEN 1 ELSE 0
  <2>1. Table.ix[t] \in Indexes /\ Table.ix[t][v] \in PageNos
    BY <1>3, GoodPage
  <2>2. Rec(Table.ix[t], Mem(Table), k) = Mem(Table)[Table.ix[t][v]].recs[k]
    BY <1>3, <1>5, <2>1, RecHere DEF At
  <2>3. Mem(Table)[Table.ix[t][v]] \in Pages
    BY <1>3, <2>1, GoodParts
  <2>4. Mem(Table)[Table.ix[t][v]].recs[k] \in Vals
    BY <1>5, <2>3, Recs DEF Pages
  <2>5. Rec(Table.ix[t], Mem(Table), k) # 0
    BY <2>2, <2>4, Constants
  <2>6. /\ Trails(Table, Table')
        /\ \A s \in Tags : \A i \in Keys :
             Rec(Table'.ix[s], Mem(Table'), i) =
               IF s = t /\ i = k THEN 0 ELSE Rec(Table.ix[s], Mem(Table), i)
    BY <1>3, <1>5, DeletedRecs
  <2> QED
    BY <1>5, <2>5, <2>6
<1>6. ASSUME reply'.n = 1, Table' = Table,
             HasTag(Table.ix[t]) =>
               \E v \in DOMAIN Table.ix[t] :
                 Here(Table.ix[t], v, k) /\ k \notin DOMAIN Mem(Table)[Table.ix[t][v]].recs
      PROVE  /\ Trails(Table, Table')
             /\ \A s \in Tags : \A i \in Keys :
                  Rec(Table'.ix[s], Mem(Table'), i) =
                    IF s = t /\ i = k THEN 0 ELSE Rec(Table.ix[s], Mem(Table), i)
             /\ reply'.n = IF Rec(Table.ix[t], Mem(Table), k) = 0 THEN 1 ELSE 0
  <2>1. Rec(Table.ix[t], Mem(Table), k) = 0
    <3>1. CASE HasTag(Table.ix[t])
      <4>1. PICK v \in DOMAIN Table.ix[t] :
              Here(Table.ix[t], v, k) /\ k \notin DOMAIN Mem(Table)[Table.ix[t][v]].recs
        BY <1>6, <3>1
      <4>2. Table.ix[t] \in Indexes
        BY <1>3, GoodPage
      <4> QED
        BY <1>3, <4>1, <4>2, RecHere DEF At
    <3>2. CASE ~HasTag(Table.ix[t])
      BY <3>2 DEF Rec
    <3> QED
      BY <3>1, <3>2
  <2>2. Trails(Table, Table)
    BY DEF Trails
  <2> QED
    BY <1>6, <2>1, <2>2
<1> QED
  BY <1>5, <1>6, DeleteStep

\* DeleteTag takes out the records of the tag, also on disk.
LEMMA DeleteTagRefines ==
    ASSUME IInv, NEW t \in Tags, DeleteTag(t)
    PROVE  TheRecords!DeleteTag
<1>1. IInv' /\ reply' = [call |-> "deletetag", tag |-> t] /\ IsTagDeleted(Table, t, Table')
  BY DeleteTagStep
<1>2. RecordsAre /\ RecordsAre'
  <2>1. IInv => RecordsAre
    BY RecordsHere
  <2>2. IInv' => RecordsAre'
    BY RecordsHere, PTL
  <2> QED
    BY <1>1, <2>1, <2>2
<1>3. Good(Table, {}) /\ Good(Table', {})
  BY <1>1 DEF IInv
<1>4. /\ Trails(Table, Table')
      /\ \A s \in Tags : \A i \in Keys :
           Rec(Table'.ix[s], Mem(Table'), i) = IF s = t THEN 0 ELSE Rec(Table.ix[s], Mem(Table), i)
      /\ \A i \in Keys : Rec(Table'.ix[t], Table'.disk, i) = 0
  BY <1>1, <1>3, TagDeletedRecs
<1>5. TheRecords!Follows
  BY <1>2, <1>4, FollowsIs
<1>6. Records(OnDisk)'[t] = [k \in Keys |-> 0]
  BY <1>2, <1>4 DEF RecordsAre, AllRecs
<1>7. \A s \in Tags : \A i \in Keys :
        Records(InMemory)'[s][i] = IF s = t THEN 0 ELSE Records(InMemory)[s][i]
  BY <1>2, <1>4 DEF RecordsAre, AllRecs
<1> QED
  BY <1>1, <1>5, <1>6, <1>7
     DEF TheRecords!DeleteTag, TheRecords!Change, TheRecords!NoRec

\* A page that is saved brings its records on disk, and changes none.
LEMMA EvictRefines ==
    ASSUME IInv, Evict
    PROVE  UNCHANGED reply /\ TheRecords!Keep /\ TheRecords!Follows
<1>1. IInv' /\ reply' = reply
  BY EvictStep
<1>2. RecordsAre /\ RecordsAre'
  <2>1. IInv => RecordsAre
    BY RecordsHere
  <2>2. IInv' => RecordsAre'
    BY RecordsHere, PTL
  <2> QED
    BY <1>1, <2>1, <2>2
<1>3. PICK p \in PageNos :
        /\ Table'.ix = Table.ix /\ Mem(Table') = Mem(Table)
        /\ \A q \in PageNos : Table'.disk[q] = IF q = p THEN Mem(Table)[q] ELSE Table.disk[q]
  BY EvictStep
<1>4. Good(Table, {})
  BY DEF IInv
<1>5. Stays(Table, Table') /\ Trails(Table, Table')
  BY <1>3, <1>4, EvictRecs
<1>6. TheRecords!Keep
  BY <1>2, <1>5 DEF TheRecords!Keep, RecordsAre, AllRecs, Stays
<1> QED
  BY <1>1, <1>2, <1>5, <1>6, FollowsIs

\* A process that dies leaves the records on disk.
LEMMA CrashRefines ==
    ASSUME IInv, Crash
    PROVE  TheRecords!Crash
<1>1. /\ IInv' /\ reply' = [call |-> "none"]
      /\ Table'.ix = Table.ix /\ Table'.disk = Table.disk /\ Mem(Table') = Table.disk
  BY CrashStep
<1>2. RecordsAre /\ RecordsAre'
  <2>1. IInv => RecordsAre
    BY RecordsHere
  <2>2. IInv' => RecordsAre'
    BY RecordsHere, PTL
  <2> QED
    BY <1>1, <2>1, <2>2
<1> QED
  BY <1>1, <1>2 DEF TheRecords!Crash, RecordsAre

\* A table that was opened: the records are those on disk.
LEMMA InitRefines ==
    ASSUME Init
    PROVE  TheRecords!Init
<1>1. IInv
  BY GoodInit
<1>2. RecordsAre
  BY <1>1, RecordsHere
<1>3. Table.dirty = << >> /\ Table \in Tables /\ reply = [call |-> "none"]
  BY <1>1 DEF Init, Table, IInv, Good
<1>4. Mem(Table) = Table.disk
  <2>1. DOMAIN Table.dirty = {}
    BY <1>3
  <2> QED
    BY <1>3, <2>1, Clean
<1>5. Records(OnDisk) = Records(InMemory)
  BY <1>2, <1>4 DEF RecordsAre
<1>6. Records(InMemory) \in [Tags -> [Keys -> Vals \union {0}]]
  BY <1>1, <1>2, RecType DEF RecordsAre, AllRecs
<1> QED
  BY <1>3, <1>5, <1>6 DEF TheRecords!Init, TheRecords!NoRec

\* Every step of the table is a step of the records, or leaves them alone.
LEMMA NextRefines ==
    ASSUME IInv, IInv', [Next]_vars
    PROVE  [TheRecords!Next]_TheRecords!svars
<1>1. CASE Next
  <2>1. ASSUME NEW t \in Tags, NEW w \in Puts, Insert(t, w) PROVE TheRecords!Next
    BY <2>1, InsertRefines DEF TheRecords!Next
  <2>2. ASSUME NEW t \in Tags, NEW w \in Batches, NEW reuse \in BOOLEAN, InsertFast(t, w, reuse)
        PROVE  TheRecords!Next
    BY <2>2, InsertFastRefines DEF TheRecords!Next
  <2>3. ASSUME NEW t \in Tags, NEW k \in Keys, Delete(t, k) PROVE TheRecords!Next
    BY <2>3, DeleteRefines DEF TheRecords!Next
  <2>4. ASSUME NEW t \in Tags, DeleteTag(t) PROVE TheRecords!Next
    BY <2>4, DeleteTagRefines DEF TheRecords!Next
  <2>5. ASSUME Evict PROVE TheRecords!Next
    BY <2>5, EvictRefines DEF TheRecords!Next
  <2>6. ASSUME Crash PROVE TheRecords!Next
    BY <2>6, CrashRefines DEF TheRecords!Next
  <2>7. TheRecords!Next
    BY <1>1, <2>1, <2>2, <2>3, <2>4, <2>5, <2>6 DEF Next
  <2> QED
    BY <2>7
<1>2. CASE UNCHANGED vars
  <2>1. Table' = Table /\ reply' = reply
    BY <1>2 DEF vars, Table
  <2>2. RecordsAre /\ RecordsAre'
    <3>1. IInv => RecordsAre
      BY RecordsHere
    <3>2. IInv' => RecordsAre'
      BY RecordsHere, PTL
    <3> QED
      BY <3>1, <3>2
  <2>3. Records(InMemory)' = Records(InMemory) /\ Records(OnDisk)' = Records(OnDisk)
    BY <2>1, <2>2 DEF RecordsAre
  <2> QED
    BY <2>1, <2>3 DEF TheRecords!svars
<1> QED
  BY <1>1, <1>2

\* RecordsSpec: the table is a map from keys to values for each tag, whatever
\* pages its records are in; what a call answers is what it has done to them,
\* and a process that dies finds of each record what was saved, or what the
\* step that saved it made of it.
THEOREM TableKeepsRecords == Spec => RecordsSpec
<1>1. Init => TheRecords!Init
  BY InitRefines
<1>2. IInv /\ IInv' /\ [Next]_vars => [TheRecords!Next]_TheRecords!svars
  BY NextRefines
<1> QED
  BY <1>1, <1>2, TableInvariant, PTL DEF Spec, RecordsSpec, TheRecords!Spec

=============================================================================
