--------------------------- MODULE TableSpaceProofs ---------------------------
(***************************************************************************)
(* Proofs about TableSpace.  The first sections are lemmas about its free   *)
(* chains: a chain is a path through the heads of distinct pages, the walk  *)
(* along it reaches just those pages, and what pagealloc, pagefree and      *)
(* grownfilepages do to it.  The inductive invariant says that the chain    *)
(* entered at _info._nextpageno, in memory and on disk, is a stack of       *)
(* distinct pages that no client owns and no running call works on.  The    *)
(* next sections are about the sizes of the space: its pages, the files     *)
(* that hold them and the limit on their number; the last one shows that    *)
(* the space implements PageAllocator.                                      *)
(***************************************************************************)
EXTENDS TableSpace, TLAPS, FiniteSetTheorems, WellFoundedInduction

\* c[N], ..., c[1] are the pages of the chain of info from the entry on, each
\* linked to the one below by the page heads h; c[0] is where the chain ends:
\* -1, or a damaged page.
IsChain(h, busy, info, N, c) ==
    /\ info.next = c[N]
    /\ \A a \in 1 .. N :
          /\ c[a] \in Pages
          /\ c[a] < info.numall
          /\ c[a] \notin busy
          /\ h[c[a]] = c[a - 1]
          /\ h[c[a]] # NotFree
    /\ \A a, b \in 1 .. N : c[a] = c[b] => a = b
    /\ \/ c[0] = -1
       \/ /\ May("damage")
          /\ c[0] \in Pages
          /\ c[0] < info.numall
          /\ c[0] \notin busy
          /\ h[c[0]] = NotFree
    /\ ~May("damage") => info.nfree = N

Chained(h, busy, info) ==
    \E N \in Nat : \E c \in [0 .. N -> Links] : IsChain(h, busy, info, N, c)

-----------------------------------------------------------------------------
(* The walk along a chain.                                                   *)

\* A set that contains 0 and the successor of each of its elements contains
\* every natural number.
LEMMA SetInduction ==
    ASSUME NEW T \in SUBSET Nat, 0 \in T, \A k \in T : k + 1 \in T
    PROVE  T = Nat
<1> DEFINE R == {ss \in Nat \X Nat : ss[1] < ss[2]}
<1>1. IsWellFoundedOn(R, Nat)
  BY NatLessThanWellFounded DEF OpToRel
<1> HIDE DEF R
<1>2. SUFFICES ASSUME Nat \ T # {} PROVE FALSE
  OBVIOUS
<1>3. PICK x \in Nat \ T : \A y \in Nat \ T : ~ (<<y, x>> \in R)
  BY <1>1, <1>2, WFMin
<1>4. x # 0 /\ x - 1 \in Nat
  OBVIOUS
<1>5. x - 1 \notin T
  BY <1>4
<1>6. <<x - 1, x>> \in R
  BY <1>4 DEF R
<1> QED
  BY <1>3, <1>4, <1>5, <1>6

\* Walk and FreePages for any heads h, so that they can be spoken of before and
\* after a step.
Leads(h, p) == p \in Pages /\ h[p] # NotFree

Onward(h, p) == IF Leads(h, p) THEN h[p] ELSE -1

Follow(h, next) ==
    LET step[k \in 0 .. PageLimit] ==
            IF k = 0 THEN next ELSE Onward(h, step[k - 1])
    IN  step

Reached(h, next) ==
    { Follow(h, next)[k] : k \in { j \in 0 .. PageLimit : Leads(h, Follow(h, next)[j]) } }

LEMMA Follows ==
    /\ \A next : Walk(next) = Follow(head, next)
    /\ \A next : FreePages(next) = Reached(head, next)
<1>1. ASSUME NEW next PROVE Walk(next) = Follow(head, next)
  BY DEF Walk, Follow, Onward, Leads, Parses
<1>2. ASSUME NEW next PROVE FreePages(next) = Reached(head, next)
  BY <1>1 DEF FreePages, Reached, Leads, Parses
<1> QED
  BY <1>1, <1>2

\* w makes the turns of a walk from next.
Turns(h, next, w) ==
    w = [k \in 0 .. PageLimit |-> IF k = 0 THEN next ELSE Onward(h, w[k - 1])]

\* The walk from an entry is the function that makes its turns, if there is one.
LEMMA FollowIs ==
    ASSUME NEW h, NEW next, NEW w, Turns(h, next, w)
    PROVE  Follow(h, next) = w
<1> DEFINE g == CHOOSE g : Turns(h, next, g)
<1>1. Follow(h, next) = g
  BY DEF Follow, Turns
<1>2. Turns(h, next, g)
  OBVIOUS
<1> HIDE DEF g
<1> USE DEF Turns
<1> DEFINE T == {k \in Nat : k \in 0 .. PageLimit => g[k] = w[k]}
<1>3. 0 \in T
  BY <1>2, SizesAssumption
<1>4. \A k \in T : k + 1 \in T
  <2> SUFFICES ASSUME NEW k \in T, k + 1 \in 0 .. PageLimit
               PROVE  g[k + 1] = w[k + 1]
    OBVIOUS
  <2>1. k \in 0 .. PageLimit /\ (k + 1) - 1 = k /\ k + 1 # 0
    BY SizesAssumption
  <2>2. g[k + 1] = Onward(h, g[k])
    BY <1>2, <2>1
  <2>3. w[k + 1] = Onward(h, w[k])
    BY <2>1
  <2> QED
    BY <2>1, <2>2, <2>3
<1>5. T \in SUBSET Nat
  OBVIOUS
<1>6. T = Nat
  <2> HIDE DEF T
  <2> QED
    BY <1>3, <1>4, <1>5, SetInduction
<1>7. ASSUME NEW k \in 0 .. PageLimit PROVE g[k] = w[k]
  <2>1. k \in Nat
    BY SizesAssumption
  <2>2. k \in T
    BY <1>6, <2>1
  <2> QED
    BY <2>2
<1> QED
  BY <1>1, <1>2, <1>7

\* The pages of a chain, and the walk down it.
OnChain(N, c) == {c[a] : a \in 1 .. N}
Descent(N, c) == [k \in 0 .. PageLimit |-> IF k <= N THEN c[N - k] ELSE -1]

\* Distinct pages are at most as many as there are pages, and a set that is
\* numbered without repetition has as many elements as numbers.
LEMMA ChainLength ==
    ASSUME NEW h, NEW busy, NEW info, NEW N \in Nat, NEW c \in [0 .. N -> Links],
           IsChain(h, busy, info, N, c)
    PROVE  /\ N <= PageLimit
           /\ IsFiniteSet(OnChain(N, c))
           /\ Cardinality(OnChain(N, c)) = N
<1> DEFINE S == OnChain(N, c)
           f == [a \in 1 .. N |-> c[a]]
<1>1. f \in Injection(1 .. N, Pages) /\ f \in Injection(1 .. N, S)
  BY DEF IsChain, OnChain, Injection, IsInjective
<1>2. f \in Surjection(1 .. N, S)
  BY DEF OnChain, Surjection
<1>3. /\ IsFiniteSet(1 .. N) /\ Cardinality(1 .. N) = N
      /\ IsFiniteSet(Pages) /\ Cardinality(Pages) = PageLimit
  <2>1. PageLimit \in Nat /\ Pages = 0 .. PageLimit - 1
    BY SizesAssumption DEF Pages
  <2>2. IsFiniteSet(1 .. N) /\ Cardinality(1 .. N) = N
    BY FS_Interval
  <2>3. IsFiniteSet(0 .. PageLimit - 1) /\ Cardinality(0 .. PageLimit - 1) = PageLimit
    BY <2>1, FS_Interval
  <2> QED
    BY <2>1, <2>2, <2>3
<1> HIDE DEF f, S
<1>4. N <= PageLimit
  BY <1>1, <1>3, FS_Injection
<1>5. IsFiniteSet(S) /\ Cardinality(S) = N
  BY <1>1, <1>2, <1>3, FS_Surjection
<1> QED
  BY <1>4, <1>5 DEF S

\* The walk goes down a chain to its end, and reaches the pages of the chain.
LEMMA WalkOfChain ==
    ASSUME NEW h, NEW busy, NEW info, NEW N \in Nat, NEW c \in [0 .. N -> Links],
           IsChain(h, busy, info, N, c)
    PROVE  /\ Follow(h, info.next) = Descent(N, c)
           /\ Reached(h, info.next) = OnChain(N, c)
<1> DEFINE w == [k \in 0 .. PageLimit |-> IF k <= N THEN c[N - k] ELSE -1]
<1>1. \A a \in 1 .. N : Leads(h, c[a]) /\ h[c[a]] = c[a - 1]
  BY DEF IsChain, Leads
<1>2. ~Leads(h, -1) /\ ~Leads(h, c[0])
  BY DEF IsChain, Leads, Pages
<1>3. ASSUME NEW k \in 0 .. PageLimit
      PROVE  w[k] = IF k = 0 THEN info.next ELSE Onward(h, w[k - 1])
  <2>1. CASE k = 0
    BY <2>1 DEF IsChain
  <2>2. CASE k \in 1 .. N
    <3>1. /\ N - (k - 1) \in 1 .. N /\ N - (k - 1) - 1 = N - k
          /\ k - 1 \in 0 .. PageLimit /\ k - 1 <= N /\ k <= N /\ k # 0
      BY <2>2, SizesAssumption
    <3>2. w[k] = c[N - k] /\ w[k - 1] = c[N - (k - 1)]
      BY <3>1
    <3>3. h[c[N - (k - 1)]] = c[N - k] /\ Leads(h, c[N - (k - 1)])
      BY <1>1, <3>1
    <3> QED
      BY <3>1, <3>2, <3>3 DEF Onward
  <2>3. CASE k = N + 1
    <3>1. k - 1 = N /\ k - 1 \in 0 .. PageLimit /\ ~(k <= N) /\ N - (k - 1) = 0 /\ k # 0
      BY <2>3, SizesAssumption
    <3>2. w[k] = -1 /\ w[k - 1] = c[0]
      BY <3>1
    <3> QED
      BY <1>2, <3>1, <3>2 DEF Onward
  <2>4. CASE k > N + 1
    <3>1. k - 1 \in 0 .. PageLimit /\ ~(k <= N) /\ ~(k - 1 <= N) /\ k # 0
      BY <2>4, SizesAssumption
    <3>2. w[k] = -1 /\ w[k - 1] = -1
      BY <3>1
    <3> QED
      BY <1>2, <3>1, <3>2 DEF Onward
  <2> QED
    BY <2>1, <2>2, <2>3, <2>4
<1>4. Follow(h, info.next) = w
  <2>1. Turns(h, info.next, w)
    BY <1>3 DEF Turns
  <2> HIDE DEF w
  <2> QED
    BY <2>1, FollowIs
<1>5. N <= PageLimit
  BY ChainLength
<1>6. \A j \in 0 .. PageLimit : Leads(h, w[j]) <=> j < N
  BY <1>1, <1>2, SizesAssumption
<1>7. {w[k] : k \in {j \in 0 .. PageLimit : Leads(h, w[j])}} = {c[a] : a \in 1 .. N}
  <2>1. ASSUME NEW k \in 0 .. PageLimit, Leads(h, w[k])
        PROVE  w[k] \in {c[a] : a \in 1 .. N}
    BY <1>6, <2>1
  <2>2. ASSUME NEW a \in 1 .. N
        PROVE  N - a \in 0 .. PageLimit /\ w[N - a] = c[a] /\ Leads(h, w[N - a])
    BY <1>1, <1>5, SizesAssumption
  <2> HIDE DEF w
  <2> QED
    BY <2>1, <2>2
<1> QED
  BY <1>4, <1>7 DEF Reached, Descent, OnChain

\* What is on a chain, in memory or on disk, is in nobody's use.
LEMMA ReachedIsFree ==
    ASSUME NEW h, NEW busy, NEW info, Chained(h, busy, info)
    PROVE  /\ Reached(h, info.next) \cap busy = {}
           /\ \A p \in Reached(h, info.next) : p \in Pages /\ p < info.numall
<1>0. PICK N \in Nat : \E c \in [0 .. N -> Links] : IsChain(h, busy, info, N, c)
  BY DEF Chained
<1>1. PICK c \in [0 .. N -> Links] : IsChain(h, busy, info, N, c)
  BY <1>0
<1>2. Reached(h, info.next) = OnChain(N, c)
  BY <1>1, WalkOfChain
<1> QED
  BY <1>1, <1>2 DEF IsChain, OnChain

-----------------------------------------------------------------------------
(* What the calls do to a chain.                                             *)

\* The fields of the information may be replaced one by one.
LEMMA InfoUpdate ==
    ASSUME NEW info \in InfoType, NEW next \in Links, NEW nfree \in Int
    PROVE  [info EXCEPT !.next = next, !.nfree = nfree] \in InfoType
  BY DEF InfoType

\* A chain is not disturbed by writes to pages that are in use or outside the
\* space, nor by pages going out of use.
LEMMA ChainFrame ==
    ASSUME NEW h, NEW h2, NEW busy, NEW busy2, NEW info,
           Chained(h, busy, info),
           \A p \in Pages : p < info.numall /\ p \notin busy
                                => h2[p] = h[p] /\ p \notin busy2
    PROVE  /\ Chained(h2, busy2, info)
           /\ Reached(h2, info.next) = Reached(h, info.next)
<1>0. PICK N \in Nat : \E c \in [0 .. N -> Links] : IsChain(h, busy, info, N, c)
  BY DEF Chained
<1>1. PICK c \in [0 .. N -> Links] : IsChain(h, busy, info, N, c)
  BY <1>0
<1>2. IsChain(h2, busy2, info, N, c)
  BY <1>1 DEF IsChain
<1>3. Reached(h, info.next) = OnChain(N, c) /\ Reached(h2, info.next) = OnChain(N, c)
  BY <1>1, <1>2, WalkOfChain
<1> QED
  BY <1>2, <1>3 DEF Chained

\* The chain of a new table space is empty.
LEMMA ChainNew ==
    ASSUME NEW h, NEW busy
    PROVE  Chained(h, busy, NewInfo) /\ Reached(h, NewInfo.next) = {}
<1> DEFINE c == [a \in 0 .. 0 |-> -1]
<1>1. c \in [0 .. 0 -> Links]
  BY DEF Links
<1>2. IsChain(h, busy, NewInfo, 0, c)
  BY DEF IsChain, NewInfo
<1> HIDE DEF c
<1>3. Reached(h, NewInfo.next) = OnChain(0, c)
  <2>1. 0 \in Nat
    OBVIOUS
  <2> QED
    BY <1>1, <1>2, <2>1, WalkOfChain
<1>4. OnChain(0, c) = {}
  BY DEF OnChain
<1>5. Chained(h, busy, NewInfo)
  BY <1>1, <1>2 DEF Chained
<1> QED
  BY <1>3, <1>4, <1>5

\* Taking the entry off a chain leaves a chain; the page was not in use.
LEMMA ChainPop ==
    ASSUME NEW h, NEW busy, NEW info \in InfoType,
           Chained(h, busy, info),
           info.next \in Pages, h[info.next] # NotFree
    PROVE  /\ info.next \notin busy
           /\ info.next < info.numall
           /\ h[info.next] # info.next
           /\ Chained(h, busy \cup {info.next},
                      [info EXCEPT !.next = h[info.next], !.nfree = @ - 1])
           /\ info.next \in Reached(h, info.next)
           /\ Reached(h, h[info.next]) = Reached(h, info.next) \ {info.next}
<1> DEFINE rest == [info EXCEPT !.next = h[info.next], !.nfree = @ - 1]
<1>0. PICK N \in Nat : \E c \in [0 .. N -> Links] : IsChain(h, busy, info, N, c)
  BY DEF Chained
<1>1. PICK c \in [0 .. N -> Links] : IsChain(h, busy, info, N, c)
  BY <1>0
<1>2. N # 0 /\ N \in 1 .. N /\ N - 1 \in Nat
  BY <1>1 DEF IsChain, Pages
<1>3. /\ c[N] = info.next /\ c[N] \notin busy /\ c[N] < info.numall
      /\ h[c[N]] = c[N - 1]
  BY <1>1, <1>2 DEF IsChain
<1>4. rest.next = c[N - 1] /\ rest.numall = info.numall /\ rest.nfree = info.nfree - 1
  BY <1>3 DEF InfoType
<1>5. \A a \in 0 .. N - 1 : c[a] # c[N]
  <2>1. CASE N - 1 = 0
    BY <1>1, <1>2, <2>1 DEF IsChain, Pages
  <2>2. \A a \in 1 .. N - 1 : c[a] # c[N]
    BY <1>1, <1>2 DEF IsChain
  <2>3. c[0] # c[N]
    BY <1>1, <1>2 DEF IsChain, Pages
  <2> QED
    BY <2>2, <2>3
<1> DEFINE d == [a \in 0 .. N - 1 |-> c[a]]
<1>6. d \in [0 .. N - 1 -> Links]
  BY <1>2
<1>7. IsChain(h, busy \cup {info.next}, rest, N - 1, d)
  <2>1. rest.next = d[N - 1]
    BY <1>2, <1>4
  <2>2. \A a \in 1 .. N - 1 :
          /\ d[a] = c[a] /\ d[a - 1] = c[a - 1] /\ a \in 1 .. N
    BY <1>2
  <2>3. d[0] = c[0]
    BY <1>2
  <2>4. \A a \in 1 .. N - 1 :
          /\ d[a] \in Pages /\ d[a] < rest.numall
          /\ d[a] \notin busy \cup {info.next}
          /\ h[d[a]] = d[a - 1] /\ h[d[a]] # NotFree
    BY <1>1, <1>3, <1>4, <1>5, <2>2 DEF IsChain
  <2>5. \A a, b \in 1 .. N - 1 : d[a] = d[b] => a = b
    BY <1>1, <2>2 DEF IsChain
  <2>6. \/ d[0] = -1
        \/ /\ May("damage") /\ d[0] \in Pages /\ d[0] < rest.numall
           /\ d[0] \notin busy \cup {info.next} /\ h[d[0]] = NotFree
    BY <1>1, <1>2, <1>3, <1>4, <1>5, <2>3 DEF IsChain
  <2>7. ~May("damage") => rest.nfree = N - 1
    BY <1>1, <1>4 DEF IsChain
  <2> QED
    BY <2>1, <2>4, <2>5, <2>6, <2>7 DEF IsChain
<1>8. h[info.next] # info.next
  BY <1>2, <1>3, <1>5
<1>9. Reached(h, info.next) = OnChain(N, c) /\ Reached(h, rest.next) = OnChain(N - 1, d)
  <2> HIDE DEF d, rest
  <2> QED
    BY <1>1, <1>2, <1>6, <1>7, WalkOfChain
<1>10. c[N] \in OnChain(N, c) /\ OnChain(N - 1, d) = OnChain(N, c) \ {c[N]}
  <2>1. \A a \in 1 .. N - 1 : a \in 1 .. N /\ c[a] # c[N] /\ d[a] = c[a]
    BY <1>2, <1>5
  <2>2. \A a \in 1 .. N : a = N \/ a \in 1 .. N - 1
    BY <1>2
  <2> HIDE DEF d
  <2> QED
    BY <1>2, <2>1, <2>2 DEF OnChain
<1> QED
  BY <1>2, <1>3, <1>4, <1>6, <1>7, <1>8, <1>9, <1>10 DEF Chained

\* The walk from page p reaches p and what the walk from next reaches.
OneMore(h, p, next) == Reached(h, p) = Reached(h, next) \cup {p}

\* Linking a page that was in use before the entry makes a longer chain.
LEMMA ChainPush ==
    ASSUME NEW h, NEW busy, NEW busy2, NEW info \in InfoType,
           Chained(h, busy, info),
           NEW p \in Pages,
           p \in busy, p < info.numall, p \notin busy2, busy2 \subseteq busy,
           h[p] = info.next
    PROVE  /\ Chained(h, busy2, [info EXCEPT !.next = p, !.nfree = @ + 1])
           /\ OneMore(h, p, info.next)
<1> DEFINE more == [info EXCEPT !.next = p, !.nfree = @ + 1]
<1>0. PICK N \in Nat : \E c \in [0 .. N -> Links] : IsChain(h, busy, info, N, c)
  BY DEF Chained
<1>1. PICK c \in [0 .. N -> Links] : IsChain(h, busy, info, N, c)
  BY <1>0
<1>2. more.next = p /\ more.numall = info.numall /\ more.nfree = info.nfree + 1
  BY DEF InfoType
<1> DEFINE d == [a \in 0 .. N + 1 |-> IF a = N + 1 THEN p ELSE c[a]]
<1>3. d \in [0 .. N + 1 -> Links] /\ N + 1 \in Nat
  BY SizesAssumption DEF Links, Pages
<1>4. /\ d[N + 1] = p
      /\ \A a \in 0 .. N : d[a] = c[a]
  OBVIOUS
<1> HIDE DEF d, more
<1>5. h[p] # NotFree /\ h[p] = c[N]
  BY <1>1, NotFreeAssumption DEF IsChain, InfoType, Links, Pages
<1>6. \A a \in 1 .. N + 1 :
        /\ d[a] \in Pages /\ d[a] < more.numall
        /\ d[a] \notin busy2
        /\ h[d[a]] = d[a - 1] /\ h[d[a]] # NotFree
  <2>1. ASSUME NEW a \in 1 .. N
        PROVE  /\ d[a] \in Pages /\ d[a] < more.numall
               /\ d[a] \notin busy2
               /\ h[d[a]] = d[a - 1] /\ h[d[a]] # NotFree
    <3>1. d[a] = c[a] /\ d[a - 1] = c[a - 1]
      BY <1>4
    <3> QED
      BY <1>1, <1>2, <3>1 DEF IsChain
  <2>2. /\ d[N + 1] \in Pages /\ d[N + 1] < more.numall
        /\ d[N + 1] \notin busy2
        /\ h[d[N + 1]] = d[N + 1 - 1] /\ h[d[N + 1]] # NotFree
    <3>1. d[N + 1 - 1] = c[N]
      BY <1>4
    <3> QED
      BY <1>2, <1>4, <1>5, <3>1
  <2>3. \A a \in 1 .. N + 1 : a \in 1 .. N \/ a = N + 1
    OBVIOUS
  <2> QED
    BY <2>1, <2>2, <2>3
<1>7. \A a, b \in 1 .. N + 1 : d[a] = d[b] => a = b
  <2>1. \A a \in 1 .. N : d[a] # p
    BY <1>1, <1>4 DEF IsChain
  <2>2. \A a, b \in 1 .. N : d[a] = d[b] => a = b
    BY <1>1, <1>4 DEF IsChain
  <2>3. \A a \in 1 .. N + 1 : a \in 1 .. N \/ a = N + 1
    OBVIOUS
  <2> QED
    BY <1>4, <2>1, <2>2, <2>3
<1>8. d[0] = c[0]
  BY <1>4
<1>9. \/ d[0] = -1
      \/ /\ May("damage") /\ d[0] \in Pages /\ d[0] < more.numall
         /\ d[0] \notin busy2 /\ h[d[0]] = NotFree
  BY <1>1, <1>2, <1>8 DEF IsChain
<1>10. ~May("damage") => more.nfree = N + 1
  BY <1>1, <1>2 DEF IsChain
<1>11. IsChain(h, busy2, more, N + 1, d)
  BY <1>2, <1>4, <1>6, <1>7, <1>9, <1>10 DEF IsChain
<1>12. Reached(h, info.next) = OnChain(N, c) /\ Reached(h, more.next) = OnChain(N + 1, d)
  BY <1>1, <1>3, <1>11, WalkOfChain
<1>13. OnChain(N + 1, d) = OnChain(N, c) \cup {p}
  <2>1. \A a \in 1 .. N : a \in 1 .. N + 1 /\ d[a] = c[a]
    BY <1>4
  <2>2. N + 1 \in 1 .. N + 1 /\ \A a \in 1 .. N + 1 : a = N + 1 \/ a \in 1 .. N
    OBVIOUS
  <2> QED
    BY <1>4, <2>1, <2>2 DEF OnChain
<1> QED
  BY <1>2, <1>3, <1>11, <1>12, <1>13 DEF Chained, OneMore, more

\* Pages appended to the space and linked in order, the last one to the old
\* entry, make a longer chain.
LEMMA ChainGrow ==
    ASSUME NEW h, NEW busy, NEW info \in InfoType,
           Chained(h, busy, info),
           info.numall + Grow <= PageLimit,
           \A p \in busy : p < info.numall,
           \A k \in 0 .. Grow - 1 :
               h[info.numall + k] =
                   IF k + 1 = Grow THEN info.next ELSE info.numall + k + 1
    PROVE  /\ Chained(h, busy, [numall |-> info.numall + Grow, next |-> info.numall,
                                nfree |-> info.nfree + Grow])
           /\ Reached(h, info.numall) =
                  Reached(h, info.next) \cup (info.numall .. info.numall + Grow - 1)
<1> DEFINE A == info.numall
<1> DEFINE more == [numall |-> A + Grow, next |-> A, nfree |-> info.nfree + Grow]
<1>0. PICK N \in Nat : \E c \in [0 .. N -> Links] : IsChain(h, busy, info, N, c)
  BY DEF Chained
<1>1. PICK c \in [0 .. N -> Links] : IsChain(h, busy, info, N, c)
  BY <1>0
<1>2. /\ A \in Nat /\ Grow \in Nat \ {0} /\ PageLimit \in Nat /\ A + Grow <= PageLimit
      /\ info.nfree \in Int
  BY SizesAssumption DEF InfoType
<1> DEFINE M == N + Grow
<1> DEFINE d == [a \in 0 .. M |-> IF a <= N THEN c[a] ELSE A + (M - a)]
<1>3. d \in [0 .. M -> Links] /\ M \in Nat
  BY <1>2 DEF Links, Pages
<1>4. /\ \A a \in 0 .. N : d[a] = c[a]
      /\ \A a \in N + 1 .. M : d[a] = A + (M - a) /\ M - a \in 0 .. Grow - 1
      /\ \A a \in 1 .. M : a \in 1 .. N \/ a \in N + 1 .. M
      /\ M \in N + 1 .. M
  BY <1>2
<1>5. more.next = A /\ more.numall = A + Grow /\ more.nfree = info.nfree + Grow
  OBVIOUS
<1> HIDE DEF d, more
<1>6. \A a \in 1 .. M :
        /\ d[a] \in Pages /\ d[a] < more.numall
        /\ d[a] \notin busy
        /\ h[d[a]] = d[a - 1] /\ h[d[a]] # NotFree
  <2>1. ASSUME NEW a \in 1 .. N
        PROVE  /\ d[a] \in Pages /\ d[a] < more.numall
               /\ d[a] \notin busy
               /\ h[d[a]] = d[a - 1] /\ h[d[a]] # NotFree
    <3>1. d[a] = c[a] /\ d[a - 1] = c[a - 1]
      BY <1>4
    <3> QED
      BY <1>1, <1>2, <1>5, <3>1 DEF IsChain, Pages
  <2>2. ASSUME NEW a \in N + 1 .. M
        PROVE  /\ d[a] \in Pages /\ d[a] < more.numall
               /\ d[a] \notin busy
               /\ h[d[a]] = d[a - 1] /\ h[d[a]] # NotFree
    <3>1. d[a] = A + (M - a) /\ M - a \in 0 .. Grow - 1
      BY <1>4
    <3>2. d[a] \in Pages /\ d[a] < more.numall /\ d[a] \notin busy
      BY <1>2, <1>5, <3>1 DEF Pages
    <3>3. CASE a = N + 1
      <4>1. h[d[a]] = info.next
        BY <1>2, <3>1, <3>3
      <4>2. d[a - 1] = info.next
        BY <1>1, <1>4, <3>3 DEF IsChain
      <4> QED
        BY <3>2, <4>1, <4>2, NotFreeAssumption DEF InfoType, Links, Pages
    <3>4. CASE a # N + 1
      <4>1. h[d[a]] = A + (M - a) + 1
        BY <1>2, <3>1, <3>4
      <4>2. a - 1 \in N + 1 .. M
        BY <1>2, <3>4
      <4>3. d[a - 1] = A + (M - (a - 1))
        BY <1>4, <4>2
      <4>4. h[d[a]] = d[a - 1]
        <5>1. a \in Int /\ M \in Int /\ A \in Int
          BY <1>2
        <5>2. A + (M - a) + 1 = A + (M - (a - 1))
          BY <5>1
        <5> QED
          BY <4>1, <4>3, <5>2
      <4>5. h[d[a]] \in Int
        BY <1>2, <4>1
      <4> QED
        BY <3>2, <4>4, <4>5, NotFreeAssumption
    <3> QED
      BY <3>3, <3>4
  <2> QED
    BY <1>4, <2>1, <2>2
<1>7. \A a, b \in 1 .. M : d[a] = d[b] => a = b
  <2>1. \A a, b \in 1 .. N : d[a] = d[b] => a = b
    BY <1>1, <1>4 DEF IsChain
  <2>2. \A a, b \in N + 1 .. M : d[a] = d[b] => a = b
    BY <1>2, <1>4
  <2>3. \A a \in 1 .. N : d[a] < A
    BY <1>1, <1>4 DEF IsChain
  <2>4. \A a \in N + 1 .. M : d[a] >= A
    BY <1>2, <1>4
  <2>5. \A a \in 1 .. M : d[a] \in Int
    BY <1>6 DEF Pages
  <2>6. \A a \in 1 .. N, b \in N + 1 .. M : d[a] # d[b]
    BY <1>2, <1>4, <2>3, <2>4, <2>5
  <2> QED
    BY <1>4, <2>1, <2>2, <2>6
<1>8. d[0] = c[0] /\ d[M] = A
  BY <1>2, <1>4
<1>9. \/ d[0] = -1
      \/ /\ May("damage") /\ d[0] \in Pages /\ d[0] < more.numall
         /\ d[0] \notin busy /\ h[d[0]] = NotFree
  BY <1>1, <1>2, <1>5, <1>8 DEF IsChain, Pages
<1>10. ~May("damage") => more.nfree = M
  BY <1>1, <1>2, <1>5 DEF IsChain
<1>11. IsChain(h, busy, more, M, d)
  BY <1>5, <1>6, <1>7, <1>8, <1>9, <1>10 DEF IsChain
<1>12. Reached(h, info.next) = OnChain(N, c) /\ Reached(h, more.next) = OnChain(M, d)
  BY <1>1, <1>3, <1>11, WalkOfChain
<1>13. OnChain(M, d) = OnChain(N, c) \cup (A .. A + Grow - 1)
  <2>1. \A a \in 1 .. N : a \in 1 .. M /\ d[a] = c[a]
    BY <1>2, <1>4
  <2>2. \A a \in N + 1 .. M : a \in 1 .. M /\ d[a] \in A .. A + Grow - 1
    BY <1>2, <1>4
  <2>3. ASSUME NEW p \in A .. A + Grow - 1
        PROVE  M - (p - A) \in N + 1 .. M /\ d[M - (p - A)] = p
    BY <1>2, <1>4
  <2>4. OnChain(M, d) \subseteq OnChain(N, c) \cup (A .. A + Grow - 1)
    BY <1>4, <2>1, <2>2 DEF OnChain
  <2>5. OnChain(N, c) \subseteq OnChain(M, d)
    BY <2>1 DEF OnChain
  <2>6. (A .. A + Grow - 1) \subseteq OnChain(M, d)
    <3> SUFFICES ASSUME NEW p \in A .. A + Grow - 1 PROVE p \in OnChain(M, d)
      OBVIOUS
    <3>1. M - (p - A) \in 1 .. M /\ d[M - (p - A)] = p
      BY <2>2, <2>3
    <3> QED
      BY <3>1 DEF OnChain
  <2> QED
    BY <2>4, <2>5, <2>6
<1> QED
  BY <1>3, <1>5, <1>11, <1>12, <1>13 DEF Chained, more

\* Damage to a page cuts the chain there; what is left is a chain.
LEMMA ChainCut ==
    ASSUME NEW h \in [Pages -> Links \cup {NotFree}], NEW busy, NEW info \in InfoType,
           Chained(h, busy, info),
           NEW p \in Pages, p \notin busy, May("damage")
    PROVE  /\ Chained([h EXCEPT ![p] = NotFree], busy, info)
           /\ Reached([h EXCEPT ![p] = NotFree], info.next) \subseteq Reached(h, info.next)
<1> DEFINE h2 == [h EXCEPT ![p] = NotFree]
<1>0. PICK N \in Nat : \E c \in [0 .. N -> Links] : IsChain(h, busy, info, N, c)
  BY DEF Chained
<1>1. PICK c \in [0 .. N -> Links] : IsChain(h, busy, info, N, c)
  BY <1>0
<1>2. h2[p] = NotFree /\ \A q \in Pages : q # p => h2[q] = h[q]
  OBVIOUS
<1> HIDE DEF h2
<1>5. Reached(h, info.next) = OnChain(N, c)
  BY <1>1, WalkOfChain
<1>3. CASE \A a \in 1 .. N : c[a] # p
  <2>1. IsChain(h2, busy, info, N, c)
    BY <1>1, <1>2, <1>3 DEF IsChain
  <2>2. Reached(h2, info.next) = OnChain(N, c)
    BY <2>1, WalkOfChain
  <2> QED
    BY <1>5, <2>1, <2>2 DEF Chained, h2
<1>4. CASE \E a \in 1 .. N : c[a] = p
  <2>1. PICK k \in 1 .. N : c[k] = p
    BY <1>4
  <2>2. k \in 0 .. N /\ N - k \in Nat
    OBVIOUS
  <2> DEFINE d == [a \in 0 .. N - k |-> c[a + k]]
  <2>3. d \in [0 .. N - k -> Links]
    OBVIOUS
  <2>4. /\ \A a \in 0 .. N - k : d[a] = c[a + k]
        /\ \A a \in 1 .. N - k : /\ a + k \in 1 .. N /\ a + k # k
                                 /\ d[a] = c[a + k] /\ d[a - 1] = c[a + k - 1]
        /\ d[0] = c[k] /\ d[N - k] = c[N]
    OBVIOUS
  <2> HIDE DEF d
  <2>5. \A a \in 1 .. N - k :
          /\ d[a] \in Pages /\ d[a] < info.numall
          /\ d[a] \notin busy
          /\ h2[d[a]] = d[a - 1] /\ h2[d[a]] # NotFree
    <3>1. \A a \in 1 .. N - k : c[a + k] # p
      BY <1>1, <2>1, <2>4 DEF IsChain
    <3> QED
      BY <1>1, <1>2, <2>4, <3>1 DEF IsChain
  <2>6. \A a, b \in 1 .. N - k : d[a] = d[b] => a = b
    <3>1. ASSUME NEW a \in 1 .. N - k, NEW b \in 1 .. N - k, d[a] = d[b]
          PROVE  a = b
      <4>1. a + k = b + k
        BY <1>1, <2>4, <3>1 DEF IsChain
      <4> QED
        BY <4>1
    <3> QED
      BY <3>1
  <2>7. /\ d[0] \in Pages /\ d[0] < info.numall /\ d[0] \notin busy
        /\ h2[d[0]] = NotFree
    BY <1>1, <1>2, <2>1, <2>4 DEF IsChain
  <2>8. IsChain(h2, busy, info, N - k, d)
    BY <1>1, <2>4, <2>5, <2>6, <2>7 DEF IsChain
  <2>9. Reached(h2, info.next) = OnChain(N - k, d)
    BY <2>2, <2>3, <2>8, WalkOfChain
  <2>10. OnChain(N - k, d) \subseteq OnChain(N, c)
    BY <2>4 DEF OnChain
  <2> QED
    BY <1>5, <2>2, <2>3, <2>8, <2>9, <2>10 DEF Chained, h2
<1> QED
  BY <1>3, <1>4

\* On a chain without damage no page head is unreadable, so a page with an
\* unreadable head may come into use.
LEMMA ChainMark ==
    ASSUME NEW h, NEW busy, NEW info, Chained(h, busy, info),
           NEW p \in Pages, h[p] = NotFree, ~May("damage")
    PROVE  Chained(h, busy \cup {p}, info)
<1>0. PICK N \in Nat : \E c \in [0 .. N -> Links] : IsChain(h, busy, info, N, c)
  BY DEF Chained
<1>1. PICK c \in [0 .. N -> Links] : IsChain(h, busy, info, N, c)
  BY <1>0
<1>2. IsChain(h, busy \cup {p}, info, N, c)
  BY <1>1 DEF IsChain
<1> QED
  BY <1>2 DEF Chained

-----------------------------------------------------------------------------
(* The inductive invariant.                                                  *)

\* Pages a client owns or the running call works on.  (A page that was only
\* named in a call of pagefree by a client that does not own it is not.)
Busy ==
    held \cup
    (IF \/ pc \in {"fill", "freeHead", "freeInfo"}
        \/ pc = "free" /\ ~May("freeAgain")
     THEN {pgno} ELSE {})

\* What grownfilepages has written so far.
GrowLoop ==
    pc \in {"growPage", "growInfo"} =>
        /\ i < Grow <=> pc = "growPage"
        /\ i > 0 => mem.numall + i <= PageLimit
        /\ \A k \in 0 .. i - 1 :
              head[mem.numall + k] =
                  IF k + 1 = Grow THEN mem.next ELSE mem.numall + k + 1

\* Where the running call is, and what it knows there.
CallInv ==
    /\ pc = "create" => ~isopen /\ file[0] = "headless"
    /\ pc \notin {"idle", "create"} => isopen
    /\ pc = "fill" => /\ pgno < dsk.numall
                      /\ pgno \notin {mem.next, dsk.next}
    /\ pc \in {"free", "freeHead", "freeInfo"} => pgno < mem.numall
    /\ pc \in {"fill", "free", "freeHead", "freeInfo"} => pgno \notin held
    /\ pc = "freeInfo" => head[pgno] = mem.next
    /\ pc \in {"idle", "create", "growFile", "growHead"} => i = 0
    /\ pc = "pop" /\ n = 1 => i = 0
    /\ pc \in {"growFile", "growHead", "growPage", "growInfo"} => n = 0

\* The memory is ahead of the disk, the space exists once the first file does.
SaveInv ==
    /\ isopen => file[0] = "ready" /\ dsk.numall <= mem.numall
    /\ ~isopen => mem = NewInfo
    /\ file[0] # "ready" => dsk = NewInfo
    /\ \A p \in held : p < dsk.numall

IInv ==
    /\ TypeOK
    /\ CallInv
    /\ SaveInv
    /\ GrowLoop
    /\ Chained(head, Busy, mem)
    /\ Chained(head, Busy, dsk)

\* Clients that free pages they do not own are safe only if page heads are
\* neither damaged nor misread.
Safe == May("freeAgain") => ~May("damage") /\ ~May("readFault")

-----------------------------------------------------------------------------
(* The invariant is inductive.                                               *)

LEMMA FirstFile == 0 \in Files
  BY SizesAssumption DEF Files

LEMMA InitInv == Init => IInv
<1> SUFFICES ASSUME Init PROVE IInv
  OBVIOUS
<1>1. TypeOK
  <2>1. dsk \in InfoType /\ mem \in InfoType
    BY DEF Init, NewInfo, InfoType, Links
  <2>2. file \in [Files -> {"absent", "headless", "ready"}]
    BY DEF Init
  <2>3. head \in [Pages -> Links \cup {NotFree}]
    BY DEF Init
  <2>4. pgno \in Pages /\ i \in 0 .. Grow
    BY SizesAssumption DEF Init, Pages
  <2> QED
    BY <2>1, <2>2, <2>3, <2>4 DEF Init, TypeOK
<1>2. CallInv /\ SaveInv /\ GrowLoop
  BY FirstFile DEF Init, CallInv, SaveInv, GrowLoop
<1>3. Chained(head, Busy, mem) /\ Chained(head, Busy, dsk)
  BY ChainNew DEF Init
<1> QED
  BY <1>1, <1>2, <1>3 DEF IInv

\* Create() makes the first file.
LEMMA CreateFileInv ==
    ASSUME IInv, Safe, CreateFile
    PROVE  IInv'
<1> USE SizesAssumption, NotFreeAssumption DEF IInv
<1>1. TypeOK'
  BY FirstFile DEF CreateFile, Goto, Return, call, image, UpdateInfo, TypeOK, InfoType, NewInfo, Links, Pages, Parses
<1>2. CallInv'
  BY FirstFile DEF CreateFile, Goto, Return, call, image, UpdateInfo, TypeOK, CallInv, SaveInv, InfoType, NewInfo
<1>3. SaveInv'
  BY FirstFile DEF CreateFile, Goto, Return, call, image, UpdateInfo, TypeOK, CallInv, SaveInv, InfoType, NewInfo
<1>4. GrowLoop'
  BY DEF CreateFile, Goto, Return, call, image, UpdateInfo, TypeOK, CallInv, GrowLoop, InfoType
<1>5. Chained(head, Busy, mem)'
  <2>1. mem' = mem
    BY DEF CreateFile, image, UpdateInfo
  <2>2. \A q \in Pages : q < mem.numall /\ q \notin Busy
                            => head'[q] = head[q] /\ q \notin Busy'
    BY DEF CreateFile, Goto, Return, call, image, UpdateInfo, Busy, TypeOK, CallInv, SaveInv, InfoType, Pages
  <2> QED
    BY <2>1, <2>2, ChainFrame
<1>6. Chained(head, Busy, dsk)'
  <2>1. dsk' = dsk
    BY DEF CreateFile, image, UpdateInfo
  <2>2. \A q \in Pages : q < dsk.numall /\ q \notin Busy
                            => head'[q] = head[q] /\ q \notin Busy'
    BY DEF CreateFile, Goto, Return, call, image, UpdateInfo, Busy, TypeOK, CallInv, SaveInv, InfoType, Pages
  <2> QED
    BY <2>1, <2>2, ChainFrame
<1> QED
  BY <1>1, <1>2, <1>3, <1>4, <1>5, <1>6

\* Create() writes the head page; the space is empty then.
LEMMA CreateHeadInv ==
    ASSUME IInv, Safe, CreateHead
    PROVE  IInv'
<1> USE SizesAssumption, NotFreeAssumption DEF IInv
<1>1. TypeOK'
  <2>1. file' \in [Files -> {"absent", "headless", "ready"}]
    BY DEF CreateHead, TypeOK
  <2>2. dsk' \in InfoType
    BY DEF CreateHead, TypeOK
  <2>3. 0 \in Pages /\ 0 \in 0 .. Grow
    BY DEF Pages
  <2> QED
    BY <2>1, <2>2, <2>3 DEF CreateHead, Return, TypeOK
<1>2. CallInv'
  BY FirstFile DEF CreateHead, Goto, Return, call, image, UpdateInfo, TypeOK, CallInv, SaveInv, InfoType, NewInfo
<1>3. SaveInv'
  BY FirstFile DEF CreateHead, Goto, Return, call, image, UpdateInfo, TypeOK, CallInv, SaveInv, InfoType, NewInfo
<1>4. GrowLoop'
  BY DEF CreateHead, Goto, Return, call, image, UpdateInfo, TypeOK, CallInv, GrowLoop, InfoType
<1>5. Chained(head, Busy, mem)'
  <2>1. mem' = mem
    BY DEF CreateHead, image, UpdateInfo
  <2>2. \A q \in Pages : q < mem.numall /\ q \notin Busy
                            => head'[q] = head[q] /\ q \notin Busy'
    BY DEF CreateHead, Goto, Return, call, image, UpdateInfo, Busy, TypeOK, CallInv, SaveInv, InfoType, Pages
  <2> QED
    BY <2>1, <2>2, ChainFrame
<1>6. Chained(head, Busy, dsk)'
  <2>1. dsk' = NewInfo
    BY DEF CreateHead, CallInv, SaveInv
  <2> QED
    BY <2>1, ChainNew
<1> QED
  BY <1>1, <1>2, <1>3, <1>4, <1>5, <1>6

\* Open() reads what was saved.
LEMMA OpenInv ==
    ASSUME IInv, Safe, Open
    PROVE  IInv'
<1> USE SizesAssumption, NotFreeAssumption DEF IInv
<1>1. TypeOK'
  BY FirstFile DEF Open, Goto, Return, call, image, UpdateInfo, TypeOK, InfoType, NewInfo, Links, Pages, Parses
<1>2. CallInv'
  BY FirstFile DEF Open, Goto, Return, call, image, UpdateInfo, TypeOK, CallInv, SaveInv, InfoType, NewInfo
<1>3. SaveInv'
  BY FirstFile DEF Open, Goto, Return, call, image, UpdateInfo, TypeOK, CallInv, SaveInv, InfoType, NewInfo
<1>4. GrowLoop'
  BY DEF Open, Goto, Return, call, image, UpdateInfo, TypeOK, CallInv, GrowLoop, InfoType
<1>5. Chained(head, Busy, mem)'
  <2>1. mem' = dsk
    BY DEF Open
  <2>2. head' = head /\ Busy' = Busy
    BY DEF Open, image, call, Busy
  <2> QED
    BY <2>1, <2>2
<1>6. Chained(head, Busy, dsk)'
  <2>1. dsk' = dsk
    BY DEF Open, image, UpdateInfo
  <2>2. \A q \in Pages : q < dsk.numall /\ q \notin Busy
                            => head'[q] = head[q] /\ q \notin Busy'
    BY DEF Open, Goto, Return, call, image, UpdateInfo, Busy, TypeOK, CallInv, SaveInv, InfoType, Pages
  <2> QED
    BY <2>1, <2>2, ChainFrame
<1> QED
  BY <1>1, <1>2, <1>3, <1>4, <1>5, <1>6

\* pagealloc starts: the chain is empty.
LEMMA AllocGrowInv ==
    ASSUME IInv, Safe, AllocGrow
    PROVE  IInv'
<1> USE SizesAssumption, NotFreeAssumption DEF IInv
<1>1. TypeOK'
  BY FirstFile DEF AllocGrow, Goto, Return, call, image, UpdateInfo, TypeOK, InfoType, NewInfo, Links, Pages, Parses
<1>2. CallInv'
  BY FirstFile DEF AllocGrow, Goto, Return, call, image, UpdateInfo, TypeOK, CallInv, SaveInv, InfoType, NewInfo
<1>3. SaveInv'
  BY FirstFile DEF AllocGrow, Goto, Return, call, image, UpdateInfo, TypeOK, CallInv, SaveInv, InfoType, NewInfo
<1>4. GrowLoop'
  BY DEF AllocGrow, Goto, Return, call, image, UpdateInfo, TypeOK, CallInv, GrowLoop, InfoType
<1>5. Chained(head, Busy, mem)'
  <2>1. mem' = mem
    BY DEF AllocGrow, image, UpdateInfo
  <2>2. \A q \in Pages : q < mem.numall /\ q \notin Busy
                            => head'[q] = head[q] /\ q \notin Busy'
    BY DEF AllocGrow, Goto, Return, call, image, UpdateInfo, Busy, TypeOK, CallInv, SaveInv, InfoType, Pages
  <2> QED
    BY <2>1, <2>2, ChainFrame
<1>6. Chained(head, Busy, dsk)'
  <2>1. dsk' = dsk
    BY DEF AllocGrow, image, UpdateInfo
  <2>2. \A q \in Pages : q < dsk.numall /\ q \notin Busy
                            => head'[q] = head[q] /\ q \notin Busy'
    BY DEF AllocGrow, Goto, Return, call, image, UpdateInfo, Busy, TypeOK, CallInv, SaveInv, InfoType, Pages
  <2> QED
    BY <2>1, <2>2, ChainFrame
<1> QED
  BY <1>1, <1>2, <1>3, <1>4, <1>5, <1>6

\* pagealloc starts: the chain is not empty.
LEMMA AllocPopInv ==
    ASSUME IInv, Safe, AllocPop
    PROVE  IInv'
<1> USE SizesAssumption, NotFreeAssumption DEF IInv
<1>1. TypeOK'
  BY FirstFile DEF AllocPop, Goto, Return, call, image, UpdateInfo, TypeOK, InfoType, NewInfo, Links, Pages, Parses
<1>2. CallInv'
  BY FirstFile DEF AllocPop, Goto, Return, call, image, UpdateInfo, TypeOK, CallInv, SaveInv, InfoType, NewInfo
<1>3. SaveInv'
  BY FirstFile DEF AllocPop, Goto, Return, call, image, UpdateInfo, TypeOK, CallInv, SaveInv, InfoType, NewInfo
<1>4. GrowLoop'
  BY DEF AllocPop, Goto, Return, call, image, UpdateInfo, TypeOK, CallInv, GrowLoop, InfoType
<1>5. Chained(head, Busy, mem)'
  <2>1. mem' = mem
    BY DEF AllocPop, image, UpdateInfo
  <2>2. \A q \in Pages : q < mem.numall /\ q \notin Busy
                            => head'[q] = head[q] /\ q \notin Busy'
    BY DEF AllocPop, Goto, Return, call, image, UpdateInfo, Busy, TypeOK, CallInv, SaveInv, InfoType, Pages
  <2> QED
    BY <2>1, <2>2, ChainFrame
<1>6. Chained(head, Busy, dsk)'
  <2>1. dsk' = dsk
    BY DEF AllocPop, image, UpdateInfo
  <2>2. \A q \in Pages : q < dsk.numall /\ q \notin Busy
                            => head'[q] = head[q] /\ q \notin Busy'
    BY DEF AllocPop, Goto, Return, call, image, UpdateInfo, Busy, TypeOK, CallInv, SaveInv, InfoType, Pages
  <2> QED
    BY <2>1, <2>2, ChainFrame
<1> QED
  BY <1>1, <1>2, <1>3, <1>4, <1>5, <1>6

\* pagealloc cannot open the file of the first free page.
LEMMA PopOpenFailsInv ==
    ASSUME IInv, Safe, PopOpenFails
    PROVE  IInv'
<1> USE SizesAssumption, NotFreeAssumption DEF IInv
<1>1. TypeOK'
  BY FirstFile DEF PopOpenFails, Goto, Return, call, image, UpdateInfo, TypeOK, InfoType, NewInfo, Links, Pages, Parses
<1>2. CallInv'
  BY FirstFile DEF PopOpenFails, Goto, Return, call, image, UpdateInfo, TypeOK, CallInv, SaveInv, InfoType, NewInfo
<1>3. SaveInv'
  BY FirstFile DEF PopOpenFails, Goto, Return, call, image, UpdateInfo, TypeOK, CallInv, SaveInv, InfoType, NewInfo
<1>4. GrowLoop'
  BY DEF PopOpenFails, Goto, Return, call, image, UpdateInfo, TypeOK, CallInv, GrowLoop, InfoType
<1>5. Chained(head, Busy, mem)'
  <2>1. mem' = mem
    BY DEF PopOpenFails, image, UpdateInfo
  <2>2. \A q \in Pages : q < mem.numall /\ q \notin Busy
                            => head'[q] = head[q] /\ q \notin Busy'
    BY DEF PopOpenFails, Goto, Return, call, image, UpdateInfo, Busy, TypeOK, CallInv, SaveInv, InfoType, Pages
  <2> QED
    BY <2>1, <2>2, ChainFrame
<1>6. Chained(head, Busy, dsk)'
  <2>1. dsk' = dsk
    BY DEF PopOpenFails, image, UpdateInfo
  <2>2. \A q \in Pages : q < dsk.numall /\ q \notin Busy
                            => head'[q] = head[q] /\ q \notin Busy'
    BY DEF PopOpenFails, Goto, Return, call, image, UpdateInfo, Busy, TypeOK, CallInv, SaveInv, InfoType, Pages
  <2> QED
    BY <2>1, <2>2, ChainFrame
<1> QED
  BY <1>1, <1>2, <1>3, <1>4, <1>5, <1>6

\* pagealloc cannot read the first free page.
LEMMA PopRetryInv ==
    ASSUME IInv, Safe, PopRetry
    PROVE  IInv'
<1> USE SizesAssumption, NotFreeAssumption DEF IInv
<1>1. TypeOK'
  BY FirstFile DEF PopRetry, Goto, Return, call, image, UpdateInfo, TypeOK, InfoType, NewInfo, Links, Pages, Parses
<1>2. CallInv'
  BY FirstFile DEF PopRetry, Goto, Return, call, image, UpdateInfo, TypeOK, CallInv, SaveInv, InfoType, NewInfo
<1>3. SaveInv'
  BY FirstFile DEF PopRetry, Goto, Return, call, image, UpdateInfo, TypeOK, CallInv, SaveInv, InfoType, NewInfo
<1>4. GrowLoop'
  BY DEF PopRetry, Goto, Return, call, image, UpdateInfo, TypeOK, CallInv, GrowLoop, InfoType
<1>5. Chained(head, Busy, mem)'
  <2>1. mem' = mem
    BY DEF PopRetry, image, UpdateInfo
  <2>2. \A q \in Pages : q < mem.numall /\ q \notin Busy
                            => head'[q] = head[q] /\ q \notin Busy'
    BY DEF PopRetry, Goto, Return, call, image, UpdateInfo, Busy, TypeOK, CallInv, SaveInv, InfoType, Pages
  <2> QED
    BY <2>1, <2>2, ChainFrame
<1>6. Chained(head, Busy, dsk)'
  <2>1. dsk' = dsk
    BY DEF PopRetry, image, UpdateInfo
  <2>2. \A q \in Pages : q < dsk.numall /\ q \notin Busy
                            => head'[q] = head[q] /\ q \notin Busy'
    BY DEF PopRetry, Goto, Return, call, image, UpdateInfo, Busy, TypeOK, CallInv, SaveInv, InfoType, Pages
  <2> QED
    BY <2>1, <2>2, ChainFrame
<1> QED
  BY <1>1, <1>2, <1>3, <1>4, <1>5, <1>6

\* pagealloc takes the first free page off the chain.
LEMMA PopInv ==
    ASSUME IInv, Safe, Pop
    PROVE  IInv'
<1> USE SizesAssumption, NotFreeAssumption DEF IInv
<1> DEFINE popped == [mem EXCEPT !.next = head[mem.next], !.nfree = @ - 1]
<1>0. /\ mem.next \notin Busy
      /\ mem.next < mem.numall
      /\ head[mem.next] # mem.next
      /\ Chained(head, Busy \cup {mem.next}, popped)
      /\ Busy = held
  <2>1. mem.next \in Pages /\ head[mem.next] # NotFree /\ mem \in InfoType
    BY DEF Pop, Parses, TypeOK
  <2>2. Busy = held
    BY DEF Pop, Busy
  <2> QED
    BY <2>1, <2>2, ChainPop
<1>1. TypeOK'
  <2>1. mem.next \in Pages /\ head[mem.next] \in Links
    BY DEF Pop, Parses, TypeOK
  <2>4. mem.nfree - 1 \in Int
    BY DEF TypeOK, InfoType
  <2>5. popped \in InfoType
    BY <2>1, <2>4, InfoUpdate DEF TypeOK
  <2>2. mem' \in InfoType /\ dsk' \in InfoType
    BY <2>5 DEF Pop, UpdateInfo, TypeOK
  <2>3. 0 \in Pages
    BY DEF Pages
  <2> QED
    BY <2>1, <2>2, <2>3 DEF Pop, Return, TypeOK
<1>2. CallInv'
  BY <1>0 DEF Pop, Return, UpdateInfo, TypeOK, CallInv, SaveInv, InfoType
<1>3. SaveInv'
  <2>1. mem'.numall = mem.numall /\ (dsk' = dsk \/ dsk'.numall = mem.numall)
    BY DEF Pop, UpdateInfo, TypeOK, InfoType
  <2>2. isopen /\ dsk.numall <= mem.numall /\ file[0] = "ready" /\ mem.numall \in Nat
        /\ dsk.numall \in Nat /\ \A p \in held : p \in Nat /\ p < dsk.numall
    BY DEF Pop, TypeOK, CallInv, SaveInv, InfoType, Pages
  <2>3. isopen' = isopen /\ file' = file /\ held' = held
    BY DEF Pop
  <2> QED
    BY <2>1, <2>2, <2>3 DEF SaveInv
<1>4. GrowLoop'
  BY DEF Pop, Return, GrowLoop
<1>5. Chained(head, Busy, mem)'
  <2>1. mem' = popped /\ head' = head
    BY DEF Pop, UpdateInfo
  <2>2. Busy' \subseteq Busy \cup {mem.next}
    BY DEF Pop, Return, Busy
  <2> QED
    BY <1>0, <2>1, <2>2, ChainFrame
<1>6. Chained(head, Busy, dsk)'
  <2>1. CASE dsk' = mem'
    BY <1>5, <2>1
  <2>2. CASE dsk' # mem'
    <3>1. dsk' = dsk /\ head' = head /\ Busy' = Busy
      BY <2>2 DEF Pop, Return, UpdateInfo, Busy
    <3> QED
      BY <3>1
  <2> QED
    BY <2>1, <2>2
<1> QED
  BY <1>1, <1>2, <1>3, <1>4, <1>5, <1>6

\* pagealloc returns the page.
LEMMA FillInv ==
    ASSUME IInv, Safe, Fill
    PROVE  IInv'
<1> USE SizesAssumption, NotFreeAssumption DEF IInv
<1>1. TypeOK'
  BY FirstFile DEF Fill, Goto, Return, call, image, UpdateInfo, TypeOK, InfoType, NewInfo, Links, Pages, Parses
<1>2. CallInv'
  BY FirstFile DEF Fill, Goto, Return, call, image, UpdateInfo, TypeOK, CallInv, SaveInv, InfoType, NewInfo
<1>3. SaveInv'
  BY FirstFile DEF Fill, Goto, Return, call, image, UpdateInfo, TypeOK, CallInv, SaveInv, InfoType, NewInfo
<1>4. GrowLoop'
  BY DEF Fill, Goto, Return, call, image, UpdateInfo, TypeOK, CallInv, GrowLoop, InfoType
<1>5. Chained(head, Busy, mem)'
  <2>1. mem' = mem
    BY DEF Fill, image, UpdateInfo
  <2>2. \A q \in Pages : q < mem.numall /\ q \notin Busy
                            => head'[q] = head[q] /\ q \notin Busy'
    BY DEF Fill, Goto, Return, call, image, UpdateInfo, Busy, TypeOK, CallInv, SaveInv, InfoType, Pages
  <2> QED
    BY <2>1, <2>2, ChainFrame
<1>6. Chained(head, Busy, dsk)'
  <2>1. dsk' = dsk
    BY DEF Fill, image, UpdateInfo
  <2>2. \A q \in Pages : q < dsk.numall /\ q \notin Busy
                            => head'[q] = head[q] /\ q \notin Busy'
    BY DEF Fill, Goto, Return, call, image, UpdateInfo, Busy, TypeOK, CallInv, SaveInv, InfoType, Pages
  <2> QED
    BY <2>1, <2>2, ChainFrame
<1> QED
  BY <1>1, <1>2, <1>3, <1>4, <1>5, <1>6

\* grownpages opens or creates the last file.
LEMMA GrowFileInv ==
    ASSUME IInv, Safe, GrowFile
    PROVE  IInv'
<1> USE SizesAssumption, NotFreeAssumption DEF IInv
<1>1. TypeOK'
  <2>1. file' \in [Files -> {"absent", "headless", "ready"}]
    BY DEF GrowFile, TypeOK
  <2>2. 0 \in Pages /\ 0 \in 0 .. Grow
    BY DEF Pages
  <2> QED
    BY <2>1, <2>2 DEF GrowFile, Goto, Return, call, TypeOK
<1>2. CallInv'
  BY FirstFile DEF GrowFile, Goto, Return, call, image, UpdateInfo, TypeOK, CallInv, SaveInv, InfoType, NewInfo
<1>3. SaveInv'
  BY FirstFile DEF GrowFile, Goto, Return, call, image, UpdateInfo, TypeOK, CallInv, SaveInv, InfoType, NewInfo
<1>4. GrowLoop'
  BY DEF GrowFile, Goto, Return, call, image, UpdateInfo, TypeOK, CallInv, GrowLoop, InfoType
<1>5. Chained(head, Busy, mem)'
  <2>1. mem' = mem
    BY DEF GrowFile, image, UpdateInfo
  <2>2. \A q \in Pages : q < mem.numall /\ q \notin Busy
                            => head'[q] = head[q] /\ q \notin Busy'
    BY DEF GrowFile, Goto, Return, call, image, UpdateInfo, Busy, TypeOK, CallInv, SaveInv, InfoType, Pages
  <2> QED
    BY <2>1, <2>2, ChainFrame
<1>6. Chained(head, Busy, dsk)'
  <2>1. dsk' = dsk
    BY DEF GrowFile, image, UpdateInfo
  <2>2. \A q \in Pages : q < dsk.numall /\ q \notin Busy
                            => head'[q] = head[q] /\ q \notin Busy'
    BY DEF GrowFile, Goto, Return, call, image, UpdateInfo, Busy, TypeOK, CallInv, SaveInv, InfoType, Pages
  <2> QED
    BY <2>1, <2>2, ChainFrame
<1> QED
  BY <1>1, <1>2, <1>3, <1>4, <1>5, <1>6

\* createpagefile writes the head page.
LEMMA GrowHeadInv ==
    ASSUME IInv, Safe, GrowHead
    PROVE  IInv'
<1> USE SizesAssumption, NotFreeAssumption DEF IInv
<1>1. TypeOK'
  <2>1. file' \in [Files -> {"absent", "headless", "ready"}]
    BY DEF GrowHead, TypeOK
  <2>2. 0 \in Pages /\ 0 \in 0 .. Grow
    BY DEF Pages
  <2> QED
    BY <2>1, <2>2 DEF GrowHead, Goto, Return, call, TypeOK
<1>2. CallInv'
  BY FirstFile DEF GrowHead, Goto, Return, call, image, UpdateInfo, TypeOK, CallInv, SaveInv, InfoType, NewInfo
<1>3. SaveInv'
  BY FirstFile DEF GrowHead, Goto, Return, call, image, UpdateInfo, TypeOK, CallInv, SaveInv, InfoType, NewInfo
<1>4. GrowLoop'
  BY DEF GrowHead, Goto, Return, call, image, UpdateInfo, TypeOK, CallInv, GrowLoop, InfoType
<1>5. Chained(head, Busy, mem)'
  <2>1. mem' = mem
    BY DEF GrowHead, image, UpdateInfo
  <2>2. \A q \in Pages : q < mem.numall /\ q \notin Busy
                            => head'[q] = head[q] /\ q \notin Busy'
    BY DEF GrowHead, Goto, Return, call, image, UpdateInfo, Busy, TypeOK, CallInv, SaveInv, InfoType, Pages
  <2> QED
    BY <2>1, <2>2, ChainFrame
<1>6. Chained(head, Busy, dsk)'
  <2>1. dsk' = dsk
    BY DEF GrowHead, image, UpdateInfo
  <2>2. \A q \in Pages : q < dsk.numall /\ q \notin Busy
                            => head'[q] = head[q] /\ q \notin Busy'
    BY DEF GrowHead, Goto, Return, call, image, UpdateInfo, Busy, TypeOK, CallInv, SaveInv, InfoType, Pages
  <2> QED
    BY <2>1, <2>2, ChainFrame
<1> QED
  BY <1>1, <1>2, <1>3, <1>4, <1>5, <1>6

\* grownfilepages writes one of the new pages.
LEMMA GrowPageInv ==
    ASSUME IInv, Safe, GrowPage
    PROVE  IInv'
<1> USE SizesAssumption, NotFreeAssumption DEF IInv
<1>1. TypeOK'
  <2>4. mem.next \in Links /\ \A q \in Pages : q + 1 \in Links
    BY DEF TypeOK, InfoType, Links, Pages
  <2>1. head' \in [Pages -> Links \cup {NotFree}]
    BY <2>4 DEF GrowPage, TypeOK
  <2>2. i' \in 0 .. Grow
    BY DEF GrowPage, Return, GrowLoop, TypeOK
  <2>3. 0 \in Pages
    BY DEF Pages
  <2> QED
    BY <2>1, <2>2, <2>3 DEF GrowPage, Return, TypeOK
<1>2. CallInv'
  BY DEF GrowPage, Return, CallInv
<1>3. SaveInv'
  BY DEF GrowPage, SaveInv
<1>4. GrowLoop'
  <2>1. CASE pc' = "idle"
    BY <2>1 DEF GrowLoop
  <2>2. CASE pc' # "idle"
    <3>1. /\ mem.numall + i \in Pages /\ i' = i + 1 /\ mem' = mem
          /\ head' = [head EXCEPT ![mem.numall + i] =
                          IF i + 1 = Grow THEN mem.next ELSE mem.numall + i + 1]
          /\ pc' = IF i + 1 = Grow THEN "growInfo" ELSE "growPage"
      BY <2>2 DEF GrowPage, Return
    <3>2. /\ i \in Nat /\ i < Grow /\ mem.numall \in Nat
          /\ i > 0 => mem.numall + i <= PageLimit
          /\ \A k \in 0 .. i - 1 :
                head[mem.numall + k] =
                    IF k + 1 = Grow THEN mem.next ELSE mem.numall + k + 1
      BY DEF GrowPage, GrowLoop, TypeOK, InfoType
    <3>3. mem.numall + i' <= PageLimit
      BY <3>1, <3>2 DEF Pages
    <3>4. i' < Grow <=> pc' = "growPage"
      BY <3>1, <3>2
    <3>5. ASSUME NEW k \in 0 .. i' - 1
          PROVE  head'[mem.numall + k] =
                     IF k + 1 = Grow THEN mem.next ELSE mem.numall + k + 1
      <4>1. mem.numall + k \in Pages
        BY <3>1, <3>2, <3>3 DEF Pages
      <4>2. CASE k = i
        BY <3>1, <4>2 DEF TypeOK
      <4>3. CASE k # i
        <5>1. k \in 0 .. i - 1 /\ mem.numall + k # mem.numall + i
          BY <3>1, <3>2, <4>3
        <5>2. head'[mem.numall + k] = head[mem.numall + k]
          BY <3>1, <4>1, <5>1 DEF TypeOK
        <5> QED
          BY <3>2, <5>1, <5>2
      <4> QED
        BY <4>2, <4>3
    <3> QED
      BY <3>1, <3>3, <3>4, <3>5 DEF GrowLoop
  <2> QED
    BY <2>1, <2>2
<1>5. Chained(head, Busy, mem)'
  <2>1. mem' = mem
    BY DEF GrowPage, image, UpdateInfo
  <2>2. \A q \in Pages : q < mem.numall /\ q \notin Busy
                            => head'[q] = head[q] /\ q \notin Busy'
    BY DEF GrowPage, Goto, Return, call, image, UpdateInfo, Busy, TypeOK, CallInv, SaveInv, InfoType, Pages
  <2> QED
    BY <2>1, <2>2, ChainFrame
<1>6. Chained(head, Busy, dsk)'
  <2>1. dsk' = dsk
    BY DEF GrowPage, image, UpdateInfo
  <2>2. \A q \in Pages : q < dsk.numall /\ q \notin Busy
                            => head'[q] = head[q] /\ q \notin Busy'
    BY DEF GrowPage, Goto, Return, call, image, UpdateInfo, Busy, TypeOK, CallInv, SaveInv, InfoType, Pages
  <2> QED
    BY <2>1, <2>2, ChainFrame
<1> QED
  BY <1>1, <1>2, <1>3, <1>4, <1>5, <1>6

\* grownfilepages adds the new pages to the space.
LEMMA GrowInfoInv ==
    ASSUME IInv, Safe, GrowInfo
    PROVE  IInv'
<1> USE SizesAssumption, NotFreeAssumption DEF IInv
<1> DEFINE grown == [numall |-> mem.numall + Grow, next |-> mem.numall,
                    nfree |-> mem.nfree + Grow]
<1>0. /\ mem.numall + Grow <= PageLimit
      /\ Chained(head, Busy, grown)
  <2>1. i = Grow /\ mem \in InfoType /\ Grow \in Nat \ {0}
    BY DEF GrowInfo, GrowLoop, TypeOK
  <2>2. /\ mem.numall + Grow <= PageLimit
        /\ \A k \in 0 .. Grow - 1 :
              head[mem.numall + k] =
                  IF k + 1 = Grow THEN mem.next ELSE mem.numall + k + 1
    BY <2>1 DEF GrowInfo, GrowLoop
  <2>3. \A p \in Busy : p < mem.numall
    BY DEF GrowInfo, Busy, TypeOK, CallInv, SaveInv, InfoType, Pages
  <2> QED
    BY <2>1, <2>2, <2>3, ChainGrow
<1>1. TypeOK'
  <2>1. mem' \in InfoType /\ dsk' \in InfoType
    BY <1>0 DEF GrowInfo, UpdateInfo, TypeOK, InfoType, Links, Pages
  <2>2. 0 \in Pages
    BY DEF Pages
  <2> QED
    BY <2>1, <2>2 DEF GrowInfo, Goto, Return, call, TypeOK
<1>2. CallInv'
  BY DEF GrowInfo, Goto, Return, call, CallInv
<1>3. SaveInv'
  BY <1>0 DEF GrowInfo, UpdateInfo, TypeOK, CallInv, SaveInv, InfoType, Pages
<1>4. GrowLoop'
  BY DEF GrowInfo, Goto, Return, GrowLoop
<1>5. Chained(head, Busy, mem)'
  <2>1. mem' = grown /\ head' = head /\ Busy' = Busy
    BY DEF GrowInfo, Goto, Return, call, UpdateInfo, Busy
  <2> QED
    BY <1>0, <2>1
<1>6. Chained(head, Busy, dsk)'
  <2>1. dsk' \in {dsk, mem'} /\ head' = head /\ Busy' = Busy
    BY DEF GrowInfo, Goto, Return, call, UpdateInfo, Busy
  <2> QED
    BY <1>5, <2>1
<1> QED
  BY <1>1, <1>2, <1>3, <1>4, <1>5, <1>6

\* pagefree is called.
LEMMA FreeCallInv ==
    ASSUME IInv, Safe, NEW p \in Pages, FreeCall(p)
    PROVE  IInv'
<1> USE SizesAssumption, NotFreeAssumption DEF IInv
<1>1. TypeOK'
  BY FirstFile DEF FreeCall, Goto, Return, call, image, UpdateInfo, TypeOK, InfoType, NewInfo, Links, Pages, Parses
<1>2. CallInv'
  BY FirstFile DEF FreeCall, Goto, Return, call, image, UpdateInfo, TypeOK, CallInv, SaveInv, InfoType, NewInfo
<1>3. SaveInv'
  BY FirstFile DEF FreeCall, Goto, Return, call, image, UpdateInfo, TypeOK, CallInv, SaveInv, InfoType, NewInfo
<1>4. GrowLoop'
  BY DEF FreeCall, Goto, Return, call, image, UpdateInfo, TypeOK, CallInv, GrowLoop, InfoType
<1>5. Chained(head, Busy, mem)'
  <2>1. mem' = mem
    BY DEF FreeCall, image, UpdateInfo
  <2>2. \A q \in Pages : q < mem.numall /\ q \notin Busy
                            => head'[q] = head[q] /\ q \notin Busy'
    BY DEF FreeCall, Goto, Return, call, image, UpdateInfo, Busy, TypeOK, CallInv, SaveInv, InfoType, Pages
  <2> QED
    BY <2>1, <2>2, ChainFrame
<1>6. Chained(head, Busy, dsk)'
  <2>1. dsk' = dsk
    BY DEF FreeCall, image, UpdateInfo
  <2>2. \A q \in Pages : q < dsk.numall /\ q \notin Busy
                            => head'[q] = head[q] /\ q \notin Busy'
    BY DEF FreeCall, Goto, Return, call, image, UpdateInfo, Busy, TypeOK, CallInv, SaveInv, InfoType, Pages
  <2> QED
    BY <2>1, <2>2, ChainFrame
<1> QED
  BY <1>1, <1>2, <1>3, <1>4, <1>5, <1>6

\* pagefree has read the page head.
LEMMA FreeReadInv ==
    ASSUME IInv, Safe, FreeRead
    PROVE  IInv'
<1> USE SizesAssumption, NotFreeAssumption DEF IInv
<1>1. TypeOK'
  BY FirstFile DEF FreeRead, Goto, Return, call, image, UpdateInfo, TypeOK, InfoType, NewInfo, Links, Pages, Parses
<1>2. CallInv'
  BY FirstFile DEF FreeRead, Goto, Return, call, image, UpdateInfo, TypeOK, CallInv, SaveInv, InfoType, NewInfo
<1>3. SaveInv'
  BY FirstFile DEF FreeRead, Goto, Return, call, image, UpdateInfo, TypeOK, CallInv, SaveInv, InfoType, NewInfo
<1>4. GrowLoop'
  BY DEF FreeRead, Goto, Return, call, image, UpdateInfo, TypeOK, CallInv, GrowLoop, InfoType
<1>5. Chained(head, Busy, mem)'
  <2>1. mem' = mem /\ head' = head
    BY DEF FreeRead, image
  <2>2. CASE Busy' \subseteq Busy
    BY <2>1, <2>2, ChainFrame
  <2>3. CASE ~(Busy' \subseteq Busy)
    <3>1. /\ Busy' = Busy \cup {pgno} /\ pgno \in Pages
          /\ ~May("damage") /\ head[pgno] = NotFree
      BY <2>3 DEF FreeRead, Goto, Return, call, Busy, Safe, TypeOK, Parses
    <3> QED
      BY <2>1, <3>1, ChainMark
  <2> QED
    BY <2>2, <2>3
<1>6. Chained(head, Busy, dsk)'
  <2>1. dsk' = dsk /\ head' = head
    BY DEF FreeRead, image
  <2>2. CASE Busy' \subseteq Busy
    BY <2>1, <2>2, ChainFrame
  <2>3. CASE ~(Busy' \subseteq Busy)
    <3>1. /\ Busy' = Busy \cup {pgno} /\ pgno \in Pages
          /\ ~May("damage") /\ head[pgno] = NotFree
      BY <2>3 DEF FreeRead, Goto, Return, call, Busy, Safe, TypeOK, Parses
    <3> QED
      BY <2>1, <3>1, ChainMark
  <2> QED
    BY <2>2, <2>3
<1> QED
  BY <1>1, <1>2, <1>3, <1>4, <1>5, <1>6

\* pagefree links the page before the entry of the chain.
LEMMA FreeHeadInv ==
    ASSUME IInv, Safe, FreeHead
    PROVE  IInv'
<1> USE SizesAssumption, NotFreeAssumption DEF IInv
<1>1. TypeOK'
  <2>1. head' \in [Pages -> Links \cup {NotFree}]
    BY DEF FreeHead, TypeOK, InfoType
  <2>2. 0 \in Pages
    BY DEF Pages
  <2> QED
    BY <2>1, <2>2 DEF FreeHead, Goto, Return, call, TypeOK
<1>2. CallInv'
  BY FirstFile DEF FreeHead, Goto, Return, call, image, UpdateInfo, TypeOK, CallInv, SaveInv, InfoType, NewInfo
<1>3. SaveInv'
  BY FirstFile DEF FreeHead, Goto, Return, call, image, UpdateInfo, TypeOK, CallInv, SaveInv, InfoType, NewInfo
<1>4. GrowLoop'
  BY DEF FreeHead, Goto, Return, call, image, UpdateInfo, TypeOK, CallInv, GrowLoop, InfoType
<1>5. Chained(head, Busy, mem)'
  <2>1. mem' = mem
    BY DEF FreeHead, image, UpdateInfo
  <2>2. \A q \in Pages : q < mem.numall /\ q \notin Busy
                            => head'[q] = head[q] /\ q \notin Busy'
    BY DEF FreeHead, Goto, Return, call, image, UpdateInfo, Busy, TypeOK, CallInv, SaveInv, InfoType, Pages
  <2> QED
    BY <2>1, <2>2, ChainFrame
<1>6. Chained(head, Busy, dsk)'
  <2>1. dsk' = dsk
    BY DEF FreeHead, image, UpdateInfo
  <2>2. \A q \in Pages : q < dsk.numall /\ q \notin Busy
                            => head'[q] = head[q] /\ q \notin Busy'
    BY DEF FreeHead, Goto, Return, call, image, UpdateInfo, Busy, TypeOK, CallInv, SaveInv, InfoType, Pages
  <2> QED
    BY <2>1, <2>2, ChainFrame
<1> QED
  BY <1>1, <1>2, <1>3, <1>4, <1>5, <1>6

\* pagefree makes the page the entry of the chain.
LEMMA FreeInfoInv ==
    ASSUME IInv, Safe, FreeInfo
    PROVE  IInv'
<1> USE SizesAssumption, NotFreeAssumption DEF IInv
<1>1. TypeOK'
  <2>3. mem.nfree + 1 \in Int /\ pgno \in Links
    BY DEF TypeOK, InfoType, Links, Pages
  <2>4. [mem EXCEPT !.next = pgno, !.nfree = @ + 1] \in InfoType
    BY <2>3, InfoUpdate DEF TypeOK
  <2>1. mem' \in InfoType /\ dsk' \in InfoType
    BY <2>4 DEF FreeInfo, UpdateInfo, TypeOK
  <2>2. 0 \in Pages
    BY DEF Pages
  <2> QED
    BY <2>1, <2>2 DEF FreeInfo, Return, TypeOK
<1>2. CallInv'
  BY DEF FreeInfo, Return, CallInv
<1>3. SaveInv'
  <2>1. mem'.numall = mem.numall /\ (dsk' = dsk \/ dsk'.numall = mem.numall)
    BY DEF FreeInfo, UpdateInfo, TypeOK, InfoType
  <2>2. isopen /\ dsk.numall <= mem.numall /\ file[0] = "ready" /\ mem.numall \in Nat
        /\ dsk.numall \in Nat /\ \A p \in held : p \in Nat /\ p < dsk.numall
    BY DEF FreeInfo, TypeOK, CallInv, SaveInv, InfoType, Pages
  <2>3. isopen' = isopen /\ file' = file /\ held' = held
    BY DEF FreeInfo
  <2> QED
    BY <2>1, <2>2, <2>3 DEF SaveInv
<1>4. GrowLoop'
  BY DEF FreeInfo, Return, GrowLoop
<1>5. Chained(head, Busy, mem)'
  <2>1. /\ mem \in InfoType /\ pgno \in Pages /\ pgno \in Busy
        /\ pgno < mem.numall /\ pgno \notin held /\ held \subseteq Busy
        /\ head[pgno] = mem.next
    BY DEF FreeInfo, Busy, TypeOK, CallInv
  <2>2. Chained(head, held, [mem EXCEPT !.next = pgno, !.nfree = @ + 1])
    BY <2>1, ChainPush
  <2>3. /\ mem' = [mem EXCEPT !.next = pgno, !.nfree = @ + 1]
        /\ head' = head /\ Busy' = held
    BY DEF FreeInfo, UpdateInfo, Return, Busy
  <2> QED
    BY <2>2, <2>3
<1>6. Chained(head, Busy, dsk)'
  <2>1. CASE dsk' = mem'
    BY <1>5, <2>1
  <2>2. CASE dsk' # mem'
    <3>1. dsk' = dsk /\ head' = head /\ Busy' \subseteq Busy
      BY <2>2 DEF FreeInfo, UpdateInfo, Return, Busy
    <3> QED
      BY <3>1, ChainFrame
  <2> QED
    BY <2>1, <2>2
<1> QED
  BY <1>1, <1>2, <1>3, <1>4, <1>5, <1>6

\* The owner of a page writes it.
LEMMA WritePageInv ==
    ASSUME IInv, Safe, NEW p \in Pages, WritePage(p)
    PROVE  IInv'
<1> USE SizesAssumption, NotFreeAssumption DEF IInv
<1>1. TypeOK'
  BY FirstFile DEF WritePage, Goto, Return, call, image, UpdateInfo, TypeOK, InfoType, NewInfo, Links, Pages, Parses
<1>2. CallInv'
  BY FirstFile DEF WritePage, Goto, Return, call, image, UpdateInfo, TypeOK, CallInv, SaveInv, InfoType, NewInfo
<1>3. SaveInv'
  BY FirstFile DEF WritePage, Goto, Return, call, image, UpdateInfo, TypeOK, CallInv, SaveInv, InfoType, NewInfo
<1>4. GrowLoop'
  BY DEF WritePage, Goto, Return, call, image, UpdateInfo, TypeOK, CallInv, GrowLoop, InfoType
<1>5. Chained(head, Busy, mem)'
  <2>1. mem' = mem
    BY DEF WritePage, image, UpdateInfo
  <2>2. \A q \in Pages : q < mem.numall /\ q \notin Busy
                            => head'[q] = head[q] /\ q \notin Busy'
    BY DEF WritePage, Goto, Return, call, image, UpdateInfo, Busy, TypeOK, CallInv, SaveInv, InfoType, Pages
  <2> QED
    BY <2>1, <2>2, ChainFrame
<1>6. Chained(head, Busy, dsk)'
  <2>1. dsk' = dsk
    BY DEF WritePage, image, UpdateInfo
  <2>2. \A q \in Pages : q < dsk.numall /\ q \notin Busy
                            => head'[q] = head[q] /\ q \notin Busy'
    BY DEF WritePage, Goto, Return, call, image, UpdateInfo, Busy, TypeOK, CallInv, SaveInv, InfoType, Pages
  <2> QED
    BY <2>1, <2>2, ChainFrame
<1> QED
  BY <1>1, <1>2, <1>3, <1>4, <1>5, <1>6

\* A page head is damaged.
LEMMA DamageInv ==
    ASSUME IInv, Safe, NEW p \in Pages, Damage(p)
    PROVE  IInv'
<1> USE SizesAssumption, NotFreeAssumption DEF IInv
<1>1. TypeOK'
  BY FirstFile DEF Damage, Goto, Return, call, image, UpdateInfo, TypeOK, InfoType, NewInfo, Links, Pages, Parses
<1>2. CallInv'
  BY FirstFile DEF Damage, Goto, Return, call, image, UpdateInfo, TypeOK, CallInv, SaveInv, InfoType, NewInfo
<1>3. SaveInv'
  BY FirstFile DEF Damage, Goto, Return, call, image, UpdateInfo, TypeOK, CallInv, SaveInv, InfoType, NewInfo
<1>4. GrowLoop'
  BY DEF Damage, Goto, Return, call, image, UpdateInfo, TypeOK, CallInv, GrowLoop, InfoType
<1>5. Chained(head, Busy, mem)'
  <2>1. /\ mem' = mem /\ mem \in InfoType
        /\ head' = [head EXCEPT ![p] = NotFree]
        /\ Busy' = Busy /\ p \notin Busy /\ May("damage")
        /\ head \in [Pages -> Links \cup {NotFree}]
    BY DEF Damage, call, Busy, TypeOK
  <2>2. Chained([head EXCEPT ![p] = NotFree], Busy, mem)
    BY <2>1, ChainCut
  <2> QED
    BY <2>1, <2>2
<1>6. Chained(head, Busy, dsk)'
  <2>1. /\ dsk' = dsk /\ dsk \in InfoType
        /\ head' = [head EXCEPT ![p] = NotFree]
        /\ Busy' = Busy /\ p \notin Busy /\ May("damage")
        /\ head \in [Pages -> Links \cup {NotFree}]
    BY DEF Damage, call, Busy, TypeOK
  <2>2. Chained([head EXCEPT ![p] = NotFree], Busy, dsk)
    BY <2>1, ChainCut
  <2> QED
    BY <2>1, <2>2
<1> QED
  BY <1>1, <1>2, <1>3, <1>4, <1>5, <1>6

\* The process dies.
LEMMA CrashInv ==
    ASSUME IInv, Safe, Crash
    PROVE  IInv'
<1> USE SizesAssumption, NotFreeAssumption DEF IInv
<1>1. TypeOK'
  <2>1. mem' \in InfoType
    BY DEF Crash, NewInfo, InfoType, Links
  <2>2. 0 \in Pages /\ 0 \in 0 .. Grow
    BY DEF Pages
  <2> QED
    BY <2>1, <2>2 DEF Crash, Return, image, TypeOK
<1>2. CallInv'
  BY FirstFile DEF Crash, Goto, Return, call, image, UpdateInfo, TypeOK, CallInv, SaveInv, InfoType, NewInfo
<1>3. SaveInv'
  BY FirstFile DEF Crash, Goto, Return, call, image, UpdateInfo, TypeOK, CallInv, SaveInv, InfoType, NewInfo
<1>4. GrowLoop'
  BY DEF Crash, Goto, Return, call, image, UpdateInfo, TypeOK, CallInv, GrowLoop, InfoType
<1>5. Chained(head, Busy, mem)'
  <2>1. mem' = NewInfo
    BY DEF Crash
  <2> QED
    BY <2>1, ChainNew
<1>6. Chained(head, Busy, dsk)'
  <2>1. dsk' = dsk
    BY DEF Crash, image, UpdateInfo
  <2>2. \A q \in Pages : q < dsk.numall /\ q \notin Busy
                            => head'[q] = head[q] /\ q \notin Busy'
    BY DEF Crash, Goto, Return, call, image, UpdateInfo, Busy, TypeOK, CallInv, SaveInv, InfoType, Pages
  <2> QED
    BY <2>1, <2>2, ChainFrame
<1> QED
  BY <1>1, <1>2, <1>3, <1>4, <1>5, <1>6

\* Every step preserves the invariant.
LEMMA NextInv ==
    ASSUME IInv, Safe, [Next]_vars
    PROVE  IInv'
<1>1. CASE CreateHead
  BY <1>1, CreateHeadInv
<1>2. CASE PopOpenFails
  BY <1>2, PopOpenFailsInv
<1>3. CASE PopRetry
  BY <1>3, PopRetryInv
<1>4. CASE Pop
  BY <1>4, PopInv
<1>5. CASE Fill
  BY <1>5, FillInv
<1>6. CASE GrowFile
  BY <1>6, GrowFileInv
<1>7. CASE GrowHead
  BY <1>7, GrowHeadInv
<1>8. CASE GrowPage
  BY <1>8, GrowPageInv
<1>9. CASE GrowInfo
  BY <1>9, GrowInfoInv
<1>10. CASE FreeRead
  BY <1>10, FreeReadInv
<1>11. CASE FreeHead
  BY <1>11, FreeHeadInv
<1>12. CASE FreeInfo
  BY <1>12, FreeInfoInv
<1>13. CASE CreateFile
  BY <1>13, CreateFileInv
<1>14. CASE Open
  BY <1>14, OpenInv
<1>15. CASE AllocGrow
  BY <1>15, AllocGrowInv
<1>16. CASE AllocPop
  BY <1>16, AllocPopInv
<1>17. ASSUME NEW p \in Pages, FreeCall(p) PROVE IInv'
  BY <1>17, FreeCallInv
<1>18. ASSUME NEW p \in Pages, WritePage(p) PROVE IInv'
  BY <1>18, WritePageInv
<1>19. ASSUME NEW p \in Pages, Damage(p) PROVE IInv'
  BY <1>19, DamageInv
<1>20. CASE Crash
  BY <1>20, CrashInv
<1>21. CASE UNCHANGED vars
  <2>1. UNCHANGED <<file, head, dsk, mem, isopen, pc, pgno, n, i, held>>
    BY <1>21 DEF vars
  <2>2. TypeOK' /\ CallInv' /\ SaveInv' /\ GrowLoop'
    BY <2>1 DEF IInv, TypeOK, CallInv, SaveInv, GrowLoop
  <2>3. Chained(head, Busy, mem)' /\ Chained(head, Busy, dsk)'
    BY <2>1 DEF IInv, Busy
  <2> QED
    BY <2>2, <2>3 DEF IInv
<1> QED
  BY <1>1, <1>2, <1>3, <1>4, <1>5, <1>6, <1>7, <1>8, <1>9, <1>10, <1>11, <1>12,
     <1>13, <1>14, <1>15, <1>16, <1>17, <1>18, <1>19, <1>20, <1>21
     DEF Next, Step

-----------------------------------------------------------------------------
(* The theorems.                                                             *)

\* The free chains, in memory and on disk, are stacks of pages in nobody's
\* use, in every reachable state (pagealloc, pagefree, grownfilepages).
THEOREM Invariance == ASSUME Safe PROVE Spec => []IInv
<1>1. IInv /\ [Next]_vars => IInv'
  BY NextInv
<1> QED
  BY <1>1, InitInv, PTL DEF Spec

\* The variables keep their types (the state of class tablespace).
THEOREM TypeCorrect == ASSUME Safe PROVE Spec => []TypeOK
<1>1. IInv => TypeOK
  BY DEF IInv
<1> QED
  BY <1>1, Invariance, PTL

\* pagealloc returns only pages that nobody owns, inside the saved space and
\* off both chains, whatever fails and wherever the process dies.
THEOREM GrantsAreFresh == ASSUME Safe PROVE Spec => []GrantFresh
<1>1. IInv => GrantFresh
  BY DEF IInv, CallInv, GrantFresh
<1> QED
  BY <1>1, Invariance, PTL

\* No page on the chain a restart would find belongs to a client, in whatever
\* step of pagealloc or pagefree the process dies: the new entry is saved before
\* the page is returned.  And no owned page lies behind the saved space.
THEOREM GrantsAreDurable == ASSUME Safe PROVE Spec => []GrantsDurable
<1>1. ASSUME IInv PROVE GrantsDurable
  <2>1. Reached(head, dsk.next) \cap Busy = {}
    BY <1>1, ReachedIsFree DEF IInv
  <2>2. \A p \in held : p < dsk.numall
    BY <1>1 DEF IInv, SaveInv
  <2> QED
    BY <2>1, <2>2, Follows DEF GrantsDurable, Busy
<1> QED
  BY <1>1, Invariance, PTL

\* Without damaged page heads a free chain, in memory or on disk, is acyclic,
\* lies inside the space and is as long as its counter says, whatever writes fail
\* and however often clients free a page (pagefree reads the head back first).
THEOREM ChainsAreSound == ASSUME Safe, ~May("damage") PROVE Spec => []ChainSound
<1>1. ASSUME NEW info, Chained(head, Busy, info)
      PROVE  /\ Walk(info.next)[PageLimit] = -1
             /\ \A p \in FreePages(info.next) : p < info.numall
             /\ info.nfree = Cardinality(FreePages(info.next))
  <2>0. PICK N \in Nat : \E c \in [0 .. N -> Links] : IsChain(head, Busy, info, N, c)
    BY <1>1 DEF Chained
  <2>1. PICK c \in [0 .. N -> Links] : IsChain(head, Busy, info, N, c)
    BY <2>0
  <2>2. /\ Walk(info.next) = Descent(N, c)
        /\ FreePages(info.next) = OnChain(N, c)
    BY <2>1, WalkOfChain, Follows
  <2>3. N <= PageLimit /\ Cardinality(OnChain(N, c)) = N
    BY <2>1, ChainLength
  <2>4. c[0] = -1 /\ info.nfree = N
    BY <2>1 DEF IsChain
  <2>5. Walk(info.next)[PageLimit] = -1
    BY <2>2, <2>3, <2>4, SizesAssumption DEF Descent
  <2>6. \A p \in FreePages(info.next) : p < info.numall
    BY <2>1, <2>2 DEF IsChain, OnChain
  <2> QED
    BY <2>2, <2>3, <2>4, <2>5, <2>6
<1>2. IInv => ChainSound
  BY <1>1 DEF IInv, ChainSound
<1> QED
  BY <1>2, Invariance, PTL

-----------------------------------------------------------------------------
(* Lemmas about sizes.                                                       *)

\* What quotient and remainder are.

LEMMA Division ==
    ASSUME NEW a \in Nat, NEW b \in Nat \ {0}
    PROVE  /\ a \div b \in Nat /\ a % b \in 0 .. b - 1
           /\ a = b * (a \div b) + (a % b)
  OBVIOUS

\* The quotient is the only number with this property.
LEMMA Quotient ==
    ASSUME NEW a \in Nat, NEW b \in Nat \ {0}, NEW q \in Nat,
           b * q <= a, a < b * q + b
    PROVE  a \div b = q
<1>1. a = b * (a \div b) + (a % b) /\ a % b \in 0 .. b - 1 /\ a \div b \in Nat
  BY Division
<1> DEFINE d == a \div b
<1>2. d \in Nat /\ b * d <= a /\ a < b * d + b
  BY <1>1
<1> HIDE DEF d
<1>3. CASE d < q
  <2>1. d + 1 <= q
    BY <1>2, <1>3
  <2>2. b * (d + 1) <= b * q
    BY <1>2, <2>1
  <2>3. b * (d + 1) = b * d + b
    BY <1>2
  <2> QED
    BY <1>2, <2>2, <2>3
<1>4. CASE q < d
  <2>1. q + 1 <= d
    BY <1>2, <1>4
  <2>2. b * (q + 1) <= b * d
    BY <1>2, <2>1
  <2>3. b * (q + 1) = b * q + b
    BY <1>2
  <2> QED
    BY <1>2, <2>2, <2>3
<1>5. d = q
  BY <1>2, <1>3, <1>4
<1> QED
  BY <1>5 DEF d

\* The pages grownfilepages adds to a space that grew by whole steps go to one
\* file, since a file holds a multiple of them.
LEMMA SameFile ==
    ASSUME NEW m \in Nat, m % Grow = 0, NEW p \in m .. m + Grow - 1
    PROVE  /\ FileOf(p) = FileOf(m)
           /\ m + Grow <= (FileOf(m) + 1) * FilePages
           /\ (m + Grow) % Grow = 0
<1> DEFINE q == m \div FilePages
           a == m \div Grow
           b == FilePages \div Grow
<1>1. m = FilePages * q + (m % FilePages) /\ m % FilePages \in 0 .. FilePages - 1 /\ q \in Nat
  BY Division, SizesAssumption
<1>2. m = Grow * a /\ a \in Nat
  BY Division, SizesAssumption
<1>3. FilePages = Grow * b /\ b \in Nat
  BY Division, SizesAssumption
<1> HIDE DEF q, a, b
<1>4. m % FilePages = Grow * (a - b * q)
  <2>1. FilePages * q = Grow * (b * q)
    BY <1>1, <1>3, SizesAssumption
  <2>2. Grow * a - Grow * (b * q) = Grow * (a - b * q)
    BY <1>1, <1>2, <1>3, SizesAssumption
  <2> DEFINE x == FilePages * q
             y == Grow * a
             z == Grow * (b * q)
  <2>3. /\ m = x + (m % FilePages) /\ m = y /\ x = z /\ x \in Int /\ z \in Int /\ y \in Int
        /\ m % FilePages \in Int
        /\ y - z = Grow * (a - b * q)
    BY <1>1, <1>2, <1>3, <2>1, <2>2, SizesAssumption
  <2> HIDE DEF x, y, z
  <2>4. m % FilePages = y - z
    BY <2>3
  <2> QED
    BY <2>3, <2>4
<1> DEFINE e == a - b * q
<1>5. e < b
  <2>1. e \in Int
    BY <1>1, <1>2, <1>3
  <2>2. Grow * e < Grow * b
    BY <1>1, <1>3, <1>4, SizesAssumption
  <2> HIDE DEF e
  <2> QED
    BY <1>3, <2>1, <2>2, SizesAssumption
<1>6. Grow * e + Grow <= FilePages
  <2>1. e + 1 <= b /\ e \in Int
    BY <1>1, <1>2, <1>3, <1>5
  <2> HIDE DEF e
  <2>2. Grow * (e + 1) <= Grow * b
    BY <1>3, <2>1, SizesAssumption
  <2> QED
    BY <1>3, <2>1, <2>2, SizesAssumption
<1>7. FilePages * q <= p /\ p < FilePages * q + FilePages
      /\ m + Grow <= FilePages * q + FilePages
  <2> DEFINE x == FilePages * q
             r == m % FilePages
  <2>1. /\ m = x + r /\ x \in Int /\ r \in Nat /\ r + Grow <= FilePages
        /\ Grow \in Nat /\ FilePages \in Nat
    BY <1>1, <1>4, <1>6, SizesAssumption
  <2> HIDE DEF x, r
  <2>2. x <= p /\ p < x + FilePages /\ m + Grow <= x + FilePages
    BY <2>1
  <2> QED
    BY <2>2 DEF x
<1>8. p \div FilePages = q
  <2>1. p \in Nat /\ FilePages \in Nat \ {0} /\ q \in Nat
    BY <1>1, SizesAssumption
  <2> QED
    BY <1>7, <2>1, Quotient
<1>9. (q + 1) * FilePages = FilePages * q + FilePages
  BY <1>1, SizesAssumption
<1>10. (m + Grow) % Grow = 0
  <2>1. m + Grow = Grow * (a + 1)
    BY <1>2, SizesAssumption
  <2>2. (m + Grow) \div Grow = a + 1
    BY <1>2, <2>1, Quotient, SizesAssumption
  <2> DEFINE s == m + Grow
  <2>3. s \in Nat /\ Grow \in Nat \ {0}
    BY SizesAssumption
  <2>4. s = Grow * (s \div Grow) + (s % Grow) /\ s % Grow \in Int
    <3> HIDE DEF s
    <3> QED
      BY <2>3, Division
  <2>5. s = s + (s % Grow)
    BY <2>1, <2>2, <2>4
  <2> HIDE DEF s
  <2>6. s % Grow = 0
    BY <2>3, <2>4, <2>5
  <2> QED
    BY <2>6 DEF s
<1> QED
  BY <1>7, <1>8, <1>9, <1>10 DEF FileOf, q

-----------------------------------------------------------------------------
(* Every page has its file.                                                  *)

\* The space has grown by whole steps and fits the disk, and pages are being
\* written only to a file that is ready.
FilesInv ==
    /\ mem.numall <= PageLimit /\ dsk.numall <= PageLimit
    /\ mem.numall % Grow = 0 /\ dsk.numall % Grow = 0
    /\ pc \in {"growPage", "growInfo"} => file[LastFile] = "ready"
    /\ FilesPrecedePages

\* The file of a page is one of the files.
LEMMA FileOfPage == \A p \in 0 .. PageLimit : FileOf(p) \in Files
  BY SizesAssumption DEF FileOf, Files

\* A step that makes the space no larger and takes no file away.
LEMMA NoGrowth ==
    ASSUME TypeOK, FilesInv,
           \A f \in Files : file[f] = "ready" => file'[f] = "ready",
           mem'.numall \in {mem.numall, dsk.numall, 0},
           dsk'.numall \in {mem.numall, dsk.numall},
           pc' \in {"growPage", "growInfo"} => file'[LastFile'] = "ready"
    PROVE  FilesInv'
<1>1. 0 % Grow = 0
  BY SizesAssumption
<1>2. /\ mem'.numall <= PageLimit /\ dsk'.numall <= PageLimit
      /\ mem'.numall % Grow = 0 /\ dsk'.numall % Grow = 0
  BY <1>1, SizesAssumption DEF FilesInv
<1>3. ASSUME NEW p \in Pages, p < mem'.numall \/ p < dsk'.numall
      PROVE  file'[FileOf(p)] = "ready"
  <2>1. p < mem.numall \/ p < dsk.numall
    BY <1>3 DEF Pages
  <2>2. file[FileOf(p)] = "ready"
    BY <2>1 DEF FilesInv, FilesPrecedePages
  <2>3. FileOf(p) \in Files
    BY FileOfPage, SizesAssumption DEF Pages
  <2> QED
    BY <2>2, <2>3
<1> QED
  BY <1>2, <1>3 DEF FilesInv, FilesPrecedePages

\* updateinfo() of grownfilepages: the new pages lie in the file that is ready.
LEMMA GrowInfoFiles ==
    ASSUME IInv, FilesInv, GrowInfo
    PROVE  FilesInv'
<1> DEFINE m == mem.numall
<1>1. /\ file' = file /\ m \in Nat /\ dsk.numall \in Nat
      /\ pc' \notin {"growPage", "growInfo"}
      /\ mem'.numall = m + Grow
      /\ dsk'.numall \in {m + Grow, dsk.numall}
  BY DEF IInv, TypeOK, InfoType, GrowInfo, UpdateInfo, Goto, Return
<1>2. m + Grow <= PageLimit
  <2>1. i = Grow
    BY SizesAssumption DEF IInv, TypeOK, GrowLoop, GrowInfo
  <2> QED
    BY <2>1, SizesAssumption DEF IInv, GrowLoop, GrowInfo
<1>3. m % Grow = 0 /\ (m + Grow) % Grow = 0
  <2>1. m \in m .. m + Grow - 1
    BY <1>1, SizesAssumption
  <2> QED
    BY <1>1, <2>1, SameFile DEF FilesInv
<1>4. ASSUME NEW p \in Pages, p < m + Grow
      PROVE  file'[FileOf(p)] = "ready"
  <2>1. CASE p < m
    BY <1>1, <2>1 DEF FilesInv, FilesPrecedePages
  <2>2. CASE ~(p < m)
    <3>1. p \in m .. m + Grow - 1
      BY <1>1, <1>4, <2>2, SizesAssumption DEF Pages
    <3>2. FileOf(p) = LastFile
      BY <1>1, <1>3, <3>1, SameFile DEF LastFile
    <3> QED
      BY <1>1, <3>2 DEF FilesInv, GrowInfo
  <2> QED
    BY <2>1, <2>2
<1>5. \A p \in Pages : p < mem'.numall \/ p < dsk'.numall => file'[FileOf(p)] = "ready"
  BY <1>1, <1>4 DEF FilesInv, FilesPrecedePages
<1> QED
  BY <1>1, <1>2, <1>3, <1>5 DEF FilesInv, FilesPrecedePages

\* The files during the steps that grow the space.
LEMMA FilesNext ==
    ASSUME IInv, FilesInv, [Next]_vars
    PROVE  FilesInv'
<1> USE DEF IInv
<1>0. mem.numall \in 0 .. PageLimit /\ LastFile \in Files /\ 0 \in Files
  BY FileOfPage, FirstFile DEF TypeOK, InfoType, FilesInv, LastFile
<1>1. CASE CreateHead
  BY <1>0, <1>1, NoGrowth DEF CreateHead, Return, TypeOK
<1>2. CASE GrowFile
  BY <1>0, <1>2, NoGrowth DEF GrowFile, Goto, Return, TypeOK, LastFile, FilesInv
<1>3. CASE GrowHead
  BY <1>0, <1>3, NoGrowth DEF GrowHead, Goto, Return, TypeOK, LastFile, FilesInv
<1>4. CASE GrowPage
  BY <1>0, <1>4, NoGrowth DEF GrowPage, Return, TypeOK, LastFile, FilesInv
<1>5. CASE GrowInfo
  BY <1>5, GrowInfoFiles
<1>6. CASE CreateFile
  BY <1>0, <1>6, NoGrowth DEF CreateFile, Goto, TypeOK
<1>7. CASE Pop
  BY <1>7, NoGrowth DEF Pop, UpdateInfo, Return, TypeOK, InfoType
<1>8. CASE FreeInfo
  BY <1>8, NoGrowth DEF FreeInfo, UpdateInfo, Return, TypeOK, InfoType
<1>9. CASE Open
  BY <1>9, NoGrowth DEF Open, image, TypeOK
<1>10. CASE Crash
  BY <1>10, NoGrowth DEF Crash, Return, image, NewInfo, TypeOK
<1>11. CASE \/ PopOpenFails \/ PopRetry \/ Fill \/ FreeRead \/ FreeHead
            \/ AllocGrow \/ AllocPop
  BY <1>11, NoGrowth
     DEF PopOpenFails, PopRetry, Fill, FreeRead, FreeHead, AllocGrow, AllocPop,
         Goto, Return, image, TypeOK
<1>12. CASE \E p \in Pages : FreeCall(p) \/ WritePage(p) \/ Damage(p)
  BY <1>12, NoGrowth DEF FreeCall, WritePage, Damage, image, TypeOK
<1>13. CASE UNCHANGED vars
  BY <1>13, NoGrowth DEF vars, LastFile, FilesInv
<1> QED
  BY <1>1, <1>2, <1>3, <1>4, <1>5, <1>6, <1>7, <1>8, <1>9, <1>10, <1>11, <1>12, <1>13
     DEF Next, Step

\* "Pages are preallocated, no file needs to be created any more" (writepage):
\* whatever fails, and wherever the process dies, the file of a page of the space
\* exists and has its head page.
THEOREM FilesComeFirst == ASSUME Safe PROVE Spec => []FilesPrecedePages
<1>1. Init => FilesInv
  BY SizesAssumption DEF Init, NewInfo, FilesInv, FilesPrecedePages, Pages
<1>2. IInv /\ FilesInv /\ [Next]_vars => FilesInv'
  BY FilesNext
<1>3. FilesInv => FilesPrecedePages
  BY DEF FilesInv
<1> QED
  BY <1>1, <1>2, <1>3, Invariance, PTL DEF Spec

-----------------------------------------------------------------------------
(* The limit on the number of files.                                         *)

\* While pagealloc grows a space there is room for it, and it does not come
\* there from an empty chain without having looked.
CapacityInv ==
    /\ mem.numall <= MaxFiles * FilePages /\ dsk.numall <= MaxFiles * FilePages
    /\ pc \in {"growFile", "growHead", "growPage", "growInfo"} => FileOf(mem.numall) < MaxFiles
    /\ pc = "pop" /\ n = 1 => mem.next # -1

\* A step that makes the space no larger.
LEMMA NoGrowthRoom ==
    ASSUME TypeOK, CapacityInv,
           mem'.numall \in {mem.numall, dsk.numall, 0},
           dsk'.numall \in {mem.numall, dsk.numall},
           pc' \in {"growFile", "growHead", "growPage", "growInfo"} =>
               FileOf(mem'.numall) < MaxFiles,
           pc' = "pop" /\ n' = 1 => mem'.next # -1
    PROVE  CapacityInv'
<1>1. 0 <= MaxFiles * FilePages
  BY SizesAssumption
<1> QED
  BY <1>1 DEF CapacityInv

\* Without damage and failed reads the first free page can be read.
LEMMA PopDoesNotGrow ==
    ASSUME IInv, CapacityInv, ~May("damage"), ~May("readFault"), PopRetry
    PROVE  pc' = "idle"
<1>1. ASSUME n = 1 PROVE FALSE
  <2>1. mem.next # -1 /\ ~Parses(mem.next)
    BY <1>1 DEF CapacityInv, PopRetry
  <2>2. PICK N \in Nat : \E c \in [0 .. N -> Links] : IsChain(head, Busy, mem, N, c)
    BY DEF IInv, Chained
  <2>3. PICK c \in [0 .. N -> Links] : IsChain(head, Busy, mem, N, c)
    BY <2>2
  <2>4. c[0] = -1 /\ c[N] = mem.next
    BY <2>3 DEF IsChain
  <2>5. N \in 1 .. N
    BY <2>1, <2>4
  <2> QED
    BY <2>1, <2>3, <2>4, <2>5 DEF IsChain, Parses
<1> QED
  BY <1>1 DEF PopRetry, Return

\* The pages that are added fit the last file.
LEMMA GrowInfoRoom ==
    ASSUME IInv, FilesInv, CapacityInv, GrowInfo
    PROVE  CapacityInv'
<1> DEFINE m == mem.numall
           q == FileOf(m)
<1>1. /\ m \in Nat /\ m \in m .. m + Grow - 1 /\ m % Grow = 0
      /\ q \in Nat /\ q < MaxFiles
  <2>1. m \in Nat /\ m \in m .. m + Grow - 1 /\ m % Grow = 0
    BY SizesAssumption DEF IInv, TypeOK, InfoType, FilesInv
  <2>2. q \in Nat
    BY <2>1, Division, SizesAssumption DEF FileOf
  <2> QED
    BY <2>1, <2>2 DEF CapacityInv, GrowInfo
<1>2. m + Grow <= (q + 1) * FilePages
  BY <1>1, SameFile
<1>3. (q + 1) * FilePages <= MaxFiles * FilePages
  <2> HIDE DEF q
  <2>1. q + 1 <= MaxFiles
    BY <1>1, SizesAssumption
  <2> QED
    BY <1>1, <2>1, SizesAssumption
<1>4. m + Grow <= MaxFiles * FilePages
  <2> DEFINE x == (q + 1) * FilePages
             y == MaxFiles * FilePages
  <2>1. x \in Int /\ y \in Int /\ m + Grow <= x /\ x <= y
    BY <1>1, <1>2, <1>3, SizesAssumption
  <2> HIDE DEF x, y, q
  <2>2. m + Grow <= y
    BY <1>1, <2>1, SizesAssumption
  <2> QED
    BY <2>2 DEF y
<1>5. /\ mem'.numall = m + Grow
      /\ dsk'.numall \in {m + Grow, dsk.numall}
      /\ pc' = "idle" \/ (pc' = "pop" /\ n' = n)
  <2> DEFINE v == [numall |-> mem.numall + Grow, next |-> mem.numall,
                   nfree |-> mem.nfree + Grow]
  <2>1. PICK saved \in BOOLEAN : /\ UpdateInfo(v, saved)
                                /\ IF saved THEN Goto("pop") ELSE Return
    BY DEF GrowInfo
  <2>2. mem' = v /\ (dsk' = v \/ dsk' = dsk)
    BY <2>1 DEF UpdateInfo
  <2>3. pc' = "idle" \/ (pc' = "pop" /\ n' = n)
    BY <2>1 DEF Goto, Return, call
  <2> QED
    BY <2>2, <2>3
<1>6. n = 0
  BY DEF IInv, CallInv, GrowInfo
<1> HIDE DEF q
<1> QED
  BY <1>4, <1>5, <1>6 DEF CapacityInv

LEMMA CapacityNext ==
    ASSUME IInv, FilesInv, CapacityInv, MaxFiles # 0, ~May("damage"), ~May("readFault"),
           [Next]_vars
    PROVE  CapacityInv'
<1> USE DEF IInv
<1>1. CASE PopRetry
  BY <1>1, PopDoesNotGrow, NoGrowthRoom DEF PopRetry, image
<1>2. CASE GrowInfo
  BY <1>2, GrowInfoRoom
<1>3. CASE Pop
  BY <1>3, NoGrowthRoom DEF Pop, UpdateInfo, Return, TypeOK, InfoType
<1>4. CASE FreeInfo
  BY <1>4, NoGrowthRoom DEF FreeInfo, UpdateInfo, Return, TypeOK, InfoType
<1>5. CASE AllocGrow
  <2>1. FileOf(mem.numall) < MaxFiles
    <3>1. FileOf(mem.numall) \in Nat
      BY Division, SizesAssumption DEF FileOf, TypeOK, InfoType
    <3> QED
      BY <1>5, <3>1, SizesAssumption DEF AllocGrow, Full
  <2> QED
    BY <1>5, <2>1, NoGrowthRoom DEF AllocGrow, image
<1>6. CASE AllocPop
  BY <1>6, NoGrowthRoom DEF AllocPop, image
<1>7. CASE Open
  BY <1>7, NoGrowthRoom DEF Open, image, call
<1>8. CASE Crash
  BY <1>8, NoGrowthRoom DEF Crash, Return, image, NewInfo
<1>9. CASE \/ CreateHead \/ CreateFile \/ PopOpenFails \/ Fill
           \/ GrowFile \/ GrowHead \/ GrowPage \/ FreeRead \/ FreeHead
  BY <1>9, NoGrowthRoom
     DEF CreateHead, CreateFile, PopOpenFails, Fill, GrowFile, GrowHead, GrowPage,
         FreeRead, FreeHead, Goto, Return, image, call, CapacityInv
<1>10. CASE \E p \in Pages : FreeCall(p) \/ WritePage(p) \/ Damage(p)
  BY <1>10, NoGrowthRoom DEF FreeCall, WritePage, Damage, image, call
<1>11. CASE UNCHANGED vars
  BY <1>11, NoGrowthRoom DEF vars, CapacityInv
<1> QED
  BY <1>1, <1>2, <1>3, <1>4, <1>5, <1>6, <1>7, <1>8, <1>9, <1>10, <1>11
     DEF Next, Step

\* Without damaged pages and failed reads the space never has more pages than
\* maxfiles files hold, whatever writes fail: pagealloc looks at the limit before it
\* grows.
THEOREM CapacityKept ==
    ASSUME ~May("damage"), ~May("readFault") PROVE Spec => []Capacity
<1>1. CASE MaxFiles # 0
  <2>1. Init => FilesInv
    BY SizesAssumption DEF Init, NewInfo, FilesInv, FilesPrecedePages, Pages
  <2>2. Init => CapacityInv
    BY SizesAssumption DEF Init, NewInfo, CapacityInv
  <2>3. IInv /\ FilesInv /\ [Next]_vars => FilesInv'
    BY FilesNext
  <2>4. IInv /\ FilesInv /\ CapacityInv /\ [Next]_vars => CapacityInv'
    BY <1>1, CapacityNext
  <2>5. CapacityInv => Capacity
    BY DEF CapacityInv, Capacity
  <2>6. Safe
    BY DEF Safe
  <2> QED
    BY <2>1, <2>2, <2>3, <2>4, <2>5, <2>6, Invariance, PTL DEF Spec
<1>2. CASE MaxFiles = 0
  <2>1. Capacity
    BY <1>2 DEF Capacity
  <2> QED
    BY <2>1, PTL
<1> QED
  BY <1>1, <1>2


-----------------------------------------------------------------------------
(* TableSpace implements PageAllocator: the walk along a chain on the disk   *)
(* is a set of free pages, and every step of a call, every failed write and  *)
(* every crash does to it what the abstract allocator allows.                *)

\* The pages that are free in the abstract allocator.
FreeNow == Reached(head, IF isopen THEN mem.next ELSE dsk.next)

\* The mapping of the refinement, read in a state that satisfies the invariant.
Mapped ==
    /\ FreePages(IF isopen THEN mem.next ELSE dsk.next) = FreeNow
    /\ FreeNow \cap Busy = {}
    /\ FreeNow \subseteq Pages /\ FreeNow \cap held = {}
    /\ Moving = IF pc \in {"fill", "free", "freeHead", "freeInfo"}
                THEN {pgno} \ FreeNow ELSE {}

LEMMA MappedState == IInv => Mapped
<1> SUFFICES ASSUME IInv PROVE Mapped
  OBVIOUS
<1>1. \A info \in {mem, dsk} :
         /\ Reached(head, info.next) \cap Busy = {}
         /\ Reached(head, info.next) \subseteq Pages
  BY ReachedIsFree DEF IInv
<1>2. FreePages(IF isopen THEN mem.next ELSE dsk.next) = FreeNow
  BY Follows DEF FreeNow
<1>3. FreeNow \subseteq Pages /\ FreeNow \cap held = {}
  BY <1>1 DEF FreeNow, Busy
<1>5. FreeNow \cap Busy = {}
  BY <1>1 DEF FreeNow
<1>4. Moving = IF pc \in {"fill", "free", "freeHead", "freeInfo"}
               THEN {pgno} \ FreeNow ELSE {}
  BY Follows DEF Moving, FreeNow, IInv, CallInv
<1> QED
  BY <1>2, <1>3, <1>4, <1>5 DEF Mapped

LEMMA MappedNext == (IInv => Mapped)'
<1>1. IInv => Mapped
  BY MappedState
<1> QED
  BY <1>1, PTL

\* A step that changes the heads of pages in use or outside the space only, and
\* neither the entry of the chain nor whether the space is open.
LEMMA SameFree ==
    ASSUME IInv, isopen, isopen',
           mem'.next = mem.next,
           \A p \in Pages : p < mem.numall /\ p \notin Busy => head'[p] = head[p]
    PROVE  FreeNow' = FreeNow
<1> DEFINE h2 == head'
           busy == Busy
<1>1. Chained(head, busy, mem)
  BY DEF IInv
<1>2. \A p \in Pages : p < mem.numall /\ p \notin busy => h2[p] = head[p] /\ p \notin busy
  OBVIOUS
<1>3. Reached(h2, mem.next) = Reached(head, mem.next)
  <2> HIDE DEF h2, busy
  <2> QED
    BY <1>1, <1>2, ChainFrame
<1> QED
  BY <1>3 DEF FreeNow

-----------------------------------------------------------------------------
(* One lemma per action: the step of the allocator it is.                    *)

Idle(label) == label \notin {"fill", "free", "freeHead", "freeInfo"}

\* A step that changes nothing the allocator has.
LEMMA Stutters ==
    ASSUME IInv, IInv', held' = held, isopen' = isopen, FreeNow' = FreeNow,
           (Idle(pc) /\ Idle(pc')) \/ (~Idle(pc) /\ ~Idle(pc') /\ pgno' = pgno)
    PROVE  UNCHANGED Allocator!avars
<1>1. Mapped /\ Mapped'
  BY MappedState, MappedNext
<1> QED
  BY <1>1 DEF Mapped, Idle, Allocator!avars

\* Steps that touch neither heads nor information.
LEMMA QuietStep ==
    ASSUME IInv, IInv', UNCHANGED <<head, dsk, mem, isopen, held>>,
           (Idle(pc) /\ Idle(pc')) \/ (~Idle(pc) /\ ~Idle(pc') /\ pgno' = pgno)
    PROVE  UNCHANGED Allocator!avars
<1>1. FreeNow' = FreeNow
  BY DEF FreeNow
<1> QED
  BY <1>1, Stutters

LEMMA CreateHeadStep ==
    ASSUME IInv, IInv', CreateHead
    PROVE  Allocator!Start \/ UNCHANGED Allocator!avars
<1> USE DEF CreateHead, Return
<1>1. Idle(pc) /\ Idle(pc')
  BY DEF Idle
<1>2. CASE UNCHANGED <<file, dsk, isopen>>
  BY <1>1, <1>2, QuietStep
<1>3. CASE isopen' = TRUE
  <2>1. ~isopen /\ dsk = mem /\ mem' = mem /\ head' = head /\ held' = held
    BY DEF IInv, CallInv, SaveInv
  <2>2. FreeNow' = FreeNow
    BY <1>3, <2>1 DEF FreeNow
  <2> QED
    BY <1>1, <1>3, <2>1, <2>2, MappedState, MappedNext DEF Mapped, Idle, Allocator!Start
<1> QED
  BY <1>2, <1>3

LEMMA OpenStep ==
    ASSUME IInv, IInv', Open
    PROVE  Allocator!Start
<1>1. FreeNow' = FreeNow
  BY DEF FreeNow, Open, image
<1> QED
  BY <1>1, MappedState, MappedNext DEF Mapped, Idle, Open, image, Allocator!Start

\* The entry goes to the call, or is dropped when updateinfo fails.
LEMMA PopStep ==
    ASSUME IInv, IInv', Pop
    PROVE  \E p \in Pages : Allocator!Reserve(p) \/ Allocator!Drop(p)
<1> DEFINE p == mem.next
<1>1. /\ p \in Pages /\ head[p] # NotFree /\ pc = "pop" /\ head' = head
      /\ held' = held /\ isopen' = isopen /\ isopen /\ mem \in InfoType
  BY DEF Pop, Parses, IInv, CallInv, TypeOK
<1>2. p \in Reached(head, p) /\ Reached(head, head[p]) = Reached(head, p) \ {p}
  BY <1>1, ChainPop DEF IInv
<1>3. mem'.next = head[p]
  BY <1>1 DEF Pop, UpdateInfo, InfoType
<1>4. p \in FreeNow /\ FreeNow' = FreeNow \ {p}
  BY <1>1, <1>2, <1>3 DEF FreeNow
<1>5. Mapped /\ Mapped'
  BY MappedState, MappedNext
<1>6. CASE pc' = "fill" /\ pgno' = p
  <2>1. Allocator!Reserve(p)
    BY <1>1, <1>4, <1>5, <1>6 DEF Mapped, Allocator!Reserve
  <2> QED
    BY <1>1, <2>1
<1>7. CASE pc' = "idle"
  <2>1. Allocator!Drop(p)
    BY <1>1, <1>4, <1>5, <1>7 DEF Mapped, Allocator!Drop
  <2> QED
    BY <1>1, <2>1
<1> QED
  BY <1>6, <1>7 DEF Pop, Return

LEMMA FillStep ==
    ASSUME IInv, IInv', Fill
    PROVE  Allocator!Grant
<1>1. /\ pc = "fill" /\ pc' = "idle" /\ isopen /\ isopen' /\ mem' = mem
      /\ held' = held \cup {pgno} /\ pgno \in Busy /\ isopen' = isopen
      /\ \A p \in Pages : p < mem.numall /\ p \notin Busy => head'[p] = head[p]
  BY DEF Fill, Return, IInv, CallInv, TypeOK, Busy
<1>2. FreeNow' = FreeNow
  BY <1>1, SameFree
<1>3. Mapped /\ Mapped'
  BY MappedState, MappedNext
<1>4. Moving = {pgno} /\ Moving' = {}
  BY <1>1, <1>3 DEF Mapped
<1> QED
  BY <1>1, <1>2, <1>3, <1>4 DEF Mapped, Allocator!Grant

LEMMA GrowPageStep ==
    ASSUME IInv, IInv', GrowPage
    PROVE  UNCHANGED Allocator!avars
<1>1. /\ Idle(pc) /\ Idle(pc') /\ isopen /\ isopen' /\ mem' = mem /\ held' = held
      /\ isopen' = isopen
  BY DEF GrowPage, Return, IInv, CallInv, Idle
<1>2. \A p \in Pages : p < mem.numall => head'[p] = head[p]
  BY DEF GrowPage, Return, IInv, TypeOK, InfoType, Pages
<1>3. FreeNow' = FreeNow
  BY <1>1, <1>2, SameFree
<1> QED
  BY <1>1, <1>3, Stutters

\* The pages that were added are free, and lie outside the space as it was.
LEMMA GrowInfoFree ==
    ASSUME IInv, GrowInfo
    PROVE  /\ FreeNow' = FreeNow \cup (mem.numall .. mem.numall + Grow - 1)
           /\ (mem.numall .. mem.numall + Grow - 1) \subseteq Pages \ held
<1> DEFINE m == mem.numall
           S == m .. m + Grow - 1
<1>1. /\ pc = "growInfo" /\ pc' \in {"idle", "pop"} /\ isopen /\ isopen' = isopen
      /\ head' = head /\ held' = held /\ mem'.next = m /\ mem \in InfoType
  BY DEF GrowInfo, UpdateInfo, Goto, Return, IInv, CallInv, TypeOK
<1>2. i = Grow /\ m \in Nat /\ m + Grow <= PageLimit
  BY <1>1, SizesAssumption DEF IInv, TypeOK, GrowLoop, InfoType
<1>3. \A p \in Busy : p < m
  BY <1>1, <1>2 DEF IInv, SaveInv, TypeOK, InfoType, Busy, Pages
<1>4. \A k \in 0 .. Grow - 1 : head[m + k] = IF k + 1 = Grow THEN mem.next ELSE m + k + 1
  BY <1>1, <1>2 DEF IInv, GrowLoop
<1>5. Reached(head, m) = Reached(head, mem.next) \cup S
  BY <1>1, <1>2, <1>3, <1>4, ChainGrow DEF IInv
<1>6. FreeNow' = FreeNow \cup S
  BY <1>1, <1>5 DEF FreeNow
<1>7. S \subseteq Pages \ held
  BY <1>2, <1>3, SizesAssumption DEF Pages, Busy
<1> QED
  BY <1>6, <1>7

LEMMA GrowInfoStep ==
    ASSUME IInv, IInv', GrowInfo
    PROVE  \E S \in SUBSET Pages : Allocator!Extend(S)
<1> DEFINE S == mem.numall .. mem.numall + Grow - 1
<1>1. FreeNow' = FreeNow \cup S /\ S \subseteq Pages \ held
  BY GrowInfoFree
<1>2. /\ pc = "growInfo" /\ pc' \in {"idle", "pop"} /\ isopen /\ isopen' = isopen
      /\ held' = held
  BY DEF GrowInfo, Goto, Return, IInv, CallInv, TypeOK
<1>3. S \in SUBSET Pages /\ S \cap held = {}
  BY <1>1
<1> HIDE DEF S
<1>4. Allocator!Extend(S)
  BY <1>1, <1>2, <1>3, MappedState, MappedNext DEF Mapped, Allocator!Extend
<1> QED
  BY <1>3, <1>4

LEMMA FreeCallStep ==
    ASSUME IInv, IInv', NEW p \in Pages, FreeCall(p)
    PROVE  Allocator!Release(p)
<1>1. FreeNow' = FreeNow
  BY DEF FreeNow, FreeCall, image
<1> QED
  BY <1>1, MappedState, MappedNext DEF Mapped, FreeCall, Allocator!Release

\* The page is kept for freeHead, or the call ends and the page is nobody's.
LEMMA FreeReadStep ==
    ASSUME IInv, IInv', FreeRead
    PROVE  Allocator!Lose \/ UNCHANGED Allocator!avars
<1>1. /\ pc = "free" /\ isopen /\ isopen' = isopen /\ held' = held
      /\ UNCHANGED <<head, dsk, mem>>
  BY DEF FreeRead, image, IInv, CallInv
<1>2. CASE pc' = "freeHead" /\ pgno' = pgno
  BY <1>1, <1>2, QuietStep DEF Idle
<1>3. CASE pc' = "idle"
  <2>1. FreeNow' = FreeNow
    BY <1>1 DEF FreeNow
  <2> QED
    BY <1>1, <1>3, <2>1, MappedState, MappedNext DEF Mapped, Allocator!Lose
<1> QED
  BY <1>2, <1>3 DEF FreeRead, Goto, Return, call

LEMMA FreeHeadStep ==
    ASSUME IInv, IInv', FreeHead
    PROVE  Allocator!Lose \/ UNCHANGED Allocator!avars
<1>1. /\ pc = "freeHead" /\ isopen /\ isopen' = isopen /\ held' = held /\ mem' = mem
      /\ pgno \in Busy
      /\ \A p \in Pages : p < mem.numall /\ p \notin Busy => head'[p] = head[p]
  BY DEF FreeHead, IInv, CallInv, TypeOK, Busy
<1>2. FreeNow' = FreeNow
  BY <1>1, SameFree
<1>3. CASE pc' = "freeInfo" /\ pgno' = pgno
  BY <1>1, <1>2, <1>3, Stutters DEF Idle
<1>4. CASE pc' = "idle"
  BY <1>1, <1>2, <1>4, MappedState, MappedNext DEF Mapped, Allocator!Lose
<1> QED
  BY <1>3, <1>4 DEF FreeHead, Goto, Return, call

LEMMA FreeInfoStep ==
    ASSUME IInv, IInv', FreeInfo
    PROVE  Allocator!Recycle
<1> DEFINE p == pgno
<1>1. /\ pc = "freeInfo" /\ pc' = "idle" /\ isopen /\ isopen' = isopen
      /\ held' = held /\ head' = head /\ mem \in InfoType /\ p \in Pages
      /\ p \in Busy /\ p < mem.numall /\ head[p] = mem.next /\ mem'.next = p
  BY DEF FreeInfo, UpdateInfo, Return, IInv, CallInv, TypeOK, InfoType, Busy
<1>2. Reached(head, p) = Reached(head, mem.next) \cup {p}
  <2>1. /\ mem \in InfoType /\ p \in Pages /\ p \in Busy
        /\ p < mem.numall /\ p \notin held /\ held \subseteq Busy
        /\ head[p] = mem.next /\ Chained(head, Busy, mem)
    BY <1>1 DEF IInv, CallInv, Busy
  <2>2. /\ Chained(head, held, [mem EXCEPT !.next = p, !.nfree = @ + 1])
        /\ OneMore(head, p, mem.next)
    BY <2>1, ChainPush
  <2> QED
    BY <2>2 DEF OneMore
<1>3. FreeNow' = FreeNow \cup {p}
  BY <1>1, <1>2 DEF FreeNow
<1>4. Mapped /\ Mapped'
  BY MappedState, MappedNext
<1>5. Moving = {p} /\ Moving' = {}
  BY <1>1, <1>4 DEF Mapped
<1> QED
  BY <1>1, <1>3, <1>4, <1>5 DEF Mapped, Allocator!Recycle

LEMMA WritePageStep ==
    ASSUME IInv, IInv', NEW p \in Pages, WritePage(p)
    PROVE  UNCHANGED Allocator!avars
<1>1. /\ Idle(pc) /\ Idle(pc') /\ isopen /\ isopen' = isopen /\ mem' = mem
      /\ held' = held /\ p \in Busy
      /\ \A q \in Pages : q < mem.numall /\ q \notin Busy => head'[q] = head[q]
  BY DEF WritePage, IInv, TypeOK, Idle, Busy
<1>2. FreeNow' = FreeNow
  BY <1>1, SameFree
<1> QED
  BY <1>1, <1>2, Stutters

LEMMA DamageStep ==
    ASSUME IInv, IInv', NEW p \in Pages, Damage(p)
    PROVE  \E S \in SUBSET Pages : Allocator!Shrink(S)
<1>1. /\ pc = "idle" /\ pc' = "idle" /\ isopen /\ isopen' = isopen /\ mem' = mem
      /\ held' = held /\ p \notin Busy /\ May("damage")
      /\ head' = [head EXCEPT ![p] = NotFree]
      /\ head \in [Pages -> Links \cup {NotFree}] /\ mem \in InfoType
  BY DEF Damage, IInv, TypeOK, Busy
<1>2. Reached(head', mem.next) \subseteq Reached(head, mem.next)
  BY <1>1, ChainCut DEF IInv
<1>3. FreeNow' \subseteq FreeNow
  BY <1>1, <1>2 DEF FreeNow
<1>4. Mapped /\ Mapped'
  BY MappedState, MappedNext
<1> DEFINE S == FreeNow \ FreeNow'
<1>5. S \in SUBSET Pages /\ FreeNow' = FreeNow \ S
  BY <1>3, <1>4 DEF Mapped
<1>6. Allocator!Shrink(S)
  <2> HIDE DEF S
  <2> QED
    BY <1>1, <1>4, <1>5 DEF Mapped, Allocator!Shrink
<1> QED
  BY <1>5, <1>6

LEMMA CrashStep ==
    ASSUME IInv, IInv', Crash
    PROVE  (\E S \in SUBSET Pages : Allocator!Stop(S)) \/ UNCHANGED Allocator!avars
<1>1. Mapped /\ Mapped'
  BY MappedState, MappedNext
<1>2. /\ pc' = "idle" /\ isopen' = FALSE /\ held' = held
      /\ head' = head /\ dsk' = dsk
  BY DEF Crash, Return, image
<1>3. CASE isopen
  <2>1. FreeNow' \in SUBSET Pages
    BY <1>1 DEF Mapped
  <2>2. Allocator!Stop(FreeNow')
    BY <1>1, <1>2, <1>3 DEF Mapped, Allocator!Stop
  <2> QED
    BY <2>1, <2>2
<1>4. CASE ~isopen
  <2>1. Idle(pc) /\ Idle(pc')
    BY <1>2, <1>4 DEF IInv, CallInv, TypeOK, Idle
  <2>2. FreeNow' = FreeNow /\ isopen' = isopen
    BY <1>2, <1>4 DEF FreeNow, IInv, TypeOK
  <2> QED
    BY <1>2, <2>1, <2>2, Stutters
<1> QED
  BY <1>3, <1>4

\* Every step of the table space is a step of the allocator or none.
LEMMA StepSimulates ==
    ASSUME IInv, IInv', [Next]_vars
    PROVE  [Allocator!Next]_Allocator!avars
<1> USE DEF Allocator!Next
<1>1. CASE CreateHead
  BY <1>1, CreateHeadStep
<1>2. CASE Open
  BY <1>2, OpenStep
<1>3. CASE Pop
  BY <1>3, PopStep
<1>4. CASE Fill
  BY <1>4, FillStep
<1>5. CASE GrowPage
  BY <1>5, GrowPageStep
<1>6. CASE GrowInfo
  BY <1>6, GrowInfoStep
<1>7. CASE FreeRead
  BY <1>7, FreeReadStep
<1>8. CASE FreeHead
  BY <1>8, FreeHeadStep
<1>9. CASE FreeInfo
  BY <1>9, FreeInfoStep
<1>10. ASSUME NEW p \in Pages, FreeCall(p) PROVE [Allocator!Next]_Allocator!avars
  BY <1>10, FreeCallStep
<1>11. ASSUME NEW p \in Pages, WritePage(p) PROVE [Allocator!Next]_Allocator!avars
  BY <1>11, WritePageStep
<1>12. ASSUME NEW p \in Pages, Damage(p) PROVE [Allocator!Next]_Allocator!avars
  BY <1>12, DamageStep
<1>13. CASE Crash
  BY <1>13, CrashStep
<1>14. CASE \/ PopOpenFails \/ PopRetry \/ GrowFile \/ GrowHead
            \/ CreateFile \/ AllocGrow \/ AllocPop
  <2>1. Idle(pc) /\ Idle(pc') /\ UNCHANGED <<head, dsk, mem, isopen, held>>
    BY <1>14 DEF PopOpenFails, PopRetry, GrowFile, GrowHead, CreateFile, AllocGrow,
                 AllocPop, Goto, Return, image, Idle
  <2> QED
    BY <2>1, QuietStep
<1>15. CASE UNCHANGED vars
  BY <1>15, QuietStep DEF vars, Idle
<1> QED
  BY <1>1, <1>2, <1>3, <1>4, <1>5, <1>6, <1>7, <1>8, <1>9, <1>10, <1>11, <1>12,
     <1>13, <1>14, <1>15
     DEF Next, Step

-----------------------------------------------------------------------------
(* What a step may lose.                                                     *)

Size == IF isopen THEN mem.numall ELSE dsk.numall

LostNow == {p \in Pages : p < Size} \ (held \cup FreeNow)

LEMMA LostIs == IInv => Lost = LostNow
<1> SUFFICES ASSUME IInv PROVE Lost = LostNow
  OBVIOUS
<1>1. Mapped
  BY MappedState
<1>2. CASE isopen
  BY <1>1, <1>2 DEF Mapped, Lost, LostNow, Size
<1>3. CASE ~isopen
  BY <1>1, <1>3 DEF Mapped, Lost, LostNow, Size
<1> QED
  BY <1>2, <1>3

LEMMA LostIsNext == (IInv => Lost = LostNow)'
<1>1. IInv => Lost = LostNow
  BY LostIs
<1> QED
  BY <1>1, PTL

\* Without damage a step in an open space loses no page but the one that a call
\* takes from the chain or from its owner.
LEMMA LosesOne ==
    ASSUME IInv, IInv', ~May("damage"), [Next]_vars, isopen'
    PROVE  \E x : LostNow' \ LostNow \subseteq {x}
<1>1. Mapped /\ Mapped'
  BY MappedState, MappedNext
<1>2. ASSUME UNCHANGED Allocator!avars, Size' = Size
      PROVE  \E x : LostNow' \ LostNow \subseteq {x}
  BY <1>1, <1>2 DEF Mapped, LostNow, Allocator!avars
<1>3. ASSUME NEW p \in Pages, Size' = Size,
             Allocator!Reserve(p) \/ Allocator!Drop(p) \/ Allocator!Release(p)
      PROVE  \E x : LostNow' \ LostNow \subseteq {x}
  <2>1. LostNow' \ LostNow \subseteq {p}
    BY <1>1, <1>3
       DEF Mapped, LostNow, Allocator!Reserve, Allocator!Drop, Allocator!Release
  <2> QED
    BY <2>1
<1>4. ASSUME Allocator!Start \/ Allocator!Grant \/ Allocator!Recycle \/ Allocator!Lose,
             Size' = Size
      PROVE  \E x : LostNow' \ LostNow \subseteq {x}
  <2>1. LostNow' \ LostNow = {}
    BY <1>1, <1>4
       DEF Mapped, LostNow, Allocator!Start, Allocator!Grant, Allocator!Recycle,
           Allocator!Lose
  <2> QED
    BY <2>1
<1> USE DEF Size
<1>5. CASE CreateHead
  <2>1. Size' = Size
    BY <1>5 DEF CreateHead, IInv, CallInv, SaveInv, TypeOK
  <2> QED
    BY <1>2, <1>4, <1>5, <2>1, CreateHeadStep
<1>6. CASE Open
  BY <1>4, <1>6, OpenStep DEF Open, image
<1>7. CASE Pop
  <2>1. Size' = Size
    BY <1>7 DEF Pop, UpdateInfo, IInv, CallInv, TypeOK, InfoType
  <2> QED
    BY <1>3, <1>7, <2>1, PopStep
<1>8. CASE Fill
  BY <1>4, <1>8, FillStep DEF Fill
<1>9. CASE GrowPage
  BY <1>2, <1>9, GrowPageStep DEF GrowPage
<1>10. CASE GrowInfo
  <2>1. LostNow' \ LostNow = {}
    <3> DEFINE m == mem.numall
    <3>1. /\ isopen /\ isopen' /\ held' = held /\ m \in Nat
          /\ mem'.numall = m + Grow /\ Grow \in Nat
          /\ FreeNow' = FreeNow \cup (m .. m + Grow - 1)
      BY <1>10, GrowInfoFree, SizesAssumption
         DEF GrowInfo, UpdateInfo, IInv, CallInv, TypeOK, InfoType
    <3> QED
      BY <3>1 DEF LostNow, Pages
  <2> QED
    BY <2>1
<1>11. CASE FreeRead
  BY <1>2, <1>4, <1>11, FreeReadStep DEF FreeRead, image
<1>12. CASE FreeHead
  BY <1>2, <1>4, <1>12, FreeHeadStep DEF FreeHead
<1>13. CASE FreeInfo
  <2>1. Size' = Size
    BY <1>13 DEF FreeInfo, UpdateInfo, IInv, CallInv, TypeOK, InfoType
  <2> QED
    BY <1>4, <1>13, <2>1, FreeInfoStep
<1>14. CASE \E p \in Pages : FreeCall(p)
  BY <1>3, <1>14, FreeCallStep DEF FreeCall, image
<1>15. CASE \E p \in Pages : WritePage(p)
  BY <1>2, <1>15, WritePageStep DEF WritePage
<1>16. CASE \/ PopOpenFails \/ PopRetry \/ GrowFile \/ GrowHead
            \/ CreateFile \/ AllocGrow \/ AllocPop \/ UNCHANGED vars
  <2>1. UNCHANGED <<head, dsk, mem, isopen, held>>
    BY <1>16 DEF PopOpenFails, PopRetry, GrowFile, GrowHead, CreateFile, AllocGrow,
                 AllocPop, Goto, Return, image, vars
  <2>2. LostNow' = LostNow
    BY <2>1 DEF LostNow, FreeNow
  <2> QED
    BY <2>2
<1> QED
  BY <1>5, <1>6, <1>7, <1>8, <1>9, <1>10, <1>11, <1>12, <1>13, <1>14, <1>15, <1>16
     DEF Next, Step, Crash, Damage

-----------------------------------------------------------------------------
(* The theorems.                                                             *)

\* The table space of ec_tbs.h, with its chain on the disk, its saved information,
\* failing reads and writes and a crash after any write, implements the allocator
\* that has neither: no page is ever free and owned, or owned twice.
THEOREM Implements == ASSUME Safe PROVE Spec => AllocatorSpec
<1>1. Init => Allocator!Init
  <2> SUFFICES ASSUME Init PROVE Allocator!Init
    OBVIOUS
  <2>1. IInv /\ Mapped
    BY InitInv, MappedState
  <2>2. FreeNow = {}
    BY ChainNew DEF FreeNow, Init
  <2> QED
    BY <2>1, <2>2 DEF Init, Mapped, Allocator!Init
<1>2. IInv /\ IInv' /\ [Next]_vars => [Allocator!Next]_Allocator!avars
  BY StepSimulates
<1> QED
  BY <1>1, <1>2, Invariance, PTL DEF Spec, AllocatorSpec, Allocator!Spec

\* Without damaged page heads: a call that moves a page and returns has not lost
\* it, a step loses no more than the page it moves, and a crash loses nothing that
\* was saved (pagealloc, pagefree, and what Open finds afterwards).
THEOREM NothingElseLost ==
    ASSUME Safe, ~May("damage") PROVE Spec => PagesAccounted
<1>1. ASSUME IInv, IInv', [Next]_vars
      PROVE  /\ pc \in {"fill", "freeInfo"} /\ pc' = "idle" /\ isopen' => pgno \notin Lost'
             /\ isopen' => Cardinality(Lost' \ Lost) <= 1
             /\ isopen /\ ~isopen' /\ mem = dsk => Lost' \subseteq Lost
  <2>0. Lost = LostNow /\ Lost' = LostNow' /\ Mapped /\ Mapped'
    BY <1>1, LostIs, LostIsNext, MappedState, MappedNext
  <2>1. ASSUME pc \in {"fill", "freeInfo"}, pc' = "idle", isopen'
        PROVE  pgno \notin LostNow'
    <3>1. CASE Fill
      BY <3>1 DEF Fill, LostNow
    <3>2. CASE FreeInfo
      <4>1. Allocator!Recycle
        BY <1>1, <3>2, FreeInfoStep
      <4>2. Moving = {pgno}
        BY <2>0, <3>2 DEF Mapped, FreeInfo, Busy
      <4> QED
        BY <2>0, <4>1, <4>2 DEF Mapped, LostNow, Allocator!Recycle
    <3>3. Fill \/ FreeInfo
      BY <1>1, <2>1
         DEF Next, Step, CreateHead, PopOpenFails, PopRetry, Pop, GrowFile, GrowHead,
             GrowPage, GrowInfo, FreeRead, FreeHead, CreateFile, Open, AllocGrow,
             AllocPop, FreeCall, WritePage, Damage, Crash, vars
    <3> QED
      BY <3>1, <3>2, <3>3
  <2>2. ASSUME isopen' PROVE Cardinality(LostNow' \ LostNow) <= 1
    <3>1. PICK x : LostNow' \ LostNow \subseteq {x}
      BY <1>1, <2>2, LosesOne
    <3> DEFINE D == LostNow' \ LostNow
    <3>2. IsFiniteSet({x}) /\ Cardinality({x}) = 1
      BY FS_Singleton
    <3>3. D \in SUBSET {x}
      BY <3>1
    <3> HIDE DEF D
    <3>4. Cardinality(D) <= 1
      BY <3>2, <3>3, FS_Subset
    <3> QED
      BY <3>4 DEF D
  <2>3. ASSUME isopen, ~isopen', mem = dsk PROVE LostNow' \subseteq LostNow
    <3>1. Crash
      BY <1>1, <2>3
         DEF Next, Step, CreateHead, PopOpenFails, PopRetry, Pop, Fill, GrowFile,
             GrowHead, GrowPage, GrowInfo, FreeRead, FreeHead, FreeInfo, CreateFile,
             Open, AllocGrow, AllocPop, FreeCall, WritePage, Damage, vars
    <3> QED
      BY <2>3, <3>1 DEF Crash, image, LostNow, FreeNow, Size
  <2> QED
    BY <2>0, <2>1, <2>2, <2>3
<1> QED
  BY <1>1, Invariance, PTL DEF Spec, PagesAccounted
=============================================================================
