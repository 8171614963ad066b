---------------------------- MODULE PageCacheProofs ----------------------------
(***************************************************************************)
(* The list of PageCache is sound, FlushAll saves what it holds, and the   *)
(* cache implements WriteBackStore, for every number of nodes and pages.   *)
(***************************************************************************)
EXTENDS PageCache, TLAPS, FiniteSetTheorems, WellFoundedInduction

Allocated == { x \in Nodes : pgno[x] # Null }

\* c[1], ..., c[N] are the nodes of S, each once, linked by nx from the head h
\* on; the last one is followed by Null.  A node need not know the one before
\* it: pr is Null where the node was the head when another one moved there.
IsPath(h, nx, pr, S, N, c) ==
    /\ c[1] = h /\ c[N + 1] = Null
    /\ S = { c[i] : i \in 1 .. N }
    /\ \A i \in 1 .. N : c[i] \in Nodes /\ nx[c[i]] = c[i + 1]
    /\ \A i, j \in 1 .. N : c[i] = c[j] => i = j
    /\ \A i \in 1 .. N : pr[c[i]] # Null => i > 1 /\ pr[c[i]] = c[i - 1]

Path(h, nx, pr, S) ==
    \E N \in 0 .. Size : \E c \in [1 .. N + 1 -> Nodes \cup {Null}] :
        IsPath(h, nx, pr, S, N, c)

OnePerPage == \A x, y \in Allocated : pgno[x] = pgno[y] => x = y

\* What a node holds beyond the changed part is what is on disk.
CleanPart ==
    \A x \in Allocated : \A k \in 1 .. Parts :
        k > updated[x] => page[x][k] = disk[pgno[x]][k]

Inv ==
    /\ TypeOK
    /\ Path(phead, pnext, pprev, Allocated)
    /\ OnePerPage
    /\ CleanPart

-----------------------------------------------------------------------------
(* Paths.                                                                    *)

\* A set that contains 0 and the successor of each of its elements contains
\* every natural number.
LEMMA Counting ==
    ASSUME NEW T \in SUBSET Nat, 0 \in T, \A k \in T : k + 1 \in T
    PROVE  T = Nat
<1> DEFINE R == { ss \in Nat \X Nat : ss[1] < ss[2] }
<1>1. IsWellFoundedOn(R, Nat)
  BY NatLessThanWellFounded DEF OpToRel
<1> HIDE DEF R
<1>2. SUFFICES ASSUME Nat \ T # {} PROVE FALSE
  OBVIOUS
<1>3. PICK k \in Nat \ T : \A j \in Nat \ T : <<j, k>> \notin R
  BY <1>1, <1>2, WFMin
<1>4. k - 1 \in Nat \ T /\ <<k - 1, k>> \in R
  BY <1>3 DEF R
<1> QED
  BY <1>3, <1>4

\* There are Size nodes.
LEMMA NodesFinite == IsFiniteSet(Nodes) /\ Cardinality(Nodes) = Size
<1>1. Size \in Nat /\ Size >= 1
  BY CacheAssumption
<1> QED
  BY <1>1, FS_Interval DEF Nodes

\* A path has as many nodes as numbers.
LEMMA PathLength ==
    ASSUME NEW h, NEW nx, NEW pr, NEW S, NEW N \in Nat,
           NEW c \in [1 .. N + 1 -> Nodes \cup {Null}],
           IsPath(h, nx, pr, S, N, c)
    PROVE  /\ IsFiniteSet(S) /\ S \subseteq Nodes
           /\ Cardinality(S) = N
           /\ N <= Size
<1> DEFINE f == [i \in 1 .. N |-> c[i]]
<1>1. f \in Injection(1 .. N, S) /\ f \in Surjection(1 .. N, S)
  BY DEF IsPath, Injection, IsInjective, Surjection
<1>2. S \subseteq Nodes
  BY DEF IsPath
<1>3. IsFiniteSet(1 .. N) /\ Cardinality(1 .. N) = N
  BY FS_Interval
<1> HIDE DEF f
<1>4. IsFiniteSet(S) /\ Cardinality(S) = N
  BY <1>1, <1>3, FS_Surjection
<1>5. Cardinality(S) <= Cardinality(Nodes)
  BY <1>2, NodesFinite, FS_Subset
<1> QED
  BY <1>2, <1>4, <1>5, NodesFinite

\* A node put before the head of a path that some node is not on.
LEMMA PutFirst ==
    ASSUME NEW h, NEW nx, NEW pr, NEW S, Path(h, nx, pr, S),
           NEW x \in Nodes, x \notin S,
           NEW nx2, NEW pr2,
           nx2[x] = h, pr2[x] = Null,
           \A y \in Nodes \ {x} :
               nx2[y] = nx[y] /\ (pr2[y] = pr[y] \/ (y = h /\ pr2[y] = x))
    PROVE  Path(x, nx2, pr2, S \cup {x})
<1>0. PICK N \in 0 .. Size : \E c \in [1 .. N + 1 -> Nodes \cup {Null}] :
        IsPath(h, nx, pr, S, N, c)
  BY DEF Path
<1>1. PICK c \in [1 .. N + 1 -> Nodes \cup {Null}] : IsPath(h, nx, pr, S, N, c)
  BY <1>0
<1> USE CacheAssumption DEF Nodes
<1> DEFINE d == [i \in 1 .. N + 2 |-> IF i = 1 THEN x ELSE c[i - 1]]
<1>2. N + 1 \in 0 .. Size
  <2>1. IsFiniteSet(S) /\ Cardinality(S) = N /\ S \subseteq Nodes
    BY <1>1, PathLength
  <2>2. Cardinality(S \cup {x}) = N + 1
    BY <2>1, FS_AddElement
  <2>3. S \cup {x} \subseteq Nodes
    BY <2>1
  <2>4. Cardinality(S \cup {x}) <= Size
    <3> HIDE DEF Nodes
    <3> QED
      BY <2>3, NodesFinite, FS_Subset
  <2> QED
    BY <2>2, <2>4
<1>3. /\ d \in [1 .. (N + 1) + 1 -> Nodes \cup {Null}]
      /\ d[1] = x
      /\ \A i \in 1 .. N + 1 : d[i + 1] = c[i]
  BY <1>1
<1> HIDE DEF d
<1>4. \A i \in 2 .. N + 1 : i - 1 \in 1 .. N /\ d[i] = c[i - 1]
  <2> TAKE i \in 2 .. N + 1
  <2>1. i - 1 \in 1 .. N /\ (i - 1) + 1 = i
    OBVIOUS
  <2> QED
    BY <2>1, <1>3
<1>5. \A i \in 1 .. N : c[i] \in Nodes \ {x}
  BY <1>1 DEF IsPath
<1>6. IsPath(x, nx2, pr2, S \cup {x}, N + 1, d)
  <2>1. d[1] = x /\ d[(N + 1) + 1] = Null
    BY <1>1, <1>3 DEF IsPath
  <2>2. S \cup {x} = { d[i] : i \in 1 .. N + 1 }
    <3>1. ASSUME NEW i \in 1 .. N + 1 PROVE d[i] \in S \cup {x}
      BY <1>1, <1>3, <1>4 DEF IsPath
    <3>2. ASSUME NEW y \in S PROVE \E i \in 1 .. N + 1 : d[i] = y
      <4>1. PICK i \in 1 .. N : y = c[i]
        BY <1>1 DEF IsPath
      <4>2. i + 1 \in 1 .. N + 1 /\ d[i + 1] = y
        BY <4>1, <1>3
      <4> QED
        BY <4>2
    <3>3. 1 \in 1 .. N + 1
      OBVIOUS
    <3> QED
      BY <3>1, <3>2, <3>3, <1>3
  <2>3. ASSUME NEW i \in 1 .. N + 1 PROVE d[i] \in Nodes /\ nx2[d[i]] = d[i + 1]
    <3>1. CASE i = 1
      BY <3>1, <1>1, <1>3 DEF IsPath
    <3>2. CASE i \in 2 .. N + 1
      <4>1. i - 1 \in 1 .. N /\ (i - 1) + 1 = i /\ d[i] = c[i - 1]
        BY <3>2, <1>4
      <4>2. c[i - 1] \in Nodes \ {x} /\ nx[c[i - 1]] = c[i]
        BY <4>1, <1>1, <1>5 DEF IsPath
      <4> QED
        BY <4>1, <4>2, <1>3
    <3> QED
      BY <3>1, <3>2
  <2>4. ASSUME NEW i \in 1 .. N + 1, NEW j \in 1 .. N + 1, d[i] = d[j] PROVE i = j
    <3>1. CASE i \in 2 .. N + 1 /\ j \in 2 .. N + 1
      BY <3>1, <2>4, <1>1, <1>4 DEF IsPath
    <3>2. CASE i = 1 \/ j = 1
      BY <3>2, <2>4, <1>3, <1>4, <1>5
    <3> QED
      BY <3>1, <3>2
  <2>5. ASSUME NEW i \in 1 .. N + 1, pr2[d[i]] # Null
        PROVE  i > 1 /\ pr2[d[i]] = d[i - 1]
    <3>1. i \in 2 .. N + 1
      BY <2>5, <1>3
    <3>2. CASE pr2[d[i]] = pr[d[i]]
      <4>1. i - 1 > 1 /\ pr[d[i]] = c[(i - 1) - 1]
        BY <3>1, <3>2, <2>5, <1>1, <1>4 DEF IsPath
      <4>2. i - 1 \in 2 .. N + 1
        BY <3>1, <4>1
      <4> QED
        BY <3>1, <3>2, <4>1, <4>2, <1>4
    <3>3. CASE d[i] = h /\ pr2[d[i]] = x
      <4>1. c[i - 1] = c[1] /\ i - 1 \in 1 .. N /\ 1 \in 1 .. N
        BY <3>1, <3>3, <1>1, <1>4 DEF IsPath
      <4>2. i = 2
        BY <4>1, <1>1 DEF IsPath
      <4> QED
        BY <4>2, <3>3, <1>3
    <3> QED
      BY <3>1, <3>2, <3>3, <1>4, <1>5
  <2> QED
    BY <2>1, <2>2, <2>3, <2>4, <2>5 DEF IsPath
<1> QED
  BY <1>2, <1>3, <1>6 DEF Path
\* The links nx2 and pr2 of the nodes in S but x are those that lead past x.
LeadPast(h, nx, pr, S, x, nx2, pr2) ==
    \A y \in S \ {x} :
        /\ nx2[y] = IF x # h /\ y = pr[x] THEN nx[x] ELSE nx[y]
        /\ pr2[y] = IF y = nx[x] THEN IF x = h THEN Null ELSE pr[x] ELSE pr[y]

\* A node taken out of a path, that is the head or knows the one before it.
LEMMA TakeOut ==
    ASSUME NEW h, NEW nx, NEW pr, NEW S, Path(h, nx, pr, S),
           NEW x \in S, x = h \/ pr[x] # Null,
           NEW nx2, NEW pr2,
           LeadPast(h, nx, pr, S, x, nx2, pr2)
    PROVE  Path(IF x = h THEN nx[x] ELSE h, nx2, pr2, S \ {x})
<1>0. PICK N \in 0 .. Size : \E c \in [1 .. N + 1 -> Nodes \cup {Null}] :
        IsPath(h, nx, pr, S, N, c)
  BY DEF Path
<1>1. PICK c \in [1 .. N + 1 -> Nodes \cup {Null}] : IsPath(h, nx, pr, S, N, c)
  BY <1>0
<1>2. Size \in Nat /\ Null \notin Nodes /\ N \in Nat
  BY CacheAssumption DEF Nodes
<1>3. PICK m \in 1 .. N : c[m] = x
  BY <1>1 DEF IsPath
<1>4. \A i \in 1 .. N : c[i] \in S /\ c[i] \in Nodes /\ nx[c[i]] = c[i + 1]
  BY <1>1 DEF IsPath
<1>5. \A i, j \in 1 .. N : c[i] = c[j] => i = j
  BY <1>1 DEF IsPath
<1>6. 1 \in 1 .. N /\ m + 1 \in 1 .. N + 1 /\ N + 1 \in 1 .. N + 1
  BY <1>2, <1>3
<1>7. x = h <=> m = 1
  BY <1>1, <1>3, <1>5, <1>6 DEF IsPath
<1>8. m # 1 => m - 1 \in 1 .. N /\ pr[x] = c[m - 1]
  BY <1>1, <1>3, <1>7 DEF IsPath
<1>9. nx[x] = c[m + 1]
  BY <1>3, <1>4
<1> DEFINE d == [i \in 1 .. N |-> IF i < m THEN c[i] ELSE c[i + 1]]
<1>10. /\ \A i \in 1 .. N : i < m => d[i] = c[i]
       /\ \A i \in 1 .. N : i >= m => d[i] = c[i + 1]
       /\ d \in [1 .. (N - 1) + 1 -> Nodes \cup {Null}]
  BY <1>2
<1> HIDE DEF d
<1>11. N - 1 \in 0 .. Size
  BY <1>2, <1>6
<1>12. \A i \in 1 .. N : i # m => c[i] # x
  BY <1>3, <1>5
<1>13. \A i \in 1 .. N : c[i] = nx[x] => i = m + 1
  <2> SUFFICES ASSUME NEW i \in 1 .. N, c[i] = nx[x] PROVE i = m + 1
    OBVIOUS
  <2>1. CASE m < N
    <3>1. m + 1 \in 1 .. N
      BY <1>2, <1>3, <2>1
    <3> QED
      BY <3>1, <1>5, <1>9
  <2>2. CASE m = N
    BY <2>2, <1>1, <1>2, <1>4, <1>9 DEF IsPath
  <2> QED
    BY <2>1, <2>2
<1> DEFINE h2 == IF x = h THEN nx[x] ELSE h
<1>14. IsPath(h2, nx2, pr2, S \ {x}, N - 1, d)
  <2>1. d[1] = h2 /\ d[(N - 1) + 1] = Null
    <3>1. d[1] = h2
      <4>1. CASE m = 1
        BY <4>1, <1>6, <1>7, <1>9, <1>10
      <4>2. CASE m # 1
        BY <4>2, <1>1, <1>3, <1>6, <1>7, <1>10 DEF IsPath
      <4> QED
        BY <4>1, <4>2
    <3>2. d[N] = c[N + 1] /\ (N - 1) + 1 = N
      BY <1>2, <1>3, <1>6, <1>10
    <3> QED
      BY <3>1, <3>2, <1>1 DEF IsPath
  <2>2. \A i \in 1 .. N - 1 :
          /\ i \in 1 .. N /\ i + 1 \in 1 .. N
          /\ \/ i < m /\ d[i] = c[i] /\ i # m
             \/ i >= m /\ d[i] = c[i + 1] /\ i + 1 # m
    BY <1>2, <1>3, <1>10
  <2>3. \A i \in 1 .. N - 1 : d[i] \in S \ {x}
    BY <2>2, <1>4, <1>12
  <2>4. S \ {x} = { d[i] : i \in 1 .. N - 1 }
    <3>1. ASSUME NEW y \in S \ {x} PROVE \E i \in 1 .. N - 1 : d[i] = y
      <4>1. PICK i \in 1 .. N : c[i] = y
        BY <1>1 DEF IsPath
      <4>2. CASE i < m
        <5>1. i \in 1 .. N - 1
          BY <4>2, <1>2, <1>3
        <5> QED
          BY <5>1, <4>1, <4>2, <1>10
      <4>3. CASE i > m
        <5>1. /\ i - 1 \in 1 .. N - 1 /\ i - 1 >= m
              /\ i - 1 \in 1 .. N /\ (i - 1) + 1 = i
          BY <4>3, <1>2, <1>3
        <5>2. d[i - 1] = y
          BY <5>1, <4>1, <1>10
        <5> QED
          BY <5>1, <5>2
      <4> QED
        BY <4>1, <4>2, <4>3, <1>2, <1>3
    <3> QED
      BY <3>1, <2>3
  <2>5. ASSUME NEW i \in 1 .. N - 1 PROVE nx2[d[i]] = d[i + 1]
    <3>1. nx2[d[i]] = IF x # h /\ d[i] = pr[x] THEN nx[x] ELSE nx[d[i]]
      BY <2>3 DEF LeadPast
    <3>2. CASE i < m /\ i + 1 = m
      <4>1. i = m - 1 /\ d[i] = c[i] /\ d[i + 1] = c[m + 1]
        BY <3>2, <2>2, <1>2, <1>3, <1>10
      <4>2. m # 1
        BY <3>2, <1>2
      <4> QED
        BY <3>1, <4>1, <4>2, <1>7, <1>8, <1>9
    <3>3. CASE i < m /\ i + 1 # m
      <4>1. i + 1 < m /\ d[i] = c[i] /\ d[i + 1] = c[i + 1] /\ m - 1 # i
        BY <3>3, <2>2, <1>2, <1>3, <1>10
      <4>2. x # h => d[i] # pr[x]
        BY <4>1, <2>2, <1>5, <1>7, <1>8
      <4> QED
        BY <3>1, <4>1, <4>2, <2>2, <1>4
    <3>4. CASE i >= m
      <4>1. /\ i + 1 >= m /\ d[i] = c[i + 1] /\ d[i + 1] = c[(i + 1) + 1]
            /\ m - 1 # i + 1
        BY <3>4, <2>2, <1>2, <1>3, <1>10
      <4>2. x # h => d[i] # pr[x]
        BY <4>1, <2>2, <1>5, <1>7, <1>8
      <4> QED
        BY <3>1, <4>1, <4>2, <2>2, <1>4
    <3> QED
      BY <3>2, <3>3, <3>4, <1>2
  <2>6. ASSUME NEW i \in 1 .. N - 1, NEW j \in 1 .. N - 1, d[i] = d[j] PROVE i = j
    <3>1. \A k, l \in 1 .. N - 1 : ~(k < m /\ l >= m /\ d[k] = d[l])
      BY <2>2, <1>2, <1>5
    <3>2. CASE i < m /\ j < m
      BY <3>2, <2>2, <2>6, <1>2, <1>5
    <3>3. CASE i >= m /\ j >= m
      <4>1. d[i] = c[i + 1] /\ d[j] = c[j + 1] /\ i + 1 \in 1 .. N /\ j + 1 \in 1 .. N
        BY <3>3, <2>2, <1>2
      <4>2. i + 1 = j + 1
        BY <4>1, <2>6, <1>5
      <4> QED
        BY <4>2
    <3> QED
      BY <3>1, <3>2, <3>3, <2>6, <1>2
  <2>7. ASSUME NEW i \in 1 .. N - 1, pr2[d[i]] # Null
        PROVE  i > 1 /\ pr2[d[i]] = d[i - 1]
    <3>1. pr2[d[i]] = IF d[i] = nx[x] THEN IF x = h THEN Null ELSE pr[x] ELSE pr[d[i]]
      BY <2>3 DEF LeadPast
    <3>2. CASE i < m
      <4>1. d[i] = c[i] /\ i # m + 1 /\ i \in 1 .. N
        BY <3>2, <2>2, <1>2
      <4>2. pr2[d[i]] = pr[c[i]]
        BY <4>1, <3>1, <1>13
      <4>3. i > 1 /\ pr[c[i]] = c[i - 1]
        BY <4>1, <4>2, <2>7, <1>1 DEF IsPath
      <4>4. i - 1 \in 1 .. N /\ i - 1 < m
        BY <4>1, <4>3, <3>2, <1>2
      <4> QED
        BY <4>2, <4>3, <4>4, <1>10
    <3>3. CASE i = m
      <4>1. d[i] = nx[x]
        BY <3>3, <2>2, <1>2, <1>9
      <4>2. m # 1 /\ pr2[d[i]] = c[m - 1]
        BY <4>1, <3>1, <2>7, <1>7, <1>8
      <4>3. i > 1 /\ i - 1 \in 1 .. N /\ i - 1 < m
        BY <3>3, <4>2, <1>2, <1>3
      <4> QED
        BY <3>3, <4>2, <4>3, <1>10
    <3>4. CASE i > m
      <4>1. d[i] = c[i + 1] /\ i + 1 # m + 1 /\ i + 1 \in 1 .. N
        BY <3>4, <2>2, <1>2
      <4>2. pr2[d[i]] = pr[c[i + 1]]
        BY <4>1, <3>1, <1>13
      <4>3. pr[c[i + 1]] = c[(i + 1) - 1]
        BY <4>1, <4>2, <2>7, <1>1 DEF IsPath
      <4>4. i > 1 /\ i - 1 \in 1 .. N /\ i - 1 >= m /\ (i - 1) + 1 = i /\ (i + 1) - 1 = i
        BY <3>4, <1>2, <1>3
      <4> QED
        BY <4>2, <4>3, <4>4, <1>10
    <3> QED
      BY <3>2, <3>3, <3>4, <1>2
  <2>8. \A i \in 1 .. N - 1 : d[i] \in Nodes
    BY <2>2, <1>4
  <2> HIDE DEF h2
  <2> QED
    BY <2>1, <2>4, <2>5, <2>6, <2>7, <2>8 DEF IsPath
<1> QED
  BY <1>10, <1>11, <1>14 DEF Path
\* w is the walk along the list from the head on.
Walks(w) ==
    w = [k \in 0 .. Size |->
            IF k = 0 THEN phead ELSE IF w[k - 1] = Null THEN Null ELSE pnext[w[k - 1]]]

\* The walk visits the nodes of the path, and then Null.
LEMMA WalkOnPath ==
    ASSUME NEW S, Path(phead, pnext, pprev, S)
    PROVE  NodeAt[Size] = Null /\ Listed = S
<1>0. PICK N \in 0 .. Size : \E c \in [1 .. N + 1 -> Nodes \cup {Null}] :
        IsPath(phead, pnext, pprev, S, N, c)
  BY DEF Path
<1>1. PICK c \in [1 .. N + 1 -> Nodes \cup {Null}] :
        IsPath(phead, pnext, pprev, S, N, c)
  BY <1>0
<1>2. Size \in Nat /\ Null \notin Nodes /\ N \in Nat /\ N <= Size
  BY CacheAssumption DEF Nodes
<1> DEFINE w == [k \in 0 .. Size |-> IF k <= N THEN c[k + 1] ELSE Null]
<1>3. \A k \in 0 .. Size : w[k] = IF k <= N THEN c[k + 1] ELSE Null
  OBVIOUS
<1>4. ASSUME NEW k \in 0 .. Size
      PROVE  w[k] = IF k = 0 THEN phead
                    ELSE IF w[k - 1] = Null THEN Null ELSE pnext[w[k - 1]]
  <2> HIDE DEF w
  <2>1. CASE k = 0
    BY <2>1, <1>1, <1>2, <1>3 DEF IsPath
  <2>2. CASE k \in 1 .. N
    <3>1. k - 1 \in 0 .. Size /\ k - 1 <= N /\ (k - 1) + 1 = k
      BY <2>2, <1>2
    <3>2. w[k - 1] = c[k] /\ w[k] = c[k + 1]
      BY <3>1, <2>2, <1>2, <1>3
    <3>3. c[k] # Null /\ pnext[c[k]] = c[k + 1]
      BY <2>2, <1>1, <1>2 DEF IsPath
    <3> QED
      BY <3>2, <3>3, <2>2
  <2>3. CASE k > N
    <3>1. k - 1 \in 0 .. Size /\ w[k] = Null
      BY <2>3, <1>2, <1>3
    <3>2. w[k - 1] = Null
      <4>1. CASE k - 1 = N
        BY <4>1, <3>1, <1>1, <1>2, <1>3 DEF IsPath
      <4>2. CASE k - 1 > N
        BY <4>2, <3>1, <1>2, <1>3
      <4> QED
        BY <4>1, <4>2, <2>3, <1>2
    <3> QED
      BY <3>1, <3>2, <2>3, <1>2
  <2> QED
    BY <2>1, <2>2, <2>3, <1>2
<1>5. Walks(w)
  BY <1>4 DEF Walks
<1> HIDE DEF w
<1> DEFINE g == CHOOSE g : Walks(g)
<1>6. NodeAt = g
  BY DEF NodeAt, Walks
<1>7. Walks(g)
  BY <1>5
<1> HIDE DEF g
<1> DEFINE T == { k \in Nat : k <= Size => g[k] = w[k] }
<1>8. T = Nat
  <2>1. 0 \in T
    BY <1>2, <1>5, <1>7 DEF Walks
  <2>2. ASSUME NEW k \in T PROVE k + 1 \in T
    <3> SUFFICES ASSUME k + 1 <= Size PROVE g[k + 1] = w[k + 1]
      OBVIOUS
    <3>1. /\ k \in 0 .. Size /\ k + 1 \in 0 .. Size
          /\ (k + 1) - 1 = k /\ k + 1 # 0 /\ g[k] = w[k]
      BY <1>2
    <3>2. g[k + 1] = IF g[k] = Null THEN Null ELSE pnext[g[k]]
      BY <3>1, <1>7 DEF Walks
    <3>3. w[k + 1] = IF w[k] = Null THEN Null ELSE pnext[w[k]]
      BY <3>1, <1>5 DEF Walks
    <3> QED
      BY <3>1, <3>2, <3>3
  <2> HIDE DEF T
  <2>3. T \in SUBSET Nat
    BY DEF T
  <2> QED
    BY <2>1, <2>2, <2>3, Counting
<1>9. \A k \in 0 .. Size : NodeAt[k] = IF k <= N THEN c[k + 1] ELSE Null
  BY <1>2, <1>3, <1>6, <1>8
<1>10. NodeAt[Size] = Null
  BY <1>1, <1>2, <1>9 DEF IsPath
<1>11. Listed = S
  <2>1. ASSUME NEW y \in Listed PROVE y \in S
    <3>1. PICK k \in 0 .. Size : NodeAt[k] = y /\ y # Null
      BY DEF Listed
    <3>2. k <= N /\ c[k + 1] = y
      BY <3>1, <1>9
    <3>3. k + 1 \in 1 .. N
      BY <3>1, <3>2, <1>1, <1>2 DEF IsPath
    <3> QED
      BY <3>2, <3>3, <1>1 DEF IsPath
  <2>2. ASSUME NEW y \in S PROVE y \in Listed
    <3>1. PICK i \in 1 .. N : c[i] = y
      BY <1>1 DEF IsPath
    <3>2. i - 1 \in 0 .. Size /\ i - 1 <= N /\ (i - 1) + 1 = i
      BY <1>2
    <3>3. NodeAt[i - 1] = y /\ y # Null
      BY <3>1, <3>2, <1>1, <1>2, <1>9 DEF IsPath
    <3> QED
      BY <3>2, <3>3 DEF Listed
  <2> QED
    BY <2>1, <2>2
<1> QED
  BY <1>10, <1>11

\* The invariant gives ListSound, and the list is the allocated nodes.
LEMMA InvListSound == Inv => ListSound /\ Listed = Allocated
<1> SUFFICES ASSUME Inv PROVE ListSound /\ Listed = Allocated
  OBVIOUS
<1>1. NodeAt[Size] = Null /\ Listed = Allocated
  BY WalkOnPath DEF Inv
<1> QED
  BY <1>1 DEF Inv, ListSound, OnePerPage, Allocated
-----------------------------------------------------------------------------
(* What the actions have in common.                                          *)

Changes == Change \cup {NoChange}

\* The head and the last node of a path are on it, and a predecessor that is
\* known is another node on it.
LEMMA PathFacts ==
    ASSUME NEW h, NEW nx, NEW pr, NEW S, Path(h, nx, pr, S)
    PROVE  /\ S \subseteq Nodes
           /\ S # {} => h \in S
           /\ S # {} => \E x \in S : nx[x] = Null
           /\ \A x \in S : pr[x] # Null => x # h /\ pr[x] \in S /\ pr[x] # x
<1>0. PICK N \in 0 .. Size : \E c \in [1 .. N + 1 -> Nodes \cup {Null}] :
        IsPath(h, nx, pr, S, N, c)
  BY DEF Path
<1>1. PICK c \in [1 .. N + 1 -> Nodes \cup {Null}] : IsPath(h, nx, pr, S, N, c)
  BY <1>0
<1>2. N \in Nat
  BY CacheAssumption
<1>3. S \subseteq Nodes
  BY <1>1 DEF IsPath
<1>4. ASSUME S # {} PROVE h \in S /\ \E x \in S : nx[x] = Null
  <2>1. N \in 1 .. N /\ 1 \in 1 .. N
    BY <1>1, <1>2, <1>4 DEF IsPath
  <2> QED
    BY <2>1, <1>1 DEF IsPath
<1>5. ASSUME NEW x \in S, pr[x] # Null PROVE x # h /\ pr[x] \in S /\ pr[x] # x
  <2>1. PICK i \in 1 .. N : c[i] = x
    BY <1>1 DEF IsPath
  <2>2. i > 1 /\ pr[x] = c[i - 1]
    BY <2>1, <1>1, <1>5 DEF IsPath
  <2>3. i - 1 \in 1 .. N /\ 1 \in 1 .. N /\ i # 1 /\ i - 1 # i
    BY <2>2, <1>2
  <2> QED
    BY <2>1, <2>2, <2>3, <1>1 DEF IsPath
<1> QED
  BY <1>3, <1>4, <1>5

\* What is known of the list in a state that satisfies the invariant.
LEMMA ListFacts ==
    ASSUME Inv
    PROVE  /\ Null \notin Nodes /\ Null \notin PageNos
           /\ Listed = Allocated /\ Allocated \subseteq Nodes
           /\ \A x \in Allocated : pgno[x] \in PageNos
           /\ \A p : Holding(p) = { x \in Allocated : pgno[x] = p }
           /\ \A x \in Allocated :
                 pprev[x] # Null => x # phead /\ pprev[x] \in Allocated /\ pprev[x] # x
           /\ Allocated # {} => phead \in Allocated
           /\ Allocated # {} => Tail \in Allocated /\ pnext[Tail] = Null
           /\ Cardinality(Listed) >= Size <=> Allocated = Nodes
<1>1. Null \notin Nodes /\ Null \notin PageNos
  BY CacheAssumption DEF Nodes
<1>2. Listed = Allocated
  BY InvListSound
<1>3. Path(phead, pnext, pprev, Allocated)
  BY DEF Inv
<1>4. /\ Allocated # {} => phead \in Allocated
      /\ Allocated # {} => \E x \in Allocated : pnext[x] = Null
      /\ \A x \in Allocated :
            pprev[x] # Null => x # phead /\ pprev[x] \in Allocated /\ pprev[x] # x
  BY <1>3, PathFacts
<1>5. Allocated \subseteq Nodes /\ \A x \in Allocated : pgno[x] \in PageNos
  BY DEF Allocated, Inv, TypeOK
<1>6. \A p : Holding(p) = { x \in Allocated : pgno[x] = p }
  BY <1>2 DEF Holding
<1>7. Allocated # {} => Tail \in Allocated /\ pnext[Tail] = Null
  BY <1>2, <1>4 DEF Tail
<1>8. Cardinality(Listed) >= Size <=> Allocated = Nodes
  <2>1. IsFiniteSet(Allocated) /\ Cardinality(Allocated) <= Size
    BY <1>5, NodesFinite, FS_Subset
  <2>2. Cardinality(Allocated) \in Nat /\ Size \in Nat
    BY <2>1, FS_CardinalityType, CacheAssumption
  <2>3. Cardinality(Allocated) = Size => Allocated = Nodes
    BY <1>5, NodesFinite, FS_Subset
  <2> QED
    BY <2>1, <2>2, <2>3, <1>2, NodesFinite
<1> QED
  BY <1>1, <1>2, <1>4, <1>5, <1>6, <1>7, <1>8

\* The part that is saved and the part that was clean make the whole page.
LEMMA SavedIsPage ==
    ASSUME Inv, NEW x \in Allocated
    PROVE  /\ Saved(x) = page[x]
           /\ updated[x] = 0 => disk[pgno[x]] = page[x]
<1>1. /\ page[x] \in [1 .. Parts -> Values] /\ disk[pgno[x]] \in [1 .. Parts -> Values]
      /\ updated[x] \in 0 .. Parts /\ Parts \in Nat
  BY ListFacts, CacheAssumption DEF Inv, TypeOK, Contents
<1>2. \A k \in 1 .. Parts : k > updated[x] => page[x][k] = disk[pgno[x]][k]
  BY DEF Inv, CleanPart
<1>3. Saved(x) = page[x]
  BY <1>1, <1>2 DEF Saved
<1>4. ASSUME updated[x] = 0 PROVE disk[pgno[x]] = page[x]
  BY <1>1, <1>2, <1>4
<1> QED
  BY <1>3, <1>4

\* Use changes one node, and counts what it changes.
LEMMA UseChanges ==
    ASSUME TypeOK, NEW x \in Nodes, NEW c \in Contents, NEW u \in 0 .. Parts,
           NEW change \in Changes, Use(x, c, u, change)
    PROVE  /\ got' \in Nodes \cup {Null}
           /\ page' \in [Nodes -> Contents] /\ updated' \in [Nodes -> 0 .. Parts]
           /\ \A y \in Nodes \ {x} : page'[y] = page[y] /\ updated'[y] = updated[y]
           /\ \A k \in 1 .. Parts : k > updated'[x] => k > u /\ page'[x][k] = c[k]
           /\ change = NoChange => page'[x] = c
<1> DEFINE new == [k \in 1 .. Parts |->
                       IF k \in change.from .. change.to THEN change.value ELSE c[k]]
           count == IF change.to > u THEN change.to ELSE u
<1>1. Parts \in Nat /\ c \in [1 .. Parts -> Values]
  BY CacheAssumption DEF Contents
<1>2. CASE change \in Change
  <2>1. change.from \in 1 .. Parts /\ change.to \in 1 .. Parts /\ change.value \in Values
    BY <1>2 DEF Change
  <2>2. new \in Contents /\ count \in 0 .. Parts
    BY <2>1, <1>1 DEF Contents
  <2>3. \A k \in 1 .. Parts : k > count => k > u /\ new[k] = c[k]
    BY <2>1, <1>1
  <2>4. change # NoChange
    BY <2>1 DEF NoChange
  <2> QED
    BY <2>2, <2>3, <2>4 DEF Use, TypeOK
<1>3. CASE change = NoChange
  <2>1. new = c /\ count = u
    BY <1>1, <1>3 DEF NoChange
  <2> QED
    BY <2>1, <1>1 DEF Use, TypeOK
<1> QED
  BY <1>2, <1>3 DEF Changes
\* The disk d, on which the page of node x was saved if it was changed.
WithSaved(x, d) == d = IF updated[x] > 0 THEN [disk EXCEPT ![pgno[x]] = Saved(x)] ELSE disk

LEMMA SavedDisk ==
    ASSUME Inv, NEW x \in Allocated, NEW d, WithSaved(x, d)
    PROVE  /\ d \in [PageNos -> Contents]
           /\ d[pgno[x]] = page[x]
           /\ \A q \in PageNos \ {pgno[x]} : d[q] = disk[q]
<1>1. /\ disk \in [PageNos -> Contents] /\ page[x] \in Contents
      /\ updated[x] \in 0 .. Parts /\ pgno[x] \in PageNos
  BY ListFacts DEF Inv, TypeOK
<1>2. Saved(x) = page[x] /\ (updated[x] = 0 => disk[pgno[x]] = page[x])
  BY SavedIsPage
<1>3. updated[x] > 0 \/ updated[x] = 0
  BY <1>1, CacheAssumption
<1>4. ~(0 > 0)
  OBVIOUS
<1> QED
  BY <1>1, <1>2, <1>3, <1>4 DEF WithSaved

\* What a call of GetPageNode(p) does to pages: one node x is used, or given up
\* after its page was saved, or was not there before.
Effect(p) ==
    \E x \in Nodes :
        /\ Allocated' \ {x} = Allocated \ {x}
        /\ \A y \in Allocated \ {x} : pgno'[y] = pgno[y] /\ page'[y] = page[y]
        /\ \/ x \notin Allocated'
           \/ pgno'[x] = p
           \/ x \in Allocated /\ pgno'[x] = pgno[x] /\ page'[x] = page[x]
        /\ \/ disk' = disk /\ (x \in Allocated => x \in Allocated' /\ pgno'[x] = pgno[x])
           \/ x \in Allocated /\ WithSaved(x, disk')

-----------------------------------------------------------------------------
(* The actions keep the invariant.                                           *)

\* A new cache holds nothing.
LEMMA InitInv == Init => Inv
<1> SUFFICES ASSUME Init PROVE Inv
  OBVIOUS
<1>1. Blank \in Contents
  <2>1. PICK v \in Values : TRUE
    BY CacheAssumption
  <2>2. [k \in 1 .. Parts |-> v] \in Contents
    BY DEF Contents
  <2> QED
    BY <2>2 DEF Blank
<1>2. TypeOK
  <2>1. 0 \in 0 .. Parts
    BY CacheAssumption
  <2> QED
    BY <1>1, <2>1 DEF Init, TypeOK
<1>3. Allocated = {}
  BY DEF Allocated, Init
<1>4. Path(phead, pnext, pprev, {})
  <2> DEFINE c == [i \in 1 .. 1 |-> Null]
  <2>1. 0 \in 0 .. Size /\ c \in [1 .. 0 + 1 -> Nodes \cup {Null}] /\ c[1] = Null
    BY CacheAssumption
  <2> HIDE DEF c
  <2>2. IsPath(phead, pnext, pprev, {}, 0, c)
    BY <2>1 DEF IsPath, Init
  <2> QED
    BY <2>1, <2>2 DEF Path
<1> QED
  BY <1>2, <1>3, <1>4 DEF Inv, OnePerPage, CleanPart

\* The page is in the cache: its node stays, or moves to the head.
LEMMA HitInv ==
    ASSUME Inv, NEW p \in PageNos, NEW change \in Changes, Hit(p, change)
    PROVE  Inv' /\ Effect(p)
<1>1. PICK x \in Holding(p) :
        /\ IF pprev[x] # Null
           THEN /\ phead' = x
                /\ pnext' = [pnext EXCEPT ![pprev[x]] = pnext[x], ![x] = phead]
                /\ pprev' = [y \in Nodes |->
                                IF y = x THEN Null
                                ELSE IF y = pnext[x] THEN pprev[x] ELSE pprev[y]]
           ELSE UNCHANGED <<phead, pnext, pprev>>
        /\ Use(x, page[x], updated[x], change)
        /\ UNCHANGED <<pgno, disk, died>>
  BY DEF Hit
<1>2. x \in Allocated /\ x \in Nodes /\ TypeOK
  BY ListFacts DEF Inv
<1>3. /\ got' \in Nodes \cup {Null}
      /\ page' \in [Nodes -> Contents] /\ updated' \in [Nodes -> 0 .. Parts]
      /\ \A y \in Nodes \ {x} : page'[y] = page[y] /\ updated'[y] = updated[y]
      /\ \A k \in 1 .. Parts : k > updated'[x] => k > updated[x] /\ page'[x][k] = page[x][k]
  BY <1>1, <1>2, UseChanges DEF TypeOK
<1>4. Allocated' = Allocated
  BY <1>1 DEF Allocated
<1>5. Path(phead, pnext, pprev, Allocated)' /\ TypeOK'
  <2>1. CASE pprev[x] # Null
    <3>1. pprev[x] \in Allocated /\ pprev[x] # x /\ x # phead
      BY <1>2, <2>1, ListFacts
    <3> DEFINE nx == [pnext EXCEPT ![pprev[x]] = pnext[x]]
               pr == [y \in Nodes |-> IF y = pnext[x] THEN pprev[x] ELSE pprev[y]]
    <3>2. Path(phead, nx, pr, Allocated \ {x})
      <4>1. Path(phead, pnext, pprev, Allocated)
        BY DEF Inv
      <4>2. LeadPast(phead, pnext, pprev, Allocated, x, nx, pr)
        BY <1>2, <3>1, ListFacts DEF TypeOK, LeadPast
      <4> HIDE DEF nx, pr
      <4>4. Path(IF x = phead THEN pnext[x] ELSE phead, nx, pr, Allocated \ {x})
        BY <1>2, <2>1, <4>1, <4>2, TakeOut
      <4> QED
        BY <3>1, <4>4
    <3>3. /\ pnext'[x] = phead /\ pprev'[x] = Null
          /\ \A y \in Nodes \ {x} : pnext'[y] = nx[y] /\ pprev'[y] = pr[y]
      BY <1>1, <1>2, <2>1, <3>1, ListFacts DEF TypeOK
    <3>4. TypeOK'
      BY <1>1, <1>2, <1>3, <2>1 DEF TypeOK
    <3> HIDE DEF nx, pr
    <3>5. Path(x, pnext', pprev', (Allocated \ {x}) \cup {x})
      BY <1>2, <3>2, <3>3, PutFirst
    <3>6. (Allocated \ {x}) \cup {x} = Allocated
      BY <1>2
    <3> QED
      BY <1>1, <1>4, <2>1, <3>4, <3>5, <3>6
  <2>2. CASE pprev[x] = Null
    BY <1>1, <1>2, <1>3, <1>4, <2>2 DEF Inv, TypeOK
  <2> QED
    BY <2>1, <2>2
<1>6. OnePerPage'
  BY <1>1, <1>4 DEF Inv, OnePerPage
<1>7. CleanPart'
  BY <1>1, <1>2, <1>3, <1>4, ListFacts DEF Inv, CleanPart
<1>8. pgno'[x] = p
  BY <1>1, ListFacts
<1>9. Effect(p)
  BY <1>1, <1>2, <1>3, <1>4, <1>8, ListFacts DEF Effect
<1> QED
  BY <1>5, <1>6, <1>7, <1>9 DEF Inv

\* A call that fails before it changed anything.
LEMMA FailedInv ==
    ASSUME Inv, Failed, NEW p
    PROVE  Inv' /\ Effect(p)
<1>1. TypeOK'
  BY DEF Inv, TypeOK, Failed, list
<1>2. Allocated' = Allocated
  BY DEF Failed, list, Allocated
<1>3. Inv'
  BY <1>1, <1>2 DEF Inv, OnePerPage, CleanPart, Failed, list
<1>4. PICK x \in Nodes : TRUE
  BY CacheAssumption DEF Nodes
<1>5. Effect(p)
  BY <1>2, <1>4 DEF Effect, Failed, list
<1> QED
  BY <1>3, <1>5

\* There is room: a new node holds what is on disk of the page.
LEMMA AddInv ==
    ASSUME Inv, NEW p \in PageNos, NEW change \in Changes, Add(p, change)
    PROVE  Inv' /\ Effect(p)
<1>1. CASE Failed
  BY <1>1, FailedInv
<1>2. ASSUME ~Failed PROVE Inv' /\ Effect(p)
  <2> DEFINE x == CHOOSE y \in Nodes : pgno[y] = Null
  <2>1. /\ pgno' = [pgno EXCEPT ![x] = p]
        /\ pnext' = [pnext EXCEPT ![x] = phead]
        /\ pprev' = [y \in Nodes |->
                        IF y = x THEN Null ELSE IF y = phead THEN x ELSE pprev[y]]
        /\ phead' = x
        /\ Use(x, disk[p], 0, change)
        /\ UNCHANGED <<disk, died>>
    BY <1>2 DEF Add
  <2>2. Allocated # Nodes
    <3>1. Cardinality(Listed) < Size
      BY DEF Add
    <3>2. Cardinality(Listed) \in Nat /\ Size \in Nat
      BY ListFacts, NodesFinite, FS_Subset, FS_CardinalityType, CacheAssumption
    <3> QED
      BY <3>1, <3>2, ListFacts
  <2>3. x \in Nodes /\ x \notin Allocated
    BY <2>2 DEF Allocated
  <2> HIDE DEF x
  <2>4. TypeOK /\ disk[p] \in Contents /\ 0 \in 0 .. Parts
    BY CacheAssumption DEF Inv, TypeOK
  <2>5. /\ got' \in Nodes \cup {Null}
        /\ page' \in [Nodes -> Contents] /\ updated' \in [Nodes -> 0 .. Parts]
        /\ \A y \in Nodes \ {x} : page'[y] = page[y] /\ updated'[y] = updated[y]
        /\ \A k \in 1 .. Parts : k > updated'[x] => page'[x][k] = disk[p][k]
    BY <2>1, <2>3, <2>4, UseChanges
  <2>6. TypeOK'
    BY <2>1, <2>3, <2>4, <2>5 DEF TypeOK
  <2>7. Allocated' = Allocated \cup {x} /\ pgno'[x] = p
        /\ \A y \in Allocated : y # x /\ pgno'[y] = pgno[y]
    BY <2>1, <2>3, <2>4, ListFacts DEF Allocated, TypeOK
  <2>8. Path(phead, pnext, pprev, Allocated)'
    <3>1. Path(phead, pnext, pprev, Allocated)
      BY DEF Inv
    <3>2. /\ pnext'[x] = phead /\ pprev'[x] = Null
          /\ \A y \in Nodes \ {x} :
                /\ pnext'[y] = pnext[y]
                /\ pprev'[y] = pprev[y] \/ (y = phead /\ pprev'[y] = x)
      BY <2>1, <2>3, <2>4 DEF TypeOK
    <3>3. Path(x, pnext', pprev', Allocated \cup {x})
      BY <2>3, <3>1, <3>2, PutFirst
    <3> QED
      BY <2>1, <2>7, <3>3
  <2>9. \A y \in Allocated : pgno[y] # p
    BY ListFacts DEF Add
  <2>10. OnePerPage'
    BY <2>7, <2>9 DEF Inv, OnePerPage
  <2>11. CleanPart'
    BY <2>1, <2>3, <2>5, <2>7, ListFacts DEF Inv, CleanPart
  <2>12. Effect(p)
    BY <2>1, <2>3, <2>5, <2>7, ListFacts DEF Effect
  <2> QED
    BY <2>6, <2>8, <2>10, <2>11, <2>12 DEF Inv
<1> QED
  BY <1>1, <1>2
\* A call that only saves the page of one node and ends.
LEMMA NullFollowedInv ==
    ASSUME Inv, NEW x \in Allocated, NEW d, WithSaved(x, d), NEW p,
           NEW call \in {"reuse", "remove"}, NullFollowed(call, d)
    PROVE  Inv' /\ Effect(p)
<1>1. /\ d \in [PageNos -> Contents] /\ d[pgno[x]] = page[x]
      /\ \A q \in PageNos \ {pgno[x]} : d[q] = disk[q]
  BY SavedDisk
<1>2. TypeOK'
  BY <1>1 DEF Inv, TypeOK, NullFollowed, list
<1>3. Allocated' = Allocated
  BY DEF NullFollowed, list, Allocated
<1>4. Path(phead, pnext, pprev, Allocated)' /\ OnePerPage'
  BY <1>3 DEF Inv, OnePerPage, NullFollowed, list
<1>5. CleanPart'
  <2> SUFFICES ASSUME NEW y \in Allocated, NEW k \in 1 .. Parts, k > updated[y]
               PROVE  page[y][k] = d[pgno[y]][k]
    BY <1>3 DEF CleanPart, NullFollowed, list
  <2>1. CASE pgno[y] = pgno[x]
    BY <2>1, <1>1 DEF Inv, OnePerPage
  <2>2. CASE pgno[y] # pgno[x]
    BY <2>2, <1>1, ListFacts DEF Inv, CleanPart
  <2> QED
    BY <2>1, <2>2
<1>6. Effect(p)
  BY <1>3, ListFacts DEF Effect, NullFollowed, list
<1> QED
  BY <1>2, <1>4, <1>5, <1>6 DEF Inv

\* The cache is full: its last node is taken out, or taken for the page.
LEMMA ReuseInv ==
    ASSUME Inv, NEW p \in PageNos, NEW change \in Changes, Reuse(p, change)
    PROVE  Inv' /\ Effect(p)
<1> DEFINE x == Tail
           saved == IF updated[x] > 0 THEN [disk EXCEPT ![pgno[x]] = Saved(x)] ELSE disk
<1>1. Allocated = Nodes /\ \A y \in Allocated : pgno[y] # p
  BY ListFacts DEF Reuse
<1>2. x \in Allocated /\ x \in Nodes /\ pnext[x] = Null
  <2>1. Nodes # {}
    BY CacheAssumption DEF Nodes
  <2> QED
    BY <1>1, <2>1, ListFacts
<1>3. \/ Failed
      \/ NullFollowed("reuse", saved)
      \/ /\ pprev[x] # Null
         /\ disk' = saved
         /\ pgno' = [pgno EXCEPT ![x] = Null]
         /\ pnext' = [pnext EXCEPT ![pprev[x]] = Null]
         /\ pprev' = [pprev EXCEPT ![x] = Null]
         /\ updated' = [updated EXCEPT ![x] = 0]
         /\ page' = [page EXCEPT ![x] = Blank]
         /\ got' = Null
         /\ UNCHANGED <<phead, died>>
      \/ /\ pprev[x] # Null
         /\ disk' = saved
         /\ pgno' = [pgno EXCEPT ![x] = p]
         /\ pnext' = [pnext EXCEPT ![pprev[x]] = Null, ![x] = phead]
         /\ pprev' = [pprev EXCEPT ![x] = Null, ![phead] = x]
         /\ phead' = x
         /\ Use(x, saved[p], 0, change)
         /\ UNCHANGED died
  BY DEF Reuse
<1>4. WithSaved(x, saved)
  BY DEF WithSaved
<1> HIDE DEF x, saved
<1>5. TypeOK
  BY DEF Inv
<1>6. /\ saved \in [PageNos -> Contents] /\ saved[pgno[x]] = page[x]
      /\ \A q \in PageNos \ {pgno[x]} : saved[q] = disk[q]
  BY <1>2, <1>4, SavedDisk
<1> DEFINE nx == [pnext EXCEPT ![pprev[x]] = Null]
<1>7. ASSUME pprev[x] # Null
      PROVE  /\ Path(phead, nx, pprev, Allocated \ {x})
             /\ x # phead /\ phead \in Nodes
             /\ pprev[x] \in Nodes /\ pprev[x] # x
  <2>1. /\ x # phead /\ phead \in Nodes
        /\ pprev[x] \in Nodes /\ pprev[x] # x
    BY <1>2, <1>7, ListFacts
  <2>2. LeadPast(phead, pnext, pprev, Allocated, x, nx, pprev)
    BY <1>2, <1>5, <2>1, ListFacts DEF LeadPast, TypeOK
  <2>3. Path(phead, pnext, pprev, Allocated)
    BY DEF Inv
  <2> HIDE DEF nx
  <2>4. Path(IF x = phead THEN pnext[x] ELSE phead, nx, pprev, Allocated \ {x})
    BY <1>2, <1>7, <2>2, <2>3, TakeOut
  <2> QED
    BY <2>1, <2>4
<1>8. CASE Failed
  BY <1>8, FailedInv
<1>9. CASE NullFollowed("reuse", saved)
  BY <1>2, <1>4, <1>9, NullFollowedInv
<1>10. CASE /\ pprev[x] # Null
            /\ disk' = saved
            /\ pgno' = [pgno EXCEPT ![x] = Null]
            /\ pnext' = [pnext EXCEPT ![pprev[x]] = Null]
            /\ pprev' = [pprev EXCEPT ![x] = Null]
            /\ updated' = [updated EXCEPT ![x] = 0]
            /\ page' = [page EXCEPT ![x] = Blank]
            /\ got' = Null
            /\ UNCHANGED <<phead, died>>
  <2>1. Blank \in Contents /\ 0 \in 0 .. Parts
    <3>1. page[x] \in Contents
      BY <1>2, <1>5 DEF TypeOK
    <3> QED
      BY <3>1, CacheAssumption DEF Blank
  <2>2. TypeOK'
    BY <1>2, <1>5, <1>6, <1>7, <1>10, <2>1 DEF TypeOK
  <2>3. /\ Allocated' = Allocated \ {x}
        /\ \A y \in Allocated \ {x} :
              pgno'[y] = pgno[y] /\ page'[y] = page[y] /\ updated'[y] = updated[y]
    BY <1>2, <1>5, <1>10, ListFacts DEF Allocated, TypeOK
  <2>4. Path(phead, pnext, pprev, Allocated)'
    <3>1. LeadPast(phead, pnext, pprev, Allocated, x, pnext', pprev')
      BY <1>2, <1>5, <1>7, <1>10, ListFacts DEF LeadPast, TypeOK
    <3>2. Path(phead, pnext, pprev, Allocated)
      BY DEF Inv
    <3>3. Path(IF x = phead THEN pnext[x] ELSE phead, pnext', pprev', Allocated \ {x})
      BY <1>2, <1>10, <3>1, <3>2, TakeOut
    <3> QED
      BY <1>7, <1>10, <2>3, <3>3
  <2>5. OnePerPage'
    BY <2>3 DEF Inv, OnePerPage
  <2>6. CleanPart'
    <3>1. \A y \in Allocated \ {x} : pgno[y] \in PageNos \ {pgno[x]}
      BY <1>2, ListFacts DEF Inv, OnePerPage
    <3> QED
      BY <1>6, <1>10, <2>3, <3>1 DEF Inv, CleanPart
  <2>7. Effect(p)
    BY <1>2, <1>4, <1>10, <2>3 DEF Effect
  <2> QED
    BY <2>2, <2>4, <2>5, <2>6, <2>7 DEF Inv
<1>11. CASE /\ pprev[x] # Null
            /\ disk' = saved
            /\ pgno' = [pgno EXCEPT ![x] = p]
            /\ pnext' = [pnext EXCEPT ![pprev[x]] = Null, ![x] = phead]
            /\ pprev' = [pprev EXCEPT ![x] = Null, ![phead] = x]
            /\ phead' = x
            /\ Use(x, saved[p], 0, change)
            /\ UNCHANGED died
  <2>1. 0 \in 0 .. Parts /\ saved[p] \in Contents
    BY <1>6, CacheAssumption
  <2>2. /\ got' \in Nodes \cup {Null}
        /\ page' \in [Nodes -> Contents] /\ updated' \in [Nodes -> 0 .. Parts]
        /\ \A y \in Nodes \ {x} : page'[y] = page[y] /\ updated'[y] = updated[y]
        /\ \A k \in 1 .. Parts : k > updated'[x] => page'[x][k] = saved[p][k]
    BY <1>2, <1>5, <1>11, <2>1, UseChanges
  <2>3. TypeOK'
    BY <1>2, <1>5, <1>6, <1>7, <1>11, <2>2 DEF TypeOK
  <2>4. /\ Allocated' = Allocated /\ pgno'[x] = p
        /\ \A y \in Allocated \ {x} : pgno'[y] = pgno[y]
    BY <1>2, <1>5, <1>11, ListFacts DEF Allocated, TypeOK
  <2>5. Path(phead, pnext, pprev, Allocated)'
    <3>1. /\ pnext'[x] = phead /\ pprev'[x] = Null
          /\ \A y \in Nodes \ {x} :
                /\ pnext'[y] = nx[y]
                /\ pprev'[y] = pprev[y] \/ (y = phead /\ pprev'[y] = x)
      BY <1>2, <1>5, <1>7, <1>11 DEF TypeOK
    <3> HIDE DEF nx
    <3>2. Path(phead, nx, pprev, Allocated \ {x}) /\ x \notin Allocated \ {x}
      BY <1>7, <1>11
    <3>3. Path(x, pnext', pprev', (Allocated \ {x}) \cup {x})
      BY <1>2, <3>1, <3>2, PutFirst
    <3>4. (Allocated \ {x}) \cup {x} = Allocated
      BY <1>2
    <3> QED
      BY <1>11, <2>4, <3>3, <3>4
  <2>6. OnePerPage'
    BY <1>1, <2>4 DEF Inv, OnePerPage
  <2>7. CleanPart'
    <3>1. \A y \in Allocated \ {x} : pgno[y] \in PageNos \ {pgno[x]}
      BY <1>2, ListFacts DEF Inv, OnePerPage
    <3>2. \A y \in Allocated \ {x} : \A k \in 1 .. Parts :
             k > updated'[y] => page'[y][k] = disk'[pgno'[y]][k]
      BY <1>6, <1>11, <2>2, <2>4, <3>1, ListFacts DEF Inv, CleanPart
    <3> QED
      BY <1>11, <2>2, <2>4, <3>2 DEF CleanPart
  <2>8. Effect(p)
    BY <1>2, <1>4, <1>11, <2>2, <2>4, ListFacts DEF Effect
  <2> QED
    BY <2>3, <2>5, <2>6, <2>7, <2>8 DEF Inv
<1> QED
  BY <1>3, <1>8, <1>9, <1>10, <1>11
\* A flush saves whole pages, of the nodes that are asked for.
LEMMA FlushInv ==
    ASSUME Inv, NEW S \in SUBSET Listed, NEW F, FlushNodes(S, F)
    PROVE  /\ Inv'
           /\ \A x \in S \ F : disk'[pgno[x]] = page[x]
           /\ \A q \in PageNos : (\A x \in S : pgno[x] # q) => disk'[q] = disk[q]
           /\ \A x \in Allocated : disk'[pgno[x]] \in {page[x], disk[pgno[x]]}
<1> DEFINE good == { x \in S : updated[x] > 0 } \ F
<1>1. /\ disk' = [q \in PageNos |->
                     IF \E x \in good : pgno[x] = q
                     THEN Saved(CHOOSE x \in good : pgno[x] = q) ELSE disk[q]]
      /\ updated' = [x \in Nodes |-> IF x \in good THEN 0 ELSE updated[x]]
      /\ got' = Null
      /\ UNCHANGED <<list, page, died>>
  BY DEF FlushNodes
<1>2. good \subseteq S /\ S \subseteq Allocated /\ Allocated \subseteq Nodes /\ TypeOK
  BY ListFacts DEF Inv
<1>3. \A x \in S \ F : x \in good \/ updated[x] = 0
  BY <1>2, CacheAssumption DEF TypeOK
<1> HIDE DEF good
<1>4. \A x \in good : disk'[pgno[x]] = page[x]
  <2> TAKE x \in good
  <2> DEFINE y == CHOOSE y \in good : pgno[y] = pgno[x]
  <2>1. y \in good /\ pgno[y] = pgno[x]
    OBVIOUS
  <2>2. y = x /\ x \in Allocated
    BY <2>1, <1>2 DEF Inv, OnePerPage
  <2>3. disk'[pgno[x]] = Saved(y)
    BY <1>1, <2>2, ListFacts
  <2> QED
    BY <2>2, <2>3, SavedIsPage
<1>5. \A q \in PageNos : (\A x \in good : pgno[x] # q) => disk'[q] = disk[q]
  BY <1>1
<1>6. \A x \in Allocated \ good : disk'[pgno[x]] = disk[pgno[x]]
  <2> TAKE x \in Allocated \ good
  <2>1. \A y \in good : pgno[y] # pgno[x]
    BY <1>2 DEF Inv, OnePerPage
  <2> QED
    BY <2>1, <1>5, ListFacts
<1>7. TypeOK'
  <2>1. disk' \in [PageNos -> Contents]
    <3> SUFFICES ASSUME NEW q \in PageNos PROVE disk'[q] \in Contents
      BY <1>1
    <3>1. CASE \E x \in good : pgno[x] = q
      BY <3>1, <1>2, <1>4 DEF TypeOK
    <3>2. CASE \A x \in good : pgno[x] # q
      BY <3>2, <1>2, <1>5 DEF TypeOK
    <3> QED
      BY <3>1, <3>2
  <2>2. updated' \in [Nodes -> 0 .. Parts]
    BY <1>1, <1>2, CacheAssumption DEF TypeOK
  <2> QED
    BY <1>1, <1>2, <2>1, <2>2 DEF TypeOK, list
<1>8. Allocated' = Allocated
  BY <1>1 DEF list, Allocated
<1>9. Path(phead, pnext, pprev, Allocated)' /\ OnePerPage'
  BY <1>1, <1>8 DEF Inv, OnePerPage, list
<1>10. CleanPart'
  <2> SUFFICES ASSUME NEW x \in Allocated, NEW k \in 1 .. Parts, k > updated'[x]
               PROVE  page[x][k] = disk'[pgno[x]][k]
    BY <1>1, <1>8 DEF CleanPart, list
  <2>1. CASE x \in good
    BY <2>1, <1>4
  <2>2. CASE x \notin good
    BY <2>2, <1>1, <1>2, <1>6 DEF Inv, CleanPart
  <2> QED
    BY <2>1, <2>2
<1>11. Inv'
  BY <1>7, <1>9, <1>10 DEF Inv
<1>12. \A x \in S \ F : disk'[pgno[x]] = page[x]
  BY <1>2, <1>3, <1>4, <1>6, SavedIsPage
<1> QED
  BY <1>2, <1>4, <1>5, <1>6, <1>11, <1>12

\* RemovePage gives up one node at most.
LEMMA RemoveInv ==
    ASSUME Inv, NEW p \in PageNos, RemovePage(p)
    PROVE  /\ Inv' /\ disk' = disk
           /\ \E x \in Allocated :
                 /\ pgno[x] = p
                 /\ Allocated' = Allocated \/ Allocated' = Allocated \ {x}
                 /\ \A y \in Allocated' : pgno'[y] = pgno[y] /\ page'[y] = page[y]
<1>1. PICK x \in Holding(p) :
        IF x # phead /\ pprev[x] = Null THEN NullFollowed("remove", disk)
        ELSE /\ phead' = IF x = phead THEN pnext[x] ELSE phead
             /\ pnext' = [y \in Nodes |->
                             IF y = x THEN Null
                             ELSE IF x # phead /\ y = pprev[x] THEN pnext[x]
                             ELSE pnext[y]]
             /\ pprev' = [y \in Nodes |->
                             IF y = x THEN Null
                             ELSE IF y = pnext[x]
                                  THEN IF x = phead THEN Null ELSE pprev[x]
                             ELSE pprev[y]]
             /\ pgno' = [pgno EXCEPT ![x] = Null]
             /\ updated' = [updated EXCEPT ![x] = 0]
             /\ page' = [page EXCEPT ![x] = Blank]
             /\ got' = Null
             /\ UNCHANGED <<disk, died>>
  BY DEF RemovePage
<1>2. x \in Allocated /\ x \in Nodes /\ pgno[x] = p /\ TypeOK
  BY ListFacts DEF Inv
<1>3. CASE x # phead /\ pprev[x] = Null
  <2>1. NullFollowed("remove", disk)
    BY <1>1, <1>3
  <2>2. TypeOK'
    BY <1>2, <2>1 DEF TypeOK, NullFollowed, list
  <2>3. Allocated' = Allocated
    BY <2>1 DEF NullFollowed, list, Allocated
  <2>4. Inv'
    BY <2>1, <2>2, <2>3 DEF Inv, OnePerPage, CleanPart, NullFollowed, list
  <2> QED
    BY <1>2, <2>1, <2>3, <2>4 DEF NullFollowed, list
<1>4. CASE ~(x # phead /\ pprev[x] = Null)
  <2>1. Blank \in Contents /\ 0 \in 0 .. Parts
    <3>1. page[x] \in Contents
      BY <1>2 DEF TypeOK
    <3> QED
      BY <3>1, CacheAssumption DEF Blank
  <2>2. TypeOK'
    BY <1>1, <1>2, <1>4, <2>1 DEF TypeOK
  <2>3. /\ Allocated' = Allocated \ {x}
        /\ \A y \in Allocated \ {x} :
              pgno'[y] = pgno[y] /\ page'[y] = page[y] /\ updated'[y] = updated[y]
    BY <1>1, <1>2, <1>4, ListFacts DEF Allocated, TypeOK
  <2>4. Path(phead, pnext, pprev, Allocated)'
    <3>1. LeadPast(phead, pnext, pprev, Allocated, x, pnext', pprev')
      BY <1>1, <1>2, <1>4, ListFacts DEF LeadPast
    <3>2. Path(phead, pnext, pprev, Allocated)
      BY DEF Inv
    <3>3. Path(IF x = phead THEN pnext[x] ELSE phead, pnext', pprev', Allocated \ {x})
      BY <1>2, <1>4, <3>1, <3>2, TakeOut
    <3> QED
      BY <1>1, <1>4, <2>3, <3>3
  <2>5. OnePerPage' /\ CleanPart'
    BY <1>1, <1>4, <2>3 DEF Inv, OnePerPage, CleanPart
  <2>6. Inv'
    BY <2>2, <2>4, <2>5 DEF Inv
  <2> QED
    BY <1>1, <1>2, <1>4, <2>3, <2>6
<1> QED
  BY <1>3, <1>4

\* clear() gives up all nodes.
LEMMA ClearInv ==
    ASSUME Inv, Clear
    PROVE  Inv' /\ Allocated' = {}
<1>1. Allocated' = {} /\ pgno' = [x \in Nodes |-> Null]
  BY ListFacts DEF Clear, Allocated
<1>2. TypeOK'
  <2>1. PICK x \in Nodes : TRUE
    BY CacheAssumption DEF Nodes
  <2>2. page[x] \in Contents
    BY <2>1 DEF Inv, TypeOK
  <2>3. Blank \in Contents /\ 0 \in 0 .. Parts
    BY <2>2, CacheAssumption DEF Blank
  <2> QED
    BY <1>1, <2>3 DEF Inv, TypeOK, Clear
<1>3. Path(phead, pnext, pprev, Allocated)'
  <2> DEFINE c == [i \in 1 .. 1 |-> Null]
  <2>1. 0 \in 0 .. Size /\ c \in [1 .. 0 + 1 -> Nodes \cup {Null}] /\ c[1] = Null
    BY CacheAssumption
  <2> HIDE DEF c
  <2>2. IsPath(phead', pnext', pprev', {}, 0, c)
    BY <2>1 DEF IsPath, Clear
  <2> QED
    BY <1>1, <2>1, <2>2 DEF Path
<1> QED
  BY <1>1, <1>2, <1>3 DEF Inv, OnePerPage, CleanPart

\* Every step keeps the invariant.
LEMMA StepInv == Inv /\ [Next]_vars => Inv'
<1> SUFFICES ASSUME Inv, [Next]_vars PROVE Inv'
  OBVIOUS
<1>1. ASSUME NEW p \in PageNos, NEW change \in Changes, GetPageNode(p, change) PROVE Inv'
  BY <1>1, HitInv, ReuseInv, AddInv DEF GetPageNode
<1>2. ASSUME NEW p \in PageNos, GetPage(p) PROVE Inv'
  BY <1>1, <1>2 DEF GetPage, Changes
<1>3. ASSUME NEW p \in PageNos, NEW change \in Change, WritePage(p, change) PROVE Inv'
  BY <1>1, <1>3 DEF WritePage, Changes
<1>4. ASSUME NEW p \in PageNos, RemovePage(p) PROVE Inv'
  BY <1>4, RemoveInv
<1>5. ASSUME NEW p \in PageNos, NEW F \in Failures, Flush(p, F) PROVE Inv'
  <2>1. Holding(p) \subseteq Listed
    BY DEF Holding
  <2> QED
    BY <1>5, <2>1, FlushInv DEF Flush
<1>6. ASSUME NEW F \in Failures, FlushAll(F) PROVE Inv'
  BY <1>6, FlushInv DEF FlushAll
<1>7. CASE Clear
  BY <1>7, ClearInv
<1>8. CASE UNCHANGED vars
  <2>1. TypeOK' /\ Allocated' = Allocated
    BY <1>8 DEF vars, list, Inv, TypeOK, Allocated
  <2> QED
    BY <1>8, <2>1 DEF vars, list, Inv, OnePerPage, CleanPart
<1> QED
  BY <1>2, <1>3, <1>4, <1>5, <1>6, <1>7, <1>8 DEF Next

\* The nodes that the cache holds, and no others, are in the list from the
\* head on, each once and one to a page, whatever is read, written, evicted,
\* removed or cleared and whichever of these calls fail.
THEOREM ListAlwaysSound == Spec => []ListSound
<1>1. Spec => []Inv
  BY InitInv, StepInv, PTL DEF Spec
<1> QED
  BY <1>1, InvListSound, PTL

\* A FlushAll in which no write fails leaves every page of the cache on disk.
THEOREM FlushAllAlwaysSaves == Spec => FlushAllSaves
<1>1. Spec => []Inv
  BY InitInv, StepInv, PTL DEF Spec
<1>2. Inv /\ [Next]_vars => [FlushAll({}) => \A x \in Listed : disk'[pgno[x]] = page[x]]_vars
  <2> SUFFICES ASSUME Inv, FlushAll({}) PROVE \A x \in Listed : disk'[pgno[x]] = page[x]
    OBVIOUS
  <2>1. FlushNodes(Listed, {})
    BY DEF FlushAll
  <2> QED
    BY <2>1, FlushInv
<1> QED
  BY <1>1, <1>2, PTL DEF Spec, FlushAllSaves
-----------------------------------------------------------------------------
(* The cache implements WriteBackStore.                                      *)

\* What a client reads of each page.
Cached ==
    [p \in PageNos |-> IF Holding(p) = {} THEN disk[p]
                       ELSE page[CHOOSE x \in Holding(p) : TRUE]]

CachedIs ==
    /\ \A x \in Allocated : Cached[pgno[x]] = page[x]
    /\ \A p \in PageNos : (\A x \in Allocated : pgno[x] # p) => Cached[p] = disk[p]
    /\ Cached \in [PageNos -> Contents]

\* What is read of a page is in its node, or on disk if it has none.
LEMMA InvCachedIs == Inv => CachedIs
<1> SUFFICES ASSUME Inv PROVE CachedIs
  OBVIOUS
<1>1. ASSUME NEW x \in Allocated PROVE Cached[pgno[x]] = page[x]
  <2>1. Holding(pgno[x]) = {x} /\ pgno[x] \in PageNos
    BY ListFacts DEF Inv, OnePerPage
  <2> QED
    BY <2>1 DEF Cached
<1>2. ASSUME NEW p \in PageNos, \A x \in Allocated : pgno[x] # p
      PROVE  Cached[p] = disk[p]
  BY <1>2, ListFacts DEF Cached
<1>3. ASSUME NEW p \in PageNos PROVE Cached[p] \in Contents
  <2>1. CASE \E x \in Allocated : pgno[x] = p
    BY <2>1, <1>1, ListFacts DEF Inv, TypeOK
  <2>2. CASE \A x \in Allocated : pgno[x] # p
    BY <2>2, <1>2 DEF Inv, TypeOK
  <2> QED
    BY <2>1, <2>2
<1>4. Cached \in [PageNos -> Contents]
  BY <1>3 DEF Cached
<1> QED
  BY <1>1, <1>2, <1>4 DEF CachedIs

\* A step that saves the pages of S and changes what is read of at most p.
LEMMA SaveStep ==
    ASSUME NEW S \in SUBSET PageNos, NEW p \in PageNos, TypeOK', CachedIs', CachedIs,
           \A q \in PageNos : disk'[q] = IF q \in S THEN Cached[q] ELSE disk[q],
           \A q \in PageNos \ {p} : Cached'[q] = Cached[q]
    PROVE  Store!Next
<1>1. disk' = [q \in PageNos |-> IF q \in S THEN Cached[q] ELSE disk[q]]
  BY DEF TypeOK
<1>2. Cached' = [Cached EXCEPT ![p] = Cached'[p]] /\ Cached'[p] \in Contents
  BY DEF CachedIs
<1>3. Store!Save(S)
  BY <1>1 DEF Store!Save, Cached
<1>4. Store!Write(p)
  BY <1>2 DEF Store!Write, Cached
<1> QED
  BY <1>3, <1>4 DEF Store!Next

\* A step that saves the pages of S and changes nothing that is read.
LEMMA KeepStep ==
    ASSUME NEW S \in SUBSET PageNos, TypeOK', CachedIs', CachedIs,
           \A q \in PageNos : disk'[q] = IF q \in S THEN Cached[q] ELSE disk[q],
           \A q \in PageNos : Cached'[q] = Cached[q]
    PROVE  Store!Next
<1>1. disk' = [q \in PageNos |-> IF q \in S THEN Cached[q] ELSE disk[q]]
  BY DEF TypeOK
<1>2. Cached' = Cached
  BY DEF CachedIs
<1>3. Store!Save(S)
  BY <1>1 DEF Store!Save, Cached
<1>4. Store!Keep
  BY <1>2 DEF Store!Keep, Cached
<1> QED
  BY <1>3, <1>4 DEF Store!Next

\* A step that gives up what is not saved of the pages of D.
LEMMA DiscardStep ==
    ASSUME NEW D \in SUBSET PageNos, CachedIs', CachedIs, disk' = disk,
           \A q \in PageNos : Cached'[q] = IF q \in D THEN disk[q] ELSE Cached[q]
    PROVE  Store!Next
<1>1. Cached' = [q \in PageNos |-> IF q \in D THEN disk[q] ELSE Cached[q]]
  BY DEF CachedIs
<1>2. Store!Discard(D)
  BY <1>1 DEF Store!Discard, Cached
<1> QED
  BY <1>2 DEF Store!Next
\* A call of GetPageNode(p) saves the page of the node it gives up, and what is
\* read of the other pages stays.
LEMMA EffectStep ==
    ASSUME Inv, Inv', CachedIs, CachedIs', NEW p \in PageNos, Effect(p)
    PROVE  Store!Next
<1>1. PICK x \in Nodes :
        /\ Allocated' \ {x} = Allocated \ {x}
        /\ \A y \in Allocated \ {x} : pgno'[y] = pgno[y] /\ page'[y] = page[y]
        /\ \/ x \notin Allocated'
           \/ pgno'[x] = p
           \/ x \in Allocated /\ pgno'[x] = pgno[x] /\ page'[x] = page[x]
        /\ \/ disk' = disk /\ (x \in Allocated => x \in Allocated' /\ pgno'[x] = pgno[x])
           \/ x \in Allocated /\ WithSaved(x, disk')
  BY DEF Effect
<1>2. PICK S \in SUBSET PageNos :
        /\ \A q \in PageNos : disk'[q] = IF q \in S THEN Cached[q] ELSE disk[q]
        /\ \A q \in PageNos \ S : disk'[q] = disk[q]
        /\ x \in Allocated =>
             pgno[x] \in S \/ (x \in Allocated' /\ pgno'[x] = pgno[x])
        /\ S # {} => x \in Allocated /\ S = {pgno[x]}
  <2>1. CASE disk' = disk /\ (x \in Allocated => x \in Allocated' /\ pgno'[x] = pgno[x])
    BY <2>1
  <2>2. CASE x \in Allocated /\ WithSaved(x, disk')
    <3>1. /\ disk'[pgno[x]] = page[x] /\ pgno[x] \in PageNos
          /\ \A q \in PageNos \ {pgno[x]} : disk'[q] = disk[q]
      BY <2>2, SavedDisk, ListFacts
    <3>2. Cached[pgno[x]] = page[x]
      BY <2>2 DEF CachedIs
    <3> QED
      BY <2>2, <3>1, <3>2
  <2> QED
    BY <1>1, <2>1, <2>2
<1>3. ASSUME NEW q \in PageNos \ {p} PROVE Cached'[q] = Cached[q]
  <2>1. CASE \E y \in Allocated \ {x} : pgno[y] = q
    <3>1. PICK y \in Allocated \ {x} : pgno[y] = q
      BY <2>1
    <3>2. y \in Allocated' /\ pgno'[y] = q /\ page'[y] = page[y]
      BY <1>1, <3>1
    <3> QED
      BY <3>1, <3>2 DEF CachedIs
  <2>2. CASE (\A y \in Allocated \ {x} : pgno[y] # q) /\ x \in Allocated' /\ pgno'[x] = q
    <3>1. x \in Allocated /\ pgno[x] = q /\ page'[x] = page[x]
      BY <1>1, <2>2
    <3> QED
      BY <2>2, <3>1 DEF CachedIs
  <2>3. CASE (\A y \in Allocated \ {x} : pgno[y] # q) /\ ~(x \in Allocated' /\ pgno'[x] = q)
    <3>1. \A y \in Allocated' : pgno'[y] # q
      BY <1>1, <2>3
    <3>2. Cached'[q] = disk'[q]
      BY <3>1 DEF CachedIs
    <3>3. CASE x \in Allocated /\ pgno[x] = q
      BY <1>2, <2>3, <3>2, <3>3
    <3>4. CASE \A y \in Allocated : pgno[y] # q
      <4>1. Cached[q] = disk[q]
        BY <3>4 DEF CachedIs
      <4>2. q \notin S
        BY <1>2, <3>4
      <4> QED
        BY <1>2, <3>2, <4>1, <4>2
    <3> QED
      BY <2>3, <3>3, <3>4
  <2> QED
    BY <2>1, <2>2, <2>3
<1> QED
  BY <1>2, <1>3, SaveStep DEF Inv

\* A flush saves what is read.
LEMMA FlushStep ==
    ASSUME Inv, Inv', CachedIs, CachedIs', NEW S \in SUBSET Listed, NEW F, FlushNodes(S, F)
    PROVE  Store!Next
<1>1. /\ \A q \in PageNos : (\A x \in S : pgno[x] # q) => disk'[q] = disk[q]
      /\ \A x \in Allocated : disk'[pgno[x]] \in {page[x], disk[pgno[x]]}
  BY FlushInv
<1>2. Allocated' = Allocated /\ pgno' = pgno /\ page' = page /\ S \subseteq Allocated
  BY ListFacts DEF FlushNodes, list, Allocated
<1> DEFINE D == { q \in PageNos : disk'[q] = Cached[q] }
<1>3. ASSUME NEW q \in PageNos
      PROVE  /\ disk'[q] = IF q \in D THEN Cached[q] ELSE disk[q]
             /\ Cached'[q] = Cached[q]
  <2>1. CASE \E x \in Allocated : pgno[x] = q
    BY <2>1, <1>1, <1>2 DEF CachedIs
  <2>2. CASE \A x \in Allocated : pgno[x] # q
    BY <2>2, <1>1, <1>2 DEF CachedIs
  <2> QED
    BY <2>1, <2>2
<1> HIDE DEF D
<1>4. D \in SUBSET PageNos
  BY DEF D
<1> QED
  BY <1>3, <1>4, KeepStep DEF Inv

\* RemovePage falls back to what is on disk.
LEMMA RemoveStep ==
    ASSUME Inv, Inv', CachedIs, CachedIs', NEW p \in PageNos, RemovePage(p)
    PROVE  Store!Next
<1>1. disk' = disk
  BY RemoveInv
<1>2. PICK x \in Allocated :
        /\ pgno[x] = p
        /\ Allocated' = Allocated \/ Allocated' = Allocated \ {x}
        /\ \A y \in Allocated' : pgno'[y] = pgno[y] /\ page'[y] = page[y]
  BY RemoveInv
<1>3. ASSUME NEW q \in PageNos, q # p PROVE Cached'[q] = Cached[q]
  <2>1. CASE \E y \in Allocated : pgno[y] = q
    <3>1. PICK y \in Allocated : pgno[y] = q
      BY <2>1
    <3>2. y \in Allocated' /\ pgno'[y] = q /\ page'[y] = page[y]
      BY <1>2, <1>3, <3>1
    <3> QED
      BY <3>1, <3>2 DEF CachedIs
  <2>2. CASE \A y \in Allocated : pgno[y] # q
    <3>1. \A y \in Allocated' : pgno'[y] # q
      BY <1>2, <2>2
    <3> QED
      BY <1>1, <2>2, <3>1 DEF CachedIs
  <2> QED
    BY <2>1, <2>2
<1>4. CASE Allocated' = Allocated
  <2>1. Cached'[p] = Cached[p]
    BY <1>2, <1>4 DEF CachedIs
  <2> DEFINE D == {}
  <2>2. /\ D \in SUBSET PageNos
        /\ \A q \in PageNos : Cached'[q] = IF q \in D THEN disk[q] ELSE Cached[q]
    BY <1>3, <2>1
  <2> HIDE DEF D
  <2> QED
    BY <1>1, <2>2, DiscardStep
<1>5. CASE Allocated' = Allocated \ {x}
  <2>1. \A y \in Allocated' : pgno'[y] # p
    BY <1>2, <1>5 DEF Inv, OnePerPage
  <2>2. Cached'[p] = disk[p]
    BY <1>1, <2>1 DEF CachedIs
  <2>3. \A q \in PageNos : Cached'[q] = IF q \in {p} THEN disk[q] ELSE Cached[q]
    BY <1>3, <2>2
  <2>4. {p} \in SUBSET PageNos
    OBVIOUS
  <2> QED
    BY <1>1, <2>3, <2>4, DiscardStep
<1> QED
  BY <1>2, <1>4, <1>5

\* Every action is a step of the store.
LEMMA NextStores ==
    ASSUME Inv, Inv', CachedIs, CachedIs', Next
    PROVE  Store!Next
<1>1. ASSUME NEW p \in PageNos, NEW change \in Changes, GetPageNode(p, change)
      PROVE  Store!Next
  <2>1. Effect(p)
    BY <1>1, HitInv, ReuseInv, AddInv DEF GetPageNode
  <2> QED
    BY <2>1, EffectStep
<1>2. ASSUME NEW p \in PageNos, GetPage(p) PROVE Store!Next
  BY <1>1, <1>2 DEF GetPage, Changes
<1>3. ASSUME NEW p \in PageNos, NEW change \in Change, WritePage(p, change) PROVE Store!Next
  BY <1>1, <1>3 DEF WritePage, Changes
<1>4. ASSUME NEW p \in PageNos, RemovePage(p) PROVE Store!Next
  BY <1>4, RemoveStep
<1>5. ASSUME NEW p \in PageNos, NEW F \in Failures, Flush(p, F) PROVE Store!Next
  <2>1. Holding(p) \subseteq Listed
    BY DEF Holding
  <2> QED
    BY <1>5, <2>1, FlushStep DEF Flush
<1>6. ASSUME NEW F \in Failures, FlushAll(F) PROVE Store!Next
  BY <1>6, FlushStep DEF FlushAll
<1>7. ASSUME Clear PROVE Store!Next
  <2>1. Allocated' = {} /\ disk' = disk
    BY <1>7, ClearInv DEF Clear
  <2>2. \A q \in PageNos : Cached'[q] = IF q \in PageNos THEN disk[q] ELSE Cached[q]
    BY <2>1 DEF CachedIs
  <2> QED
    BY <2>1, <2>2, DiscardStep
<1> QED
  BY <1>2, <1>3, <1>4, <1>5, <1>6, <1>7 DEF Next

\* The cache over the disk behaves like a store that is written back: a page
\* that makes room for another is on disk as it was read, and only RemovePage
\* and Clear give up what was not saved.
THEOREM CacheIsStore == Spec => StoreSpec
<1>1. Spec => []Inv
  BY InitInv, StepInv, PTL DEF Spec
<1>2. Init => Store!Init
  <2> SUFFICES ASSUME Init PROVE Store!Init
    OBVIOUS
  <2>1. Inv /\ Allocated = {}
    BY InitInv DEF Init, Allocated
  <2>2. CachedIs /\ disk \in [PageNos -> Contents]
    BY <2>1, InvCachedIs DEF Inv, TypeOK
  <2>3. Cached = disk
    BY <2>1, <2>2 DEF CachedIs
  <2> QED
    BY <2>2, <2>3 DEF Store!Init, Cached
<1>3. [](Inv => CachedIs)
  BY InvCachedIs, PTL
<1>4. Inv /\ Inv' /\ CachedIs /\ CachedIs' /\ [Next]_vars => [Store!Next]_Store!svars
  <2> SUFFICES ASSUME Inv, Inv', CachedIs, CachedIs', [Next]_vars
               PROVE  [Store!Next]_Store!svars
    OBVIOUS
  <2>1. CASE Next
    BY <2>1, NextStores
  <2>2. CASE UNCHANGED vars
    <3>1. disk' = disk /\ Allocated' = Allocated /\ pgno' = pgno /\ page' = page
      BY <2>2 DEF vars, list, Allocated
    <3>2. \A q \in PageNos : Cached'[q] = Cached[q]
      BY <3>1 DEF CachedIs
    <3>3. Cached' = Cached
      BY <3>2 DEF CachedIs
    <3> QED
      BY <3>1, <3>3 DEF Store!svars, Cached
  <2> QED
    BY <2>1, <2>2
<1> QED
  BY <1>1, <1>2, <1>3, <1>4, PTL DEF Spec, StoreSpec, Store!Spec
=============================================================================
