---------------------------- MODULE RedoFileProofs ----------------------------
(***************************************************************************)
(* Proofs about RedoFile: the mutex keeps the two writes of a block together *)
(* and the times of the files in order, and a scan delivers what was logged  *)
(* before it began, for any number of threads, blocks and crashes.           *)
(***************************************************************************)
EXTENDS RedoFile, TLAPS, FiniteSetTheorems, WellFoundedInduction

\* A thread that is between its two writes holds the mutex, and the file is open.
Mutexed ==
    /\ \A t \in Threads : pc[t] \in {"head", "body"} <=> mutex = t
    /\ \A t \in Threads : pc[t] # "idle" => blk[t] \in Blocks
    /\ mutex # Null => open \in Periods

\* What was written last when a body is to be written belongs to its head.
HeadLast ==
    \A t \in Threads : pc[t] = "body" =>
        LET s == log[open]
        IN  /\ Len(s) > 0
            /\ s[Len(s)].blk = blk[t]
            /\ s[Len(s)].part <= HeadLen

\* A unit that does not begin a block follows one of the same block.
Apart(s) ==
    \A k \in 1 .. Len(s) :
        \/ s[k].part = 1
        \/ k > 1 /\ s[k - 1].blk = s[k].blk /\ s[k - 1].part < s[k].part

\* The scan is a record, and counts what it delivers.
ScanInv ==
    /\ scan = [state |-> scan.state, file |-> scan.file, pos |-> scan.pos,
               head |-> scan.head, out |-> scan.out, num |-> scan.num,
               before |-> scan.before]
    /\ scan.state = "body" => scan.head \in Blocks
    /\ scan.state \in {"head", "body"} => scan.num = Len(scan.out)

\* The open file is that of the time the object last looked at, and no block was
\* logged later than that or than now.
Times ==
    /\ open \in {0, timet}
    /\ timet <= now
    /\ \A t \in Threads : pc[t] # "idle" => called[t] <= now
    /\ \A t \in Threads : mutex = t => called[t] <= open
    /\ \A k \in 1 .. Len(acked) : acked[k].file <= now
    /\ mutex # Null => \A k \in 1 .. Len(acked) : acked[k].file <= open

RInv ==
    /\ TypeOK
    /\ Mutexed
    /\ HeadLast
    /\ \A f \in Periods : Apart(log[f])
    /\ ScanInv
    /\ Times

-----------------------------------------------------------------------------
(* Writing.                                                                  *)

\* What a sequence is after m units of u were written behind s.
LEMMA Written ==
    ASSUME NEW T, NEW s \in Seq(T), NEW u \in Seq(T), NEW m \in 0 .. Len(u)
    PROVE  LET r == s \o SubSeq(u, 1, m)
           IN  /\ r \in Seq(T)
               /\ Len(r) = Len(s) + m
               /\ \A k \in 1 .. Len(s) : r[k] = s[k]
               /\ \A j \in 1 .. m : r[Len(s) + j] = u[j]
<1> DEFINE v == SubSeq(u, 1, m)
<1>1. v \in Seq(T) /\ Len(v) = m /\ \A j \in 1 .. m : v[j] = u[j]
  OBVIOUS
<1> HIDE DEF v
<1>2. s \o v \in Seq(T) /\ Len(s \o v) = Len(s) + m
  BY <1>1
<1>3. \A k \in 1 .. Len(s) : (s \o v)[k] = s[k]
  BY <1>1
<1>4. \A j \in 1 .. m : (s \o v)[Len(s) + j] = u[j]
  BY <1>1
<1> QED
  BY <1>2, <1>3, <1>4 DEF v

\* The first m units are those of block b behind its unit number z.
Numbered(units, m, b, z) == \A j \in 1 .. m : units[j] = [blk |-> b, part |-> z + j]

\* len units of block b behind its unit number k.
Behind(b, k, len) == Piece(b, k + 1, k + len)

LEMMA Pieces ==
    ASSUME NEW b \in Blocks, NEW k \in Nat, NEW len \in Nat
    PROVE  /\ Behind(b, k, len) \in Seq(Unit)
           /\ Len(Behind(b, k, len)) = len
           /\ Numbered(Behind(b, k, len), len, b, k)
<1>1. /\ k + len - (k + 1) + 1 = len
      /\ \A j \in 1 .. len : k + 1 + j - 1 = k + j /\ k + j \in Nat \ {0}
  OBVIOUS
<1>2. Behind(b, k, len) = [j \in 1 .. len |-> [blk |-> b, part |-> k + j]]
  BY <1>1 DEF Behind, Piece
<1>3. \A j \in 1 .. len : [blk |-> b, part |-> k + j] \in Unit
  BY <1>1 DEF Unit
<1> DEFINE p == Behind(b, k, len)
           u == [j \in 1 .. len |-> [blk |-> b, part |-> k + j]]
<1>4. u \in Seq(Unit) /\ Len(u) = len /\ \A j \in 1 .. len : u[j] = [blk |-> b, part |-> k + j]
  BY <1>3
<1>5. p = u
  BY <1>2
<1> HIDE DEF p, u
<1>6. p \in Seq(Unit) /\ Len(p) = len /\ Numbered(p, len, b, k)
  BY <1>4, <1>5 DEF Numbered
<1> QED
  BY <1>6 DEF p

LEMMA HeadAndBody ==
    ASSUME NEW b \in Blocks
    PROVE  /\ HeadOf(b) \in Seq(Unit) /\ Len(HeadOf(b)) = HeadLen
           /\ Numbered(HeadOf(b), HeadLen, b, 0)
           /\ BodyOf(b) \in Seq(Unit) /\ Len(BodyOf(b)) = Size[b] /\ Size[b] \in Nat \ {0}
           /\ Numbered(BodyOf(b), Size[b], b, HeadLen)
<1>1. Size[b] \in Nat \ {0} /\ Size[b] \in Nat /\ HeadLen \in Nat
  BY RedoAssumption DEF HeadLen
<1>2. HeadOf(b) = Behind(b, 0, HeadLen) /\ 0 \in Nat
  BY DEF HeadOf, Behind, HeadLen
<1>3. BodyOf(b) = Behind(b, HeadLen, Size[b])
  BY DEF BodyOf, Behind, Length
<1>4. /\ Behind(b, 0, HeadLen) \in Seq(Unit) /\ Len(Behind(b, 0, HeadLen)) = HeadLen
      /\ Numbered(Behind(b, 0, HeadLen), HeadLen, b, 0)
  BY <1>1, <1>2, Pieces
<1>5. /\ Behind(b, HeadLen, Size[b]) \in Seq(Unit) /\ Len(Behind(b, HeadLen, Size[b])) = Size[b]
      /\ Numbered(Behind(b, HeadLen, Size[b]), Size[b], b, HeadLen)
  BY <1>1, Pieces
<1> QED
  BY <1>1, <1>2, <1>3, <1>4, <1>5

LEMMA Fewer ==
    ASSUME NEW u, NEW n \in Nat, NEW m \in Nat, m <= n, NEW b, NEW z, Numbered(u, n, b, z)
    PROVE  Numbered(u, m, b, z)
<1>1. \A j \in 1 .. m : j \in 1 .. n
  OBVIOUS
<1> QED
  BY <1>1 DEF Numbered

\* The log after m of the units were written to the open file.
Grown(units, m) ==
    /\ log' \in [Periods -> Seq(Unit)]
    /\ Len(log'[open]) = Len(log[open]) + m
    /\ \A k \in 1 .. Len(log[open]) : log'[open][k] = log[open][k]
    /\ \A j \in 1 .. m : log'[open][Len(log[open]) + j] = units[j]
    /\ \A f \in Periods : f # open => log'[f] = log[f]

LEMMA GrownBy ==
    ASSUME TypeOK, open \in Periods, NEW units \in Seq(Unit), NEW m \in 0 .. Len(units),
           log' = [log EXCEPT ![open] = @ \o SubSeq(units, 1, m)]
    PROVE  Grown(units, m)
<1>1. log[open] \in Seq(Unit) /\ log'[open] = log[open] \o SubSeq(units, 1, m)
  BY DEF TypeOK
<1>2. /\ log'[open] \in Seq(Unit)
      /\ Len(log'[open]) = Len(log[open]) + m
      /\ \A k \in 1 .. Len(log[open]) : log'[open][k] = log[open][k]
      /\ \A j \in 1 .. m : log'[open][Len(log[open]) + j] = units[j]
  <2> DEFINE r == log'[open]
             s == log[open]
  <2>1. r = s \o SubSeq(units, 1, m) /\ s \in Seq(Unit)
    BY <1>1
  <2> HIDE DEF r, s
  <2>2. /\ r \in Seq(Unit) /\ Len(r) = Len(s) + m
        /\ \A k \in 1 .. Len(s) : r[k] = s[k]
        /\ \A j \in 1 .. m : r[Len(s) + j] = units[j]
    BY <2>1, Written
  <2> QED
    BY <2>2 DEF r, s
<1>3. \A f \in Periods : f # open => log'[f] = log[f]
  BY DEF TypeOK
<1>4. log' \in [Periods -> Seq(Unit)]
  BY <1>2, <1>3 DEF TypeOK
<1> QED
  BY <1>2, <1>3, <1>4 DEF Grown

\* write() puts all units, or some, or none behind the file.
LEMMA WroteIs ==
    ASSUME TypeOK, open \in Periods, NEW units \in Seq(Unit), NEW ok \in BOOLEAN,
           Wrote(units, ok)
    PROVE  \E m \in 0 .. Len(units) :
               /\ Grown(units, m)
               /\ ok => m = Len(units) \/ (m > 0 /\ May("shortWrite"))
<1>1. PICK m \in 0 .. Len(units) :
        /\ log' = [log EXCEPT ![open] = @ \o SubSeq(units, 1, m)]
        /\ \/ m = Len(units) /\ ok
           \/ m > 0 /\ m < Len(units) /\ ok /\ May("shortWrite")
           \/ m = 0 /\ ~ok /\ May("writeFault")
  BY DEF Wrote
<1>2. Grown(units, m)
  BY <1>1, GrownBy
<1> QED
  BY <1>1, <1>2

LEMMA Between ==
    ASSUME NEW n \in Nat, NEW m \in Nat, NEW k \in 1 .. n + m, k > n + 1
    PROVE  /\ k - n \in 1 .. m /\ k - 1 - n \in 1 .. m /\ n + (k - n) = k
           /\ n + (k - 1 - n) = k - 1 /\ k - 1 - n < k - n /\ k > 1
  OBVIOUS

\* r is s and m of the units behind it.
Longer(r, s, units, m) ==
    /\ Len(r) = Len(s) + m
    /\ \A k \in 1 .. Len(s) : r[k] = s[k]
    /\ \A j \in 1 .. m : r[Len(s) + j] = units[j]

\* m units of block b behind its units up to number z.
LEMMA ApartGrows ==
    ASSUME NEW s \in Seq(Unit), NEW r \in Seq(Unit), NEW units, NEW m \in Nat,
           NEW b, NEW z \in Nat,
           Longer(r, s, units, m), Numbered(units, m, b, z), Apart(s),
           z = 0 \/ (Len(s) > 0 /\ s[Len(s)].blk = b /\ s[Len(s)].part <= z)
    PROVE  /\ Apart(r)
           /\ m > 0 => Len(r) > 0 /\ r[Len(r)].blk = b /\ r[Len(r)].part = z + m
<1> DEFINE n == Len(s)
<1>0. n \in Nat /\ Len(r) = n + m /\ \A k \in 1 .. n : r[k] = s[k]
  BY DEF Longer
<1>1. \A j \in 1 .. m : r[n + j].blk = b /\ r[n + j].part = z + j
  <2> SUFFICES ASSUME NEW j \in 1 .. m PROVE r[n + j].blk = b /\ r[n + j].part = z + j
    OBVIOUS
  <2>1. r[n + j] = [blk |-> b, part |-> z + j]
    BY DEF Numbered, Longer
  <2> QED
    BY <2>1
<1>2. /\ \A k \in 1 .. n :
            \/ s[k].part = 1
            \/ k > 1 /\ s[k - 1].blk = s[k].blk /\ s[k - 1].part < s[k].part
      /\ \A k \in 1 .. n : s[k].part \in Nat
      /\ z = 0 \/ (n > 0 /\ s[n].blk = b /\ s[n].part <= z)
  <2>1. \A k \in 1 .. n : s[k] \in Unit
    OBVIOUS
  <2>2. \A k \in 1 .. n : s[k].part \in Nat
    BY <2>1 DEF Unit
  <2> QED
    BY <2>2 DEF Apart
<1> HIDE DEF n
<1>3. ASSUME NEW k \in 1 .. n + m
      PROVE  \/ r[k].part = 1
             \/ k > 1 /\ r[k - 1].blk = r[k].blk /\ r[k - 1].part < r[k].part
  <2>1. CASE k <= n
    <3>1. k \in 1 .. n /\ (k > 1 => k - 1 \in 1 .. n)
      BY <1>0, <2>1
    <3>2. r[k] = s[k] /\ (k > 1 => r[k - 1] = s[k - 1])
      BY <1>0, <3>1
    <3> QED
      BY <1>2, <3>1, <3>2
  <2>2. CASE k = n + 1
    <3>1. 1 \in 1 .. m
      BY <1>0, <2>2
    <3>2. r[k].blk = b /\ r[k].part = z + 1
      BY <1>1, <2>2, <3>1
    <3>3. CASE z = 0
      BY <3>2, <3>3
    <3>4. CASE z # 0
      <4>1. n \in 1 .. n /\ k - 1 = n /\ k > 1
        BY <1>0, <1>2, <2>2, <3>4
      <4>2. r[k - 1] = s[n]
        BY <1>0, <4>1
      <4> QED
        BY <1>2, <3>2, <3>4, <4>1, <4>2
    <3> QED
      BY <3>3, <3>4
  <2>3. CASE k > n + 1
    <3> DEFINE j == k - n
               i == k - 1 - n
    <3>1. j \in 1 .. m /\ i \in 1 .. m /\ n + j = k /\ n + i = k - 1 /\ i < j /\ k > 1
      BY <1>0, <2>3, Between
    <3> HIDE DEF j, i
    <3>2. r[n + j].blk = b /\ r[n + j].part = z + j /\ r[n + i].blk = b /\ r[n + i].part = z + i
      BY <1>1, <3>1
    <3>3. r[n + i].part < r[n + j].part
      BY <3>1, <3>2
    <3> QED
      BY <3>1, <3>2, <3>3
  <2> QED
    BY <1>0, <2>1, <2>2, <2>3
<1>4. Apart(r)
  BY <1>0, <1>3 DEF Apart
<1>5. ASSUME m > 0 PROVE Len(r) > 0 /\ r[Len(r)].blk = b /\ r[Len(r)].part = z + m
  <2>1. m \in 1 .. m /\ Len(r) > 0
    BY <1>0, <1>5
  <2>2. r[n + m].blk = b /\ r[n + m].part = z + m
    BY <1>1, <2>1
  <2> QED
    BY <1>0, <2>1, <2>2
<1> QED
  BY <1>4, <1>5

-----------------------------------------------------------------------------
(* The invariant is inductive.                                               *)

LEMMA RInit == Init => RInv
<1> SUFFICES ASSUME Init PROVE RInv
  OBVIOUS
<1> USE RedoAssumption DEF Init
<1>1. log \in [Periods -> Seq(Unit)] /\ acked \in Seq([blk : Blocks, file : Periods])
  OBVIOUS
<1>2. 1 \in Periods /\ 0 \in 0 .. LastPeriod
  BY DEF Periods
<1>3. /\ scan.state = "none" /\ scan.file = 1 /\ scan.pos = 0 /\ scan.head = Null
      /\ scan.out = <<>> /\ scan.num = 0
  BY DEF NoScan
<1>4. TypeOK
  <2>1. scan.pos \in 0 .. Len(log[scan.file])
    BY <1>2, <1>3
  <2>2. scan.out \in Seq([head : Blocks, body : Seq(Unit)]) /\ scan.num \in {-1, Len(scan.out)}
    BY <1>3
  <2>3. /\ scan.state \in {"none", "head", "body", "done"} /\ scan.file \in Periods
        /\ scan.head \in Blocks \cup {Null}
    BY <1>2, <1>3
  <2>4. /\ pc \in [Threads -> {"idle", "wait", "head", "body"}]
        /\ blk \in [Threads -> Blocks \cup {Null}] /\ called \in [Threads -> Periods]
        /\ crashes \in 0 .. MaxCrashes
    BY <1>2
  <2> QED
    BY <1>1, <1>2, <2>1, <2>2, <2>3, <2>4 DEF TypeOK
<1>5. Mutexed
  BY DEF Mutexed
<1>6. HeadLast
  BY DEF HeadLast
<1>7. \A f \in Periods : Apart(log[f])
  BY DEF Apart
<1>8. ScanInv
  BY DEF ScanInv, NoScan
<1>9. Times
  BY DEF Times
<1> QED
  BY <1>4, <1>5, <1>6, <1>7, <1>8, <1>9 DEF RInv

\* The scan keeps its type while the log only grows.
ScanType ==
    /\ scan.state \in {"none", "head", "body", "done"}
    /\ scan.file \in Periods
    /\ scan.pos \in 0 .. Len(log[scan.file])
    /\ scan.head \in Blocks \cup {Null}
    /\ scan.out \in Seq([head : Blocks, body : Seq(Unit)])
    /\ scan.num \in {-1, Len(scan.out)}

\* The type of all else.
RestType ==
    /\ now \in Periods
    /\ log \in [Periods -> Seq(Unit)]
    /\ made \subseteq Periods
    /\ timet \in 0 .. LastPeriod
    /\ open \in 0 .. LastPeriod
    /\ mutex \in Threads \cup {Null}
    /\ pc \in [Threads -> {"idle", "wait", "head", "body"}]
    /\ blk \in [Threads -> Blocks \cup {Null}]
    /\ called \in [Threads -> Periods]
    /\ acked \in Seq([blk : Blocks, file : Periods])
    /\ crashes \in 0 .. MaxCrashes

LEMMA TypeParts == TypeOK <=> RestType /\ ScanType
  BY DEF TypeOK, RestType, ScanType

LEMMA TypePartsNext == TypeOK' <=> RestType' /\ ScanType'
<1>1. TypeOK <=> RestType /\ ScanType
  BY TypeParts
<1> QED
  BY <1>1, PTL

LEMMA Element ==
    ASSUME NEW T, NEW s \in Seq(T)
    PROVE  \A k \in 1 .. Len(s) : s[k] \in T
  OBVIOUS

LEMMA AckedType ==
    ASSUME RestType
    PROVE  \A k \in 1 .. Len(acked) : /\ acked[k] = [blk |-> acked[k].blk, file |-> acked[k].file]
                                      /\ acked[k].blk \in Blocks
                                      /\ acked[k].file \in Periods /\ acked[k].file \in Int
<1>1. acked \in Seq([blk : Blocks, file : Periods])
  BY DEF RestType
<1>2. \A k \in 1 .. Len(acked) : acked[k] \in [blk : Blocks, file : Periods]
  BY <1>1, Element
<1> QED
  BY <1>2 DEF Periods

LEMMA ScanLeft ==
    ASSUME TypeOK, ScanInv, UNCHANGED scan, log' \in [Periods -> Seq(Unit)],
           \A f \in Periods : Len(log'[f]) >= Len(log[f])
    PROVE  ScanType' /\ ScanInv'
<1>1. ScanInv'
  BY DEF ScanInv
<1>2. scan.file \in Periods /\ scan.pos \in 0 .. Len(log[scan.file])
  BY DEF TypeOK
<1>3. log \in [Periods -> Seq(Unit)]
  BY DEF TypeOK
<1>4. scan.pos \in 0 .. Len(log'[scan.file])
  BY <1>2, <1>3
<1>5. ScanType'
  BY <1>2, <1>4 DEF TypeOK, ScanType
<1> QED
  BY <1>1, <1>5

\* One proof for the steps that write nothing and leave the scan alone: what
\* remains to be shown of them is Mutexed, HeadLast and Times.
LEMMA NothingWritten ==
    ASSUME RInv, UNCHANGED <<log, scan>>
    PROVE  ScanType' /\ ScanInv' /\ (\A f \in Periods : Apart(log[f]))'
<1>1. log \in [Periods -> Seq(Unit)] /\ \A f \in Periods : Len(log[f]) >= Len(log[f])
  BY DEF RInv, TypeOK
<1> QED
  BY <1>1, ScanLeft DEF RInv

LEMMA CallInv ==
    ASSUME RInv, NEW t \in Threads, NEW b \in Blocks, Call(t, b)
    PROVE  RInv'
<1> USE RedoAssumption DEF RInv, Call, object
<1>0. RestType
  BY TypeParts
<1>1. RestType'
  BY <1>0 DEF RestType
<1>2. ScanType' /\ ScanInv' /\ (\A f \in Periods : Apart(log[f]))'
  BY NothingWritten
<1>3. Mutexed'
  BY <1>0 DEF Mutexed, RestType
<1>4. HeadLast'
  BY <1>0 DEF HeadLast, RestType
<1>5. Times'
  <2>1. now \in Int /\ mutex # t
    <3>1. now \in Int
      BY <1>0 DEF RestType, Periods
    <3>2. pc[t] = "idle" => mutex # t
      BY DEF Mutexed
    <3> QED
      BY <3>1, <3>2
  <2>2. \A x \in Threads : pc'[x] # "idle" => called'[x] <= now
    BY <1>0, <2>1 DEF RestType, Times
  <2>3. \A x \in Threads : mutex = x => called'[x] <= open
    BY <1>0, <2>1 DEF RestType, Times
  <2> QED
    BY <2>2, <2>3 DEF Times
<1> QED
  BY <1>1, <1>2, <1>3, <1>4, <1>5, TypePartsNext

LEMMA EnterInv ==
    ASSUME RInv, NEW t \in Threads, Enter(t)
    PROVE  RInv'
<1> USE RedoAssumption DEF RInv
<1>0. RestType
  BY TypeParts
<1>1. ScanType' /\ ScanInv' /\ (\A f \in Periods : Apart(log[f]))'
  BY NothingWritten DEF Enter
<1>2. /\ now \in Int /\ now \in Periods /\ now \in 0 .. LastPeriod /\ timet' = now
      /\ mutex = Null /\ pc[t] = "wait" /\ UNCHANGED <<now, acked, crashes, called>>
      /\ \A x \in Threads : pc[x] \notin {"head", "body"}
  BY <1>0 DEF RestType, Periods, Mutexed, Enter, Return
<1>3. CASE /\ open' = (IF Rotated = 0 THEN now ELSE Rotated) /\ made' = made \cup {now}
           /\ mutex' = t /\ pc' = [pc EXCEPT ![t] = "head"] /\ UNCHANGED blk
  <2>1. open' = now
    BY <1>2, <1>3 DEF Rotated, Times
  <2>2. RestType'
    BY <1>0, <1>2, <1>3, <2>1 DEF RestType, Enter
  <2>3. Mutexed'
    BY <1>0, <1>2, <1>3, <2>1 DEF Mutexed, RestType
  <2>4. HeadLast'
    BY <1>0, <1>2, <1>3 DEF HeadLast, RestType
  <2>5. Times'
    <3>1. \A x \in Threads : pc'[x] # "idle" => pc[x] # "idle"
      BY <1>0, <1>2, <1>3 DEF RestType
    <3>2. now <= now /\ called[t] <= now
      BY <1>2 DEF Times
    <3> QED
      BY <1>2, <1>3, <2>1, <3>1, <3>2 DEF Times
  <2> QED
    BY <1>1, <2>2, <2>3, <2>4, <2>5, TypePartsNext
<1>4. CASE open' = 0 /\ Return(t) /\ UNCHANGED made
  <2>1. RestType'
    BY <1>0, <1>2, <1>4 DEF RestType, Enter, Return
  <2>2. Mutexed'
    BY <1>0, <1>2, <1>4 DEF Mutexed, RestType, Return
  <2>3. HeadLast'
    BY <1>0, <1>2, <1>4 DEF HeadLast, RestType, Return
  <2>4. Times'
    <3>1. mutex' = Null /\ \A x \in Threads : pc'[x] # "idle" => pc[x] # "idle"
      BY <1>0, <1>2, <1>4 DEF RestType, Return
    <3>2. now <= now
      BY <1>2
    <3> QED
      BY <1>2, <1>4, <3>1, <3>2 DEF Times
  <2> QED
    BY <1>1, <2>1, <2>2, <2>3, <2>4, TypePartsNext
<1> QED
  BY <1>2, <1>3, <1>4 DEF Enter

LEMMA SwitchInv ==
    ASSUME RInv, SwitchFile \/ Close
    PROVE  RInv'
<1> USE RedoAssumption DEF RInv, threads
<1>0. RestType
  BY TypeParts
<1>1. ScanType' /\ ScanInv' /\ (\A f \in Periods : Apart(log[f]))'
  BY NothingWritten DEF SwitchFile, Close
<1>2. /\ mutex = Null /\ UNCHANGED <<now, log, made, mutex, pc, blk, called, acked, crashes>>
      /\ \A x \in Threads : pc[x] \notin {"head", "body"}
  BY DEF SwitchFile, Close, Mutexed
<1>3. open' \in {0, timet'} /\ timet' <= now /\ timet' \in 0 .. LastPeriod
  BY <1>0 DEF SwitchFile, Close, Rotated, Times, RestType, Periods
<1>4. RestType'
  BY <1>0, <1>2, <1>3 DEF RestType
<1>5. Mutexed' /\ HeadLast'
  BY <1>2 DEF Mutexed, HeadLast
<1>6. Times'
  BY <1>2, <1>3 DEF Times
<1> QED
  BY <1>1, <1>4, <1>5, <1>6, TypePartsNext

LEMMA TickInv ==
    ASSUME RInv, Tick
    PROVE  RInv'
<1> USE RedoAssumption DEF RInv, threads, object
<1>0. RestType
  BY TypeParts
<1>1. ScanType' /\ ScanInv' /\ (\A f \in Periods : Apart(log[f]))'
  BY NothingWritten DEF Tick
<1>2. RestType'
  BY <1>0 DEF RestType, Tick, Periods
<1>3. Mutexed' /\ HeadLast'
  BY DEF Mutexed, HeadLast, Tick
<1>4. Times'
  <2>1. /\ now \in Int /\ timet \in Int /\ now' = now + 1
        /\ \A x \in Threads : called[x] \in Int
    BY <1>0 DEF RestType, Tick, Periods
  <2>2. \A k \in 1 .. Len(acked) : acked[k].file \in Int
    BY <1>0, AckedType
  <2>3. /\ timet <= now' /\ \A x \in Threads : called[x] <= now => called[x] <= now'
        /\ \A k \in 1 .. Len(acked) : acked[k].file <= now'
    BY <2>1, <2>2 DEF Times
  <2> QED
    BY <2>3 DEF Times, Tick
<1> QED
  BY <1>1, <1>2, <1>3, <1>4, TypePartsNext

\* The units a thread writes next.
Pending(t) == IF pc[t] = "head" THEN HeadOf(blk[t]) ELSE BodyOf(blk[t])

\* What part of them leaves of the log.
LEMMA WriteKeeps ==
    ASSUME RInv, NEW t \in Threads, mutex = t,
           NEW m \in 0 .. Len(Pending(t)), Grown(Pending(t), m)
    PROVE  /\ log' \in [Periods -> Seq(Unit)]
           /\ \A f \in Periods : Len(log'[f]) >= Len(log[f])
           /\ (\A f \in Periods : Apart(log[f]))'
           /\ pc[t] = "head" /\ m > 0 =>
                 /\ Len(log'[open]) > 0
                 /\ log'[open][Len(log'[open])].blk = blk[t]
                 /\ log'[open][Len(log'[open])].part <= HeadLen
<1>1. /\ open \in Periods /\ blk[t] \in Blocks /\ pc[t] \in {"head", "body"}
      /\ log \in [Periods -> Seq(Unit)]
  BY RedoAssumption DEF RInv, Mutexed, TypeOK
<1> DEFINE z == IF pc[t] = "head" THEN 0 ELSE HeadLen
           u == Pending(t)
           s == log[open]
           r == log'[open]
<1>2. /\ z \in Nat /\ m \in Nat /\ Numbered(u, m, blk[t], z)
      /\ pc[t] = "head" => m <= HeadLen
  <2>1. CASE pc[t] = "head"
    <3>1. u = HeadOf(blk[t]) /\ z = 0 /\ HeadLen \in Nat
      BY <2>1 DEF Pending, HeadLen
    <3>2. Len(HeadOf(blk[t])) = HeadLen /\ Numbered(HeadOf(blk[t]), HeadLen, blk[t], 0)
      BY <1>1, HeadAndBody
    <3>3. m \in Nat /\ m <= HeadLen
      BY <3>1, <3>2
    <3>4. Numbered(HeadOf(blk[t]), m, blk[t], 0)
      BY <3>1, <3>2, <3>3, Fewer
    <3> QED
      BY <3>1, <3>3, <3>4
  <2>2. CASE pc[t] # "head"
    <3>1. u = BodyOf(blk[t]) /\ z = HeadLen /\ HeadLen \in Nat
      BY <2>2 DEF Pending, HeadLen
    <3>2. /\ Len(BodyOf(blk[t])) = Size[blk[t]] /\ Size[blk[t]] \in Nat
          /\ Numbered(BodyOf(blk[t]), Size[blk[t]], blk[t], HeadLen)
      BY <1>1, HeadAndBody
    <3>3. m \in Nat /\ m <= Size[blk[t]]
      BY <3>1, <3>2
    <3>4. Numbered(BodyOf(blk[t]), m, blk[t], HeadLen)
      BY <3>1, <3>2, <3>3, Fewer
    <3> QED
      BY <2>2, <3>1, <3>3, <3>4
  <2> QED
    BY <2>1, <2>2
<1>3. z = 0 \/ (Len(s) > 0 /\ s[Len(s)].blk = blk[t] /\ s[Len(s)].part <= z)
  BY <1>1 DEF RInv, HeadLast
<1>4. s \in Seq(Unit) /\ r \in Seq(Unit) /\ Longer(r, s, u, m) /\ Apart(s)
  BY <1>1 DEF Grown, Longer, RInv
<1>5. log' \in [Periods -> Seq(Unit)] /\ \A f \in Periods : f # open => log'[f] = log[f]
  BY DEF Grown
<1>6. pc[t] = "head" => z = 0
  OBVIOUS
<1> HIDE DEF z, u, s, r
<1>7. /\ Apart(r)
      /\ m > 0 => Len(r) > 0 /\ r[Len(r)].blk = blk[t] /\ r[Len(r)].part = z + m
  BY <1>2, <1>3, <1>4, ApartGrows
<1>8. Len(r) >= Len(s)
  BY <1>2, <1>4 DEF Longer
<1>9. /\ pc[t] = "head" /\ m > 0 =>
           Len(r) > 0 /\ r[Len(r)].blk = blk[t] /\ r[Len(r)].part <= HeadLen
  BY <1>2, <1>6, <1>7
<1>10. \A f \in Periods : Len(log'[f]) >= Len(log[f])
  <2>1. \A f \in Periods : Len(log[f]) \in Nat /\ Len(log[f]) >= Len(log[f])
    BY <1>1
  <2> QED
    BY <1>5, <1>8, <2>1 DEF r, s
<1>11. \A f \in Periods : Apart(log'[f])
  BY <1>5, <1>7 DEF r, RInv
<1> QED
  BY <1>5, <1>9, <1>10, <1>11 DEF r

\* The same of a write with its result.
LEMMA WriteStep ==
    ASSUME RInv, NEW t \in Threads, mutex = t, NEW ok \in BOOLEAN, Wrote(Pending(t), ok)
    PROVE  \E m \in 0 .. Len(Pending(t)) :
              /\ Grown(Pending(t), m)
              /\ ok => m = Len(Pending(t)) \/ (m > 0 /\ May("shortWrite"))
<1>1. open \in Periods /\ blk[t] \in Blocks
  BY RedoAssumption DEF RInv, Mutexed
<1>2. Pending(t) \in Seq(Unit)
  BY <1>1, HeadAndBody DEF Pending
<1> QED
  BY <1>1, <1>2, WroteIs DEF RInv

\* A call that returns while its thread holds the mutex.
LEMMA Returned ==
    ASSUME RInv, NEW t \in Threads, mutex = t, Return(t), log' \in [Periods -> Seq(Unit)],
           UNCHANGED <<now, made, timet, open, crashes>>,
           acked' \in Seq([blk : Blocks, file : Periods]),
           \A k \in 1 .. Len(acked') : acked'[k].file <= now
    PROVE  RestType' /\ Mutexed' /\ HeadLast' /\ Times'
<1> USE RedoAssumption
<1>0. RestType
  BY TypeParts DEF RInv
<1>1. /\ mutex' = Null /\ called' = called
      /\ pc' \in [Threads -> {"idle", "wait", "head", "body"}]
      /\ blk' \in [Threads -> Blocks \cup {Null}]
      /\ \A x \in Threads : /\ pc'[x] = IF x = t THEN "idle" ELSE pc[x]
                            /\ blk'[x] = IF x = t THEN Null ELSE blk[x]
  BY <1>0 DEF RestType, Return
<1>2. \A x \in Threads : /\ pc'[x] \notin {"head", "body"}
                         /\ pc'[x] # "idle" => pc[x] # "idle" /\ blk'[x] \in Blocks
  BY <1>1 DEF RInv, Mutexed
<1>3. RestType'
  BY <1>0, <1>1 DEF RestType
<1>4. Mutexed'
  BY <1>1, <1>2 DEF Mutexed
<1>5. HeadLast'
  BY <1>2 DEF HeadLast
<1>6. Times'
  BY <1>1, <1>2 DEF RInv, Times
<1> QED
  BY <1>3, <1>4, <1>5, <1>6

LEMMA WriteHeadInv ==
    ASSUME RInv, NEW t \in Threads, WriteHead(t)
    PROVE  RInv'
<1> USE RedoAssumption
<1>0. RestType
  BY TypeParts DEF RInv
<1>1. /\ pc[t] = "head" /\ mutex = t /\ Pending(t) = HeadOf(blk[t]) /\ blk[t] \in Blocks
      /\ UNCHANGED <<now, made, timet, open, acked, crashes, scan>>
  BY DEF WriteHead, Pending, RInv, Mutexed, object
<1>2. Len(Pending(t)) > 0
  <2>1. Len(HeadOf(blk[t])) = HeadLen
    BY <1>1, HeadAndBody
  <2> QED
    BY <1>1, <2>1 DEF HeadLen
<1>3. CASE Wrote(Pending(t), TRUE) /\ pc' = [pc EXCEPT ![t] = "body"] /\ UNCHANGED <<mutex, blk, called>>
  <2>1. PICK m \in 0 .. Len(Pending(t)) : Grown(Pending(t), m) /\ m > 0
    BY <1>1, <1>2, <1>3, WriteStep
  <2>2. /\ log' \in [Periods -> Seq(Unit)]
        /\ \A f \in Periods : Len(log'[f]) >= Len(log[f])
        /\ (\A f \in Periods : Apart(log[f]))'
        /\ Len(log'[open]) > 0
        /\ log'[open][Len(log'[open])].blk = blk[t]
        /\ log'[open][Len(log'[open])].part <= HeadLen
    BY <1>1, <2>1, WriteKeeps
  <2>3. ScanType' /\ ScanInv'
    BY <1>1, <2>2, ScanLeft DEF RInv
  <2>4. RestType'
    BY <1>0, <1>1, <1>3, <2>2 DEF RestType
  <2>5. Mutexed'
    BY <1>0, <1>1, <1>3 DEF RInv, Mutexed, RestType
  <2>6. HeadLast'
    <3>1. \A x \in Threads : pc'[x] = "body" => x = t
      BY <1>0, <1>1, <1>3 DEF RInv, Mutexed, RestType
    <3> QED
      BY <1>1, <1>3, <2>2, <3>1 DEF HeadLast
  <2>7. Times'
    <3>1. \A x \in Threads : pc'[x] # "idle" => pc[x] # "idle"
      BY <1>0, <1>1, <1>3 DEF RestType
    <3> QED
      BY <1>1, <1>3, <3>1 DEF RInv, Times
  <2> QED
    BY <2>2, <2>3, <2>4, <2>5, <2>6, <2>7, TypePartsNext DEF RInv
<1>4. CASE Wrote(Pending(t), FALSE) /\ Return(t)
  <2>1. PICK m \in 0 .. Len(Pending(t)) : Grown(Pending(t), m)
    BY <1>1, <1>4, WriteStep
  <2>2. /\ log' \in [Periods -> Seq(Unit)]
        /\ \A f \in Periods : Len(log'[f]) >= Len(log[f])
        /\ (\A f \in Periods : Apart(log[f]))'
    BY <1>1, <2>1, WriteKeeps
  <2>3. ScanType' /\ ScanInv'
    BY <1>1, <2>2, ScanLeft DEF RInv
  <2>4. /\ acked' \in Seq([blk : Blocks, file : Periods])
        /\ \A k \in 1 .. Len(acked') : acked'[k].file <= now
    BY <1>0, <1>1 DEF RestType, RInv, Times
  <2>5. RestType' /\ Mutexed' /\ HeadLast' /\ Times'
    BY <1>1, <1>4, <2>2, <2>4, Returned
  <2> QED
    BY <2>2, <2>3, <2>5, TypePartsNext DEF RInv
<1> QED
  BY <1>1, <1>3, <1>4 DEF WriteHead

LEMMA Appending ==
    ASSUME NEW T, NEW s \in Seq(T), NEW e
    PROVE  LET r == Append(s, e)
           IN  /\ Len(r) = Len(s) + 1 /\ Len(s) \in Nat
               /\ \A k \in 1 .. Len(s) : r[k] = s[k]
               /\ r[Len(s) + 1] = e
  OBVIOUS

LEMMA AckedGrows ==
    ASSUME RestType, NEW b \in Blocks, NEW f \in Periods, f <= now,
           acked' = Append(acked, [blk |-> b, file |-> f]),
           \A k \in 1 .. Len(acked) : acked[k].file <= now
    PROVE  /\ acked' \in Seq([blk : Blocks, file : Periods])
           /\ \A k \in 1 .. Len(acked') : acked'[k].file <= now
           /\ Len(acked') = Len(acked) + 1
           /\ \A k \in 1 .. Len(acked) : acked'[k] = acked[k]
           /\ acked'[Len(acked) + 1] = [blk |-> b, file |-> f]
<1> DEFINE T == [blk : Blocks, file : Periods]
           e == [blk |-> b, file |-> f]
<1>1. acked \in Seq(T) /\ e \in T /\ e.file <= now
  BY DEF RestType
<1> HIDE DEF T, e
<1>2. /\ Append(acked, e) \in Seq(T) /\ Len(Append(acked, e)) = Len(acked) + 1
      /\ \A k \in 1 .. Len(acked) : Append(acked, e)[k] = acked[k]
      /\ Append(acked, e)[Len(acked) + 1] = e
      /\ Len(acked) \in Nat
  BY <1>1
<1>3. acked' = Append(acked, e)
  BY DEF e
<1>4. \A k \in 1 .. Len(acked') : acked'[k].file <= now
  <2>1. \A k \in 1 .. Len(acked) + 1 : k \in 1 .. Len(acked) \/ k = Len(acked) + 1
    BY <1>2
  <2> QED
    BY <1>1, <1>2, <1>3, <2>1
<1> QED
  BY <1>2, <1>3, <1>4 DEF T, e

LEMMA WriteBodyInv ==
    ASSUME RInv, NEW t \in Threads, WriteBody(t)
    PROVE  RInv'
<1> USE RedoAssumption
<1>0. RestType
  BY TypeParts DEF RInv
<1>1. /\ pc[t] = "body" /\ mutex = t /\ Pending(t) = BodyOf(blk[t]) /\ blk[t] \in Blocks
      /\ open \in Periods /\ open <= now
      /\ UNCHANGED <<now, made, timet, open, crashes, scan>> /\ Return(t)
  <2>1. /\ pc[t] = "body" /\ mutex = t /\ Pending(t) = BodyOf(blk[t]) /\ blk[t] \in Blocks
        /\ open \in Periods
        /\ UNCHANGED <<now, made, timet, open, crashes, scan>> /\ Return(t)
    BY DEF WriteBody, Pending, RInv, Mutexed, object
  <2>2. open <= now
    BY <1>0, <2>1 DEF RInv, Times, RestType, Periods
  <2> QED
    BY <2>1, <2>2
<1>2. PICK m \in 0 .. Len(Pending(t)) : Grown(Pending(t), m)
  <2>1. CASE Wrote(Pending(t), TRUE)
    BY <1>1, <2>1, WriteStep
  <2>2. CASE Wrote(Pending(t), FALSE)
    BY <1>1, <2>2, WriteStep
  <2> QED
    BY <1>1, <2>1, <2>2 DEF WriteBody
<1>3. /\ log' \in [Periods -> Seq(Unit)]
      /\ \A f \in Periods : Len(log'[f]) >= Len(log[f])
      /\ (\A f \in Periods : Apart(log[f]))'
  BY <1>1, <1>2, WriteKeeps
<1>4. ScanType' /\ ScanInv'
  BY <1>1, <1>3, ScanLeft DEF RInv
<1>5. /\ acked' \in Seq([blk : Blocks, file : Periods])
      /\ \A k \in 1 .. Len(acked') : acked'[k].file <= now
  <2>1. CASE UNCHANGED acked
    BY <1>0, <2>1 DEF RestType, RInv, Times
  <2>2. CASE acked' = Append(acked, [blk |-> blk[t], file |-> open])
    BY <1>0, <1>1, <2>2, AckedGrows DEF RInv, Times
  <2> QED
    BY <2>1, <2>2 DEF WriteBody
<1>6. RestType' /\ Mutexed' /\ HeadLast' /\ Times'
  BY <1>1, <1>3, <1>5, Returned
<1> QED
  BY <1>3, <1>4, <1>6, TypePartsNext DEF RInv

LEMMA CrashInv ==
    ASSUME RInv, Crash
    PROVE  RInv'
<1> USE RedoAssumption
<1>0. RestType
  BY TypeParts DEF RInv
<1>1. /\ timet' = 0 /\ open' = 0 /\ mutex' = Null
      /\ pc' = [t \in Threads |-> "idle"] /\ blk' = [t \in Threads |-> Null]
      /\ UNCHANGED <<now, made, called, acked, scan>>
      /\ crashes' = crashes + 1 /\ crashes < MaxCrashes
  BY DEF Crash
<1>2. /\ log' \in [Periods -> Seq(Unit)]
      /\ \A f \in Periods : Len(log'[f]) >= Len(log[f])
      /\ (\A f \in Periods : Apart(log[f]))'
  <2>1. CASE UNCHANGED log
    <3>1. log \in [Periods -> Seq(Unit)]
      BY <1>0 DEF RestType
    <3>2. \A f \in Periods : Len(log[f]) \in Nat
      BY <3>1
    <3>3. \A f \in Periods : Len(log[f]) >= Len(log[f])
      BY <3>2
    <3> QED
      BY <2>1, <3>1, <3>3 DEF RInv
  <2>2. CASE ~ UNCHANGED log
    <3>1. mutex \in Threads /\ open \in Periods /\ blk[mutex] \in Blocks
      BY <1>0, <2>2 DEF Crash, RestType, RInv, Mutexed
    <3>2. Pending(mutex) \in Seq(Unit)
      BY <3>1, HeadAndBody DEF Pending
    <3>3. PICK m \in 1 .. Len(Pending(mutex)) :
            log' = [log EXCEPT ![open] = @ \o SubSeq(Pending(mutex), 1, m)]
      BY <2>2 DEF Crash, Pending
    <3>4. m \in 0 .. Len(Pending(mutex))
      BY <3>2
    <3>5. Grown(Pending(mutex), m)
      BY <3>1, <3>2, <3>3, <3>4, GrownBy DEF RInv
    <3> QED
      BY <3>1, <3>4, <3>5, WriteKeeps
  <2> QED
    BY <2>1, <2>2
<1>3. ScanType' /\ ScanInv'
  BY <1>1, <1>2, ScanLeft DEF RInv
<1>4. RestType'
  BY <1>0, <1>1, <1>2 DEF RestType
<1>5. Mutexed' /\ HeadLast'
  BY <1>1 DEF Mutexed, HeadLast
<1>6. Times'
  BY <1>0, <1>1 DEF RInv, Times, RestType, Periods
<1> QED
  BY <1>2, <1>3, <1>4, <1>5, <1>6, TypePartsNext DEF RInv

-----------------------------------------------------------------------------
(* The scan.                                                                 *)

\* What is left by a step that only moves the scan.
LEMMA OnlyScan ==
    ASSUME RInv, UNCHANGED <<now, log, made, object, threads, acked, crashes>>
    PROVE  /\ RestType' /\ Mutexed' /\ HeadLast' /\ Times'
           /\ (\A f \in Periods : Apart(log[f]))'
<1>0. RestType
  BY TypeParts DEF RInv
<1> USE DEF object, threads
<1>1. RestType'
  BY <1>0 DEF RestType
<1>2. Mutexed'
  BY DEF RInv, Mutexed
<1>3. HeadLast'
  BY DEF RInv, HeadLast
<1>4. Times'
  BY DEF RInv, Times
<1> QED
  BY <1>1, <1>2, <1>3, <1>4 DEF RInv

LEMMA ScanDone ==
    ASSUME RInv, NEW num, num \in {-1, scan.num},
           scan' = [scan EXCEPT !.state = "done", !.num = num],
           UNCHANGED log
    PROVE  ScanType' /\ ScanInv'
<1>1. /\ scan'.state = "done" /\ scan'.file = scan.file /\ scan'.pos = scan.pos
      /\ scan'.head = scan.head /\ scan'.out = scan.out /\ scan'.num = num
      /\ scan'.before = scan.before
  BY DEF RInv, ScanInv
<1>2. ScanType'
  BY <1>1 DEF RInv, TypeOK, ScanType
<1>3. ScanInv'
  BY <1>1 DEF RInv, ScanInv
<1> QED
  BY <1>2, <1>3

LEMMA StartScanInv ==
    ASSUME RInv, NEW f \in Periods, StartScan(f)
    PROVE  RInv'
<1>0. RestType /\ RestType' /\ Mutexed' /\ HeadLast' /\ Times'
      /\ (\A g \in Periods : Apart(log[g]))'
  BY OnlyScan, TypeParts DEF RInv, StartScan
<1> DEFINE before == AckedIn(f)
<1>1. scan' = [NoScan EXCEPT !.state = "head", !.file = f, !.before = before]
      /\ UNCHANGED log
  BY DEF StartScan
<1> HIDE DEF before
<1>2. /\ scan'.state = "head" /\ scan'.file = f /\ scan'.pos = 0 /\ scan'.head = Null
      /\ scan'.out = <<>> /\ scan'.num = 0 /\ scan'.before = before
      /\ scan' = [state |-> "head", file |-> f, pos |-> 0, head |-> Null,
                  out |-> <<>>, num |-> 0, before |-> before]
  BY <1>1 DEF NoScan
<1>3. ScanInv'
  BY <1>2 DEF ScanInv
<1>4. ScanType'
  <2>1. Len(log[f]) \in Nat
    BY <1>0 DEF RestType
  <2>2. scan'.pos \in 0 .. Len(log'[scan'.file])
    BY <1>1, <1>2, <2>1
  <2>3. scan'.out \in Seq([head : Blocks, body : Seq(Unit)]) /\ scan'.num \in {-1, Len(scan'.out)}
    BY <1>2
  <2> QED
    BY <1>2, <2>2, <2>3 DEF ScanType
<1> QED
  BY <1>0, <1>3, <1>4, TypePartsNext DEF RInv

\* What is left of the file.
LEMMA RestIs ==
    ASSUME RInv
    PROVE  /\ Rest \in Seq(Unit) /\ Len(Rest) = Len(log[scan.file]) - scan.pos
           /\ Len(log[scan.file]) \in Nat /\ scan.pos \in Nat /\ scan.file \in Periods
<1> DEFINE s == log[scan.file]
           p == scan.pos
<1>1. s \in Seq(Unit) /\ p \in 0 .. Len(s) /\ scan.file \in Periods
  BY DEF RInv, TypeOK
<1>2. Rest = SubSeq(s, p + 1, Len(s))
  BY DEF Rest
<1> HIDE DEF s, p
<1>3. SubSeq(s, p + 1, Len(s)) \in Seq(Unit) /\ Len(SubSeq(s, p + 1, Len(s))) = Len(s) - p
  BY <1>1
<1> QED
  BY <1>1, <1>2, <1>3 DEF s, p

LEMMA ScanHeadInv ==
    ASSUME RInv, ScanHead
    PROVE  RInv'
<1>0. RestType' /\ Mutexed' /\ HeadLast' /\ Times' /\ (\A g \in Periods : Apart(log[g]))'
  BY OnlyScan DEF ScanHead
<1>1. ScanType' /\ ScanInv'
  <2>1. CASE scan' = [scan EXCEPT !.state = "done"]
    <3>1. scan' = [scan EXCEPT !.state = "done", !.num = scan.num]
      BY <2>1 DEF RInv, ScanInv
    <3> QED
      BY <3>1, ScanDone DEF ScanHead
  <2>2. CASE scan' = [scan EXCEPT !.state = "done", !.num = -1]
    BY <2>2, ScanDone DEF ScanHead
  <2>3. CASE /\ Len(Rest) >= HeadLen
             /\ scan' = [scan EXCEPT !.state = "body", !.head = Rest[1].blk, !.pos = @ + HeadLen]
    <3> DEFINE b == Rest[1].blk
    <3>1. b \in Blocks /\ scan.pos + HeadLen \in 0 .. Len(log[scan.file])
      <4>1. /\ Rest \in Seq(Unit) /\ Len(Rest) = Len(log[scan.file]) - scan.pos
            /\ Len(log[scan.file]) \in Nat /\ scan.pos \in Nat
        BY RestIs
      <4>2. 1 \in 1 .. Len(Rest)
        BY <2>3, <4>1 DEF HeadLen
      <4>3. Rest[1] \in Unit
        BY <4>1, <4>2, Element
      <4> QED
        BY <2>3, <4>1, <4>3 DEF Unit, HeadLen
    <3> HIDE DEF b
    <3>2. /\ scan'.state = "body" /\ scan'.file = scan.file /\ scan'.pos = scan.pos + HeadLen
          /\ scan'.head = b /\ scan'.out = scan.out /\ scan'.num = scan.num
          /\ scan'.before = scan.before
          /\ scan' = [state |-> "body", file |-> scan.file, pos |-> scan.pos + HeadLen,
                      head |-> b, out |-> scan.out, num |-> scan.num, before |-> scan.before]
      BY <2>3 DEF RInv, ScanInv, b
    <3>3. scan.state = "head" /\ scan.num = Len(scan.out) /\ UNCHANGED log
      BY DEF ScanHead, RInv, ScanInv
    <3>4. ScanType'
      BY <3>1, <3>2, <3>3 DEF RInv, TypeOK, ScanType
    <3>5. ScanInv'
      BY <3>1, <3>2, <3>3 DEF ScanInv
    <3> QED
      BY <3>4, <3>5
  <2>4. Len(Rest) \in Nat
    BY RestIs
  <2> QED
    BY <2>1, <2>2, <2>3, <2>4 DEF ScanHead, HeadLen
<1> QED
  BY <1>0, <1>1, TypePartsNext DEF RInv

LEMMA ScanBodyInv ==
    ASSUME RInv, ScanBody
    PROVE  RInv'
<1>0. RestType' /\ Mutexed' /\ HeadLast' /\ Times' /\ (\A g \in Periods : Apart(log[g]))'
  BY OnlyScan DEF ScanBody
<1> DEFINE b == scan.head
           body == SubSeq(Rest, 1, Size[b])
           d == [head |-> b, body |-> body]
<1>1. ScanType' /\ ScanInv'
  <2>1. CASE scan' = [scan EXCEPT !.state = "done", !.num = -1]
    BY <2>1, ScanDone DEF ScanBody
  <2>2. CASE scan' = NoScan
    <3>1. log' \in [Periods -> Seq(Unit)] /\ 1 \in Periods
      BY <1>0, RedoAssumption DEF RestType, Periods
    <3>2. Len(log'[1]) \in Nat
      BY <3>1
    <3>3. /\ scan'.state = "none" /\ scan'.file = 1 /\ scan'.pos = 0 /\ scan'.head = Null
          /\ scan'.out = <<>> /\ scan'.num = 0
      BY <2>2 DEF NoScan
    <3>4. scan'.pos \in 0 .. Len(log'[scan'.file])
      BY <3>2, <3>3
    <3>5. scan'.out \in Seq([head : Blocks, body : Seq(Unit)]) /\ scan'.num \in {-1, Len(scan'.out)}
      BY <3>3
    <3>6. ScanType'
      BY <3>1, <3>3, <3>4, <3>5 DEF ScanType
    <3>7. ScanInv'
      BY <2>2 DEF ScanInv, NoScan
    <3> QED
      BY <3>6, <3>7
  <2>3. CASE /\ Len(Rest) >= Size[b]
             /\ scan' = [scan EXCEPT !.state = "head", !.pos = @ + Size[b], !.num = @ + 1,
                                     !.out = Append(@, d)]
    <3>0. /\ scan.state = "body" /\ b \in Blocks /\ Size[b] \in Nat
          /\ scan.num = Len(scan.out) /\ UNCHANGED log
      BY RedoAssumption DEF ScanBody, RInv, ScanInv
    <3>1. body \in Seq(Unit) /\ scan.pos + Size[b] \in 0 .. Len(log[scan.file])
      <4>1. /\ Rest \in Seq(Unit) /\ Len(Rest) = Len(log[scan.file]) - scan.pos
            /\ Len(log[scan.file]) \in Nat /\ scan.pos \in Nat
        BY RestIs
      <4>2. body \in Seq(Unit)
        BY <2>3, <3>0, <4>1
      <4> QED
        BY <2>3, <3>0, <4>1, <4>2
    <3>2. d \in [head : Blocks, body : Seq(Unit)]
      BY <3>0, <3>1
    <3> HIDE DEF d, body
    <3>3. /\ scan'.state = "head" /\ scan'.file = scan.file /\ scan'.pos = scan.pos + Size[b]
          /\ scan'.head = scan.head /\ scan'.out = Append(scan.out, d) /\ scan'.num = scan.num + 1
          /\ scan'.before = scan.before
          /\ scan' = [state |-> "head", file |-> scan.file, pos |-> scan.pos + Size[b],
                      head |-> scan.head, out |-> Append(scan.out, d), num |-> scan.num + 1,
                      before |-> scan.before]
      BY <2>3 DEF RInv, ScanInv
    <3>4. scan'.out \in Seq([head : Blocks, body : Seq(Unit)]) /\ scan'.num = Len(scan'.out)
      <4> DEFINE T == [head : Blocks, body : Seq(Unit)]
      <4>1. scan.out \in Seq(T) /\ d \in T
        BY <3>2 DEF RInv, TypeOK
      <4> HIDE DEF T
      <4>2. Append(scan.out, d) \in Seq(T) /\ Len(Append(scan.out, d)) = Len(scan.out) + 1
        BY <4>1
      <4> QED
        BY <3>0, <3>3, <4>2 DEF T
    <3>5. ScanType'
      BY <3>0, <3>1, <3>3, <3>4 DEF RInv, TypeOK, ScanType
    <3>6. ScanInv'
      BY <3>3, <3>4 DEF ScanInv
    <3> QED
      BY <3>5, <3>6
  <2>4. Len(Rest) \in Nat /\ Size[b] \in Nat
    BY RestIs, RedoAssumption DEF ScanBody, RInv, ScanInv
  <2> QED
    BY <2>1, <2>2, <2>3, <2>4 DEF ScanBody
<1> QED
  BY <1>0, <1>1, TypePartsNext DEF RInv

LEMMA StutterInv ==
    ASSUME RInv, UNCHANGED vars
    PROVE  RInv'
<1>1. RestType' /\ Mutexed' /\ HeadLast' /\ Times' /\ (\A g \in Periods : Apart(log[g]))'
  BY OnlyScan DEF vars, object, threads
<1>2. ScanType' /\ ScanInv'
  BY NothingWritten DEF vars
<1> QED
  BY <1>1, <1>2, TypePartsNext DEF RInv

LEMMA RNext == RInv /\ [Next]_vars => RInv'
  BY CallInv, EnterInv, WriteHeadInv, WriteBodyInv, SwitchInv, StartScanInv, ScanHeadInv,
     ScanBodyInv, TickInv, CrashInv, StutterInv DEF Next

LEMMA RedoInv == Spec => []RInv
<1>1. Init => RInv
  BY RInit
<1>2. RInv /\ [Next]_vars => RInv'
  BY RNext
<1> QED
  BY <1>1, <1>2, PTL DEF Spec

-----------------------------------------------------------------------------
(* The theorems.                                                             *)

\* Whatever the threads do, whatever writes fail, fall short or are cut by a
\* crash: the units of a block lie together and in order, because appendblk
\* holds the mutex over both writes; and the log and its scan keep their type.
THEOREM BlocksStayApart == Spec => []BlocksApart
<1>1. RInv => BlocksApart
  <2> SUFFICES ASSUME RInv PROVE BlocksApart
    OBVIOUS
  <2>1. \A f \in Periods : DOMAIN log[f] = 1 .. Len(log[f])
    BY DEF RInv, TypeOK
  <2> QED
    BY <2>1 DEF RInv, BlocksApart, Apart
<1> QED
  BY <1>1, RedoInv, PTL

\* appendblk looks at the time when it has the mutex: a block goes to the file of
\* a time between its call and now, and to no older file than the block before.
THEOREM TimesInOrder == Spec => LoggedInTime
<1> DEFINE Ordered ==
        acked' # acked
            => /\ \A t \in Threads : WriteBody(t) => Last(acked').file \in called[t] .. now
               /\ acked # <<>> => Last(acked').file >= Last(acked).file
<1>1. RInv /\ [Next]_vars => [Ordered]_vars
  <2> SUFFICES ASSUME RInv, Next, acked' # acked
               PROVE  /\ \A t \in Threads : WriteBody(t) => Last(acked').file \in called[t] .. now
                      /\ acked # <<>> => Last(acked').file >= Last(acked).file
    OBVIOUS
  <2>0. RestType
    BY TypeParts DEF RInv
  <2>1. PICK t \in Threads : WriteBody(t)
    BY DEF Next, Call, Enter, WriteHead, SwitchFile, Close, StartScan, ScanHead, ScanBody, Tick, Crash
  <2>2. /\ acked' = Append(acked, [blk |-> blk[t], file |-> open]) /\ mutex = t
        /\ blk[t] \in Blocks /\ open \in Periods /\ mutex # Null
    BY <2>1, RedoAssumption DEF WriteBody, RInv, Mutexed
  <2>3. open <= now /\ open \in Int /\ now \in Int
    BY <2>0, <2>2 DEF RInv, Times, RestType, Periods
  <2>4. /\ Len(acked') = Len(acked) + 1
        /\ acked'[Len(acked) + 1] = [blk |-> blk[t], file |-> open]
    BY <2>0, <2>2, <2>3, AckedGrows DEF RInv, Times
  <2>5. Last(acked').file = open
    BY <2>4 DEF Last
  <2>6. ASSUME NEW x \in Threads, WriteBody(x) PROVE Last(acked').file \in called[x] .. now
    <3>1. mutex = x
      BY <2>6 DEF WriteBody, RInv, Mutexed
    <3>2. called[x] <= open /\ called[x] \in Int
      BY <2>0, <3>1 DEF RInv, Times, RestType, Periods
    <3> QED
      BY <2>3, <2>5, <3>2
  <2>7. ASSUME acked # <<>> PROVE Last(acked').file >= Last(acked).file
    <3>1. Len(acked) \in 1 .. Len(acked)
      BY <2>0, <2>7 DEF RestType
    <3>2. acked[Len(acked)].file <= open /\ acked[Len(acked)].file \in Int
      BY <2>0, <2>2, <3>1, AckedType DEF RInv, Times
    <3> QED
      BY <2>3, <2>5, <3>2 DEF Last
  <2> QED
    BY <2>6, <2>7
<1>2. Spec => [][Ordered]_vars
  BY <1>1, RedoInv, PTL DEF Spec
<1> QED
  BY <1>2 DEF LoggedInTime

-----------------------------------------------------------------------------
(* Acknowledged blocks.                                                      *)

\* Block b lies in s behind unit number z.
WholeAt(b, s, z) == z + Length(b) <= Len(s) /\ \A j \in 1 .. Length(b) : s[z + j] = [blk |-> b, part |-> j]

\* Every acknowledged block lies somewhere in its file.
AckedAt ==
    \A k \in 1 .. Len(acked) : \E z \in Nat : WholeAt(acked[k].blk, log[acked[k].file], z)

\* Behind s only the body of b is missing.
HeadAtEnd(b, s) ==
    /\ Len(s) >= HeadLen
    /\ \A j \in 1 .. HeadLen : s[Len(s) - HeadLen + j] = [blk |-> b, part |-> j]

\* A thread that writes a body has written the head right before it.
HeadWhole == \A t \in Threads : pc[t] = "body" => HeadAtEnd(blk[t], log[open])

AInv == RInv /\ AckedAt /\ HeadWhole

\* What was written stays.
Kept == \A f \in Periods : /\ Len(log'[f]) >= Len(log[f])
                           /\ \A k \in 1 .. Len(log[f]) : log'[f][k] = log[f][k]

LEMMA LengthIs == \A b \in Blocks : Length(b) \in Nat /\ Length(b) = HeadLen + Size[b]
  BY RedoAssumption DEF Length, HeadLen

LEMMA KeptUnchanged ==
    ASSUME RInv, UNCHANGED log
    PROVE  Kept
<1>1. log \in [Periods -> Seq(Unit)]
  BY DEF RInv, TypeOK
<1>2. \A f \in Periods : Len(log[f]) \in Nat
  BY <1>1
<1>3. \A f \in Periods : Len(log'[f]) >= Len(log[f])
  BY <1>2
<1> QED
  BY <1>3 DEF Kept

LEMMA KeptGrown ==
    ASSUME RInv, open \in Periods, NEW u, NEW m \in Nat, Grown(u, m)
    PROVE  Kept
<1>1. log \in [Periods -> Seq(Unit)]
  BY DEF RInv, TypeOK
<1>2. \A f \in Periods : Len(log[f]) \in Nat
  BY <1>1
<1>3. \A f \in Periods \ {open} : log'[f] = log[f]
  BY DEF Grown
<1>4. Len(log'[open]) >= Len(log[open]) /\ \A k \in 1 .. Len(log[open]) : log'[open][k] = log[open][k]
  BY <1>2 DEF Grown
<1> QED
  BY <1>2, <1>3, <1>4 DEF Kept

LEMMA AckedKept ==
    ASSUME RInv, AckedAt, Kept, log' \in [Periods -> Seq(Unit)]
    PROVE  \A k \in 1 .. Len(acked) : \E z \in Nat : WholeAt(acked[k].blk, log'[acked[k].file], z)
<1> SUFFICES ASSUME NEW k \in 1 .. Len(acked)
             PROVE  \E z \in Nat : WholeAt(acked[k].blk, log'[acked[k].file], z)
  OBVIOUS
<1> DEFINE b == acked[k].blk
           f == acked[k].file
<1>1. b \in Blocks /\ f \in Periods
  BY AckedType, TypeParts DEF RInv
<1>2. PICK z \in Nat : WholeAt(b, log[f], z)
  BY DEF AckedAt
<1>3. /\ Len(log[f]) \in Nat /\ Len(log'[f]) \in Nat /\ Len(log'[f]) >= Len(log[f])
      /\ \A i \in 1 .. Len(log[f]) : log'[f][i] = log[f][i]
  <2>1. log \in [Periods -> Seq(Unit)]
    BY DEF RInv, TypeOK
  <2> HIDE DEF f
  <2>2. log[f] \in Seq(Unit) /\ log'[f] \in Seq(Unit)
    BY <1>1, <2>1
  <2>3. Len(log[f]) \in Nat /\ Len(log'[f]) \in Nat
    BY <2>2
  <2> QED
    BY <1>1, <2>3 DEF Kept
<1>4. Length(b) \in Nat
  BY <1>1, LengthIs
<1> HIDE DEF b, f
<1>5. z + Length(b) <= Len(log'[f])
  BY <1>2, <1>3, <1>4 DEF WholeAt
<1>6. \A j \in 1 .. Length(b) : log'[f][z + j] = [blk |-> b, part |-> j]
  <2> SUFFICES ASSUME NEW j \in 1 .. Length(b) PROVE log'[f][z + j] = [blk |-> b, part |-> j]
    OBVIOUS
  <2>1. z + j \in 1 .. Len(log[f])
    BY <1>2, <1>3, <1>4 DEF WholeAt
  <2>2. log[f][z + j] = [blk |-> b, part |-> j]
    BY <1>2 DEF WholeAt
  <2> QED
    BY <1>3, <2>1, <2>2
<1>7. WholeAt(b, log'[f], z)
  BY <1>5, <1>6 DEF WholeAt
<1> QED
  BY <1>7 DEF b, f

\* The steps that neither acknowledge a block nor write a head.
LEMMA QuietAcked ==
    ASSUME AInv, RInv', Kept, UNCHANGED acked,
           \A t \in Threads : pc'[t] = "body" =>
                pc[t] = "body" /\ blk'[t] = blk[t] /\ open' = open /\ log' = log
    PROVE  AInv'
<1>1. log' \in [Periods -> Seq(Unit)]
  BY DEF RInv, TypeOK
<1>2. AckedAt'
  BY <1>1, AckedKept DEF AckedAt, AInv
<1>3. HeadWhole'
  BY DEF HeadWhole, AInv
<1> QED
  BY <1>2, <1>3 DEF AInv

LEMMA WriteHeadAcked ==
    ASSUME AInv, RInv', ~ May("shortWrite"), NEW t \in Threads, WriteHead(t)
    PROVE  AInv'
<1>0. RInv /\ RestType
  BY TypeParts DEF AInv, RInv
<1>1. /\ pc[t] = "head" /\ mutex = t /\ Pending(t) = HeadOf(blk[t]) /\ blk[t] \in Blocks
      /\ open \in Periods /\ UNCHANGED <<open, acked>>
  BY <1>0, RedoAssumption DEF WriteHead, Pending, RInv, Mutexed, object
<1>2. /\ Pending(t) \in Seq(Unit) /\ Len(Pending(t)) = HeadLen
      /\ Numbered(Pending(t), HeadLen, blk[t], 0)
  BY <1>1, HeadAndBody
<1>3. log \in [Periods -> Seq(Unit)] /\ log' \in [Periods -> Seq(Unit)]
  BY <1>0 DEF RestType, RInv, TypeOK
<1>4. CASE Wrote(Pending(t), TRUE) /\ pc' = [pc EXCEPT ![t] = "body"] /\ UNCHANGED <<mutex, blk, called>>
  <2>1. PICK m \in 0 .. Len(Pending(t)) : Grown(Pending(t), m) /\ m = Len(Pending(t))
    BY <1>0, <1>1, <1>4, WriteStep
  <2>2. Grown(Pending(t), HeadLen)
    BY <1>2, <2>1
  <2>3. Kept
    BY <1>0, <1>1, <2>2, KeptGrown DEF HeadLen
  <2>4. AckedAt'
    BY <1>1, <1>3, <2>3, AckedKept DEF AckedAt, AInv
  <2>5. HeadAtEnd(blk[t], log'[open])
    <3> DEFINE n == Len(log[open])
    <3>1. n \in Nat /\ Len(log'[open]) = n + HeadLen
      BY <1>1, <1>3, <2>2 DEF Grown
    <3>2. \A j \in 1 .. HeadLen : log'[open][n + j] = [blk |-> blk[t], part |-> j]
      BY <1>2, <2>2 DEF Grown, Numbered, HeadLen
    <3> HIDE DEF n
    <3>3. Len(log'[open]) - HeadLen = n /\ Len(log'[open]) >= HeadLen
      BY <3>1 DEF HeadLen
    <3> QED
      BY <3>1, <3>2, <3>3 DEF HeadAtEnd
  <2>6. \A x \in Threads : pc'[x] = "body" => x = t
    BY <1>0, <1>1, <1>4 DEF RInv, Mutexed, RestType
  <2>7. HeadWhole'
    BY <1>1, <1>4, <2>5, <2>6 DEF HeadWhole
  <2> QED
    BY <2>4, <2>7 DEF AInv
<1>5. CASE Wrote(Pending(t), FALSE) /\ Return(t)
  <2>1. PICK m \in 0 .. Len(Pending(t)) : Grown(Pending(t), m)
    BY <1>0, <1>1, <1>5, WriteStep
  <2>2. Kept
    BY <1>0, <1>1, <1>2, <2>1, KeptGrown
  <2>3. \A x \in Threads : pc'[x] # "body"
    BY <1>0, <1>1, <1>5 DEF RInv, Mutexed, RestType, Return
  <2> QED
    BY <1>1, <2>2, <2>3, QuietAcked
<1> QED
  BY <1>1, <1>4, <1>5 DEF WriteHead

LEMMA WriteBodyAcked ==
    ASSUME AInv, RInv', ~ May("shortWrite"), NEW t \in Threads, WriteBody(t)
    PROVE  AInv'
<1>0. RInv /\ RestType
  BY TypeParts DEF AInv, RInv
<1>1. /\ pc[t] = "body" /\ mutex = t /\ Pending(t) = BodyOf(blk[t]) /\ blk[t] \in Blocks
      /\ open \in Periods /\ UNCHANGED open /\ Return(t)
  BY <1>0, RedoAssumption DEF WriteBody, Pending, RInv, Mutexed, object
<1> DEFINE b == blk[t]
           n == Len(log[open])
<1>2. /\ Pending(t) \in Seq(Unit) /\ Len(Pending(t)) = Size[b] /\ Size[b] \in Nat
      /\ Numbered(Pending(t), Size[b], b, HeadLen)
  BY <1>1, HeadAndBody
<1>3. log \in [Periods -> Seq(Unit)] /\ log' \in [Periods -> Seq(Unit)] /\ n \in Nat
  <2>1. log \in [Periods -> Seq(Unit)] /\ log' \in [Periods -> Seq(Unit)]
    BY <1>0 DEF RestType, RInv, TypeOK
  <2> QED
    BY <1>1, <2>1
<1>4. \A x \in Threads : pc'[x] # "body"
  BY <1>0, <1>1 DEF RInv, Mutexed, RestType, Return
<1>5. CASE Wrote(Pending(t), TRUE) /\ acked' = Append(acked, [blk |-> b, file |-> open])
  <2>1. PICK m \in 0 .. Len(Pending(t)) : Grown(Pending(t), m) /\ m = Len(Pending(t))
    BY <1>0, <1>1, <1>5, WriteStep
  <2>2. Grown(Pending(t), Size[b])
    BY <1>2, <2>1
  <2>3. Kept
    BY <1>0, <1>1, <1>2, <2>2, KeptGrown
  <2>4. HeadAtEnd(b, log[open])
    BY <1>1 DEF AInv, HeadWhole
  <2>5. \E z \in Nat : WholeAt(b, log'[open], z)
    <3> DEFINE z == n - HeadLen
    <3>1. n >= HeadLen /\ \A j \in 1 .. HeadLen : log[open][z + j] = [blk |-> b, part |-> j]
      BY <2>4 DEF HeadAtEnd
    <3>2. /\ Len(log'[open]) = n + Size[b]
          /\ \A k \in 1 .. n : log'[open][k] = log[open][k]
          /\ \A j \in 1 .. Size[b] : log'[open][n + j] = [blk |-> b, part |-> HeadLen + j]
      BY <1>2, <2>2 DEF Grown, Numbered
    <3>3. Length(b) = HeadLen + Size[b]
      BY DEF Length
    <3>4. z \in Nat /\ z + HeadLen = n /\ HeadLen \in Nat
      BY <1>3, <3>1 DEF HeadLen
    <3> HIDE DEF z, n
    <3>5. ASSUME NEW j \in 1 .. Length(b) PROVE log'[open][z + j] = [blk |-> b, part |-> j]
      <4>1. CASE j <= HeadLen
        <5>1. j \in 1 .. HeadLen /\ z + j \in 1 .. n
          BY <3>4, <4>1
        <5> QED
          BY <3>1, <3>2, <5>1
      <4>2. CASE j > HeadLen
        <5> DEFINE i == j - HeadLen
        <5>1. i \in 1 .. Size[b] /\ HeadLen + i = j /\ n + i = z + j
          BY <1>2, <3>3, <3>4, <4>2
        <5> HIDE DEF i
        <5> QED
          BY <3>2, <5>1
      <4> QED
        BY <3>4, <4>1, <4>2
    <3>6. z + Length(b) <= Len(log'[open])
      BY <1>2, <1>3, <3>2, <3>3, <3>4
    <3>7. WholeAt(b, log'[open], z)
      BY <3>5, <3>6 DEF WholeAt
    <3> QED
      BY <3>4, <3>7
  <2>6. /\ Len(acked') = Len(acked) + 1 /\ Len(acked) \in Nat
        /\ \A k \in 1 .. Len(acked) : acked'[k] = acked[k]
        /\ acked'[Len(acked) + 1] = [blk |-> b, file |-> open]
    <3>1. acked \in Seq([blk : Blocks, file : Periods])
      BY <1>0 DEF RestType
    <3> QED
      BY <1>5, <3>1, Appending
  <2>7. \A k \in 1 .. Len(acked) : \E z \in Nat : WholeAt(acked[k].blk, log'[acked[k].file], z)
    BY <1>3, <2>3, AckedKept DEF AInv
  <2>8. AckedAt'
    <3> SUFFICES ASSUME NEW k \in 1 .. Len(acked')
                 PROVE  \E z \in Nat : WholeAt(acked'[k].blk, log'[acked'[k].file], z)
      BY DEF AckedAt
    <3>1. CASE k = Len(acked) + 1
      <4>1. acked'[k].blk = b /\ acked'[k].file = open
        BY <2>6, <3>1
      <4> QED
        BY <2>5, <4>1
    <3>2. CASE k # Len(acked) + 1
      <4>1. k \in 1 .. Len(acked) /\ acked'[k] = acked[k]
        BY <2>6, <3>2
      <4> QED
        BY <2>7, <4>1
    <3> QED
      BY <3>1, <3>2
  <2>9. HeadWhole'
    BY <1>4 DEF HeadWhole
  <2> QED
    BY <2>8, <2>9 DEF AInv
<1>6. CASE Wrote(Pending(t), FALSE) /\ UNCHANGED acked
  <2>1. PICK m \in 0 .. Len(Pending(t)) : Grown(Pending(t), m)
    BY <1>0, <1>1, <1>6, WriteStep
  <2>2. Kept
    BY <1>0, <1>1, <1>2, <2>1, KeptGrown
  <2> QED
    BY <1>4, <1>6, <2>2, QuietAcked
<1> QED
  BY <1>1, <1>5, <1>6 DEF WriteBody

LEMMA CrashAcked ==
    ASSUME AInv, RInv', Crash
    PROVE  AInv'
<1>0. RInv /\ RestType
  BY TypeParts DEF AInv, RInv
<1>1. Kept
  <2>1. CASE UNCHANGED log
    BY <1>0, <2>1, KeptUnchanged
  <2>2. CASE ~ UNCHANGED log
    <3>1. mutex \in Threads /\ open \in Periods /\ blk[mutex] \in Blocks
      BY <1>0, <2>2 DEF Crash, RestType, RInv, Mutexed
    <3>2. Pending(mutex) \in Seq(Unit)
      BY <3>1, HeadAndBody DEF Pending
    <3>3. PICK m \in 1 .. Len(Pending(mutex)) :
            log' = [log EXCEPT ![open] = @ \o SubSeq(Pending(mutex), 1, m)]
      BY <2>2 DEF Crash, Pending
    <3>4. m \in 0 .. Len(Pending(mutex)) /\ m \in Nat
      BY <3>2
    <3>5. Grown(Pending(mutex), m)
      BY <1>0, <3>1, <3>2, <3>3, <3>4, GrownBy DEF RInv
    <3> QED
      BY <1>0, <3>1, <3>4, <3>5, KeptGrown
  <2> QED
    BY <2>1, <2>2
<1>2. UNCHANGED acked /\ \A t \in Threads : pc'[t] # "body"
  BY DEF Crash
<1> QED
  BY <1>1, <1>2, QuietAcked

LEMMA OthersAcked ==
    ASSUME AInv, RInv',
           \/ \E t \in Threads : Enter(t) \/ \E b \in Blocks : Call(t, b)
           \/ SwitchFile \/ Close \/ (\E f \in Periods : StartScan(f))
           \/ ScanHead \/ ScanBody \/ Tick \/ UNCHANGED vars
    PROVE  AInv'
<1>0. RInv /\ RestType
  BY TypeParts DEF AInv, RInv
<1>1. UNCHANGED <<log, acked>>
  BY DEF Enter, Call, SwitchFile, Close, StartScan, ScanHead, ScanBody, Tick, vars
<1>2. ASSUME NEW x \in Threads, pc'[x] = "body"
      PROVE  pc[x] = "body" /\ blk'[x] = blk[x] /\ open' = open
  <2>1. ASSUME NEW t \in Threads, NEW b \in Blocks, Call(t, b)
        PROVE  pc[x] = "body" /\ blk'[x] = blk[x] /\ open' = open
    BY <1>0, <1>2, <2>1 DEF Call, object, RestType
  <2>2. ASSUME NEW t \in Threads, Enter(t) PROVE FALSE
    <3>1. mutex = Null /\ pc[x] = "body"
      BY <1>0, <1>2, <2>2 DEF Enter, Return, RestType
    <3> QED
      BY <1>0, <3>1, RedoAssumption DEF RInv, Mutexed
  <2>3. ASSUME SwitchFile \/ Close PROVE FALSE
    <3>1. mutex = Null /\ pc[x] = "body"
      BY <1>2, <2>3 DEF SwitchFile, Close, threads
    <3> QED
      BY <1>0, <3>1, RedoAssumption DEF RInv, Mutexed
  <2>4. ASSUME (\E f \in Periods : StartScan(f)) \/ ScanHead \/ ScanBody \/ Tick \/ UNCHANGED vars
        PROVE  pc[x] = "body" /\ blk'[x] = blk[x] /\ open' = open
    BY <1>2, <2>4 DEF StartScan, ScanHead, ScanBody, Tick, vars, threads, object
  <2> QED
    BY <2>1, <2>2, <2>3, <2>4
<1>3. Kept
  BY <1>0, <1>1, KeptUnchanged
<1> QED
  BY <1>1, <1>2, <1>3, QuietAcked

LEMMA AckedNext ==
    ASSUME ~ May("shortWrite")
    PROVE  AInv /\ [Next]_vars => AInv'
<1> SUFFICES ASSUME AInv, [Next]_vars PROVE AInv'
  OBVIOUS
<1>1. RInv'
  BY RNext DEF AInv
<1> QED
  BY <1>1, WriteHeadAcked, WriteBodyAcked, CrashAcked, OthersAcked DEF Next

LEMMA WholeIs ==
    ASSUME NEW b \in Blocks, NEW f \in Periods, log[f] \in Seq(Unit),
           NEW z \in Nat, WholeAt(b, log[f], z)
    PROVE  Whole(b, f)
<1> DEFINE s == log[f]
           n == Length(b)
<1>1. n \in Nat /\ s \in Seq(Unit) /\ Len(s) \in Nat /\ z + n <= Len(s)
  BY LengthIs DEF WholeAt
<1>2. \A j \in 1 .. n : s[z + j] = [blk |-> b, part |-> j]
  BY DEF WholeAt
<1>3. Piece(b, 1, n) = [j \in 1 .. n |-> [blk |-> b, part |-> j]]
  BY <1>1 DEF Piece
<1> HIDE DEF s, n
<1>4. /\ SubSeq(s, z + 1, z + n) = [j \in 1 .. n |-> s[z + j]]
  <2>1. z + n - (z + 1) + 1 = n /\ \A j \in 1 .. n : z + 1 + j - 1 = z + j
    BY <1>1
  <2> QED
    BY <1>1, <2>1
<1>5. SubSeq(s, z + 1, z + n) = Piece(b, 1, n)
  BY <1>2, <1>3, <1>4
<1>6. z \in 0 .. Len(s) - n
  BY <1>1
<1> QED
  BY <1>5, <1>6 DEF Whole, s, n

\* appendblk returns 0 only for a block that is in its file, whole, and stays
\* there through other calls, failed writes and crashes of the process: if no
\* write falls short, which the code does not look at.
THEOREM AckedStaysWhole ==
    ASSUME ~ May("shortWrite")
    PROVE  Spec => []AckedWhole
<1>1. Init => AInv
  BY RInit DEF Init, AInv, AckedAt, HeadWhole
<1>2. AInv /\ [Next]_vars => AInv'
  BY AckedNext
<1>3. AInv => AckedWhole
  <2> SUFFICES ASSUME AInv, NEW k \in DOMAIN acked PROVE Whole(acked[k].blk, acked[k].file)
    BY DEF AckedWhole
  <2>0. RestType
    BY TypeParts DEF AInv, RInv
  <2>1. k \in 1 .. Len(acked)
    BY <2>0 DEF RestType
  <2>2. acked[k].blk \in Blocks /\ acked[k].file \in Periods
    BY <2>0, <2>1, AckedType
  <2>3. PICK z \in Nat : WholeAt(acked[k].blk, log[acked[k].file], z)
    BY <2>1 DEF AInv, AckedAt
  <2>4. log[acked[k].file] \in Seq(Unit)
    BY <2>0, <2>2 DEF RestType
  <2> QED
    BY <2>2, <2>3, <2>4, WholeIs
<1> QED
  BY <1>1, <1>2, <1>3, PTL DEF Spec

-----------------------------------------------------------------------------
(* What a scan delivers.                                                     *)

HeadIn(b, s, z) == \A k \in 1 .. HeadLen : s[z + k] = [blk |-> b, part |-> k]

\* What was delivered as d was read behind unit number z.
ReadAt(d, s, z) ==
    /\ HeadIn(d.head, s, z)
    /\ Len(d.body) = Size[d.head]
    /\ \A k \in 1 .. Size[d.head] : d.body[k] = s[z + HeadLen + k]

\* All that was delivered was read one behind the other, up to unit number e.
Placed(at, s, out, e) ==
    /\ at \in [1 .. Len(out) + 1 -> Nat]
    /\ at[1] = 0 /\ at[Len(out) + 1] = e /\ e <= Len(s)
    /\ \A i \in 1 .. Len(out) :
          at[i + 1] = at[i] + Length(out[i].head) /\ ReadAt(out[i], s, at[i])
    /\ \A i, j \in 1 .. Len(out) + 1 : i < j => at[i] < at[j]

\* No whole block begins behind e that leads to one of those in before.
NoneMissed(e, s, before) ==
    \A x \in Blocks, a \in before, p \in Nat :
        WholeAt(x, s, e) /\ WholeAt(a, s, p) /\ p >= e => e < p /\ p < e + Length(x)

ScanAt(at, e) ==
    LET s == log[scan.file]
    IN  /\ Placed(at, s, scan.out, e)
        /\ scan.state = "head" => scan.pos = e
        /\ scan.state = "body" => scan.pos = e + HeadLen /\ HeadIn(scan.head, s, e)
        /\ scan.state = "done" => NoneMissed(e, s, scan.before)

PlaceInv == scan.state # "none" => \E e \in Nat : \E at : ScanAt(at, e)

\* Block b is in the log as far as it will ever be.
Gone(b) ==
    /\ \E f \in Periods : \E k \in 1 .. Len(log[f]) : log[f][k].blk = b
    /\ \A t \in Threads : blk[t] # b

\* Each block is appended by one thread, once.
Once ==
    /\ \A t, u \in Threads : blk[t] = blk[u] /\ t # u => blk[t] = Null
    /\ \A k \in 1 .. Len(acked) : Gone(acked[k].blk)
    /\ \A a \in scan.before : \E k \in 1 .. Len(acked) : acked[k].blk = a

Parts == \A f \in Periods : \A k \in 1 .. Len(log[f]) : log[f][k].part <= Length(log[f][k].blk)

UInv == RInv /\ Once /\ Parts /\ PlaceInv

-----------------------------------------------------------------------------
(* What was read stays where it is.                                          *)

\* r is s and something behind it.
Extends(r, s) == Len(r) >= Len(s) /\ \A k \in 1 .. Len(s) : r[k] = s[k]

LEMMA Inside ==
    ASSUME NEW z \in Nat, NEW n \in Nat, NEW m \in Nat, z + n <= m
    PROVE  \A k \in 1 .. n : z + k \in 1 .. m
  OBVIOUS

LEMMA WholeUnits ==
    ASSUME NEW b \in Blocks, NEW s, NEW z, WholeAt(b, s, z)
    PROVE  \A j \in 1 .. Length(b) : s[z + j].blk = b /\ s[z + j].part = j
<1> SUFFICES ASSUME NEW j \in 1 .. Length(b)
             PROVE  s[z + j].blk = b /\ s[z + j].part = j
  OBVIOUS
<1>1. s[z + j] = [blk |-> b, part |-> j]
  BY DEF WholeAt
<1> QED
  BY <1>1

LEMMA LengthPositive ==
    ASSUME NEW b \in Blocks
    PROVE  Length(b) \in Nat /\ 1 \in 1 .. Length(b) /\ Length(b) \in 1 .. Length(b)
<1>1. Size[b] \in Nat /\ Length(b) = 2 + Size[b]
  BY RedoAssumption DEF Length, HeadLen
<1> QED
  BY <1>1

LEMMA PlacedGrows ==
    ASSUME NEW s \in Seq(Unit), NEW r \in Seq(Unit), Extends(r, s),
           NEW out \in Seq([head : Blocks, body : Seq(Unit)]),
           NEW at, NEW e \in Nat, Placed(at, s, out, e)
    PROVE  Placed(at, r, out, e)
<1> DEFINE n == Len(out)
<1>0. /\ n \in Nat /\ Len(s) \in Nat /\ Len(r) \in Nat
  OBVIOUS
<1>1. /\ at \in [1 .. n + 1 -> Nat] /\ at[1] = 0 /\ at[n + 1] = e /\ e <= Len(s)
      /\ \A i, j \in 1 .. n + 1 : i < j => at[i] < at[j]
      /\ Len(r) >= Len(s)
      /\ \A k \in 1 .. Len(s) : r[k] = s[k]
  BY DEF Placed, Extends
<1>2. ASSUME NEW i \in 1 .. n
      PROVE  at[i + 1] = at[i] + Length(out[i].head) /\ ReadAt(out[i], r, at[i])
  <2> DEFINE b == out[i].head
  <2>1. out[i] \in [head : Blocks, body : Seq(Unit)]
    BY Element
  <2>2. b \in Blocks /\ Length(b) = HeadLen + Size[b] /\ Size[b] \in Nat
    BY <2>1, LengthIs, RedoAssumption
  <2>3. at[i + 1] = at[i] + Length(b) /\ ReadAt(out[i], s, at[i])
    BY DEF Placed
  <2>4. i \in 1 .. n + 1 /\ i + 1 \in 1 .. n + 1
    BY <1>0
  <2>5. at[i] \in Nat /\ at[i + 1] \in Nat /\ at[i + 1] <= e
    <3>1. at[i] \in Nat /\ at[i + 1] \in Nat
      BY <1>1, <2>4
    <3>2. n + 1 \in 1 .. n + 1 /\ (i + 1 = n + 1 \/ i + 1 < n + 1)
      BY <1>0, <2>4
    <3>3. i + 1 < n + 1 => at[i + 1] < at[n + 1]
      BY <1>1, <2>4, <3>2
    <3> QED
      BY <1>1, <3>1, <3>2, <3>3
  <2> DEFINE z == at[i]
             len == Length(b)
  <2>6a. len \in Nat /\ z \in Nat /\ z + len <= Len(s)
    <3>1. len \in Nat /\ z + len <= e
      BY <2>2, <2>3, <2>5, LengthPositive
    <3> QED
      BY <1>0, <1>1, <2>5, <3>1
  <2> HIDE DEF b, z, len
  <2>6b. \A k \in 1 .. len : z + k \in 1 .. Len(s)
    BY <1>0, <2>6a, Inside
  <2>6. \A k \in 1 .. Length(b) : at[i] + k \in 1 .. Len(s)
    BY <2>6b DEF z, len
  <2>7. HeadIn(b, r, at[i])
    <3>1. \A k \in 1 .. HeadLen : k \in 1 .. Length(b)
      BY <2>2 DEF HeadLen
    <3> QED
      BY <1>1, <2>3, <2>6, <3>1 DEF ReadAt, HeadIn, b
  <2>8. \A k \in 1 .. Size[b] : out[i].body[k] = r[at[i] + HeadLen + k]
    <3> TAKE k \in 1 .. Size[b]
    <3> DEFINE size == Size[b]
    <3>0a. size \in Nat /\ k \in 1 .. size /\ Length(b) = 2 + size /\ z \in Nat
      BY <2>2, <2>6a DEF HeadLen
    <3> HIDE DEF size
    <3>0b. 2 + k \in 1 .. 2 + size /\ z + (2 + k) = z + 2 + k
      BY <3>0a
    <3>1. HeadLen + k \in 1 .. Length(b) /\ at[i] + (HeadLen + k) = at[i] + HeadLen + k
      BY <3>0a, <3>0b DEF HeadLen, z
    <3>2. at[i] + HeadLen + k \in 1 .. Len(s)
      BY <2>6, <3>1
    <3> QED
      BY <1>1, <2>3, <3>2 DEF ReadAt, b
  <2> QED
    BY <2>3, <2>7, <2>8 DEF ReadAt, b
<1>3. e <= Len(r)
  BY <1>0, <1>1
<1> QED
  BY <1>1, <1>2, <1>3 DEF Placed

\* A whole block that ends within s was whole there.
LEMMA WholeWithin ==
    ASSUME NEW s \in Seq(Unit), NEW r \in Seq(Unit), Extends(r, s),
           NEW b \in Blocks, NEW z \in Nat, WholeAt(b, r, z), z + Length(b) <= Len(s)
    PROVE  WholeAt(b, s, z)
<1>1. Length(b) \in Nat /\ \A j \in 1 .. Length(b) : z + j \in 1 .. Len(s)
  BY LengthIs
<1> QED
  BY <1>1 DEF WholeAt, Extends

\* So was one of which nothing was written since.
LEMMA WholeBefore ==
    ASSUME NEW s \in Seq(Unit), NEW r \in Seq(Unit), Extends(r, s),
           NEW b \in Blocks, NEW z \in Nat, WholeAt(b, r, z),
           \A k \in 1 .. Len(r) : k > Len(s) => r[k].blk # b
    PROVE  WholeAt(b, s, z)
<1> DEFINE len == Length(b)
<1>1. len \in Nat /\ len \in 1 .. len /\ Len(r) \in Nat /\ Len(s) \in Nat
  BY LengthPositive
<1>2. r[z + len].blk = b /\ z + len <= Len(r)
  BY <1>1, WholeUnits DEF WholeAt
<1> HIDE DEF len
<1>3. z + len <= Len(s)
  <2>1. z + len \in 1 .. Len(r)
    BY <1>1, <1>2
  <2>2. ~(z + len > Len(s))
    BY <1>2, <2>1
  <2> QED
    BY <1>1, <2>2
<1>4. z + Length(b) <= Len(s)
  BY <1>3 DEF len
<1> QED
  BY <1>4, WholeWithin

LEMMA NoneMissedStays ==
    ASSUME NEW s \in Seq(Unit), NEW r \in Seq(Unit), Extends(r, s),
           NEW before \in SUBSET Blocks, NEW e \in Nat, NoneMissed(e, s, before),
           \A a \in before : \A k \in 1 .. Len(r) : k > Len(s) => r[k].blk # a
    PROVE  NoneMissed(e, r, before)
<1> SUFFICES ASSUME NEW x \in Blocks, NEW a \in before, NEW p \in Nat,
                    WholeAt(x, r, e), WholeAt(a, r, p), p >= e
             PROVE  e < p /\ p < e + Length(x)
  BY DEF NoneMissed
<1>1. /\ Length(x) \in Nat /\ 1 \in 1 .. Length(x)
      /\ Length(a) \in Nat /\ 1 \in 1 .. Length(a) /\ Len(s) \in Nat
  BY LengthPositive
<1>2. WholeAt(a, s, p)
  BY WholeBefore
<1>3. p + Length(a) <= Len(s)
  BY <1>2 DEF WholeAt
<1>4. p < e + Length(x)
  <2> SUFFICES ASSUME ~(p < e + Length(x)) PROVE FALSE
    OBVIOUS
  <2>1. e + Length(x) <= Len(s)
    BY <1>1, <1>3
  <2>2. WholeAt(x, s, e)
    BY <2>1, WholeWithin
  <2> QED
    BY <1>2, <2>2 DEF NoneMissed
<1>5. p # e
  <2> SUFFICES ASSUME p = e PROVE FALSE
    OBVIOUS
  <2>1. r[e + 1].blk = x /\ r[e + 1].blk = a
    <3>1. r[e + 1].blk = x
      BY LengthPositive, WholeUnits
    <3>2. r[p + 1].blk = a
      BY LengthPositive, WholeUnits
    <3> QED
      BY <3>1, <3>2
  <2>2. WholeAt(x, s, e)
    BY <1>2, <2>1
  <2>3. e < p
    BY <1>2, <2>2 DEF NoneMissed
  <2> QED
    BY <2>3
<1> QED
  BY <1>4, <1>5

-----------------------------------------------------------------------------
(* The log grows by units of the blocks that are being appended.             *)

Grew ==
    /\ log' \in [Periods -> Seq(Unit)]
    /\ Kept
    /\ \A f \in Periods : \A k \in 1 .. Len(log'[f]) : k > Len(log[f]) =>
          \E t \in Threads : /\ log'[f][k].blk = blk[t] /\ blk[t] \in Blocks
                             /\ log'[f][k].part <= Length(blk[t])

LEMMA NotGrown ==
    ASSUME RInv, UNCHANGED log
    PROVE  Grew
<1>1. log \in [Periods -> Seq(Unit)] /\ \A f \in Periods : Len(log[f]) \in Nat
  BY DEF RInv, TypeOK
<1>2. \A f \in Periods : \A k \in 1 .. Len(log'[f]) : ~(k > Len(log[f]))
  BY <1>1
<1> QED
  BY <1>1, <1>2, KeptUnchanged DEF Grew

LEMMA GrownGrew ==
    ASSUME RInv, NEW t \in Threads, mutex = t, NEW m \in 0 .. Len(Pending(t)),
           Grown(Pending(t), m)
    PROVE  /\ Grew
           /\ m > 0 => \E k \in 1 .. Len(log'[open]) : log'[open][k].blk = blk[t]
<1> DEFINE b == blk[t]
           u == Pending(t)
<1>1. /\ open \in Periods /\ b \in Blocks /\ pc[t] \in {"head", "body"}
      /\ log \in [Periods -> Seq(Unit)]
  BY RedoAssumption DEF RInv, Mutexed, TypeOK
<1>2. /\ HeadOf(b) \in Seq(Unit) /\ Len(HeadOf(b)) = HeadLen /\ Numbered(HeadOf(b), HeadLen, b, 0)
      /\ BodyOf(b) \in Seq(Unit) /\ Len(BodyOf(b)) = Size[b] /\ Size[b] \in Nat \ {0}
      /\ Numbered(BodyOf(b), Size[b], b, HeadLen)
      /\ Length(b) = HeadLen + Size[b]
  BY <1>1, HeadAndBody, LengthIs
<1>3. m \in Nat /\ \A j \in 1 .. m : u[j].blk = b /\ u[j].part <= Length(b)
  <2> DEFINE size == Size[b]
             len == Length(b)
  <2>0. size \in Nat /\ len = 2 + size /\ HeadLen = 2
    BY <1>2 DEF HeadLen
  <2>1. CASE u = HeadOf(b)
    <3>1. m \in 0 .. 2 /\ \A j \in 1 .. 2 : u[j] = [blk |-> b, part |-> 0 + j]
      BY <1>2, <2>0, <2>1 DEF Numbered
    <3> HIDE DEF u, b, size, len
    <3>2. \A j \in 1 .. 2 : u[j].blk = b /\ u[j].part = 0 + j
      BY <3>1
    <3>3. \A j \in 1 .. m : j \in 1 .. 2 /\ 0 + j <= len
      BY <2>0, <3>1
    <3>4. m \in Nat /\ \A j \in 1 .. m : u[j].blk = b /\ u[j].part <= len
      BY <3>1, <3>2, <3>3
    <3> QED
      BY <3>4 DEF len, u, b
  <2>2. CASE u = BodyOf(b)
    <3>1. m \in 0 .. size /\ \A j \in 1 .. size : u[j] = [blk |-> b, part |-> 2 + j]
      BY <1>2, <2>0, <2>2 DEF Numbered
    <3> HIDE DEF u, b, size, len
    <3>2. \A j \in 1 .. size : u[j].blk = b /\ u[j].part = 2 + j
      <4> SUFFICES ASSUME NEW j \in 1 .. size PROVE u[j].blk = b /\ u[j].part = 2 + j
        OBVIOUS
      <4>1. u[j] = [blk |-> b, part |-> 2 + j]
        BY <3>1
      <4> QED
        BY <4>1
    <3>3. \A j \in 1 .. m : j \in 1 .. size /\ 2 + j <= len
      BY <2>0, <3>1
    <3>4. m \in Nat /\ \A j \in 1 .. m : u[j].blk = b /\ u[j].part <= len
      BY <3>1, <3>2, <3>3
    <3> QED
      BY <3>4 DEF len, u, b
  <2> QED
    BY <2>1, <2>2 DEF Pending
<1>4. Kept
  BY <1>1, <1>3, KeptGrown
<1> DEFINE s == log[open]
           r == log'[open]
<1>5. /\ Len(s) \in Nat /\ Len(r) = Len(s) + m
      /\ \A j \in 1 .. m : r[Len(s) + j] = u[j]
      /\ \A f \in Periods : f # open => log'[f] = log[f]
      /\ log' \in [Periods -> Seq(Unit)]
  BY <1>1 DEF Grown
<1> HIDE DEF s, r, u, b
<1>6. \A k \in 1 .. Len(r) : k > Len(s) => r[k].blk = b /\ r[k].part <= Length(b)
  <2> SUFFICES ASSUME NEW k \in 1 .. Len(r), k > Len(s)
               PROVE  r[k].blk = b /\ r[k].part <= Length(b)
    OBVIOUS
  <2>1. k - Len(s) \in 1 .. m /\ Len(s) + (k - Len(s)) = k
    BY <1>3, <1>5
  <2>2. r[k] = u[k - Len(s)]
    BY <1>5, <2>1
  <2> QED
    BY <1>3, <2>1, <2>2
<1>7. \A f \in Periods : \A k \in 1 .. Len(log'[f]) : k > Len(log[f]) =>
          log'[f][k].blk = b /\ log'[f][k].part <= Length(b)
  <2> SUFFICES ASSUME NEW f \in Periods, NEW k \in 1 .. Len(log'[f]), k > Len(log[f])
               PROVE  log'[f][k].blk = b /\ log'[f][k].part <= Length(b)
    OBVIOUS
  <2>1. CASE f = open
    BY <1>6, <2>1 DEF s, r
  <2>2. CASE f # open
    <3>1. log'[f] = log[f] /\ Len(log[f]) \in Nat
      BY <1>1, <1>5, <2>2
    <3> QED
      BY <3>1
  <2> QED
    BY <2>1, <2>2
<1>8. m > 0 => \E k \in 1 .. Len(r) : r[k].blk = b
  <2> SUFFICES ASSUME m > 0 PROVE \E k \in 1 .. Len(r) : r[k].blk = b
    OBVIOUS
  <2>1. Len(s) + 1 \in 1 .. Len(r) /\ 1 \in 1 .. m
    BY <1>3, <1>5
  <2>2. r[Len(s) + 1].blk = b
    BY <1>3, <1>5, <2>1
  <2> QED
    BY <2>1, <2>2
<1>9. Grew
  BY <1>1, <1>4, <1>5, <1>7 DEF Grew, b
<1> QED
  BY <1>8, <1>9 DEF b, r

-----------------------------------------------------------------------------
(* Steps that leave the scan.                                                *)

\* What the scan is about, and what it may have delivered.
LEMMA ScanOf ==
    ASSUME RInv
    PROVE  /\ scan.file \in Periods /\ log \in [Periods -> Seq(Unit)]
           /\ log[scan.file] \in Seq(Unit) /\ Len(log[scan.file]) \in Nat
           /\ scan.out \in Seq([head : Blocks, body : Seq(Unit)])
           /\ scan.pos \in Nat /\ scan.pos <= Len(log[scan.file])
<1>1. /\ scan.file \in Periods /\ log \in [Periods -> Seq(Unit)]
      /\ scan.out \in Seq([head : Blocks, body : Seq(Unit)])
      /\ scan.pos \in 0 .. Len(log[scan.file])
  BY DEF RInv, TypeOK
<1>2. log[scan.file] \in Seq(Unit)
  BY <1>1
<1>3. Len(log[scan.file]) \in Nat
  BY <1>2
<1> QED
  BY <1>1, <1>2, <1>3

LEMMA BeforeIs ==
    ASSUME RInv, Once
    PROVE  scan.before \in SUBSET Blocks /\ \A a \in scan.before : Gone(a)
<1> SUFFICES ASSUME NEW a \in scan.before PROVE a \in Blocks /\ Gone(a)
  OBVIOUS
<1>0. RestType
  BY TypeParts DEF RInv
<1>1. PICK k \in 1 .. Len(acked) : acked[k].blk = a
  BY DEF Once
<1>2. acked[k].blk \in Blocks
  BY <1>0, AckedType
<1> QED
  BY <1>1, <1>2 DEF Once

LEMMA PartsGrow ==
    ASSUME RInv, Parts, Grew
    PROVE  Parts'
<1> SUFFICES ASSUME NEW f \in Periods, NEW k \in 1 .. Len(log'[f])
             PROVE  log'[f][k].part <= Length(log'[f][k].blk)
  BY DEF Parts
<1>1. log[f] \in Seq(Unit) /\ log'[f] \in Seq(Unit)
  BY ScanOf DEF Grew
<1>2. CASE k > Len(log[f])
  BY <1>2 DEF Grew
<1>3. CASE ~(k > Len(log[f]))
  <2>1. k \in 1 .. Len(log[f])
    BY <1>1, <1>3
  <2>2. log'[f][k] = log[f][k]
    BY <2>1 DEF Grew, Kept
  <2> QED
    BY <2>1, <2>2 DEF Parts
<1> QED
  BY <1>2, <1>3

LEMMA PlaceStays ==
    ASSUME UInv, Grew, UNCHANGED scan
    PROVE  PlaceInv'
<1> DEFINE s == log[scan.file]
           r == log'[scan.file]
<1>0. RInv /\ Once /\ PlaceInv
  BY DEF UInv
<1>1. /\ s \in Seq(Unit) /\ Len(s) \in Nat /\ scan.file \in Periods
      /\ scan.out \in Seq([head : Blocks, body : Seq(Unit)])
      /\ scan.pos \in Nat /\ scan.pos <= Len(s)
  BY <1>0, ScanOf
<1>2. r \in Seq(Unit) /\ Extends(r, s)
  BY <1>1 DEF Grew, Kept, Extends
<1>3. \A a \in scan.before : \A k \in 1 .. Len(r) : k > Len(s) => r[k].blk # a
  <2> SUFFICES ASSUME NEW a \in scan.before, NEW k \in 1 .. Len(r), k > Len(s)
               PROVE  r[k].blk # a
    OBVIOUS
  <2>1. \E t \in Threads : r[k].blk = blk[t]
    BY <1>1 DEF Grew
  <2>2. \A t \in Threads : blk[t] # a
    BY <1>0, BeforeIs DEF Gone
  <2> QED
    BY <2>1, <2>2
<1>4. log'[scan'.file] = r
  OBVIOUS
<1> SUFFICES ASSUME scan.state # "none" PROVE \E e \in Nat : \E at : ScanAt(at, e)'
  BY DEF PlaceInv
<1>5. PICK e \in Nat : \E at : ScanAt(at, e)
  BY <1>0 DEF PlaceInv
<1>6. PICK at : ScanAt(at, e)
  BY <1>5
<1>7. /\ Placed(at, s, scan.out, e)
      /\ scan.state = "head" => scan.pos = e
      /\ scan.state = "body" => scan.pos = e + HeadLen /\ HeadIn(scan.head, s, e)
      /\ scan.state = "done" => NoneMissed(e, s, scan.before)
  BY <1>6 DEF ScanAt
<1>8. scan.before \in SUBSET Blocks
  BY <1>0, BeforeIs
<1> HIDE DEF s, r
<1>9. Placed(at, r, scan.out, e)
  BY <1>1, <1>2, <1>7, PlacedGrows
<1>10. scan.state = "body" => HeadIn(scan.head, r, e)
  <2> SUFFICES ASSUME scan.state = "body" PROVE HeadIn(scan.head, r, e)
    OBVIOUS
  <2>1. \A k \in 1 .. HeadLen : e + k \in 1 .. Len(s)
    BY <1>1, <1>7 DEF HeadLen
  <2> QED
    BY <1>2, <1>7, <2>1 DEF HeadIn, Extends
<1>11. scan.state = "done" => NoneMissed(e, r, scan.before)
  BY <1>1, <1>2, <1>3, <1>7, <1>8, NoneMissedStays
<1>12. ScanAt(at, e)'
  BY <1>4, <1>7, <1>9, <1>10, <1>11 DEF ScanAt
<1> QED
  BY <1>12

LEMMA GoneStays ==
    ASSUME RInv, Grew, NEW b, Gone(b), \A t \in Threads : blk'[t] # b
    PROVE  Gone(b)'
<1>1. PICK f \in Periods : \E k \in 1 .. Len(log[f]) : log[f][k].blk = b
  BY DEF Gone
<1>2. PICK k \in 1 .. Len(log[f]) : log[f][k].blk = b
  BY <1>1
<1>3. log[f] \in Seq(Unit) /\ log'[f] \in Seq(Unit)
  BY ScanOf DEF Grew
<1>4. k \in 1 .. Len(log'[f]) /\ log'[f][k].blk = b
  <2>1. Len(log'[f]) >= Len(log[f]) /\ log'[f][k] = log[f][k]
    BY DEF Grew, Kept
  <2>2. Len(log'[f]) \in Nat /\ Len(log[f]) \in Nat
    BY <1>3
  <2> QED
    BY <1>2, <2>1, <2>2
<1> QED
  BY <1>4 DEF Gone

\* Units are written, and calls return without an acknowledgement.
LEMMA Quiet ==
    ASSUME UInv, RInv', Grew, UNCHANGED <<acked, scan>>,
           \A t \in Threads : blk'[t] \in {blk[t], Null}
    PROVE  UInv'
<1>0. RInv /\ Once /\ Parts /\ RestType
  BY TypeParts DEF UInv, RInv
<1>1. PlaceInv' /\ Parts'
  BY <1>0, PlaceStays, PartsGrow
<1>2. \A t, u \in Threads : blk'[t] = blk'[u] /\ t # u => blk'[t] = Null
  BY <1>0 DEF Once
<1>3. \A k \in 1 .. Len(acked) : Gone(acked[k].blk)'
  <2> SUFFICES ASSUME NEW k \in 1 .. Len(acked) PROVE Gone(acked[k].blk)'
    OBVIOUS
  <2>1. acked[k].blk \in Blocks /\ Gone(acked[k].blk)
    BY <1>0, AckedType DEF Once
  <2>2. PICK b \in Blocks : b = acked[k].blk
    BY <2>1
  <2>3. Gone(b) /\ b = acked'[k].blk
    BY <2>1, <2>2
  <2>4. \A t \in Threads : blk'[t] # b
    BY <2>3, RedoAssumption DEF Gone
  <2>5. Gone(b)'
    BY <1>0, <2>3, <2>4, GoneStays
  <2> QED
    BY <2>3, <2>5 DEF Gone
<1>4. Once'
  BY <1>0, <1>2, <1>3 DEF Once
<1> QED
  BY <1>1, <1>4 DEF UInv

LEMMA CallUnits ==
    ASSUME UInv, RInv', NEW t \in Threads, NEW b \in Blocks, Call(t, b)
    PROVE  UInv'
<1>0. RInv /\ Once /\ Parts /\ RestType
  BY TypeParts DEF UInv, RInv
<1>1. /\ UNCHANGED <<log, acked, scan>> /\ b \notin Used
      /\ \A u \in Threads : blk'[u] = IF u = t THEN b ELSE blk[u]
  BY <1>0 DEF Call, RestType
<1>2. Grew
  BY <1>0, <1>1, NotGrown
<1>3. PlaceInv' /\ Parts'
  BY <1>0, <1>1, <1>2, PlaceStays, PartsGrow
<1>4. \A u \in Threads : blk[u] # b
  BY <1>1 DEF Used
<1>5. \A f \in Periods : \A k \in 1 .. Len(log[f]) : log[f][k].blk # b
  <2> SUFFICES ASSUME NEW f \in Periods, NEW k \in 1 .. Len(log[f]), log[f][k].blk = b
               PROVE  FALSE
    OBVIOUS
  <2>1. log[f][k] \in ToSet(log[f])
    BY DEF ToSet
  <2>2. b \in { u.blk : u \in ToSet(log[f]) }
    BY <2>1
  <2> QED
    BY <1>1, <2>2 DEF Used
<1>6. \A k \in 1 .. Len(acked) : Gone(acked[k].blk)'
  <2> SUFFICES ASSUME NEW k \in 1 .. Len(acked) PROVE Gone(acked[k].blk)'
    OBVIOUS
  <2>1. acked[k].blk \in Blocks /\ Gone(acked[k].blk)
    BY <1>0, AckedType DEF Once
  <2>2. PICK a \in Blocks : a = acked[k].blk
    BY <2>1
  <2>3. Gone(a) /\ a = acked'[k].blk
    BY <1>1, <2>1, <2>2
  <2>4. a # b
    BY <1>5, <2>3 DEF Gone
  <2>5. \A u \in Threads : blk'[u] # a
    BY <1>1, <2>3, <2>4 DEF Gone
  <2>6. Gone(a)'
    BY <1>0, <1>2, <2>3, <2>5, GoneStays
  <2> QED
    BY <2>3, <2>6 DEF Gone
<1>7. \A u, v \in Threads : blk'[u] = blk'[v] /\ u # v => blk'[u] = Null
  BY <1>0, <1>1, <1>4 DEF Once
<1>8. Once'
  BY <1>0, <1>1, <1>6, <1>7 DEF Once
<1> QED
  BY <1>3, <1>8 DEF UInv

LEMMA WriteHeadUnits ==
    ASSUME UInv, RInv', NEW t \in Threads, WriteHead(t)
    PROVE  UInv'
<1>0. RInv /\ RestType
  BY TypeParts DEF UInv, RInv
<1>1. /\ mutex = t /\ Pending(t) = HeadOf(blk[t]) /\ UNCHANGED <<acked, scan>>
      /\ UNCHANGED blk \/ Return(t)
      /\ Wrote(Pending(t), TRUE) \/ Wrote(Pending(t), FALSE)
  BY <1>0 DEF WriteHead, Pending, RInv, Mutexed
<1>2. PICK m \in 0 .. Len(Pending(t)) : Grown(Pending(t), m)
  BY <1>0, <1>1, WriteStep
<1>3. Grew
  BY <1>0, <1>1, <1>2, GrownGrew
<1>4. \A u \in Threads : blk'[u] \in {blk[u], Null}
  BY <1>0, <1>1 DEF Return, RestType
<1> QED
  BY <1>1, <1>3, <1>4, Quiet

LEMMA WriteBodyUnits ==
    ASSUME UInv, RInv', NEW t \in Threads, WriteBody(t)
    PROVE  UInv'
<1>0. RInv /\ Once /\ Parts /\ RestType /\ RestType'
  BY TypeParts, TypePartsNext DEF UInv, RInv
<1>1. /\ mutex = t /\ Pending(t) = BodyOf(blk[t]) /\ blk[t] \in Blocks /\ open \in Periods
      /\ UNCHANGED <<scan, now>> /\ Return(t)
      /\ \/ /\ Wrote(Pending(t), TRUE)
            /\ acked' = Append(acked, [blk |-> blk[t], file |-> open])
         \/ Wrote(Pending(t), FALSE) /\ UNCHANGED acked
  BY <1>0, RedoAssumption DEF WriteBody, Pending, RInv, Mutexed
<1>2. \A u \in Threads : blk'[u] = IF u = t THEN Null ELSE blk[u]
  BY <1>0, <1>1 DEF Return, RestType
<1>3. CASE Wrote(Pending(t), FALSE) /\ UNCHANGED acked
  <2>1. PICK m \in 0 .. Len(Pending(t)) : Grown(Pending(t), m)
    BY <1>0, <1>1, <1>3, WriteStep
  <2>2. Grew
    BY <1>0, <1>1, <2>1, GrownGrew
  <2> QED
    BY <1>1, <1>2, <1>3, <2>2, Quiet
<1>4. CASE Wrote(Pending(t), TRUE) /\ acked' = Append(acked, [blk |-> blk[t], file |-> open])
  <2>1. PICK m \in 0 .. Len(Pending(t)) :
            Grown(Pending(t), m) /\ (m = Len(Pending(t)) \/ m > 0)
    BY <1>0, <1>1, <1>4, WriteStep
  <2>2. m > 0
    BY <1>1, <2>1, HeadAndBody
  <2>3. Grew /\ \E k \in 1 .. Len(log'[open]) : log'[open][k].blk = blk[t]
    BY <1>0, <1>1, <2>1, <2>2, GrownGrew
  <2>4. PlaceInv' /\ Parts'
    BY <1>0, <1>1, <2>3, PlaceStays, PartsGrow
  <2>5. /\ Len(acked') = Len(acked) + 1 /\ Len(acked) \in Nat
        /\ \A k \in 1 .. Len(acked) : acked'[k] = acked[k]
        /\ acked'[Len(acked) + 1] = [blk |-> blk[t], file |-> open]
    <3>1. open <= now
      <4>1. open \in {0, timet} /\ timet <= now
        BY <1>0 DEF RInv, Times
      <4>2. now \in Nat /\ now >= 0
        BY <1>0 DEF RestType, Periods
      <4> QED
        BY <4>1, <4>2
    <3>2. Len(acked) \in Nat
      BY <1>0 DEF RestType
    <3> QED
      BY <1>0, <1>1, <1>4, <3>1, <3>2, AckedGrows DEF RInv, Times
  <2>6. PICK b \in Blocks : b = blk[t]
    BY <1>1
  <2>7. Gone(b)'
    <3>1. \A u \in Threads : blk'[u] # b
      BY <1>0, <1>2, <2>6, RedoAssumption DEF Once
    <3> QED
      BY <1>1, <2>3, <2>6, <3>1 DEF Gone
  <2>8. (\A k \in 1 .. Len(acked) : Gone(acked[k].blk))'
    <3> SUFFICES ASSUME NEW k \in 1 .. Len(acked') PROVE Gone(acked[k].blk)'
      OBVIOUS
    <3>1. CASE k = Len(acked) + 1
      <4>1. acked'[k].blk = b
        BY <2>5, <2>6, <3>1
      <4> QED
        BY <2>7, <4>1 DEF Gone
    <3>2. CASE k # Len(acked) + 1
      <4>1. k \in 1 .. Len(acked) /\ acked'[k] = acked[k]
        BY <2>5, <3>2
      <4>2. acked[k].blk \in Blocks /\ Gone(acked[k].blk)
        BY <1>0, <4>1, AckedType DEF Once
      <4>3. PICK a \in Blocks : a = acked[k].blk
        BY <4>2
      <4>4. Gone(a) /\ a = acked'[k].blk
        BY <4>1, <4>2, <4>3
      <4>5. \A u \in Threads : blk'[u] # a
        BY <1>2, <4>4, RedoAssumption DEF Gone
      <4>6. Gone(a)'
        BY <1>0, <2>3, <4>4, <4>5, GoneStays
      <4> QED
        BY <4>4, <4>6 DEF Gone
    <3> QED
      BY <3>1, <3>2
  <2>9. \A u, v \in Threads : blk'[u] = blk'[v] /\ u # v => blk'[u] = Null
    BY <1>0, <1>2 DEF Once
  <2>10. \A a \in scan'.before : \E k \in 1 .. Len(acked') : acked'[k].blk = a
    <3> SUFFICES ASSUME NEW a \in scan.before
                 PROVE  \E k \in 1 .. Len(acked') : acked'[k].blk = a
      BY <1>1
    <3>1. PICK k \in 1 .. Len(acked) : acked[k].blk = a
      BY <1>0 DEF Once
    <3>2. k \in 1 .. Len(acked') /\ acked'[k].blk = a
      BY <2>5, <3>1
    <3> QED
      BY <3>2
  <2>11. Once'
    BY <2>8, <2>9, <2>10 DEF Once
  <2> QED
    BY <2>4, <2>11 DEF UInv
<1> QED
  BY <1>1, <1>3, <1>4

LEMMA CrashUnits ==
    ASSUME UInv, RInv', Crash
    PROVE  UInv'
<1>0. RInv /\ RestType
  BY TypeParts DEF UInv, RInv
<1>1. Grew
  <2>1. CASE UNCHANGED log
    BY <1>0, <2>1, NotGrown
  <2>2. CASE ~ UNCHANGED log
    <3>1. mutex \in Threads /\ open \in Periods /\ blk[mutex] \in Blocks
      BY <1>0, <2>2 DEF Crash, RestType, RInv, Mutexed
    <3>2. PICK t \in Threads : t = mutex
      BY <3>1
    <3>3. Pending(t) \in Seq(Unit)
      BY <3>1, <3>2, HeadAndBody DEF Pending
    <3>4. PICK m \in 1 .. Len(Pending(t)) :
            log' = [log EXCEPT ![open] = @ \o SubSeq(Pending(t), 1, m)]
      BY <2>2, <3>2 DEF Crash, Pending
    <3>5. m \in 0 .. Len(Pending(t))
      BY <3>3
    <3>6. Grown(Pending(t), m)
      BY <1>0, <3>1, <3>3, <3>4, <3>5, GrownBy DEF RInv
    <3> QED
      BY <1>0, <3>2, <3>5, <3>6, GrownGrew
  <2> QED
    BY <2>1, <2>2
<1>2. UNCHANGED <<acked, scan>> /\ \A t \in Threads : blk'[t] \in {blk[t], Null}
  BY DEF Crash
<1> QED
  BY <1>1, <1>2, Quiet

LEMMA OthersUnits ==
    ASSUME UInv, RInv',
           \/ \E t \in Threads : Enter(t)
           \/ SwitchFile \/ Close \/ Tick \/ UNCHANGED vars
    PROVE  UInv'
<1>0. RInv /\ RestType
  BY TypeParts DEF UInv, RInv
<1>1. UNCHANGED <<log, acked, scan>>
  BY DEF Enter, SwitchFile, Close, Tick, vars
<1>2. \A t \in Threads : blk'[t] \in {blk[t], Null}
  BY <1>0 DEF Enter, Return, SwitchFile, Close, Tick, vars, threads, RestType
<1> QED
  BY <1>0, <1>1, <1>2, NotGrown, Quiet

-----------------------------------------------------------------------------
(* Steps of the scan.                                                        *)

\* One more was read behind the others.
LEMMA PlacedMore ==
    ASSUME NEW s \in Seq(Unit), NEW T, NEW out \in Seq(T), NEW d \in T,
           NEW at, NEW e \in Nat, Placed(at, s, out, e),
           d.head \in Blocks, ReadAt(d, s, e), e + Length(d.head) <= Len(s)
    PROVE  \E z : Placed(z, s, Append(out, d), e + Length(d.head))
<1> DEFINE n == Len(out)
           w == e + Length(d.head)
           z == [i \in 1 .. n + 2 |-> IF i = n + 2 THEN w ELSE at[i]]
           more == Append(out, d)
<1>1. n \in Nat /\ Len(more) = n + 1 /\ more[n + 1] = d /\ \A i \in 1 .. n : more[i] = out[i]
  BY Appending
<1>2. w \in Nat /\ e < w
  <2>1. Length(d.head) \in Nat /\ 1 \in 1 .. Length(d.head)
    BY LengthPositive
  <2> QED
    BY <2>1
<1>3. /\ at \in [1 .. n + 1 -> Nat] /\ at[1] = 0 /\ at[n + 1] = e
      /\ \A i \in 1 .. n : at[i + 1] = at[i] + Length(out[i].head) /\ ReadAt(out[i], s, at[i])
      /\ \A i, j \in 1 .. n + 1 : i < j => at[i] < at[j]
  BY DEF Placed
<1>4. /\ Len(more) + 1 = n + 2
      /\ \A i \in 1 .. n + 2 : z[i] = IF i = n + 2 THEN w ELSE at[i]
      /\ w = e + Length(d.head) /\ w <= Len(s)
  BY <1>1
<1>5. z \in [1 .. n + 2 -> Nat] /\ z = [i \in 1 .. n + 2 |-> z[i]]
  <2>1. \A i \in 1 .. n + 2 : i # n + 2 => i \in 1 .. n + 1
    BY <1>1
  <2>2. \A i \in 1 .. n + 1 : at[i] \in Nat
    BY <1>3
  <2> HIDE DEF n, w
  <2>3. \A i \in 1 .. n + 2 : z[i] \in Nat
    BY <1>2, <2>1, <2>2
  <2> QED
    BY <2>3
<1> HIDE DEF n, w, z, more
<1>6. z[1] = 0 /\ z[n + 1] = e /\ z[n + 2] = w
  BY <1>1, <1>3, <1>4
<1>7. \A i \in 1 .. n + 1 : z[i + 1] = z[i] + Length(more[i].head) /\ ReadAt(more[i], s, z[i])
  <2> SUFFICES ASSUME NEW i \in 1 .. n + 1
               PROVE  z[i + 1] = z[i] + Length(more[i].head) /\ ReadAt(more[i], s, z[i])
    OBVIOUS
  <2>1. CASE i = n + 1
    <3>1. i + 1 = n + 2 /\ more[i] = d /\ z[i] = e
      BY <1>1, <1>6, <2>1
    <3>2. z[i + 1] = w
      BY <1>6, <3>1
    <3> QED
      BY <1>4, <3>1, <3>2
  <2>2. CASE i # n + 1
    <3>1. i \in 1 .. n /\ i \in 1 .. n + 2 /\ i + 1 \in 1 .. n + 2 /\ i # n + 2 /\ i + 1 # n + 2
      BY <1>1, <2>2
    <3>2. z[i] = at[i] /\ z[i + 1] = at[i + 1] /\ more[i] = out[i]
      BY <1>1, <1>4, <3>1
    <3> QED
      BY <1>3, <3>1, <3>2
  <2> QED
    BY <2>1, <2>2
<1>8. \A i, j \in 1 .. n + 2 : i < j => z[i] < z[j]
  <2> SUFFICES ASSUME NEW i \in 1 .. n + 2, NEW j \in 1 .. n + 2, i < j PROVE z[i] < z[j]
    OBVIOUS
  <2>1. i \in 1 .. n + 1 /\ z[i] = at[i] /\ at[i] \in Nat
    <3>1. i \in 1 .. n + 1 /\ i # n + 2
      BY <1>1
    <3> QED
      BY <1>3, <1>4, <3>1
  <2>2. CASE j = n + 2
    <3>1. at[i] <= e
      <4>1. n + 1 \in 1 .. n + 1 /\ (i = n + 1 \/ i < n + 1)
        BY <1>1, <2>1
      <4>2. i < n + 1 => at[i] < at[n + 1]
        BY <1>3, <2>1, <4>1
      <4> QED
        BY <1>3, <2>1, <4>1, <4>2
    <3> QED
      BY <1>2, <1>6, <2>1, <2>2, <3>1
  <2>3. CASE j # n + 2
    <3>1. j \in 1 .. n + 1
      BY <1>1, <2>3
    <3>2. z[j] = at[j]
      BY <1>4, <2>3
    <3> QED
      BY <1>3, <2>1, <3>1, <3>2
  <2> QED
    BY <2>2, <2>3
<1>9. Placed(z, s, more, w)
  BY <1>1, <1>4, <1>5, <1>6, <1>7, <1>8 DEF Placed
<1> QED
  BY <1>9 DEF more, w

LEMMA NoneWhole ==
    ASSUME NEW e, NEW s, NEW before, \A x \in Blocks : ~ WholeAt(x, s, e)
    PROVE  NoneMissed(e, s, before)
  BY DEF NoneMissed

\* What a scan reads next is what the file has behind its position.
LEMMA RestAt ==
    ASSUME RInv
    PROVE  \A k \in 1 .. Len(Rest) : Rest[k] = log[scan.file][scan.pos + k]
<1> DEFINE s == log[scan.file]
           p == scan.pos
<1>1. s \in Seq(Unit) /\ p \in 0 .. Len(s)
  BY DEF RInv, TypeOK
<1>2. Rest = SubSeq(s, p + 1, Len(s))
  BY DEF Rest
<1> HIDE DEF s, p
<1>3. \A k \in 1 .. Len(SubSeq(s, p + 1, Len(s))) : SubSeq(s, p + 1, Len(s))[k] = s[p + k]
  BY <1>1
<1> QED
  BY <1>2, <1>3 DEF s, p

LEMMA OnceKept ==
    ASSUME UInv, UNCHANGED <<log, acked, threads>>,
           \A a \in scan'.before : \E k \in 1 .. Len(acked) : acked[k].blk = a
    PROVE  Once' /\ Parts'
<1>1. blk' = blk
  BY DEF threads
<1>2. \A b : Gone(b)' = Gone(b)
  BY <1>1 DEF Gone
<1>3. Once'
  BY <1>1 DEF UInv, Once, Gone
<1>4. Parts'
  BY DEF UInv, Parts
<1> QED
  BY <1>3, <1>4

LEMMA StartScanUnits ==
    ASSUME UInv, RInv', NEW f \in Periods, StartScan(f)
    PROVE  UInv'
<1>0. RInv /\ Once /\ PlaceInv
  BY DEF UInv
<1> DEFINE before == AckedIn(f)
<1>1. /\ scan'.state = "head" /\ scan'.pos = 0 /\ scan'.out = <<>> /\ scan'.before = before
      /\ UNCHANGED <<log, acked, threads>>
  BY DEF StartScan, NoScan
<1>2. \A a \in before : \E k \in 1 .. Len(acked) : acked[k].blk = a
  <2>1. DOMAIN acked = 1 .. Len(acked)
    BY <1>0 DEF RInv, TypeOK
  <2> QED
    BY <2>1 DEF AckedIn
<1> HIDE DEF before
<1>3. Once' /\ Parts'
  BY <1>1, <1>2, OnceKept
<1> DEFINE at == [i \in 1 .. 1 |-> 0]
           s == log'[scan'.file]
<1>4. Placed(at, s, <<>>, 0)
  <2>1. Len(s) \in Nat
    BY DEF RInv, TypeOK
  <2>2. /\ at \in [1 .. 1 -> Nat] /\ at[1] = 0 /\ \A i \in 1 .. 1 : i = 1
    OBVIOUS
  <2> DEFINE none == <<>>
  <2>3. Len(none) = 0
    OBVIOUS
  <2> HIDE DEF at, s, none
  <2>4. Placed(at, s, none, 0)
    BY <2>1, <2>2, <2>3 DEF Placed
  <2> QED
    BY <2>4 DEF none
<1>5. PICK z : z = at
  OBVIOUS
<1>6. ScanAt(z, 0)'
  BY <1>1, <1>4, <1>5 DEF ScanAt
<1>7. PlaceInv'
  BY <1>6 DEF PlaceInv
<1> QED
  BY <1>3, <1>7 DEF UInv

\* A scan that ends where no whole block begins has missed none.
LEMMA ScanEnds ==
    ASSUME UInv, scan.state \in {"head", "body"}, UNCHANGED log,
           scan'.state = "done", scan'.file = scan.file, scan'.out = scan.out,
           NEW e \in Nat, NEW at, ScanAt(at, e),
           \A x \in Blocks : ~ WholeAt(x, log[scan.file], e)
    PROVE  PlaceInv'
<1> DEFINE s == log[scan.file]
<1>1. log'[scan'.file] = s /\ Placed(at, s, scan'.out, e)
  BY DEF ScanAt
<1>2. PICK before : before = scan'.before
  OBVIOUS
<1>3. NoneMissed(e, s, before)
  BY NoneWhole
<1>4. ScanAt(at, e)'
  BY <1>1, <1>2, <1>3 DEF ScanAt
<1> QED
  BY <1>4 DEF PlaceInv

LEMMA Alike ==
    ASSUME NEW T, NEW s \in Seq(T), NEW r \in Seq(T), Len(s) = Len(r),
           \A k \in 1 .. Len(s) : s[k] = r[k]
    PROVE  s = r
  OBVIOUS

\* The first m units of what is left.
LEMMA FrontOf ==
    ASSUME NEW T, NEW r \in Seq(T), NEW m \in Nat, m <= Len(r)
    PROVE  LET v == SubSeq(r, 1, m)
           IN  v \in Seq(T) /\ Len(v) = m /\ \A k \in 1 .. m : v[k] = r[k]
  OBVIOUS

LEMMA ScanHeadUnits ==
    ASSUME UInv, RInv', ScanHead
    PROVE  UInv'
<1>0. RInv /\ Once /\ PlaceInv
  BY DEF UInv
<1> DEFINE s == log[scan.file]
           rest == Rest
<1>1. /\ scan.state = "head" /\ UNCHANGED <<log, acked, threads>>
      /\ scan' = IF Len(rest) < HeadLen THEN [scan EXCEPT !.state = "done"]
                 ELSE IF SubSeq(rest, 1, HeadLen) # HeadOf(rest[1].blk)
                      THEN [scan EXCEPT !.state = "done", !.num = -1]
                 ELSE [scan EXCEPT !.state = "body", !.head = rest[1].blk, !.pos = @ + HeadLen]
  BY DEF ScanHead
<1>2. scan'.before = scan.before /\ scan'.file = scan.file /\ scan'.out = scan.out
  BY <1>0, <1>1 DEF RInv, ScanInv
<1>3. Once' /\ Parts'
  BY <1>0, <1>1, <1>2, OnceKept DEF Once
<1>4. PICK e \in Nat : \E at : ScanAt(at, e)
  BY <1>0, <1>1 DEF PlaceInv
<1>5. PICK at : ScanAt(at, e)
  BY <1>4
<1>6. Placed(at, s, scan.out, e) /\ scan.pos = e
  BY <1>1, <1>5 DEF ScanAt
<1>7. /\ rest \in Seq(Unit) /\ Len(rest) = Len(s) - e /\ Len(s) \in Nat
      /\ \A k \in 1 .. Len(rest) : rest[k] = s[e + k]
  BY <1>0, <1>6, RestIs, RestAt
<1>8. HeadLen = 2
  BY DEF HeadLen
<1>9. ASSUME NEW x \in Blocks, WholeAt(x, s, e)
      PROVE  /\ Len(rest) >= 2
             /\ SubSeq(rest, 1, HeadLen) = HeadOf(x) /\ rest[1].blk = x
  <2> DEFINE len == Length(x)
             size == Size[x]
  <2>1. size \in Nat \ {0} /\ len = 2 + size /\ len \in Nat
    BY <1>8, RedoAssumption, LengthIs
  <2>2. e + len <= Len(s) /\ \A j \in 1 .. len : s[e + j] = [blk |-> x, part |-> j]
    BY <1>9 DEF WholeAt
  <2> HIDE DEF s, rest, len, size
  <2>3. Len(rest) >= 2
    BY <1>7, <2>1, <2>2
  <2>4. \A k \in 1 .. 2 : k \in 1 .. Len(rest) /\ k \in 1 .. len
    BY <1>7, <2>1, <2>3
  <2>5. \A k \in 1 .. 2 : rest[k] = [blk |-> x, part |-> k]
    BY <1>7, <2>2, <2>4
  <2> DEFINE v == SubSeq(rest, 1, 2)
             h == HeadOf(x)
  <2>6. v \in Seq(Unit) /\ Len(v) = 2 /\ \A k \in 1 .. 2 : v[k] = rest[k]
    <3>1. 2 \in Nat
      OBVIOUS
    <3> QED
      BY <1>7, <2>3, <3>1, FrontOf
  <2>7. h \in Seq(Unit) /\ Len(h) = 2 /\ \A k \in 1 .. 2 : h[k] = [blk |-> x, part |-> 0 + k]
    BY <1>8, HeadAndBody DEF Numbered
  <2> HIDE DEF v, h
  <2>8. \A k \in 1 .. 2 : v[k] = h[k]
    <3> SUFFICES ASSUME NEW k \in 1 .. 2 PROVE v[k] = h[k]
      OBVIOUS
    <3>1. 0 + k = k
      OBVIOUS
    <3> QED
      BY <2>5, <2>6, <2>7, <3>1
  <2>9. v = h
    BY <2>6, <2>7, <2>8, Alike
  <2>10. rest[1].blk = x
    <3>1. rest[1] = [blk |-> x, part |-> 1]
      BY <2>5
    <3> QED
      BY <3>1
  <2> QED
    BY <1>8, <2>3, <2>9, <2>10 DEF v, h
<1>10. CASE Len(rest) < HeadLen \/ SubSeq(rest, 1, HeadLen) # HeadOf(rest[1].blk)
  <2>1. scan'.state = "done"
    BY <1>0, <1>1, <1>10 DEF RInv, ScanInv
  <2>2. \A x \in Blocks : ~ WholeAt(x, s, e)
    <3> SUFFICES ASSUME NEW x \in Blocks, WholeAt(x, s, e) PROVE FALSE
      OBVIOUS
    <3>1. /\ Len(rest) >= 2 /\ SubSeq(rest, 1, HeadLen) = HeadOf(rest[1].blk)
          /\ Len(rest) \in Int
      BY <1>7, <1>9
    <3> QED
      BY <1>8, <1>10, <3>1
  <2>3. PlaceInv'
    BY <1>1, <1>2, <1>5, <2>1, <2>2, ScanEnds
  <2> QED
    BY <1>3, <2>3 DEF UInv
<1>11. CASE ~ (Len(rest) < HeadLen \/ SubSeq(rest, 1, HeadLen) # HeadOf(rest[1].blk))
  <2> DEFINE b == rest[1].blk
             v == SubSeq(rest, 1, 2)
             h == HeadOf(b)
  <2>1. scan'.state = "body" /\ scan'.head = b /\ scan'.pos = e + HeadLen
    BY <1>0, <1>1, <1>6, <1>11 DEF RInv, ScanInv
  <2>2. b \in Blocks
    <3>1. 1 \in 1 .. Len(rest)
      BY <1>7, <1>8, <1>11
    <3>2. rest[1] \in Unit
      BY <1>7, <3>1, Element
    <3> QED
      BY <3>2 DEF Unit
  <2>3. Len(rest) >= 2 /\ v = h
    BY <1>7, <1>8, <1>11
  <2>4. \A k \in 1 .. 2 : h[k] = [blk |-> b, part |-> 0 + k]
    BY <1>8, <2>2, HeadAndBody DEF Numbered
  <2>5. \A k \in 1 .. 2 : v[k] = rest[k]
    <3>1. 2 \in Nat
      OBVIOUS
    <3> QED
      BY <1>7, <2>3, <3>1, FrontOf
  <2> HIDE DEF b, v, h, rest, s
  <2>6. \A k \in 1 .. 2 : s[e + k] = [blk |-> b, part |-> k]
    <3> SUFFICES ASSUME NEW k \in 1 .. 2 PROVE s[e + k] = [blk |-> b, part |-> k]
      OBVIOUS
    <3>1. k \in 1 .. Len(rest) /\ 0 + k = k
      BY <1>7, <2>3
    <3> QED
      BY <1>7, <2>3, <2>4, <2>5, <3>1
  <2>7. HeadIn(b, s, e)
    BY <1>8, <2>6 DEF HeadIn
  <2>8. log'[scan'.file] = s
    BY <1>1, <1>2 DEF s
  <2>9. ScanAt(at, e)'
    BY <1>2, <1>6, <2>1, <2>7, <2>8 DEF ScanAt
  <2>10. PlaceInv'
    BY <2>9 DEF PlaceInv
  <2> QED
    BY <1>3, <2>10 DEF UInv
<1> QED
  BY <1>10, <1>11

LEMMA ScanBodyUnits ==
    ASSUME UInv, RInv', ScanBody
    PROVE  UInv'
<1>0. RInv /\ Once /\ PlaceInv
  BY DEF UInv
<1> DEFINE s == log[scan.file]
           rest == Rest
           b == scan.head
           size == Size[b]
           body == SubSeq(rest, 1, size)
           d == [head |-> b, body |-> body]
<1>1. scan.state = "body" /\ UNCHANGED <<log, acked, threads>>
  BY DEF ScanBody
<1>2. CASE scan' = NoScan
  <2>1. scan'.state = "none" /\ scan'.before = {}
    BY <1>2 DEF NoScan
  <2>2. Once' /\ Parts'
    BY <1>1, <2>1, OnceKept
  <2>3. PlaceInv'
    BY <2>1 DEF PlaceInv
  <2> QED
    BY <2>2, <2>3 DEF UInv
<1>3. PICK e \in Nat : \E at : ScanAt(at, e)
  BY <1>0, <1>1 DEF PlaceInv
<1>4. PICK at : ScanAt(at, e)
  BY <1>3
<1>5. Placed(at, s, scan.out, e) /\ scan.pos = e + HeadLen /\ HeadIn(b, s, e)
  BY <1>1, <1>4 DEF ScanAt
<1>6. /\ rest \in Seq(Unit) /\ Len(rest) = Len(s) - (e + HeadLen) /\ Len(s) \in Nat
      /\ \A k \in 1 .. Len(rest) : rest[k] = s[e + HeadLen + k]
      /\ s \in Seq(Unit)
  BY <1>0, <1>5, RestIs, RestAt, ScanOf
<1>7. /\ HeadLen = 2 /\ b \in Blocks /\ size \in Nat /\ Length(b) = 2 + size
  BY <1>0, <1>1, RedoAssumption, LengthIs DEF HeadLen, RInv, ScanInv
<1>8. CASE /\ scan' = [scan EXCEPT !.state = "done", !.num = -1]
           /\ Len(rest) < size \/ body # BodyOf(b)
  <2>1. /\ scan'.state = "done" /\ scan'.before = scan.before
        /\ scan'.file = scan.file /\ scan'.out = scan.out
    BY <1>0, <1>8 DEF RInv, ScanInv
  <2>2. Once' /\ Parts'
    BY <1>0, <1>1, <2>1, OnceKept DEF Once
  <2>3. \A x \in Blocks : ~ WholeAt(x, s, e)
    <3> SUFFICES ASSUME NEW x \in Blocks, WholeAt(x, s, e) PROVE FALSE
      OBVIOUS
    <3>1. x = b
      <4>1. s[e + 1] = [blk |-> b, part |-> 1]
        BY <1>5, <1>7 DEF HeadIn
      <4>2. s[e + 1].blk = x
        BY WholeUnits, LengthPositive
      <4> QED
        BY <4>1, <4>2
    <3>2. e + (2 + size) <= Len(s) /\ \A j \in 1 .. 2 + size : s[e + j] = [blk |-> b, part |-> j]
      BY <1>7, <3>1 DEF WholeAt
    <3> DEFINE v == BodyOf(b)
    <3>3. v \in Seq(Unit) /\ Len(v) = size /\ \A k \in 1 .. size : v[k] = [blk |-> b, part |-> 2 + k]
      BY <1>7, HeadAndBody DEF Numbered
    <3>4. size <= Len(rest)
      <4> HIDE DEF s, rest, size, b
      <4> QED
        BY <1>6, <1>7, <3>2
    <3>5. body \in Seq(Unit) /\ Len(body) = size /\ \A k \in 1 .. size : body[k] = rest[k]
      <4> HIDE DEF rest, size
      <4> QED
        BY <1>6, <1>7, <3>4, FrontOf
    <3> HIDE DEF v, body, size, rest, s, b
    <3>6. \A k \in 1 .. size : body[k] = v[k]
      <4> SUFFICES ASSUME NEW k \in 1 .. size PROVE body[k] = v[k]
        OBVIOUS
      <4>1. k \in 1 .. Len(rest) /\ 2 + k \in 1 .. 2 + size /\ e + HeadLen + k = e + (2 + k)
        BY <1>6, <1>7, <3>4
      <4>2. body[k] = s[e + (2 + k)]
        BY <1>6, <3>5, <4>1
      <4>3. s[e + (2 + k)] = [blk |-> b, part |-> 2 + k]
        BY <3>2, <4>1
      <4> QED
        BY <3>3, <4>2, <4>3
    <3>7. body = v
      BY <3>3, <3>5, <3>6, Alike
    <3>8. Len(rest) < size
      BY <1>8, <3>7 DEF v, rest, size, b, body
    <3> QED
      BY <1>6, <1>7, <3>4, <3>8
  <2>4. PlaceInv'
    BY <1>1, <1>4, <2>1, <2>3, ScanEnds
  <2> QED
    BY <2>2, <2>4 DEF UInv
<1>9. CASE /\ Len(rest) >= size
           /\ scan' = [scan EXCEPT !.state = "head", !.pos = @ + size, !.num = @ + 1,
                                   !.out = Append(@, d)]
  <2>1. /\ scan'.state = "head" /\ scan'.before = scan.before /\ scan'.file = scan.file
        /\ scan'.out = Append(scan.out, d) /\ scan'.pos = scan.pos + size
    BY <1>0, <1>9 DEF RInv, ScanInv
  <2>2. Once' /\ Parts'
    BY <1>0, <1>1, <2>1, OnceKept DEF Once
  <2>3. body \in Seq(Unit) /\ Len(body) = size /\ \A k \in 1 .. size : body[k] = rest[k]
    <3>1. size <= Len(rest)
      BY <1>6, <1>7, <1>9
    <3> HIDE DEF rest, size
    <3> QED
      BY <1>6, <1>7, <3>1, FrontOf
  <2>4. d \in [head : Blocks, body : Seq(Unit)] /\ d.head = b /\ d.body = body
    BY <1>7, <2>3
  <2>5. ReadAt(d, s, e)
    <3>1. \A k \in 1 .. size : body[k] = s[e + HeadLen + k]
      <4> SUFFICES ASSUME NEW k \in 1 .. size PROVE body[k] = s[e + HeadLen + k]
        OBVIOUS
      <4>1. k \in 1 .. Len(rest)
        BY <1>6, <1>7, <1>9
      <4> QED
        BY <1>6, <2>3, <4>1
    <3> QED
      BY <1>5, <2>3, <2>4, <3>1 DEF ReadAt
  <2>6. e + Length(b) <= Len(s) /\ e + Length(b) = scan'.pos /\ e + Length(b) \in Nat
    <3>1. Len(rest) >= size /\ scan'.pos = e + HeadLen + size
      BY <1>5, <1>9, <2>1
    <3> HIDE DEF rest, s, size, b
    <3> QED
      BY <1>6, <1>7, <3>1
  <2>7. scan.out \in Seq([head : Blocks, body : Seq(Unit)])
    BY <1>0, ScanOf
  <2> HIDE DEF d, s, b
  <2>8. PICK z : Placed(z, s, Append(scan.out, d), e + Length(b))
    BY <1>5, <1>6, <1>7, <2>4, <2>5, <2>6, <2>7, PlacedMore
  <2>9. PICK w \in Nat : w = e + Length(b)
    BY <2>6
  <2>10. log'[scan'.file] = s /\ Placed(z, s, scan'.out, w) /\ scan'.pos = w
    BY <1>1, <2>1, <2>6, <2>8, <2>9 DEF s
  <2>11. ScanAt(z, w)'
    BY <2>1, <2>10 DEF ScanAt
  <2>12. PlaceInv'
    BY <2>11 DEF PlaceInv
  <2> QED
    BY <2>2, <2>12 DEF UInv
<1>10. Len(rest) \in Int /\ size \in Int
  BY <1>6, <1>7
<1> QED
  BY <1>2, <1>8, <1>9, <1>10 DEF ScanBody

LEMMA UnitsInit == Init => UInv
<1> SUFFICES ASSUME Init PROVE UInv
  OBVIOUS
<1>1. RInv
  BY RInit
<1>2. Once
  BY DEF Init, Once, NoScan
<1>3. Parts
  BY DEF Init, Parts
<1>4. PlaceInv
  BY DEF Init, PlaceInv, NoScan
<1> QED
  BY <1>1, <1>2, <1>3, <1>4 DEF UInv

LEMMA UnitsNext == UInv /\ [Next]_vars => UInv'
<1> SUFFICES ASSUME UInv, [Next]_vars PROVE UInv'
  OBVIOUS
<1>1. RInv'
  BY RNext DEF UInv
<1> QED
  BY <1>1, CallUnits, WriteHeadUnits, WriteBodyUnits, CrashUnits, OthersUnits, StartScanUnits,
     ScanHeadUnits, ScanBodyUnits DEF Next

LEMMA UnitsInv == Spec => []UInv
  BY UnitsInit, UnitsNext, PTL DEF Spec

-----------------------------------------------------------------------------
(* The sound part of a file.                                                 *)

\* A set of numbers up to n has a greatest one.
LEMMA GreatestOf ==
    ASSUME NEW n \in Nat, NEW S \in SUBSET (0 .. n), S # {}
    PROVE  \E x \in S : \A y \in S : y <= x
<1> DEFINE R == {ss \in Nat \X Nat : ss[1] < ss[2]}
           T == {n - y : y \in S}
<1>1. IsWellFoundedOn(R, Nat)
  BY NatLessThanWellFounded DEF OpToRel
<1> HIDE DEF R
<1>2. T \in SUBSET Nat /\ T # {}
  <2>1. \A y \in S : n - y \in Nat
    OBVIOUS
  <2>2. T \in SUBSET Nat
    BY <2>1
  <2>3. PICK y \in S : TRUE
    OBVIOUS
  <2>4. n - y \in T
    BY <2>3
  <2> QED
    BY <2>2, <2>4
<1> HIDE DEF T
<1>3. PICK d \in T : \A y \in T : <<y, d>> \notin R
  BY <1>1, <1>2, WFMin
<1>4. \A y \in T : d <= y
  <2>1. \A y \in T : y \in Nat /\ d \in Nat /\ ~(y < d)
    BY <1>2, <1>3 DEF R
  <2> QED
    BY <2>1
<1>5. PICK x \in S : d = n - x
  BY DEF T
<1>6. \A y \in S : n - x <= n - y
  BY <1>4, <1>5 DEF T
<1>7. \A y \in S : y <= x
  BY <1>6
<1> QED
  BY <1>7

\* The units 1 to n of s belong to whole blocks among them.
SoundTo(s, n) ==
    \A j \in 1 .. n : /\ s[j].part <= j
                      /\ j - s[j].part + Length(s[j].blk) <= n
                      /\ WholeAt(s[j].blk, s, j - s[j].part)

LEMMA WholeFrom ==
    ASSUME NEW s \in Seq(Unit), NEW b \in Blocks, NEW z \in Nat, z + Length(b) <= Len(s),
           SubSeq(s, z + 1, z + Length(b)) = Piece(b, 1, Length(b))
    PROVE  WholeAt(b, s, z)
<1> DEFINE n == Length(b)
<1>1. n \in Nat /\ Len(s) \in Nat
  BY LengthIs
<1>2. Piece(b, 1, n) = [j \in 1 .. n |-> [blk |-> b, part |-> j]]
  BY <1>1 DEF Piece
<1> HIDE DEF n
<1>3. SubSeq(s, z + 1, z + n) = [j \in 1 .. n |-> s[z + j]]
  <2>1. z + n - (z + 1) + 1 = n /\ \A j \in 1 .. n : z + 1 + j - 1 = z + j
    BY <1>1
  <2> QED
    BY <1>1, <2>1
<1>4. [j \in 1 .. n |-> s[z + j]] = [j \in 1 .. n |-> [blk |-> b, part |-> j]]
  BY <1>2, <1>3 DEF n
<1>5. \A j \in 1 .. n : s[z + j] = [blk |-> b, part |-> j]
  BY <1>4
<1> QED
  BY <1>5 DEF WholeAt, n

LEMMA SoundIs ==
    ASSUME NEW f \in Periods, log[f] \in Seq(Unit)
    PROVE  Sound(f) \in Nat /\ Sound(f) <= Len(log[f]) /\ SoundTo(log[f], Sound(f))
<1> DEFINE s == log[f]
           Fits(j, k) == LET u == s[j]
                             first == j - u.part + 1
                         IN  /\ first >= 1
                             /\ first + Length(u.blk) - 1 <= k
                             /\ SubSeq(s, first, first + Length(u.blk) - 1)
                                    = Piece(u.blk, 1, Length(u.blk))
           ends == { k \in 0 .. Len(s) : \A j \in 1 .. k : Fits(j, k) }
           n == Sound(f)
<1>1. n = CHOOSE k \in ends : \A j \in ends : j <= k
  BY DEF Sound
<1>2. Len(s) \in Nat /\ s \in Seq(Unit)
  OBVIOUS
<1>3. \E k \in ends : \A j \in ends : j <= k
  <2>1. 0 \in ends
    <3>1. 0 \in 0 .. Len(s) /\ \A j \in 1 .. 0 : Fits(j, 0)
      <4> HIDE DEF Fits
      <4> QED
        BY <1>2
    <3> HIDE DEF Fits
    <3> QED
      BY <3>1
  <2>2. ends \in SUBSET (0 .. Len(s))
    OBVIOUS
  <2> HIDE DEF ends
  <2> QED
    BY <1>2, <2>1, <2>2, GreatestOf
<1> HIDE DEF n
<1>4. n \in ends
  <2> HIDE DEF ends
  <2> QED
    BY <1>1, <1>3
<1>5. n \in 0 .. Len(s) /\ \A j \in 1 .. n : Fits(j, n)
  <2> HIDE DEF Fits
  <2> QED
    BY <1>4
<1>6. n \in Nat /\ n <= Len(s)
  BY <1>2, <1>5
<1>7. ASSUME NEW j \in 1 .. n
      PROVE  /\ s[j].part <= j
             /\ j - s[j].part + Length(s[j].blk) <= n
             /\ WholeAt(s[j].blk, s, j - s[j].part)
  <2>1. s[j] \in Unit
    <3>1. j \in 1 .. Len(s)
      BY <1>2, <1>6
    <3> QED
      BY <1>2, <3>1, Element
  <2>2. PICK b \in Blocks : b = s[j].blk
    BY <2>1 DEF Unit
  <2>3. PICK p \in Nat \ {0} : p = s[j].part
    BY <2>1 DEF Unit
  <2>4. PICK len \in Nat : len = Length(b)
    BY LengthIs
  <2>5. /\ j - p + 1 >= 1 /\ j - p + 1 + len - 1 <= n
        /\ SubSeq(s, j - p + 1, j - p + 1 + len - 1) = Piece(b, 1, len)
    BY <1>5, <2>2, <2>3, <2>4
  <2>6. j - p \in Nat /\ j - p + 1 + len - 1 = j - p + len /\ j - p + len <= n
        /\ p <= j /\ j - p + len <= Len(s)
    BY <1>2, <1>6, <2>5
  <2>7. SubSeq(s, (j - p) + 1, (j - p) + Length(b)) = Piece(b, 1, Length(b))
    BY <2>4, <2>5, <2>6
  <2>8. WholeAt(b, s, j - p)
    BY <1>2, <2>4, <2>6, <2>7, WholeFrom
  <2> QED
    BY <2>2, <2>3, <2>4, <2>6, <2>8
<1>8. SoundTo(s, n)
  BY <1>7 DEF SoundTo
<1> QED
  BY <1>6, <1>8 DEF n

-----------------------------------------------------------------------------
(* What lies before the end of a scan was delivered.                         *)

\* The last of the delivered blocks that begins at z or before it.
LEMMA LastBefore ==
    ASSUME NEW n \in Nat, NEW at \in [1 .. n + 1 -> Nat], at[1] = 0,
           NEW z \in Nat, z < at[n + 1]
    PROVE  \E i \in 1 .. n : at[i] <= z /\ z < at[i + 1]
<1> DEFINE S == {i \in 0 .. n + 1 : i \in 1 .. n + 1 /\ at[i] <= z}
<1>1. S \in SUBSET (0 .. n + 1) /\ n + 1 \in Nat
  OBVIOUS
<1>2. 1 \in S
  OBVIOUS
<1> HIDE DEF S
<1>3. PICK i \in S : \A j \in S : j <= i
  BY <1>1, <1>2, GreatestOf
<1>4. i \in 1 .. n + 1 /\ at[i] <= z /\ i # n + 1
  <2>1. i \in 1 .. n + 1 /\ at[i] <= z
    BY DEF S
  <2>2. i # n + 1
    BY <2>1
  <2> QED
    BY <2>1, <2>2
<1>5. i \in 1 .. n /\ i + 1 \in 1 .. n + 1 /\ i + 1 \in 0 .. n + 1
  BY <1>4
<1>6. ~ (at[i + 1] <= z)
  <2> SUFFICES ASSUME at[i + 1] <= z PROVE FALSE
    OBVIOUS
  <2>1. i + 1 \in S
    BY <1>5 DEF S
  <2>2. i + 1 <= i
    BY <1>3, <2>1
  <2> QED
    BY <1>5, <2>2
<1>7. at[i + 1] \in Nat
  BY <1>5
<1> QED
  BY <1>4, <1>5, <1>6, <1>7

\* Block x was delivered as the i-th, from behind unit number z.
IsNth(i, x, z, at, out) ==
    at[i] = z /\ out[i] = Delivered(x) /\ at[i + 1] = z + Length(x)

\* A whole block that begins before the end of the scan, in the sound part.
LEMMA Reached ==
    ASSUME NEW s \in Seq(Unit), NEW out \in Seq([head : Blocks, body : Seq(Unit)]),
           NEW at, NEW e \in Nat, Placed(at, s, out, e),
           NEW n \in Nat, SoundTo(s, n),
           NEW x \in Blocks, NEW z \in Nat, WholeAt(x, s, z), z < n, z < e
    PROVE  \E i \in 1 .. Len(out) : IsNth(i, x, z, at, out)
<1> DEFINE l == Len(out)
<1>1. /\ l \in Nat /\ at \in [1 .. l + 1 -> Nat] /\ at[1] = 0 /\ at[l + 1] = e
  BY DEF Placed
<1>2. \A i \in 1 .. l : at[i + 1] = at[i] + Length(out[i].head) /\ ReadAt(out[i], s, at[i])
  BY DEF Placed
<1>3. PICK i \in 1 .. l : at[i] <= z /\ z < at[i + 1]
  <2> HIDE DEF l
  <2> QED
    BY <1>1, LastBefore
<1>4. at[i] \in Nat
  <2>1. i \in 1 .. l + 1
    BY <1>1
  <2> QED
    BY <1>1, <2>1
<1>5. PICK y \in Nat : y = at[i]
  BY <1>4
<1>6. out[i] \in [head : Blocks, body : Seq(Unit)]
  BY Element
<1>7. PICK h \in Blocks : h = out[i].head
  BY <1>6
<1>8. PICK body \in Seq(Unit) : body = out[i].body
  BY <1>6
<1>9. out[i] = [head |-> h, body |-> body]
  BY <1>6, <1>7, <1>8
<1>10. /\ at[i + 1] = y + Length(h) /\ HeadIn(h, s, y)
       /\ Len(body) = Size[h] /\ \A k \in 1 .. Size[h] : body[k] = s[y + HeadLen + k]
  BY <1>2, <1>5, <1>7, <1>8 DEF ReadAt
<1>11. y <= z /\ z < y + Length(h)
  BY <1>3, <1>5, <1>10
<1>12. s[y + 1] = [blk |-> h, part |-> 1]
  BY <1>10 DEF HeadIn, HeadLen
<1>13. s[z + 1].blk = x /\ s[z + 1].part = 1
  <2>1. 1 \in 1 .. Length(x)
    BY LengthPositive
  <2> QED
    BY <2>1, WholeUnits
<1>14. y = z
  <2> SUFFICES ASSUME y # z PROVE FALSE
    OBVIOUS
  <2>1. y + 1 \in 1 .. n /\ y + 1 - 1 = y
    BY <1>11
  <2>2. s[y + 1].part = 1 /\ s[y + 1].blk = h
    BY <1>12
  <2>3. WholeAt(h, s, y)
    <3>1. PICK j \in 1 .. n : j = y + 1
      BY <2>1
    <3>2. WholeAt(s[j].blk, s, j - s[j].part)
      BY DEF SoundTo
    <3>3. s[j].blk = h /\ s[j].part = 1 /\ j - 1 = y
      BY <2>1, <2>2, <3>1
    <3> QED
      BY <3>2, <3>3
  <2>4. PICK len \in Nat : len = Length(h)
    BY LengthIs
  <2>5. z - y + 1 \in 1 .. len /\ y + (z - y + 1) = z + 1 /\ z - y + 1 # 1
    BY <1>11, <2>4
  <2>6. s[z + 1].part = z - y + 1
    <3>1. \A j \in 1 .. len : s[y + j].part = j
      BY <2>3, <2>4, WholeUnits
    <3>2. s[y + (z - y + 1)].part = z - y + 1
      BY <2>5, <3>1
    <3> QED
      BY <2>5, <3>2
  <2> QED
    BY <1>13, <2>5, <2>6
<1>15. h = x
  BY <1>12, <1>13, <1>14
<1>16. body = BodyOf(x)
  <2> DEFINE v == BodyOf(x)
             size == Size[x]
  <2>1. /\ v \in Seq(Unit) /\ Len(v) = size /\ size \in Nat
        /\ \A k \in 1 .. size : v[k] = [blk |-> x, part |-> HeadLen + k]
    BY HeadAndBody DEF Numbered
  <2>2. Length(x) = HeadLen + size /\ HeadLen = 2
    BY LengthIs DEF HeadLen
  <2>3. \A k \in 1 .. size : body[k] = v[k]
    <3> SUFFICES ASSUME NEW k \in 1 .. size PROVE body[k] = v[k]
      OBVIOUS
    <3> HIDE DEF size, v
    <3>0. size \in Nat
      BY <2>1
    <3>1. 2 + k \in 1 .. 2 + size /\ z + (2 + k) = z + 2 + k
      BY <3>0
    <3>2. s[z + (2 + k)] = [blk |-> x, part |-> 2 + k]
      BY <2>2, <3>1 DEF WholeAt
    <3>3. body[k] = s[z + 2 + k]
      BY <1>10, <1>14, <1>15, <2>2 DEF size
    <3> QED
      BY <2>1, <2>2, <3>1, <3>2, <3>3
  <2>4. Len(body) = Len(v)
    BY <1>10, <1>15, <2>1
  <2> HIDE DEF v
  <2>5. Len(body) = size
    BY <2>1, <2>4
  <2> HIDE DEF size
  <2>6. body = v
    BY <2>1, <2>3, <2>4, <2>5, Alike
  <2> QED
    BY <2>6 DEF v
<1>17. out[i] = Delivered(x)
  BY <1>9, <1>15, <1>16 DEF Delivered
<1> QED
  BY <1>3, <1>5, <1>10, <1>14, <1>15, <1>17 DEF IsNth

\* A block that was logged before the scan, in the sound part, begins before the end.
LEMMA Covered ==
    ASSUME NEW s \in Seq(Unit), NEW out \in Seq([head : Blocks, body : Seq(Unit)]),
           \A k \in 1 .. Len(s) : s[k].part <= Length(s[k].blk),
           NEW at, NEW e \in Nat, Placed(at, s, out, e),
           NEW n \in Nat, n <= Len(s), SoundTo(s, n),
           NEW before \in SUBSET Blocks, NoneMissed(e, s, before),
           NEW a \in before, NEW p \in Nat, WholeAt(a, s, p), p < n
    PROVE  p < e
<1> SUFFICES ASSUME p >= e PROVE FALSE
  OBVIOUS
<1>1. PICK j \in 1 .. n : j = e + 1
  OBVIOUS
<1>2. s[j] \in Unit /\ j \in 1 .. Len(s)
  <2>1. j \in 1 .. Len(s)
    OBVIOUS
  <2> QED
    BY <2>1, Element
<1>3. PICK y \in Blocks : y = s[j].blk
  BY <1>2 DEF Unit
<1>4. PICK q \in Nat \ {0} : q = s[j].part
  BY <1>2 DEF Unit
<1>5. PICK len \in Nat : len = Length(y)
  BY LengthIs
<1>6. q <= j /\ WholeAt(y, s, j - q) /\ q <= len
  <2>1. s[j].part <= j /\ WholeAt(s[j].blk, s, j - s[j].part)
    BY DEF SoundTo
  <2>2. s[j].part <= Length(s[j].blk)
    BY <1>2
  <2> QED
    BY <1>3, <1>4, <1>5, <2>1, <2>2
<1>7. q = 1
  <2> SUFFICES ASSUME q # 1 PROVE FALSE
    OBVIOUS
  <2>1. PICK z \in Nat : z = j - q
    BY <1>6
  <2>2. z < e /\ z < n /\ z + len > e
    <3>1. j = e + 1 /\ q <= len /\ z = j - q /\ j <= n
      BY <1>1, <1>6, <2>1
    <3>2. q >= 2
      OBVIOUS
    <3>3. z < e /\ z + len > e
      BY <3>1, <3>2
    <3> QED
      BY <3>1, <3>3
  <2>3. WholeAt(y, s, z)
    BY <1>6, <2>1
  <2>4. PICK i \in 1 .. Len(out) : IsNth(i, y, z, at, out)
    BY <2>2, <2>3, Reached
  <2>5. at[i + 1] <= e
    <3> DEFINE l == Len(out)
    <3>1. l \in Nat /\ i + 1 \in 1 .. l + 1 /\ l + 1 \in 1 .. l + 1
      OBVIOUS
    <3>2. /\ at \in [1 .. l + 1 -> Nat] /\ at[l + 1] = e
          /\ \A u, v \in 1 .. l + 1 : u < v => at[u] < at[v]
      BY DEF Placed
    <3>3. at[i + 1] \in Nat /\ (i + 1 = l + 1 \/ i + 1 < l + 1)
      <4>1. at[i + 1] \in Nat
        BY <3>1, <3>2
      <4>2. i + 1 = l + 1 \/ i + 1 < l + 1
        BY <3>1
      <4> QED
        BY <4>1, <4>2
    <3>4. i + 1 < l + 1 => at[i + 1] < at[l + 1]
      BY <3>1, <3>2
    <3> QED
      BY <3>2, <3>3, <3>4
  <2> QED
    BY <1>5, <2>2, <2>4, <2>5 DEF IsNth
<1>8. WholeAt(y, s, e)
  <2>1. j - q = e
    BY <1>1, <1>7
  <2> QED
    BY <1>6, <2>1
<1>9. e < p /\ p < e + len
  BY <1>5, <1>8 DEF NoneMissed
<1>10. s[p + 1].part = 1
  <2>1. 1 \in 1 .. Length(a)
    BY LengthPositive
  <2> QED
    BY <2>1, WholeUnits
<1>11. s[p + 1].part = p - e + 1
  <2>1. \A k \in 1 .. len : s[e + k].part = k
    BY <1>5, <1>8, WholeUnits
  <2>2. p - e + 1 \in 1 .. len /\ e + (p - e + 1) = p + 1
    BY <1>5, <1>9
  <2>3. s[e + (p - e + 1)].part = p - e + 1
    BY <2>1, <2>2
  <2> QED
    BY <2>2, <2>3
<1> QED
  BY <1>9, <1>10, <1>11

-----------------------------------------------------------------------------
(* The blocks come in order.                                                 *)

LEMMA Counted ==
    ASSUME NEW n \in Nat, NEW c \in [1 .. n -> Nat],
           \A i, j \in 1 .. n : i < j => c[i] < c[j]
    PROVE  LET T == {c[i] : i \in 1 .. n} IN IsFiniteSet(T) /\ Cardinality(T) = n
<1> DEFINE T == {c[i] : i \in 1 .. n}
<1>1. \A i, j \in 1 .. n : c[i] = c[j] => i = j
  <2> SUFFICES ASSUME NEW i \in 1 .. n, NEW j \in 1 .. n, c[i] = c[j], i # j PROVE FALSE
    OBVIOUS
  <2>1. i < j \/ j < i
    OBVIOUS
  <2>2. c[i] < c[j] \/ c[j] < c[i]
    BY <2>1
  <2>3. c[i] \in Nat /\ c[j] \in Nat
    OBVIOUS
  <2> QED
    BY <2>2, <2>3
<1>2. c \in [1 .. n -> T] /\ \A t \in T : \E i \in 1 .. n : c[i] = t
  OBVIOUS
<1>3. c \in Bijection(1 .. n, T)
  BY <1>1, <1>2 DEF Bijection, Injection, Surjection, IsInjective
<1>4. IsFiniteSet(1 .. n) /\ Cardinality(1 .. n) = n
  BY FS_Interval
<1>5. ExistsBijection(1 .. n, T)
  BY <1>3 DEF ExistsBijection
<1> HIDE DEF T
<1>6. IsFiniteSet(T) /\ Cardinality(T) = n
  BY <1>4, <1>5, FS_Bijection
<1> QED
  BY <1>6 DEF T

\* Where blocks begin among the units 1 to n.
AreStarts(starts, s, n) == \A j : j \in starts <=> j \in 1 .. n /\ s[j].part = 1

\* A block that begins behind unit number e was not delivered, one before it is
\* the nth of those that were.
InPlace(k, nth, e, s, out) ==
    /\ k - 1 < e => nth \in 1 .. Len(out) /\ out[nth] = Delivered(s[k].blk)
    /\ k - 1 >= e => nth \notin 1 .. Len(out)

\* The place of a start among the starts: that of its block among the delivered.
LEMMA InOrder ==
    ASSUME NEW s \in Seq(Unit), NEW out \in Seq([head : Blocks, body : Seq(Unit)]),
           NEW at, NEW e \in Nat, Placed(at, s, out, e),
           NEW n \in Nat, n <= Len(s), SoundTo(s, n),
           NEW starts, AreStarts(starts, s, n),
           NEW k \in starts, NEW T, \A j : j \in T <=> j \in starts /\ j <= k,
           NEW nth, nth = Cardinality(T)
    PROVE  InPlace(k, nth, e, s, out)
<1> DEFINE l == Len(out)
<1>0. \A j : j \in starts <=> j \in 1 .. n /\ s[j].part = 1
  BY DEF AreStarts
<1>1. /\ l \in Nat /\ at \in [1 .. l + 1 -> Nat] /\ at[l + 1] = e
      /\ \A i, j \in 1 .. l + 1 : i < j => at[i] < at[j]
  BY DEF Placed
<1>2. ASSUME NEW m \in 1 .. l
      PROVE  m \in 1 .. l + 1 /\ at[m] \in Nat /\ at[m] < e /\ s[at[m] + 1].part = 1
  <2>1. m \in 1 .. l + 1 /\ l + 1 \in 1 .. l + 1 /\ m < l + 1
    BY <1>1
  <2>2. ReadAt(out[m], s, at[m])
    BY DEF Placed
  <2>3. s[at[m] + 1] = [blk |-> out[m].head, part |-> 1]
    BY <2>2 DEF ReadAt, HeadIn, HeadLen
  <2>4. s[at[m] + 1].part = 1
    BY <2>3
  <2> QED
    BY <1>1, <2>1, <2>4
<1>3. ASSUME NEW j \in starts
      PROVE  /\ j \in 1 .. n /\ s[j].blk \in Blocks /\ WholeAt(s[j].blk, s, j - 1)
  <2>1. j \in 1 .. n /\ s[j].part = 1 /\ j \in 1 .. Len(s)
    BY <1>0
  <2>2. s[j] \in Unit
    BY <2>1, Element
  <2>3. WholeAt(s[j].blk, s, j - s[j].part)
    BY <2>1 DEF SoundTo
  <2> QED
    BY <2>1, <2>2, <2>3 DEF Unit
<1>4. ASSUME NEW j \in starts, j - 1 < e
      PROVE  \E i \in 1 .. l : at[i] = j - 1 /\ out[i] = Delivered(s[j].blk)
  <2>1. PICK x \in Blocks : x = s[j].blk
    BY <1>3
  <2>2. PICK z \in Nat : z = j - 1 /\ z < n
    BY <1>3
  <2>3. WholeAt(x, s, z) /\ z < e
    BY <1>3, <1>4, <2>1, <2>2
  <2>4. \E i \in 1 .. Len(out) : IsNth(i, x, z, at, out)
    BY <2>2, <2>3, Reached
  <2> QED
    BY <2>1, <2>2, <2>4 DEF IsNth
<1>5. k \in 1 .. n /\ k \in Nat
  BY <1>3
<1> HIDE DEF l
<1>6. ASSUME k - 1 < e
      PROVE  nth \in 1 .. l /\ out[nth] = Delivered(s[k].blk)
  <2>1. PICK i \in 1 .. l : at[i] = k - 1 /\ out[i] = Delivered(s[k].blk)
    BY <1>4, <1>6
  <2>2. i \in Nat /\ \A m \in 1 .. i : m \in 1 .. l /\ m \in 1 .. l + 1
    BY <1>1, <2>1
  <2> DEFINE c == [m \in 1 .. i |-> at[m] + 1]
             C == {c[m] : m \in 1 .. i}
  <2>3. \A m \in 1 .. i : c[m] = at[m] + 1 /\ at[m] \in Nat
    BY <1>1, <2>2
  <2>4a. c = [m \in 1 .. i |-> c[m]]
    OBVIOUS
  <2> HIDE DEF c
  <2>4. c \in [1 .. i -> Nat]
    <3>1. ASSUME NEW m \in 1 .. i PROVE c[m] \in Nat
      <4>1. c[m] = at[m] + 1 /\ at[m] \in Nat
        BY <2>3
      <4> QED
        BY <4>1
    <3> QED
      BY <2>4a, <3>1
  <2>5. \A u, v \in 1 .. i : u < v => c[u] < c[v]
    BY <1>1, <2>2, <2>3
  <2>6. Cardinality(C) = i
    BY <2>2, <2>4, <2>5, Counted
  <2>7. ASSUME NEW m \in 1 .. i PROVE c[m] \in T
    <3>1. at[m] <= at[i]
      <4>1. m = i \/ m < i
        BY <2>2
      <4> QED
        BY <1>1, <2>1, <2>2, <2>3, <4>1
    <3>2. c[m] \in 1 .. n /\ c[m] <= k
      <4>1. c[m] = at[m] + 1 /\ at[m] \in Nat /\ at[m] <= k - 1
        BY <2>1, <2>3, <3>1
      <4> QED
        BY <1>5, <4>1
    <3>3. s[c[m]].part = 1
      BY <1>2, <2>2, <2>3
    <3> QED
      BY <1>0, <3>2, <3>3
  <2>8. ASSUME NEW j \in T PROVE j \in C
    <3>1. j \in starts /\ j <= k /\ j \in Nat
      BY <1>3
    <3>2. j - 1 < e
      BY <1>5, <1>6, <3>1
    <3>3. PICK m \in 1 .. l : at[m] = j - 1
      BY <1>4, <3>1, <3>2
    <3>4. m \in 1 .. i
      <4> SUFFICES ASSUME i < m PROVE FALSE
        BY <1>1, <2>1
      <4>1. at[i] < at[m]
        BY <1>1, <1>2, <2>1
      <4> QED
        BY <1>5, <2>1, <3>1, <3>3, <4>1
    <3>5. c[m] = j
      BY <2>3, <3>1, <3>3, <3>4
    <3> QED
      BY <3>4, <3>5
  <2>9. T = C
    BY <2>7, <2>8
  <2> QED
    BY <2>1, <2>6, <2>9
<1>7. ASSUME k - 1 >= e
      PROVE  nth \notin 1 .. l
  <2> DEFINE c == [m \in 1 .. l + 1 |-> IF m = l + 1 THEN k ELSE at[m] + 1]
             C == {c[m] : m \in 1 .. l + 1}
  <2>1. \A m \in 1 .. l + 1 : m = l + 1 \/ m \in 1 .. l
    BY <1>1
  <2>2. \A m \in 1 .. l + 1 : c[m] = IF m = l + 1 THEN k ELSE at[m] + 1
    OBVIOUS
  <2>3. \A m \in 1 .. l + 1 : at[m] \in Nat
    BY <1>1
  <2>4. c \in [1 .. l + 1 -> Nat]
    BY <1>5, <2>3
  <2> HIDE DEF c
  <2>5. \A u, v \in 1 .. l + 1 : u < v => c[u] < c[v]
    <3> SUFFICES ASSUME NEW u \in 1 .. l + 1, NEW v \in 1 .. l + 1, u < v PROVE c[u] < c[v]
      OBVIOUS
    <3>1. u # l + 1 /\ u \in 1 .. l
      BY <1>1
    <3>2. c[u] = at[u] + 1 /\ at[u] \in Nat /\ at[u] < e
      BY <1>2, <2>2, <3>1
    <3>3. CASE v = l + 1
      BY <1>5, <1>7, <2>2, <3>2, <3>3
    <3>4. CASE v # l + 1
      <4>1. c[v] = at[v] + 1 /\ at[u] < at[v] /\ at[v] \in Nat
        BY <1>1, <2>2, <2>3, <3>4
      <4> QED
        BY <3>2, <4>1
    <3> QED
      BY <3>3, <3>4
  <2>6. l + 1 \in Nat
    BY <1>1
  <2>7. Cardinality(C) = l + 1
    BY <2>4, <2>5, <2>6, Counted
  <2>8. ASSUME NEW m \in 1 .. l + 1 PROVE c[m] \in T
    <3>1. CASE m = l + 1
      <4>1. c[m] = k
        BY <2>2, <3>1
      <4> QED
        BY <1>5, <4>1
    <3>2. CASE m # l + 1
      <4>1. m \in 1 .. l
        BY <2>1, <3>2
      <4>2. c[m] = at[m] + 1 /\ at[m] \in Nat /\ at[m] < e /\ s[c[m]].part = 1
        <5>1. c[m] = at[m] + 1
          BY <2>2, <3>2
        <5>2. at[m] \in Nat /\ at[m] < e /\ s[at[m] + 1].part = 1
          BY <1>2, <4>1
        <5> QED
          BY <5>1, <5>2
      <4>3. c[m] \in 1 .. n /\ c[m] <= k
        BY <1>5, <1>7, <4>2
      <4> QED
        BY <1>0, <4>2, <4>3
    <3> QED
      BY <3>1, <3>2
  <2>9. C \in SUBSET T
    BY <2>8
  <2>10. IsFiniteSet(T)
    <3>1. T \in SUBSET (1 .. n)
      BY <1>0
    <3>2. IsFiniteSet(1 .. n)
      BY FS_Interval
    <3> QED
      BY <3>1, <3>2, FS_Subset
  <2>11. nth \in Nat /\ l + 1 <= nth
    <3> HIDE DEF C
    <3>1. Cardinality(C) <= Cardinality(T) /\ Cardinality(T) \in Nat
      BY <2>9, <2>10, FS_Subset, FS_CardinalityType
    <3> QED
      BY <2>7, <3>1
  <2> QED
    BY <1>1, <2>11
<1> QED
  BY <1>6, <1>7 DEF l, InPlace

\* A scan of redo_onefile that has ended gave the caller the whole blocks the file
\* has up to the first torn one, in their order and as they were appended, and
\* none of those for which appendblk had returned 0 before it began is missing:
\* whatever was written meanwhile, fell short, failed or was cut by a crash.
THEOREM ScansDeliver == Spec => []ScanComplete
<1>1. UInv => ScanComplete
  <2> DEFINE f == scan.file
             s == log[f]
             n == Sound(f)
             starts == Starts(f)
  <2> SUFFICES ASSUME UInv, scan.state = "done", NEW k \in starts
               PROVE  LET nth == Cardinality({j \in starts : j <= k})
                          b == s[k].blk
                      IN  /\ b \in scan.before => nth \in DOMAIN scan.out
                          /\ nth \in DOMAIN scan.out => scan.out[nth] = Delivered(b)
    BY DEF ScanComplete
  <2>1. RInv /\ Once /\ Parts /\ PlaceInv
    BY DEF UInv
  <2>2. /\ f \in Periods /\ s \in Seq(Unit)
        /\ scan.out \in Seq([head : Blocks, body : Seq(Unit)])
    BY <2>1, ScanOf
  <2>3. PICK e \in Nat : \E at : ScanAt(at, e)
    BY <2>1 DEF PlaceInv
  <2>4. PICK at : ScanAt(at, e)
    BY <2>3
  <2>5. Placed(at, s, scan.out, e) /\ NoneMissed(e, s, scan.before)
    BY <2>4 DEF ScanAt
  <2>6. n \in Nat /\ n <= Len(s) /\ SoundTo(s, n)
    BY <2>2, SoundIs
  <2>7. AreStarts(starts, s, n)
    BY DEF Starts, AreStarts
  <2>8. DOMAIN scan.out = 1 .. Len(scan.out)
    BY <2>2
  <2>9. \A i \in 1 .. Len(s) : s[i].part <= Length(s[i].blk)
    BY <2>1, <2>2 DEF Parts
  <2>10. scan.before \in SUBSET Blocks
    BY <2>1, BeforeIs
  <2> HIDE DEF f, s, n, starts
  <2>11. PICK T : T = {j \in starts : j <= k}
    OBVIOUS
  <2>12. PICK nth : nth = Cardinality(T)
    OBVIOUS
  <2>13. \A j : j \in T <=> j \in starts /\ j <= k
    BY <2>11
  <2>14. InPlace(k, nth, e, s, scan.out)
    BY <2>2, <2>5, <2>6, <2>7, <2>12, <2>13, InOrder
  <2>15. /\ k - 1 < e => nth \in 1 .. Len(scan.out) /\ scan.out[nth] = Delivered(s[k].blk)
         /\ k - 1 >= e => nth \notin 1 .. Len(scan.out)
    BY <2>14 DEF InPlace
  <2>16. ASSUME s[k].blk \in scan.before PROVE k - 1 < e
    <3>1. k \in 1 .. n /\ s[k].part = 1
      BY <2>7 DEF AreStarts
    <3>2. PICK a \in scan.before : a = s[k].blk
      BY <2>16
    <3>3. PICK p \in Nat : p = k - 1 /\ p < n
      BY <2>6, <3>1
    <3>4. WholeAt(s[k].blk, s, k - s[k].part)
      BY <2>6, <3>1 DEF SoundTo
    <3>5. WholeAt(a, s, p)
      BY <3>1, <3>2, <3>3, <3>4
    <3>6. p < e
      BY <2>2, <2>5, <2>6, <2>9, <2>10, <3>3, <3>5, Covered
    <3> QED
      BY <3>3, <3>6
  <2>17. k - 1 < e \/ k - 1 >= e
    <3>1. k \in Nat
      BY <2>6, <2>7 DEF AreStarts
    <3> QED
      BY <3>1
  <2> QED
    BY <2>8, <2>11, <2>12, <2>15, <2>16, <2>17
<1> QED
  BY <1>1, UnitsInv, PTL

=============================================================================
