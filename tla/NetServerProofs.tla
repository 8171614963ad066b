---------------------------- MODULE NetServerProofs ----------------------------
(***************************************************************************)
(* The tables of NetServer stay in step, for every number of connections   *)
(* and keys, whatever the application calls from its callbacks; and no key *)
(* that was noted comes to name another connection, until the keys have    *)
(* gone around.                                                            *)
(***************************************************************************)
EXTENDS NetServer, TLAPS, FiniteSetTheorems, SequenceTheorems, WellFoundedInduction

-----------------------------------------------------------------------------
(* The inductive invariant.                                                  *)

Entries == [type : FdTypes, conn : Conns \cup {NoConn},
            pollevents : SUBSET {"EPOLLIN", "EPOLLOUT"}]

\* A session with something, anything, in its receive buffer.
IsSession(s) ==
    /\ s = [conn |-> s.conn, status |-> s.status, proto |-> s.proto, rbuf |-> s.rbuf,
            snd |-> s.snd, lastapp |-> s.lastapp, late |-> s.late,
            closeframe |-> s.closeframe]
    /\ s.conn \in Conns
    /\ s.status \in {"CONNECTING", "CONNECTED"}
    /\ s.proto \in {"TCP", "HTTP", "WS"}
    /\ s.snd \in 0 .. SndMax
    /\ s.lastapp \in BOOLEAN
    /\ s.late \in {"no", "young", "old"}
    /\ s.closeframe \in BOOLEAN

IsTcp(f) == f.type \in {"fd_tcp", "fd_tcpout"}

\* The table of descriptors: within its limit, and a connection for those of TCP.
Table ==
    /\ limit \in SIZE_MAX_FD
    /\ fds \in [DOMAIN fds -> Entries]
    /\ DOMAIN fds \subseteq Keys /\ nextfd \in Keys
    /\ IsFiniteSet(DOMAIN fds) /\ Cardinality(DOMAIN fds) <= limit
    /\ \A k \in DOMAIN fds : IsTcp(fds[k]) <=> fds[k].conn \in Conns

\* The map of sessions follows it.
Sessions ==
    /\ sess = [k \in TcpFds |-> sess[k]]
    /\ \A k \in TcpFds : IsSession(sess[k]) /\ sess[k].conn = fds[k].conn

\* What is open in the system has one descriptor; what the network does not know
\* of was never open.
Sockets ==
    /\ net \in [Conns -> {"none", "connecting", "up", "fin", "rst"}]
    /\ sock \in [Conns -> {"none", "open", "gone"}]
    /\ \A c \in Conns : sock[c] = "open" <=> \E k \in TcpFds : fds[k].conn = c
    /\ \A j, k \in TcpFds : fds[j].conn = fds[k].conn => j = k
    /\ \A c \in Conns : net[c] = "none" => sock[c] = "none"

\* s lists the elements of S, each once.
Lists(s, S) ==
    /\ s \in Seq(S)
    /\ \A k \in S : \E i \in 1 .. Len(s) : s[i] = k
    /\ \A i, j \in 1 .. Len(s) : s[i] = s[j] => i = j

TableInv ==
    /\ Table
    /\ Sessions
    /\ Sockets
    /\ Lists(chain, TcpFds)

LoopInv ==
    /\ pc \in Points
    /\ pos \in 0 .. limit /\ posp \in 0 .. limit
    /\ ret \in {0, -1} /\ calls \in 0 .. AppCalls

Inv == TableInv /\ LoopInv

-----------------------------------------------------------------------------
(* Lists and keys.                                                           *)

LEMMA ListLength ==
    ASSUME NEW S, NEW s, Lists(s, S)
    PROVE  IsFiniteSet(S) /\ Cardinality(S) = Len(s) /\ Len(s) \in Nat /\ ToSet(s) = S
<1>1. Len(s) \in Nat /\ s \in [1 .. Len(s) -> S]
  BY DEF Lists
<1>2. s \in Bijection(1 .. Len(s), S)
  BY <1>1 DEF Lists, Bijection, Injection, Surjection, IsInjective
<1>3. ExistsBijection(1 .. Len(s), S)
  BY <1>2 DEF ExistsBijection
<1>4. IsFiniteSet(S)
  BY <1>1, <1>3, FS_NatBijection
<1>5. Cardinality(S) = Len(s)
  BY <1>1, <1>3, FS_CountingElements
<1>6. ToSet(s) = S
  BY <1>1 DEF ToSet, Lists
<1> QED
  BY <1>1, <1>4, <1>5, <1>6

LEMMA ListPut ==
    ASSUME NEW S, NEW s, NEW k, Lists(s, S), k \notin S
    PROVE  Lists(<<k>> \o s, S \cup {k})
<1> DEFINE t == <<k>> \o s
<1>1. s \in Seq(S) /\ Len(s) \in Nat /\ \A i \in 1 .. Len(s) : s[i] \in S
  BY DEF Lists
<1>2. t \in Seq(S \cup {k}) /\ Len(t) = Len(s) + 1
  BY <1>1
<1>3. t[1] = k /\ \A i \in 2 .. Len(t) : t[i] = s[i - 1] /\ i - 1 \in 1 .. Len(s)
  BY <1>1
<1>4. \A i \in 1 .. Len(s) : t[i + 1] = s[i] /\ i + 1 \in 1 .. Len(t)
  BY <1>1, <1>2
<1> HIDE DEF t
<1>5. \A j \in S \cup {k} : \E i \in 1 .. Len(t) : t[i] = j
  <2> TAKE j \in S \cup {k}
  <2>1. CASE j = k
    BY <1>1, <1>2, <1>3, <2>1
  <2>2. CASE j \in S
    <3>1. PICK i \in 1 .. Len(s) : s[i] = j
      BY <2>2 DEF Lists
    <3> QED
      BY <1>4, <3>1
  <2> QED
    BY <2>1, <2>2
<1>6. ASSUME NEW i \in 1 .. Len(t), NEW j \in 1 .. Len(t), t[i] = t[j] PROVE i = j
  <2>1. \A x \in 2 .. Len(t) : t[x] # t[1]
    BY <1>1, <1>3
  <2>2. CASE i > 1 /\ j > 1
    <3>1. s[i - 1] = s[j - 1] /\ i - 1 \in 1 .. Len(s) /\ j - 1 \in 1 .. Len(s)
      BY <1>1, <1>2, <1>3, <1>6, <2>2
    <3>2. i - 1 = j - 1
      BY <3>1 DEF Lists
    <3> QED
      BY <1>1, <1>2, <3>2
  <2> QED
    BY <1>1, <1>2, <1>6, <2>1, <2>2
<1>7. Lists(t, S \cup {k})
  BY <1>2, <1>5, <1>6 DEF Lists
<1> QED
  BY <1>7 DEF t

LEMMA ListRemove ==
    ASSUME NEW S, NEW s, Lists(s, S), NEW m \in 1 .. Len(s)
    PROVE  Lists(RemoveAt(s, m), S \ {s[m]})
<1>1. s \in Seq(S) /\ Len(s) \in Nat /\ \A i \in 1 .. Len(s) : s[i] \in S
  BY DEF Lists
<1> DEFINE u == SubSeq(s, 1, m - 1)
           v == SubSeq(s, m + 1, Len(s))
<1>2. /\ u \in Seq(S) /\ Len(u) = m - 1
      /\ \A i \in 1 .. m - 1 : u[i] = s[i]
  BY <1>1, SubSeqProperties
<1>3. /\ v \in Seq(S) /\ Len(v) = Len(s) - m
      /\ \A i \in 1 .. Len(s) - m : v[i] = s[m + i]
  BY <1>1, SubSeqProperties
<1>4. RemoveAt(s, m) = u \o v
  BY DEF RemoveAt
<1> HIDE DEF u, v
<1> DEFINE t == u \o v
<1>5. /\ t \in Seq(S) /\ Len(t) = Len(s) - 1
      /\ \A i \in 1 .. Len(s) - 1 : t[i] = IF i < m THEN s[i] ELSE s[i + 1]
  <2>1. /\ t \in Seq(S) /\ Len(t) = Len(s) - 1
        /\ \A i \in 1 .. Len(s) - 1 : t[i] = IF i <= m - 1 THEN u[i] ELSE v[i - (m - 1)]
    <3>1. /\ t \in Seq(S) /\ Len(t) = Len(u) + Len(v)
          /\ \A i \in 1 .. Len(u) + Len(v) :
                t[i] = IF i <= Len(u) THEN u[i] ELSE v[i - Len(u)]
      BY <1>2, <1>3, ConcatProperties
    <3>2. Len(u) + Len(v) = Len(s) - 1
      BY <1>1, <1>2, <1>3
    <3> QED
      BY <1>2, <3>1, <3>2
  <2> QED
    BY <1>1, <1>2, <1>3, <2>1
<1> HIDE DEF t
<1>6. \A i, j \in 1 .. Len(s) : s[i] = s[j] => i = j
  BY DEF Lists
<1>7. ASSUME NEW i \in 1 .. Len(t) PROVE t[i] \in S \ {s[m]}
  BY <1>1, <1>5, <1>6
<1>8. t \in Seq(S \ {s[m]})
  <2>1. Len(t) \in Nat /\ t \in [1 .. Len(t) -> S]
    BY <1>5
  <2>2. t \in [1 .. Len(t) -> S \ {s[m]}]
    BY <1>7, <2>1
  <2> QED
    BY <2>1, <2>2, SeqDef
<1>9. \A j \in S \ {s[m]} : \E i \in 1 .. Len(t) : t[i] = j
  <2> TAKE j \in S \ {s[m]}
  <2>1. PICK i \in 1 .. Len(s) : s[i] = j
    BY DEF Lists
  <2>2. CASE i < m
    BY <1>1, <1>5, <2>1, <2>2
  <2>3. CASE i > m
    <3>1. i - 1 \in 1 .. Len(t) /\ i - 1 >= m /\ (i - 1) + 1 = i
      BY <1>1, <1>5, <2>3
    <3>2. t[i - 1] = s[i]
      BY <1>1, <1>5, <3>1
    <3> QED
      BY <2>1, <3>1, <3>2
  <2> QED
    BY <1>1, <2>1, <2>2, <2>3
<1>10. ASSUME NEW i \in 1 .. Len(t), NEW j \in 1 .. Len(t), t[i] = t[j] PROVE i = j
  <2> DEFINE at(x) == IF x < m THEN x ELSE x + 1
  <2>1. \A x \in 1 .. Len(t) : at(x) \in 1 .. Len(s) /\ t[x] = s[at(x)]
    BY <1>1, <1>5
  <2>2. at(i) = at(j)
    BY <1>6, <1>10, <2>1
  <2> QED
    BY <1>1, <1>5, <2>2
<1>11. Lists(t, S \ {s[m]})
  BY <1>8, <1>9, <1>10 DEF Lists
<1> QED
  BY <1>4, <1>11 DEF t

\* A set of numbers that is not empty has a least element.
LEMMA LeastOf ==
    ASSUME NEW T \in SUBSET Nat, T # {}
    PROVE  \E x \in T : \A y \in T : x <= y
<1> DEFINE R == {ss \in Nat \X Nat : ss[1] < ss[2]}
<1>1. IsWellFoundedOn(R, Nat)
  BY NatLessThanWellFounded DEF OpToRel
<1> HIDE DEF R
<1>2. PICK x \in T : \A y \in T : <<y, x>> \notin R
  BY <1>1, WFMin
<1>3. \A y \in T : y \in Nat /\ x \in Nat /\ ~(y < x)
  BY <1>2 DEF R
<1> QED
  BY <1>3

\* nextfd() finds a key that is not in use while the table is not full.
LEMMA FreshKey ==
    ASSUME Table, ~Full
    PROVE  FirstFree \in Keys \ DOMAIN fds
<1> DEFINE M == INT32_MAX - 1
           away(k) == (k - nextfd - 1) % M
           T == {away(k) : k \in Keys \ DOMAIN fds}
<1>1. limit \in Nat /\ limit >= 2 /\ limit <= INT32_MAX - 2 /\ INT32_MAX \in Nat
  BY KeysAssumption DEF Table
<1>2. Keys \ DOMAIN fds # {}
  <2>1. IsFiniteSet(Keys) /\ Cardinality(Keys) = M
    BY <1>1, FS_Interval DEF Keys
  <2>2. Cardinality(DOMAIN fds) \in Nat /\ Cardinality(DOMAIN fds) < limit
    BY <1>1, FS_CardinalityType DEF Table, Full
  <2>3. Keys \subseteq DOMAIN fds => Keys = DOMAIN fds
    BY DEF Table
  <2> QED
    BY <1>1, <2>1, <2>2, <2>3
<1>3. \A k \in Keys : away(k) \in Nat
  <2> TAKE k \in Keys
  <2>1. k - nextfd - 1 \in Int /\ M \in Nat /\ M > 0
    BY <1>1 DEF Table, Keys
  <2> QED
    BY <2>1
<1> HIDE DEF away
<1>4. T \in SUBSET Nat /\ T # {}
  BY <1>2, <1>3
<1>5. PICK x \in T : \A y \in T : x <= y
  BY <1>4, LeastOf
<1>6. \E k \in Keys \ DOMAIN fds : \A j \in Keys \ DOMAIN fds : away(k) <= away(j)
  BY <1>5
<1>7. FirstFree = CHOOSE k \in Keys \ DOMAIN fds : \A j \in Keys \ DOMAIN fds : away(k) <= away(j)
  BY DEF FirstFree, away
<1> QED
  BY <1>6, <1>7

-----------------------------------------------------------------------------
(* Sessions stay sessions.                                                   *)

LEMMA SessionParts ==
    ASSUME NEW s, IsSession(s)
    PROVE  /\ \A x : IsSession([s EXCEPT !.rbuf = x])
           /\ \A x \in 0 .. SndMax : IsSession([s EXCEPT !.snd = x])
           /\ \A x \in BOOLEAN : IsSession([s EXCEPT !.lastapp = x])
           /\ \A x \in BOOLEAN : IsSession([s EXCEPT !.closeframe = x])
           /\ \A x \in {"no", "young", "old"} : IsSession([s EXCEPT !.late = x])
           /\ \A x \in {"CONNECTING", "CONNECTED"} : IsSession([s EXCEPT !.status = x])
           /\ \A x \in {"TCP", "HTTP", "WS"} : IsSession([s EXCEPT !.proto = x])
  BY DEF IsSession

LEMMA SessionConns ==
    ASSUME NEW s, IsSession(s)
    PROVE  \A x : /\ [s EXCEPT !.rbuf = x].conn = s.conn
                  /\ [s EXCEPT !.snd = x].conn = s.conn
                  /\ [s EXCEPT !.lastapp = x].conn = s.conn
                  /\ [s EXCEPT !.closeframe = x].conn = s.conn
                  /\ [s EXCEPT !.late = x].conn = s.conn
                  /\ [s EXCEPT !.status = x].conn = s.conn
                  /\ [s EXCEPT !.proto = x].conn = s.conn
  BY DEF IsSession

\* What onrecvbytes leaves of a session is one of the same connection.
LEMMA OnRecvBytesKeeps ==
    ASSUME NEW c, NEW s, IsSession(s)
    PROVE  IsSession(OnRecvBytes(c, s).s) /\ OnRecvBytes(c, s).s.conn = s.conn
<1> DEFINE b == s.rbuf
           kind == KindAt(c, b[1])
           s0 == [s EXCEPT !.lastapp = FALSE]
           freed == [s0 EXCEPT !.rbuf = <<>>]
           rest == [s0 EXCEPT !.rbuf = SubSeq(b, Size[kind] + 1, Len(b))]
           reply == [rest EXCEPT !.snd = IF s.snd < SndMax THEN @ + 1 ELSE @]
           given == [rest EXCEPT !.lastapp = TRUE]
           ws == [reply EXCEPT !.proto = "WS"]
<1>1. OnRecvBytes(c, s).s \in {s, s0, freed, rest, reply, given, ws}
  BY DEF OnRecvBytes, Result
<1> DEFINE Same(t) == IsSession(t) /\ t.conn = s.conn
<1>2. Same(s0)
  BY SessionParts, SessionConns
<1>3. Same(freed) /\ Same(rest) /\ rest.snd = s.snd
  <2>1. s0.snd = s.snd /\ IsSession(s0)
    BY <1>2 DEF IsSession
  <2> HIDE DEF s0
  <2>2. rest.snd = s0.snd
    BY <2>1 DEF IsSession
  <2> QED
    BY <1>2, <2>1, <2>2, SessionParts, SessionConns
<1> HIDE DEF rest, freed
<1>4. Same(reply) /\ Same(given)
  <2> DEFINE n == IF s.snd < SndMax THEN s.snd + 1 ELSE s.snd
  <2>1. n \in 0 .. SndMax
    BY NetAssumption DEF IsSession
  <2>2. reply = [rest EXCEPT !.snd = n]
    BY <1>3
  <2> HIDE DEF n, reply
  <2>3. IsSession([rest EXCEPT !.snd = n]) /\ [rest EXCEPT !.snd = n].conn = rest.conn
    BY <1>3, <2>1, SessionParts, SessionConns
  <2>4. IsSession(given) /\ given.conn = rest.conn
    BY <1>3, SessionParts, SessionConns
  <2> QED
    BY <1>3, <2>2, <2>3, <2>4
<1> HIDE DEF reply
<1>5. Same(ws)
  <2>1. IsSession(reply) /\ reply.conn = s.conn
    BY <1>4
  <2>2. IsSession([reply EXCEPT !.proto = "WS"])
    BY <2>1, SessionParts
  <2>3. [reply EXCEPT !.proto = "WS"].conn = reply.conn
    BY <2>1, SessionConns
  <2> QED
    BY <2>1, <2>2, <2>3
<1> HIDE DEF ws, given, s0
<1> QED
  BY <1>1, <1>2, <1>3, <1>4, <1>5

LEMMA OnReceivedKeeps ==
    ASSUME NEW c, NEW s, NEW data, IsSession(s)
    PROVE  IsSession(OnReceived(c, s, data).s) /\ OnReceived(c, s, data).s.conn = s.conn
<1> DEFINE t == Joined(s, data)
<1>1. IsSession(t) /\ t.conn = s.conn
  BY SessionParts, SessionConns DEF Joined
<1> HIDE DEF t
<1>2. IsSession([t EXCEPT !.proto = "HTTP"]) /\ [t EXCEPT !.proto = "HTTP"].conn = s.conn
  BY <1>1, SessionParts, SessionConns
<1>3. IsSession([t EXCEPT !.late = "young"]) /\ [t EXCEPT !.late = "young"].conn = s.conn
  BY <1>1, SessionParts, SessionConns
<1>4. /\ IsSession(OnRecvBytes(c, t).s) /\ OnRecvBytes(c, t).s.conn = s.conn
      /\ IsSession(OnRecvBytes(c, [t EXCEPT !.proto = "HTTP"]).s)
      /\ OnRecvBytes(c, [t EXCEPT !.proto = "HTTP"]).s.conn = s.conn
  BY <1>1, <1>2, OnRecvBytesKeeps
<1>5. \/ OnReceived(c, s, data) = Result("NUL", s, 0)
      \/ OnReceived(c, s, data) = OnRecvBytes(c, t)
      \/ OnReceived(c, s, data) = Result("NUL", t, 0)
      \/ OnReceived(c, s, data) = OnRecvBytes(c, [t EXCEPT !.proto = "HTTP"])
      \/ OnReceived(c, s, data) = Result("NUL", [t EXCEPT !.late = "young"], 0)
  BY DEF OnReceived, t
<1>6. \A r, x, m : Result(r, x, m).s = x
  BY DEF Result
<1>7. OnReceived(c, s, data).s \in
        {s, t, [t EXCEPT !.late = "young"], OnRecvBytes(c, t).s,
         OnRecvBytes(c, [t EXCEPT !.proto = "HTTP"]).s}
  BY <1>5, <1>6
<1> QED
  BY <1>1, <1>3, <1>4, <1>7

-----------------------------------------------------------------------------
(* What the actions do to the tables.                                        *)

NetMoves ==
    /\ net' \in [Conns -> {"none", "connecting", "up", "fin", "rst"}]
    /\ \A c \in Conns : net'[c] = "none" => net[c] = "none"

\* Entries and sessions change without changing hands.
LEMMA Retuned ==
    ASSUME TableInv, NetMoves,
           fds' \in [DOMAIN fds -> Entries],
           \A k \in DOMAIN fds : fds'[k].type = fds[k].type /\ fds'[k].conn = fds[k].conn,
           sess' = [k \in TcpFds |-> sess'[k]],
           \A k \in TcpFds : IsSession(sess'[k]) /\ sess'[k].conn = sess[k].conn,
           limit' = limit, nextfd' = nextfd, chain' = chain, sock' = sock
    PROVE  TableInv'
<1>1. DOMAIN fds' = DOMAIN fds /\ TcpFds' = TcpFds
  BY DEF TcpFds
<1>2. Table'
  BY <1>1 DEF TableInv, Table, IsTcp
<1>3. Sessions'
  BY <1>1 DEF TableInv, Sessions, TcpFds
<1>4. Sockets'
  BY <1>1 DEF TableInv, Sockets, NetMoves, TcpFds
<1>5. Lists(chain, TcpFds)'
  BY <1>1 DEF TableInv
<1> QED
  BY <1>2, <1>3, <1>4, <1>5 DEF TableInv

\* A connection that was not open gets a key that was not in use.
LEMMA Opened ==
    ASSUME TableInv, NetMoves, ~Full, NEW c \in Conns, NEW s,
           NEW type \in {"fd_tcp", "fd_tcpout"},
           IsSession(s), s.conn = c, sock[c] # "open", net'[c] # "none",
           SetFd(FirstFree, type, c), nextfd' = FirstFree, NewSession(FirstFree, s),
           sock' = [sock EXCEPT ![c] = "open"], limit' = limit
    PROVE  TableInv'
<1> DEFINE k == FirstFree
<1>1. k \in Keys /\ k \notin DOMAIN fds
  BY FreshKey DEF TableInv
<1> HIDE DEF k
<1> DEFINE f == [type |-> type, conn |-> c, pollevents |-> {"EPOLLIN", "EPOLLOUT"}]
<1>2. fds' = [j \in DOMAIN fds \cup {k} |-> IF j = k THEN f ELSE fds[j]]
  BY DEF SetFd, k
<1>3. f \in Entries /\ f.type = type /\ f.conn = c
  BY DEF Entries, FdTypes
<1> HIDE DEF f
<1>4. /\ DOMAIN fds' = DOMAIN fds \cup {k}
      /\ fds'[k] = f
      /\ \A j \in DOMAIN fds : fds'[j] = fds[j]
  BY <1>1, <1>2
<1>5. TcpFds' = TcpFds \cup {k} /\ k \notin TcpFds
  BY <1>1, <1>3, <1>4 DEF TcpFds
<1>6. DOMAIN sess = TcpFds
  BY DEF TableInv, Sessions
<1>7. sess' = [j \in TcpFds \cup {k} |-> IF j = k THEN s ELSE sess[j]]
  BY <1>6 DEF NewSession, k
<1>8. Table'
  <2>1. fds' \in [DOMAIN fds' -> Entries]
    BY <1>2, <1>3 DEF TableInv, Table
  <2>2. IsFiniteSet(DOMAIN fds') /\ Cardinality(DOMAIN fds') <= limit
    <3>1. limit \in Nat
      BY KeysAssumption DEF TableInv, Table
    <3>2. Cardinality(DOMAIN fds) \in Nat /\ Cardinality(DOMAIN fds) < limit
      BY <3>1, FS_CardinalityType DEF TableInv, Table, Full
    <3>3. IsFiniteSet(DOMAIN fds')
      BY <1>4, FS_AddElement DEF TableInv, Table
    <3>4. Cardinality(DOMAIN fds') = Cardinality(DOMAIN fds) + 1
      BY <1>1, <1>4, FS_AddElement DEF TableInv, Table
    <3> QED
      BY <3>1, <3>2, <3>3, <3>4
  <2>3. \A j \in DOMAIN fds' : IsTcp(fds'[j]) <=> fds'[j].conn \in Conns
    BY <1>3, <1>4 DEF TableInv, Table, IsTcp
  <2> QED
    BY <1>1, <1>4, <2>1, <2>2, <2>3 DEF TableInv, Table, k
<1>9. Sessions'
  BY <1>3, <1>4, <1>5, <1>7 DEF TableInv, Sessions, TcpFds
<1>10. Sockets'
  <2>1. \A j \in TcpFds : fds[j].conn # c
    BY DEF TableInv, Sockets
  <2>2. \A j \in TcpFds : fds'[j] = fds[j] /\ j # k
    BY <1>4, <1>5 DEF TcpFds
  <2>3. \A d \in Conns : sock'[d] = "open" <=> \E j \in TcpFds' : fds'[j].conn = d
    BY <1>3, <1>4, <1>5, <2>1, <2>2 DEF TableInv, Sockets
  <2>4. \A i, j \in TcpFds' : fds'[i].conn = fds'[j].conn => i = j
    BY <1>3, <1>4, <1>5, <2>1, <2>2 DEF TableInv, Sockets
  <2>5. sock' \in [Conns -> {"none", "open", "gone"}]
    BY DEF TableInv, Sockets
  <2>6. \A d \in Conns : net'[d] = "none" => sock'[d] = "none"
    BY DEF TableInv, Sockets, NetMoves
  <2> QED
    BY <2>3, <2>4, <2>5, <2>6 DEF Sockets, NetMoves
<1>11. Lists(chain, TcpFds)'
  <2>1. chain' = <<k>> \o chain
    BY DEF NewSession, k
  <2> QED
    BY <1>5, <2>1, ListPut DEF TableInv
<1> QED
  BY <1>8, <1>9, <1>10, <1>11 DEF TableInv

\* A key leaves the tables, and its connection the system.
LEMMA Dropped ==
    ASSUME TableInv, NEW k,
           fds' = Without(k),
           sess' = [j \in DOMAIN sess \ {k} |-> sess[j]],
           chain' = IF k \in DOMAIN sess THEN RemoveAt(chain, PlaceOf(k)) ELSE chain,
           ConnOf(k) = NoConn => sock' = sock,
           ConnOf(k) # NoConn => sock' = [sock EXCEPT ![ConnOf(k)] = "gone"],
           limit' = limit, nextfd' = nextfd, net' = net
    PROVE  TableInv'
<1>1. /\ DOMAIN fds' = DOMAIN fds \ {k}
      /\ \A j \in DOMAIN fds \ {k} : fds'[j] = fds[j]
  BY DEF Without
<1>2. TcpFds' = TcpFds \ {k}
  BY <1>1 DEF TcpFds
<1>3. DOMAIN sess = TcpFds
  BY DEF TableInv, Sessions
<1>4. Table'
  <2>1. fds' \in [DOMAIN fds' -> Entries]
    BY <1>1 DEF TableInv, Table, Without
  <2>2. IsFiniteSet(DOMAIN fds') /\ Cardinality(DOMAIN fds') <= limit
    <3>1. limit \in Nat
      BY KeysAssumption DEF TableInv, Table
    <3>2. Cardinality(DOMAIN fds) \in Nat
      BY FS_CardinalityType DEF TableInv, Table
    <3>3. /\ IsFiniteSet(DOMAIN fds')
          /\ \/ Cardinality(DOMAIN fds') = Cardinality(DOMAIN fds)
             \/ Cardinality(DOMAIN fds') = Cardinality(DOMAIN fds) - 1
      BY <1>1, FS_RemoveElement DEF TableInv, Table
    <3> QED
      BY <3>1, <3>2, <3>3 DEF TableInv, Table
  <2> QED
    BY <1>1, <2>1, <2>2 DEF TableInv, Table
<1>5. Sessions'
  BY <1>1, <1>2, <1>3 DEF TableInv, Sessions, TcpFds
<1>6. Sockets'
  <2>1. k \in TcpFds <=> ConnOf(k) # NoConn
    BY KeysAssumption DEF TableInv, Table, Entries, ConnOf, TcpFds, IsTcp
  <2>2. k \in TcpFds => ConnOf(k) = fds[k].conn /\ ConnOf(k) \in Conns
    BY DEF TableInv, Table, ConnOf, TcpFds, IsTcp
  <2>3. sock' \in [Conns -> {"none", "open", "gone"}]
    BY DEF TableInv, Sockets
  <2>4. \A j \in TcpFds' : fds'[j] = fds[j] /\ j \in TcpFds /\ j # k
    BY <1>1, <1>2 DEF TcpFds
  <2>5. \A c \in Conns : sock'[c] = "open" <=> \E j \in TcpFds' : fds'[j].conn = c
    <3>1. CASE k \in TcpFds
      BY <1>2, <2>1, <2>2, <2>4, <3>1 DEF TableInv, Sockets
    <3>2. CASE k \notin TcpFds
      BY <1>2, <2>1, <2>4, <3>2 DEF TableInv, Sockets
    <3> QED
      BY <3>1, <3>2
  <2>6. \A c \in Conns : net'[c] = "none" => sock'[c] = "none"
    BY <2>1, <2>2 DEF TableInv, Sockets
  <2> QED
    BY <2>3, <2>4, <2>5, <2>6 DEF TableInv, Sockets
<1>7. Lists(chain, TcpFds)'
  <2>1. CASE k \in TcpFds
    <3>1. PlaceOf(k) \in 1 .. Len(chain) /\ chain[PlaceOf(k)] = k
      BY <2>1 DEF TableInv, Lists, PlaceOf
    <3> QED
      BY <1>2, <1>3, <2>1, <3>1, ListRemove DEF TableInv
  <2>2. CASE k \notin TcpFds
    BY <1>2, <1>3, <2>2 DEF TableInv
  <2> QED
    BY <2>1, <2>2
<1> QED
  BY <1>4, <1>5, <1>6, <1>7 DEF TableInv

\* What is left alone stays in step.
LEMMA Untouched ==
    ASSUME TableInv, NetMoves, UNCHANGED tables
    PROVE  TableInv'
<1> SUFFICES ASSUME TRUE PROVE Table' /\ Sessions' /\ Sockets' /\ Lists(chain, TcpFds)'
  BY DEF TableInv
<1>1. TcpFds' = TcpFds
  BY DEF tables, TcpFds
<1> QED
  BY <1>1 DEF TableInv, Table, Sessions, Sockets, NetMoves, tables

LEMMA StillMoves == ASSUME TableInv, net' = net PROVE NetMoves
  BY DEF TableInv, Sockets, NetMoves

\* One session becomes t; its entry and others may be watched for other events.
LEMMA OneSession ==
    ASSUME TableInv, NEW k \in TcpFds, NEW t, IsSession(t), t.conn = sess[k].conn,
           sess' = [sess EXCEPT ![k] = t],
           fds' = fds \/ fds' = Trigger(k, t),
           limit' = limit, nextfd' = nextfd, chain' = chain, sock' = sock, net' = net
    PROVE  TableInv'
<1>1. sess' = [j \in TcpFds |-> IF j = k THEN t ELSE sess[j]]
  BY DEF TableInv, Sessions
<1>2. sess' = [j \in TcpFds |-> sess'[j]]
  BY <1>1
<1>3. \A j \in TcpFds : IsSession(sess'[j]) /\ sess'[j].conn = sess[j].conn
  BY <1>1 DEF TableInv, Sessions
<1>4. /\ fds' \in [DOMAIN fds -> Entries]
      /\ \A j \in DOMAIN fds : fds'[j].type = fds[j].type /\ fds'[j].conn = fds[j].conn
  BY DEF TableInv, Table, Entries, Trigger, Interest, TcpFds
<1> QED
  BY <1>2, <1>3, <1>4, Retuned, StillMoves

\* Entries are watched for other events.
LEMMA Rewatched ==
    ASSUME TableInv,
           fds' \in [DOMAIN fds -> Entries],
           \A k \in DOMAIN fds : fds'[k].type = fds[k].type /\ fds'[k].conn = fds[k].conn,
           sess' = sess, limit' = limit, nextfd' = nextfd, chain' = chain, sock' = sock,
           net' = net
    PROVE  TableInv'
<1>1. sess' = [j \in TcpFds |-> sess'[j]]
  BY DEF TableInv, Sessions
<1>2. \A j \in TcpFds : IsSession(sess'[j]) /\ sess'[j].conn = sess[j].conn
  BY DEF TableInv, Sessions
<1> QED
  BY <1>1, <1>2, Retuned, StillMoves

\* Whatever the application calls from a callback.
LEMMA AppKeeps ==
    ASSUME TableInv, NEW cb, NEW st, AppCall(cb, st), calls \in 0 .. AppCalls
    PROVE  TableInv' /\ limit' = limit /\ calls' \in 0 .. AppCalls
<1>1. calls' \in 0 .. AppCalls
  BY NetAssumption DEF AppCall
<1>2. DOMAIN sess = TcpFds
  BY DEF TableInv, Sessions
<1>3. CASE AppSend(st)
  <2>1. PICK k \in TcpFds :
          /\ IF sess[k].snd = SndMax THEN UNCHANGED sess
             ELSE sess' = [sess EXCEPT ![k].snd = @ + 1]
          /\ UNCHANGED <<limit, fds, nextfd, chain, sock, net>>
    BY <1>2, <1>3 DEF AppSend
  <2>2. IsSession(sess[k])
    BY DEF TableInv, Sessions
  <2>3. CASE sess' = sess
    BY <1>1, <2>1, <2>3, Untouched, StillMoves DEF tables
  <2>4. CASE sess[k].snd # SndMax
    <3> DEFINE n == sess[k].snd + 1
               t == [sess[k] EXCEPT !.snd = n]
    <3>1. n \in 0 .. SndMax
      BY <2>2, <2>4, NetAssumption DEF IsSession
    <3>2. sess' = [sess EXCEPT ![k] = t]
      BY <2>1, <2>4
    <3> HIDE DEF n
    <3>3. IsSession(t) /\ t.conn = sess[k].conn
      BY <2>2, <3>1, SessionParts, SessionConns
    <3> HIDE DEF t
    <3> QED
      BY <1>1, <2>1, <3>2, <3>3, OneSession
  <2> QED
    BY <1>1, <2>1, <2>3, <2>4
<1>4. CASE AppClose(st)
  BY <1>1, <1>4, Untouched, StillMoves DEF AppClose, tables
<1>5. CASE AppDelay(st)
  <2>1. PICK k \in TcpFds :
          /\ sess' = [sess EXCEPT ![k].late = "young"]
          /\ UNCHANGED <<limit, fds, nextfd, chain, sock, net>>
    BY <1>2, <1>5 DEF AppDelay
  <2> DEFINE t == [sess[k] EXCEPT !.late = "young"]
  <2>2. IsSession(sess[k])
    BY DEF TableInv, Sessions
  <2>3. IsSession(t) /\ t.conn = sess[k].conn
    BY <2>2, SessionParts, SessionConns
  <2>4. sess' = [sess EXCEPT ![k] = t]
    BY <2>1
  <2> HIDE DEF t
  <2> QED
    BY <1>1, <2>1, <2>3, <2>4, OneSession
<1>6. CASE AppConnect(st)
  <2>1. PICK c \in Conns :
          /\ net[c] = "none" /\ ~Full
          /\ SetFd(FirstFree, "fd_tcpout", c)
          /\ nextfd' = FirstFree
          /\ NewSession(FirstFree, Session(c, "CONNECTING"))
          /\ sock' = [sock EXCEPT ![c] = "open"]
          /\ net' = [net EXCEPT ![c] = "connecting"]
          /\ limit' = limit
    BY <1>6 DEF AppConnect
  <2>2. IsSession(Session(c, "CONNECTING")) /\ Session(c, "CONNECTING").conn = c
    BY NetAssumption DEF Session, IsSession
  <2>3. NetMoves /\ net'[c] # "none" /\ sock[c] # "open"
    BY <2>1 DEF TableInv, Sockets, NetMoves
  <2> QED
    BY <1>1, <2>1, <2>2, <2>3, Opened
<1> QED
  BY <1>3, <1>4, <1>5, <1>6 DEF AppCall

LEMMA CallbackKeeps ==
    ASSUME TableInv, NEW cb, NEW st, Callback(cb, st), calls \in 0 .. AppCalls
    PROVE  TableInv' /\ limit' = limit /\ calls' \in 0 .. AppCalls /\ ret' = ret
<1>1. CASE AppCall(cb, st)
  BY <1>1, AppKeeps DEF Callback
<1>2. CASE UNCHANGED <<tables, net, calls>>
  BY <1>2, Untouched, StillMoves DEF Callback, tables
<1> QED
  BY <1>1, <1>2 DEF Callback

\* Positions of the scan do not pass the end of the chain.
LEMMA ChainFits ==
    ASSUME TableInv
    PROVE  Len(chain) \in Nat /\ Len(chain) <= limit /\ limit \in Nat /\ limit >= 2
<1>1. limit \in Nat /\ limit >= 2
  BY KeysAssumption DEF TableInv, Table
<1>2. Cardinality(TcpFds) = Len(chain) /\ Len(chain) \in Nat
  BY ListLength DEF TableInv
<1>3. Cardinality(TcpFds) <= Cardinality(DOMAIN fds)
  <2>1. TcpFds \in SUBSET DOMAIN fds
    BY DEF TcpFds
  <2> QED
    BY <2>1, FS_Subset DEF TableInv, Table
<1>4. Cardinality(DOMAIN fds) \in Nat /\ Cardinality(DOMAIN fds) <= limit
  BY FS_CardinalityType DEF TableInv, Table
<1> QED
  BY <1>1, <1>2, <1>3, <1>4

LEMMA Stays == ASSUME LoopInv, limit' = limit, UNCHANGED <<pc, pos, posp, ret, calls>>
               PROVE LoopInv'
  BY DEF LoopInv

-----------------------------------------------------------------------------
(* The actions.                                                              *)

LEMMA HandlerInv == ASSUME Inv, Handler PROVE Inv'
<1> USE DEF Inv
<1>0. DOMAIN sess = TcpFds
  BY DEF TableInv, Sessions
<1>a. calls \in 0 .. AppCalls
  BY DEF LoopInv
<1>1. CASE Closefd
  <2> DEFINE k == Top.fd
  <2>1. UNCHANGED <<limit, fds, nextfd, chain, sock, loop, peer, app>>
    BY <1>1 DEF Closefd
  <2>2. LoopInv'
    BY <2>1, Stays DEF loop, app
  <2>3. CASE sess' = sess
    BY <2>1, <2>2, <2>3, Untouched, StillMoves DEF tables, peer
  <2>4. CASE k \in TcpFds /\ sess' = [sess EXCEPT ![k].closeframe = TRUE]
    <3> DEFINE t == [sess[k] EXCEPT !.closeframe = TRUE]
    <3>1. IsSession(t) /\ t.conn = sess[k].conn
      BY <2>4, SessionParts, SessionConns DEF TableInv, Sessions
    <3>2. sess' = [sess EXCEPT ![k] = t]
      BY <2>4
    <3> HIDE DEF t
    <3> QED
      BY <2>1, <2>2, <2>4, <3>1, <3>2, OneSession DEF peer
  <2>5. CASE /\ k \in TcpFds /\ sess[k].snd # SndMax
             /\ sess' = [sess EXCEPT ![k].closeframe = TRUE, ![k].snd = @ + 1]
    <3> DEFINE n == sess[k].snd + 1
               u == [sess[k] EXCEPT !.closeframe = TRUE]
               t == [u EXCEPT !.snd = n]
    <3>1. IsSession(sess[k])
      BY <2>5 DEF TableInv, Sessions
    <3>2. n \in 0 .. SndMax /\ u.snd = sess[k].snd
      BY <2>5, <3>1, NetAssumption DEF IsSession
    <3>3. sess' = [sess EXCEPT ![k] = t]
      BY <2>5, <3>2
    <3>4. IsSession(u) /\ u.conn = sess[k].conn
      BY <3>1, SessionParts, SessionConns
    <3> HIDE DEF n, u
    <3>5. IsSession(t) /\ t.conn = u.conn
      BY <3>2, <3>4, SessionParts, SessionConns
    <3> HIDE DEF t
    <3> QED
      BY <2>1, <2>2, <2>5, <3>3, <3>4, <3>5, OneSession DEF peer
  <2> QED
    BY <1>0, <1>1, <2>3, <2>4, <2>5 DEF Closefd, SendsCloseFrame
<1>2. CASE OnDisconnect
  <2>1. Callback("onDisconnect", TopAt("drop")) /\ UNCHANGED loop
    BY <1>2 DEF OnDisconnect
  <2>2. TableInv' /\ limit' = limit /\ calls' \in 0 .. AppCalls /\ ret' = ret
    BY <1>a, <2>1, CallbackKeeps
  <2> QED
    BY <2>1, <2>2 DEF LoopInv, loop
<1>3. CASE Drop
  <2>1. TableInv'
    BY <1>3, Dropped DEF Drop
  <2> QED
    BY <1>3, <2>1, Stays DEF Drop, loop, app
<1>4. CASE OnDisconnected
  <2>1. Callback("onDisconnected", Below) /\ UNCHANGED loop
    BY <1>4 DEF OnDisconnected
  <2>2. TableInv' /\ limit' = limit /\ calls' \in 0 .. AppCalls /\ ret' = ret
    BY <1>a, <2>1, CallbackKeeps
  <2> QED
    BY <2>1, <2>2 DEF LoopInv, loop
<1>5. CASE PostSend
  <2> DEFINE k == Top.fd
  <2>1. UNCHANGED <<limit, nextfd, chain, sock, loop, peer, app>>
    BY <1>5 DEF PostSend
  <2>2. LoopInv'
    BY <2>1, Stays DEF loop, app
  <2>3. CASE UNCHANGED <<fds, sess>>
    BY <2>1, <2>2, <2>3, Untouched, StillMoves DEF tables, peer
  <2>4. CASE /\ k \in TcpFds
             /\ \E left \in Left(sess[k]) : sess' = [sess EXCEPT ![k].snd = left]
             /\ fds' = Trigger(k, sess'[k])
    <3>1. PICK left \in Left(sess[k]) : sess' = [sess EXCEPT ![k].snd = left]
      BY <2>4
    <3> DEFINE t == [sess[k] EXCEPT !.snd = left]
    <3>2. IsSession(sess[k])
      BY <2>4 DEF TableInv, Sessions
    <3>3. left \in 0 .. SndMax
      BY <3>2, NetAssumption DEF Left, IsSession
    <3>4. IsSession(t) /\ t.conn = sess[k].conn
      BY <3>2, <3>3, SessionParts, SessionConns
    <3>5. sess' = [sess EXCEPT ![k] = t]
      BY <3>1
    <3>6. sess'[k] = t
      BY <1>0, <2>4, <3>5
    <3> HIDE DEF t
    <3> QED
      BY <2>1, <2>2, <2>4, <3>4, <3>5, <3>6, OneSession DEF peer
  <2> QED
    BY <1>0, <1>5, <2>3, <2>4 DEF PostSend
<1>6. CASE DoMessage
  <2>1. TableInv' /\ limit' = limit /\ calls' \in 0 .. AppCalls
    <3>1. CASE UNCHANGED <<tables, net>> /\ calls' \in 0 .. AppCalls
      BY <3>1, Untouched, StillMoves DEF tables
    <3>2. CASE AppCall("domessage", TopAt("domessageDone"))
      BY <1>a, <3>2, AppKeeps
    <3>3. calls > 0 /\ calls' = calls - 1 => calls' \in 0 .. AppCalls
      BY <1>a, NetAssumption
    <3> QED
      BY <1>6, <1>a, <3>1, <3>2, <3>3 DEF DoMessage
  <2>2. ret' \in {0, -1} /\ UNCHANGED loop
    BY <1>6 DEF DoMessage, LoopInv
  <2> QED
    BY <2>1, <2>2 DEF LoopInv, loop
<1>7. CASE DoMessageDone
  <2>1. TableInv' /\ limit' = limit
    BY <1>7, Untouched, StillMoves DEF DoMessageDone, tables, peer
  <2> QED
    BY <1>7, <2>1 DEF DoMessageDone, LoopInv, loop
<1> QED
  BY <1>1, <1>2, <1>3, <1>4, <1>5, <1>6, <1>7 DEF Handler

LEMMA CloseNextInv ==
    ASSUME Inv, NEW at, NEW next \in Points, CloseNext(at, next)
    PROVE  Inv'
<1>1. TableInv' /\ limit' = limit
  BY Untouched, StillMoves DEF CloseNext, Inv, tables, peer
<1> QED
  BY <1>1 DEF CloseNext, AtLoop, Inv, LoopInv, app

\* Flow control changes what the entries are watched for.
LEMMA FlowKeeps ==
    ASSUME TableInv
    PROVE  /\ FlowControl \in [DOMAIN fds -> Entries]
           /\ \A k \in DOMAIN fds : /\ FlowControl[k].type = fds[k].type
                                    /\ FlowControl[k].conn = fds[k].conn
<1>1. \A k \in DOMAIN fds :
        FlowControl[k] = IF k \in TcpFds
                         THEN [fds[k] EXCEPT !.pollevents = Interest(sess[k])]
                         ELSE fds[k]
  BY DEF FlowControl, Trigger, TcpFds, TableInv, Table
<1>2. FlowControl = [k \in DOMAIN fds |-> FlowControl[k]]
  BY DEF FlowControl
<1>3. \A s : Interest(s) \subseteq {"EPOLLIN", "EPOLLOUT"}
  BY DEF Interest
<1>4. \A k \in DOMAIN fds : fds[k] \in Entries
  BY DEF TableInv, Table
<1>5. ASSUME NEW k \in DOMAIN fds
      PROVE  /\ FlowControl[k] \in Entries
             /\ FlowControl[k].type = fds[k].type /\ FlowControl[k].conn = fds[k].conn
  <2>1. CASE k \in TcpFds
    <3> DEFINE e == Interest(sess[k])
    <3>1. e \in SUBSET {"EPOLLIN", "EPOLLOUT"} /\ fds[k] \in Entries
      BY <1>3, <1>4
    <3>2. FlowControl[k] = [fds[k] EXCEPT !.pollevents = e]
      BY <1>1, <2>1
    <3> HIDE DEF e
    <3> QED
      BY <3>1, <3>2 DEF Entries
  <2>2. CASE k \notin TcpFds
    BY <1>1, <1>4, <2>2
  <2> QED
    BY <2>1, <2>2
<1> QED
  BY <1>2, <1>5

LEMMA RuntimeInv == ASSUME Inv, Runtime PROVE Inv'
<1> USE DEF Inv
<1>0. DOMAIN sess = TcpFds
  BY DEF TableInv, Sessions
<1>a. calls \in 0 .. AppCalls
  BY DEF LoopInv
<1>b. Len(chain) \in Nat /\ Len(chain) <= limit /\ limit \in Nat /\ limit >= 2
  BY ChainFits
<1>c. \A k \in TcpFds : IsSession(sess[k])
  BY DEF TableInv, Sessions
<1>1. CASE TimerJob
  <2>1. Callback("timerjob", <<>>) /\ pc' = "scan" /\ pos' = 1 /\ posp' = 1
    BY <1>1 DEF TimerJob
  <2> DEFINE e == <<>>
  <2>2. Callback("timerjob", e)
    BY <2>1
  <2> HIDE DEF e
  <2>3. TableInv' /\ limit' = limit /\ calls' \in 0 .. AppCalls /\ ret' = ret
    BY <1>a, <2>2, CallbackKeeps
  <2> QED
    BY <1>b, <2>1, <2>3 DEF LoopInv, Points
<1>2. CASE Scan
  <2>1. UNCHANGED <<limit, fds, nextfd, chain, sock, ret, calls, peer>>
    BY <1>2 DEF Scan
  <2>2. CASE pos \notin 1 .. Len(chain)
    <3>1. sess' = sess /\ pc' \in Points /\ pos' = 0 /\ posp' = 0
      BY <1>2, <2>2 DEF Scan, Points
    <3>2. TableInv'
      BY <2>1, <3>1, Untouched, StillMoves DEF tables, peer
    <3> QED
      BY <1>b, <2>1, <3>1, <3>2 DEF LoopInv
  <2>3. CASE pos \in 1 .. Len(chain)
    <3> DEFINE k == chain[pos]
               t == OnRecvBytes(sess[k].conn, sess[k]).s
    <3>1. k \in TcpFds
      BY <1>b, <2>3 DEF TableInv, Lists
    <3>2. IsSession(t) /\ t.conn = sess[k].conn
      BY <1>c, <3>1, OnRecvBytesKeeps
    <3>3. pos' = IF pos < Len(chain) THEN pos + 1 ELSE 0
      BY <1>2, <2>3 DEF Scan
    <3>4. posp' = pos' \/ posp' = posp
      BY <1>2, <2>3 DEF Scan
    <3>5. sess' = sess \/ sess' = [sess EXCEPT ![k] = t]
      BY <1>2, <2>3 DEF Scan
    <3>6. pc' = pc \/ pc' = "scanned"
      BY <1>2, <2>3 DEF Scan
    <3> HIDE DEF k, t
    <3>7. TableInv'
      BY <2>1, <3>1, <3>2, <3>5, Untouched, StillMoves, OneSession DEF tables, peer
    <3>8. pos' \in 0 .. limit
      BY <1>b, <2>3, <3>3
    <3> QED
      BY <2>1, <3>4, <3>6, <3>7, <3>8 DEF LoopInv, Points
  <2> QED
    BY <2>2, <2>3
<1>3. CASE Scanned
  <2>1. TableInv' /\ limit' = limit
    BY <1>3, Untouched, StillMoves DEF Scanned, tables, peer
  <2> QED
    BY <1>3, <2>1 DEF Scanned, LoopInv, Points, app
<1>4. CASE ScanDels
  BY <1>4, CloseNextInv DEF ScanDels, Points
<1>5. ASSUME NEW flow \in BOOLEAN, Wait(flow) PROVE Inv'
  <2>1. \/ fds' = FlowControl
        \/ fds' = fds
    BY <1>5 DEF Wait
  <2>2. /\ fds' \in [DOMAIN fds -> Entries]
        /\ \A k \in DOMAIN fds : fds'[k].type = fds[k].type /\ fds'[k].conn = fds[k].conn
    BY <2>1, FlowKeeps DEF TableInv, Table
  <2>3. UNCHANGED <<limit, nextfd, sess, chain, sock, pos, posp, peer, app>> /\ pc' = "event"
    BY <1>5 DEF Wait
  <2>4. TableInv'
    BY <2>2, <2>3, Rewatched DEF peer
  <2> QED
    BY <2>3, <2>4 DEF LoopInv, Points, app
<1>6. CASE Accept
  <2>1. UNCHANGED <<limit, pos, posp, net, app>> /\ pc' = "event"
    BY <1>6 DEF Accept, AcceptInto, NextEvent
  <2>2. LoopInv'
    BY <2>1 DEF LoopInv, Points, app
  <2>3. CASE UNCHANGED <<fds, nextfd, sess, chain, sock>>
    BY <2>1, <2>2, <2>3, Untouched, StillMoves DEF tables
  <2>4. ASSUME NEW c \in Backlog, sock' = [sock EXCEPT ![c] = "gone"],
               UNCHANGED <<fds, nextfd, sess, chain>>
        PROVE  Inv'
    <3>1. c \in Conns /\ sock[c] = "none" /\ net[c] # "none"
      BY <2>4 DEF Backlog
    <3>2. TcpFds' = TcpFds
      BY <2>4 DEF TcpFds
    <3>3. Sockets'
      BY <2>1, <2>4, <3>1, <3>2 DEF TableInv, Sockets
    <3>4. Table' /\ Sessions' /\ Lists(chain, TcpFds)'
      BY <2>1, <2>4, <3>2 DEF TableInv, Table, Sessions
    <3> QED
      BY <2>2, <3>3, <3>4 DEF TableInv
  <2>5. ASSUME NEW c \in Backlog, ~Full,
               SetFd(FirstFree, "fd_tcp", c), nextfd' = FirstFree,
               NewSession(FirstFree, Session(c, "CONNECTED")),
               sock' = [sock EXCEPT ![c] = "open"]
        PROVE  Inv'
    <3>1. c \in Conns /\ sock[c] = "none" /\ net[c] # "none"
      BY <2>5 DEF Backlog
    <3>2. IsSession(Session(c, "CONNECTED")) /\ Session(c, "CONNECTED").conn = c
      BY <3>1, NetAssumption DEF Session, IsSession
    <3>3. NetMoves /\ net'[c] # "none" /\ sock[c] # "open"
      BY <2>1, <3>1, StillMoves
    <3> QED
      BY <2>1, <2>2, <2>5, <3>1, <3>2, <3>3, Opened
  <2> QED
    BY <1>6, <2>3, <2>4, <2>5 DEF Accept, AcceptInto
<1>7. CASE Receive
  <2> DEFINE k == Event.fd
             c == fds[k].conn
             t == OnReceived(c, sess[k], wire[c]).s
  <2>1. UNCHANGED <<limit, fds, nextfd, chain, sock, pos, posp, net, ret, calls>>
    BY <1>7 DEF Receive
  <2>2. pc' \in Points
    BY <1>7 DEF Receive, NextEvent, Points
  <2>3. sess' = sess \/ (k \in TcpFds /\ sess' = [sess EXCEPT ![k] = t])
    BY <1>0, <1>7 DEF Receive
  <2>4. k \in TcpFds => IsSession(t) /\ t.conn = sess[k].conn
    BY <1>c, OnReceivedKeeps
  <2> HIDE DEF k, t
  <2>5. TableInv'
    BY <2>1, <2>3, <2>4, Untouched, StillMoves, OneSession DEF tables
  <2> QED
    BY <2>1, <2>2, <2>5 DEF LoopInv
<1>8. CASE AfterMessage
  <2>1. TableInv' /\ limit' = limit
    BY <1>8, Untouched, StillMoves DEF AfterMessage, tables, peer
  <2> QED
    BY <1>8, <2>1 DEF AfterMessage, NextEvent, LoopInv, Points, app
<1>9. CASE EventRest
  <2> DEFINE k == Event.fd
  <2>1. UNCHANGED <<limit, nextfd, chain, sock, app, pos, posp, peer>>
    BY <1>9 DEF EventRest
  <2>2. pc' \in Points
    BY <1>9 DEF EventRest, NextEvent, Points
  <2>3. LoopInv'
    BY <2>1, <2>2 DEF LoopInv, app
  <2>4. CASE UNCHANGED <<fds, sess>>
    BY <2>1, <2>3, <2>4, Untouched, StillMoves DEF tables, peer
  <2>5. CASE k \in TcpFds /\ fds' = Trigger(k, sess[k]) /\ sess' = sess
    <3>1. /\ fds' \in [DOMAIN fds -> Entries]
          /\ \A j \in DOMAIN fds : fds'[j].type = fds[j].type /\ fds'[j].conn = fds[j].conn
      BY <2>5 DEF TableInv, Table, Entries, Trigger, Interest, TcpFds
    <3> QED
      BY <2>1, <2>3, <2>5, <3>1, Rewatched DEF peer
  <2>6. CASE k \in TcpFds /\ fds' = fds /\ sess' = [sess EXCEPT ![k].status = "CONNECTED"]
    <3> DEFINE t == [sess[k] EXCEPT !.status = "CONNECTED"]
    <3>1. IsSession(sess[k])
      BY <1>c, <2>6
    <3>2. IsSession(t) /\ t.conn = sess[k].conn
      BY <3>1, SessionParts, SessionConns
    <3>3. sess' = [sess EXCEPT ![k] = t]
      BY <2>6
    <3> HIDE DEF t
    <3> QED
      BY <2>1, <2>3, <2>6, <3>2, <3>3, OneSession DEF peer
  <2>7. CASE /\ k \in TcpFds
             /\ \E left \in Left(sess[k]) : sess' = [sess EXCEPT ![k].snd = left]
             /\ fds' = Trigger(k, sess'[k])
    <3>1. PICK left \in Left(sess[k]) : sess' = [sess EXCEPT ![k].snd = left]
      BY <2>7
    <3> DEFINE t == [sess[k] EXCEPT !.snd = left]
    <3>2. IsSession(sess[k])
      BY <1>c, <2>7
    <3>3. left \in 0 .. SndMax
      BY <3>2, NetAssumption DEF Left, IsSession
    <3>4. IsSession(t) /\ t.conn = sess[k].conn
      BY <3>2, <3>3, SessionParts, SessionConns
    <3>5. sess' = [sess EXCEPT ![k] = t]
      BY <3>1
    <3>6. sess'[k] = t
      BY <1>0, <2>7, <3>5
    <3> HIDE DEF t
    <3> QED
      BY <2>1, <2>3, <2>7, <3>4, <3>5, <3>6, OneSession DEF peer
  <2> QED
    BY <1>0, <1>9, <2>4, <2>5, <2>6, <2>7 DEF EventRest
<1>10. CASE Connected
  <2>1. Callback("onTcpOutConnected", <<>>) /\ pc' = "eventRest" /\ UNCHANGED <<pos, posp>>
    BY <1>10 DEF Connected
  <2> DEFINE e == <<>>
  <2>2. Callback("onTcpOutConnected", e)
    BY <2>1
  <2> HIDE DEF e
  <2>3. TableInv' /\ limit' = limit /\ calls' \in 0 .. AppCalls /\ ret' = ret
    BY <1>a, <2>2, CallbackKeeps
  <2> QED
    BY <2>1, <2>3 DEF LoopInv, Points
<1>11. CASE Overdue
  <2>1. TableInv' /\ limit' = limit
    BY <1>11, Untouched, StillMoves DEF Overdue, tables, peer
  <2> QED
    BY <1>11, <2>1 DEF Overdue, LoopInv, Points, app
<1>12. CASE Reap
  BY <1>12, CloseNextInv DEF Reap, Points
<1> QED
  BY <1>1, <1>2, <1>3, <1>4, <1>5, <1>6, <1>7, <1>8, <1>9, <1>10, <1>11, <1>12 DEF Runtime

LEMMA PeerInv == ASSUME Inv, Peer \/ Age PROVE Inv'
<1> USE DEF Inv
<1>1. CASE Peer
  <2>1. NetMoves /\ UNCHANGED <<tables, loop, app>>
    BY <1>1 DEF Peer, PeerConnect, Resolve, PeerSend, PeerFin, PeerReset, SetNet, NetMoves,
                TableInv, Sockets
  <2> QED
    BY <2>1, Untouched, Stays DEF tables, loop, app
<1>2. CASE Age
  <2>1. PICK k \in TcpFds : sess' = [sess EXCEPT ![k].late = "old"]
    BY <1>2 DEF Age, TableInv, Sessions
  <2> DEFINE t == [sess[k] EXCEPT !.late = "old"]
  <2>2. IsSession(t) /\ t.conn = sess[k].conn
    BY SessionParts, SessionConns DEF TableInv, Sessions
  <2>3. sess' = [sess EXCEPT ![k] = t]
    BY <2>1
  <2> HIDE DEF t
  <2>4. TableInv'
    BY <1>2, <2>2, <2>3, OneSession DEF Age, peer
  <2> QED
    BY <1>2, <2>4, Stays DEF Age, loop, app
<1> QED
  BY <1>1, <1>2

LEMMA InitInv == Init => Inv
<1> SUFFICES ASSUME Init PROVE Inv
  OBVIOUS
<1>1. limit \in SIZE_MAX_FD /\ limit \in Nat /\ limit >= 2 /\ limit <= INT32_MAX - 2
  BY KeysAssumption DEF Init, InitFds
<1> DEFINE after(k) == IF k + 1 = INT32_MAX THEN 1 ELSE k + 1
           ep == after(FirstFd)
           ls == after(ep)
<1>2. ep \in Keys /\ ls \in Keys /\ ep # ls
  BY <1>1, KeysAssumption DEF Keys
<1>3. /\ nextfd = ls
      /\ fds = [k \in {ep, ls} |->
                  [type |-> IF k = ep THEN "fd_epoll" ELSE "fd_listen",
                   conn |-> NoConn,
                   pollevents |-> IF k = ep THEN {} ELSE {"EPOLLIN"}]]
  BY DEF Init, InitFds
<1> HIDE DEF ep, ls
<1>4. Table
  <2>1. fds \in [DOMAIN fds -> Entries]
    BY <1>3 DEF Entries, FdTypes
  <2>2. IsFiniteSet({ep, ls}) /\ Cardinality({ep, ls}) <= 2
    <3>1. IsFiniteSet({ep}) /\ Cardinality({ep}) = 1 /\ {ep, ls} = {ep} \cup {ls}
      BY FS_Singleton
    <3>2. IsFiniteSet({ep} \cup {ls}) /\ Cardinality({ep} \cup {ls}) <= 2
      BY <3>1, FS_AddElement
    <3> QED
      BY <3>1, <3>2
  <2>3. Cardinality(DOMAIN fds) <= limit
    <3>1. Cardinality({ep, ls}) \in Nat /\ DOMAIN fds = {ep, ls}
      BY <1>3, <2>2, FS_CardinalityType
    <3> QED
      BY <1>1, <2>2, <3>1
  <2> QED
    BY <1>1, <1>2, <1>3, <2>1, <2>2, <2>3, KeysAssumption DEF Table, IsTcp
<1>5. TcpFds = {}
  BY <1>3 DEF TcpFds
<1>6. Sessions
  BY <1>5 DEF Sessions, Init
<1>7. Sockets
  BY <1>5 DEF Sockets, Init
<1>8. Lists(chain, TcpFds)
  BY <1>5 DEF Lists, Init
<1>9. LoopInv
  BY <1>1, NetAssumption DEF LoopInv, Init, Points
<1> QED
  BY <1>4, <1>6, <1>7, <1>8, <1>9 DEF Inv, TableInv

LEMMA StutterInv == ASSUME Inv, UNCHANGED vars PROVE Inv'
<1>1. TableInv' /\ limit' = limit
  BY Untouched, StillMoves DEF Inv, vars, tables, peer
<1> QED
  BY <1>1, Stays DEF Inv, vars, loop, app

LEMMA InvTypes == Inv => TypeOK
  BY DEF Inv, TableInv, Table, Sessions, Sockets, LoopInv, TypeOK, Entries, IsSession

LEMMA InvOneEach == Inv => OneEach
<1> SUFFICES ASSUME Inv PROVE OneEach
  OBVIOUS
<1>1. TypeOK
  BY InvTypes
<1>2. DOMAIN sess = TcpFds
  BY DEF Inv, TableInv, Sessions
<1>3. ToSet(chain) = TcpFds /\ Len(chain) = Cardinality(TcpFds)
  BY ListLength DEF Inv, TableInv
<1> QED
  BY <1>1, <1>2, <1>3 DEF Inv, TableInv, Sessions, Sockets, OneEach

LEMMA Invariance == Spec => []Inv
<1>1. Inv /\ [Next]_vars => Inv'
  BY HandlerInv, RuntimeInv, PeerInv, StutterInv DEF Next
<1> QED
  BY <1>1, InitInv, PTL DEF Spec

\* The table of descriptors, the map of sessions with its hash chain and the
\* sockets of the system stay in step, through every callback, early return and
\* nested close, for every number of connections, keys and calls.
THEOREM TablesStayInStep == Spec => []OneEach
  BY Invariance, InvOneEach, PTL

-----------------------------------------------------------------------------
(* No key is handed out twice.  While fewer connections were made than there *)
(* are keys, the keys that were handed out are those from FirstFd on, around  *)
(* the end of the range, to nextfd.                                          *)

\* How far a key is from the first one that was handed out.
Turn(k) == (k - FirstFd - 1) % (INT32_MAX - 1)

Met == {c \in Conns : sock[c] # "none"}

HandedOut ==
    /\ Turn(nextfd) <= 1 + Cardinality(Met)
    /\ \A k \in DOMAIN fds : Turn(k) <= Turn(nextfd)

\* Key k, noted together with connection c, names no other connection.
Means(k, c) ==
    /\ k \in Keys => Turn(k) <= Turn(nextfd)
    /\ k \in DOMAIN fds => fds[k].conn = c

Owners == Conns \cup {NoConn}
Refs == {r \in [fd : Int, conn : Owners] : Means(r.fd, r.conn)}
Calls == {r \in [at : {"closefd", "onDisconnect", "drop", "onDisconnected", "postsend",
                       "domessage", "domessageDone"},
                 fd : Int, conn : Owners, err : Int] : Means(r.fd, r.conn)}
Events == {r \in [fd : Int, conn : Owners, events : SUBSET {"EPOLLIN", "EPOLLOUT", "EPOLLERR"}] :
              Means(r.fd, r.conn)}

Noted ==
    /\ cur \in Refs
    /\ dels \in Seq(Refs)
    /\ evts \in Seq(Events)
    /\ stack \in Seq(Calls)
    /\ pc \in {"scanDels", "reap"} => dels # <<>>

KeyInv == HandedOut /\ Noted

\* There is a key for each connection beside those of the epoll descriptor and of
\* the listening socket.
FewConns == IsFiniteSet(Conns) /\ Cardinality(Conns) <= INT32_MAX - 3

-----------------------------------------------------------------------------
(* Turns.                                                                    *)

LEMMA Modulo ==
    ASSUME NEW M \in Nat, M > 0, NEW x \in Int
    PROVE  /\ x % M \in 0 .. M - 1
           /\ x \in 0 .. M - 1 => x % M = x
           /\ x \in -M .. -1 => x % M = x + M
  OBVIOUS

\* The key after k, around the end of the range.
After(k) == IF k = INT32_MAX - 1 THEN 1 ELSE k + 1

LEMMA TurnType ==
    ASSUME INT32_MAX \in Nat, INT32_MAX >= 4, NEW k \in Keys
    PROVE  Turn(k) \in 0 .. INT32_MAX - 2
<1>1. k - FirstFd - 1 \in Int /\ INT32_MAX - 1 \in Nat /\ INT32_MAX - 1 > 0
  BY KeysAssumption DEF Keys
<1> QED
  BY <1>1, Modulo DEF Turn

\* The turns go up by one, until the last key.
LEMMA NextTurn ==
    ASSUME INT32_MAX \in Nat, INT32_MAX >= 4, NEW k \in Keys, Turn(k) < INT32_MAX - 2
    PROVE  After(k) \in Keys /\ Turn(After(k)) = Turn(k) + 1
<1> DEFINE M == INT32_MAX - 1
           x == k - FirstFd - 1
<1>1. M \in Nat /\ M >= 3 /\ x \in Int /\ k \in 1 .. M /\ FirstFd \in 0 .. M
  BY KeysAssumption DEF Keys
<1>2. After(k) \in Keys
  BY <1>1 DEF After, Keys
<1>3. x \in 0 .. M - 1 => Turn(k) = x
  BY <1>1, Modulo DEF Turn
<1>4. x \in -M .. -1 => Turn(k) = x + M
  BY <1>1, Modulo DEF Turn
<1>5. CASE k < M
  <2>1. After(k) - FirstFd - 1 = x + 1
    BY <1>1, <1>5 DEF After
  <2>2. CASE x \in 0 .. M - 1
    <3>1. x + 1 \in 0 .. M - 1
      BY <1>1, <1>3, <2>2
    <3>2. (x + 1) % M = x + 1
      BY <1>1, <3>1, Modulo
    <3> QED
      BY <1>2, <1>3, <2>1, <2>2, <3>2 DEF Turn
  <2>3. CASE x = -1
    <3>1. 0 % M = 0
      BY <1>1, Modulo
    <3>2. Turn(k) = M - 1
      BY <1>1, <1>4, <2>3
    <3> QED
      BY <1>1, <3>2
  <2>4. CASE x \in -M .. -2
    <3>1. x + 1 \in -M .. -1
      BY <1>1, <2>4
    <3>2. (x + 1) % M = (x + 1) + M
      BY <1>1, <3>1, Modulo
    <3> QED
      BY <1>1, <1>2, <1>4, <2>1, <2>4, <3>2 DEF Turn
  <2> QED
    BY <1>1, <2>2, <2>3, <2>4
<1>6. CASE k = M
  <2>1. After(k) = 1 /\ x = M - FirstFd - 1 /\ After(k) - FirstFd - 1 = -FirstFd
    BY <1>1, <1>6 DEF After
  <2>2. CASE FirstFd = 0
    <3>1. Turn(k) = M - 1
      BY <1>1, <1>3, <2>1, <2>2
    <3> QED
      BY <1>1, <3>1
  <2>3. CASE FirstFd = M
    <3>1. Turn(k) = M - 1
      BY <1>1, <1>4, <2>1, <2>3
    <3> QED
      BY <1>1, <3>1
  <2>4. CASE FirstFd \in 1 .. M - 1
    <3>1. (-FirstFd) % M = (-FirstFd) + M
      BY <1>1, <2>4, Modulo
    <3>2. Turn(k) = M - FirstFd - 1
      BY <1>1, <1>3, <2>1, <2>4
    <3> QED
      BY <1>1, <1>2, <2>1, <3>1, <3>2 DEF Turn
  <2> QED
    BY <1>1, <2>2, <2>3, <2>4
<1> QED
  BY <1>1, <1>5, <1>6

\* While there are keys that were not handed out, nextfd() finds the next one.
LEMMA FreeIsNext ==
    ASSUME Table, ~Full, HandedOut, Turn(nextfd) < INT32_MAX - 2
    PROVE  /\ FirstFree \in Keys
           /\ Turn(FirstFree) = Turn(nextfd) + 1
<1> DEFINE M == INT32_MAX - 1
           away(k) == (k - nextfd - 1) % M
           j == After(nextfd)
<1>1. INT32_MAX \in Nat /\ INT32_MAX >= 4
  BY KeysAssumption DEF Table
<1>2. nextfd \in Keys /\ M \in Nat /\ M >= 3 /\ Keys = 1 .. M
  BY <1>1 DEF Table, Keys
<1>3. j \in Keys /\ Turn(j) = Turn(nextfd) + 1 /\ Turn(nextfd) \in Int
  BY <1>1, <1>2, NextTurn, TurnType
<1>4. j \notin DOMAIN fds
  BY <1>3 DEF HandedOut
<1>5. away(j) = 0
  <2>1. nextfd < M => j - nextfd - 1 = 0
    BY <1>2 DEF After
  <2>2. nextfd = M => j - nextfd - 1 = -M
    BY <1>2 DEF After
  <2>3. 0 % M = 0 /\ (-M) % M = -M + M
    BY <1>2, Modulo
  <2> QED
    BY <1>2, <2>1, <2>2, <2>3
<1>6. \A k \in Keys : away(k) \in Nat /\ (away(k) = 0 => k = j)
  <2> TAKE k \in Keys
  <2> DEFINE x == k - nextfd - 1
  <2>1. x \in -M .. M - 2 /\ x \in Int
    BY <1>2
  <2>2. x \in 0 .. M - 1 => x % M = x
    BY <1>2, <2>1, Modulo
  <2>3. x \in -M .. -1 => x % M = x + M
    BY <1>2, <2>1, Modulo
  <2>4. x % M \in 0 .. M - 1
    BY <1>2, <2>1, Modulo
  <2>5. x % M = 0 => x = 0 \/ x = -M
    BY <1>2, <2>1, <2>2, <2>3
  <2>6. x = 0 => k = nextfd + 1 /\ nextfd # M
    BY <1>2
  <2>7. x = -M => k = 1 /\ nextfd = M
    BY <1>2
  <2> QED
    BY <1>2, <2>4, <2>5, <2>6, <2>7 DEF After
<1> HIDE DEF away, j
<1>7. FirstFree = CHOOSE k \in Keys \ DOMAIN fds : \A i \in Keys \ DOMAIN fds : away(k) <= away(i)
  BY DEF FirstFree, away
<1>8. j \in Keys \ DOMAIN fds /\ \A i \in Keys \ DOMAIN fds : away(j) <= away(i)
  BY <1>3, <1>4, <1>5, <1>6
<1>9. /\ FirstFree \in Keys \ DOMAIN fds
      /\ \A i \in Keys \ DOMAIN fds : away(FirstFree) <= away(i)
  BY <1>7, <1>8
<1>10. FirstFree = j
  BY <1>5, <1>6, <1>8, <1>9
<1> QED
  BY <1>3, <1>10

-----------------------------------------------------------------------------
(* What is noted stays true while keys are given and given back.             *)

Onward ==
    /\ HandedOut'
    /\ Refs \subseteq Refs' /\ Calls \subseteq Calls' /\ Events \subseteq Events'

LEMMA Bounds ==
    ASSUME Table
    PROVE  /\ INT32_MAX \in Nat /\ INT32_MAX >= 4 /\ limit \in Nat
           /\ \A k \in Keys : Turn(k) \in 0 .. INT32_MAX - 2
<1>1. INT32_MAX \in Nat /\ INT32_MAX >= 4 /\ limit \in Nat
  BY KeysAssumption DEF Table
<1> QED
  BY <1>1, TurnType

LEMMA MetFinite ==
    ASSUME FewConns
    PROVE  /\ \A S \in SUBSET Conns :
                 IsFiniteSet(S) /\ Cardinality(S) \in Nat /\ Cardinality(S) <= Cardinality(Conns)
           /\ Cardinality(Conns) \in Nat
  BY FS_Subset, FS_CardinalityType DEF FewConns

\* If what the pairs mean stays true, what was noted stays noted.
LEMMA NotedStays ==
    ASSUME \A k \in Int : \A c \in Owners : Means(k, c) => Means(k, c)'
    PROVE  Refs \subseteq Refs' /\ Calls \subseteq Calls' /\ Events \subseteq Events'
<1>1. Refs \subseteq Refs'
  BY DEF Refs, Owners
<1>2. Calls \subseteq Calls'
  BY DEF Calls, Owners
<1>3. Events \subseteq Events'
  BY DEF Events, Owners
<1> QED
  BY <1>1, <1>2, <1>3

\* No key is handed out.
LEMMA KeysStay ==
    ASSUME TableInv, HandedOut, FewConns,
           DOMAIN fds' \subseteq DOMAIN fds,
           \A k \in DOMAIN fds' : fds'[k].conn = fds[k].conn,
           nextfd' = nextfd, Met \subseteq Met'
    PROVE  Onward
<1>1. \A k \in Int : \A c \in Owners : Means(k, c) => Means(k, c)'
  BY DEF Means, Turn
<1>2. HandedOut'
  <2>1. Met \in SUBSET Met' /\ Met' \in SUBSET Conns
    BY DEF Met
  <2>2. IsFiniteSet(Met') /\ Cardinality(Met') \in Nat
    BY <2>1, MetFinite
  <2>3. Cardinality(Met) <= Cardinality(Met') /\ Cardinality(Met) \in Nat
    BY <2>1, <2>2, FS_Subset, MetFinite DEF Met
  <2>4. Turn(nextfd) \in Int
    BY Bounds DEF TableInv, Table
  <2> QED
    BY <2>2, <2>3, <2>4 DEF HandedOut, Turn
<1> QED
  BY <1>1, <1>2, NotedStays DEF Onward

\* A connection not met before gets a key.
LEMMA KeyGiven ==
    ASSUME TableInv, HandedOut, FewConns, ~Full, NEW c \in Conns, NEW type,
           sock[c] = "none", SetFd(FirstFree, type, c), nextfd' = FirstFree,
           sock' = [sock EXCEPT ![c] = "open"]
    PROVE  Onward
<1>1. INT32_MAX \in Nat /\ \A k \in Keys : Turn(k) \in Int
  BY Bounds DEF TableInv
<1>2. /\ Met' = Met \cup {c} /\ c \notin Met
      /\ Met \in SUBSET Conns /\ Met' \in SUBSET Conns
  BY DEF Met, TableInv, Sockets
<1>3. /\ Cardinality(Met') = Cardinality(Met) + 1
      /\ Cardinality(Met') <= Cardinality(Conns)
      /\ Cardinality(Met) \in Nat /\ Cardinality(Conns) \in Nat
  BY <1>2, MetFinite, FS_AddElement
<1>4. nextfd \in Keys /\ Turn(nextfd) < INT32_MAX - 2
  BY <1>1, <1>3 DEF TableInv, Table, HandedOut, FewConns
<1>5. FirstFree \in Keys /\ Turn(FirstFree) = Turn(nextfd) + 1
  BY <1>4, FreeIsNext DEF TableInv
<1>6. /\ nextfd' \in Keys /\ Turn(nextfd') = Turn(nextfd) + 1
      /\ \A k : Turn(k)' = Turn(k)
      /\ Turn(nextfd)' = Turn(nextfd')
  BY <1>5 DEF Turn
<1>7. /\ DOMAIN fds' = DOMAIN fds \cup {nextfd'}
      /\ \A k \in DOMAIN fds : k # nextfd' => fds'[k] = fds[k]
  BY DEF SetFd
<1>8. DOMAIN fds \subseteq Keys
  BY DEF TableInv, Table
<1>9. HandedOut'
  <2>1. Turn(nextfd') <= 1 + Cardinality(Met')
    BY <1>1, <1>3, <1>4, <1>6 DEF HandedOut
  <2>2. \A k \in DOMAIN fds' : Turn(k) <= Turn(nextfd')
    BY <1>1, <1>4, <1>6, <1>7, <1>8 DEF HandedOut
  <2> QED
    BY <1>6, <2>1, <2>2 DEF HandedOut
<1>10. ASSUME NEW k \in Int, NEW d \in Owners, Means(k, d) PROVE Means(k, d)'
  <2>1. k \in Keys => Turn(k) <= Turn(nextfd) /\ Turn(k) <= Turn(nextfd')
    BY <1>1, <1>4, <1>6, <1>10 DEF Means
  <2>2. k \in Keys => k # nextfd'
    BY <1>1, <1>4, <1>6, <2>1
  <2>3. k \in DOMAIN fds' => fds'[k].conn = d
    BY <1>6, <1>7, <1>8, <1>10, <2>2 DEF Means
  <2>4. k \in Keys' => Turn(k)' <= Turn(nextfd)'
    BY <1>6, <2>1 DEF Keys
  <2> QED
    BY <2>3, <2>4 DEF Means
<1> QED
  BY <1>9, <1>10, NotedStays DEF Onward

-----------------------------------------------------------------------------
(* What is noted is true when it is noted.                                   *)

LEMMA KeyHere ==
    ASSUME TableInv, HandedOut, NEW k \in DOMAIN fds
    PROVE  k \in Int /\ ConnOf(k) \in Owners /\ Means(k, ConnOf(k))
<1>1. k \in Keys /\ k \in Int
  BY KeysAssumption DEF TableInv, Table, Keys
<1>2. fds[k].conn \in Owners
  BY DEF TableInv, Table, Entries, Owners
<1> QED
  BY <1>1, <1>2 DEF ConnOf, Means, HandedOut

LEMMA RefHere ==
    ASSUME TableInv, HandedOut, NEW k \in DOMAIN fds
    PROVE  Ref(k) \in Refs
  BY KeyHere DEF Ref, Refs

LEMMA CallHere ==
    ASSUME TableInv, HandedOut, NEW k \in DOMAIN fds, NEW err \in Int,
           NEW at \in {"postsend", "closefd", "domessage"}
    PROVE  Call(at, k, err) \in Calls
  BY KeyHere DEF Call, Calls

LEMMA NoRefIsRef == ASSUME TableInv PROVE NoRef \in Refs
<1>1. 0 \notin Keys /\ 0 \notin DOMAIN fds
  BY KeysAssumption DEF TableInv, Table, Keys
<1> QED
  BY <1>1 DEF NoRef, Refs, Means, Owners

LEMMA CloseIs ==
    ASSUME NEW r, r \in Refs \/ r \in Events, NEW err \in Int
    PROVE  Close(r, err) \in Calls
  BY DEF Close, Calls, Refs, Events

LEMMA SeqPut ==
    ASSUME NEW S, NEW x \in S, NEW s \in Seq(S)
    PROVE  <<x>> \o s \in Seq(S) /\ Len(<<x>> \o s) = Len(s) + 1
  OBVIOUS

\* The calls under way go on.
LEMMA Stack ==
    ASSUME Noted, stack # <<>>
    PROVE  /\ Top \in Calls /\ Below \in Seq(Calls)
           /\ \A at \in {"drop", "onDisconnect", "onDisconnected", "domessageDone"} :
                 TopAt(at) \in Seq(Calls)
<1>1. Top \in Calls /\ Below \in Seq(Calls)
  BY HeadTailProperties DEF Noted, Top, Below
<1>2. ASSUME NEW at \in {"drop", "onDisconnect", "onDisconnected", "domessageDone"}
      PROVE  TopAt(at) \in Seq(Calls)
  <2> DEFINE r == [Top EXCEPT !.at = at]
  <2>1. r \in Calls
    BY <1>1 DEF Calls
  <2> HIDE DEF r
  <2>2. <<r>> \o Below \in Seq(Calls)
    BY <1>1, <2>1, SeqPut
  <2> QED
    BY <2>2 DEF TopAt, r
<1> QED
  BY <1>1, <1>2

\* What is noted after a step, in words of before it.
LEMMA NotedOn ==
    ASSUME Onward, cur' \in Refs, dels' \in Seq(Refs), evts' \in Seq(Events),
           stack' \in Seq(Calls), pc' \in {"scanDels", "reap"} => dels' # <<>>
    PROVE  KeyInv'
<1>1. cur' \in Refs'
  BY DEF Onward
<1>2. dels' \in Seq(Refs')
  BY SeqMonotonic DEF Onward
<1>3. evts' \in Seq(Events')
  BY SeqMonotonic DEF Onward
<1>4. stack' \in Seq(Calls')
  BY SeqMonotonic DEF Onward
<1> QED
  BY <1>1, <1>2, <1>3, <1>4 DEF Onward, KeyInv, Noted

\* Whatever the application calls from a callback, over the calls in st.
LEMMA AppNotes ==
    ASSUME TableInv, HandedOut, FewConns, NEW cb, NEW st \in Seq(Calls), AppCall(cb, st)
    PROVE  Onward /\ stack' \in Seq(Calls)
<1>1. DOMAIN sess \subseteq DOMAIN fds
  BY DEF TableInv, Sessions, TcpFds
<1>2. ASSUME UNCHANGED <<fds, nextfd, sock>> PROVE Onward
  BY <1>2, KeysStay DEF Met
<1>3. CASE AppSend(st)
  <2>1. Onward
    BY <1>2, <1>3 DEF AppSend
  <2>2. PICK k \in DOMAIN sess : stack' = st \/ stack' = <<Call("postsend", k, 0)>> \o st
    BY <1>3 DEF AppSend
  <2>3. Call("postsend", k, 0) \in Calls
    BY <1>1, CallHere
  <2> QED
    BY <2>1, <2>2, <2>3, SeqPut
<1>4. CASE AppClose(st)
  <2>1. Onward
    BY <1>2, <1>4 DEF AppClose, tables
  <2>2. PICK k \in DOMAIN sess : stack' = <<Call("closefd", k, 0)>> \o st
    BY <1>4 DEF AppClose
  <2>3. Call("closefd", k, 0) \in Calls
    BY <1>1, CallHere
  <2> QED
    BY <2>1, <2>2, <2>3, SeqPut
<1>5. CASE AppDelay(st)
  BY <1>2, <1>5 DEF AppDelay
<1>6. CASE AppConnect(st)
  <2>1. PICK c \in Conns :
          /\ net[c] = "none" /\ ~Full
          /\ SetFd(FirstFree, "fd_tcpout", c)
          /\ nextfd' = FirstFree
          /\ sock' = [sock EXCEPT ![c] = "open"]
    BY <1>6 DEF AppConnect
  <2>2. sock[c] = "none"
    BY <2>1 DEF TableInv, Sockets
  <2>3. Onward
    BY <2>1, <2>2, KeyGiven
  <2> QED
    BY <1>6, <2>3 DEF AppConnect
<1> QED
  BY <1>3, <1>4, <1>5, <1>6 DEF AppCall

LEMMA CallbackNotes ==
    ASSUME TableInv, HandedOut, FewConns, NEW cb, NEW st \in Seq(Calls), Callback(cb, st)
    PROVE  Onward /\ stack' \in Seq(Calls)
<1>1. CASE AppCall(cb, st)
  BY <1>1, AppNotes
<1>2. CASE stack' = st /\ UNCHANGED tables
  BY <1>2, KeysStay DEF Met, tables
<1> QED
  BY <1>1, <1>2 DEF Callback

-----------------------------------------------------------------------------
(* The actions keep what is noted true.                                      *)

LEMMA NothingGiven ==
    ASSUME TableInv, HandedOut, FewConns, UNCHANGED <<fds, nextfd, sock>>
    PROVE  Onward
  BY KeysStay DEF Met

LEMMA TriggerKeeps ==
    ASSUME TableInv, NEW k \in TcpFds, NEW s
    PROVE  /\ DOMAIN Trigger(k, s) = DOMAIN fds
           /\ \A j \in DOMAIN fds : Trigger(k, s)[j].conn = fds[j].conn
  BY DEF TableInv, Table, Entries, Trigger, TcpFds

\* The calls under way.
LEMMA HandlerNotes == ASSUME Inv, KeyInv, FewConns, Handler PROVE KeyInv'
<1> USE DEF KeyInv
<1> DEFINE k == Top.fd
<1>0. TableInv /\ DOMAIN sess = TcpFds /\ TcpFds \subseteq DOMAIN fds
  BY DEF Inv, TableInv, Sessions, TcpFds
<1>a. stack # <<>>
  BY DEF Handler, Closefd, OnDisconnect, Drop, OnDisconnected, PostSend, DoMessage,
         DoMessageDone, Running
<1>b. /\ Top \in Calls /\ Below \in Seq(Calls)
      /\ TopAt("drop") \in Seq(Calls) /\ TopAt("onDisconnect") \in Seq(Calls)
      /\ TopAt("onDisconnected") \in Seq(Calls) /\ TopAt("domessageDone") \in Seq(Calls)
  BY <1>a, Stack
<1>c. ASSUME Onward, UNCHANGED loop, stack' \in Seq(Calls) PROVE KeyInv'
  <2>1. /\ cur' \in Refs /\ dels' \in Seq(Refs) /\ evts' \in Seq(Events)
        /\ pc' \in {"scanDels", "reap"} => dels' # <<>>
    BY <1>c DEF Noted, loop
  <2> QED
    BY <1>c, <2>1, NotedOn
<1>1. CASE Closefd
  <2>1. Onward /\ UNCHANGED loop
    BY <1>0, <1>1, NothingGiven DEF Closefd
  <2>2. CASE stack' = Below \/ stack' = TopAt("onDisconnect")
    BY <1>b, <1>c, <2>1, <2>2
  <2>3. CASE k \in DOMAIN fds /\ stack' = <<Call("postsend", k, 0)>> \o TopAt("onDisconnect")
    <3>1. Call("postsend", k, 0) \in Calls
      BY <1>0, <2>3, CallHere
    <3>2. stack' \in Seq(Calls)
      BY <1>b, <2>3, <3>1, SeqPut
    <3> QED
      BY <1>c, <2>1, <3>2
  <2> QED
    BY <1>1, <2>2, <2>3 DEF Closefd
<1>2. CASE OnDisconnect
  BY <1>0, <1>2, <1>b, <1>c, CallbackNotes DEF OnDisconnect
<1>3. CASE Drop
  <2>1. DOMAIN fds' \subseteq DOMAIN fds /\ \A j \in DOMAIN fds' : fds'[j].conn = fds[j].conn
    BY <1>3 DEF Drop, Without
  <2>2. Met \subseteq Met'
    BY <1>0, <1>3 DEF Drop, Met, TableInv, Sockets
  <2>3. Onward
    BY <1>0, <1>3, <2>1, <2>2, KeysStay DEF Drop
  <2>4. stack' \in Seq(Calls) /\ UNCHANGED loop
    BY <1>3, <1>b DEF Drop
  <2> QED
    BY <1>c, <2>3, <2>4
<1>4. CASE OnDisconnected
  BY <1>0, <1>4, <1>b, <1>c, CallbackNotes DEF OnDisconnected
<1>5. CASE PostSend
  <2>1. UNCHANGED <<nextfd, sock, loop>>
    BY <1>5 DEF PostSend
  <2>2. CASE stack' = Below /\ fds' = fds
    <3>1. Onward
      BY <1>0, <2>1, <2>2, NothingGiven
    <3> QED
      BY <1>b, <1>c, <2>1, <2>2, <3>1
  <2>3. CASE k \in TcpFds /\ stack' = <<Call("closefd", k, 102)>> \o Below /\ fds' = fds
    <3>1. Call("closefd", k, 102) \in Calls
      BY <1>0, <2>3, CallHere
    <3>2. stack' \in Seq(Calls)
      BY <1>b, <2>3, <3>1, SeqPut
    <3>3. Onward
      BY <1>0, <2>1, <2>3, NothingGiven
    <3> QED
      BY <1>c, <2>1, <3>2, <3>3
  <2>4. CASE k \in TcpFds /\ stack' = Below /\ fds' = Trigger(k, sess'[k])
    <3>1. Onward
      BY <1>0, <2>1, <2>4, TriggerKeeps, KeysStay DEF Met
    <3> QED
      BY <1>b, <1>c, <2>1, <2>4, <3>1
  <2> QED
    BY <1>0, <1>5, <2>2, <2>3, <2>4 DEF PostSend
<1>6. CASE DoMessage
  <2>1. CASE stack' = Below /\ UNCHANGED tables
    <3>1. Onward
      BY <1>0, <2>1, NothingGiven DEF tables
    <3> QED
      BY <1>6, <1>b, <1>c, <2>1, <3>1 DEF DoMessage
  <2>2. CASE AppCall("domessage", TopAt("domessageDone"))
    <3>1. Onward /\ stack' \in Seq(Calls)
      BY <1>0, <1>b, <2>2, AppNotes
    <3> QED
      BY <1>6, <1>c, <3>1 DEF DoMessage
  <2> QED
    BY <1>6, <2>1, <2>2 DEF DoMessage
<1>7. CASE DoMessageDone
  <2>1. Onward /\ UNCHANGED loop /\ stack' = Below
    BY <1>0, <1>7, NothingGiven DEF DoMessageDone, tables
  <2> QED
    BY <1>b, <1>c, <2>1
<1> QED
  BY <1>1, <1>2, <1>3, <1>4, <1>5, <1>6, <1>7 DEF Handler

\* Each of a finite set, in some order.
LEMMA Orders ==
    ASSUME NEW S, IsFiniteSet(S), NEW order \in SetToSeqs(S)
    PROVE  /\ DOMAIN order = 1 .. Cardinality(S) /\ Cardinality(S) \in Nat
           /\ \A i \in DOMAIN order : order[i] \in S
           /\ Cardinality(S) = 0 => S = {}
  BY FS_CardinalityType, FS_EmptySet DEF SetToSeqs

LEMMA FdsFinite == ASSUME TableInv PROVE \A S \in SUBSET DOMAIN fds : IsFiniteSet(S)
  BY FS_Subset DEF TableInv, Table

LEMMA ReadyIs ==
    ASSUME NEW f, f.pollevents \subseteq {"EPOLLIN", "EPOLLOUT"}
    PROVE  Ready(f) \subseteq {"EPOLLIN", "EPOLLOUT", "EPOLLERR"}
  BY DEF Ready

LEMMA OneCall == ASSUME NEW r \in Calls PROVE <<r>> \in Seq(Calls)
  OBVIOUS

LEMMA CloseNextNotes ==
    ASSUME Inv, KeyInv, FewConns, NEW at \in {"scanDels", "reap"}, NEW next \in {"wait", "timer"},
           CloseNext(at, next)
    PROVE  KeyInv'
<1> USE DEF KeyInv, Noted
<1>1. TableInv /\ UNCHANGED <<fds, nextfd, sock, cur, evts>> /\ dels # <<>>
  BY DEF CloseNext, AtLoop, Inv, tables
<1>2. Onward
  BY <1>1, NothingGiven
<1>3. Head(dels) \in Refs /\ Tail(dels) \in Seq(Refs) /\ Len(Tail(dels)) = Len(dels) - 1
  BY <1>1, HeadTailProperties
<1>4. stack' = <<Close(Head(dels), 0)>> /\ Close(Head(dels), 0) \in Calls
  BY <1>3, CloseIs DEF CloseNext
<1>5. stack' \in Seq(Calls)
  BY <1>4, OneCall
<1>6. dels' = Tail(dels) /\ dels' \in Seq(Refs)
  BY <1>3 DEF CloseNext
<1>7. pc' \in {"scanDels", "reap"} => dels' # <<>>
  <2>1. Len(dels) \in Nat /\ (pc' \in {"scanDels", "reap"} => Len(dels) # 1)
    BY DEF CloseNext
  <2>2. Len(<<>>) = 0
    OBVIOUS
  <2>3. pc' \in {"scanDels", "reap"} => Len(dels') # 0
    BY <1>3, <1>6, <2>1
  <2> QED
    BY <2>2, <2>3
<1> QED
  BY <1>1, <1>2, <1>5, <1>6, <1>7, NotedOn

\* One pass of runtime().
LEMMA RuntimeNotes == ASSUME Inv, KeyInv, FewConns, Runtime PROVE KeyInv'
<1> USE DEF KeyInv
<1>0. TableInv /\ DOMAIN sess = TcpFds /\ TcpFds \subseteq DOMAIN fds
  BY DEF Inv, TableInv, Sessions, TcpFds
<1>a. cur \in Refs /\ dels \in Seq(Refs) /\ evts \in Seq(Events) /\ stack \in Seq(Calls)
  BY DEF Noted
<1>b. ASSUME evts # <<>>
      PROVE  /\ Event \in Events /\ Tail(evts) \in Seq(Events)
             /\ \A err \in Int : <<Close(Event, err)>> \in Seq(Calls)
  <2>1. Event \in Events /\ Tail(evts) \in Seq(Events)
    BY <1>a, <1>b, HeadTailProperties DEF Event
  <2> QED
    BY <2>1, CloseIs, OneCall
<1>c. ASSUME Onward, UNCHANGED <<cur, dels>>, stack' \in Seq(Calls), evts' \in Seq(Events),
             pc' \notin {"scanDels", "reap"}
      PROVE  KeyInv'
  BY <1>a, <1>c, NotedOn
<1>1. CASE TimerJob
  <2> DEFINE e == <<>>
  <2>1. Callback("timerjob", e) /\ pc' = "scan" /\ UNCHANGED <<cur, dels, evts>>
    BY <1>1 DEF TimerJob
  <2>2. e \in Seq(Calls)
    OBVIOUS
  <2> HIDE DEF e
  <2>3. Onward /\ stack' \in Seq(Calls)
    BY <1>0, <2>1, <2>2, CallbackNotes
  <2> QED
    BY <1>a, <1>c, <2>1, <2>3
<1>2. CASE Scan
  <2>1. Onward
    BY <1>0, <1>2, NothingGiven DEF Scan
  <2>2. evts' = evts
    BY <1>2 DEF Scan
  <2>3. CASE pos \notin 1 .. Len(chain)
    <3>1. /\ pc' = IF dels = <<>> THEN "wait" ELSE "scanDels"
          /\ cur' = NoRef /\ dels' = dels /\ stack' = stack
      BY <1>2, <2>3 DEF Scan
    <3>2. NoRef \in Refs
      BY <1>0, NoRefIsRef
    <3> QED
      BY <1>a, <2>1, <2>2, <3>1, <3>2, NotedOn
  <2>4. CASE pos \in 1 .. Len(chain)
    <3> DEFINE k == chain[pos]
    <3>1. k \in DOMAIN fds
      BY <1>0, <2>4 DEF TableInv, Lists
    <3>2. Ref(k) \in Refs /\ Call("domessage", k, 0) \in Calls
      BY <1>0, <3>1, RefHere, CallHere
    <3>3. cur' = Ref(k) /\ (dels' = dels \/ dels' = Append(dels, Ref(k)))
      BY <1>2, <2>4 DEF Scan
    <3>4. dels' \in Seq(Refs)
      <4>1. Append(dels, Ref(k)) \in Seq(Refs)
        BY <1>a, <3>2, AppendProperties
      <4> QED
        BY <1>a, <3>3, <4>1
    <3>5. stack' = stack \/ stack' = <<Call("domessage", k, 0)>>
      BY <1>2, <2>4 DEF Scan, Give
    <3>6. stack' \in Seq(Calls)
      BY <1>a, <3>2, <3>5, OneCall
    <3>7. pc' \in {"scan", "scanned"}
      BY <1>2, <2>4 DEF Scan, AtLoop
    <3> HIDE DEF k
    <3>8. pc' \in {"scanDels", "reap"} => dels' # <<>>
      BY <3>7
    <3> QED
      BY <1>a, <2>1, <2>2, <3>2, <3>3, <3>4, <3>6, <3>8, NotedOn
  <2> QED
    BY <2>3, <2>4
<1>3. CASE Scanned
  <2>1. Onward
    BY <1>0, <1>3, NothingGiven DEF Scanned, tables
  <2>2. /\ UNCHANGED <<cur, evts, stack>> /\ pc' = "scan"
        /\ dels' = dels \/ dels' = Append(dels, cur)
    BY <1>3 DEF Scanned
  <2>3. dels' \in Seq(Refs)
    <3>1. Append(dels, cur) \in Seq(Refs)
      BY <1>a, AppendProperties
    <3> QED
      BY <1>a, <2>2, <3>1
  <2> QED
    BY <1>a, <2>1, <2>2, <2>3, NotedOn
<1>4. CASE ScanDels
  BY <1>4, CloseNextNotes DEF ScanDels
<1>5. ASSUME NEW flow \in BOOLEAN, Wait(flow) PROVE KeyInv'
  <2> DEFINE watched == IF flow THEN FlowControl ELSE fds
             ready == {k \in DOMAIN fds : Ready(watched[k]) # {}}
  <2>1. /\ fds' = watched /\ pc' = "event"
        /\ UNCHANGED <<nextfd, sock, cur, dels, stack>>
    BY <1>5 DEF Wait
  <2>2. /\ watched \in [DOMAIN fds -> Entries]
        /\ \A k \in DOMAIN fds : watched[k].conn = fds[k].conn
    BY <1>0, FlowKeeps DEF TableInv, Table
  <2>3. Onward
    BY <1>0, <2>1, <2>2, KeysStay DEF Met
  <2>4. PICK order \in SetToSeqs(ready) :
          evts' = [i \in DOMAIN order |->
                     [fd |-> order[i], conn |-> ConnOf(order[i]),
                      events |-> Ready(watched[order[i]])]]
    BY <1>5 DEF Wait
  <2>5. IsFiniteSet(ready)
    BY <1>0, FdsFinite
  <2>6. \A k \in ready : [fd |-> k, conn |-> ConnOf(k), events |-> Ready(watched[k])] \in Events
    <3> TAKE k \in ready
    <3>1. k \in Int /\ ConnOf(k) \in Owners /\ Means(k, ConnOf(k))
      BY <1>0, KeyHere
    <3>2. watched[k].pollevents \subseteq {"EPOLLIN", "EPOLLOUT"}
      BY <2>2 DEF Entries
    <3>3. Ready(watched[k]) \in SUBSET {"EPOLLIN", "EPOLLOUT", "EPOLLERR"}
      BY <3>2, ReadyIs
    <3> HIDE DEF watched
    <3> QED
      BY <3>1, <3>3 DEF Events
  <2> HIDE DEF watched, ready
  <2>7. evts' \in Seq(Events)
    <3>1. DOMAIN order = 1 .. Cardinality(ready) /\ Cardinality(ready) \in Nat
      BY <2>5, Orders
    <3>2. \A i \in DOMAIN order : order[i] \in ready
      BY <2>5, Orders
    <3>3. evts' \in [1 .. Cardinality(ready) -> Events]
      BY <2>4, <2>6, <3>1, <3>2
    <3> QED
      BY <3>1, <3>3, SeqDef
  <2> QED
    BY <1>a, <1>c, <2>1, <2>3, <2>7
<1>6. CASE Accept
  <2>1. /\ UNCHANGED <<cur, dels, stack>> /\ pc' = "event"
        /\ evts # <<>> /\ evts' = Tail(evts)
    BY <1>6 DEF Accept, AcceptInto, NextEvent, AtEvent
  <2>2. evts' \in Seq(Events)
    BY <1>b, <2>1
  <2>3. CASE UNCHANGED <<fds, nextfd, sock>>
    BY <1>0, <1>a, <1>c, <2>1, <2>2, <2>3, NothingGiven
  <2>4. ASSUME NEW c \in Backlog, sock' = [sock EXCEPT ![c] = "gone"], UNCHANGED <<fds, nextfd>>
        PROVE  KeyInv'
    <3>1. Met \subseteq Met'
      BY <1>0, <2>4 DEF Met, TableInv, Sockets
    <3>2. Onward
      BY <1>0, <2>4, <3>1, KeysStay
    <3> QED
      BY <1>a, <1>c, <2>1, <2>2, <3>2
  <2>5. ASSUME NEW c \in Backlog, ~Full, SetFd(FirstFree, "fd_tcp", c), nextfd' = FirstFree,
               sock' = [sock EXCEPT ![c] = "open"]
        PROVE  KeyInv'
    <3>1. Onward
      BY <1>0, <2>5, KeyGiven DEF Backlog
    <3> QED
      BY <1>a, <1>c, <2>1, <2>2, <3>1
  <2> QED
    BY <1>6, <2>3, <2>4, <2>5 DEF Accept, AcceptInto
<1>7. CASE Receive
  <2> DEFINE k == Event.fd
  <2>1. Onward /\ UNCHANGED <<cur, dels>> /\ evts # <<>>
    BY <1>0, <1>7, NothingGiven DEF Receive, AtEvent
  <2>2. evts' = evts \/ evts' = Tail(evts)
    BY <1>7 DEF Receive, NextEvent
  <2>3. pc' \in {"event", "eventRest", "eventMsg"}
    BY <1>7 DEF Receive, NextEvent
  <2>4. \/ stack' = stack
        \/ stack' = <<Close(Event, 0)>>
        \/ stack' = <<Close(Event, 102)>>
        \/ k \in DOMAIN sess /\ stack' = <<Call("domessage", k, 0)>>
    BY <1>7 DEF Receive, Give
  <2>5. k \in DOMAIN sess => Call("domessage", k, 0) \in Calls
    BY <1>0, CallHere
  <2>6. stack' \in Seq(Calls)
    <3>1. <<Close(Event, 0)>> \in Seq(Calls) /\ <<Close(Event, 102)>> \in Seq(Calls)
      BY <1>b, <2>1
    <3>2. k \in DOMAIN sess => <<Call("domessage", k, 0)>> \in Seq(Calls)
      BY <2>5, OneCall
    <3> QED
      BY <1>a, <2>4, <3>1, <3>2
  <2> QED
    BY <1>a, <1>b, <1>c, <2>1, <2>2, <2>3, <2>6
<1>8. CASE AfterMessage
  <2>1. Onward /\ UNCHANGED <<cur, dels>> /\ evts # <<>>
    BY <1>0, <1>8, NothingGiven DEF AfterMessage, AtEvent, tables
  <2>2. /\ evts' = evts \/ evts' = Tail(evts)
        /\ pc' \in {"event", "eventRest"}
        /\ stack' = stack \/ stack' = <<Close(Event, 0)>>
    BY <1>8 DEF AfterMessage, NextEvent
  <2>3. Tail(evts) \in Seq(Events) /\ <<Close(Event, 0)>> \in Seq(Calls)
    BY <1>b, <2>1
  <2> QED
    BY <1>a, <1>c, <2>1, <2>2, <2>3
<1>9. CASE EventRest
  <2> DEFINE k == Event.fd
  <2>1. UNCHANGED <<nextfd, sock, cur, dels>> /\ evts # <<>>
    BY <1>9 DEF EventRest, AtEvent
  <2>2. fds' = fds \/ (k \in TcpFds /\ \E s : fds' = Trigger(k, s))
    BY <1>0, <1>9 DEF EventRest
  <2>3. DOMAIN fds' = DOMAIN fds /\ \A j \in DOMAIN fds : fds'[j].conn = fds[j].conn
    BY <1>0, <2>2, TriggerKeeps
  <2>4. Onward
    BY <1>0, <2>1, <2>3, KeysStay DEF Met
  <2>5. evts' = evts \/ evts' = Tail(evts)
    BY <1>9 DEF EventRest, NextEvent
  <2>6. pc' \in {"event", "connected"}
    BY <1>9 DEF EventRest, NextEvent
  <2>7. stack' = stack \/ \E err \in Int : stack' = <<Close(Event, err)>>
    BY <1>9 DEF EventRest
  <2> QED
    BY <1>a, <1>b, <1>c, <2>1, <2>4, <2>5, <2>6, <2>7
<1>10. CASE Connected
  <2> DEFINE e == <<>>
             v == [Event EXCEPT !.events = {}]
  <2>1. /\ Callback("onTcpOutConnected", e) /\ pc' = "eventRest" /\ UNCHANGED <<cur, dels>>
        /\ evts # <<>> /\ evts' = <<v>> \o Tail(evts)
    BY <1>10 DEF Connected, AtEvent
  <2>2. e \in Seq(Calls)
    OBVIOUS
  <2>3. Event \in Events /\ Tail(evts) \in Seq(Events)
    BY <1>b, <2>1
  <2>4. v \in Events
    BY <2>3 DEF Events
  <2> HIDE DEF e, v
  <2>5. Onward /\ stack' \in Seq(Calls)
    BY <1>0, <2>1, <2>2, CallbackNotes
  <2>6. evts' \in Seq(Events)
    BY <2>1, <2>3, <2>4, SeqPut
  <2> QED
    BY <1>c, <2>1, <2>5, <2>6
<1>11. CASE Overdue
  <2>1. Onward /\ UNCHANGED <<cur, evts, stack>>
    BY <1>0, <1>11, NothingGiven DEF Overdue, tables
  <2>2. pc' = IF LateSessions = {} THEN "timer" ELSE "reap"
    BY <1>11 DEF Overdue
  <2>3. PICK late \in SetToSeqs(LateSessions) : dels' = [i \in DOMAIN late |-> Ref(late[i])]
    BY <1>11 DEF Overdue
  <2> DEFINE n == Cardinality(LateSessions)
  <2>4. LateSessions \subseteq DOMAIN fds /\ IsFiniteSet(LateSessions)
    BY <1>0, FdsFinite DEF LateSessions
  <2>5. /\ DOMAIN late = 1 .. n /\ n \in Nat
        /\ \A i \in 1 .. n : late[i] \in LateSessions
        /\ n = 0 => LateSessions = {}
    BY <2>4, Orders
  <2> HIDE DEF n
  <2>6. \A i \in 1 .. n : Ref(late[i]) \in Refs
    BY <1>0, <2>4, <2>5, RefHere
  <2>7. dels' \in [1 .. n -> Refs]
    BY <2>3, <2>5, <2>6
  <2>8. dels' \in Seq(Refs) /\ Len(dels') = n
    BY <2>5, <2>7, SeqDef
  <2>9. pc' \in {"scanDels", "reap"} => dels' # <<>>
    BY <2>2, <2>5, <2>8
  <2> QED
    BY <1>a, <2>1, <2>8, <2>9, NotedOn
<1>12. CASE Reap
  BY <1>12, CloseNextNotes DEF Reap
<1> QED
  BY <1>1, <1>2, <1>3, <1>4, <1>5, <1>6, <1>7, <1>8, <1>9, <1>10, <1>11, <1>12 DEF Runtime

\* Peers and time note nothing.
LEMMA OtherNotes ==
    ASSUME Inv, KeyInv, FewConns, Peer \/ Age \/ UNCHANGED vars
    PROVE  KeyInv'
<1>1. UNCHANGED <<fds, nextfd, sock, loop, stack>>
  BY DEF Peer, Age, vars, tables
<1>2. Onward
  BY <1>1, NothingGiven DEF Inv, KeyInv
<1>3. /\ cur' \in Refs /\ dels' \in Seq(Refs) /\ evts' \in Seq(Events) /\ stack' \in Seq(Calls)
      /\ pc' \in {"scanDels", "reap"} => dels' # <<>>
  BY <1>1 DEF KeyInv, Noted, loop
<1> QED
  BY <1>2, <1>3, NotedOn

LEMMA InitNotes == ASSUME FewConns, Init PROVE KeyInv
<1>1. Inv
  BY InitInv
<1>2. TableInv
  BY <1>1 DEF Inv
<1>3. INT32_MAX \in Nat /\ INT32_MAX >= 4 /\ \A k \in Keys : Turn(k) \in 0 .. INT32_MAX - 2
  BY <1>2, Bounds DEF TableInv
<1> DEFINE first == IF FirstFd = INT32_MAX - 1 THEN 1 ELSE FirstFd + 1
           ls == After(first)
<1>4. nextfd = ls /\ DOMAIN fds = {first, ls}
  BY <1>3, KeysAssumption DEF Init, InitFds, After
<1>5. first \in Keys /\ Turn(first) = 0
  <2>1. FirstFd \in 0 .. INT32_MAX - 1
    BY KeysAssumption
  <2>2. first \in Keys
    BY <1>3, <2>1 DEF Keys
  <2>3. 0 % (INT32_MAX - 1) = 0
    BY <1>3, Modulo
  <2>4. -(INT32_MAX - 1) % (INT32_MAX - 1) = 0
    BY <1>3, Modulo
  <2>5. first - FirstFd - 1 = 0 \/ first - FirstFd - 1 = -(INT32_MAX - 1)
    BY <1>3, <2>1
  <2> QED
    BY <2>2, <2>3, <2>4, <2>5 DEF Turn
<1>6. ls \in Keys /\ Turn(ls) = 1
  BY <1>3, <1>5, NextTurn
<1> HIDE DEF first, ls
<1>7. HandedOut
  <2>1. Cardinality(Met) \in Nat
    BY MetFinite DEF Met
  <2> QED
    BY <1>4, <1>5, <1>6, <2>1 DEF HandedOut
<1>8. Noted
  BY <1>2, NoRefIsRef DEF Noted, Init
<1> QED
  BY <1>7, <1>8 DEF KeyInv

LEMMA NotedMeans == Inv /\ KeyInv => NoStaleKey
<1> SUFFICES ASSUME Inv, KeyInv PROVE NoStaleKey
  OBVIOUS
<1>1. \A r : r \in Refs \/ r \in Events \/ r \in Calls =>
         (r.fd \in DOMAIN fds => fds[r.fd].conn = r.conn)
  BY DEF Refs, Events, Calls, Means
<1>2. /\ \A i \in DOMAIN evts : evts[i] \in Events
      /\ \A i \in DOMAIN dels : dels[i] \in Refs
      /\ \A i \in DOMAIN stack : stack[i] \in Calls
      /\ cur \in Refs
  BY DEF KeyInv, Noted
<1> QED
  BY <1>1, <1>2 DEF NoStaleKey

\* While the server meets no more connections than there are keys beside those of
\* epoll and of the listening socket, no key that was noted ever names another
\* connection: not in an event, a list of descriptors to close, a call that has
\* not returned or the session the scan visits, however the keys go around the
\* end of their range and whatever the callbacks close and open in between.
THEOREM NoKeyIsStale == FewConns => (Spec => []NoStaleKey)
<1> SUFFICES ASSUME FewConns PROVE Spec => []NoStaleKey
  OBVIOUS
<1>1. Init => Inv /\ KeyInv
  BY InitInv, InitNotes
<1>2. Inv /\ KeyInv /\ [Next]_vars => (Inv /\ KeyInv)'
  BY HandlerInv, RuntimeInv, PeerInv, StutterInv, HandlerNotes, RuntimeNotes, OtherNotes DEF Next
<1> QED
  BY <1>1, <1>2, NotedMeans, PTL DEF Spec

=============================================================================
