---------------------------- MODULE TlsLinkProofs -----------------------------
(***************************************************************************)
(* Both ends of a TLS connection of TlsLink agree on it, and each          *)
(* application is given what the other sent: TlsLink implements Stream in  *)
(* both directions.                                                        *)
(*                                                                         *)
(* What an end sends in the whole life of a connection is one stream of    *)
(* records: a script, which the number of the connection and the key of    *)
(* the certificate determine, and then the data of the application.  An    *)
(* end that has taken n records of the other's stream is in a state that n *)
(* determines, and what is in flight are the records from n + 1 on.  The   *)
(* invariant says so of every connection, with n as it is quantified in it *)
(* for a history variable.                                                 *)
(***************************************************************************)
EXTENDS TlsLink, TLAPS, FiniteSetTheorems, SequenceTheorems, WellFoundedInduction

-----------------------------------------------------------------------------
(* The script of connection c with a server whose key pair is g.             *)

Secret(c) == [pre |-> c, cr |-> c, sr |-> c]

Hello(c) == [t |-> "client_hello", rand |-> c]
ServerHello(c) == [t |-> "server_hello", rand |-> c]
Certificate(g) == [t |-> "certificate", key |-> g]
HelloDone == [t |-> "server_hello_done"]
KeyExchange(c, g) == [t |-> "client_key_exchange", to |-> g, pre |-> c]

\* The messages of the handshake before the first Finished.
Said(c, g) ==
    [x \in Slots |-> CASE x = "cli_hello" -> Hello(c)
                       [] x = "srv_hello" -> ServerHello(c)
                       [] x = "srv_certificate" -> Certificate(g)
                       [] x = "srv_hellodone" -> HelloDone
                       [] x = "cli_key_exchange" -> KeyExchange(c, g)
                       [] OTHER -> NoMsg]
ClientFinished(c, g) ==
    [t |-> "finished", by |-> "client", master |-> Secret(c), saw |-> Said(c, g)]
Whole(c, g) == [Said(c, g) EXCEPT !["cli_finished"] = ClientFinished(c, g)]
ServerFinished(c, g) ==
    [t |-> "finished", by |-> "server", master |-> Secret(c), saw |-> Whole(c, g)]

Msgs ==
    {NoMsg, HelloDone}
    \cup {Hello(c) : c \in Conns} \cup {ServerHello(c) : c \in Conns}
    \cup {Certificate(g) : g \in Keys}
    \cup {KeyExchange(c, g) : c \in Conns, g \in Keys}
    \cup {ClientFinished(c, g) : c \in Conns, g \in Keys}
    \cup {ServerFinished(c, g) : c \in Conns, g \in Keys}

\* The records of the server's first messages, and the place of its
\* ChangeCipherSpec in its stream.
Flight == 2 + CertRecords
Switch == Flight + 1

-----------------------------------------------------------------------------
(* Types.                                                                    *)

Cut == {"all", "head", "tail"}
MsgPieces == [of : Msgs, part : Cut]
Secrets == [pre : Nat, cr : Nat, sr : Nat]
Recs == [type : {"handshake", "change_cipher_spec", "alert", "application_data", "data"},
         sealed : BOOLEAN, key : Secrets, by : {"none", "client", "server"}, seq : Nat,
         body : {NoMsg} \cup MsgPieces \cup Parts]
Pieces == [of : Recs, part : Cut]

Sessions ==
    [side : {"client", "server"}, trust : Keys \cup {AnyKey}, fin : BOOLEAN, rd : BOOLEAN,
     wr : BOOLEAN, wseq : Nat, rseq : Nat, tcp : Seq(Pieces), pkgm : Seq(MsgPieces),
     open : BOOLEAN, hmsg : [Slots -> Msgs], cr : Nat, sr : Nat, master : Secrets,
     cert : Keys \cup {0}]

Steps == [s : Sessions, out : Seq(Recs), res : {"NONE", "HKOK", "APPDATA", "ERR"}]

-----------------------------------------------------------------------------
(* The ends at their places in the streams.                                  *)

\* The handshake as the client has it after n records of the server, and the
\* server after n records of the client.
Kept(c, g, S) == [x \in Slots |-> IF x \in S THEN Whole(c, g)[x] ELSE NoMsg]

ClientSlots(n) ==
    {x \in Slots : \/ x = "cli_hello"
                   \/ x = "srv_hello" /\ n >= 1
                   \/ x = "srv_certificate" /\ n >= 1 + CertRecords
                   \/ n >= Flight}
ServerSlots(n) ==
    {x \in Slots : x # "cli_finished" /\ (x = "cli_key_exchange" => n >= 2)}

\* A client session after n records of the server's stream.
ClientAt(k, c, g, n) ==
    /\ k \in Sessions
    /\ k.side = "client"
    /\ k.open <=> n < Switch + 1
    /\ k.fin <=> n >= Switch + 1
    /\ k.wr <=> n >= Flight
    /\ k.rd <=> n >= Switch
    /\ k.rseq = IF n >= Switch THEN n - Switch ELSE 0
    /\ k.pkgm = IF n = 2 /\ CertRecords = 2 THEN <<Piece(Certificate(g), "head")>> ELSE <<>>
    /\ k.hmsg = IF n >= Switch + 1 THEN NoHandshake ELSE Kept(c, g, ClientSlots(n))
    /\ k.cr = c
    /\ k.sr = IF n >= 1 THEN c ELSE 0
    /\ k.master = IF n >= Flight THEN Secret(c) ELSE NoMaster
    /\ k.cert = IF n >= 1 + CertRecords THEN g ELSE 0
    /\ n >= 1 + CertRecords => k.trust \in {AnyKey, g}

\* A server session after n records of the client's stream.
ServerAt(s, c, g, n) ==
    /\ s \in Sessions
    /\ s.side = "server"
    /\ s.open <=> n < 4
    /\ s.fin <=> n >= 4
    /\ s.wr <=> n >= 4
    /\ s.rd <=> n >= 3
    /\ s.rseq = IF n >= 3 THEN n - 3 ELSE 0
    /\ s.pkgm = <<>>
    /\ s.hmsg = IF n = 0 \/ n >= 4 THEN NoHandshake ELSE Kept(c, g, ServerSlots(n))
    /\ n >= 1 => s.cr = c /\ s.sr = c
    /\ s.master = IF n >= 2 THEN Secret(c) ELSE NoMaster

\* r may be record n of the server's stream, and of the client's; msgs are the
\* data the application there has sent.  A client that gives up may send what
\* it had read, in plain text.
FromServer(r, c, g, n, msgs) ==
    /\ n <= Switch => ~r.sealed
    /\ n = 1 => r.type = "handshake" /\ r.body = Piece(ServerHello(c), "all")
    /\ n = 2 /\ CertRecords = 1 => r.type = "handshake" /\ r.body = Piece(Certificate(g), "all")
    /\ n = 2 /\ CertRecords = 2 => r.type = "handshake" /\ r.body = Piece(Certificate(g), "head")
    /\ n = 3 /\ CertRecords = 2 => r.type = "handshake" /\ r.body = Piece(Certificate(g), "tail")
    /\ n = Flight => r.type = "handshake" /\ r.body = Piece(HelloDone, "all")
    /\ n = Switch => r.type = "change_cipher_spec"
    /\ n = Switch + 1 => r.type = "handshake" /\ r.body = Piece(ServerFinished(c, g), "all")
    /\ n > Switch + 1 =>
          r.type = "application_data" /\ n - Switch - 1 \in 1..Len(msgs)
            /\ r.body = msgs[n - Switch - 1]
FromClient(r, c, g, n, msgs) ==
    /\ n <= 3 => ~r.sealed
    /\ n = 1 => r.type = "handshake" /\ r.body = Piece(Hello(c), "all")
    /\ n = 2 => r.type = "handshake" /\ r.body = Piece(KeyExchange(c, g), "all")
    /\ n = 3 => r.type = "change_cipher_spec"
    /\ n = 4 => r.type = "handshake" /\ r.body = Piece(ClientFinished(c, g), "all")
    /\ n > 4 =>
         \/ r.type = "application_data" /\ n - 4 \in 1..Len(msgs) /\ r.body = msgs[n - 4]
         \/ r.type = "data" /\ ~r.sealed

-----------------------------------------------------------------------------
(* The invariant.                                                            *)

\* w goes on behind tcp, what an end has of a record whose tail has not come.
Fits(tcp, w) ==
    /\ \A i \in 2..Len(w) : w[i].part = "all"
    /\ Len(w) >= 1 => w[1].part = IF tcp = <<>> THEN "all" ELSE "tail"

Beyond(n, q) == IF n > q THEN n - q ELSE 0

\* A session k (or s) of connection c has taken n records (or m), w is on its
\* way to it, msgs is what the other end's application sent and given what its
\* own has of it.
ClientView(k, w, c, g, n, msgs, given) ==
    /\ ClientAt(k, c, g, n)
    /\ w \in Seq(Pieces) /\ Fits(k.tcp, w)
    /\ \A i \in 1..Len(w) : FromServer(w[i].of, c, g, n + i, msgs)
    /\ n < Flight => n + Len(w) <= Flight
    /\ Len(given) = Beyond(n, Switch + 1)
ServerView(s, w, c, g, m, msgs, given) ==
    /\ ServerAt(s, c, g, m)
    /\ w \in Seq(Pieces) /\ Fits(s.tcp, w)
    /\ \A i \in 1..Len(w) : FromClient(w[i].of, c, g, m + i, msgs)
    /\ m = 0 => Len(w) <= 1
    /\ m < 4 => m + Len(w) <= 4
    /\ Len(given) = Beyond(m, 4)

\* The records a server has sent that has taken m, and a client that has taken n.
ServerTotal(m, msgs) ==
    IF m = 0 THEN 0 ELSE IF m < 4 THEN Flight ELSE Switch + 1 + Len(msgs)
ClientTotal(n, msgs) ==
    IF n < Flight THEN 1 ELSE IF n < Switch + 1 THEN 4 ELSE 4 + Len(msgs)

\* What a client k and a server s that are both there hold of each other, with
\* u on its way up and d on its way down.
Linked(k, s, u, d, n, m, su, sd) ==
    /\ n + Len(d) = ServerTotal(m, sd) /\ m + Len(u) = ClientTotal(n, su)
    /\ n < Switch + 1 => su = <<>>
    /\ m < 4 => sd = <<>>
    /\ k.tcp # <<>> => d # <<>>
    /\ s.tcp # <<>> => u # <<>>
    /\ k.wr => k.wseq = Beyond(m, 3) + Ciphered(u)
    /\ s.wr => s.wseq = Beyond(n, Switch) + Ciphered(d)

Here(c) == Cur = c /\ Connected
There(c) == srv[c].life = "open"

Conn(c, g, n, m) ==
    /\ Here(c) => ClientView(clt.tls, dn[c], c, g, n, sent.dn[c], got.dn[c])
    /\ There(c) => ServerView(srv[c].tls, up[c], c, g, m, sent.up[c], got.up[c])
    /\ BothOpen(c) => Linked(clt.tls, srv[c].tls, up[c], dn[c], n, m, sent.up[c], sent.dn[c])
    /\ There(c) /\ Cur = c /\ clt.status = "connect" => m = 0 /\ srv[c].tls.tcp = <<>>

Quiet(c) ==
    /\ up[c] = <<>> /\ dn[c] = <<>>
    /\ sent.up[c] = <<>> /\ sent.dn[c] = <<>> /\ got.up[c] = <<>> /\ got.dn[c] = <<>>

TypeOK ==
    /\ clt \in [status : {"invalid", "connect", "connected"}, told : BOOLEAN,
                conn : 0..MaxConns, tls : Sessions]
    /\ srv \in [Conns -> [life : {"none", "open", "gone"}, tls : Sessions]]
    /\ net \in [Conns -> {"none", "syn", "up", "broken"}]
    /\ up \in [Conns -> Seq(Pieces)] /\ dn \in [Conns -> Seq(Pieces)]
    /\ ca \in Keys
    /\ sent \in [up : [Conns -> Seq(Parts)], dn : [Conns -> Seq(Parts)]]
    /\ got \in [up : [Conns -> Seq(Parts)], dn : [Conns -> Seq(Parts)]]

\* What is set of a connection before it is one, and when it no longer is.
Placed(c) ==
    /\ c > Cur => net[c] = "none" /\ srv[c] = NoServer /\ Quiet(c)
    /\ c = Cur /\ clt.status = "connect" => Quiet(c)
    /\ net[c] = "syn" => srv[c] = NoServer /\ c = Cur /\ clt.status = "connect"
    /\ net[c] = "broken" => up[c] = <<>> /\ dn[c] = <<>>
    /\ There(c) \/ Here(c) => net[c] \in {"up", "broken"}

Told ==
    /\ clt.tls.side = "client"
    /\ clt.status # "invalid" => Cur \in Conns
    /\ clt.told => Connected /\ clt.tls.fin

Inv ==
    /\ TypeOK /\ Told
    /\ \A c \in Conns : Placed(c)
    /\ \A c \in Conns : \E g \in Keys, n \in Nat, m \in Nat : Conn(c, g, n, m)

-----------------------------------------------------------------------------
(* The client takes a record.                                                *)

\* How many records the client flight waits for, and the server's Finished.
LEMMA Constants ==
    /\ CertRecords \in {1, 2}
    /\ Flight = 2 + CertRecords /\ Switch = 3 + CertRecords
    /\ Flight \in {3, 4} /\ Switch \in {4, 5}
BY CertAssumption DEF Flight, Switch

\* The messages of a handshake, slot by slot.
LEMMA WholeIs ==
    ASSUME NEW c, NEW g
    PROVE  /\ Whole(c, g)["cli_hello"] = Hello(c)
           /\ Whole(c, g)["srv_hello"] = ServerHello(c)
           /\ Whole(c, g)["srv_certificate"] = Certificate(g)
           /\ Whole(c, g)["srv_hellodone"] = HelloDone
           /\ Whole(c, g)["cli_key_exchange"] = KeyExchange(c, g)
           /\ Whole(c, g)["cli_finished"] = ClientFinished(c, g)
BY DEF Whole, Said, Slots

\* To keep one more message.
LEMMA KeepsOne ==
    ASSUME NEW c, NEW g, NEW S, NEW T, NEW x \in Slots, T = S \cup {x}
    PROVE  [Kept(c, g, S) EXCEPT ![x] = Whole(c, g)[x]] = Kept(c, g, T)
BY DEF Kept

Fields ==
    {"side", "trust", "fin", "rd", "wr", "wseq", "rseq", "tcp", "pkgm", "open", "hmsg",
     "cr", "sr", "master", "cert"}

\* t is k but for the fields in F.
Apart(t, k, F) == t \in Sessions /\ \A f \in Fields \ F : t[f] = k[f]

\* A record that ends a handshake message has that message handled.
LEMMA TakesMessage ==
    ASSUME NEW a \in Steps, NEW r \in Recs, NEW m, NEW part \in {"all", "tail"}, NEW key, NEW id,
           r.type = "handshake", r.body = Piece(m, part), Continues(a.s.pkgm, r.body),
           a.s.rd => Opens(a.s, r), ~a.s.rd => ~r.sealed
    PROVE  \E b \in Steps :
              /\ TakeRecord(a, r, key, id) = DoMessage(b, m, key, id)
              /\ b.res = "NONE" /\ b.out = a.out
              /\ Apart(b.s, a.s, {"rseq", "pkgm"}) /\ b.s.pkgm = <<>>
              /\ b.s.rseq = IF a.s.rd THEN a.s.rseq + 1 ELSE a.s.rseq
<1> DEFINE a1 == [a EXCEPT !.s.rseq = @ + 1]
           e == <<>>
           Heard(x) == [x EXCEPT !.s.pkgm = e, !.res = "NONE"]
<1>1. e \in Seq(MsgPieces)
  OBVIOUS
<1>2. r.type # "data" /\ r.body.part = part /\ r.body.of = m /\ part # "head"
  BY DEF Piece
<1>3. a1 \in Steps /\ Apart(a1.s, a.s, {"rseq"}) /\ a1.s.rseq = a.s.rseq + 1 /\ a1.out = a.out
  <2> DEFINE q == a.s.rseq + 1
  <2>1. q \in Nat /\ a1 = [a EXCEPT !.s.rseq = q]
    BY DEF Steps, Sessions
  <2> HIDE DEF a1, q
  <2>2. a1 \in Steps /\ a1.out = a.out
    BY <2>1 DEF Steps, Sessions
  <2>3. Apart(a1.s, a.s, {"rseq"}) /\ a1.s.rseq = q
    BY <2>1 DEF Steps, Sessions, Apart, Fields
  <2> QED
    BY <2>2, <2>3 DEF q
<1>4. ASSUME NEW x \in Steps, x.s.pkgm = a.s.pkgm, x.out = a.out
      PROVE  /\ DoRecord(x, r, key, id) = DoMessage(Heard(x), m, key, id)
             /\ Heard(x) \in Steps /\ Heard(x).res = "NONE" /\ Heard(x).out = a.out
             /\ Apart(Heard(x).s, x.s, {"pkgm"}) /\ Heard(x).s.pkgm = <<>>
  <2>1. DoRecord(x, r, key, id) = DoHandshakeMsg(x, r.body, key, id)
    BY <1>2 DEF DoRecord
  <2>2. DoHandshakeMsg(x, r.body, key, id) = DoMessage(Heard(x), m, key, id)
    BY <1>2, <1>4 DEF DoHandshakeMsg, Continues
  <2> HIDE DEF e
  <2>3. Heard(x) \in Steps /\ Heard(x).res = "NONE" /\ Heard(x).out = a.out
    BY <1>1, <1>4 DEF Steps, Sessions
  <2>4. Apart(Heard(x).s, x.s, {"pkgm"}) /\ Heard(x).s.pkgm = e
    BY <1>1, <1>4 DEF Steps, Sessions, Apart, Fields
  <2> QED
    BY <2>1, <2>2, <2>3, <2>4 DEF e
<1>5. CASE a.s.rd
  <2>1. TakeRecord(a, r, key, id) = DoRecord(a1, r, key, id)
    BY <1>2, <1>5 DEF TakeRecord
  <2>2. a1.s.pkgm = a.s.pkgm
    BY <1>3 DEF Apart, Fields
  <2> HIDE DEF a1, Heard
  <2>3. Apart(Heard(a1).s, a.s, {"rseq", "pkgm"}) /\ Heard(a1).s.rseq = a.s.rseq + 1
    BY <1>3, <1>4, <2>2 DEF Apart, Fields
  <2> QED
    BY <1>3, <1>4, <1>5, <2>1, <2>2, <2>3
<1>6. CASE ~a.s.rd
  <2>1. TakeRecord(a, r, key, id) = DoRecord(a, r, key, id)
    BY <1>2, <1>6 DEF TakeRecord
  <2> HIDE DEF Heard
  <2>2. Apart(Heard(a).s, a.s, {"rseq", "pkgm"}) /\ Heard(a).s.rseq = a.s.rseq
    BY <1>4 DEF Apart, Fields
  <2> QED
    BY <1>4, <1>6, <2>1, <2>2
<1> QED
  BY <1>5, <1>6

\* The messages of a script, and the secret they lead to, have their types.
LEMMA MsgsIn ==
    ASSUME NEW c \in Conns, NEW g \in Keys
    PROVE  /\ {NoMsg, Hello(c), ServerHello(c), Certificate(g), HelloDone, KeyExchange(c, g),
               ClientFinished(c, g), ServerFinished(c, g)} \subseteq Msgs
           /\ c \in Nat \ {0} /\ Secret(c) \in Secrets /\ NoMaster \in Secrets
           /\ NoMaster # Secret(c)
<1>1. c \in Nat \ {0}
  BY LinkAssumption DEF Conns
<1> QED
  BY <1>1 DEF Msgs, Secrets, Secret, NoMaster

\* What a client has made of a when it has taken record n.
ClientTook(a, b, c, g, n) ==
    /\ b \in Steps /\ ClientAt(b.s, c, g, n)
    /\ b.s.tcp = a.s.tcp /\ b.s.trust = a.s.trust
    /\ n # Flight => b.s.wseq = a.s.wseq

\* An end that gives up leaves what there was to send.
GaveUp(a, b) == b \in Steps /\ b.res = "ERR" /\ b.out = a.out /\ b.s.side = a.s.side

\* The client takes the ServerHello (OnServerHello).
LEMMA ClientTakesServerHello ==
    ASSUME NEW c \in Conns, NEW g \in Keys, NEW a \in Steps, NEW key, NEW r \in Recs,
           NEW msgs, ClientAt(a.s, c, g, 0), FromServer(r, c, g, 1, msgs), ~r.sealed
    PROVE  LET b == TakeRecord(a, r, key, c) IN
           ClientTook(a, b, c, g, 1) /\ b.res = "NONE" /\ b.out = a.out
<1> DEFINE m == ServerHello(c)
           b == TakeRecord(a, r, key, c)
<1>1. r.type = "handshake" /\ r.body = Piece(m, "all") /\ ~a.s.rd /\ a.s.pkgm = <<>>
  BY Constants DEF FromServer, ClientAt
<1>2. PICK d \in Steps :
         /\ b = DoMessage(d, m, key, c)
         /\ d.res = "NONE" /\ d.out = a.out
         /\ Apart(d.s, a.s, {"rseq", "pkgm"}) /\ d.s.pkgm = <<>>
         /\ d.s.rseq = IF a.s.rd THEN a.s.rseq + 1 ELSE a.s.rseq
  <2>1. Continues(a.s.pkgm, r.body) /\ "all" \in {"all", "tail"}
    BY <1>1 DEF Continues, Piece
  <2> HIDE DEF m
  <2> QED
    BY <1>1, <2>1, TakesMessage
<1>3. d.s.side = "client" /\ d.s.open /\ d.s.hmsg = a.s.hmsg
  BY <1>2, Constants DEF ClientAt, Apart, Fields
<1> DEFINE h == [d.s.hmsg EXCEPT !["srv_hello"] = m]
<1>4. b = [d EXCEPT !.s.hmsg = h, !.s.sr = c]
  <2>1. b = OnServerHello(d, m)
    BY <1>2, <1>3 DEF DoMessage, ServerHello
  <2> QED
    BY <1>3, <2>1 DEF OnServerHello, ServerHello
<1>5. h \in [Slots -> Msgs] /\ h = Kept(c, g, ClientSlots(1))
  <2>1. ASSUME NEW x PROVE x \in ClientSlots(1) <=> x \in ClientSlots(0) \cup {"srv_hello"}
    BY Constants DEF ClientSlots, Slots
  <2>2. d.s.hmsg = Kept(c, g, ClientSlots(0)) /\ d.s.hmsg \in [Slots -> Msgs]
    BY <1>2, <1>3, Constants DEF ClientAt, Steps, Sessions
  <2>3. m = Whole(c, g)["srv_hello"] /\ m \in Msgs
    BY WholeIs, MsgsIn
  <2> HIDE DEF m
  <2> QED
    BY <2>1, <2>2, <2>3, KeepsOne DEF Slots
<1> HIDE DEF h, m, b
<1>6. b \in Steps /\ b.res = "NONE" /\ b.out = a.out
  <2>1. c \in Nat /\ h \in [Slots -> Msgs]
    BY <1>5, MsgsIn
  <2>2. d \in Steps /\ d.res = "NONE" /\ d.out = a.out
    BY <1>2
  <2>3. b.res = d.res /\ b.out = d.out
    BY <1>4, <2>2 DEF Steps
  <2>4. b \in Steps
    BY <1>4, <2>1, <2>2 DEF Steps, Sessions
  <2> QED
    BY <2>2, <2>3, <2>4
<1>7. Apart(b.s, d.s, {"hmsg", "sr"}) /\ b.s.hmsg = h /\ b.s.sr = c
  BY <1>4, <1>6 DEF Steps, Sessions, Apart, Fields
<1>8. Apart(b.s, a.s, {"hmsg", "sr", "rseq", "pkgm"}) /\ b.s.pkgm = <<>> /\ b.s.rseq = a.s.rseq
  BY <1>1, <1>2, <1>7 DEF Apart, Fields
<1>9. ClientAt(b.s, c, g, 1)
  BY <1>5, <1>7, <1>8, Constants DEF ClientAt, Apart, Fields
<1>10. b.s.tcp = a.s.tcp /\ b.s.trust = a.s.trust /\ b.s.wseq = a.s.wseq
  BY <1>8 DEF Apart, Fields
<1> QED
  BY <1>6, <1>9, <1>10 DEF ClientTook, b

\* It takes the certificate, or does not trust it (OnServerCertificate).
LEMMA ClientTakesCertificate ==
    ASSUME NEW c \in Conns, NEW g \in Keys, NEW a \in Steps, NEW key, NEW r \in Recs,
           NEW msgs, ClientAt(a.s, c, g, CertRecords),
           FromServer(r, c, g, 1 + CertRecords, msgs), ~r.sealed
    PROVE  LET b == TakeRecord(a, r, key, c) IN
           \/ GaveUp(a, b)
           \/ ClientTook(a, b, c, g, 1 + CertRecords) /\ b.res = "NONE" /\ b.out = a.out
<1> DEFINE m == Certificate(g)
           b == TakeRecord(a, r, key, c)
           part == IF CertRecords = 1 THEN "all" ELSE "tail"
<1>1. r.type = "handshake" /\ r.body = Piece(m, part) /\ ~a.s.rd /\ Continues(a.s.pkgm, r.body)
  BY Constants DEF FromServer, ClientAt, Continues, Piece
<1>2. PICK d \in Steps :
         /\ b = DoMessage(d, m, key, c)
         /\ d.res = "NONE" /\ d.out = a.out
         /\ Apart(d.s, a.s, {"rseq", "pkgm"}) /\ d.s.pkgm = <<>>
         /\ d.s.rseq = IF a.s.rd THEN a.s.rseq + 1 ELSE a.s.rseq
  <2>1. part \in {"all", "tail"}
    OBVIOUS
  <2> HIDE DEF m, part
  <2> QED
    BY <1>1, <2>1, TakesMessage
<1>3. /\ d.s.side = "client" /\ d.s.open /\ d.s.hmsg = a.s.hmsg
      /\ d \in Steps /\ d.res = "NONE" /\ d.out = a.out
  BY <1>2, Constants DEF ClientAt, Apart, Fields
<1> DEFINE h == [d.s.hmsg EXCEPT !["srv_certificate"] = m]
<1>4. \/ b = Fail(d)
      \/ b = [d EXCEPT !.s.hmsg = h, !.s.cert = g] /\ d.s.trust \in {AnyKey, g}
  <2>1. b = OnServerCertificate(d, m)
    BY <1>2, <1>3 DEF DoMessage, Certificate
  <2> QED
    BY <1>3, <2>1 DEF OnServerCertificate, Certificate
<1>5. h \in [Slots -> Msgs] /\ h = Kept(c, g, ClientSlots(1 + CertRecords))
  <2>1. ASSUME NEW x
        PROVE  x \in ClientSlots(1 + CertRecords)
                  <=> x \in ClientSlots(CertRecords) \cup {"srv_certificate"}
    BY Constants DEF ClientSlots, Slots
  <2>2. d.s.hmsg = Kept(c, g, ClientSlots(CertRecords)) /\ d.s.hmsg \in [Slots -> Msgs]
    <3>1. a.s.hmsg = Kept(c, g, ClientSlots(CertRecords))
      <4>1. ~(CertRecords >= Switch + 1)
        BY Constants
      <4> QED
        BY <4>1 DEF ClientAt
    <3>2. d.s \in Sessions
      BY DEF Steps
    <3> QED
      BY <1>3, <3>1, <3>2 DEF Sessions
  <2>3. m = Whole(c, g)["srv_certificate"] /\ m \in Msgs
    BY WholeIs, MsgsIn
  <2>4. /\ ClientSlots(1 + CertRecords) = ClientSlots(CertRecords) \cup {"srv_certificate"}
        /\ "srv_certificate" \in Slots
    BY <2>1 DEF Slots
  <2> HIDE DEF m
  <2>5. h = [Kept(c, g, ClientSlots(CertRecords)) EXCEPT
                ![ "srv_certificate" ] = Whole(c, g)["srv_certificate"]]
    BY <2>2, <2>3
  <2>7. h \in [Slots -> Msgs]
    BY <2>2, <2>3
  <2> HIDE DEF h
  <2>6. h = Kept(c, g, ClientSlots(1 + CertRecords))
    <3> DEFINE S == ClientSlots(CertRecords)
               T == ClientSlots(1 + CertRecords)
               x == "srv_certificate"
    <3>1. T = S \cup {x} /\ x \in Slots /\ h = [Kept(c, g, S) EXCEPT ![x] = Whole(c, g)[x]]
      BY <2>4, <2>5
    <3> HIDE DEF S, T, x
    <3>2. h = Kept(c, g, T)
      BY <3>1 DEF Kept
    <3> QED
      BY <3>2 DEF T
  <2> QED
    BY <2>6, <2>7
<1> HIDE DEF h, m, b
<1>6. CASE b = Fail(d)
  <2>1. d.s.side = a.s.side
    BY <1>2 DEF Apart, Fields
  <2> QED
    BY <1>3, <1>6, <2>1 DEF Fail, Steps, GaveUp, b
<1>7. CASE b = [d EXCEPT !.s.hmsg = h, !.s.cert = g] /\ d.s.trust \in {AnyKey, g}
  <2>1. b.res = "NONE" /\ b.out = a.out
    BY <1>3, <1>7 DEF Steps
  <2>2. b \in Steps
    BY <1>3, <1>5, <1>7 DEF Steps, Sessions
  <2>3. Apart(b.s, d.s, {"hmsg", "cert"}) /\ b.s.hmsg = h /\ b.s.cert = g
    BY <1>3, <1>7, <2>2 DEF Steps, Sessions, Apart, Fields
  <2>4. Apart(b.s, a.s, {"hmsg", "cert", "rseq", "pkgm"}) /\ b.s.pkgm = <<>> /\ b.s.rseq = a.s.rseq
    BY <1>1, <1>2, <2>3 DEF Apart, Fields
  <2>5. b.s.tcp = a.s.tcp /\ b.s.trust = a.s.trust /\ b.s.wseq = a.s.wseq /\ a.s.trust = d.s.trust
    BY <2>3, <2>4 DEF Apart, Fields
  <2>6. ClientAt(b.s, c, g, 1 + CertRecords)
    <3>1. b.s.hmsg = Kept(c, g, ClientSlots(1 + CertRecords)) /\ b.s.cert = g
      BY <1>5, <2>3
    <3>2. b.s.trust \in {AnyKey, g}
      BY <1>7, <2>5
    <3> QED
      BY <2>4, <3>1, <3>2, Constants DEF ClientAt, Apart, Fields
  <2> QED
    BY <2>1, <2>2, <2>5, <2>6 DEF ClientTook, b
<1> QED
  BY <1>4, <1>6, <1>7

\* The first of the two records of a long certificate.
LEMMA ClientTakesCertificateHead ==
    ASSUME CertRecords = 2, NEW c \in Conns, NEW g \in Keys, NEW a \in Steps, NEW key,
           NEW r \in Recs, NEW msgs, ClientAt(a.s, c, g, 1), FromServer(r, c, g, 2, msgs),
           ~r.sealed
    PROVE  LET b == TakeRecord(a, r, key, c) IN
           ClientTook(a, b, c, g, 2) /\ b.res = "NONE" /\ b.out = a.out
<1> DEFINE p == Piece(Certificate(g), "head")
           b == TakeRecord(a, r, key, c)
           e == <<p>>
<1>1. r.type = "handshake" /\ r.body = p /\ ~a.s.rd /\ a.s.pkgm = <<>>
  BY Constants DEF FromServer, ClientAt
<1>2. b = DoHandshakeMsg(a, p, key, c)
  BY <1>1 DEF TakeRecord, DoRecord
<1>3. b = [a EXCEPT !.s.pkgm = e, !.res = "NONE"]
  BY <1>1, <1>2 DEF DoHandshakeMsg, Continues, Piece
<1>4. e \in Seq(MsgPieces)
  <2>1. p \in MsgPieces
    BY MsgsIn DEF MsgPieces, Piece, Cut
  <2> QED
    BY <2>1
<1> HIDE DEF b, p, e
<1>5. b \in Steps /\ b.res = "NONE" /\ b.out = a.out
  BY <1>3, <1>4 DEF Steps, Sessions
<1>6. Apart(b.s, a.s, {"pkgm"}) /\ b.s.pkgm = e
  BY <1>3, <1>5 DEF Steps, Sessions, Apart, Fields
<1>7. ClientSlots(1) = ClientSlots(2)
  BY Constants DEF ClientSlots
<1>8. ClientAt(b.s, c, g, 2)
  BY <1>6, <1>7, Constants DEF ClientAt, Apart, Fields, e, p
<1>9. b.s.tcp = a.s.tcp /\ b.s.trust = a.s.trust /\ b.s.wseq = a.s.wseq
  BY <1>6 DEF Apart, Fields
<1> QED
  BY <1>5, <1>8, <1>9 DEF ClientTook, b

\* Three sequences of one, joined.
LEMMA Three ==
    ASSUME NEW S, NEW x \in S, NEW y \in S, NEW z \in S
    PROVE  LET o == <<x>> \o <<y>> \o <<z>> IN
           /\ o \in Seq(S) /\ Len(o) = 3 /\ o[1] = x /\ o[2] = y /\ o[3] = z
<1> DEFINE p == <<x>>
           q == <<y>>
           u == <<z>>
<1>1. p \in Seq(S) /\ Len(p) = 1 /\ p[1] = x
  OBVIOUS
<1>2. q \in Seq(S) /\ Len(q) = 1 /\ q[1] = y
  OBVIOUS
<1>3. u \in Seq(S) /\ Len(u) = 1 /\ u[1] = z
  OBVIOUS
<1> HIDE DEF p, q, u
<1>4. p \o q \in Seq(S) /\ Len(p \o q) = 2 /\ (p \o q)[1] = x /\ (p \o q)[2] = y
  <2>1. /\ p \o q \in Seq(S) /\ Len(p \o q) = Len(p) + Len(q)
        /\ \A i \in 1..Len(p) + Len(q) :
              (p \o q)[i] = IF i <= Len(p) THEN p[i] ELSE q[i - Len(p)]
    BY <1>1, <1>2, ConcatProperties
  <2> QED
    BY <1>1, <1>2, <2>1
<1> DEFINE pq == p \o q
<1> HIDE DEF pq
<1>5. pq \o u \in Seq(S) /\ Len(pq \o u) = 3 /\ (pq \o u)[1] = x /\ (pq \o u)[2] = y /\ (pq \o u)[3] = z
  BY <1>3, <1>4 DEF pq
<1> QED
  BY <1>5 DEF pq, p, q, u

\* Concatenation is associative, as far as the client flight needs it.
LEMMA Joined ==
    ASSUME NEW S, NEW p \in Seq(S), NEW q \in Seq(S), NEW u \in Seq(S), NEW v \in Seq(S)
    PROVE  /\ ((p \o q) \o u) \o v = p \o ((q \o u) \o v)
           /\ ((p \o q) \o u) \o v \in Seq(S)
<1> DEFINE w == q \o u
<1>1. (p \o q) \o u = p \o w
  BY ConcatAssociative
<1>2. w \in Seq(S)
  BY ConcatProperties
<1> HIDE DEF w
<1>3. (p \o w) \o v = p \o (w \o v)
  <2>1. \A y \in Seq(S) : (p \o y) \o v = p \o (y \o v)
    BY ConcatAssociative
  <2> QED
    BY <1>2, <2>1
<1>4. w \o v \in Seq(S)
  BY <1>2, ConcatProperties
<1> DEFINE x == w \o v
<1> HIDE DEF x
<1>5. p \o x \in Seq(S)
  BY <1>4, ConcatProperties DEF x
<1> QED
  BY <1>1, <1>3, <1>5 DEF w, x

\* Messages that take one record.
LEMMA HandshakePlain ==
    ASSUME NEW s, NEW m, ~s.wr, m.t # "certificate"
    PROVE  Handshake(s, m) = <<Record("handshake", Piece(m, "all"))>>
BY DEF Handshake, Package

\* A message sealed, in one record.
LEMMA HandshakeSealed ==
    ASSUME NEW s \in Sessions, NEW m, s.wr, m.t # "certificate"
    PROVE  LET r == Sealed(s, 0, Record("handshake", Piece(m, "all"))) IN
           /\ Handshake(s, m) = <<r>>
           /\ r.type = "handshake" /\ r.body = Piece(m, "all") /\ r.sealed
           /\ r.key = s.master /\ r.by = s.side /\ r.seq = s.wseq
<1> DEFINE x == Record("handshake", Piece(m, "all"))
<1>1. Handshake(s, m) = <<Sealed(s, 0, x)>>
  BY DEF Handshake, Package
<1>2. s.wseq + 0 = s.wseq
  BY DEF Sessions
<1> QED
  BY <1>1, <1>2 DEF Sealed, Record

\* The ChangeCipherSpec is never sealed: the cipher starts behind it.
LEMMA ChangePlain ==
    ASSUME NEW s, ~s.wr
    PROVE  ChangeCipherSpec(s) = <<Record("change_cipher_spec", NoMsg)>>
BY DEF ChangeCipherSpec, Package

\* The second flight of the client, its records 2, 3 and 4, and that of the server.
ClientFlight(o, c, g) ==
    /\ o \in Seq(Recs) /\ Len(o) = 3
    /\ \A i \in 1..3 : FromClient(o[i], c, g, i + 1, <<>>)
    /\ o[3].sealed
ServerFlight(o, c, g) ==
    /\ o \in Seq(Recs) /\ Len(o) = 2
    /\ \A i \in 1..2 : FromServer(o[i], c, g, Flight + i, <<>>)
    /\ o[2].sealed

\* What Record and Sealed make is a record.
LEMMA RecsIn ==
    ASSUME NEW type \in {"handshake", "change_cipher_spec", "alert", "application_data", "data"},
           NEW body \in {NoMsg} \cup MsgPieces \cup Parts
    PROVE  /\ Record(type, body) \in Recs
           /\ \A s \in Sessions, n \in Nat : Sealed(s, n, Record(type, body)) \in Recs
<1>1. NoMaster \in Secrets
  BY DEF NoMaster, Secrets
<1>2. Record(type, body) \in Recs
  BY <1>1 DEF Record, Recs
<1>3. ASSUME NEW s \in Sessions, NEW n \in Nat PROVE Sealed(s, n, Record(type, body)) \in Recs
  <2>1. s.wseq + n \in Nat /\ s.master \in Secrets /\ s.side \in {"none", "client", "server"}
    BY DEF Sessions
  <2> QED
    BY <1>2, <2>1 DEF Sealed, Recs
<1> QED
  BY <1>2, <1>3

\* The client takes the ServerHelloDone and puts out its flight.
LEMMA ClientTakesHelloDone ==
    ASSUME NEW c \in Conns, NEW g \in Keys, NEW a \in Steps, NEW key, NEW r \in Recs,
           NEW msgs, ClientAt(a.s, c, g, Flight - 1), FromServer(r, c, g, Flight, msgs),
           ~r.sealed
    PROVE  LET b == TakeRecord(a, r, key, c) IN
           /\ ClientTook(a, b, c, g, Flight) /\ b.res = "NONE" /\ b.s.wseq = 1
           /\ \E o : ClientFlight(o, c, g) /\ b.out = a.out \o o
<1> DEFINE m == HelloDone
           b == TakeRecord(a, r, key, c)
           kx == KeyExchange(c, g)
           fm == ClientFinished(c, g)
<1>1. r.type = "handshake" /\ r.body = Piece(m, "all") /\ ~a.s.rd /\ a.s.pkgm = <<>>
  BY Constants DEF FromServer, ClientAt
<1>2. PICK d \in Steps :
         /\ b = DoMessage(d, m, key, c)
         /\ d.res = "NONE" /\ d.out = a.out
         /\ Apart(d.s, a.s, {"rseq", "pkgm"}) /\ d.s.pkgm = <<>>
         /\ d.s.rseq = IF a.s.rd THEN a.s.rseq + 1 ELSE a.s.rseq
  <2>1. Continues(a.s.pkgm, r.body) /\ "all" \in {"all", "tail"}
    BY <1>1 DEF Continues, Piece
  <2> HIDE DEF m
  <2> QED
    BY <1>1, <2>1, TakesMessage
<1> DEFINE k == d.s
<1>3. /\ k.side = "client" /\ k.open /\ k.hmsg = Kept(c, g, ClientSlots(Flight - 1))
      /\ k.cr = c /\ k.sr = c /\ k.cert = g /\ ~k.wr
      /\ k \in Sessions /\ d \in Steps /\ d.res = "NONE" /\ d.out = a.out
  BY <1>2, Constants DEF ClientAt, Apart, Fields
<1> DEFINE h1 == [k.hmsg EXCEPT !["srv_hellodone"] = m]
           h2 == [h1 EXCEPT !["cli_key_exchange"] = kx]
           h3 == [h2 EXCEPT !["cli_finished"] = fm]
           s1 == [k EXCEPT !.master = Secret(c), !.hmsg["srv_hellodone"] = m,
                           !.hmsg["cli_key_exchange"] = kx]
           s2 == StartCipher(s1)
           o1 == Handshake(s1, kx)
           o2 == ChangeCipherSpec(s1)
           o3 == Handshake(s2, fm)
<1>4. h2 = Said(c, g) /\ h3 = Whole(c, g) /\ h3 = Kept(c, g, ClientSlots(Flight))
  <2>1. \A x \in Slots : x \in ClientSlots(Flight - 1)
                           <=> x \in {"cli_hello", "srv_hello", "srv_certificate"}
    BY Constants DEF ClientSlots, Slots
  <2>2. \A x \in Slots : x \in ClientSlots(Flight)
    BY Constants DEF ClientSlots
  <2>3. h2 = Said(c, g)
    BY <1>3, <2>1, WholeIs DEF Kept, Said, Slots
  <2>4. h3 = Whole(c, g)
    BY <2>3 DEF Whole
  <2>5. Whole(c, g) = Kept(c, g, ClientSlots(Flight))
    BY <2>2 DEF Kept, Whole, Said
  <2> QED
    BY <2>3, <2>4, <2>5
<1>5. b = OnServerHelloDone(d, m, c)
  BY <1>2, <1>3 DEF DoMessage, HelloDone
<1>6. /\ s1 \in Sessions /\ s1.hmsg = h2 /\ s1.master = Secret(c) /\ ~s1.wr
      /\ s1.side = "client" /\ Apart(s1, k, {"hmsg", "master"})
  <2>1. h2 \in [Slots -> Msgs] /\ Secret(c) \in Secrets
    BY <1>3, MsgsIn DEF Sessions
  <2>2. s1 = [k EXCEPT !.master = Secret(c), !.hmsg = h2]
    BY <1>3 DEF Sessions
  <2> HIDE DEF h2, s1, m, kx, k
  <2>3. s1 \in Sessions
    BY <1>3, <2>1, <2>2 DEF Sessions
  <2>4. s1.hmsg = h2 /\ s1.master = Secret(c) /\ Apart(s1, k, {"hmsg", "master"})
    BY <1>3, <2>2, <2>3 DEF Sessions, Apart, Fields
  <2> QED
    BY <1>3, <2>3, <2>4 DEF Apart, Fields
<1> HIDE DEF k
<1>7. fm = Finished("client", s1, FALSE)
  <2>1. [h2 EXCEPT !["cli_finished"] = NoMsg] = Said(c, g)
    BY <1>4 DEF Said, Slots
  <2> HIDE DEF s1, h2
  <2>2. Out(s1.hmsg, FALSE) = Said(c, g)
    BY <1>6, <2>1 DEF Out
  <2> QED
    BY <1>6, <2>2 DEF Finished, ClientFinished
<1>8. /\ s2 \in Sessions /\ s2.wr /\ s2.side = "client" /\ s2.master = Secret(c)
      /\ s2.wseq = 0 /\ Apart(s2, s1, {"wr", "wseq"})
  <2> HIDE DEF s1
  <2>1. s2 \in Sessions /\ Apart(s2, s1, {"wr", "wseq"}) /\ s2.wr /\ s2.wseq = 0
    BY <1>6 DEF StartCipher, Sessions, Apart, Fields
  <2> QED
    BY <1>6, <2>1 DEF Apart, Fields
<1>9. /\ b.s = [s2 EXCEPT !.wseq = 1, !.hmsg["cli_finished"] = fm]
      /\ b.out = d.out \o o1 \o o2 \o o3
      /\ b.res = d.res
      /\ b = [s |-> b.s, out |-> b.out, res |-> b.res]
  <2>1. /\ KeyExchange(c, g) = [t |-> "client_key_exchange", to |-> k.cert, pre |-> c]
        /\ Secret(c) = [pre |-> c, cr |-> k.cr, sr |-> k.sr]
    BY <1>3 DEF KeyExchange, Secret
  <2>2. b = [d EXCEPT !.s = [s2 EXCEPT !.wseq = 1, !.hmsg["cli_finished"] = fm],
                      !.out = @ \o o1 \o o2 \o o3]
    BY <1>3, <1>5, <1>7, <2>1 DEF OnServerHelloDone, k
  <2> HIDE DEF s2, o1, o2, o3, b, fm
  <2> QED
    BY <1>3, <2>2 DEF Steps
<1>10. o1 = <<Record("handshake", Piece(kx, "all"))>>
  <2> HIDE DEF s1
  <2> QED
    BY <1>6, HandshakePlain DEF KeyExchange
<1>11. o2 = <<Record("change_cipher_spec", NoMsg)>>
  <2> HIDE DEF s1
  <2> QED
    BY <1>6, ChangePlain
<1> DEFINE r3 == Sealed(s2, 0, Record("handshake", Piece(fm, "all")))
<1>12. o3 = <<r3>> /\ r3.type = "handshake" /\ r3.body = Piece(fm, "all") /\ r3.sealed
        /\ r3.key = Secret(c) /\ r3.by = "client" /\ r3.seq = 0
  <2>1. fm.t # "certificate"
    BY DEF ClientFinished
  <2> HIDE DEF s2, fm
  <2> QED
    BY <1>8, <2>1, HandshakeSealed
<1> HIDE DEF s1, s2, o1, o2, o3, h1, h2, h3, b
<1>13. ClientFlight(o1 \o o2 \o o3, c, g)
  <2> DEFINE r1 == Record("handshake", Piece(kx, "all"))
             r2 == Record("change_cipher_spec", NoMsg)
             o == o1 \o o2 \o o3
  <2>1. {NoMsg, Piece(kx, "all"), Piece(fm, "all")} \subseteq {NoMsg} \cup MsgPieces \cup Parts
    BY MsgsIn DEF MsgPieces, Piece, Cut
  <2>2. r1 \in Recs /\ r2 \in Recs /\ r3 \in Recs
    BY <1>8, <2>1, RecsIn
  <2>3. r1.type = "handshake" /\ r1.body = Piece(kx, "all") /\ ~r1.sealed
    BY DEF Record
  <2>4. r2.type = "change_cipher_spec" /\ ~r2.sealed
    BY DEF Record
  <2> HIDE DEF r1, r2, r3, kx, fm
  <2>5. o1 = <<r1>> /\ o2 = <<r2>> /\ o3 = <<r3>>
    BY <1>10, <1>11, <1>12 DEF r1, r2
  <2>6. o \in Seq(Recs) /\ Len(o) = 3 /\ o[1] = r1 /\ o[2] = r2 /\ o[3] = r3
    BY <2>2, <2>5, Three
  <2>7. FromClient(r1, c, g, 2, <<>>)
    BY <2>3 DEF FromClient, kx
  <2>8. FromClient(r2, c, g, 3, <<>>)
    BY <2>4 DEF FromClient
  <2>9. FromClient(r3, c, g, 4, <<>>)
    BY <1>12 DEF FromClient, fm
  <2> HIDE DEF o
  <2>10. \A i \in 1..3 : FromClient(o[i], c, g, i + 1, <<>>)
    BY <2>6, <2>7, <2>8, <2>9
  <2> QED
    BY <1>12, <2>6, <2>10 DEF ClientFlight, o
<1>14. /\ b \in Steps /\ Apart(b.s, s2, {"wseq", "hmsg"}) /\ b.s.wseq = 1 /\ b.s.hmsg = h3
       /\ b.out = a.out \o (o1 \o o2 \o o3) /\ b.res = "NONE"
  <2>1. h3 = [s2.hmsg EXCEPT !["cli_finished"] = fm] /\ h3 \in [Slots -> Msgs]
    <3>1. s2.hmsg = h2 /\ h2 \in [Slots -> Msgs]
      BY <1>6, <1>8 DEF Apart, Fields, Sessions
    <3> QED
      BY <3>1, MsgsIn DEF h3
  <2>2. b.s = [s2 EXCEPT !.wseq = 1, !.hmsg = h3] /\ h3 \in [Slots -> Msgs] /\ s2 \in Sessions
    BY <1>8, <1>9, <2>1 DEF Sessions
  <2> HIDE DEF m, fm, kx
  <2>3. b.s \in Sessions /\ Apart(b.s, s2, {"wseq", "hmsg"}) /\ b.s.wseq = 1 /\ b.s.hmsg = h3
    <3> DEFINE t == [s2 EXCEPT !.wseq = 1, !.hmsg = h3]
    <3>1. t \in Sessions /\ Apart(t, s2, {"wseq", "hmsg"}) /\ t.wseq = 1 /\ t.hmsg = h3
      BY <2>2 DEF Sessions, Apart, Fields
    <3> QED
      BY <2>2, <3>1
  <2>5. b.out = d.out \o (o1 \o o2 \o o3) /\ b.out \in Seq(Recs)
    <3>1. o1 \in Seq(Recs) /\ o2 \in Seq(Recs) /\ o3 \in Seq(Recs) /\ d.out \in Seq(Recs)
      <4>1. /\ Record("handshake", Piece(kx, "all")) \in Recs
            /\ Record("change_cipher_spec", NoMsg) \in Recs
            /\ r3 \in Recs
        <5>1. {NoMsg, Piece(kx, "all"), Piece(fm, "all")} \subseteq {NoMsg} \cup MsgPieces
          BY MsgsIn DEF MsgPieces, Piece, Cut, kx, fm
        <5> QED
          BY <1>8, <5>1, RecsIn
      <4> QED
        BY <1>3, <1>10, <1>11, <1>12, <4>1 DEF Steps
    <3>2. b.out = ((d.out \o o1) \o o2) \o o3
      BY <1>9
    <3> DEFINE z == d.out
    <3> HIDE DEF z
    <3>3. z \in Seq(Recs)
      BY <3>1 DEF z
    <3>4. /\ ((z \o o1) \o o2) \o o3 = z \o ((o1 \o o2) \o o3)
          /\ ((z \o o1) \o o2) \o o3 \in Seq(Recs)
      BY <3>1, <3>3, Joined
    <3> QED
      BY <3>2, <3>4 DEF z
  <2>6. b.res = "NONE" /\ b = [s |-> b.s, out |-> b.out, res |-> b.res]
    BY <1>3, <1>9
  <2> QED
    BY <1>3, <2>3, <2>5, <2>6 DEF Steps
<1>15. /\ Apart(b.s, a.s, {"rseq", "pkgm", "hmsg", "master", "wr", "wseq"})
       /\ b.s.pkgm = <<>> /\ b.s.rseq = a.s.rseq /\ b.s.master = Secret(c) /\ b.s.wr
  BY <1>1, <1>2, <1>6, <1>8, <1>14 DEF Apart, Fields, k
<1>16. ClientAt(b.s, c, g, Flight)
  <2>1. /\ a.s.side = "client" /\ a.s.open /\ ~a.s.fin /\ ~a.s.rd /\ a.s.rseq = 0
        /\ a.s.cr = c /\ a.s.sr = c /\ a.s.cert = g /\ a.s.trust \in {AnyKey, g}
    BY Constants DEF ClientAt
  <2>2. /\ b.s.side = "client" /\ b.s.open /\ ~b.s.fin /\ ~b.s.rd /\ b.s.rseq = 0
        /\ b.s.cr = c /\ b.s.sr = c /\ b.s.cert = g /\ b.s.trust \in {AnyKey, g}
        /\ b.s \in Sessions
    BY <1>15, <2>1 DEF Apart, Fields
  <2>3. b.s.hmsg = Kept(c, g, ClientSlots(Flight))
    BY <1>4, <1>14
  <2> QED
    BY <1>15, <2>2, <2>3, Constants DEF ClientAt
<1>17. b.s.tcp = a.s.tcp /\ b.s.trust = a.s.trust
  BY <1>15 DEF Apart, Fields
<1> QED
  BY <1>13, <1>14, <1>16, <1>17 DEF ClientTook, b
\* It takes the ChangeCipherSpec.
LEMMA ClientTakesChange ==
    ASSUME NEW c \in Conns, NEW g \in Keys, NEW a \in Steps, NEW key, NEW r \in Recs,
           NEW msgs, ClientAt(a.s, c, g, Flight), FromServer(r, c, g, Switch, msgs)
    PROVE  LET b == TakeRecord(a, r, key, c) IN
           ClientTook(a, b, c, g, Switch) /\ b.res = "NONE" /\ b.out = a.out
<1> DEFINE b == TakeRecord(a, r, key, c)
<1>1. r.type = "change_cipher_spec" /\ ~r.sealed /\ ~a.s.rd
  BY Constants DEF FromServer, ClientAt
<1>2. b = [a EXCEPT !.s.rd = TRUE, !.s.rseq = 0, !.res = "NONE"]
  BY <1>1 DEF TakeRecord, DoRecord
<1> HIDE DEF b
<1>3. b \in Steps /\ b.res = "NONE" /\ b.out = a.out
  BY <1>2 DEF Steps, Sessions
<1>4. Apart(b.s, a.s, {"rd", "rseq"}) /\ b.s.rd /\ b.s.rseq = 0
  BY <1>2, <1>3 DEF Steps, Sessions, Apart, Fields
<1>5. ClientSlots(Flight) = ClientSlots(Switch)
  BY Constants DEF ClientSlots
<1>6. ClientAt(b.s, c, g, Switch)
  BY <1>4, <1>5, Constants DEF ClientAt, Apart, Fields
<1>7. b.s.tcp = a.s.tcp /\ b.s.trust = a.s.trust /\ b.s.wseq = a.s.wseq
  BY <1>4 DEF Apart, Fields
<1> QED
  BY <1>3, <1>6, <1>7 DEF ClientTook, b

\* A sealed record that does not open, or one that is not sealed.
LEMMA DoesNotOpen ==
    ASSUME NEW a \in Steps, NEW r \in Recs, NEW key, NEW id, a.s.rd, ~Opens(a.s, r)
    PROVE  GaveUp(a, TakeRecord(a, r, key, id))
<1>1. TakeRecord(a, r, key, id) = Fail(a)
  BY DEF TakeRecord
<1> QED
  BY <1>1 DEF Fail, Steps, GaveUp

\* The verify data of the server is what the client computes (OnServerFinished).
LEMMA ClientTakesFinished ==
    ASSUME NEW c \in Conns, NEW g \in Keys, NEW a \in Steps, NEW key, NEW r \in Recs,
           NEW msgs, ClientAt(a.s, c, g, Switch), FromServer(r, c, g, Switch + 1, msgs),
           Opens(a.s, r)
    PROVE  LET b == TakeRecord(a, r, key, c) IN
           ClientTook(a, b, c, g, Switch + 1) /\ b.res = "HKOK" /\ b.out = a.out
<1> DEFINE m == ServerFinished(c, g)
           b == TakeRecord(a, r, key, c)
<1>1. r.type = "handshake" /\ r.body = Piece(m, "all") /\ a.s.rd /\ a.s.pkgm = <<>>
  BY Constants DEF FromServer, ClientAt
<1>2. PICK d \in Steps :
         /\ b = DoMessage(d, m, key, c)
         /\ d.res = "NONE" /\ d.out = a.out
         /\ Apart(d.s, a.s, {"rseq", "pkgm"}) /\ d.s.pkgm = <<>>
         /\ d.s.rseq = IF a.s.rd THEN a.s.rseq + 1 ELSE a.s.rseq
  <2>1. Continues(a.s.pkgm, r.body) /\ "all" \in {"all", "tail"}
    BY <1>1 DEF Continues, Piece
  <2> HIDE DEF m
  <2> QED
    BY <1>1, <2>1, TakesMessage
<1>3. /\ d.s.side = "client" /\ d.s.open /\ d.s.hmsg = Kept(c, g, ClientSlots(Switch))
      /\ d.s.master = Secret(c) /\ d.s.rseq = 1
  BY <1>1, <1>2, Constants DEF ClientAt, Apart, Fields
<1>4. m = Finished("server", d.s, TRUE)
  <2>1. \A x \in Slots : x \in ClientSlots(Switch)
    BY Constants DEF ClientSlots
  <2>2. d.s.hmsg = Whole(c, g)
    BY <1>3, <2>1 DEF Kept, Whole, Said
  <2>3. Whole(c, g) = [Whole(c, g) EXCEPT !["cli_finished"] = @]
    BY DEF Whole, Said
  <2>4. Out(d.s.hmsg, TRUE) = Whole(c, g)
    BY <2>2, <2>3 DEF Out
  <2> QED
    BY <1>3, <2>4 DEF Finished, ServerFinished
<1>5. b = EndHandshake(d)
  <2>1. b = OnServerFinished(d, m)
    BY <1>2, <1>3 DEF DoMessage, ServerFinished
  <2> HIDE DEF b, m
  <2> QED
    BY <1>3, <1>4, <2>1 DEF OnServerFinished
<1> DEFINE h == NoHandshake
<1>6. h \in [Slots -> Msgs]
  BY MsgsIn DEF NoHandshake
<1>7. b = [d EXCEPT !.s.open = FALSE, !.s.hmsg = h, !.s.fin = TRUE, !.res = "HKOK"]
  BY <1>5 DEF EndHandshake
<1> HIDE DEF b, m, h
<1>8. b \in Steps /\ b.res = "HKOK" /\ b.out = a.out
  <2>1. d \in Steps /\ d.out = a.out
    BY <1>2
  <2>2. b \in Steps
    <3> DEFINE s == [d.s EXCEPT !.open = FALSE, !.hmsg = h, !.fin = TRUE]
    <3>1. s \in Sessions
      <4>1. d.s \in Sessions
        BY <2>1 DEF Steps
      <4> QED
        BY <1>6, <4>1 DEF Sessions
    <3>2. b = [d EXCEPT !.s = s, !.res = "HKOK"]
      BY <1>7, <2>1 DEF Steps
    <3> HIDE DEF s
    <3> QED
      BY <2>1, <3>1, <3>2 DEF Steps
  <2>3. b.res = "HKOK" /\ b.out = d.out
    BY <1>7, <2>1 DEF Steps
  <2> QED
    BY <2>1, <2>2, <2>3
<1>9. Apart(b.s, d.s, {"open", "hmsg", "fin"}) /\ ~b.s.open /\ b.s.hmsg = h /\ b.s.fin
  BY <1>7, <1>8 DEF Steps, Sessions, Apart, Fields
<1>10. /\ Apart(b.s, a.s, {"open", "hmsg", "fin", "rseq", "pkgm"})
       /\ b.s.pkgm = <<>> /\ b.s.rseq = 1
  BY <1>2, <1>3, <1>9 DEF Apart, Fields
<1>11. ClientAt(b.s, c, g, Switch + 1)
  BY <1>9, <1>10, Constants DEF ClientAt, Apart, Fields, h
<1>12. b.s.tcp = a.s.tcp /\ b.s.trust = a.s.trust /\ b.s.wseq = a.s.wseq
  BY <1>10 DEF Apart, Fields
<1> QED
  BY <1>8, <1>11, <1>12 DEF ClientTook, b

\* Either end takes a record of the application.
LEMMA TakesData ==
    ASSUME NEW a \in Steps, NEW key, NEW r \in Recs, NEW id,
           r.type = "application_data", a.s.rd, Opens(a.s, r)
    PROVE  LET b == TakeRecord(a, r, key, id) IN
           /\ b \in Steps /\ b.res = "APPDATA"
           /\ b.out = Append(a.out, Record("data", r.body))
           /\ Apart(b.s, a.s, {"rseq"}) /\ b.s.rseq = a.s.rseq + 1
<1> DEFINE b == TakeRecord(a, r, key, id)
           q == a.s.rseq + 1
           x == Record("data", r.body)
           o == Append(a.out, x)
<1>1. b = [a EXCEPT !.s.rseq = q, !.out = o, !.res = "APPDATA"]
  BY DEF TakeRecord, DoRecord
<1>2. q \in Nat /\ o \in Seq(Recs)
  <2>1. x \in Recs
    BY RecsIn DEF Recs
  <2> HIDE DEF x
  <2> QED
    BY <2>1 DEF Steps, Sessions
<1> HIDE DEF b, q, o
<1>3. b \in Steps /\ b.res = "APPDATA" /\ b.out = o
  BY <1>1, <1>2 DEF Steps, Sessions
<1>4. Apart(b.s, a.s, {"rseq"}) /\ b.s.rseq = q
  BY <1>1, <1>3 DEF Steps, Sessions, Apart, Fields
<1> QED
  BY <1>3, <1>4 DEF b, q, o

\* The client is given a part of a message.
LEMMA ClientTakesData ==
    ASSUME NEW c \in Conns, NEW g \in Keys, NEW a \in Steps, NEW key, NEW r \in Recs,
           NEW msgs, NEW n \in Nat, n >= Switch + 1, ClientAt(a.s, c, g, n),
           FromServer(r, c, g, n + 1, msgs), Opens(a.s, r)
    PROVE  LET b == TakeRecord(a, r, key, c) IN
           /\ ClientTook(a, b, c, g, n + 1) /\ b.res = "APPDATA"
           /\ b.out = Append(a.out, Record("data", msgs[n - Switch]))
<1> DEFINE b == TakeRecord(a, r, key, c)
<1>1. a.s.rd /\ r.type = "application_data" /\ r.body = msgs[n - Switch]
  BY Constants DEF FromServer, ClientAt
<1>2. /\ b \in Steps /\ b.res = "APPDATA" /\ b.out = Append(a.out, Record("data", r.body))
      /\ Apart(b.s, a.s, {"rseq"}) /\ b.s.rseq = a.s.rseq + 1
  BY <1>1, TakesData
<1> HIDE DEF b
<1>3. ClientAt(b.s, c, g, n + 1)
  <2>1. /\ n + 1 >= Switch + 1 /\ n + 1 >= Switch /\ n + 1 >= Flight /\ n + 1 >= 1 + CertRecords
        /\ n + 1 >= 1 /\ n + 1 # 2 /\ n + 1 - Switch = (n - Switch) + 1
        /\ n >= Switch /\ n >= Flight /\ n >= 1 + CertRecords /\ n >= 1 /\ n # 2
        /\ ~(n < Switch + 1) /\ ~(n + 1 < Switch + 1)
    BY Constants
  <2>2. /\ a.s.side = "client" /\ ~a.s.open /\ a.s.fin /\ a.s.wr /\ a.s.rd
        /\ a.s.rseq = n - Switch /\ a.s.pkgm = <<>> /\ a.s.hmsg = NoHandshake
        /\ a.s.cr = c /\ a.s.sr = c /\ a.s.master = Secret(c) /\ a.s.cert = g
        /\ a.s.trust \in {AnyKey, g}
    BY <2>1 DEF ClientAt
  <2>3. /\ b.s.side = "client" /\ ~b.s.open /\ b.s.fin /\ b.s.wr /\ b.s.rd
        /\ b.s.rseq = (n - Switch) + 1 /\ b.s.pkgm = <<>> /\ b.s.hmsg = NoHandshake
        /\ b.s.cr = c /\ b.s.sr = c /\ b.s.master = Secret(c) /\ b.s.cert = g
        /\ b.s.trust \in {AnyKey, g} /\ b.s \in Sessions
    BY <1>2, <2>2 DEF Apart, Fields
  <2> DEFINE q == n + 1
             t == b.s
  <2>4. /\ q >= Switch + 1 /\ q >= Switch /\ q >= Flight /\ q >= 1 + CertRecords
        /\ q >= 1 /\ ~(q < Switch + 1) /\ q # 2 /\ t.rseq = q - Switch
    <3>1. t.rseq = (n - Switch) + 1
      BY <2>3
    <3> QED
      BY <2>1, <3>1, Constants
  <2> HIDE DEF q, t
  <2>5. ClientAt(t, c, g, q)
    BY <2>3, <2>4 DEF ClientAt, t
  <2> QED
    BY <2>5 DEF q, t
<1>4. b.s.tcp = a.s.tcp /\ b.s.trust = a.s.trust /\ b.s.wseq = a.s.wseq
  BY <1>2 DEF Apart, Fields
<1> QED
  BY <1>1, <1>2, <1>3, <1>4 DEF ClientTook, b

\* What a client has made of a when it has taken record n, and not given up.
ClientMoves(a, b, c, g, n, msgs) ==
    /\ ClientTook(a, b, c, g, n)
    /\ n < Flight \/ n = Switch => b.res = "NONE" /\ b.out = a.out
    /\ n = Flight => /\ b.res = "NONE" /\ b.s.wseq = 1
                     /\ \E o : ClientFlight(o, c, g) /\ b.out = a.out \o o
    /\ n = Switch + 1 => b.res = "HKOK" /\ b.out = a.out
    /\ n > Switch + 1 =>
          b.res = "APPDATA" /\ b.out = Append(a.out, Record("data", msgs[n - Switch - 1]))

\* The next record of the server's stream, whichever it is.
LEMMA ClientTakes ==
    ASSUME NEW c \in Conns, NEW g \in Keys, NEW a \in Steps, NEW key, NEW r \in Recs,
           NEW msgs, NEW n \in Nat, ClientAt(a.s, c, g, n), FromServer(r, c, g, n + 1, msgs)
    PROVE  LET b == TakeRecord(a, r, key, c) IN
           \/ GaveUp(a, b)
           \/ ClientMoves(a, b, c, g, n + 1, msgs) /\ (r.sealed <=> n + 1 > Switch)
<1> DEFINE b == TakeRecord(a, r, key, c)
<1> HIDE DEF b
<1>1. n < Switch => ~r.sealed
  BY Constants DEF FromServer
<1>2. CASE n = 0
  <2>1. ClientTook(a, b, c, g, 1) /\ b.res = "NONE" /\ b.out = a.out
    BY <1>1, <1>2, ClientTakesServerHello, Constants DEF b
  <2> QED
    BY <1>1, <1>2, <2>1, Constants DEF ClientMoves, b
<1>3. CASE n = 1 /\ CertRecords = 2
  <2>1. ClientTook(a, b, c, g, 2) /\ b.res = "NONE" /\ b.out = a.out
    BY <1>1, <1>3, ClientTakesCertificateHead, Constants DEF b
  <2> QED
    BY <1>1, <1>3, <2>1, Constants DEF ClientMoves, b
<1>4. CASE n = CertRecords
  <2>1. \/ GaveUp(a, b)
        \/ ClientTook(a, b, c, g, 1 + CertRecords) /\ b.res = "NONE" /\ b.out = a.out
    BY <1>1, <1>4, ClientTakesCertificate, Constants DEF b
  <2> QED
    BY <1>1, <1>4, <2>1, Constants DEF ClientMoves, b
<1>5. CASE n = Flight - 1
  <2>1. /\ ClientTook(a, b, c, g, Flight) /\ b.res = "NONE" /\ b.s.wseq = 1
        /\ \E o : ClientFlight(o, c, g) /\ b.out = a.out \o o
    BY <1>1, <1>5, ClientTakesHelloDone, Constants DEF b
  <2> QED
    BY <1>1, <1>5, <2>1, Constants DEF ClientMoves, b
<1>6. CASE n = Flight
  <2>1. ClientTook(a, b, c, g, Switch) /\ b.res = "NONE" /\ b.out = a.out
    BY <1>1, <1>6, ClientTakesChange, Constants DEF b
  <2> QED
    BY <1>1, <1>6, <2>1, Constants DEF ClientMoves, b
<1>7. CASE n >= Switch /\ ~Opens(a.s, r)
  <2>1. a.s.rd
    BY <1>7, Constants DEF ClientAt
  <2> QED
    BY <1>7, <2>1, DoesNotOpen
<1>8. CASE n = Switch /\ Opens(a.s, r)
  <2>1. ClientTook(a, b, c, g, Switch + 1) /\ b.res = "HKOK" /\ b.out = a.out
    BY <1>8, ClientTakesFinished DEF b
  <2>2. r.sealed
    BY <1>8 DEF Opens
  <2> QED
    BY <1>8, <2>1, <2>2, Constants DEF ClientMoves, b
<1>9. CASE n >= Switch + 1 /\ Opens(a.s, r)
  <2>1. /\ ClientTook(a, b, c, g, n + 1) /\ b.res = "APPDATA"
        /\ b.out = Append(a.out, Record("data", msgs[n - Switch]))
    BY <1>9, ClientTakesData DEF b
  <2>2. r.sealed /\ (n + 1) - Switch - 1 = n - Switch
    BY <1>9, Constants DEF Opens
  <2> QED
    BY <1>9, <2>1, <2>2, Constants DEF ClientMoves, b
<1> QED
  BY <1>2, <1>3, <1>4, <1>5, <1>6, <1>7, <1>8, <1>9, Constants

-----------------------------------------------------------------------------
(* The server takes a record.                                                *)

\* The server's first messages, its records 1 to Flight.
FirstFlight(o, c, g) ==
    /\ o \in Seq(Recs) /\ Len(o) = Flight
    /\ \A i \in 1..Flight : FromServer(o[i], c, g, i, <<>>)

\* The records of a certificate.
LEMMA CertificatePlain ==
    ASSUME NEW s, NEW g \in Keys, ~s.wr
    PROVE  LET o == Handshake(s, Certificate(g)) IN
           /\ o \in Seq(Recs) /\ Len(o) = CertRecords
           /\ \A i \in 1..CertRecords : ~o[i].sealed /\ o[i].type = "handshake"
           /\ CertRecords = 1 => o[1].body = Piece(Certificate(g), "all")
           /\ CertRecords = 2 => /\ o[1].body = Piece(Certificate(g), "head")
                                 /\ o[2].body = Piece(Certificate(g), "tail")
<1> DEFINE m == Certificate(g)
           P(part) == Record("handshake", Piece(m, part))
           o == Handshake(s, m)
<1>1. m \in Msgs /\ m.t = "certificate"
  BY DEF Msgs, Certificate
<1> HIDE DEF m
<1>2. ASSUME NEW part \in Cut
      PROVE  /\ P(part) \in Recs /\ ~P(part).sealed /\ P(part).type = "handshake"
             /\ P(part).body = Piece(m, part)
  <2>1. Piece(m, part) \in MsgPieces
    BY <1>1 DEF Piece, MsgPieces
  <2>2. P(part) \in Recs
    BY <2>1, RecsIn
  <2> QED
    BY <2>2 DEF Record
<1>3. CASE CertRecords = 1
  <2>1. o = <<P("all")>>
    BY <1>3 DEF Handshake, Package
  <2> HIDE DEF o, P
  <2> QED
    BY <1>2, <1>3, <2>1 DEF Cut, o, m
<1>4. CASE CertRecords = 2
  <2>1. o = <<P("head"), P("tail")>>
    BY <1>1, <1>4 DEF Handshake, Package
  <2> HIDE DEF o, P
  <2> QED
    BY <1>2, <1>4, <2>1 DEF Cut, o, m
<1> QED
  BY <1>3, <1>4, Constants

\* What a server has made of a when it has taken record m.
ServerTook(a, b, c, g, m) ==
    /\ b \in Steps /\ ServerAt(b.s, c, g, m)
    /\ b.s.tcp = a.s.tcp
    /\ m # 4 => b.s.wseq = a.s.wseq

\* The server takes the ClientHello and puts out its first flight.
LEMMA ServerTakesHello ==
    ASSUME NEW c \in Conns, NEW g \in Keys, NEW a \in Steps, NEW r \in Recs, NEW msgs,
           ServerAt(a.s, c, g, 0), FromClient(r, c, g, 1, msgs)
    PROVE  LET b == TakeRecord(a, r, g, c) IN
           /\ ServerTook(a, b, c, g, 1) /\ b.res = "NONE"
           /\ \E o : FirstFlight(o, c, g) /\ b.out = a.out \o o
<1> DEFINE m == Hello(c)
           b == TakeRecord(a, r, g, c)
           sh == ServerHello(c)
           ct == Certificate(g)
           hd == HelloDone
<1>1. r.type = "handshake" /\ r.body = Piece(m, "all") /\ ~r.sealed /\ ~a.s.rd /\ a.s.pkgm = <<>>
  BY DEF FromClient, ServerAt
<1>2. PICK d \in Steps :
         /\ b = DoMessage(d, m, g, c)
         /\ d.res = "NONE" /\ d.out = a.out
         /\ Apart(d.s, a.s, {"rseq", "pkgm"}) /\ d.s.pkgm = <<>>
         /\ d.s.rseq = IF a.s.rd THEN a.s.rseq + 1 ELSE a.s.rseq
  <2>1. Continues(a.s.pkgm, r.body) /\ "all" \in {"all", "tail"}
    BY <1>1 DEF Continues, Piece
  <2> HIDE DEF m
  <2> QED
    BY <1>1, <2>1, TakesMessage
<1> DEFINE k == d.s
<1>3. /\ k.side = "server" /\ k.open /\ k.hmsg = NoHandshake /\ ~k.wr
      /\ k \in Sessions /\ d \in Steps /\ d.res = "NONE" /\ d.out = a.out
  BY <1>2 DEF ServerAt, Apart, Fields
<1> DEFINE h == [k.hmsg EXCEPT !["cli_hello"] = m, !["srv_hello"] = sh,
                               !["srv_certificate"] = ct, !["srv_hellodone"] = hd]
           s1 == [k EXCEPT !.cr = c, !.sr = c, !.hmsg = h]
           o1 == Handshake(s1, sh)
           o2 == Handshake(s1, ct)
           o3 == Handshake(s1, hd)
<1>4. b = OnClientHello(d, m, g, c)
  BY <1>2, <1>3 DEF DoMessage, Hello
<1>5. b = [d EXCEPT !.s = s1, !.out = @ \o o1 \o o2 \o o3]
  <2> DEFINE t == [k EXCEPT !.cr = m.rand, !.sr = c,
                            !.hmsg["cli_hello"] = m, !.hmsg["srv_hello"] = sh,
                            !.hmsg["srv_certificate"] = ct, !.hmsg["srv_hellodone"] = hd]
  <2>1. b = [d EXCEPT !.s = t, !.out = @ \o Handshake(t, sh) \o Handshake(t, ct) \o Handshake(t, hd)]
    BY <1>3, <1>4 DEF OnClientHello, ServerHello, Certificate, HelloDone
  <2>2. t = s1
    <3>1. m.rand = c
      BY DEF Hello
    <3> HIDE DEF m, sh, ct, hd, k
    <3> QED
      BY <1>3, <3>1 DEF Sessions
  <2> HIDE DEF t, s1, b
  <2> QED
    BY <2>1, <2>2
<1>6. h \in [Slots -> Msgs] /\ h = Kept(c, g, ServerSlots(1))
  <2>1. \A x \in Slots : x \in ServerSlots(1)
            <=> x \in {"cli_hello", "srv_hello", "srv_certificate", "srv_hellodone"}
    BY DEF ServerSlots, Slots
  <2>2. h \in [Slots -> Msgs]
    BY <1>3, MsgsIn DEF NoHandshake
  <2>3. h = Kept(c, g, ServerSlots(1))
    BY <1>3, <2>1, WholeIs DEF Kept, NoHandshake, Slots
  <2> QED
    BY <2>2, <2>3
<1> HIDE DEF h, m, b, sh, ct, hd, k
<1>7. /\ s1 \in Sessions /\ ~s1.wr /\ Apart(s1, k, {"cr", "sr", "hmsg"})
      /\ s1.cr = c /\ s1.sr = c /\ s1.hmsg = h
  BY <1>3, <1>6, MsgsIn DEF Sessions, Apart, Fields
<1> HIDE DEF s1
<1>8. o1 = <<Record("handshake", Piece(sh, "all"))>> /\ o3 = <<Record("handshake", Piece(hd, "all"))>>
  <2>1. sh.t # "certificate" /\ hd.t # "certificate"
    BY DEF ServerHello, HelloDone, sh, hd
  <2> QED
    BY <1>7, <2>1, HandshakePlain
<1>9. /\ o2 \in Seq(Recs) /\ Len(o2) = CertRecords
      /\ \A i \in 1..CertRecords : ~o2[i].sealed /\ o2[i].type = "handshake"
      /\ CertRecords = 1 => o2[1].body = Piece(Certificate(g), "all")
      /\ CertRecords = 2 => /\ o2[1].body = Piece(Certificate(g), "head")
                             /\ o2[2].body = Piece(Certificate(g), "tail")
  BY <1>7, CertificatePlain DEF ct
<1> HIDE DEF o1, o2, o3
<1>10. FirstFlight(o1 \o o2 \o o3, c, g)
  <2> DEFINE r1 == Record("handshake", Piece(sh, "all"))
             r3 == Record("handshake", Piece(hd, "all"))
             p == o1 \o o2
             o == p \o o3
  <2>1. {Piece(sh, "all"), Piece(hd, "all")} \subseteq {NoMsg} \cup MsgPieces \cup Parts
    BY MsgsIn DEF MsgPieces, Piece, Cut, sh, hd
  <2>2. r1 \in Recs /\ r3 \in Recs
    BY <2>1, RecsIn
  <2>3. /\ r1.type = "handshake" /\ r1.body = Piece(sh, "all") /\ ~r1.sealed
        /\ r3.type = "handshake" /\ r3.body = Piece(hd, "all") /\ ~r3.sealed
    BY DEF Record
  <2> HIDE DEF r1, r3
  <2>4. /\ o1 \in Seq(Recs) /\ Len(o1) = 1 /\ o1[1] = r1
        /\ o3 \in Seq(Recs) /\ Len(o3) = 1 /\ o3[1] = r3
    BY <1>8, <2>2 DEF r1, r3
  <2>5. /\ p \in Seq(Recs) /\ Len(p) = 1 + CertRecords
        /\ \A i \in 1..1 + CertRecords : p[i] = IF i <= 1 THEN o1[i] ELSE o2[i - 1]
    <3>1. /\ p \in Seq(Recs) /\ Len(p) = Len(o1) + Len(o2)
          /\ \A i \in 1..Len(o1) + Len(o2) :
                p[i] = IF i <= Len(o1) THEN o1[i] ELSE o2[i - Len(o1)]
      BY <1>9, <2>4, ConcatProperties
    <3> HIDE DEF p
    <3> QED
      BY <1>9, <2>4, <3>1
  <2> HIDE DEF p
  <2>6. /\ o \in Seq(Recs) /\ Len(o) = Flight
        /\ \A i \in 1..Flight : o[i] = IF i <= 1 + CertRecords THEN p[i] ELSE o3[i - (1 + CertRecords)]
    <3>1. /\ o \in Seq(Recs) /\ Len(o) = Len(p) + Len(o3)
          /\ \A i \in 1..Len(p) + Len(o3) :
                o[i] = IF i <= Len(p) THEN p[i] ELSE o3[i - Len(p)]
      BY <2>4, <2>5, ConcatProperties
    <3>2. Len(p) + Len(o3) = Flight /\ Len(p) = 1 + CertRecords
      BY <2>4, <2>5, Constants
    <3> HIDE DEF o
    <3> QED
      BY <3>1, <3>2
  <2> HIDE DEF o
  <2>7. o[1] = r1 /\ o[Flight] = r3 /\ \A i \in 1..CertRecords : o[i + 1] = o2[i]
    BY <2>4, <2>5, <2>6, Constants
  <2>8. FromServer(o[1], c, g, 1, <<>>) /\ FromServer(o[Flight], c, g, Flight, <<>>)
    BY <2>3, <2>7, Constants DEF FromServer, sh, hd
  <2>9. CASE CertRecords = 1
    <3>1. FromServer(o[2], c, g, 2, <<>>)
      BY <1>9, <2>7, <2>9, Constants DEF FromServer
    <3> QED
      BY <2>6, <2>8, <2>9, <3>1, Constants DEF FirstFlight, o, p
  <2>10. CASE CertRecords = 2
    <3>1. o[2] = o2[1] /\ o[3] = o2[2]
      BY <2>7, <2>10
    <3>2. FromServer(o[2], c, g, 2, <<>>) /\ FromServer(o[3], c, g, 3, <<>>)
      BY <1>9, <3>1, <2>10, Constants DEF FromServer
    <3> QED
      BY <2>6, <2>8, <2>10, <3>2, Constants DEF FirstFlight, o, p
  <2> QED
    BY <2>9, <2>10, Constants
<1>11. b.s = s1 /\ b.out = a.out \o (o1 \o o2 \o o3) /\ b.res = "NONE" /\ b \in Steps
  <2>1. b.s = s1 /\ b.out = d.out \o o1 \o o2 \o o3 /\ b.res = "NONE"
        /\ b = [s |-> b.s, out |-> b.out, res |-> b.res]
    BY <1>3, <1>5 DEF Steps
  <2>2. o1 \in Seq(Recs) /\ o3 \in Seq(Recs)
    <3>1. {Piece(sh, "all"), Piece(hd, "all")} \subseteq {NoMsg} \cup MsgPieces \cup Parts
      BY MsgsIn DEF MsgPieces, Piece, Cut, sh, hd
    <3>2. Record("handshake", Piece(sh, "all")) \in Recs /\ Record("handshake", Piece(hd, "all")) \in Recs
      BY <3>1, RecsIn
    <3> QED
      BY <1>8, <3>2
  <2> DEFINE z == d.out
  <2> HIDE DEF z
  <2>3. z \in Seq(Recs)
    BY <1>3 DEF z, Steps
  <2>4. /\ ((z \o o1) \o o2) \o o3 = z \o ((o1 \o o2) \o o3)
        /\ ((z \o o1) \o o2) \o o3 \in Seq(Recs)
    BY <1>9, <2>2, <2>3, Joined
  <2>5. b.out = a.out \o (o1 \o o2 \o o3) /\ b.out \in Seq(Recs)
    BY <1>3, <2>1, <2>4 DEF z
  <2> QED
    BY <1>7, <2>1, <2>5 DEF Steps
<1>12. ServerAt(b.s, c, g, 1) /\ b.s.tcp = a.s.tcp /\ b.s.wseq = a.s.wseq
  <2>1. /\ Apart(b.s, a.s, {"rseq", "pkgm", "cr", "sr", "hmsg"}) /\ b.s.pkgm = <<>>
        /\ b.s.rseq = a.s.rseq /\ b.s.cr = c /\ b.s.sr = c
    BY <1>1, <1>2, <1>7, <1>11 DEF Apart, Fields, k
  <2>2. b.s.hmsg = Kept(c, g, ServerSlots(1))
    BY <1>6, <1>7, <1>11
  <2> QED
    BY <2>1, <2>2 DEF ServerAt, Apart, Fields
<1> QED
  BY <1>10, <1>11, <1>12 DEF ServerTook, b

\* It takes the premaster secret, or has another key by then (OnClientKeyExchange).
LEMMA ServerTakesKeys ==
    ASSUME NEW c \in Conns, NEW g \in Keys, NEW a \in Steps, NEW r \in Recs, NEW msgs, NEW key,
           ServerAt(a.s, c, g, 1), FromClient(r, c, g, 2, msgs)
    PROVE  LET b == TakeRecord(a, r, key, c) IN
           \/ b.res = "ERR"
           \/ ServerTook(a, b, c, g, 2) /\ b.res = "NONE" /\ b.out = a.out
<1> DEFINE m == KeyExchange(c, g)
           b == TakeRecord(a, r, key, c)
<1>1. r.type = "handshake" /\ r.body = Piece(m, "all") /\ ~r.sealed /\ ~a.s.rd /\ a.s.pkgm = <<>>
  BY DEF FromClient, ServerAt
<1>2. PICK d \in Steps :
         /\ b = DoMessage(d, m, key, c)
         /\ d.res = "NONE" /\ d.out = a.out
         /\ Apart(d.s, a.s, {"rseq", "pkgm"}) /\ d.s.pkgm = <<>>
         /\ d.s.rseq = IF a.s.rd THEN a.s.rseq + 1 ELSE a.s.rseq
  <2>1. Continues(a.s.pkgm, r.body) /\ "all" \in {"all", "tail"}
    BY <1>1 DEF Continues, Piece
  <2> HIDE DEF m
  <2> QED
    BY <1>1, <2>1, TakesMessage
<1> DEFINE k == d.s
<1>3. /\ k.side = "server" /\ k.open /\ k.hmsg = Kept(c, g, ServerSlots(1))
      /\ k.cr = c /\ k.sr = c
      /\ k \in Sessions /\ d \in Steps /\ d.res = "NONE" /\ d.out = a.out
  BY <1>2 DEF ServerAt, Apart, Fields
<1> DEFINE h == [k.hmsg EXCEPT !["cli_key_exchange"] = m]
           q == Secret(c)
<1>4. \/ b = Alert(d)
      \/ b = [d EXCEPT !.s.hmsg = h, !.s.master = q]
  <2>1. b = OnClientKeyExchange(d, m, key)
    BY <1>2, <1>3 DEF DoMessage, KeyExchange
  <2> QED
    BY <1>3, <2>1 DEF OnClientKeyExchange, KeyExchange, Secret
<1>5. CASE b = Alert(d)
  BY <1>3, <1>5 DEF Alert, Steps
<1>6. CASE b = [d EXCEPT !.s.hmsg = h, !.s.master = q]
  <2>1. h \in [Slots -> Msgs] /\ h = Kept(c, g, ServerSlots(2)) /\ q \in Secrets
    <3>1. \A x \in Slots : x \in ServerSlots(2)
              <=> x \in ServerSlots(1) \/ x = "cli_key_exchange"
      BY DEF ServerSlots, Slots
    <3>2. h \in [Slots -> Msgs]
      BY <1>3, MsgsIn DEF Sessions
    <3>3. h = Kept(c, g, ServerSlots(2))
      BY <1>3, <3>1, WholeIs DEF Kept, Slots
    <3> QED
      BY <3>2, <3>3, MsgsIn
  <2> HIDE DEF h, b, m, q
  <2>2. b \in Steps
    BY <1>3, <1>6, <2>1 DEF Steps, Sessions
  <2>3. b.res = "NONE" /\ b.out = a.out
    BY <1>3, <1>6 DEF Steps
  <2>4. Apart(b.s, k, {"hmsg", "master"}) /\ b.s.hmsg = h /\ b.s.master = q
    BY <1>3, <1>6, <2>2 DEF Steps, Sessions, Apart, Fields
  <2>5. /\ Apart(b.s, a.s, {"hmsg", "master", "rseq", "pkgm"}) /\ b.s.pkgm = <<>>
        /\ b.s.rseq = a.s.rseq
    BY <1>1, <1>2, <2>4 DEF Apart, Fields
  <2>6. ServerAt(b.s, c, g, 2) /\ b.s.tcp = a.s.tcp /\ b.s.wseq = a.s.wseq
    BY <2>1, <2>4, <2>5 DEF ServerAt, Apart, Fields, q
  <2> QED
    BY <2>2, <2>3, <2>6 DEF ServerTook, b
<1> QED
  BY <1>4, <1>5, <1>6

\* It takes the ChangeCipherSpec.
LEMMA ServerTakesChange ==
    ASSUME NEW c \in Conns, NEW g \in Keys, NEW a \in Steps, NEW r \in Recs, NEW msgs, NEW key,
           ServerAt(a.s, c, g, 2), FromClient(r, c, g, 3, msgs)
    PROVE  LET b == TakeRecord(a, r, key, c) IN
           ServerTook(a, b, c, g, 3) /\ b.res = "NONE" /\ b.out = a.out
<1> DEFINE b == TakeRecord(a, r, key, c)
<1>1. r.type = "change_cipher_spec" /\ ~r.sealed /\ ~a.s.rd
  BY DEF FromClient, ServerAt
<1>2. b = [a EXCEPT !.s.rd = TRUE, !.s.rseq = 0, !.res = "NONE"]
  BY <1>1 DEF TakeRecord, DoRecord
<1> HIDE DEF b
<1>3. b \in Steps /\ b.res = "NONE" /\ b.out = a.out
  BY <1>2 DEF Steps, Sessions
<1>4. Apart(b.s, a.s, {"rd", "rseq"}) /\ b.s.rd /\ b.s.rseq = 0
  BY <1>2, <1>3 DEF Steps, Sessions, Apart, Fields
<1>5. ServerSlots(2) = ServerSlots(3)
  BY DEF ServerSlots
<1>6. ServerAt(b.s, c, g, 3)
  BY <1>4, <1>5 DEF ServerAt, Apart, Fields
<1>7. b.s.tcp = a.s.tcp /\ b.s.wseq = a.s.wseq
  BY <1>4 DEF Apart, Fields
<1> QED
  BY <1>3, <1>6, <1>7 DEF ServerTook, b

\* The verify data of the client is what the server computes (OnClientFinish).
LEMMA ServerTakesFinished ==
    ASSUME NEW c \in Conns, NEW g \in Keys, NEW a \in Steps, NEW r \in Recs, NEW msgs, NEW key,
           ServerAt(a.s, c, g, 3), FromClient(r, c, g, 4, msgs), Opens(a.s, r)
    PROVE  LET b == TakeRecord(a, r, key, c) IN
           /\ ServerTook(a, b, c, g, 4) /\ b.res = "HKOK" /\ b.s.wseq = 1
           /\ \E o : ServerFlight(o, c, g) /\ b.out = a.out \o o
<1> DEFINE m == ClientFinished(c, g)
           sm == ServerFinished(c, g)
           b == TakeRecord(a, r, key, c)
<1>1. r.type = "handshake" /\ r.body = Piece(m, "all") /\ a.s.rd /\ a.s.pkgm = <<>>
  BY DEF FromClient, ServerAt
<1>2. PICK d \in Steps :
         /\ b = DoMessage(d, m, key, c)
         /\ d.res = "NONE" /\ d.out = a.out
         /\ Apart(d.s, a.s, {"rseq", "pkgm"}) /\ d.s.pkgm = <<>>
         /\ d.s.rseq = IF a.s.rd THEN a.s.rseq + 1 ELSE a.s.rseq
  <2>1. Continues(a.s.pkgm, r.body) /\ "all" \in {"all", "tail"}
    BY <1>1 DEF Continues, Piece
  <2> HIDE DEF m
  <2> QED
    BY <1>1, <2>1, TakesMessage
<1> DEFINE k == d.s
<1>3. /\ k.side = "server" /\ k.open /\ k.hmsg = Said(c, g) /\ k.master = Secret(c)
      /\ ~k.wr /\ k.rseq = 1
      /\ k \in Sessions /\ d \in Steps /\ d.res = "NONE" /\ d.out = a.out
  <2>1. \A x \in Slots : x \in ServerSlots(3) <=> x # "cli_finished"
    BY DEF ServerSlots
  <2>2. Kept(c, g, ServerSlots(3)) = Said(c, g)
    BY <2>1 DEF Kept, Said, Whole, Slots
  <2> QED
    BY <1>1, <1>2, <2>2 DEF ServerAt, Apart, Fields
<1>4. m = Finished("client", k, FALSE)
  <2>1. [Said(c, g) EXCEPT !["cli_finished"] = NoMsg] = Said(c, g)
    BY DEF Said, Slots
  <2>2. Out(k.hmsg, FALSE) = Said(c, g)
    BY <1>3, <2>1 DEF Out
  <2> QED
    BY <1>3, <2>2 DEF Finished, ClientFinished
<1> DEFINE h == [k.hmsg EXCEPT !["cli_finished"] = m]
           s0 == [k EXCEPT !.hmsg = h]
           s1 == StartCipher(s0)
           o1 == ChangeCipherSpec(k)
           o2 == Handshake(s1, sm)
           e == NoHandshake
<1>5. h = Whole(c, g) /\ h \in [Slots -> Msgs] /\ e \in [Slots -> Msgs]
  <2>1. h = Whole(c, g)
    BY <1>3 DEF Whole
  <2>2. m \in Msgs /\ k.hmsg \in [Slots -> Msgs]
    BY <1>3, MsgsIn DEF Sessions
  <2> HIDE DEF m, k
  <2>3. h \in [Slots -> Msgs]
    BY <2>2
  <2>4. e \in [Slots -> Msgs]
    BY MsgsIn DEF NoHandshake
  <2> QED
    BY <2>1, <2>3, <2>4
<1>6. /\ s0 \in Sessions /\ Apart(s0, k, {"hmsg"}) /\ s0.hmsg = h
      /\ s1 \in Sessions /\ Apart(s1, k, {"hmsg", "wr", "wseq"}) /\ s1.hmsg = h
      /\ s1.wr /\ s1.wseq = 0
  <2> HIDE DEF h, k
  <2>1. s0 \in Sessions /\ Apart(s0, k, {"hmsg"}) /\ s0.hmsg = h
    BY <1>3, <1>5 DEF Sessions, Apart, Fields
  <2> HIDE DEF s0
  <2>2. s1 \in Sessions /\ Apart(s1, s0, {"wr", "wseq"}) /\ s1.wr /\ s1.wseq = 0
    BY <2>1 DEF StartCipher, Sessions, Apart, Fields
  <2> QED
    BY <2>1, <2>2 DEF Apart, Fields
<1>7. sm = Finished("server", s1, TRUE)
  <2> HIDE DEF s1, h, k
  <2>1. Whole(c, g) = [Whole(c, g) EXCEPT !["cli_finished"] = @]
    BY DEF Whole, Said
  <2>2. Out(s1.hmsg, TRUE) = Whole(c, g)
    BY <1>5, <1>6, <2>1 DEF Out
  <2>3. s1.master = Secret(c)
    BY <1>3, <1>6 DEF Apart, Fields
  <2> QED
    BY <2>2, <2>3 DEF Finished, ServerFinished
<1>8. b = EndHandshake([d EXCEPT !.s = [s1 EXCEPT !.wseq = 1], !.out = @ \o o1 \o o2])
  <2>1. b = OnClientFinish(d, m)
    BY <1>2, <1>3 DEF DoMessage, ClientFinished
  <2> DEFINE t == StartCipher([d.s EXCEPT !.hmsg["cli_finished"] = m])
  <2>2. s1 = t
    BY <1>3 DEF Sessions
  <2>3. b = EndHandshake([d EXCEPT !.s = [t EXCEPT !.wseq = 1],
                                   !.out = @ \o o1 \o Handshake(t, Finished("server", t, TRUE))])
    <3> HIDE DEF m, b
    <3> QED
      BY <1>3, <1>4, <2>1 DEF OnClientFinish
  <2> HIDE DEF t, s1, b, o1, sm
  <2> QED
    BY <1>7, <2>2, <2>3
<1> HIDE DEF h, m, sm, b, k, s0, s1, e
<1>9. o1 = <<Record("change_cipher_spec", NoMsg)>>
  BY <1>3, ChangePlain
<1> DEFINE r2 == Sealed(s1, 0, Record("handshake", Piece(sm, "all")))
<1>10. o2 = <<r2>> /\ r2.type = "handshake" /\ r2.body = Piece(sm, "all") /\ r2.sealed
  <2>1. sm.t # "certificate"
    BY DEF ServerFinished, sm
  <2> QED
    BY <1>6, <2>1, HandshakeSealed
<1> HIDE DEF o1, o2
<1>11. ServerFlight(o1 \o o2, c, g) /\ o1 \in Seq(Recs) /\ o2 \in Seq(Recs)
  <2> DEFINE r1 == Record("change_cipher_spec", NoMsg)
             o == o1 \o o2
  <2>1. {NoMsg, Piece(sm, "all")} \subseteq {NoMsg} \cup MsgPieces \cup Parts
    BY MsgsIn DEF MsgPieces, Piece, Cut, sm
  <2>2. r1 \in Recs /\ r2 \in Recs
    BY <1>6, <2>1, RecsIn
  <2>3. r1.type = "change_cipher_spec" /\ ~r1.sealed
    BY DEF Record
  <2>4. /\ o1 \in Seq(Recs) /\ Len(o1) = 1 /\ o1[1] = r1
        /\ o2 \in Seq(Recs) /\ Len(o2) = 1 /\ o2[1] = r2
    <3> HIDE DEF r1, r2
    <3>1. o1 = <<r1>> /\ o2 = <<r2>>
      BY <1>9, <1>10 DEF r1
    <3> QED
      BY <2>2, <3>1
  <2> HIDE DEF r1, r2
  <2>5. /\ o \in Seq(Recs) /\ Len(o) = Len(o1) + Len(o2)
        /\ \A i \in 1..Len(o1) + Len(o2) :
              o[i] = IF i <= Len(o1) THEN o1[i] ELSE o2[i - Len(o1)]
    BY <2>4, ConcatProperties
  <2> HIDE DEF o
  <2>6. o \in Seq(Recs) /\ Len(o) = 2 /\ o[1] = r1 /\ o[2] = r2
    BY <2>4, <2>5
  <2>7. FromServer(r1, c, g, Switch, <<>>)
    BY <2>3, Constants DEF FromServer
  <2>8. FromServer(r2, c, g, Switch + 1, <<>>)
    BY <1>10, Constants DEF FromServer, sm
  <2>9. \A i \in 1..2 : FromServer(o[i], c, g, Flight + i, <<>>)
    BY <2>6, <2>7, <2>8, Constants
  <2> QED
    BY <1>10, <2>4, <2>6, <2>9 DEF ServerFlight, o
<1>12. /\ b.s = [[s1 EXCEPT !.wseq = 1] EXCEPT !.open = FALSE, !.hmsg = e, !.fin = TRUE]
       /\ b.out = d.out \o o1 \o o2 /\ b.res = "HKOK"
       /\ b = [s |-> b.s, out |-> b.out, res |-> b.res]
  BY <1>3, <1>8 DEF EndHandshake, Steps, e
<1>13. b.s \in Sessions /\ Apart(b.s, s1, {"wseq", "open", "hmsg", "fin"})
       /\ b.s.wseq = 1 /\ ~b.s.open /\ b.s.hmsg = e /\ b.s.fin
  <2> DEFINE t == [s1 EXCEPT !.wseq = 1]
             u == [t EXCEPT !.open = FALSE, !.hmsg = e, !.fin = TRUE]
  <2>1. t \in Sessions /\ Apart(t, s1, {"wseq"}) /\ t.wseq = 1
    BY <1>6 DEF Sessions, Apart, Fields
  <2> HIDE DEF t
  <2>2. u \in Sessions /\ Apart(u, t, {"open", "hmsg", "fin"})
        /\ ~u.open /\ u.hmsg = e /\ u.fin
    BY <1>5, <2>1 DEF Sessions, Apart, Fields
  <2>3. b.s = u
    BY <1>12 DEF t
  <2> HIDE DEF u
  <2> QED
    BY <2>1, <2>2, <2>3 DEF Apart, Fields
<1>14. b.out = a.out \o (o1 \o o2) /\ b \in Steps
  <2> DEFINE z == d.out
  <2> HIDE DEF z
  <2>1. z \in Seq(Recs)
    BY <1>3 DEF z, Steps
  <2>2. (z \o o1) \o o2 = z \o (o1 \o o2)
    BY <1>11, <2>1, ConcatAssociative
  <2>3. o1 \o o2 \in Seq(Recs)
    BY <1>11 DEF ServerFlight
  <2>4. z \o (o1 \o o2) \in Seq(Recs)
    BY <2>1, <2>3, ConcatProperties
  <2>5. b.out = z \o (o1 \o o2) /\ b.res = "HKOK" /\ b.s \in Sessions
        /\ b = [s |-> b.s, out |-> b.out, res |-> b.res]
    BY <1>12, <1>13, <2>2 DEF z
  <2>6. b.out = a.out \o (o1 \o o2)
    BY <1>3, <2>5 DEF z
  <2> HIDE DEF b, z, o1, o2
  <2> QED
    BY <2>4, <2>5, <2>6 DEF Steps
<1>15. ServerAt(b.s, c, g, 4) /\ b.s.tcp = a.s.tcp
  <2>1. /\ Apart(b.s, a.s, {"rseq", "pkgm", "wr", "wseq", "open", "hmsg", "fin"})
        /\ b.s.pkgm = <<>> /\ b.s.rseq = 1 /\ b.s.wr
    BY <1>2, <1>3, <1>6, <1>13 DEF Apart, Fields, k
  <2> QED
    BY <1>13, <2>1 DEF ServerAt, Apart, Fields, e
<1> QED
  BY <1>11, <1>12, <1>13, <1>14, <1>15 DEF ServerTook, b

\* The server is given a part of a message, or a record that does not open.
LEMMA ServerTakesData ==
    ASSUME NEW c \in Conns, NEW g \in Keys, NEW a \in Steps, NEW r \in Recs, NEW msgs, NEW key,
           NEW m \in Nat, m >= 4, ServerAt(a.s, c, g, m), FromClient(r, c, g, m + 1, msgs)
    PROVE  LET b == TakeRecord(a, r, key, c) IN
           \/ b.res = "ERR"
           \/ /\ ServerTook(a, b, c, g, m + 1) /\ b.res = "APPDATA" /\ r.sealed
              /\ b.out = Append(a.out, Record("data", msgs[m - 3]))
<1> DEFINE b == TakeRecord(a, r, key, c)
<1>1. a.s.rd
  BY DEF ServerAt
<1>2. CASE r.type = "data"
  <2>1. b = Fail(a)
    BY <1>1, <1>2 DEF TakeRecord
  <2> QED
    BY <2>1 DEF Fail, Steps
<1>3. CASE r.type # "data" /\ ~Opens(a.s, r)
  BY <1>1, <1>3, DoesNotOpen DEF GaveUp
<1>4. CASE r.type # "data" /\ Opens(a.s, r)
  <2>1. r.type = "application_data" /\ r.body = msgs[m - 3] /\ r.sealed
    <3>1. m + 1 > 4 /\ (m + 1) - 4 = m - 3
      OBVIOUS
    <3> QED
      BY <1>4, <3>1 DEF FromClient, Opens
  <2>2. /\ b \in Steps /\ b.res = "APPDATA" /\ b.out = Append(a.out, Record("data", r.body))
        /\ Apart(b.s, a.s, {"rseq"}) /\ b.s.rseq = a.s.rseq + 1
    <3>1. r.type = "application_data" /\ a.s.rd /\ Opens(a.s, r) /\ a \in Steps /\ r \in Recs
      BY <1>1, <1>4, <2>1
    <3> QED
      BY ONLY <3>1, TakesData
  <2> HIDE DEF b
  <2>3. ServerAt(b.s, c, g, m + 1)
    <3>1. /\ a.s.side = "server" /\ ~a.s.open /\ a.s.fin /\ a.s.wr /\ a.s.rd
          /\ a.s.rseq = m - 3 /\ a.s.pkgm = <<>> /\ a.s.hmsg = NoHandshake
          /\ a.s.cr = c /\ a.s.sr = c /\ a.s.master = Secret(c)
      BY DEF ServerAt
    <3>2. /\ b.s.side = "server" /\ ~b.s.open /\ b.s.fin /\ b.s.wr /\ b.s.rd
          /\ b.s.rseq = (m + 1) - 3 /\ b.s.pkgm = <<>> /\ b.s.hmsg = NoHandshake
          /\ b.s.cr = c /\ b.s.sr = c /\ b.s.master = Secret(c) /\ b.s \in Sessions
      BY <2>2, <3>1 DEF Apart, Fields
    <3> QED
      BY <3>2 DEF ServerAt
  <2>4. b.s.tcp = a.s.tcp /\ b.s.wseq = a.s.wseq
    BY <2>2 DEF Apart, Fields
  <2> QED
    BY <2>1, <2>2, <2>3, <2>4 DEF ServerTook, b
<1> QED
  BY <1>2, <1>3, <1>4

\* What a server has made of a when it has taken record m, and not given up.
ServerMoves(a, b, c, g, m, msgs) ==
    /\ ServerTook(a, b, c, g, m)
    /\ m = 1 => b.res = "NONE" /\ \E o : FirstFlight(o, c, g) /\ b.out = a.out \o o
    /\ m \in {2, 3} => b.res = "NONE" /\ b.out = a.out
    /\ m = 4 => /\ b.res = "HKOK" /\ b.s.wseq = 1
                /\ \E o : ServerFlight(o, c, g) /\ b.out = a.out \o o
    /\ m > 4 => b.res = "APPDATA" /\ b.out = Append(a.out, Record("data", msgs[m - 4]))

\* The next record of the client's stream, whichever it is.
LEMMA ServerTakes ==
    ASSUME NEW c \in Conns, NEW g \in Keys, NEW a \in Steps, NEW key, NEW r \in Recs,
           NEW msgs, NEW m \in Nat, ServerAt(a.s, c, g, m), FromClient(r, c, g, m + 1, msgs),
           m = 0 => key = g
    PROVE  LET b == TakeRecord(a, r, key, c) IN
           \/ b.res = "ERR"
           \/ ServerMoves(a, b, c, g, m + 1, msgs) /\ (r.sealed <=> m + 1 > 3)
<1> DEFINE b == TakeRecord(a, r, key, c)
<1> HIDE DEF b
<1>1. m < 3 => ~r.sealed
  BY DEF FromClient
<1>2. CASE m = 0
  <2>1. /\ ServerTook(a, b, c, g, 1) /\ b.res = "NONE"
        /\ \E o : FirstFlight(o, c, g) /\ b.out = a.out \o o
    <3>1. ServerAt(a.s, c, g, 0) /\ FromClient(r, c, g, 1, msgs) /\ key = g
      BY <1>2
    <3> QED
      BY <3>1, ServerTakesHello DEF b
  <2>2. ServerMoves(a, b, c, g, 1, msgs)
    <3>1. ~(1 \in {2, 3}) /\ 1 # 4 /\ ~(1 > 4)
      OBVIOUS
    <3> QED
      BY <2>1, <3>1, Zenon DEF ServerMoves
  <2>3. m + 1 = 1 /\ ~r.sealed
    BY <1>1, <1>2
  <2> QED
    BY <2>2, <2>3 DEF b
<1>3. CASE m = 1
  <2>1. b.res = "ERR" \/ (ServerTook(a, b, c, g, 2) /\ b.res = "NONE" /\ b.out = a.out)
    BY <1>3, ServerTakesKeys DEF b
  <2> QED
    BY <1>1, <1>3, <2>1 DEF ServerMoves, b
<1>4. CASE m = 2
  <2>1. ServerTook(a, b, c, g, 3) /\ b.res = "NONE" /\ b.out = a.out
    BY <1>4, ServerTakesChange DEF b
  <2> QED
    BY <1>1, <1>4, <2>1 DEF ServerMoves, b
<1>5. CASE m = 3 /\ ~Opens(a.s, r)
  <2>1. a.s.rd
    BY <1>5 DEF ServerAt
  <2> QED
    BY <1>5, <2>1, DoesNotOpen DEF GaveUp
<1>6. CASE m = 3 /\ Opens(a.s, r)
  <2>1. /\ ServerTook(a, b, c, g, 4) /\ b.res = "HKOK" /\ b.s.wseq = 1
        /\ \E o : ServerFlight(o, c, g) /\ b.out = a.out \o o
    BY <1>6, ServerTakesFinished DEF b
  <2>2. r.sealed
    BY <1>6 DEF Opens
  <2> QED
    BY <1>6, <2>1, <2>2 DEF ServerMoves, b
<1>7. CASE m >= 4
  <2>1. \/ b.res = "ERR"
        \/ /\ ServerTook(a, b, c, g, m + 1) /\ b.res = "APPDATA" /\ r.sealed
           /\ b.out = Append(a.out, Record("data", msgs[m - 3]))
    BY <1>7, ServerTakesData DEF b
  <2>2. (m + 1) - 4 = m - 3
    OBVIOUS
  <2> QED
    BY <1>7, <2>1, <2>2 DEF ServerMoves, b
<1> QED
  BY <1>2, <1>3, <1>4, <1>5, <1>6, <1>7

-----------------------------------------------------------------------------
(* An end reads: one record after the other.                                 *)

\* TakePiece of p from a is TakeRecord from b.
Takes(a, b, p, key, id) ==
    /\ TakePiece(a, p, key, id) = TakeRecord(b, p.of, key, id)
    /\ Apart(b.s, a.s, {"tcp"}) /\ b.s.tcp = <<>>
    /\ b.out = a.out /\ b.res = a.res

\* A record, or the tail of one, behind what was kept.
LEMMA TakesWhole ==
    ASSUME NEW a \in Steps, a.res # "ERR", NEW p \in Pieces, NEW key, NEW id,
           p.part # "head", Continues(a.s.tcp, p)
    PROVE  \E b \in Steps : Takes(a, b, p, key, id)
<1> DEFINE e == <<>>
           b == [a EXCEPT !.s.tcp = e]
<1>1. TakePiece(a, p, key, id) = TakeRecord(b, p.of, key, id)
  BY DEF TakePiece
<1>2. e \in Seq(Pieces)
  OBVIOUS
<1> HIDE DEF e
<1>3. b \in Steps /\ b.out = a.out /\ b.res = a.res
  BY <1>2 DEF Steps, Sessions
<1>4. Apart(b.s, a.s, {"tcp"}) /\ b.s.tcp = e
  BY <1>3 DEF Steps, Sessions, Apart, Fields
<1> HIDE DEF b
<1> QED
  BY <1>1, <1>3, <1>4 DEF Takes, e

\* The head of a record is kept, and nothing comes of it yet.
LEMMA TakesHead ==
    ASSUME NEW a \in Steps, a.res # "ERR", NEW p \in Pieces, NEW key, NEW id,
           p.part = "head", a.s.tcp = <<>>
    PROVE  LET b == TakePiece(a, p, key, id) IN
           /\ b \in Steps /\ Apart(b.s, a.s, {"tcp"}) /\ b.s.tcp # <<>>
           /\ b.out = a.out /\ b.res = a.res
<1> DEFINE e == <<p>>
           b == TakePiece(a, p, key, id)
<1>1. b = [a EXCEPT !.s.tcp = e]
  BY DEF TakePiece, Continues
<1>2. e \in Seq(Pieces) /\ e # <<>>
  OBVIOUS
<1> HIDE DEF e, b
<1>3. b \in Steps /\ b.out = a.out /\ b.res = a.res
  BY <1>1, <1>2 DEF Steps, Sessions
<1>4. Apart(b.s, a.s, {"tcp"}) /\ b.s.tcp = e
  BY <1>1, <1>3 DEF Steps, Sessions, Apart, Fields
<1> QED
  BY <1>2, <1>3, <1>4 DEF b

\* The bytes of a record not yet whole change nothing else of a session.
LEMMA Cleared ==
    ASSUME NEW k, NEW t, Apart(t, k, {"tcp"}), NEW c, NEW g, NEW n
    PROVE  /\ ClientAt(k, c, g, n) => ClientAt(t, c, g, n)
           /\ ServerAt(k, c, g, n) => ServerAt(t, c, g, n)
<1>1. /\ t \in Sessions /\ t.side = k.side /\ t.open = k.open /\ t.fin = k.fin /\ t.wr = k.wr
      /\ t.rd = k.rd /\ t.rseq = k.rseq /\ t.pkgm = k.pkgm /\ t.hmsg = k.hmsg
      /\ t.cr = k.cr /\ t.sr = k.sr /\ t.master = k.master /\ t.cert = k.cert
      /\ t.trust = k.trust
  BY DEF Apart, Fields
<1> QED
  BY <1>1 DEF ClientAt, ServerAt

\* out is what the application is given of msgs from d0 + 1 to d.
Handed(out, msgs, d0, d) ==
    /\ out \in Seq(Recs) /\ Len(out) = d - d0
    /\ \A j \in 1..d - d0 : out[j] = Record("data", msgs[d0 + j])

\* One more part handed to the application.
LEMMA HandedOne ==
    ASSUME NEW o, NEW msgs, NEW d0 \in Nat, NEW d \in Nat, d0 <= d, Handed(o, msgs, d0, d),
           NEW q, q = Append(o, Record("data", msgs[d + 1])), q \in Seq(Recs)
    PROVE  Handed(q, msgs, d0, d + 1)
<1> DEFINE y == Record("data", msgs[d + 1])
           n == d - d0
           F(j) == Record("data", msgs[d0 + j])
<1>1. o \in Seq(Recs) /\ Len(o) = n /\ n \in Nat /\ (d + 1) - d0 = n + 1 /\ d0 + (n + 1) = d + 1
  BY DEF Handed
<1>2. \A j \in 1..n : o[j] = F(j)
  BY DEF Handed
<1>3. y = F(n + 1)
  BY <1>1
<1> HIDE DEF y, n
<1>4. Len(q) = n + 1 /\ q[n + 1] = y /\ \A j \in 1..n : q[j] = o[j]
  BY <1>1 DEF y
<1>5. ASSUME NEW j \in 1..n + 1 PROVE q[j] = F(j)
  <2> HIDE DEF F
  <2> QED
    BY <1>1, <1>2, <1>3, <1>4
<1> QED
  BY <1>1, <1>4, <1>5 DEF Handed

\* What a session s keeps of a record when it has taken i whole ones.
Behind(a, s, i) == a.s.tcp = IF i = 0 THEN s.tcp ELSE <<>>

\* What a client s that had taken n0 records has made of i more of w.
ClientRun(a, s, c, g, n0, i, w, msgs) ==
    /\ a \in Steps /\ ClientAt(a.s, c, g, n0 + i)
    /\ a.s.trust = s.trust
    /\ a.res = IF i = 0 \/ n0 + i <= Switch THEN "NONE"
               ELSE IF n0 + i = Switch + 1 THEN "HKOK" ELSE "APPDATA"
    /\ IF n0 < Flight /\ n0 + i = Flight THEN ClientFlight(a.out, c, g) /\ a.s.wseq = 1
       ELSE /\ Handed(a.out, msgs, Beyond(n0, Switch + 1), Beyond(n0 + i, Switch + 1))
            /\ a.s.wseq = s.wseq
    /\ \A j \in 1..i : w[j].of.sealed <=> n0 + j > Switch

\* What it leaves when it gives up: data that was for its application.
Junk(out) ==
    out \in Seq(Recs) /\ \A j \in 1..Len(out) : out[j].type = "data" /\ ~out[j].sealed
ClientQuit(a, n0, w) ==
    /\ a \in Steps /\ a.res = "ERR" /\ a.s.side = "client" /\ Junk(a.out)
    /\ a.out # <<>> => n0 + Len(w) > Switch + 1

\* One more piece of a read, at the client.
LEMMA ClientRunStep ==
    ASSUME NEW c \in Conns, NEW g \in Keys, NEW s \in Sessions, NEW n0 \in Nat, NEW key,
           NEW w \in Seq(Pieces), Fits(s.tcp, w), NEW msgs,
           \A j \in 1..Len(w) : FromServer(w[j].of, c, g, n0 + j, msgs),
           n0 < Flight => n0 + Len(w) <= Flight,
           NEW i \in 0..Len(w) - 1, NEW a, ClientRun(a, s, c, g, n0, i, w, msgs),
           Behind(a, s, i)
    PROVE  LET b == TakePiece(a, w[i + 1], key, c) IN
           \/ ClientRun(b, s, c, g, n0, i + 1, w, msgs) /\ Behind(b, s, i + 1)
           \/ ClientQuit(b, n0, w)
<1> DEFINE p == w[i + 1]
           r == p.of
           b == TakePiece(a, p, key, c)
           n == n0 + i
<1>1. a \in Steps /\ n \in Nat /\ n0 + (i + 1) = n + 1 /\ i + 1 \in 1..Len(w) /\ i \in Nat
  BY DEF ClientRun
<1>2. p \in Pieces /\ r \in Recs
  <2>1. w[i + 1] \in Pieces
    BY <1>1
  <2> QED
    BY <2>1 DEF Pieces
<1>3. FromServer(r, c, g, n + 1, msgs)
  BY <1>1
<1>4. p.part # "head" /\ Continues(a.s.tcp, p)
  <2>1. a.s.tcp = IF i = 0 THEN s.tcp ELSE <<>>
    BY DEF Behind
  <2>2. CASE i = 0
    BY <1>1, <2>1, <2>2 DEF Fits, Continues
  <2>3. CASE i # 0
    BY <1>1, <2>1, <2>3 DEF Fits, Continues
  <2> QED
    BY <2>2, <2>3
<1> HIDE DEF p
<1>5. PICK x \in Steps :
         /\ b = TakeRecord(x, r, key, c)
         /\ Apart(x.s, a.s, {"tcp"}) /\ x.s.tcp = <<>>
         /\ x.out = a.out /\ x.res = a.res
  <2>1. a.res # "ERR" /\ a \in Steps /\ p \in Pieces
    BY <1>2 DEF ClientRun
  <2>2. \E x \in Steps : Takes(a, x, p, key, c)
    BY <1>4, <2>1, TakesWhole
  <2> QED
    BY <2>2 DEF Takes
<1>6. ClientAt(x.s, c, g, n) /\ x.s.trust = s.trust /\ x.s.wseq = a.s.wseq /\ x.s.side = "client"
  <2>1. x.s.trust = a.s.trust /\ x.s.wseq = a.s.wseq
    BY <1>5 DEF Apart, Fields
  <2>2. ClientAt(a.s, c, g, n) /\ a.s.trust = s.trust
    BY DEF ClientRun
  <2>3. ClientAt(x.s, c, g, n)
    BY <1>5, <2>2, Cleared
  <2> QED
    BY <2>1, <2>2, <2>3 DEF ClientAt
<1> DEFINE d0 == Beyond(n0, Switch + 1)
           d == Beyond(n, Switch + 1)
<1>7. ~(n0 < Flight /\ n = Flight)
  BY <1>1, Constants
<1>8. Handed(a.out, msgs, d0, d) /\ a.s.wseq = s.wseq
  BY <1>1, <1>7 DEF ClientRun
<1>9. d0 \in Nat /\ d \in Nat /\ d0 <= d /\ (d > 0 => n > Switch + 1)
  BY <1>1, Constants DEF Beyond
<1> HIDE DEF b, r, n
<1>10. CASE GaveUp(x, b)
  <2>1. b \in Steps /\ b.res = "ERR" /\ b.s.side = "client" /\ b.out = a.out
    BY <1>5, <1>6, <1>10 DEF GaveUp
  <2>2. Junk(a.out)
    <3>1. a.out \in Seq(Recs) /\ \A j \in 1..Len(a.out) : a.out[j] = Record("data", msgs[d0 + j])
      BY <1>8 DEF Handed
    <3>2. \A y : Record("data", y).type = "data" /\ ~Record("data", y).sealed
      BY DEF Record
    <3> QED
      BY <3>1, <3>2 DEF Junk
  <2>3. ASSUME a.out # <<>> PROVE n0 + Len(w) > Switch + 1
    <3>1. Len(a.out) > 0
      BY <1>8, <2>3 DEF Handed
    <3>2. d > 0
      BY <1>8, <1>9, <3>1 DEF Handed
    <3> QED
      BY <1>1, <1>9, <3>2, Constants DEF n
  <2> QED
    BY <2>1, <2>2, <2>3 DEF ClientQuit, b, p
<1>11. CASE ClientMoves(x, b, c, g, n + 1, msgs) /\ (r.sealed <=> n + 1 > Switch)
  <2>1. /\ b \in Steps /\ ClientAt(b.s, c, g, n + 1) /\ b.s.tcp = <<>> /\ b.s.trust = s.trust
        /\ n + 1 # Flight => b.s.wseq = s.wseq
    BY <1>5, <1>6, <1>8, <1>11 DEF ClientMoves, ClientTook
  <2>2. b.res = IF i + 1 = 0 \/ n + 1 <= Switch THEN "NONE"
                ELSE IF n + 1 = Switch + 1 THEN "HKOK" ELSE "APPDATA"
    BY <1>1, <1>11, Constants DEF ClientMoves
  <2>3. \A j \in 1..i + 1 : w[j].of.sealed <=> n0 + j > Switch
    <3>1. \A j \in 1..i : w[j].of.sealed <=> n0 + j > Switch
      BY DEF ClientRun
    <3>2. w[i + 1].of.sealed <=> n0 + (i + 1) > Switch
      BY <1>1, <1>11 DEF r, p
    <3> QED
      <4>1. ASSUME NEW j \in 1..i + 1 PROVE w[j].of.sealed <=> n0 + j > Switch
        <5>1. j \in 1..i \/ j = i + 1
          BY <1>1
        <5> QED
          BY <3>1, <3>2, <5>1
      <4> QED
        BY <4>1
  <2>6. Behind(b, s, i + 1)
    BY <1>1, <2>1 DEF Behind
  <2>4. CASE n0 < Flight /\ n + 1 = Flight
    <3>1. b.s.wseq = 1 /\ \E o : ClientFlight(o, c, g) /\ b.out = a.out \o o
      BY <1>5, <1>11, <2>4 DEF ClientMoves
    <3>2. a.out = <<>>
      <4>1. d0 = 0 /\ d = 0
        BY <1>1, <2>4, Constants DEF Beyond
      <4> QED
        BY <1>8, <4>1 DEF Handed
    <3>3. ClientFlight(b.out, c, g)
      <4>1. PICK o : ClientFlight(o, c, g) /\ b.out = <<>> \o o
        BY <3>1, <3>2
      <4> QED
        BY <4>1 DEF ClientFlight
    <3>4. ClientRun(b, s, c, g, n0, i + 1, w, msgs)
      <4> DEFINE q == n0 + (i + 1)
                 k == i + 1
      <4>1. /\ b \in Steps /\ ClientAt(b.s, c, g, q)
            /\ b.s.trust = s.trust /\ q = Flight /\ n0 < Flight
        BY <1>1, <2>1, <2>4
      <4>2. b.res = IF k = 0 \/ q <= Switch THEN "NONE"
                    ELSE IF q = Switch + 1 THEN "HKOK" ELSE "APPDATA"
        BY <1>1, <2>2
      <4>3. \A j \in 1..k : w[j].of.sealed <=> n0 + j > Switch
        BY <2>3
      <4>4. q = n0 + k
        OBVIOUS
      <4> HIDE DEF q, k
      <4>5. ClientRun(b, s, c, g, n0, k, w, msgs)
        BY <3>1, <3>3, <4>1, <4>2, <4>3, <4>4 DEF ClientRun
      <4> QED
        BY <4>5 DEF k
    <3> QED
      BY <2>6, <3>4 DEF b, p
  <2>5. CASE ~(n0 < Flight /\ n + 1 = Flight)
    <3>1. n + 1 # Flight
      BY <1>1, <1>3, <2>5, Constants DEF n
    <3>2. Handed(b.out, msgs, d0, Beyond(n + 1, Switch + 1))
      <4>1. CASE n + 1 <= Switch + 1
        <5>1. b.out = a.out
          BY <1>1, <1>5, <1>11, <3>1, <4>1, Constants DEF ClientMoves
        <5>2. Beyond(n + 1, Switch + 1) = d
          BY <1>1, <4>1, Constants DEF Beyond
        <5> QED
          BY <1>8, <5>1, <5>2
      <4>2. CASE n + 1 > Switch + 1
        <5>1. Beyond(n + 1, Switch + 1) = d + 1
          BY <1>1, <4>2, Constants DEF Beyond
        <5>2. b.out = Append(a.out, Record("data", msgs[d + 1])) /\ b.out \in Seq(Recs)
          <6> DEFINE q == n + 1
          <6>1. ClientMoves(x, b, c, g, q, msgs) /\ q > Switch + 1 /\ q - Switch - 1 = d + 1
            BY <1>1, <1>11, <4>2, Constants DEF Beyond
          <6> HIDE DEF q
          <6>2. b.out = Append(x.out, Record("data", msgs[q - Switch - 1]))
            BY <6>1 DEF ClientMoves
          <6>3. b.out \in Seq(Recs)
            BY <2>1 DEF Steps
          <6> QED
            BY <1>5, <6>1, <6>2, <6>3
        <5>3. Handed(b.out, msgs, d0, d + 1)
          <6> HIDE DEF d0, d
          <6> QED
            BY <1>8, <1>9, <5>2, HandedOne
        <5> QED
          BY <5>1, <5>3
      <4> QED
        BY <1>1, <4>1, <4>2, Constants
    <3> QED
      BY <1>1, <2>1, <2>2, <2>3, <2>5, <2>6, <3>1, <3>2 DEF ClientRun, b, p
  <2> QED
    BY <2>4, <2>5
<1> QED
  <2>1. \/ GaveUp(x, b)
        \/ ClientMoves(x, b, c, g, n + 1, msgs) /\ (r.sealed <=> n + 1 > Switch)
    BY <1>1, <1>2, <1>3, <1>5, <1>6, ClientTakes
  <2> QED
    BY <1>10, <1>11, <2>1 DEF b, p

\* What a server s that had taken m0 records has made of i more of w.
ServerRun(a, s, c, g, m0, i, w, msgs) ==
    /\ a \in Steps /\ ServerAt(a.s, c, g, m0 + i)
    /\ a.res = IF i = 0 \/ m0 + i < 4 THEN "NONE" ELSE IF m0 + i = 4 THEN "HKOK" ELSE "APPDATA"
    /\ IF m0 = 0 /\ m0 + i = 1 THEN FirstFlight(a.out, c, g)
       ELSE IF m0 < 4 /\ m0 + i = 4 THEN ServerFlight(a.out, c, g)
       ELSE Handed(a.out, msgs, Beyond(m0, 4), Beyond(m0 + i, 4))
    /\ a.s.wseq = IF m0 < 4 /\ m0 + i = 4 THEN 1 ELSE s.wseq
    /\ \A j \in 1..i : w[j].of.sealed <=> m0 + j > 3

Refused(a) == a.res = "ERR"

\* One more piece of a read, at the server.
LEMMA ServerRunStep ==
    ASSUME NEW c \in Conns, NEW g \in Keys, NEW s \in Sessions, NEW m0 \in Nat, NEW w,
           NEW msgs, NEW given, ServerView(s, w, c, g, m0, msgs, given), NEW key, m0 = 0 => key = g,
           NEW i \in 0..Len(w) - 1, NEW a, ServerRun(a, s, c, g, m0, i, w, msgs),
           Behind(a, s, i)
    PROVE  LET b == TakePiece(a, w[i + 1], key, c) IN
           \/ ServerRun(b, s, c, g, m0, i + 1, w, msgs) /\ Behind(b, s, i + 1)
           \/ Refused(b)
<1> DEFINE p == w[i + 1]
           r == p.of
           b == TakePiece(a, p, key, c)
           m == m0 + i
<1>0. /\ w \in Seq(Pieces) /\ Fits(s.tcp, w)
      /\ \A j \in 1..Len(w) : FromClient(w[j].of, c, g, m0 + j, msgs)
      /\ m0 = 0 => Len(w) <= 1
      /\ m0 < 4 => m0 + Len(w) <= 4
  BY DEF ServerView
<1>1. a \in Steps /\ m \in Nat /\ m0 + (i + 1) = m + 1 /\ i + 1 \in 1..Len(w) /\ i \in Nat
  BY <1>0 DEF ServerRun
<1>2. p \in Pieces /\ r \in Recs
  <2>1. w[i + 1] \in Pieces
    BY <1>0, <1>1
  <2> QED
    BY <2>1 DEF Pieces
<1>3. FromClient(r, c, g, m + 1, msgs)
  BY <1>0, <1>1
<1>4. p.part # "head" /\ Continues(a.s.tcp, p)
  <2>1. a.s.tcp = IF i = 0 THEN s.tcp ELSE <<>>
    BY DEF Behind
  <2>2. CASE i = 0
    BY <1>0, <1>1, <2>1, <2>2 DEF Fits, Continues
  <2>3. CASE i # 0
    BY <1>0, <1>1, <2>1, <2>3 DEF Fits, Continues
  <2> QED
    BY <2>2, <2>3
<1> HIDE DEF p
<1>5. PICK x \in Steps :
         /\ b = TakeRecord(x, r, key, c)
         /\ Apart(x.s, a.s, {"tcp"}) /\ x.s.tcp = <<>>
         /\ x.out = a.out /\ x.res = a.res
  <2>1. a.res # "ERR" /\ a \in Steps /\ p \in Pieces
    BY <1>2 DEF ServerRun
  <2>2. \E x \in Steps : Takes(a, x, p, key, c)
    BY <1>4, <2>1, TakesWhole
  <2> QED
    BY <2>2 DEF Takes
<1>6. ServerAt(x.s, c, g, m) /\ x.s.wseq = a.s.wseq
  <2>1. x.s.wseq = a.s.wseq
    BY <1>5 DEF Apart, Fields
  <2>2. ServerAt(a.s, c, g, m)
    BY DEF ServerRun
  <2>3. ServerAt(x.s, c, g, m)
    BY <1>5, <2>2, Cleared
  <2> QED
    BY <2>1, <2>3
<1> DEFINE d0 == Beyond(m0, 4)
           d == Beyond(m, 4)
<1>7. Handed(a.out, msgs, d0, d) /\ a.s.wseq = s.wseq
  BY <1>0, <1>1 DEF ServerRun
<1>8. d0 \in Nat /\ d \in Nat /\ d0 <= d /\ (d > 0 => m > 4) /\ (m0 < 4 => d0 = 0 /\ d = 0)
      /\ (m0 = 0 => m = 0)
  BY <1>0, <1>1 DEF Beyond
<1>9. m0 < 4 => a.out = <<>>
  BY <1>7, <1>8 DEF Handed
<1> HIDE DEF b, r, m
<1>10. CASE ServerMoves(x, b, c, g, m + 1, msgs) /\ (r.sealed <=> m + 1 > 3)
  <2>1. /\ b \in Steps /\ ServerAt(b.s, c, g, m + 1) /\ b.s.tcp = <<>>
        /\ m + 1 # 4 => b.s.wseq = s.wseq
    BY <1>5, <1>6, <1>7, <1>10 DEF ServerMoves, ServerTook
  <2>2. b.res = IF m + 1 < 4 THEN "NONE" ELSE IF m + 1 = 4 THEN "HKOK" ELSE "APPDATA"
    BY <1>1, <1>10 DEF ServerMoves
  <2>3. \A j \in 1..i + 1 : w[j].of.sealed <=> m0 + j > 3
    <3>1. \A j \in 1..i : w[j].of.sealed <=> m0 + j > 3
      BY DEF ServerRun
    <3>2. w[i + 1].of.sealed <=> m0 + (i + 1) > 3
      BY <1>1, <1>10 DEF r, p
    <3> QED
      <4>1. ASSUME NEW j \in 1..i + 1 PROVE w[j].of.sealed <=> m0 + j > 3
        <5>1. j \in 1..i \/ j = i + 1
          BY <1>1
        <5> QED
          BY <3>1, <3>2, <5>1
      <4> QED
        BY <4>1
  <2>4. b.s.wseq = IF m0 < 4 /\ m + 1 = 4 THEN 1 ELSE s.wseq
    <3>1. m + 1 = 4 => m0 < 4
      BY <1>0, <1>1 DEF m
    <3> QED
      BY <1>10, <2>1, <3>1 DEF ServerMoves
  <2>5. IF m0 = 0 /\ m + 1 = 1 THEN FirstFlight(b.out, c, g)
        ELSE IF m0 < 4 /\ m + 1 = 4 THEN ServerFlight(b.out, c, g)
        ELSE Handed(b.out, msgs, d0, Beyond(m + 1, 4))
    <3>1. CASE m + 1 = 1
      <4>1. PICK o : FirstFlight(o, c, g) /\ b.out = <<>> \o o
        <5>1. m0 = 0
          BY <1>0, <1>1, <3>1 DEF m
        <5> DEFINE q == m + 1
        <5>2. ServerMoves(x, b, c, g, q, msgs) /\ q = 1
          BY <1>10, <3>1
        <5> HIDE DEF q
        <5>3. \E o : FirstFlight(o, c, g) /\ b.out = x.out \o o
          BY <5>2 DEF ServerMoves
        <5>4. x.out = <<>>
          BY <1>5, <1>9, <5>1
        <5> QED
          BY <5>3, <5>4
      <4>2. FirstFlight(b.out, c, g) /\ m0 = 0
        BY <1>0, <1>1, <3>1, <4>1 DEF FirstFlight, m
      <4> QED
        BY <3>1, <4>2
    <3>2. CASE m + 1 = 4
      <4>1. PICK o : ServerFlight(o, c, g) /\ b.out = <<>> \o o
        <5>1. m0 < 4
          BY <1>0, <1>1, <3>2 DEF m
        <5> QED
          BY <1>5, <1>9, <1>10, <3>2, <5>1 DEF ServerMoves
      <4>2. ServerFlight(b.out, c, g) /\ m0 < 4
        BY <1>0, <1>1, <3>2, <4>1 DEF ServerFlight, m
      <4> QED
        BY <3>2, <4>2
    <3>3. CASE m + 1 \in {2, 3}
      <4>1. b.out = a.out
        BY <1>5, <1>10, <3>3 DEF ServerMoves
      <4>2. Beyond(m + 1, 4) = d
        BY <1>1, <3>3 DEF Beyond
      <4> QED
        BY <1>7, <3>3, <4>1, <4>2
    <3>4. CASE m + 1 > 4
      <4>1. Beyond(m + 1, 4) = d + 1
        BY <1>1, <3>4 DEF Beyond
      <4>2. b.out = Append(a.out, Record("data", msgs[d + 1])) /\ b.out \in Seq(Recs)
        <5> DEFINE q == m + 1
        <5>1. ServerMoves(x, b, c, g, q, msgs) /\ q > 4 /\ q - 4 = d + 1
          BY <1>1, <1>10, <3>4 DEF Beyond
        <5> HIDE DEF q
        <5>2. b.out = Append(x.out, Record("data", msgs[q - 4]))
          BY <5>1 DEF ServerMoves
        <5>3. b.out \in Seq(Recs)
          BY <2>1 DEF Steps
        <5> QED
          BY <1>5, <5>1, <5>2, <5>3
      <4>5. Handed(b.out, msgs, d0, Beyond(m + 1, 4))
        <5> HIDE DEF d0, d
        <5> QED
          BY <1>7, <1>8, <4>1, <4>2, HandedOne
      <4> QED
        BY <1>1, <3>4, <4>5
    <3> QED
      BY <1>1, <3>1, <3>2, <3>3, <3>4
  <2> DEFINE q == m0 + (i + 1)
             k == i + 1
  <2>6. /\ b \in Steps /\ ServerAt(b.s, c, g, q)
        /\ b.s.wseq = IF m0 < 4 /\ q = 4 THEN 1 ELSE s.wseq
    <3>1. q = m + 1 /\ k # 0
      BY <1>1
    <3> HIDE DEF q, k
    <3> QED
      BY <2>1, <2>4, <3>1
  <2>7. b.res = IF k = 0 \/ q < 4 THEN "NONE" ELSE IF q = 4 THEN "HKOK" ELSE "APPDATA"
    BY <1>1, <2>2
  <2>8. IF m0 = 0 /\ q = 1 THEN FirstFlight(b.out, c, g)
        ELSE IF m0 < 4 /\ q = 4 THEN ServerFlight(b.out, c, g)
        ELSE Handed(b.out, msgs, Beyond(m0, 4), Beyond(q, 4))
    BY <1>1, <2>5
  <2>9. \A j \in 1..k : w[j].of.sealed <=> m0 + j > 3
    BY <2>3
  <2>10. q = m0 + k
    OBVIOUS
  <2> HIDE DEF q, k
  <2>11. ServerRun(b, s, c, g, m0, k, w, msgs)
    BY <2>6, <2>7, <2>8, <2>9, <2>10 DEF ServerRun
  <2>12. Behind(b, s, i + 1)
    BY <1>1, <2>1 DEF Behind
  <2> QED
    BY <2>11, <2>12 DEF k, b, p
<1> QED
  <2>1. \/ b.res = "ERR"
        \/ ServerMoves(x, b, c, g, m + 1, msgs) /\ (r.sealed <=> m + 1 > 3)
    BY <1>1, <1>2, <1>3, <1>5, <1>6, <1>8, ServerTakes
  <2> QED
    BY <1>10, <2>1 DEF b, p, Refused

\* A set with 0 in it and every successor is Nat.
LEMMA SetInduction ==
    ASSUME NEW T \in SUBSET Nat, 0 \in T, \A k \in T : k + 1 \in T
    PROVE  T = Nat
<1> DEFINE R == {ss \in Nat \X Nat : ss[1] < ss[2]}
<1>1. IsWellFoundedOn(R, Nat)
  BY NatLessThanWellFounded DEF OpToRel
<1> HIDE DEF R
<1>2. SUFFICES ASSUME Nat \ T # {} PROVE FALSE
  OBVIOUS
<1>3. PICK x \in Nat \ T : \A y \in Nat \ T : ~ (<<y, x>> \in R)
  BY <1>1, <1>2, WFMin
<1>4. x # 0 /\ x - 1 \in Nat
  OBVIOUS
<1>5. x - 1 \notin T
  BY <1>4
<1>6. <<x - 1, x>> \in R
  BY <1>4 DEF R
<1> QED
  BY <1>3, <1>4, <1>5, <1>6

\* run is what an end s makes of data, one piece after the other.
Runs(run, s, data, key, id) ==
    /\ run[0] = Start(s)
    /\ \A k \in 1..Len(data) : run[k] = TakePiece(run[k - 1], data[k], key, id)

\* Of a read there is one outcome.
LEMMA OneRead ==
    ASSUME NEW s, NEW data \in Seq(Pieces), NEW key, NEW id
    PROVE  \E run : /\ Runs(run, s, data, key, id)
                    /\ OnTcpRead(s, data, key, id) = {run[Len(data)]}
<1> DEFINE L == Len(data)
           Till(f, n) == /\ f[0] = Start(s)
                         /\ \A k \in 1..n : f[k] = TakePiece(f[k - 1], data[k], key, id)
           T == {n \in Nat : \E f : Till(f, n)}
<1>1. L \in Nat
  OBVIOUS
<1>2. 0 \in T
  <2> DEFINE f == [k \in {0} |-> Start(s)]
  <2>1. Till(f, 0)
    OBVIOUS
  <2> HIDE DEF Till, f
  <2> QED
    BY <2>1
<1>3. ASSUME NEW n \in T PROVE n + 1 \in T
  <2>1. PICK f : Till(f, n)
    OBVIOUS
  <2> DEFINE x == TakePiece(f[n], data[n + 1], key, id)
             h == [k \in 0..n + 1 |-> IF k = n + 1 THEN x ELSE f[k]]
  <2>2. h[0] = Start(s) /\ n \in Nat
    BY <2>1
  <2>3. ASSUME NEW k \in 1..n + 1 PROVE h[k] = TakePiece(h[k - 1], data[k], key, id)
    <3>1. h[k - 1] = f[k - 1]
      BY <2>2
    <3>2. CASE k = n + 1
      BY <2>2, <3>1, <3>2
    <3>3. CASE k # n + 1
      <4>1. k \in 1..n /\ h[k] = f[k]
        BY <2>2, <3>3
      <4> QED
        BY <2>1, <3>1, <4>1
    <3> QED
      BY <3>2, <3>3
  <2>4. Till(h, n + 1)
    BY <2>2, <2>3
  <2> HIDE DEF Till, h
  <2> QED
    BY <2>2, <2>4
<1>4. T = Nat
  <2>1. T \in SUBSET Nat
    OBVIOUS
  <2> HIDE DEF T
  <2> QED
    BY <1>2, <1>3, <2>1, SetInduction
<1>5. PICK run : Till(run, L)
  BY <1>1, <1>4
<1> HIDE DEF T
<1> DEFINE G(f) == [n \in 0..L |-> IF n = 0 THEN {Start(s)}
                                  ELSE {TakePiece(a, data[n], key, id) : a \in f[n - 1]}]
           h == [n \in 0..L |-> {run[n]}]
           w == CHOOSE f : f = G(f)
           U == {n \in Nat : n <= L => w[n] = {run[n]}}
<1>6. h = G(h)
  <2>1. ASSUME NEW n \in 0..L PROVE h[n] = G(h)[n]
    <3>1. CASE n = 0
      BY <1>5, <3>1
    <3>2. CASE n # 0
      <4>1. n \in 1..L /\ n - 1 \in 0..L
        BY <1>1, <3>2
      <4>2. h[n - 1] = {run[n - 1]} /\ h[n] = {run[n]}
        BY <4>1
      <4>3. run[n] = TakePiece(run[n - 1], data[n], key, id)
        BY <1>5, <4>1
      <4> QED
        BY <3>2, <4>2, <4>3
    <3> QED
      BY <3>1, <3>2
  <2>2. h = [n \in 0..L |-> h[n]] /\ G(h) = [n \in 0..L |-> G(h)[n]]
    OBVIOUS
  <2> HIDE DEF h, G
  <2> QED
    BY <2>1, <2>2
<1>7. w = G(w)
  <2> HIDE DEF h, G
  <2> QED
    BY <1>6
<1>8. U = Nat
  <2> HIDE DEF w, h
  <2>1. 0 \in U
    <3>1. G(w)[0] = {Start(s)}
      BY <1>1
    <3> HIDE DEF G
    <3> QED
      BY <1>5, <1>7, <3>1
  <2>2. ASSUME NEW n \in U PROVE n + 1 \in U
    <3>1. SUFFICES ASSUME n + 1 <= L PROVE w[n + 1] = {run[n + 1]}
      OBVIOUS
    <3>2. n \in Nat /\ n + 1 \in 1..L /\ w[n] = {run[n]}
      BY <1>1, <3>1
    <3>3. G(w)[n + 1] = {TakePiece(a, data[n + 1], key, id) : a \in w[n]}
      BY <3>2
    <3>4. run[n + 1] = TakePiece(run[n], data[n + 1], key, id)
      BY <1>5, <3>2
    <3> HIDE DEF G
    <3> QED
      BY <1>7, <3>2, <3>3, <3>4
  <2>3. U \in SUBSET Nat
    OBVIOUS
  <2> HIDE DEF U
  <2> QED
    BY <2>1, <2>2, <2>3, SetInduction
<1>9. w[L] = {run[L]}
  <2> HIDE DEF w
  <2> QED
    BY <1>1, <1>8
<1>10. OnTcpRead(s, data, key, id) = w[L]
  BY DEF OnTcpRead
<1> HIDE DEF w
<1> QED
  BY <1>5, <1>9, <1>10 DEF Runs

\* A read of w takes m records and, if there is cut, the head of the next.
Splits(w, r, m, cut) ==
    /\ r.data \in Seq(Pieces) /\ Len(r.data) = m + (IF cut THEN 1 ELSE 0) /\ Len(r.data) >= 1
    /\ \A i \in 1..m : r.data[i] = w[i]
    /\ cut => m < Len(w) /\ w[m + 1].part = "all" /\ r.data[m + 1] = Piece(w[m + 1].of, "head")
    /\ r.left \in Seq(Pieces) /\ Len(r.left) = Len(w) - m
    /\ \A i \in 1..Len(r.left) : r.left[i].of = w[m + i].of
    /\ \A i \in 2..Len(r.left) : r.left[i].part = "all"
    /\ Len(r.left) >= 1 => r.left[1].part = IF cut THEN "tail" ELSE "all"

\* What SubSeq is.
LEMMA Slice ==
    ASSUME NEW S, NEW w \in Seq(S), NEW m \in Nat, NEW n \in Nat, 1 <= m, m <= n + 1, n <= Len(w)
    PROVE  /\ SubSeq(w, m, n) \in Seq(S) /\ Len(SubSeq(w, m, n)) = n + 1 - m
           /\ \A i \in 1..n + 1 - m : SubSeq(w, m, n)[i] = w[m + i - 1]
<1>1. \A i \in m..n : w[i] \in S
  OBVIOUS
<1>2. /\ SubSeq(w, m, n) \in Seq(S)
      /\ Len(SubSeq(w, m, n)) = IF m <= n THEN n - m + 1 ELSE 0
      /\ \A i \in 1..n - m + 1 : SubSeq(w, m, n)[i] = w[m + i - 1]
  BY <1>1, SubSeqProperties
<1>3. n - m + 1 = n + 1 - m /\ (IF m <= n THEN n - m + 1 ELSE 0) = n + 1 - m
  OBVIOUS
<1> QED
  BY <1>2, <1>3

\* A record has three pieces.
LEMMA PieceIn ==
    ASSUME NEW p \in Pieces, NEW part \in Cut
    PROVE  Piece(p.of, part) \in Pieces /\ Piece(p.of, part).of = p.of /\ Piece(p.of, part).part = part
BY DEF Piece, Pieces

\* A read takes m pieces of the wire, and perhaps the head of the next.
LEMMA ReadSplits ==
    ASSUME NEW tcp, NEW w \in Seq(Pieces), Fits(tcp, w), NEW r \in Reads(w)
    PROVE  \E m \in 0..Len(w), cut \in BOOLEAN : Splits(w, r, m, cut)
<1> DEFINE L == Len(w)
<1>1. L \in Nat
  OBVIOUS
<1>2. \A i \in 2..L : w[i].part = "all"
  BY DEF Fits
<1>3. ASSUME NEW n \in 1..L, r = [data |-> SubSeq(w, 1, n), left |-> SubSeq(w, n + 1, L)]
      PROVE  Splits(w, r, n, FALSE)
  <2>1. /\ r.data \in Seq(Pieces) /\ Len(r.data) = n
        /\ \A i \in 1..n : r.data[i] = w[i]
    <3>1. /\ SubSeq(w, 1, n) \in Seq(Pieces) /\ Len(SubSeq(w, 1, n)) = n + 1 - 1
          /\ \A i \in 1..n + 1 - 1 : SubSeq(w, 1, n)[i] = w[1 + i - 1]
      BY <1>1, Slice
    <3>2. \A i \in 1..n : 1 + i - 1 = i
      OBVIOUS
    <3> QED
      BY <1>3, <3>1, <3>2
  <2>2. /\ r.left \in Seq(Pieces) /\ Len(r.left) = L - n
        /\ \A i \in 1..L - n : r.left[i] = w[n + i]
    <3> DEFINE q == n + 1
    <3>1. q \in Nat /\ 1 <= q /\ q <= L + 1 /\ L + 1 - q = L - n /\ \A i \in 1..L - n : q + i - 1 = n + i
      BY <1>1
    <3> HIDE DEF q
    <3>2. /\ SubSeq(w, q, L) \in Seq(Pieces) /\ Len(SubSeq(w, q, L)) = L + 1 - q
          /\ \A i \in 1..L + 1 - q : SubSeq(w, q, L)[i] = w[q + i - 1]
      BY <1>1, <3>1, Slice
    <3>3. r.left = SubSeq(w, q, L)
      BY <1>3 DEF q
    <3> QED
      BY <3>1, <3>2, <3>3
  <2>3. \A i \in 1..L - n : w[n + i].part = "all"
    BY <1>2
  <2>4. Len(r.data) = n + (IF FALSE THEN 1 ELSE 0) /\ Len(r.data) >= 1
    BY <2>1
  <2>5. /\ \A i \in 1..Len(r.left) : r.left[i].of = w[n + i].of
        /\ \A i \in 1..Len(r.left) : r.left[i].part = "all"
    BY <2>2, <2>3
  <2>6. \A i \in 2..Len(r.left) : r.left[i].part = "all"
    BY <1>1, <2>2, <2>5
  <2>7. Len(r.left) >= 1 => r.left[1].part = "all"
    BY <1>1, <2>2, <2>5
  <2> HIDE DEF L
  <2> QED
    BY <2>1, <2>2, <2>4, <2>5, <2>6, <2>7 DEF Splits, L
<1>4. ASSUME NEW n \in 1..L, w[n].part = "all",
             r = [data |-> Append(SubSeq(w, 1, n - 1), Piece(w[n].of, "head")),
                  left |-> <<Piece(w[n].of, "tail")>> \o SubSeq(w, n + 1, L)]
      PROVE  Splits(w, r, n - 1, TRUE)
  <2> DEFINE m == n - 1
             hd == Piece(w[n].of, "head")
             tl == Piece(w[n].of, "tail")
             x == SubSeq(w, 1, m)
             q == n + 1
             y == SubSeq(w, q, L)
             e == <<tl>>
  <2>1. /\ m \in Nat /\ m < L /\ m + 1 = n /\ q \in Nat /\ 1 <= q /\ q <= L + 1
        /\ L + 1 - q = L - n /\ \A i \in 1..L - n : q + i - 1 = n + i
    BY <1>1
  <2>2. /\ hd \in Pieces /\ tl \in Pieces /\ tl.of = w[n].of /\ tl.part = "tail"
    BY PieceIn DEF Cut
  <2>3. r.data = Append(x, hd) /\ r.left = e \o y
    BY <1>4
  <2> HIDE DEF q, m, hd, tl
  <2>4. x \in Seq(Pieces) /\ Len(x) = m /\ \A i \in 1..m : x[i] = w[i]
    <3>1. /\ x \in Seq(Pieces) /\ Len(x) = m + 1 - 1
          /\ \A i \in 1..m + 1 - 1 : x[i] = w[1 + i - 1]
      BY <1>1, <2>1, Slice
    <3>2. m + 1 - 1 = m /\ \A i \in 1..m : 1 + i - 1 = i
      BY <2>1
    <3> QED
      BY <3>1, <3>2
  <2>5. /\ y \in Seq(Pieces) /\ Len(y) = L + 1 - q
        /\ \A i \in 1..L + 1 - q : y[i] = w[q + i - 1]
    BY <1>1, <2>1, Slice
  <2> HIDE DEF x, y
  <2>6. /\ r.data \in Seq(Pieces) /\ Len(r.data) = m + 1 /\ r.data[m + 1] = hd
        /\ \A i \in 1..m : r.data[i] = w[i]
    <3> DEFINE z == Append(x, hd)
    <3>1. /\ z \in Seq(Pieces) /\ Len(z) = Len(x) + 1 /\ z[Len(x) + 1] = hd
          /\ \A i \in 1..Len(x) : z[i] = x[i]
      BY <2>2, <2>4, AppendProperties
    <3> HIDE DEF z
    <3>2. r.data = z
      BY <2>3 DEF z
    <3> QED
      BY <2>4, <3>1, <3>2
  <2>7. e \in Seq(Pieces) /\ Len(e) = 1 /\ e[1] = tl
    BY <2>2
  <2> HIDE DEF e
  <2>8. /\ r.left \in Seq(Pieces) /\ Len(r.left) = Len(e) + Len(y)
        /\ \A i \in 1..Len(e) + Len(y) : r.left[i] = IF i <= Len(e) THEN e[i] ELSE y[i - Len(e)]
    <3>1. /\ e \o y \in Seq(Pieces) /\ Len(e \o y) = Len(e) + Len(y)
          /\ \A i \in 1..Len(e) + Len(y) :
                (e \o y)[i] = IF i <= Len(e) THEN e[i] ELSE y[i - Len(e)]
      BY <2>5, <2>7, ConcatProperties
    <3> QED
      BY <2>3, <3>1
  <2>9. Len(r.left) = L - m /\ r.left[1] = tl /\ \A i \in 2..L - m : r.left[i] = w[m + i]
    <3>1. Len(y) = L - n /\ Len(r.left) = 1 + (L - n) /\ L - m = 1 + (L - n) /\ n \in 1..L
      <4>1. Len(y) = L - n /\ Len(e) = 1 /\ Len(r.left) = Len(e) + Len(y)
        BY <2>1, <2>5, <2>7, <2>8
      <4>2. m + 1 = n /\ m \in Nat
        BY <2>1
      <4> QED
        BY <1>1, <4>1, <4>2
    <3>2. r.left[1] = tl
      <4>1. 1 \in 1..Len(e) + Len(y) /\ 1 <= Len(e)
        BY <1>1, <2>7, <3>1
      <4> QED
        BY <2>7, <2>8, <4>1
    <3>3. ASSUME NEW i \in 2..L - m PROVE r.left[i] = w[m + i]
      <4>1. i - 1 \in 1..L - n /\ n + (i - 1) = m + i
        BY <1>1, <2>1, <3>1
      <4>2. r.left[i] = y[i - 1]
        BY <1>1, <2>7, <2>8, <3>1
      <4>3. y[i - 1] = w[q + (i - 1) - 1]
        BY <2>1, <2>5, <4>1
      <4>4. q + (i - 1) - 1 = m + i
        BY <2>1, <4>1
      <4> QED
        BY <4>2, <4>3, <4>4
    <3> QED
      BY <3>1, <3>2, <3>3
  <2>10. \A i \in 2..L - m : w[m + i].part = "all"
    BY <1>2, <2>1
  <2>11. Splits(w, r, m, TRUE)
    <3>1. /\ Len(r.data) = m + (IF TRUE THEN 1 ELSE 0) /\ Len(r.data) >= 1
          /\ m < Len(w) /\ w[m + 1].part = "all" /\ r.data[m + 1] = Piece(w[m + 1].of, "head")
      BY <1>4, <2>1, <2>6 DEF hd
    <3>2. \A i \in 1..Len(r.left) : r.left[i].of = w[m + i].of
      <4>1. ASSUME NEW i \in 1..L - m PROVE r.left[i].of = w[m + i].of
        <5>1. CASE i = 1
          BY <2>1, <2>2, <2>9, <5>1
        <5>2. CASE i # 1
          BY <1>1, <2>1, <2>9, <5>2
        <5> QED
          BY <5>1, <5>2
      <4> QED
        BY <2>9, <4>1
    <3>3. \A i \in 2..Len(r.left) : r.left[i].part = "all"
      BY <2>9, <2>10
    <3>4. Len(r.left) >= 1 => r.left[1].part = IF TRUE THEN "tail" ELSE "all"
      BY <2>2, <2>9
    <3> HIDE DEF L
    <3> QED
      BY <2>6, <2>8, <2>9, <3>1, <3>2, <3>3, <3>4 DEF Splits, L
  <2> QED
    BY <2>11 DEF m
<1> QED
  <2>1. CASE \E n \in 1..L : r = [data |-> SubSeq(w, 1, n), left |-> SubSeq(w, n + 1, L)]
    <3>1. PICK n \in 1..L : Splits(w, r, n, FALSE)
      BY <1>3, <2>1
    <3>2. n \in 0..L
      BY <1>1
    <3> QED
      BY <3>1, <3>2
  <2>2. CASE \E n \in 1..L :
               /\ w[n].part = "all"
               /\ r = [data |-> Append(SubSeq(w, 1, n - 1), Piece(w[n].of, "head")),
                       left |-> <<Piece(w[n].of, "tail")>> \o SubSeq(w, n + 1, L)]
    <3>1. PICK n \in 1..L : Splits(w, r, n - 1, TRUE)
      BY <1>4, <2>2
    <3>2. n - 1 \in 0..L
      BY <1>1
    <3> QED
      BY <3>1, <3>2
  <2> QED
    BY <2>1, <2>2 DEF Reads

\* What is left of w behind m records goes on behind what is kept of the next.
Rest(tcp, w, left, m) ==
    /\ left \in Seq(Pieces) /\ Len(left) = Len(w) - m
    /\ \A i \in 1..Len(left) : left[i].of = w[m + i].of
    /\ Fits(tcp, left) /\ (tcp # <<>> => left # <<>>)

\* The head of a record at the end of a read changes nothing else.
LEMMA RunKeeps ==
    ASSUME NEW a, NEW b \in Steps, Apart(b.s, a.s, {"tcp"}), b.out = a.out, b.res = a.res,
           NEW s, NEW c, NEW g, NEW n, NEW i, NEW w, NEW msgs
    PROVE  /\ ClientRun(a, s, c, g, n, i, w, msgs) => ClientRun(b, s, c, g, n, i, w, msgs)
           /\ ServerRun(a, s, c, g, n, i, w, msgs) => ServerRun(b, s, c, g, n, i, w, msgs)
<1>1. b.s.trust = a.s.trust /\ b.s.wseq = a.s.wseq
  BY DEF Apart, Fields
<1>2. ASSUME ClientRun(a, s, c, g, n, i, w, msgs) PROVE ClientRun(b, s, c, g, n, i, w, msgs)
  <2>1. ClientAt(b.s, c, g, n + i)
    BY <1>2, Cleared DEF ClientRun
  <2> QED
    BY <1>1, <1>2, <2>1 DEF ClientRun
<1>3. ASSUME ServerRun(a, s, c, g, n, i, w, msgs) PROVE ServerRun(b, s, c, g, n, i, w, msgs)
  <2>1. ServerAt(b.s, c, g, n + i)
    BY <1>3, Cleared DEF ServerRun
  <2> QED
    BY <1>1, <1>3, <2>1 DEF ServerRun
<1> QED
  BY <1>2, <1>3

\* What is left when a read that takes m records and perhaps a head is over.
LEMMA ReadLeaves ==
    ASSUME NEW tcp, NEW w \in Seq(Pieces), Fits(tcp, w), NEW r, NEW m \in 0..Len(w),
           NEW cut \in BOOLEAN, Splits(w, r, m, cut), NEW new,
           new = <<>> <=> ~cut
    PROVE  Rest(new, w, r.left, m)
<1>1. /\ r.left \in Seq(Pieces) /\ Len(r.left) = Len(w) - m
      /\ \A i \in 1..Len(r.left) : r.left[i].of = w[m + i].of
      /\ \A i \in 2..Len(r.left) : r.left[i].part = "all"
      /\ Len(r.left) >= 1 => r.left[1].part = IF cut THEN "tail" ELSE "all"
      /\ cut => m < Len(w)
  BY DEF Splits
<1>2. Fits(new, r.left)
  BY <1>1 DEF Fits
<1>3. new # <<>> => r.left # <<>>
  <2>1. cut => Len(r.left) >= 1
    BY <1>1
  <2> QED
    BY <2>1
<1> QED
  BY <1>1, <1>2, <1>3 DEF Rest

\* A read of the client, however TCP cuts it: i records further, or an error.
LEMMA ClientReads ==
    ASSUME NEW c \in Conns, NEW g \in Keys, NEW n \in Nat, NEW k, NEW w, NEW msgs, NEW given,
           ClientView(k, w, c, g, n, msgs, given), NEW key, NEW r \in Reads(w),
           NEW a \in OnTcpRead(k, r.data, key, c)
    PROVE  \/ ClientQuit(a, n, w)
           \/ \E m \in 0..Len(w) : ClientRun(a, k, c, g, n, m, w, msgs) /\ Rest(a.s.tcp, w, r.left, m)
<1>1. k \in Sessions /\ w \in Seq(Pieces) /\ Fits(k.tcp, w) /\ Len(w) \in Nat
  BY DEF ClientView, ClientAt
<1>2. PICK m \in 0..Len(w), cut \in BOOLEAN : Splits(w, r, m, cut)
  BY <1>1, ReadSplits
<1>3. /\ r.data \in Seq(Pieces) /\ Len(r.data) = m + (IF cut THEN 1 ELSE 0) /\ Len(r.data) >= 1
      /\ m \in Nat /\ \A i \in 1..m : r.data[i] = w[i]
      /\ cut => w[m + 1].part = "all" /\ r.data[m + 1] = Piece(w[m + 1].of, "head") /\ m < Len(w)
  BY <1>2 DEF Splits
<1>4. PICK run : Runs(run, k, r.data, key, c) /\ a = run[Len(r.data)]
  <2>1. PICK run : Runs(run, k, r.data, key, c) /\ OnTcpRead(k, r.data, key, c) = {run[Len(r.data)]}
    BY <1>3, OneRead
  <2> QED
    BY <2>1
<1>5. run[0] = Start(k) /\ \A i \in 1..Len(r.data) : run[i] = TakePiece(run[i - 1], r.data[i], key, c)
  BY <1>4 DEF Runs
<1> DEFINE Ok(i) == \/ ClientRun(run[i], k, c, g, n, i, w, msgs) /\ Behind(run[i], k, i)
                    \/ ClientQuit(run[i], n, w)
           T == {i \in Nat : i <= m => Ok(i)}
<1>6. Ok(0)
  <2> DEFINE b == Start(k)
  <2>1. b.s = k /\ b.out = <<>> /\ b.res = "NONE" /\ b \in Steps
    BY <1>1 DEF Start, Steps
  <2>2. n + 0 = n
    OBVIOUS
  <2>3. Behind(b, k, 0)
    BY <2>1 DEF Behind
  <2>4. Beyond(n, Switch + 1) - Beyond(n, Switch + 1) = 0
    BY Constants DEF Beyond
  <2>5. Handed(b.out, msgs, Beyond(n, Switch + 1), Beyond(n + 0, Switch + 1))
    BY <2>1, <2>4 DEF Handed
  <2> HIDE DEF b
  <2>6. ~(n < Flight /\ n + 0 = Flight)
    BY Constants
  <2>7. ClientRun(b, k, c, g, n, 0, w, msgs)
    BY <2>1, <2>2, <2>5, <2>6 DEF ClientRun, ClientView
  <2> QED
    BY <1>5, <2>3, <2>7 DEF b
<1>7. ASSUME NEW i \in T PROVE i + 1 \in T
  <2>1. SUFFICES ASSUME i + 1 <= m PROVE Ok(i + 1)
    OBVIOUS
  <2>2. i \in Nat /\ i + 1 \in 1..Len(r.data) /\ i \in 0..Len(w) - 1 /\ (i + 1) - 1 = i /\ Ok(i)
    BY <1>1, <1>3, <2>1
  <2>3. run[i + 1] = TakePiece(run[i], w[i + 1], key, c)
    <3>1. run[i + 1] = TakePiece(run[(i + 1) - 1], r.data[i + 1], key, c)
      BY <1>5, <2>2
    <3>2. r.data[i + 1] = w[i + 1]
      BY <1>3, <2>1, <2>2
    <3> QED
      BY <2>2, <3>1, <3>2
  <2>4. CASE ClientQuit(run[i], n, w)
    <3>1. run[i + 1] = run[i]
      BY <2>3, <2>4 DEF TakePiece, ClientQuit
    <3> QED
      BY <2>4, <3>1
  <2>5. CASE ClientRun(run[i], k, c, g, n, i, w, msgs) /\ Behind(run[i], k, i)
    <3> DEFINE b == run[i]
    <3>1. ClientRun(b, k, c, g, n, i, w, msgs) /\ Behind(b, k, i)
      BY <2>5
    <3> HIDE DEF b
    <3>2. LET z == TakePiece(b, w[i + 1], key, c) IN
          \/ ClientRun(z, k, c, g, n, i + 1, w, msgs) /\ Behind(z, k, i + 1)
          \/ ClientQuit(z, n, w)
      BY <1>1, <2>2, <3>1, ClientRunStep DEF ClientView
    <3> QED
      BY <2>3, <3>2 DEF b
  <2> QED
    BY <2>2, <2>4, <2>5
<1>8. Ok(m)
  <2>1. T \in SUBSET Nat /\ 0 \in T
    BY <1>6
  <2> HIDE DEF T
  <2>2. T = Nat
    BY <1>7, <2>1, SetInduction
  <2> QED
    BY <1>3, <2>2 DEF T
<1> HIDE DEF T
<1>9. CASE ClientQuit(run[m], n, w)
  <2>1. CASE cut
    <3>1. a = TakePiece(run[m], r.data[m + 1], key, c)
      <4>1. Len(r.data) = m + 1 /\ (m + 1) - 1 = m /\ m + 1 \in 1..m + 1
        BY <1>3, <2>1
      <4> QED
        BY <1>4, <1>5, <4>1
    <3>2. a = run[m]
      BY <1>9, <3>1 DEF TakePiece, ClientQuit
    <3> QED
      BY <1>9, <3>2
  <2>2. CASE ~cut
    BY <1>3, <1>4, <1>9, <2>2
  <2> QED
    BY <2>1, <2>2
<1>10. CASE ClientRun(run[m], k, c, g, n, m, w, msgs) /\ Behind(run[m], k, m)
  <2> DEFINE b == run[m]
  <2>1. ClientRun(b, k, c, g, n, m, w, msgs) /\ Behind(b, k, m)
    BY <1>10
  <2>2. CASE ~cut
    <3>1. m # 0 /\ a = b
      BY <1>3, <1>4, <2>2
    <3>2. a.s.tcp = <<>>
      BY <2>1, <3>1 DEF Behind
    <3>3. Rest(a.s.tcp, w, r.left, m)
      BY <1>1, <1>2, <2>2, <3>2, ReadLeaves
    <3> HIDE DEF b
    <3> QED
      BY <2>1, <3>1, <3>3
  <2>3. CASE cut
    <3> DEFINE p == r.data[m + 1]
    <3>1. a = TakePiece(b, p, key, c)
      <4>1. Len(r.data) = m + 1 /\ (m + 1) - 1 = m /\ m + 1 \in 1..m + 1
        BY <1>3, <2>3
      <4> QED
        BY <1>4, <1>5, <4>1
    <3>2. b.s.tcp = <<>>
      <4>1. CASE m = 0
        <5>1. w[1].part = "all" /\ Len(w) >= 1
          BY <1>1, <1>3, <2>3, <4>1
        <5>2. k.tcp = <<>>
          BY <1>1, <5>1 DEF Fits
        <5> HIDE DEF b
        <5> QED
          BY <2>1, <4>1, <5>2 DEF Behind
      <4>2. CASE m # 0
        <5> HIDE DEF b
        <5> QED
          BY <2>1, <4>2 DEF Behind
      <4> QED
        BY <4>1, <4>2
    <3>3. p \in Pieces /\ p.part = "head"
      <4>1. r.data[m + 1] \in Pieces
        BY <1>3, <2>3
      <4>2. Piece(w[m + 1].of, "head").part = "head"
        BY DEF Piece
      <4> QED
        BY <1>3, <2>3, <4>1, <4>2
    <3> HIDE DEF b, p
    <3>4. b \in Steps /\ b.res # "ERR"
      BY <2>1 DEF ClientRun
    <3>5. a \in Steps /\ Apart(a.s, b.s, {"tcp"}) /\ a.s.tcp # <<>> /\ a.out = b.out /\ a.res = b.res
      BY <3>1, <3>2, <3>3, <3>4, TakesHead
    <3>6. ClientRun(a, k, c, g, n, m, w, msgs)
      BY <2>1, <3>5, RunKeeps
    <3>7. Rest(a.s.tcp, w, r.left, m)
      BY <1>1, <1>2, <2>3, <3>5, ReadLeaves
    <3> QED
      BY <3>6, <3>7
  <2> QED
    BY <2>2, <2>3
<1> QED
  BY <1>8, <1>9, <1>10

\* A read of the server.
LEMMA ServerReads ==
    ASSUME NEW c \in Conns, NEW g \in Keys, NEW n \in Nat, NEW k, NEW w, NEW msgs, NEW given,
           ServerView(k, w, c, g, n, msgs, given), NEW key, NEW r \in Reads(w),
           NEW a \in OnTcpRead(k, r.data, key, c),
           n = 0 => key = g
    PROVE  \/ a.res = "ERR"
           \/ \E m \in 0..Len(w) : ServerRun(a, k, c, g, n, m, w, msgs) /\ Rest(a.s.tcp, w, r.left, m)
<1>1. k \in Sessions /\ w \in Seq(Pieces) /\ Fits(k.tcp, w) /\ Len(w) \in Nat
  BY DEF ServerView, ServerAt
<1>2. PICK m \in 0..Len(w), cut \in BOOLEAN : Splits(w, r, m, cut)
  BY <1>1, ReadSplits
<1>3. /\ r.data \in Seq(Pieces) /\ Len(r.data) = m + (IF cut THEN 1 ELSE 0) /\ Len(r.data) >= 1
      /\ m \in Nat /\ \A i \in 1..m : r.data[i] = w[i]
      /\ cut => w[m + 1].part = "all" /\ r.data[m + 1] = Piece(w[m + 1].of, "head") /\ m < Len(w)
  BY <1>2 DEF Splits
<1>4. PICK run : Runs(run, k, r.data, key, c) /\ a = run[Len(r.data)]
  <2>1. PICK run : Runs(run, k, r.data, key, c) /\ OnTcpRead(k, r.data, key, c) = {run[Len(r.data)]}
    BY <1>3, OneRead
  <2> QED
    BY <2>1
<1>5. run[0] = Start(k) /\ \A i \in 1..Len(r.data) : run[i] = TakePiece(run[i - 1], r.data[i], key, c)
  BY <1>4 DEF Runs
<1> DEFINE Ok(i) == \/ ServerRun(run[i], k, c, g, n, i, w, msgs) /\ Behind(run[i], k, i)
                    \/ run[i].res = "ERR"
           T == {i \in Nat : i <= m => Ok(i)}
<1>6. Ok(0)
  <2> DEFINE b == Start(k)
  <2>1. b.s = k /\ b.out = <<>> /\ b.res = "NONE" /\ b \in Steps
    BY <1>1 DEF Start, Steps
  <2>2. n + 0 = n
    OBVIOUS
  <2>3. Behind(b, k, 0)
    BY <2>1 DEF Behind
  <2>4. Beyond(n, 4) - Beyond(n, 4) = 0
    BY DEF Beyond
  <2>5. Handed(b.out, msgs, Beyond(n, 4), Beyond(n + 0, 4))
    BY <2>1, <2>4 DEF Handed
  <2> HIDE DEF b
  <2>6. ~(n = 0 /\ n + 0 = 1) /\ ~(n < 4 /\ n + 0 = 4)
    OBVIOUS
  <2>7. ServerRun(b, k, c, g, n, 0, w, msgs)
    BY <2>1, <2>2, <2>5, <2>6 DEF ServerRun, ServerView
  <2> QED
    BY <1>5, <2>3, <2>7 DEF b
<1>7. ASSUME NEW i \in T PROVE i + 1 \in T
  <2>1. SUFFICES ASSUME i + 1 <= m PROVE Ok(i + 1)
    OBVIOUS
  <2>2. i \in Nat /\ i + 1 \in 1..Len(r.data) /\ i \in 0..Len(w) - 1 /\ (i + 1) - 1 = i /\ Ok(i)
    BY <1>1, <1>3, <2>1
  <2>3. run[i + 1] = TakePiece(run[i], w[i + 1], key, c)
    <3>1. run[i + 1] = TakePiece(run[(i + 1) - 1], r.data[i + 1], key, c)
      BY <1>5, <2>2
    <3>2. r.data[i + 1] = w[i + 1]
      BY <1>3, <2>1, <2>2
    <3> QED
      BY <2>2, <3>1, <3>2
  <2>4. CASE run[i].res = "ERR"
    <3>1. run[i + 1] = run[i]
      BY <2>3, <2>4 DEF TakePiece
    <3> QED
      BY <2>4, <3>1
  <2>5. CASE ServerRun(run[i], k, c, g, n, i, w, msgs) /\ Behind(run[i], k, i)
    <3> DEFINE b == run[i]
    <3>1. ServerRun(b, k, c, g, n, i, w, msgs) /\ Behind(b, k, i)
      BY <2>5
    <3> HIDE DEF b
    <3>2. LET z == TakePiece(b, w[i + 1], key, c) IN
          \/ ServerRun(z, k, c, g, n, i + 1, w, msgs) /\ Behind(z, k, i + 1)
          \/ Refused(z)
      <4>1. i \in 0..Len(w) - 1 /\ k \in Sessions
        BY <1>1, <2>2
      <4> QED
        BY <3>1, <4>1, ServerRunStep
    <3> QED
      BY <2>3, <3>2 DEF b, Refused
  <2> QED
    BY <2>2, <2>4, <2>5
<1>8. Ok(m)
  <2>1. T \in SUBSET Nat /\ 0 \in T
    BY <1>6
  <2> HIDE DEF T
  <2>2. T = Nat
    BY <1>7, <2>1, SetInduction
  <2> QED
    BY <1>3, <2>2 DEF T
<1> HIDE DEF T
<1>9. CASE run[m].res = "ERR"
  <2>1. CASE cut
    <3>1. a = TakePiece(run[m], r.data[m + 1], key, c)
      <4>1. Len(r.data) = m + 1 /\ (m + 1) - 1 = m /\ m + 1 \in 1..m + 1
        BY <1>3, <2>1
      <4> QED
        BY <1>4, <1>5, <4>1
    <3>2. a = run[m]
      BY <1>9, <3>1 DEF TakePiece
    <3> QED
      BY <1>9, <3>2
  <2>2. CASE ~cut
    BY <1>3, <1>4, <1>9, <2>2
  <2> QED
    BY <2>1, <2>2
<1>10. CASE ServerRun(run[m], k, c, g, n, m, w, msgs) /\ Behind(run[m], k, m)
  <2> DEFINE b == run[m]
  <2>1. ServerRun(b, k, c, g, n, m, w, msgs) /\ Behind(b, k, m)
    BY <1>10
  <2>2. CASE ~cut
    <3>1. m # 0 /\ a = b
      BY <1>3, <1>4, <2>2
    <3>2. a.s.tcp = <<>>
      BY <2>1, <3>1 DEF Behind
    <3>3. Rest(a.s.tcp, w, r.left, m)
      BY <1>1, <1>2, <2>2, <3>2, ReadLeaves
    <3> HIDE DEF b
    <3> QED
      BY <2>1, <3>1, <3>3
  <2>3. CASE cut
    <3> DEFINE p == r.data[m + 1]
    <3>1. a = TakePiece(b, p, key, c)
      <4>1. Len(r.data) = m + 1 /\ (m + 1) - 1 = m /\ m + 1 \in 1..m + 1
        BY <1>3, <2>3
      <4> QED
        BY <1>4, <1>5, <4>1
    <3>2. b.s.tcp = <<>>
      <4>1. CASE m = 0
        <5>1. w[1].part = "all" /\ Len(w) >= 1
          BY <1>1, <1>3, <2>3, <4>1
        <5>2. k.tcp = <<>>
          BY <1>1, <5>1 DEF Fits
        <5> HIDE DEF b
        <5> QED
          BY <2>1, <4>1, <5>2 DEF Behind
      <4>2. CASE m # 0
        <5> HIDE DEF b
        <5> QED
          BY <2>1, <4>2 DEF Behind
      <4> QED
        BY <4>1, <4>2
    <3>3. p \in Pieces /\ p.part = "head"
      <4>1. r.data[m + 1] \in Pieces
        BY <1>3, <2>3
      <4>2. Piece(w[m + 1].of, "head").part = "head"
        BY DEF Piece
      <4> QED
        BY <1>3, <2>3, <4>1, <4>2
    <3> HIDE DEF b, p
    <3>4. b \in Steps /\ b.res # "ERR"
      BY <2>1 DEF ServerRun
    <3>5. a \in Steps /\ Apart(a.s, b.s, {"tcp"}) /\ a.s.tcp # <<>> /\ a.out = b.out /\ a.res = b.res
      BY <3>1, <3>2, <3>3, <3>4, TakesHead
    <3>6. ServerRun(a, k, c, g, n, m, w, msgs)
      BY <2>1, <3>5, RunKeeps
    <3>7. Rest(a.s.tcp, w, r.left, m)
      BY <1>1, <1>2, <2>3, <3>5, ReadLeaves
    <3> QED
      BY <3>6, <3>7
  <2> QED
    BY <2>2, <2>3
<1> QED
  BY <1>8, <1>9, <1>10

-----------------------------------------------------------------------------
(* Counting the sealed records on a wire.                                    *)

Within(A, m) == m \in Nat /\ A \in SUBSET (1..m)
Further(m, B) == {m + i : i \in B}

\* What is marked of one sequence and of one that goes on behind it.
LEMMA CountBoth ==
    ASSUME NEW m, NEW k, NEW A, NEW B, Within(A, m), Within(B, k)
    PROVE  /\ Cardinality(A \cup Further(m, B)) = Cardinality(A) + Cardinality(B)
           /\ Cardinality(A) \in Nat /\ Cardinality(B) \in Nat
<1> USE DEF Within
<1> DEFINE C == {m + i : i \in B}
           f == [i \in B |-> m + i]
<1>1. /\ IsFiniteSet(A) /\ IsFiniteSet(B)
      /\ Cardinality(A) \in Nat /\ Cardinality(B) \in Nat
  <2>1. IsFiniteSet(1..m) /\ IsFiniteSet(1..k)
    BY FS_Interval
  <2>2. IsFiniteSet(A) /\ IsFiniteSet(B)
    BY <2>1, FS_Subset
  <2> QED
    BY <2>2, FS_CardinalityType
<1>2. IsFiniteSet(C) /\ Cardinality(C) = Cardinality(B)
  <2>1. f \in Bijection(B, C)
    <3>1. f \in [B -> C] /\ \A y \in C : \E x \in B : f[x] = y
      OBVIOUS
    <3>2. \A x, y \in B : f[x] = f[y] => x = y
      OBVIOUS
    <3> QED
      BY <3>1, <3>2 DEF Bijection, Injection, Surjection, IsInjective
  <2>2. ExistsBijection(B, C)
    BY <2>1 DEF ExistsBijection
  <2> HIDE DEF C
  <2> QED
    BY <1>1, <2>2, FS_Bijection
<1>3. A \cap C = {}
  OBVIOUS
<1> HIDE DEF C
<1>4. Cardinality(A \cup C) = Cardinality(A) + Cardinality(C) - Cardinality({})
  BY <1>1, <1>2, <1>3, FS_Union
<1> QED
  BY <1>1, <1>2, <1>4, FS_EmptySet DEF C, Further

Marks(w) == {i \in 1..Len(w) : w[i].of.sealed /\ w[i].part # "head"}

\* Ciphered counts the marked places of a wire.
LEMMA CipheredIsNat ==
    ASSUME NEW w \in Seq(Pieces)
    PROVE  Ciphered(w) \in Nat /\ Ciphered(w) = Cardinality(Marks(w)) /\ Marks(w) \in SUBSET (1..Len(w))
<1>1. Marks(w) \in SUBSET (1..Len(w)) /\ Len(w) \in Nat
  BY DEF Marks
<1>2. Ciphered(w) = Cardinality(Marks(w))
  BY DEF Ciphered, Marks
<1> HIDE DEF Marks
<1>3. Cardinality(Marks(w)) \in Nat
  BY <1>1, CountBoth DEF Within
<1> QED
  BY <1>1, <1>2, <1>3

\* x is w with records behind it.
Longer(x, w, records) ==
    /\ x \in Seq(Pieces) /\ Len(x) = Len(w) + Len(records)
    /\ \A i \in 1..Len(w) : x[i] = w[i]
    /\ \A i \in 1..Len(records) : x[Len(w) + i] = Piece(records[i], "all")

\* What is sent goes behind what is on the wire.
LEMMA WireGrows ==
    ASSUME NEW w \in Seq(Pieces), NEW records \in Seq(Recs)
    PROVE  /\ OnWire(records) \in Seq(Pieces)
           /\ Longer(w \o OnWire(records), w, records)
<1> DEFINE o == OnWire(records)
<1>1. /\ o \in Seq(Pieces) /\ Len(o) = Len(records)
      /\ \A i \in 1..Len(records) : o[i] = Piece(records[i], "all")
  <2> DEFINE e(i) == Piece(records[i], "all")
  <2>1. \A i \in 1..Len(records) : e(i) \in Pieces
    BY DEF Piece, Pieces, Cut
  <2>2. o = [i \in 1..Len(records) |-> e(i)] /\ Len(records) \in Nat
    BY DEF OnWire
  <2> HIDE DEF o, e
  <2>3. o \in Seq(Pieces)
    BY <2>1, <2>2
  <2> QED
    BY <2>2, <2>3 DEF e
<1> HIDE DEF o
<1>2. /\ w \o o \in Seq(Pieces) /\ Len(w \o o) = Len(w) + Len(o)
      /\ \A i \in 1..Len(w) + Len(o) :
            (w \o o)[i] = IF i <= Len(w) THEN w[i] ELSE o[i - Len(w)]
  BY <1>1, ConcatProperties
<1> DEFINE x == w \o o
<1>3. /\ x \in Seq(Pieces) /\ Len(x) = Len(w) + Len(records)
      /\ \A i \in 1..Len(w) + Len(records) :
            x[i] = IF i <= Len(w) THEN w[i] ELSE o[i - Len(w)]
  BY <1>1, <1>2
<1> HIDE DEF x
<1>4. \A i \in 1..Len(w) : x[i] = w[i]
  BY <1>3
<1>5. ASSUME NEW i \in 1..Len(records) PROVE x[Len(w) + i] = Piece(records[i], "all")
  <2>1. Len(w) \in Nat /\ Len(records) \in Nat
    OBVIOUS
  <2>2. /\ Len(w) + i \in 1..Len(w) + Len(records)
        /\ ~(Len(w) + i <= Len(w)) /\ (Len(w) + i) - Len(w) = i
    BY <2>1
  <2>3. x[Len(w) + i] = o[i]
    BY <1>3, <2>2
  <2> QED
    BY <1>1, <2>3
<1> QED
  BY <1>1, <1>3, <1>4, <1>5 DEF Longer, x, o

OnlyLast(records) ==
    Len(records) > 0 /\ \A i \in 1..Len(records) : records[i].sealed <=> i = Len(records)
SealedIn(records) == Cardinality({i \in 1..Len(records) : records[i].sealed})

\* The sealed records of a wire and of what is put behind it add up.
LEMMA SealsBehind ==
    ASSUME NEW w \in Seq(Pieces), NEW records \in Seq(Recs), NEW x, Longer(x, w, records)
    PROVE  Ciphered(x) = Ciphered(w) + SealedIn(records)
<1> DEFINE m == Len(w)
           k == Len(records)
           B == {i \in 1..k : records[i].sealed}
<1>1. m \in Nat /\ k \in Nat /\ x \in Seq(Pieces) /\ Len(x) = m + k
  BY DEF Longer
<1>2. Marks(x) = Marks(w) \cup Further(m, B)
  <2>1. ASSUME NEW i \in 1..m PROVE i \in Marks(x) <=> i \in Marks(w)
    <3>1. x[i] = w[i] /\ i \in 1..Len(x)
      BY <1>1 DEF Longer
    <3> QED
      BY <3>1 DEF Marks
  <2>2. ASSUME NEW i \in 1..k PROVE m + i \in Marks(x) <=> i \in B
    <3>1. x[m + i] = Piece(records[i], "all") /\ m + i \in 1..Len(x)
      BY <1>1 DEF Longer
    <3>2. x[m + i].of = records[i] /\ x[m + i].part # "head"
      BY <3>1 DEF Piece
    <3> QED
      BY <3>1, <3>2 DEF Marks
  <2>3. Marks(x) \subseteq 1..m + k /\ Marks(w) \subseteq 1..m
    BY <1>1 DEF Marks
  <2>4. ASSUME NEW i \in Marks(x) PROVE i \in Marks(w) \cup {m + j : j \in B}
    <3>1. CASE i \in 1..m
      BY <2>1, <3>1
    <3>2. CASE i \notin 1..m
      <4>1. i - m \in 1..k /\ m + (i - m) = i
        BY <1>1, <2>3, <3>2
      <4>2. i - m \in B
        BY <2>2, <4>1
      <4> QED
        BY <4>1, <4>2
    <3> QED
      BY <3>1, <3>2
  <2>5. ASSUME NEW i \in Marks(w) PROVE i \in Marks(x)
    BY <2>1, <2>3
  <2>6. ASSUME NEW i \in B PROVE m + i \in Marks(x)
    BY <2>2
  <2> HIDE DEF B, m
  <2> QED
    BY <2>4, <2>5, <2>6 DEF Further
<1>3. Marks(w) \in SUBSET (1..m) /\ B \in SUBSET (1..k)
  BY CipheredIsNat
<1> HIDE DEF B, m, k
<1>4. Cardinality(Marks(x)) = Cardinality(Marks(w)) + Cardinality(B)
  <2> DEFINE A == Marks(w)
  <2>1. Within(A, m) /\ Within(B, k)
    BY <1>1, <1>3 DEF Within
  <2>2. Marks(x) = A \cup Further(m, B)
    BY <1>2
  <2> HIDE DEF A
  <2>3. Cardinality(A \cup Further(m, B)) = Cardinality(A) + Cardinality(B)
    BY <2>1, CountBoth
  <2> QED
    BY <2>2, <2>3 DEF A
<1> QED
  BY <1>1, <1>4, CipheredIsNat DEF B, k, SealedIn

\* How many that is, of what the ends send.
LEMMA SealedOf ==
    ASSUME NEW records \in Seq(Recs)
    PROVE  /\ (\A i \in 1..Len(records) : ~records[i].sealed) => SealedIn(records) = 0
           /\ (\A i \in 1..Len(records) : records[i].sealed) => SealedIn(records) = Len(records)
           /\ OnlyLast(records) => SealedIn(records) = 1
<1> DEFINE k == Len(records)
           B == {i \in 1..k : records[i].sealed}
<1>1. k \in Nat
  OBVIOUS
<1>2. ASSUME \A i \in 1..k : ~records[i].sealed PROVE Cardinality(B) = 0
  <2>1. B = {}
    BY <1>2
  <2> QED
    BY <2>1, FS_EmptySet
<1>3. ASSUME \A i \in 1..k : records[i].sealed PROVE Cardinality(B) = k
  <2>1. B = 1..k
    BY <1>3
  <2>2. Cardinality(1..k) = IF 1 > k THEN 0 ELSE k - 1 + 1
    BY <1>1, FS_Interval
  <2> HIDE DEF B, k
  <2> QED
    BY <1>1, <2>1, <2>2
<1>4. ASSUME k > 0, \A i \in 1..k : records[i].sealed <=> i = k PROVE Cardinality(B) = 1
  <2>1. B = {k}
    BY <1>1, <1>4
  <2> HIDE DEF B, k
  <2> QED
    BY <2>1, FS_Singleton
<1> QED
  BY <1>2, <1>3, <1>4 DEF SealedIn, OnlyLast

\* What was taken of a wire of which the records behind place q are sealed.
LEMMA SealsTaken ==
    ASSUME NEW w \in Seq(Pieces), NEW left, NEW tcp, NEW new, NEW m \in 0..Len(w),
           Fits(tcp, w), Rest(new, w, left, m), NEW n \in Nat, NEW q \in Nat,
           \A j \in 1..m : w[j].of.sealed <=> n + j > q
    PROVE  Beyond(n, q) + Ciphered(w) = Beyond(n + m, q) + Ciphered(left)
<1> DEFINE A == {j \in 1..m : n + j > q}
           L == Len(w)
<1>1. /\ L \in Nat /\ m \in Nat /\ left \in Seq(Pieces) /\ Len(left) = L - m /\ L - m \in Nat
      /\ \A i \in 1..L - m : left[i].of = w[m + i].of
  BY DEF Rest
<1>2. ASSUME NEW i \in 1..L PROVE w[i].part # "head"
  <2>1. CASE i = 1
    BY <1>1, <2>1 DEF Fits
  <2>2. CASE i # 1
    BY <1>1, <2>2 DEF Fits
  <2> QED
    BY <2>1, <2>2
<1>3. ASSUME NEW i \in 1..L - m PROVE left[i].part # "head"
  <2>1. Fits(new, left) /\ i \in 1..Len(left)
    BY <1>1 DEF Rest
  <2>2. CASE i = 1
    BY <1>1, <2>1, <2>2 DEF Fits
  <2>3. CASE i # 1
    BY <1>1, <2>1, <2>3 DEF Fits
  <2> QED
    BY <2>2, <2>3
<1>4. Marks(w) = A \cup Further(m, Marks(left))
  <2>1. ASSUME NEW i \in 1..m PROVE i \in Marks(w) <=> i \in A
    <3>1. i \in 1..L
      BY <1>1
    <3> QED
      BY <1>2, <3>1 DEF Marks
  <2>2. ASSUME NEW i \in 1..L - m PROVE m + i \in Marks(w) <=> i \in Marks(left)
    <3>1. m + i \in 1..L /\ i \in 1..Len(left)
      BY <1>1
    <3> QED
      BY <1>1, <1>2, <1>3, <3>1 DEF Marks
  <2>3. Marks(w) \subseteq 1..L /\ Marks(left) \subseteq 1..L - m
    BY <1>1 DEF Marks
  <2>4. ASSUME NEW i \in Marks(w) PROVE i \in A \cup {m + j : j \in Marks(left)}
    <3>1. CASE i \in 1..m
      BY <2>1, <3>1
    <3>2. CASE i \notin 1..m
      <4>1. i - m \in 1..L - m /\ m + (i - m) = i
        BY <1>1, <2>3, <3>2
      <4>2. i - m \in Marks(left)
        BY <2>2, <4>1
      <4> QED
        BY <4>1, <4>2
    <3> QED
      BY <3>1, <3>2
  <2>5. ASSUME NEW i \in A PROVE i \in Marks(w)
    BY <2>1
  <2>6. ASSUME NEW i \in Marks(left) PROVE m + i \in Marks(w)
    BY <2>2, <2>3
  <2> HIDE DEF A, L
  <2> QED
    BY <2>4, <2>5, <2>6 DEF Further
<1>5. Cardinality(Marks(w)) = Cardinality(A) + Cardinality(Marks(left))
  <2> DEFINE B == Marks(left)
             k == L - m
  <2>1. Within(A, m) /\ Within(B, k)
    BY <1>1, CipheredIsNat DEF Within
  <2>2. Marks(w) = A \cup Further(m, B)
    BY <1>4
  <2> HIDE DEF A, B, k
  <2>3. Cardinality(A \cup Further(m, B)) = Cardinality(A) + Cardinality(B)
    BY <2>1, CountBoth
  <2> QED
    BY <2>2, <2>3 DEF B
<1>6. Cardinality(A) = Beyond(n + m, q) - Beyond(n, q)
  <2>1. CASE n >= q
    <3>1. A = 1..m
      BY <1>1, <2>1
    <3>2. Cardinality(1..m) = IF 1 > m THEN 0 ELSE m - 1 + 1
      BY <1>1, FS_Interval
    <3> HIDE DEF A
    <3> QED
      BY <1>1, <2>1, <3>1, <3>2 DEF Beyond
  <2>2. CASE n < q
    <3> DEFINE lo == q - n + 1
    <3>1. A = lo..m
      BY <1>1, <2>2
    <3>2. lo \in Int /\ lo > 1
      BY <2>2
    <3>3. Cardinality(lo..m) = IF lo > m THEN 0 ELSE m - lo + 1
      BY <1>1, <3>2, FS_Interval
    <3>4. Beyond(n, q) = 0 /\ Beyond(n + m, q) = IF lo > m THEN 0 ELSE m - lo + 1
      BY <1>1, <2>2 DEF Beyond
    <3> HIDE DEF A, lo
    <3>5. Cardinality(A) = Beyond(n + m, q)
      BY <3>1, <3>3, <3>4
    <3>6. Beyond(n + m, q) \in Nat
      BY <1>1 DEF Beyond
    <3> QED
      BY <3>4, <3>5, <3>6
  <2> QED
    BY <2>1, <2>2
<1>7. Beyond(n, q) \in Nat /\ Beyond(n + m, q) \in Nat
  BY <1>1 DEF Beyond
<1> HIDE DEF A
<1> QED
  BY <1>1, <1>5, <1>6, <1>7, CipheredIsNat

-----------------------------------------------------------------------------
(* What an end may find on its way when a wire grows or is cut.              *)

\* p is what is left of w when the end of it is lost.
Less(p, w) ==
    /\ p \in Seq(Pieces) /\ Len(p) <= Len(w)
    /\ \A i \in 1..Len(p) : p[i] = w[i]

\* What is lost of a wire is its end.
LEMMA Dropped ==
    ASSUME NEW w \in Seq(Pieces)
    PROVE  Less(<<>>, w) /\ Less(w, w) /\ \A p \in Prefixes(w) : Less(p, w)
<1>1. Less(<<>>, w)
  <2> DEFINE e == <<>>
  <2>1. e \in Seq(Pieces) /\ Len(e) = 0 /\ Len(w) >= 0
    OBVIOUS
  <2> HIDE DEF e
  <2>2. Less(e, w)
    BY <2>1 DEF Less
  <2> QED
    BY <2>2 DEF e
<1>2. Less(w, w)
  BY DEF Less
<1>3. ASSUME NEW p \in Prefixes(w) PROVE Less(p, w)
  <2>1. PICK l \in 0..Len(w) : p = SubSeq(w, 1, l)
    BY DEF Prefixes
  <2>2. l \in Nat /\ l <= Len(w) /\ l + 1 - 1 = l /\ 1 <= l + 1 /\ \A i \in 1..l : 1 + i - 1 = i
    OBVIOUS
  <2>3. /\ SubSeq(w, 1, l) \in Seq(Pieces) /\ Len(SubSeq(w, 1, l)) = l + 1 - 1
        /\ \A i \in 1..l + 1 - 1 : SubSeq(w, 1, l)[i] = w[1 + i - 1]
    BY <2>2, Slice
  <2>4. p \in Seq(Pieces) /\ Len(p) = l /\ \A i \in 1..l : p[i] = w[i]
    BY <2>1, <2>2, <2>3
  <2> QED
    BY <2>2, <2>4 DEF Less
<1> QED
  BY <1>1, <1>2, <1>3

\* An end's view holds of less of what comes.
LEMMA ViewsLess ==
    ASSUME NEW w \in Seq(Pieces), NEW p, Less(p, w), NEW k, NEW c, NEW g, NEW n \in Nat,
           NEW msgs, NEW given
    PROVE  /\ ClientView(k, w, c, g, n, msgs, given) => ClientView(k, p, c, g, n, msgs, given)
           /\ ServerView(k, w, c, g, n, msgs, given) => ServerView(k, p, c, g, n, msgs, given)
<1>1. /\ p \in Seq(Pieces) /\ Len(p) \in Nat /\ Len(w) \in Nat /\ Len(p) <= Len(w)
      /\ \A i \in 1..Len(p) : p[i] = w[i] /\ i \in 1..Len(w)
  BY DEF Less
<1>2. ASSUME Fits(k.tcp, w) PROVE Fits(k.tcp, p)
  <2>1. \A i \in 2..Len(p) : p[i].part = "all"
    BY <1>1, <1>2 DEF Fits
  <2>2. Len(p) >= 1 => p[1].part = IF k.tcp = <<>> THEN "all" ELSE "tail"
    BY <1>1, <1>2 DEF Fits
  <2> QED
    BY <2>1, <2>2 DEF Fits
<1>3. ASSUME ClientView(k, w, c, g, n, msgs, given) PROVE ClientView(k, p, c, g, n, msgs, given)
  <2>1. /\ ClientAt(k, c, g, n) /\ Fits(k.tcp, w)
        /\ \A i \in 1..Len(w) : FromServer(w[i].of, c, g, n + i, msgs)
        /\ n < Flight => n + Len(w) <= Flight
        /\ Len(given) = Beyond(n, Switch + 1)
    BY <1>3 DEF ClientView
  <2>2. n < Flight => n + Len(p) <= Flight
    BY <1>1, <2>1, Constants
  <2>3. \A i \in 1..Len(p) : FromServer(p[i].of, c, g, n + i, msgs)
    BY <1>1, <2>1
  <2> QED
    BY <1>1, <1>2, <2>1, <2>2, <2>3 DEF ClientView
<1>4. ASSUME ServerView(k, w, c, g, n, msgs, given) PROVE ServerView(k, p, c, g, n, msgs, given)
  <2>1. /\ ServerAt(k, c, g, n) /\ Fits(k.tcp, w)
        /\ \A i \in 1..Len(w) : FromClient(w[i].of, c, g, n + i, msgs)
        /\ n = 0 => Len(w) <= 1
        /\ n < 4 => n + Len(w) <= 4
        /\ Len(given) = Beyond(n, 4)
    BY <1>4 DEF ServerView
  <2>2. (n = 0 => Len(p) <= 1) /\ (n < 4 => n + Len(p) <= 4)
    BY <1>1, <2>1
  <2>3. \A i \in 1..Len(p) : FromClient(p[i].of, c, g, n + i, msgs)
    BY <1>1, <2>1
  <2> QED
    BY <1>1, <1>2, <2>1, <2>2, <2>3 DEF ServerView
<1> QED
  BY <1>3, <1>4

\* An end's view holds of what comes with the next records of the script behind it.
LEMMA ViewsLonger ==
    ASSUME NEW w \in Seq(Pieces), NEW records \in Seq(Recs), NEW x, Longer(x, w, records),
           NEW k, NEW c, NEW g, NEW n \in Nat, NEW msgs, NEW given, k.tcp # <<>> => w # <<>>
    PROVE  /\ /\ ClientView(k, w, c, g, n, msgs, given)
              /\ \A j \in 1..Len(records) : FromServer(records[j], c, g, n + Len(w) + j, msgs)
              /\ n < Flight => n + Len(x) <= Flight
              => ClientView(k, x, c, g, n, msgs, given)
           /\ /\ ServerView(k, w, c, g, n, msgs, given)
              /\ \A j \in 1..Len(records) : FromClient(records[j], c, g, n + Len(w) + j, msgs)
              /\ n = 0 => Len(x) <= 1
              /\ n < 4 => n + Len(x) <= 4
              => ServerView(k, x, c, g, n, msgs, given)
<1> DEFINE L == Len(w)
           R == Len(records)
<1>1. /\ x \in Seq(Pieces) /\ L \in Nat /\ R \in Nat /\ Len(x) = L + R
      /\ \A i \in 1..L : x[i] = w[i]
      /\ \A i \in 1..R : x[L + i].of = records[i] /\ x[L + i].part = "all"
  <2>1. /\ x \in Seq(Pieces) /\ L \in Nat /\ R \in Nat /\ Len(x) = L + R
        /\ \A i \in 1..L : x[i] = w[i]
    BY DEF Longer
  <2>2. ASSUME NEW i \in 1..R PROVE x[L + i].of = records[i] /\ x[L + i].part = "all"
    <3>1. x[L + i] = Piece(records[i], "all")
      BY DEF Longer
    <3> QED
      BY <3>1 DEF Piece
  <2> QED
    BY <2>1, <2>2
<1>2. \A i \in 1..L + R : i \in 1..L \/ (i - L \in 1..R /\ L + (i - L) = i /\ n + L + (i - L) = n + i)
  BY <1>1
<1>3. L = 0 => k.tcp = <<>>
  OBVIOUS
<1> HIDE DEF L, R
<1>4. ASSUME Fits(k.tcp, w) PROVE Fits(k.tcp, x)
  <2>0. /\ \A i \in 2..L : w[i].part = "all"
        /\ L >= 1 => w[1].part = IF k.tcp = <<>> THEN "all" ELSE "tail"
    BY <1>4 DEF Fits, L
  <2>1. ASSUME NEW i \in 2..Len(x) PROVE x[i].part = "all"
    <3>1. CASE i <= L
      <4>1. i \in 1..L /\ i \in 2..L
        BY <1>1, <3>1
      <4> QED
        BY <1>1, <2>0, <4>1
    <3>2. CASE i > L
      <4>1. i - L \in 1..R /\ L + (i - L) = i
        BY <1>1, <3>2
      <4> QED
        BY <1>1, <4>1
    <3> QED
      BY <1>1, <3>1, <3>2
  <2>2. Len(x) >= 1 => x[1].part = IF k.tcp = <<>> THEN "all" ELSE "tail"
    <3>1. CASE L >= 1
      BY <1>1, <2>0, <3>1
    <3>2. CASE L = 0
      <4>1. R >= 1 => x[0 + 1].part = "all" /\ Len(x) = R
        BY <1>1, <3>2
      <4> QED
        BY <1>1, <1>3, <3>2, <4>1
    <3> QED
      BY <1>1, <3>1, <3>2
  <2> QED
    BY <2>1, <2>2 DEF Fits
<1>5. ASSUME ClientView(k, w, c, g, n, msgs, given), n < Flight => n + Len(x) <= Flight,
             \A j \in 1..R : FromServer(records[j], c, g, n + L + j, msgs)
      PROVE  ClientView(k, x, c, g, n, msgs, given)
  <2>1. /\ ClientAt(k, c, g, n) /\ Fits(k.tcp, w)
        /\ \A i \in 1..L : FromServer(w[i].of, c, g, n + i, msgs)
        /\ Len(given) = Beyond(n, Switch + 1)
    BY <1>5 DEF ClientView, L
  <2>2. ASSUME NEW i \in 1..Len(x) PROVE FromServer(x[i].of, c, g, n + i, msgs)
    <3>1. CASE i \in 1..L
      BY <1>1, <2>1, <3>1
    <3>2. CASE i - L \in 1..R /\ L + (i - L) = i /\ n + L + (i - L) = n + i
      <4>1. x[L + (i - L)].of = records[i - L]
        BY <1>1, <3>2
      <4>2. FromServer(records[i - L], c, g, n + L + (i - L), msgs)
        BY <1>5, <3>2
      <4> QED
        BY <3>2, <4>1, <4>2
    <3> QED
      BY <1>1, <1>2, <3>1, <3>2
  <2> QED
    BY <1>1, <1>4, <1>5, <2>1, <2>2 DEF ClientView
<1>6. ASSUME ServerView(k, w, c, g, n, msgs, given), n = 0 => Len(x) <= 1, n < 4 => n + Len(x) <= 4,
             \A j \in 1..R : FromClient(records[j], c, g, n + L + j, msgs)
      PROVE  ServerView(k, x, c, g, n, msgs, given)
  <2>1. /\ ServerAt(k, c, g, n) /\ Fits(k.tcp, w)
        /\ \A i \in 1..L : FromClient(w[i].of, c, g, n + i, msgs)
        /\ Len(given) = Beyond(n, 4)
    BY <1>6 DEF ServerView, L
  <2>2. ASSUME NEW i \in 1..Len(x) PROVE FromClient(x[i].of, c, g, n + i, msgs)
    <3>1. CASE i \in 1..L
      BY <1>1, <2>1, <3>1
    <3>2. CASE i - L \in 1..R /\ L + (i - L) = i /\ n + L + (i - L) = n + i
      <4>1. x[L + (i - L)].of = records[i - L]
        BY <1>1, <3>2
      <4>2. FromClient(records[i - L], c, g, n + L + (i - L), msgs)
        BY <1>6, <3>2
      <4> QED
        BY <3>2, <4>1, <4>2
    <3> QED
      BY <1>1, <1>2, <3>1, <3>2
  <2> QED
    BY <1>1, <1>4, <1>6, <2>1, <2>2 DEF ServerView
<1> QED
  BY <1>5, <1>6 DEF L, R

\* What comes of the script, and of a stream whose application sends more.
LEMMA Scripted ==
    ASSUME NEW r, NEW c, NEW g, NEW n \in Nat, NEW msgs
    PROVE  /\ n <= Switch + 1 /\ FromServer(r, c, g, n, <<>>) => FromServer(r, c, g, n, msgs)
           /\ n <= 4 /\ FromClient(r, c, g, n, <<>>) => FromClient(r, c, g, n, msgs)
<1>1. ASSUME n <= Switch + 1, FromServer(r, c, g, n, <<>>) PROVE FromServer(r, c, g, n, msgs)
  <2>1. ~(n > Switch + 1)
    BY <1>1, Constants
  <2> QED
    BY <1>1, <2>1 DEF FromServer
<1>2. ASSUME n <= 4, FromClient(r, c, g, n, <<>>) PROVE FromClient(r, c, g, n, msgs)
  <2>1. ~(n > 4)
    BY <1>2
  <2> QED
    BY <1>2, <2>1 DEF FromClient
<1> QED
  BY <1>1, <1>2

\* An end's view does not depend on what is sent later.
LEMMA ViewsSent ==
    ASSUME NEW k, NEW w, NEW c, NEW g, NEW n \in Nat, NEW msgs \in Seq(Parts),
           NEW more \in Seq(Parts), NEW given
    PROVE  LET all == msgs \o more IN
           /\ ClientView(k, w, c, g, n, msgs, given) => ClientView(k, w, c, g, n, all, given)
           /\ ServerView(k, w, c, g, n, msgs, given) => ServerView(k, w, c, g, n, all, given)
<1> DEFINE all == msgs \o more
<1>1. Len(msgs) \in Nat /\ Len(all) >= Len(msgs) /\ \A i \in 1..Len(msgs) : all[i] = msgs[i]
  <2>1. /\ msgs \o more \in Seq(Parts) /\ Len(msgs \o more) = Len(msgs) + Len(more)
        /\ \A i \in 1..Len(msgs) + Len(more) :
              (msgs \o more)[i] = IF i <= Len(msgs) THEN msgs[i] ELSE more[i - Len(msgs)]
    BY ConcatProperties
  <2> HIDE DEF all
  <2>2. Len(more) \in Nat /\ Len(msgs) \in Nat
    OBVIOUS
  <2> QED
    BY <2>1, <2>2 DEF all
<1>2. Len(all) \in Nat
  OBVIOUS
<1> HIDE DEF all
<1>3. ASSUME NEW r, NEW i \in Nat, FromServer(r, c, g, i, msgs) PROVE FromServer(r, c, g, i, all)
  <2> DEFINE d == i - Switch - 1
  <2>1. i > Switch + 1 => r.type = "application_data" /\ d \in 1..Len(msgs) /\ r.body = msgs[d]
    BY <1>3 DEF FromServer
  <2>2. i > Switch + 1 => r.type = "application_data" /\ d \in 1..Len(all) /\ r.body = all[d]
    <3> HIDE DEF d
    <3> QED
      BY <1>1, <1>2, <2>1
  <2> QED
    BY <1>3, <2>2 DEF FromServer
<1>4. ASSUME NEW r, NEW i \in Nat, FromClient(r, c, g, i, msgs) PROVE FromClient(r, c, g, i, all)
  <2> DEFINE d == i - 4
  <2>1. i > 4 => \/ r.type = "application_data" /\ d \in 1..Len(msgs) /\ r.body = msgs[d]
                 \/ r.type = "data" /\ ~r.sealed
    BY <1>4 DEF FromClient
  <2>2. i > 4 => \/ r.type = "application_data" /\ d \in 1..Len(all) /\ r.body = all[d]
                 \/ r.type = "data" /\ ~r.sealed
    <3> HIDE DEF d
    <3> QED
      BY <1>1, <1>2, <2>1
  <2> QED
    BY <1>4, <2>2 DEF FromClient
<1>5. ASSUME ClientView(k, w, c, g, n, msgs, given) PROVE ClientView(k, w, c, g, n, all, given)
  BY <1>3, <1>5 DEF ClientView
<1>6. ASSUME ServerView(k, w, c, g, n, msgs, given) PROVE ServerView(k, w, c, g, n, all, given)
  BY <1>4, <1>6 DEF ServerView
<1> QED
  BY <1>5, <1>6 DEF all

-----------------------------------------------------------------------------
(* What a read makes of a connection.                                        *)

\* What an application is given of what the other sent.
LEMMA Handout ==
    ASSUME NEW out, NEW msgs \in Seq(Parts), NEW d0 \in Nat, NEW d \in Nat, d0 <= d,
           d <= Len(msgs), Handed(out, msgs, d0, d)
    PROVE  /\ Bodies(out) = SubSeq(msgs, d0 + 1, d)
           /\ Bodies(out) \in Seq(Parts) /\ Len(Bodies(out)) = d - d0
<1> DEFINE q == d0 + 1
           x == SubSeq(msgs, q, d)
           b == Bodies(out)
           L == d - d0
<1>1. /\ q \in Nat /\ 1 <= q /\ q <= d + 1 /\ d + 1 - q = L /\ L \in Nat
      /\ \A i \in 1..L : q + i - 1 = d0 + i
  OBVIOUS
<1>2. out \in Seq(Recs) /\ Len(out) = L /\ \A j \in 1..L : out[j] = Record("data", msgs[d0 + j])
  BY DEF Handed
<1>3. b = [i \in 1..L |-> out[i].body]
  BY <1>2 DEF Bodies
<1> HIDE DEF q, b, L
<1>4. /\ x \in Seq(Parts) /\ Len(x) = d + 1 - q
      /\ \A i \in 1..d + 1 - q : x[i] = msgs[q + i - 1]
  BY <1>1, Slice
<1> HIDE DEF x
<1>5. ASSUME NEW i \in 1..L PROVE x[i] = msgs[d0 + i] /\ x[i] \in Parts
  <2>1. x[i] = msgs[q + i - 1] /\ i \in 1..Len(x)
    BY <1>1, <1>4
  <2>2. q + i - 1 = d0 + i
    BY <1>1
  <2>3. x[i] \in Parts
    BY <1>4, <2>1
  <2> QED
    BY <2>1, <2>2, <2>3
<1>6. ASSUME NEW i \in 1..L PROVE out[i].body = x[i]
  BY <1>2, <1>5 DEF Record
<1>7. b \in Seq(Parts) /\ Len(b) = L /\ \A i \in 1..L : b[i] = x[i]
  <2> DEFINE e(i) == out[i].body
  <2>1. \A i \in 1..L : e(i) \in Parts
    BY <1>5, <1>6
  <2>2. b = [i \in 1..L |-> e(i)]
    BY <1>3
  <2> HIDE DEF e
  <2>3. b \in Seq(Parts) /\ Len(b) = L /\ \A i \in 1..L : b[i] = e(i)
    BY <1>1, <2>1, <2>2
  <2> QED
    BY <1>6, <2>3 DEF e
<1>8. b = x
  BY <1>1, <1>4, <1>7, SeqEqual
<1> QED
  BY <1>7, <1>8 DEF b, x, q, L

\* more is what comes next of msgs for one that was given some: d in all.
ComesNext(more, msgs, given, d) ==
    /\ more = SubSeq(msgs, Len(given) + 1, d) /\ more \in Seq(Parts)
    /\ d \in Len(given) + 1..Len(msgs)
    /\ Len(given \o more) = d /\ given \o more \in Seq(Parts)

\* What a read gives the client's application are its next parts.
LEMMA ClientGiven ==
    ASSUME NEW c, NEW g, NEW n \in Nat, NEW k, NEW w, NEW msgs \in Seq(Parts),
           NEW given \in Seq(Parts), ClientView(k, w, c, g, n, msgs, given), NEW i \in 0..Len(w),
           NEW a, ClientRun(a, k, c, g, n, i, w, msgs)
    PROVE  /\ a.res \in {"NONE", "HKOK", "APPDATA"}
           /\ a.res = "HKOK" => n + i = Switch + 1
           /\ a.res = "APPDATA" =>
                 ComesNext(Bodies(a.out), msgs, given, Beyond(n + i, Switch + 1))
           /\ a.res # "APPDATA" => Len(given) = Beyond(n + i, Switch + 1)
<1> DEFINE d0 == Beyond(n, Switch + 1)
           d == Beyond(n + i, Switch + 1)
<1>1. /\ Len(given) = d0 /\ w \in Seq(Pieces) /\ i \in Nat
      /\ \A j \in 1..Len(w) : FromServer(w[j].of, c, g, n + j, msgs)
      /\ n < Flight => n + Len(w) <= Flight
  BY DEF ClientView
<1>2. a.res = IF i = 0 \/ n + i <= Switch THEN "NONE"
              ELSE IF n + i = Switch + 1 THEN "HKOK" ELSE "APPDATA"
  BY DEF ClientRun
<1>3. a.res # "APPDATA" => d = d0
  <2>1. CASE i = 0
    BY <2>1
  <2>2. CASE n + i <= Switch + 1
    BY <1>1, <2>2, Constants DEF Beyond
  <2> QED
    BY <1>1, <1>2, <2>1, <2>2, Constants
<1>4. ASSUME a.res = "APPDATA" PROVE ComesNext(Bodies(a.out), msgs, given, d)
  <2>1. i # 0 /\ n + i > Switch + 1 /\ n >= Flight
    BY <1>1, <1>2, <1>4, Constants
  <2>2. Handed(a.out, msgs, d0, d)
    BY <2>1 DEF ClientRun
  <2>3. d0 \in Nat /\ d \in Nat /\ d0 < d /\ d <= Len(msgs)
    <3>1. d0 \in Nat /\ d \in Nat /\ d0 < d /\ d = n + i - Switch - 1
      BY <1>1, <2>1, Constants DEF Beyond
    <3> DEFINE q == n + i
    <3>2. FromServer(w[i].of, c, g, q, msgs) /\ q > Switch + 1
      BY <1>1, <2>1
    <3> HIDE DEF q
    <3>3. q - Switch - 1 \in 1..Len(msgs)
      BY <3>2 DEF FromServer
    <3>4. n + i - Switch - 1 <= Len(msgs)
      BY <3>3, Constants DEF q
    <3> QED
      BY <3>1, <3>4
  <2> HIDE DEF d0, d
  <2> DEFINE b == Bodies(a.out)
  <2>4. b = SubSeq(msgs, d0 + 1, d) /\ b \in Seq(Parts) /\ Len(b) = d - d0
    BY <2>2, <2>3, Handout
  <2> HIDE DEF b
  <2>5. given \o b \in Seq(Parts) /\ Len(given \o b) = Len(given) + Len(b)
    BY <2>4, ConcatProperties
  <2>6. Len(given \o b) = d /\ d \in Len(given) + 1..Len(msgs)
    <3>1. Len(given) = d0 /\ Len(b) = d - d0
      BY <1>1, <2>4
    <3>2. Len(msgs) \in Nat /\ d0 + (d - d0) = d /\ d \in d0 + 1..Len(msgs)
      BY <2>3
    <3> QED
      BY <2>5, <3>1, <3>2
  <2> QED
    BY <1>1, <2>4, <2>5, <2>6 DEF ComesNext, b
<1> QED
  BY <1>1, <1>2, <1>3, <1>4

\* What a read gives the server's application are its next parts.
LEMMA ServerGiven ==
    ASSUME NEW c, NEW g, NEW n \in Nat, NEW k, NEW w, NEW msgs \in Seq(Parts),
           NEW given \in Seq(Parts), ServerView(k, w, c, g, n, msgs, given), NEW i \in 0..Len(w),
           NEW a, ServerRun(a, k, c, g, n, i, w, msgs)
    PROVE  /\ a.res \in {"NONE", "HKOK", "APPDATA"}
           /\ a.res = "APPDATA" => ComesNext(Bodies(a.out), msgs, given, Beyond(n + i, 4))
           /\ a.res # "APPDATA" => Len(given) = Beyond(n + i, 4)
<1> DEFINE d0 == Beyond(n, 4)
           d == Beyond(n + i, 4)
<1>1. /\ Len(given) = d0 /\ w \in Seq(Pieces) /\ i \in Nat
      /\ \A j \in 1..Len(w) : FromClient(w[j].of, c, g, n + j, msgs)
      /\ n < 4 => n + Len(w) <= 4
  BY DEF ServerView
<1>2. a.res = IF i = 0 \/ n + i < 4 THEN "NONE" ELSE IF n + i = 4 THEN "HKOK" ELSE "APPDATA"
  BY DEF ServerRun
<1>3. a.res # "APPDATA" => d = d0
  <2>1. CASE i = 0
    BY <2>1
  <2>2. CASE n + i <= 4
    BY <1>1, <2>2 DEF Beyond
  <2> QED
    BY <1>1, <1>2, <2>1, <2>2
<1>4. ASSUME a.res = "APPDATA" PROVE ComesNext(Bodies(a.out), msgs, given, d)
  <2>1. i # 0 /\ n + i > 4 /\ n >= 4
    BY <1>1, <1>2, <1>4
  <2>2. Handed(a.out, msgs, d0, d)
    BY <2>1 DEF ServerRun
  <2>3. d0 \in Nat /\ d \in Nat /\ d0 < d /\ d <= Len(msgs)
    <3>1. d0 \in Nat /\ d \in Nat /\ d0 < d /\ d = n + i - 4
      BY <1>1, <2>1 DEF Beyond
    <3> DEFINE q == n + i
    <3>2. FromClient(w[i].of, c, g, q, msgs) /\ q > 4
      BY <1>1, <2>1
    <3>3. w[i].of.sealed
      BY <2>1 DEF ServerRun
    <3> HIDE DEF q
    <3>4. q - 4 \in 1..Len(msgs)
      BY <3>2, <3>3 DEF FromClient
    <3> QED
      BY <3>1, <3>4 DEF q
  <2> HIDE DEF d0, d
  <2> DEFINE b == Bodies(a.out)
  <2>4. b = SubSeq(msgs, d0 + 1, d) /\ b \in Seq(Parts) /\ Len(b) = d - d0
    BY <2>2, <2>3, Handout
  <2> HIDE DEF b
  <2>5. given \o b \in Seq(Parts) /\ Len(given \o b) = Len(given) + Len(b)
    BY <2>4, ConcatProperties
  <2>6. Len(given \o b) = d /\ d \in Len(given) + 1..Len(msgs)
    <3>1. Len(given) = d0 /\ Len(b) = d - d0
      BY <1>1, <2>4
    <3>2. Len(msgs) \in Nat /\ d0 + (d - d0) = d /\ d \in d0 + 1..Len(msgs)
      BY <2>3
    <3> QED
      BY <2>5, <3>1, <3>2
  <2> QED
    BY <1>1, <2>4, <2>5, <2>6 DEF ComesNext, b
<1> QED
  BY <1>1, <1>2, <1>3, <1>4

\* The view of the end that has read.
LEMMA ViewsAfter ==
    ASSUME NEW c, NEW g, NEW n \in Nat, NEW k, NEW w, NEW msgs, NEW given, NEW left,
           NEW i \in 0..Len(w), NEW a, Rest(a.s.tcp, w, left, i), NEW now
    PROVE  /\ /\ ClientView(k, w, c, g, n, msgs, given) /\ ClientRun(a, k, c, g, n, i, w, msgs)
              /\ Len(now) = Beyond(n + i, Switch + 1)
              => ClientView(a.s, left, c, g, n + i, msgs, now)
           /\ /\ ServerView(k, w, c, g, n, msgs, given) /\ ServerRun(a, k, c, g, n, i, w, msgs)
              /\ Len(now) = Beyond(n + i, 4)
              => ServerView(a.s, left, c, g, n + i, msgs, now)
<1> DEFINE q == n + i
<1>1. /\ left \in Seq(Pieces) /\ Fits(a.s.tcp, left)
      /\ Len(left) = Len(w) - i /\ \A j \in 1..Len(left) : left[j].of = w[i + j].of
  BY DEF Rest
<1>2. ASSUME ClientView(k, w, c, g, n, msgs, given), ClientRun(a, k, c, g, n, i, w, msgs),
             Len(now) = Beyond(q, Switch + 1)
      PROVE  ClientView(a.s, left, c, g, q, msgs, now)
  <2>1. /\ w \in Seq(Pieces) /\ Len(w) \in Nat /\ i \in Nat /\ q \in Nat
        /\ \A j \in 1..Len(w) : FromServer(w[j].of, c, g, n + j, msgs)
        /\ n < Flight => n + Len(w) <= Flight
    BY <1>2 DEF ClientView
  <2>2. q < Flight => q + Len(left) <= Flight
    BY <1>1, <2>1, Constants
  <2>3. ASSUME NEW j \in 1..Len(left) PROVE FromServer(left[j].of, c, g, q + j, msgs)
    <3>1. i + j \in 1..Len(w) /\ n + (i + j) = q + j
      BY <1>1, <2>1
    <3>2. FromServer(w[i + j].of, c, g, n + (i + j), msgs)
      BY <2>1, <3>1
    <3> QED
      BY <1>1, <3>1, <3>2
  <2>4. ClientAt(a.s, c, g, q)
    BY <1>2 DEF ClientRun
  <2> HIDE DEF q
  <2> QED
    BY <1>1, <1>2, <2>2, <2>3, <2>4 DEF ClientView
<1>3. ASSUME ServerView(k, w, c, g, n, msgs, given), ServerRun(a, k, c, g, n, i, w, msgs),
             Len(now) = Beyond(q, 4)
      PROVE  ServerView(a.s, left, c, g, q, msgs, now)
  <2>1. /\ w \in Seq(Pieces) /\ Len(w) \in Nat /\ i \in Nat /\ q \in Nat
        /\ \A j \in 1..Len(w) : FromClient(w[j].of, c, g, n + j, msgs)
        /\ n = 0 => Len(w) <= 1
        /\ n < 4 => n + Len(w) <= 4
    BY <1>3 DEF ServerView
  <2>2. (q < 4 => q + Len(left) <= 4) /\ (q = 0 => Len(left) <= 1)
    BY <1>1, <2>1
  <2>3. ASSUME NEW j \in 1..Len(left) PROVE FromClient(left[j].of, c, g, q + j, msgs)
    <3>1. i + j \in 1..Len(w) /\ n + (i + j) = q + j
      BY <1>1, <2>1
    <3>2. FromClient(w[i + j].of, c, g, n + (i + j), msgs)
      BY <2>1, <3>1
    <3> QED
      BY <1>1, <3>1, <3>2
  <2>4. ServerAt(a.s, c, g, q)
    BY <1>3 DEF ServerRun
  <2> HIDE DEF q
  <2> QED
    BY <1>1, <1>3, <2>2, <2>3, <2>4 DEF ServerView
<1> QED
  BY <1>2, <1>3 DEF q

\* A wire with nothing put behind it.
LEMMA NothingBehind ==
    ASSUME NEW w \in Seq(Pieces), NEW x, Longer(x, w, <<>>)
    PROVE  x = w
<1> DEFINE e == <<>>
<1>1. Len(e) = 0
  OBVIOUS
<1>2. Longer(x, w, e)
  OBVIOUS
<1> HIDE DEF e
<1>3. x \in Seq(Pieces) /\ Len(x) = Len(w) /\ \A i \in 1..Len(w) : x[i] = w[i]
  BY <1>1, <1>2 DEF Longer
<1> QED
  BY <1>3, SeqEqual

\* Nothing sealed is on its way before the cipher is on.
LEMMA NothingSealed ==
    ASSUME NEW w \in Seq(Pieces), \A i \in 1..Len(w) : ~w[i].of.sealed
    PROVE  Ciphered(w) = 0
<1>1. Marks(w) = {}
  BY DEF Marks
<1> QED
  BY <1>1, CipheredIsNat, FS_EmptySet

\* What an end that has read puts on the wire.
Answers(a, o) ==
    /\ a.res \in {"NONE", "HKOK"} => o = a.out
    /\ a.res = "APPDATA" => o = <<>>

ClientPuts(a, k, o, c, g, n, q) ==
    IF n < Flight /\ q = Flight THEN ClientFlight(o, c, g) /\ a.s.wseq = 1
    ELSE o = <<>> /\ a.s.wseq = k.wseq
ServerPuts(a, k, o, c, g, n, q) ==
    /\ IF n = 0 /\ q = 1 THEN FirstFlight(o, c, g)
       ELSE IF n < 4 /\ q = 4 THEN ServerFlight(o, c, g)
       ELSE o = <<>>
    /\ a.s.wseq = IF n < 4 /\ q = 4 THEN 1 ELSE k.wseq

\* A read of the client that answers nothing.
LEMMA ClientQuiet ==
    ASSUME NEW c, NEW g, NEW n \in Nat, NEW k, NEW w, NEW msgs, NEW given,
           ClientView(k, w, c, g, n, msgs, given), NEW i \in 0..Len(w),
           NEW a, ClientRun(a, k, c, g, n, i, w, msgs), NEW o, Answers(a, o)
    PROVE  ClientPuts(a, k, o, c, g, n, n + i)
<1>1. /\ w \in Seq(Pieces) /\ i \in Nat /\ n < Flight => n + Len(w) <= Flight
  BY DEF ClientView
<1>2. a.res = IF i = 0 \/ n + i <= Switch THEN "NONE"
              ELSE IF n + i = Switch + 1 THEN "HKOK" ELSE "APPDATA"
  BY DEF ClientRun
<1>3. CASE n < Flight /\ n + i = Flight
  <2>1. a.res = "NONE" /\ o = a.out
    BY <1>2, <1>3, Constants DEF Answers
  <2> QED
    BY <1>3, <2>1 DEF ClientRun, ClientPuts
<1>4. CASE ~(n < Flight /\ n + i = Flight)
  <2> DEFINE d0 == Beyond(n, Switch + 1)
             d == Beyond(n + i, Switch + 1)
  <2>1. Handed(a.out, msgs, d0, d) /\ a.s.wseq = k.wseq
    BY <1>4 DEF ClientRun
  <2>2. a.res # "APPDATA" => d - d0 = 0
    <3>1. CASE i = 0
      BY <3>1, Constants DEF Beyond
    <3>2. CASE n + i <= Switch + 1
      BY <1>1, <3>2, Constants DEF Beyond
    <3> QED
      BY <1>1, <1>2, <3>1, <3>2, Constants
  <2> HIDE DEF d, d0
  <2>3. a.res # "APPDATA" => a.out = <<>>
    <3>1. a.res # "APPDATA" => a.out \in Seq(Recs) /\ Len(a.out) = 0
      BY <2>1, <2>2 DEF Handed
    <3> QED
      BY <3>1
  <2>4. a.res \in {"NONE", "HKOK", "APPDATA"}
    BY <1>2
  <2>5. o = <<>>
    BY <2>3, <2>4 DEF Answers
  <2> QED
    BY <1>4, <2>1, <2>5 DEF ClientPuts
<1> QED
  BY <1>3, <1>4

\* A read of the server that answers nothing.
LEMMA ServerQuiet ==
    ASSUME NEW c, NEW g, NEW n \in Nat, NEW k, NEW w, NEW msgs, NEW given,
           ServerView(k, w, c, g, n, msgs, given), NEW i \in 0..Len(w),
           NEW a, ServerRun(a, k, c, g, n, i, w, msgs), NEW o, Answers(a, o)
    PROVE  ServerPuts(a, k, o, c, g, n, n + i)
<1>1. /\ w \in Seq(Pieces) /\ i \in Nat /\ n < 4 => n + Len(w) <= 4
  BY DEF ServerView
<1>2. a.res = IF i = 0 \/ n + i < 4 THEN "NONE" ELSE IF n + i = 4 THEN "HKOK" ELSE "APPDATA"
  BY DEF ServerRun
<1>3. a.s.wseq = IF n < 4 /\ n + i = 4 THEN 1 ELSE k.wseq
  BY DEF ServerRun
<1>4. CASE (n = 0 /\ n + i = 1) \/ (n < 4 /\ n + i = 4)
  <2>1. o = a.out
    BY <1>2, <1>4 DEF Answers
  <2> QED
    BY <1>3, <1>4, <2>1 DEF ServerRun, ServerPuts
<1>5. CASE ~((n = 0 /\ n + i = 1) \/ (n < 4 /\ n + i = 4))
  <2> DEFINE d0 == Beyond(n, 4)
             d == Beyond(n + i, 4)
  <2>1. Handed(a.out, msgs, d0, d)
    BY <1>5 DEF ServerRun
  <2>2. a.res # "APPDATA" => d - d0 = 0
    <3>1. CASE i = 0
      BY <3>1 DEF Beyond
    <3>2. CASE n + i <= 4
      BY <1>1, <3>2 DEF Beyond
    <3> QED
      BY <1>1, <1>2, <3>1, <3>2
  <2> HIDE DEF d, d0
  <2>3. a.res # "APPDATA" => a.out = <<>>
    <3>1. a.res # "APPDATA" => a.out \in Seq(Recs) /\ Len(a.out) = 0
      BY <2>1, <2>2 DEF Handed
    <3> QED
      BY <3>1
  <2>4. a.res \in {"NONE", "HKOK", "APPDATA"}
    BY <1>2
  <2>5. o = <<>>
    BY <2>3, <2>4 DEF Answers
  <2> QED
    BY <1>3, <1>5, <2>5 DEF ServerPuts
<1> QED
  BY <1>4, <1>5

\* The client reads, and what it answers goes up.
LEMMA ClientAnswers ==
    ASSUME NEW c, NEW g, NEW n \in Nat, NEW m \in Nat, NEW k, NEW s, NEW d, NEW u,
           NEW su \in Seq(Parts), NEW sd \in Seq(Parts), NEW gu, NEW gd,
           ClientView(k, d, c, g, n, sd, gd), ServerView(s, u, c, g, m, su, gu),
           Linked(k, s, u, d, n, m, su, sd),
           NEW i \in 0..Len(d), NEW a, ClientRun(a, k, c, g, n, i, d, sd),
           NEW left, Rest(a.s.tcp, d, left, i),
           NEW o, Answers(a, o), NEW x, Longer(x, u, o)
    PROVE  ServerView(s, x, c, g, m, su, gu) /\ Linked(a.s, s, x, left, n + i, m, su, sd)
<1> DEFINE q == n + i
           lu == Len(u)
           ld == Len(d)
<1>1. /\ u \in Seq(Pieces) /\ d \in Seq(Pieces) /\ lu \in Nat /\ ld \in Nat /\ i \in Nat /\ i <= ld
      /\ q \in Nat /\ n <= q /\ q <= n + ld /\ q + (ld - i) = n + ld
      /\ Fits(k.tcp, d) /\ ClientAt(k, c, g, n) /\ ServerAt(s, c, g, m)
      /\ n < Flight => n + ld <= Flight
  BY DEF ClientView, ServerView
<1>2. /\ n + ld = ServerTotal(m, sd) /\ m + lu = ClientTotal(n, su)
      /\ n < Switch + 1 => su = <<>>
      /\ m < 4 => sd = <<>>
      /\ s.tcp # <<>> => u # <<>>
      /\ k.wr => k.wseq = Beyond(m, 3) + Ciphered(u)
      /\ s.wr => s.wseq = Beyond(n, Switch) + Ciphered(d)
  BY DEF Linked
<1>3. /\ ClientAt(a.s, c, g, q)
      /\ \A j \in 1..i : d[j].of.sealed <=> n + j > Switch
  BY DEF ClientRun
<1>4. Len(left) = ld - i /\ (a.s.tcp # <<>> => left # <<>>)
  BY DEF Rest
<1>5. Beyond(n, Switch) + Ciphered(d) = Beyond(q, Switch) + Ciphered(left)
  BY <1>1, <1>3, SealsTaken, Constants
<1>6. IF n < Flight /\ q = Flight THEN ClientFlight(o, c, g) /\ a.s.wseq = 1
      ELSE o = <<>> /\ a.s.wseq = k.wseq
  <2>1. ClientPuts(a, k, o, c, g, n, n + i)
    BY ClientQuiet
  <2> QED
    BY <2>1 DEF ClientPuts
<1>7. (a.s.wr <=> q >= Flight) /\ (k.wr <=> n >= Flight) /\ (s.wr <=> m >= 4)
  BY <1>1, <1>3 DEF ClientAt, ServerAt
<1>8. q < Switch + 1 => su = <<>>
  BY <1>1, <1>2, Constants
<1>9. q + Len(left) = ServerTotal(m, sd)
  BY <1>1, <1>2, <1>4
<1> HIDE DEF q, lu, ld
<1>10. CASE n < Flight /\ q = Flight
  <2>1. ClientTotal(n, su) = 1 /\ ServerTotal(m, sd) >= Flight /\ Flight >= 3
    BY <1>1, <1>2, <1>10, Constants DEF ClientTotal
  <2>2. m = 1 /\ lu = 0
    <3>1. m # 0
      <4>1. m = 0 => ServerTotal(m, sd) = 0
        BY DEF ServerTotal
      <4> QED
        BY <2>1, <4>1, Constants
    <3>2. m + lu = 1 /\ lu \in Nat
      BY <1>1, <1>2, <2>1
    <3> QED
      BY <3>1, <3>2
  <2>3. o \in Seq(Recs) /\ Len(o) = 3 /\ o[3].sealed
        /\ \A j \in 1..3 : FromClient(o[j], c, g, j + 1, <<>>)
    BY <1>6, <1>10 DEF ClientFlight
  <2>4. Len(x) = 3 /\ x \in Seq(Pieces)
    BY <2>2, <2>3 DEF Longer, lu
  <2>5. \A j \in 1..Len(o) : FromClient(o[j], c, g, m + Len(u) + j, su)
    <3>1. ASSUME NEW j \in 1..3 PROVE FromClient(o[j], c, g, m + Len(u) + j, su)
      <4>1. m + Len(u) + j = j + 1 /\ j + 1 \in Nat /\ j + 1 <= 4
        BY <2>2 DEF lu
      <4>2. FromClient(o[j], c, g, j + 1, su)
        BY <2>3, <4>1, Scripted
      <4> QED
        BY <4>1, <4>2
    <3> QED
      BY <2>3, <3>1
  <2>6. ServerView(s, x, c, g, m, su, gu)
    <3>1. (m = 0 => Len(x) <= 1) /\ (m < 4 => m + Len(x) <= 4)
      BY <2>2, <2>4
    <3> QED
      BY <1>1, <1>2, <2>3, <2>5, <3>1, ViewsLonger
  <2>7. Ciphered(x) = 1
    <3>1. Ciphered(u) = 0
      <4>1. \A j \in 1..Len(u) : ~u[j].of.sealed
        BY <2>2 DEF lu
      <4> QED
        BY <1>1, <4>1, NothingSealed
    <3>2. OnlyLast(o)
      <4>1. ~o[1].sealed /\ ~o[2].sealed
        <5>1. FromClient(o[1], c, g, 1 + 1, <<>>) /\ FromClient(o[2], c, g, 2 + 1, <<>>)
          BY <2>3
        <5>2. 1 + 1 <= 3 /\ 2 + 1 <= 3
          OBVIOUS
        <5> QED
          BY <5>1, <5>2 DEF FromClient
      <4>2. \A j \in 1..3 : j = 1 \/ j = 2 \/ j = 3
        OBVIOUS
      <4> QED
        BY <2>3, <4>1, <4>2 DEF OnlyLast
    <3>3. SealedIn(o) = 1
      BY <2>3, <3>2, SealedOf
    <3>4. Ciphered(x) = Ciphered(u) + SealedIn(o)
      BY <1>1, <2>3, SealsBehind
    <3> QED
      BY <3>1, <3>3, <3>4
  <2>8. m + Len(x) = ClientTotal(q, su)
    BY <1>10, <2>2, <2>4, Constants DEF ClientTotal
  <2>9. a.s.wseq = Beyond(m, 3) + Ciphered(x) /\ ~s.wr
    BY <1>6, <1>7, <1>10, <2>2, <2>7 DEF Beyond
  <2>10. s.tcp # <<>> => x # <<>>
    <3>1. ASSUME x = <<>> PROVE FALSE
      <4>1. Len(x) = 0
        BY <3>1
      <4> QED
        BY <2>4, <4>1
    <3> QED
      BY <3>1
  <2>11. Linked(a.s, s, x, left, q, m, su, sd)
    BY <1>2, <1>4, <1>8, <1>9, <2>8, <2>9, <2>10 DEF Linked
  <2> QED
    BY <2>6, <2>11 DEF q
<1>11. CASE ~(n < Flight /\ q = Flight)
  <2>1. x = u /\ a.s.wseq = k.wseq
    BY <1>1, <1>6, <1>11, NothingBehind
  <2>2. n < Flight <=> q < Flight
    BY <1>1, <1>11, Constants
  <2>3. ClientTotal(q, su) = ClientTotal(n, su)
    <3>1. Len(<<>>) = 0
      OBVIOUS
    <3>2. CASE n < Flight
      BY <2>2, <3>2 DEF ClientTotal
    <3>3. CASE n >= Flight /\ n < Switch + 1
      BY <1>1, <1>2, <2>2, <3>1, <3>3, Constants DEF ClientTotal
    <3>4. CASE n >= Switch + 1
      BY <1>1, <3>4, Constants DEF ClientTotal
    <3> QED
      BY <3>2, <3>3, <3>4, Constants
  <2>4. a.s.wr => a.s.wseq = Beyond(m, 3) + Ciphered(x)
    BY <1>2, <1>7, <2>1, <2>2, <1>1, Constants
  <2>5. s.wr => s.wseq = Beyond(q, Switch) + Ciphered(left)
    BY <1>2, <1>5 DEF q
  <2>6. Linked(a.s, s, x, left, q, m, su, sd)
    BY <1>2, <1>4, <1>8, <1>9, <2>1, <2>3, <2>4, <2>5 DEF Linked, lu
  <2> QED
    BY <2>1, <2>6 DEF q
<1> QED
  BY <1>10, <1>11

\* The server reads, and what it answers goes down.
LEMMA ServerAnswers ==
    ASSUME NEW c, NEW g, NEW n \in Nat, NEW m \in Nat, NEW k, NEW s, NEW d, NEW u,
           NEW su \in Seq(Parts), NEW sd \in Seq(Parts), NEW gu, NEW gd,
           ClientView(k, d, c, g, n, sd, gd), ServerView(s, u, c, g, m, su, gu),
           Linked(k, s, u, d, n, m, su, sd),
           NEW i \in 0..Len(u), NEW a, ServerRun(a, s, c, g, m, i, u, su),
           NEW left, Rest(a.s.tcp, u, left, i),
           NEW o, Answers(a, o), NEW x, Longer(x, d, o)
    PROVE  ClientView(k, x, c, g, n, sd, gd) /\ Linked(k, a.s, left, x, n, m + i, su, sd)
<1> DEFINE q == m + i
           lu == Len(u)
           ld == Len(d)
<1>1. /\ u \in Seq(Pieces) /\ d \in Seq(Pieces) /\ lu \in Nat /\ ld \in Nat /\ i \in Nat /\ i <= lu
      /\ q \in Nat /\ m <= q /\ q <= m + lu /\ q + (lu - i) = m + lu
      /\ Fits(s.tcp, u) /\ ClientAt(k, c, g, n) /\ ServerAt(s, c, g, m)
      /\ m < 4 => m + lu <= 4
      /\ m = 0 => lu <= 1
  BY DEF ClientView, ServerView
<1>2. /\ n + ld = ServerTotal(m, sd) /\ m + lu = ClientTotal(n, su)
      /\ n < Switch + 1 => su = <<>>
      /\ m < 4 => sd = <<>>
      /\ k.tcp # <<>> => d # <<>>
      /\ k.wr => k.wseq = Beyond(m, 3) + Ciphered(u)
      /\ s.wr => s.wseq = Beyond(n, Switch) + Ciphered(d)
  BY DEF Linked
<1>3. /\ ServerAt(a.s, c, g, q)
      /\ \A j \in 1..i : u[j].of.sealed <=> m + j > 3
  BY DEF ServerRun
<1>4. Len(left) = lu - i /\ (a.s.tcp # <<>> => left # <<>>)
  BY DEF Rest
<1>5. Beyond(m, 3) + Ciphered(u) = Beyond(q, 3) + Ciphered(left)
  BY <1>1, <1>3, SealsTaken
<1>6. /\ IF m = 0 /\ q = 1 THEN FirstFlight(o, c, g)
         ELSE IF m < 4 /\ q = 4 THEN ServerFlight(o, c, g)
         ELSE o = <<>>
      /\ a.s.wseq = IF m < 4 /\ q = 4 THEN 1 ELSE s.wseq
  <2>1. ServerPuts(a, s, o, c, g, m, m + i)
    BY ServerQuiet
  <2> QED
    BY <2>1 DEF ServerPuts
<1>7. (a.s.wr <=> q >= 4) /\ (k.wr <=> n >= Flight) /\ (s.wr <=> m >= 4)
  BY <1>1, <1>3 DEF ClientAt, ServerAt
<1>8. q < 4 => sd = <<>>
  BY <1>1, <1>2
<1>9. q + Len(left) = ClientTotal(n, su)
  BY <1>1, <1>2, <1>4
<1>10. k.wr => k.wseq = Beyond(q, 3) + Ciphered(left)
  BY <1>2, <1>5 DEF q
<1> HIDE DEF q, lu, ld
<1>11. CASE m = 0 /\ q = 1
  <2>1. n = 0 /\ ld = 0
    BY <1>1, <1>2, <1>11 DEF ServerTotal
  <2>2. o \in Seq(Recs) /\ Len(o) = Flight
        /\ \A j \in 1..Flight : FromServer(o[j], c, g, j, <<>>)
    BY <1>6, <1>11 DEF FirstFlight
  <2>3. Len(x) = Flight /\ x \in Seq(Pieces)
    BY <2>1, <2>2, Constants DEF Longer, ld
  <2>4. \A j \in 1..Len(o) : FromServer(o[j], c, g, n + Len(d) + j, sd)
    <3>1. ASSUME NEW j \in 1..Flight PROVE FromServer(o[j], c, g, n + Len(d) + j, sd)
      <4>1. n + Len(d) + j = j /\ j \in Nat /\ j <= Switch + 1
        BY <2>1, Constants DEF ld
      <4>2. FromServer(o[j], c, g, j, sd)
        BY <2>2, <4>1, Scripted
      <4> QED
        BY <4>1, <4>2
    <3> QED
      BY <2>2, <3>1
  <2>5. ClientView(k, x, c, g, n, sd, gd)
    <3>1. n < Flight => n + Len(x) <= Flight
      BY <2>1, <2>3, Constants
    <3> QED
      BY <1>1, <1>2, <2>2, <2>4, <3>1, ViewsLonger
  <2>6. n + Len(x) = ServerTotal(q, sd)
    BY <1>11, <2>1, <2>3, Constants DEF ServerTotal
  <2>7. ~a.s.wr
    BY <1>7, <1>11
  <2>8. k.tcp # <<>> => x # <<>>
    BY <2>3, Constants
  <2>9. Linked(k, a.s, left, x, n, q, su, sd)
    BY <1>2, <1>4, <1>8, <1>9, <1>10, <2>6, <2>7, <2>8 DEF Linked
  <2> QED
    BY <2>5, <2>9 DEF q
<1>12. CASE m < 4 /\ q = 4
  <2>1. m # 0 /\ sd = <<>> /\ Len(sd) = 0
    BY <1>1, <1>2, <1>12
  <2>2. n = Flight /\ ld = 0
    <3>1. ClientTotal(n, su) >= 4 /\ ServerTotal(m, sd) = Flight
      BY <1>1, <1>2, <1>12, <2>1 DEF ServerTotal
    <3>2. n >= Flight
      BY <3>1, Constants DEF ClientTotal
    <3> QED
      BY <1>1, <1>2, <3>1, <3>2, Constants
  <2>3. o \in Seq(Recs) /\ Len(o) = 2 /\ o[2].sealed
        /\ \A j \in 1..2 : FromServer(o[j], c, g, Flight + j, <<>>)
    BY <1>6, <1>12 DEF ServerFlight
  <2>4. Len(x) = 2 /\ x \in Seq(Pieces)
    BY <2>2, <2>3 DEF Longer, ld
  <2>5. \A j \in 1..Len(o) : FromServer(o[j], c, g, n + Len(d) + j, sd)
    <3>1. ASSUME NEW j \in 1..2 PROVE FromServer(o[j], c, g, n + Len(d) + j, sd)
      <4>1. n + Len(d) + j = Flight + j /\ Flight + j \in Nat /\ Flight + j <= Switch + 1
        BY <2>2, Constants DEF ld
      <4>2. FromServer(o[j], c, g, Flight + j, sd)
        BY <2>3, <4>1, Scripted
      <4> QED
        BY <4>1, <4>2
    <3> QED
      BY <2>3, <3>1
  <2>6. ClientView(k, x, c, g, n, sd, gd)
    <3>1. n < Flight => n + Len(x) <= Flight
      BY <2>2, Constants
    <3> QED
      BY <1>1, <1>2, <2>3, <2>5, <3>1, ViewsLonger
  <2>7. Ciphered(x) = 1
    <3>1. Ciphered(d) = 0
      <4>1. \A j \in 1..Len(d) : ~d[j].of.sealed
        BY <2>2 DEF ld
      <4> QED
        BY <1>1, <4>1, NothingSealed
    <3>2. OnlyLast(o)
      <4>1. ~o[1].sealed
        <5>1. FromServer(o[1], c, g, Flight + 1, <<>>) /\ Flight + 1 <= Switch
          BY <2>3, Constants
        <5> QED
          BY <5>1 DEF FromServer
      <4>2. \A j \in 1..2 : j = 1 \/ j = 2
        OBVIOUS
      <4> QED
        BY <2>3, <4>1, <4>2 DEF OnlyLast
    <3>3. SealedIn(o) = 1
      BY <2>3, <3>2, SealedOf
    <3>4. Ciphered(x) = Ciphered(d) + SealedIn(o)
      BY <1>1, <2>3, SealsBehind
    <3> QED
      BY <3>1, <3>3, <3>4
  <2>8. n + Len(x) = ServerTotal(q, sd)
    BY <1>12, <2>1, <2>2, <2>4, Constants DEF ServerTotal
  <2>9. a.s.wseq = Beyond(n, Switch) + Ciphered(x)
    BY <1>6, <1>12, <2>2, <2>7, Constants DEF Beyond
  <2>10. k.tcp # <<>> => x # <<>>
    <3>1. ASSUME x = <<>> PROVE FALSE
      <4>1. Len(x) = 0
        BY <3>1
      <4> QED
        BY <2>4, <4>1
    <3> QED
      BY <3>1
  <2>11. Linked(k, a.s, left, x, n, q, su, sd)
    BY <1>2, <1>4, <1>8, <1>9, <1>10, <2>8, <2>9, <2>10 DEF Linked
  <2> QED
    BY <2>6, <2>11 DEF q
<1>13. CASE ~(m = 0 /\ q = 1) /\ ~(m < 4 /\ q = 4)
  <2>1. x = d /\ a.s.wseq = s.wseq
    BY <1>1, <1>6, <1>13, NothingBehind
  <2>2. (m = 0 <=> q = 0) /\ (m < 4 <=> q < 4)
    BY <1>1, <1>13
  <2>3. ServerTotal(q, sd) = ServerTotal(m, sd)
    BY <2>2 DEF ServerTotal
  <2>4. a.s.wr => a.s.wseq = Beyond(n, Switch) + Ciphered(x)
    BY <1>1, <1>2, <1>7, <2>1, <2>2
  <2>5. Linked(k, a.s, left, x, n, q, su, sd)
    BY <1>2, <1>4, <1>8, <1>9, <1>10, <2>1, <2>3, <2>4 DEF Linked, ld
  <2> QED
    BY <2>1, <2>5 DEF q
<1> QED
  BY <1>11, <1>12, <1>13

\* A client that gives up leaves what it had read behind what it sent.
LEMMA ClientDrops ==
    ASSUME NEW c, NEW g, NEW n \in Nat, NEW m \in Nat, NEW k, NEW s, NEW d, NEW u,
           NEW su \in Seq(Parts), NEW sd \in Seq(Parts), NEW gu, NEW gd,
           ClientView(k, d, c, g, n, sd, gd), ServerView(s, u, c, g, m, su, gu),
           Linked(k, s, u, d, n, m, su, sd),
           NEW a, ClientQuit(a, n, d), NEW x, Longer(x, u, a.out)
    PROVE  ServerView(s, x, c, g, m, su, gu)
<1>1. u \in Seq(Pieces) /\ d \in Seq(Pieces) /\ Len(u) \in Nat /\ Len(d) \in Nat
  BY DEF ClientView, ServerView
<1>2. n + Len(d) = ServerTotal(m, sd) /\ (s.tcp # <<>> => u # <<>>)
  BY DEF Linked
<1>3. CASE a.out = <<>>
  BY <1>1, <1>3, NothingBehind
<1>4. CASE a.out # <<>>
  <2>1. n + Len(d) > Switch + 1
    BY <1>4 DEF ClientQuit
  <2>2. m >= 4
    BY <1>1, <1>2, <2>1, Constants DEF ServerTotal
  <2>3. a.out \in Seq(Recs) /\ \A j \in 1..Len(a.out) : a.out[j].type = "data" /\ ~a.out[j].sealed
    BY DEF ClientQuit, Junk
  <2>4. ASSUME NEW j \in 1..Len(a.out) PROVE FromClient(a.out[j], c, g, m + Len(u) + j, su)
    <3> DEFINE q == m + Len(u) + j
    <3>1. q > 4 /\ ~(q <= 3) /\ q # 1 /\ q # 2 /\ q # 3 /\ q # 4
      BY <1>1, <2>2
    <3> HIDE DEF q
    <3>2. FromClient(a.out[j], c, g, q, su)
      BY <2>3, <3>1 DEF FromClient
    <3> QED
      BY <3>2 DEF q
  <2>5. (m = 0 => Len(x) <= 1) /\ (m < 4 => m + Len(x) <= 4) /\ a.out \in Seq(Recs)
    BY <2>2, <2>3
  <2> QED
    BY <1>1, <1>2, <2>4, <2>5, ViewsLonger
<1> QED
  BY <1>3, <1>4

-----------------------------------------------------------------------------
(* An application sends.                                                     *)

\* The count of sealed records is no part of what an end has taken.
LEMMA Counted ==
    ASSUME NEW k, NEW t, Apart(t, k, {"wseq"}), NEW w, NEW c, NEW g, NEW n, NEW msgs, NEW given
    PROVE  /\ ClientView(k, w, c, g, n, msgs, given) => ClientView(t, w, c, g, n, msgs, given)
           /\ ServerView(k, w, c, g, n, msgs, given) => ServerView(t, w, c, g, n, msgs, given)
<1>1. /\ t \in Sessions /\ t.side = k.side /\ t.open = k.open /\ t.fin = k.fin /\ t.wr = k.wr
      /\ t.rd = k.rd /\ t.rseq = k.rseq /\ t.pkgm = k.pkgm /\ t.hmsg = k.hmsg
      /\ t.cr = k.cr /\ t.sr = k.sr /\ t.master = k.master /\ t.cert = k.cert
      /\ t.trust = k.trust /\ t.tcp = k.tcp
  BY DEF Apart, Fields
<1>2. ClientAt(k, c, g, n) => ClientAt(t, c, g, n)
  BY <1>1 DEF ClientAt
<1>3. ServerAt(k, c, g, n) => ServerAt(t, c, g, n)
  BY <1>1 DEF ServerAt
<1> QED
  BY <1>1, <1>2, <1>3 DEF ClientView, ServerView

\* o is what carries the parts.
Carries(o, parts) ==
    /\ o \in Seq(Recs) /\ Len(o) = Len(parts)
    /\ \A i \in 1..Len(parts) : o[i].type = "application_data" /\ o[i].body = parts[i]

\* MakeAppRecord puts one record out for every part, sealed or not.
LEMMA AppRecords ==
    ASSUME NEW s \in Sessions, s.fin, s.wr, NEW parts \in Seq(Parts), NEW alertlike \in BOOLEAN
    PROVE  LET a == MakeAppRecord(s, parts, alertlike) IN
           /\ a.res = "NONE" /\ Carries(a.out, parts)
           /\ Apart(a.s, s, {"wseq"}) /\ a.s.wseq = s.wseq + SealedIn(a.out)
<1> DEFINE L == Len(parts)
           plain == [i \in 1..L |-> Record("application_data", parts[i])]
           o == Package(s, "application_data", parts, alertlike)
           x == IF alertlike THEN s.wseq ELSE s.wseq + L
           a == MakeAppRecord(s, parts, alertlike)
           e(i) == IF alertlike THEN Record("application_data", parts[i])
                   ELSE Sealed(s, i - 1, Record("application_data", parts[i]))
<1>1. L \in Nat /\ s.wseq \in Nat /\ \A i \in 1..L : parts[i] \in Parts /\ i - 1 \in Nat
  BY DEF Sessions
<1>2. o = [i \in 1..L |-> e(i)]
  <2>1. plain \in Seq(Recs) /\ Len(plain) = L /\ \A i \in 1..L : plain[i] = Record("application_data", parts[i])
    <3> DEFINE y(i) == Record("application_data", parts[i])
    <3>1. \A i \in 1..L : y(i) \in Recs
      BY <1>1, RecsIn
    <3>2. plain = [i \in 1..L |-> y(i)]
      OBVIOUS
    <3> HIDE DEF y, L, plain
    <3>3. plain \in Seq(Recs) /\ Len(plain) = L /\ \A i \in 1..L : plain[i] = y(i)
      BY <1>1, <3>1, <3>2
    <3> QED
      BY <3>3 DEF y
  <2>2. o = IF s.wr /\ ~alertlike THEN [i \in 1..Len(plain) |-> Sealed(s, i - 1, plain[i])] ELSE plain
    BY DEF Package
  <2>3. CASE alertlike
    BY <2>2, <2>3
  <2>4. CASE ~alertlike
    <3>1. o = [i \in 1..L |-> Sealed(s, i - 1, plain[i])]
      BY <2>1, <2>2, <2>4
    <3> HIDE DEF o
    <3> QED
      BY <2>1, <2>4, <3>1
  <2> QED
    BY <2>3, <2>4
<1>3. ASSUME NEW i \in 1..L
      PROVE  /\ e(i) \in Recs /\ e(i).type = "application_data" /\ e(i).body = parts[i]
             /\ e(i).sealed <=> ~alertlike
  <2>1. e(i) \in Recs
    BY <1>1, RecsIn
  <2> QED
    BY <2>1 DEF Record, Sealed
<1> HIDE DEF o, e, plain, L
<1>4. o \in Seq(Recs) /\ Len(o) = L /\ \A i \in 1..L : o[i] = e(i)
  BY <1>1, <1>2, <1>3
<1>5. Carries(o, parts)
  BY <1>3, <1>4 DEF Carries, L
<1>6. x = s.wseq + SealedIn(o)
  <2>1. CASE alertlike
    <3>1. \A i \in 1..Len(o) : ~o[i].sealed
      BY <1>3, <1>4, <2>1
    <3>2. SealedIn(o) = 0
      BY <1>4, <3>1, SealedOf
    <3> QED
      BY <1>1, <2>1, <3>2
  <2>2. CASE ~alertlike
    <3>1. \A i \in 1..Len(o) : o[i].sealed
      BY <1>3, <1>4, <2>2
    <3>2. SealedIn(o) = L
      BY <1>4, <3>1, SealedOf
    <3> QED
      BY <1>1, <2>2, <3>2
  <2> QED
    BY <2>1, <2>2
<1>7. /\ a.res = "NONE" /\ a.out = o /\ a.s = [s EXCEPT !.wseq = x]
  BY DEF MakeAppRecord, Start, o, L
<1>8. x \in Nat
  BY <1>1
<1> HIDE DEF a, x
<1>9. Apart(a.s, s, {"wseq"}) /\ a.s.wseq = x
  <2> DEFINE t == [s EXCEPT !.wseq = x]
  <2>1. t \in Sessions /\ t.wseq = x
    BY <1>8 DEF Sessions
  <2>2. \A f \in Fields \ {"wseq"} : t[f] = s[f]
    BY DEF Sessions, Fields
  <2> HIDE DEF t
  <2>3. Apart(t, s, {"wseq"})
    BY <2>1, <2>2 DEF Apart
  <2>4. a.s = t
    BY <1>7 DEF t
  <2> QED
    BY <2>1, <2>3, <2>4
<1> QED
  BY <1>5, <1>6, <1>7, <1>9 DEF a

\* A sequence of parts with more behind it.
LEMMA MoreParts ==
    ASSUME NEW msgs \in Seq(Parts), NEW more \in Seq(Parts)
    PROVE  LET all == msgs \o more IN
           /\ all \in Seq(Parts) /\ Len(all) = Len(msgs) + Len(more)
           /\ \A i \in 1..Len(msgs) : all[i] = msgs[i]
           /\ \A i \in 1..Len(more) : all[Len(msgs) + i] = more[i]
<1> DEFINE all == msgs \o more
<1>1. /\ msgs \o more \in Seq(Parts) /\ Len(msgs \o more) = Len(msgs) + Len(more)
      /\ \A i \in 1..Len(msgs) + Len(more) :
            (msgs \o more)[i] = IF i <= Len(msgs) THEN msgs[i] ELSE more[i - Len(msgs)]
  BY ConcatProperties
<1>2. Len(msgs) \in Nat /\ Len(more) \in Nat
  OBVIOUS
<1> HIDE DEF all
<1>3. \A i \in 1..Len(more) : Len(msgs) + i \in 1..Len(msgs) + Len(more)
          /\ ~(Len(msgs) + i <= Len(msgs)) /\ (Len(msgs) + i) - Len(msgs) = i
  BY <1>2
<1>4. \A i \in 1..Len(more) : all[Len(msgs) + i] = more[i]
  BY <1>1, <1>3 DEF all
<1> QED
  BY <1>1, <1>2, <1>4 DEF all

\* The client's application sends: its stream is longer, the positions the same.
LEMMA ClientSends ==
    ASSUME NEW c, NEW g, NEW n \in Nat, NEW m \in Nat, NEW k, NEW s, NEW d, NEW u,
           NEW su \in Seq(Parts), NEW sd \in Seq(Parts), NEW gu, NEW gd,
           ClientView(k, d, c, g, n, sd, gd), ServerView(s, u, c, g, m, su, gu),
           Linked(k, s, u, d, n, m, su, sd), k.fin,
           NEW more \in Seq(Parts), NEW o, Carries(o, more), NEW x, Longer(x, u, o),
           NEW t, Apart(t, k, {"wseq"}), t.wseq = k.wseq + SealedIn(o)
    PROVE  ServerView(s, x, c, g, m, su \o more, gu) /\ Linked(t, s, x, d, n, m, su \o more, sd)
<1> DEFINE all == su \o more
           lu == Len(u)
<1>1. /\ u \in Seq(Pieces) /\ d \in Seq(Pieces) /\ lu \in Nat /\ Len(d) \in Nat
      /\ ClientAt(k, c, g, n) /\ ServerAt(s, c, g, m) /\ k \in Sessions
  BY DEF ClientView, ServerView, ClientAt
<1>2. /\ n + Len(d) = ServerTotal(m, sd) /\ m + lu = ClientTotal(n, su)
      /\ m < 4 => sd = <<>>
      /\ k.tcp # <<>> => d # <<>>
      /\ s.tcp # <<>> => u # <<>>
      /\ k.wr => k.wseq = Beyond(m, 3) + Ciphered(u)
      /\ s.wr => s.wseq = Beyond(n, Switch) + Ciphered(d)
  BY DEF Linked
<1>3. n >= Switch + 1 /\ k.wr
  BY <1>1, Constants DEF ClientAt
<1>4. m >= 4
  BY <1>1, <1>2, <1>3, Constants DEF ServerTotal
<1>5. m + lu = 4 + Len(su) /\ ~(n < Flight) /\ ~(n < Switch + 1) /\ Len(su) \in Nat /\ Len(more) \in Nat
  BY <1>2, <1>3, Constants DEF ClientTotal
<1>6. /\ all \in Seq(Parts) /\ Len(all) = Len(su) + Len(more)
      /\ \A i \in 1..Len(more) : all[Len(su) + i] = more[i]
  BY MoreParts
<1> HIDE DEF all
<1>7. /\ o \in Seq(Recs) /\ Len(o) = Len(more)
      /\ \A i \in 1..Len(more) : o[i].type = "application_data" /\ o[i].body = more[i]
  BY DEF Carries
<1>8. Len(x) = lu + Len(more) /\ x \in Seq(Pieces)
  BY <1>7 DEF Longer
<1>9. ServerView(s, u, c, g, m, all, gu)
  BY ViewsSent DEF all
<1>10. ASSUME NEW j \in 1..Len(o) PROVE FromClient(o[j], c, g, m + Len(u) + j, all)
  <2> DEFINE q == m + Len(u) + j
             e == Len(su) + j
  <2>a. j \in 1..Len(more) /\ j \in Nat /\ lu \in Nat
    BY <1>1, <1>5, <1>7
  <2>b. q = 4 + e /\ e \in 1..Len(all)
    BY <1>5, <1>6, <2>a
  <2>1. q = 4 + e /\ e \in 1..Len(all) /\ all[e] = o[j].body /\ o[j].type = "application_data"
    BY <1>6, <1>7, <2>a, <2>b
  <2> HIDE DEF q, e
  <2>c. e \in Nat /\ e >= 1
    BY <1>5, <1>6, <2>1
  <2>2. q > 4 /\ ~(q <= 3) /\ q # 1 /\ q # 2 /\ q # 3 /\ q # 4 /\ q - 4 = e
    <3>1. \A f \in Nat : \A y : f >= 1 /\ y = 4 + f =>
            y > 4 /\ ~(y <= 3) /\ y # 1 /\ y # 2 /\ y # 3 /\ y # 4 /\ y - 4 = f
      OBVIOUS
    <3> QED
      BY <2>1, <2>c, <3>1
  <2>3. FromClient(o[j], c, g, q, all)
    BY <2>1, <2>2 DEF FromClient
  <2> QED
    BY <2>3 DEF q
<1>11. ServerView(s, x, c, g, m, all, gu)
  BY <1>1, <1>2, <1>4, <1>7, <1>9, <1>10, ViewsLonger
<1>12. /\ t.wr = k.wr /\ t.tcp = k.tcp
  BY DEF Apart, Fields
<1>13. Linked(t, s, x, d, n, m, all, sd)
  <2>1. Ciphered(x) = Ciphered(u) + SealedIn(o) /\ Ciphered(u) \in Nat
    BY <1>1, <1>7, SealsBehind, CipheredIsNat
  <2>2. SealedIn(o) \in Nat /\ Beyond(m, 3) \in Nat
    <3> DEFINE B == {i \in 1..Len(o) : o[i].sealed}
    <3>1. Within(B, Len(o))
      BY <1>7 DEF Within
    <3> HIDE DEF B
    <3>2. Cardinality(B) \in Nat
      BY <3>1, CountBoth
    <3>3. SealedIn(o) = Cardinality(B)
      BY DEF B, SealedIn
    <3> QED
      BY <3>2, <3>3 DEF Beyond
  <2>3. t.wseq = Beyond(m, 3) + Ciphered(x)
    BY <1>2, <1>3, <2>1, <2>2
  <2>4. m + Len(x) = ClientTotal(n, all)
    <3>1. ClientTotal(n, all) = 4 + Len(all)
      BY <1>5 DEF ClientTotal
    <3>2. /\ Len(x) = lu + Len(more) /\ Len(all) = Len(su) + Len(more) /\ m + lu = 4 + Len(su)
          /\ lu \in Nat /\ Len(su) \in Nat /\ Len(more) \in Nat
      BY <1>1, <1>5, <1>6, <1>8
    <3> DEFINE lx == Len(x)
               la == Len(all)
               ls == Len(su)
               lm == Len(more)
    <3>3. lx = lu + lm /\ la = ls + lm /\ m + lu = 4 + ls /\ lu \in Nat /\ ls \in Nat /\ lm \in Nat
      BY <3>2
    <3> HIDE DEF lu, lx, la, ls, lm
    <3>4. m + lx = 4 + la
      BY <3>3
    <3> QED
      BY <3>1, <3>4 DEF lx, la
  <2>5. s.tcp # <<>> => x # <<>>
    <3>1. ASSUME s.tcp # <<>>, x = <<>> PROVE FALSE
      <4>1. Len(x) = 0 /\ lu = 0
        BY <1>1, <1>5, <1>8, <3>1
      <4> QED
        BY <1>1, <1>2, <3>1, <4>1
    <3> QED
      BY <3>1
  <2> HIDE DEF lu
  <2> QED
    BY <1>2, <1>5, <1>12, <2>3, <2>4, <2>5 DEF Linked
<1> QED
  BY <1>11, <1>13 DEF all

\* Sums of lengths.
LEMMA Lengths ==
    /\ \A n, d, j, f, s, q \in Nat : n + d = f + s =>
          /\ n + d + j = f + (s + j)
          /\ q = s + j => n + d + j = f + q
    /\ Switch \in Nat /\ Switch + 1 \in Nat /\ Flight \in Nat
    /\ \A e \in Nat : \A q : e >= 1 /\ q = Switch + 1 + e =>
          /\ q > Switch + 1 /\ ~(q <= Switch) /\ q # 1 /\ q # 2 /\ q # 3 /\ q # Flight
          /\ q # Switch /\ q # Switch + 1 /\ q - Switch - 1 = e
<1>1. Switch \in Nat /\ Switch + 1 \in Nat /\ Flight \in Nat /\ Flight >= 3 /\ Switch = Flight + 1
  BY Constants
<1> QED
  BY <1>1

\* The server's application sends.
LEMMA ServerSends ==
    ASSUME NEW c, NEW g, NEW n \in Nat, NEW m \in Nat, NEW k, NEW s, NEW d, NEW u,
           NEW su \in Seq(Parts), NEW sd \in Seq(Parts), NEW gu, NEW gd,
           ClientView(k, d, c, g, n, sd, gd), ServerView(s, u, c, g, m, su, gu),
           Linked(k, s, u, d, n, m, su, sd), s.fin,
           NEW more \in Seq(Parts), NEW o, Carries(o, more), NEW x, Longer(x, d, o),
           NEW t, Apart(t, s, {"wseq"}), t.wseq = s.wseq + SealedIn(o)
    PROVE  ClientView(k, x, c, g, n, sd \o more, gd) /\ Linked(k, t, u, x, n, m, su, sd \o more)
<1> DEFINE all == sd \o more
           ld == Len(d)
<1>1. /\ u \in Seq(Pieces) /\ d \in Seq(Pieces) /\ Len(u) \in Nat /\ ld \in Nat
      /\ ClientAt(k, c, g, n) /\ ServerAt(s, c, g, m) /\ s \in Sessions
  BY DEF ClientView, ServerView, ServerAt
<1>2. /\ n + ld = ServerTotal(m, sd) /\ m + Len(u) = ClientTotal(n, su)
      /\ n < Switch + 1 => su = <<>>
      /\ k.tcp # <<>> => d # <<>>
      /\ s.tcp # <<>> => u # <<>>
      /\ k.wr => k.wseq = Beyond(m, 3) + Ciphered(u)
      /\ s.wr => s.wseq = Beyond(n, Switch) + Ciphered(d)
  BY DEF Linked
<1>3. m >= 4 /\ s.wr
  BY <1>1 DEF ServerAt
<1>4. n >= Flight
  BY <1>1, <1>2, <1>3, Constants DEF ClientTotal
<1>5. n + ld = Switch + 1 + Len(sd) /\ ~(m < 4) /\ m # 0 /\ Len(sd) \in Nat /\ Len(more) \in Nat
  BY <1>2, <1>3 DEF ServerTotal
<1>6. /\ all \in Seq(Parts) /\ Len(all) = Len(sd) + Len(more)
      /\ \A i \in 1..Len(more) : all[Len(sd) + i] = more[i]
  BY MoreParts
<1> HIDE DEF all
<1>7. /\ o \in Seq(Recs) /\ Len(o) = Len(more)
      /\ \A i \in 1..Len(more) : o[i].type = "application_data" /\ o[i].body = more[i]
  BY DEF Carries
<1>8. Len(x) = ld + Len(more) /\ x \in Seq(Pieces)
  BY <1>7 DEF Longer
<1>9. ClientView(k, d, c, g, n, all, gd)
  BY ViewsSent DEF all
<1>10. ASSUME NEW j \in 1..Len(o) PROVE FromServer(o[j], c, g, n + Len(d) + j, all)
  <2> DEFINE q == n + Len(d) + j
             e == Len(sd) + j
  <2>a. j \in 1..Len(more) /\ j \in Nat /\ ld \in Nat
    BY <1>1, <1>5, <1>7
  <2>b. q = Switch + 1 + e /\ e \in 1..Len(all)
    <3> DEFINE ls == Len(sd)
               lm == Len(more)
               la == Len(all)
    <3>1. /\ n + ld = Switch + 1 + ls /\ la = ls + lm /\ j \in 1..lm /\ j \in Nat
          /\ ls \in Nat /\ lm \in Nat /\ ld \in Nat /\ Switch + 1 \in Nat
      BY <1>5, <1>6, <2>a, Lengths
    <3> HIDE DEF ld, ls, lm, la
    <3>2. n + ld + j = Switch + 1 + (ls + j)
      BY <3>1, Lengths
    <3>3. ls + j \in 1..la
      BY <3>1
    <3> QED
      BY <3>2, <3>3 DEF ld, ls, la
  <2>1. q = Switch + 1 + e /\ all[e] = o[j].body /\ o[j].type = "application_data"
        /\ e \in 1..Len(all)
    BY <1>6, <1>7, <2>a, <2>b
  <2> HIDE DEF q, e
  <2>c. e \in Nat /\ e >= 1 /\ Flight \in Nat /\ Flight >= 3 /\ Switch = Flight + 1
    BY <1>5, <1>6, <2>1, Constants
  <2>2. /\ q > Switch + 1 /\ ~(q <= Switch) /\ q # 1 /\ q # 2 /\ q # 3 /\ q # Flight /\ q # Switch
        /\ q # Switch + 1 /\ q - Switch - 1 = e
    BY <2>1, <2>c, Lengths
  <2> HIDE DEF q, e
  <2>3. FromServer(o[j], c, g, q, all)
    BY <2>1, <2>2 DEF FromServer
  <2> QED
    BY <2>3 DEF q
<1>11. ClientView(k, x, c, g, n, all, gd)
  BY <1>1, <1>2, <1>4, <1>7, <1>9, <1>10, Constants, ViewsLonger
<1>12. /\ t.wr = s.wr /\ t.tcp = s.tcp
  BY DEF Apart, Fields
<1>13. Linked(k, t, u, x, n, m, su, all)
  <2>1. Ciphered(x) = Ciphered(d) + SealedIn(o) /\ Ciphered(d) \in Nat
    BY <1>1, <1>7, SealsBehind, CipheredIsNat
  <2>2. SealedIn(o) \in Nat /\ Beyond(n, Switch) \in Nat
    <3> DEFINE B == {i \in 1..Len(o) : o[i].sealed}
    <3>1. Within(B, Len(o))
      BY <1>7 DEF Within
    <3> HIDE DEF B
    <3>2. Cardinality(B) \in Nat
      BY <3>1, CountBoth
    <3>3. SealedIn(o) = Cardinality(B)
      BY DEF B, SealedIn
    <3> QED
      BY <3>2, <3>3, Constants DEF Beyond
  <2>3. t.wseq = Beyond(n, Switch) + Ciphered(x)
    BY <1>2, <1>3, <2>1, <2>2
  <2>4. n + Len(x) = ServerTotal(m, all)
    <3>1. ServerTotal(m, all) = Switch + 1 + Len(all)
      BY <1>5 DEF ServerTotal
    <3>a. /\ n + ld = Switch + 1 + Len(sd) /\ Len(all) = Len(sd) + Len(more)
          /\ ld \in Nat /\ Len(sd) \in Nat /\ Len(more) \in Nat /\ Switch + 1 \in Nat
      BY <1>1, <1>5, <1>6, Lengths
    <3> HIDE DEF ld
    <3>2. n + ld + Len(more) = Switch + 1 + Len(all) /\ ld \in Nat
      <4> DEFINE ls == Len(sd)
                 lm == Len(more)
                 la == Len(all)
                 f == Switch + 1
      <4>1. n + ld = f + ls /\ la = ls + lm /\ {n, ld, ls, lm, f} \subseteq Nat
        BY <3>a
      <4> HIDE DEF ls, lm, la, f
      <4>2. n + ld + lm = f + la
        BY <4>1
      <4> QED
        BY <3>a, <4>2 DEF ls, lm, la, f
    <3> QED
      BY <1>5, <1>8, <3>1, <3>2
  <2>5. k.tcp # <<>> => x # <<>>
    <3>1. ASSUME k.tcp # <<>>, x = <<>> PROVE FALSE
      <4>1. Len(x) = 0 /\ ld = 0
        BY <1>1, <1>5, <1>8, <3>1
      <4> QED
        BY <1>1, <1>2, <3>1, <4>1
    <3> QED
      BY <3>1
  <2> HIDE DEF ld
  <2> QED
    BY <1>2, <1>5, <1>12, <2>3, <2>4, <2>5 DEF Linked
<1> QED
  BY <1>11, <1>13 DEF all

-----------------------------------------------------------------------------
(* How a connection begins.                                                  *)

\* A session as Reset leaves it.
LEMMA NewSession ==
    ASSUME NEW side \in {"client", "server"}, NEW trust \in Keys \cup {AnyKey}
    PROVE  New(side, trust) \in Sessions
<1> DEFINE e == <<>>
<1>1. NoHandshake \in [Slots -> Msgs] /\ NoMaster \in Secrets
  BY DEF NoHandshake, Msgs, NoMaster, Secrets
<1>2. e \in Seq(Pieces) /\ e \in Seq(MsgPieces)
  OBVIOUS
<1>3. New(side, trust) =
        [side |-> side, trust |-> trust, fin |-> FALSE, rd |-> FALSE, wr |-> FALSE,
         wseq |-> 0, rseq |-> 0, tcp |-> e, pkgm |-> e, open |-> TRUE,
         hmsg |-> NoHandshake, cr |-> 0, sr |-> 0, master |-> NoMaster, cert |-> 0]
  BY DEF New
<1> HIDE DEF e
<1> QED
  BY <1>1, <1>2, <1>3 DEF Sessions

\* A session that has taken nothing is the server's at position 0.
LEMMA ServerBegins ==
    ASSUME NEW c, NEW g
    PROVE  LET s == New("server", AnyKey) IN
           s \in Sessions /\ s.tcp = <<>> /\ ServerView(s, <<>>, c, g, 0, <<>>, <<>>)
<1> DEFINE s == New("server", AnyKey)
           e == <<>>
<1>1. s \in Sessions
  BY NewSession
<1>2. ServerAt(s, c, g, 0)
  BY <1>1 DEF ServerAt, New
<1>3. s.tcp = <<>>
  BY DEF New
<1>4. e \in Seq(Pieces) /\ Len(e) = 0
  OBVIOUS
<1>5. Beyond(0, 4) = 0
  BY DEF Beyond
<1> HIDE DEF s, e
<1>6. Fits(s.tcp, e)
  BY <1>4 DEF Fits
<1>7. ServerView(s, e, c, g, 0, e, e)
  BY <1>2, <1>4, <1>5, <1>6 DEF ServerView
<1> QED
  BY <1>1, <1>3, <1>7 DEF s, e

\* Whatever comes of it, a client that says hello is at the beginning.
LEMMA ClientBegins ==
    ASSUME NEW c \in Conns, NEW g \in Keys, NEW k \in Sessions, k.side = "client"
    PROVE  LET a == ClientHello(k, c) IN
           /\ a.s \in Sessions /\ a.s.side = "client" /\ a.s.tcp = <<>>
           /\ ClientView(a.s, <<>>, c, g, 0, <<>>, <<>>)
           /\ a.out \in Seq(Recs) /\ Len(a.out) = 1 /\ FromClient(a.out[1], c, g, 1, <<>>)
<1> DEFINE e == <<>>
           t == New("client", k.trust)
           h == [NoHandshake EXCEPT !["cli_hello"] = Hello(c)]
           a == ClientHello(k, c)
           r == Record("handshake", Piece(Hello(c), "all"))
           v == Kept(c, g, ClientSlots(0))
<1>1. t \in Sessions /\ t.side = "client" /\ t.tcp = e /\ t.pkgm = e /\ t.open /\ ~t.fin
      /\ ~t.rd /\ ~t.wr /\ t.rseq = 0 /\ t.sr = 0 /\ t.master = NoMaster /\ t.cert = 0
      /\ t.hmsg = NoHandshake
  <2>1. t \in Sessions
    <3>1. k.trust \in Keys \cup {AnyKey}
      BY DEF Sessions
    <3> QED
      BY <3>1, NewSession
  <2> QED
    BY <2>1 DEF New
<1>2. c \in Nat /\ Hello(c) \in Msgs /\ Hello(c).t # "certificate"
  BY MsgsIn DEF Hello
<1>3. h \in [Slots -> Msgs] /\ h = v
  <2>1. h \in [Slots -> Msgs]
    BY <1>1, <1>2 DEF Sessions
  <2>2. \A x \in Slots : x \in ClientSlots(0) <=> x = "cli_hello"
    BY Constants DEF ClientSlots, Slots
  <2>3. Whole(c, g)["cli_hello"] = Hello(c)
    BY WholeIs
  <2>4. v = [x \in Slots |-> IF x = "cli_hello" THEN Hello(c) ELSE NoMsg]
    BY <2>2, <2>3 DEF Kept
  <2>5. h = [x \in Slots |-> IF x = "cli_hello" THEN Hello(c) ELSE NoMsg]
    BY DEF NoHandshake
  <2> QED
    BY <2>1, <2>4, <2>5
<1>4. /\ a.s = [t EXCEPT !.cr = c, !.hmsg = h]
      /\ a.out = Handshake(a.s, Hello(c))
  BY <1>1 DEF ClientHello, Start, Reset, Hello
<1> HIDE DEF e, t, h, a, v
<1>5. /\ a.s \in Sessions /\ a.s.side = "client" /\ a.s.tcp = e /\ a.s.pkgm = e /\ a.s.open
      /\ ~a.s.fin /\ ~a.s.rd /\ ~a.s.wr /\ a.s.rseq = 0 /\ a.s.sr = 0 /\ a.s.master = NoMaster
      /\ a.s.cert = 0 /\ a.s.hmsg = v /\ a.s.cr = c
  BY <1>1, <1>2, <1>3, <1>4 DEF Sessions
<1>6. ClientAt(a.s, c, g, 0)
  <2>1. ~(0 >= Switch) /\ ~(0 >= Switch + 1) /\ 0 < Switch + 1 /\ ~(0 >= Flight)
        /\ ~(0 >= 1 + CertRecords)
    BY Constants
  <2> QED
    BY <1>5, <2>1 DEF ClientAt, v, e
<1>7. e \in Seq(Pieces) /\ Len(e) = 0
  BY DEF e
<1>8. ClientView(a.s, e, c, g, 0, e, e)
  <2>1. Fits(a.s.tcp, e)
    BY <1>7 DEF Fits
  <2>2. Beyond(0, Switch + 1) = 0 /\ 0 + 0 <= Flight
    BY Constants DEF Beyond
  <2> QED
    BY <1>6, <1>7, <2>1, <2>2 DEF ClientView
<1>9. a.out = <<r>> /\ r \in Recs /\ FromClient(r, c, g, 1, <<>>)
  <2>1. a.out = <<r>>
    <3> DEFINE z == a.s
               hm == Hello(c)
    <3>1. ~z.wr /\ hm.t # "certificate" /\ a.out = Handshake(z, hm)
      BY <1>2, <1>4, <1>5
    <3> HIDE DEF z, hm
    <3>2. Handshake(z, hm) = <<Record("handshake", Piece(hm, "all"))>>
      BY <3>1, HandshakePlain
    <3> QED
      BY <3>1, <3>2 DEF hm
  <2>2. Piece(Hello(c), "all") \in MsgPieces
    BY <1>2 DEF Piece, MsgPieces, Cut
  <2>3. r \in Recs
    BY <2>2, RecsIn
  <2>4. ~r.sealed /\ r.type = "handshake" /\ r.body = Piece(Hello(c), "all")
    BY DEF Record
  <2> HIDE DEF r
  <2>5. FromClient(r, c, g, 1, <<>>)
    BY <2>4 DEF FromClient
  <2> QED
    BY <2>1, <2>3, <2>5
<1> HIDE DEF r
<1>10. a.out \in Seq(Recs) /\ Len(a.out) = 1 /\ a.out[1] = r
  BY <1>9
<1> QED
  BY <1>5, <1>8, <1>9, <1>10 DEF a, e

\* Before the server has taken the hello no certificate is chosen.
LEMMA NoKeyYet ==
    ASSUME NEW c, NEW g, NEW h, NEW s, NEW w, NEW msgs, NEW given
    PROVE  /\ ServerView(s, w, c, g, 0, msgs, given) => ServerView(s, w, c, h, 0, msgs, given)
           /\ ClientView(s, <<>>, c, g, 0, msgs, given) => ClientView(s, <<>>, c, h, 0, msgs, given)
<1>1. ASSUME ServerView(s, w, c, g, 0, msgs, given) PROVE ServerView(s, w, c, h, 0, msgs, given)
  <2>1. ServerAt(s, c, h, 0)
    BY <1>1 DEF ServerView, ServerAt
  <2>2. ASSUME NEW i \in 1..Len(w) PROVE FromClient(w[i].of, c, h, 0 + i, msgs)
    <3>1. Len(w) \in Nat /\ Len(w) <= 1
      BY <1>1 DEF ServerView
    <3>2. i = 1 /\ FromClient(w[i].of, c, g, 1, msgs)
      BY <1>1, <3>1 DEF ServerView
    <3>3. FromClient(w[i].of, c, h, 1, msgs)
      BY <3>2 DEF FromClient
    <3> QED
      BY <3>2, <3>3
  <2> QED
    BY <1>1, <2>1, <2>2 DEF ServerView
<1>2. ASSUME ClientView(s, <<>>, c, g, 0, msgs, given) PROVE ClientView(s, <<>>, c, h, 0, msgs, given)
  <2>1. ClientAt(s, c, h, 0)
    <3>1. Kept(c, g, ClientSlots(0)) = Kept(c, h, ClientSlots(0))
      <4>1. \A x \in Slots : x \in ClientSlots(0) <=> x = "cli_hello"
        BY Constants DEF ClientSlots, Slots
      <4>2. Whole(c, g)["cli_hello"] = Hello(c) /\ Whole(c, h)["cli_hello"] = Hello(c)
        BY WholeIs
      <4> QED
        BY <4>1, <4>2 DEF Kept
    <3>2. ~(0 >= Switch + 1) /\ ~(0 >= 1 + CertRecords)
      BY Constants
    <3> QED
      BY <1>2, <3>1, <3>2 DEF ClientView, ClientAt
  <2>2. \A i \in 1..Len(<<>>) : FromServer(<<>>[i].of, c, h, 0 + i, msgs)
    OBVIOUS
  <2> QED
    BY <1>2, <2>1, <2>2 DEF ClientView
<1> QED
  BY <1>1, <1>2

-----------------------------------------------------------------------------
(* The steps of the specification.                                           *)

Clients ==
    [status : {"invalid", "connect", "connected"}, told : BOOLEAN, conn : 0..MaxConns, tls : Sessions]
Servers == [life : {"none", "open", "gone"}, tls : Sessions]
Wires == [Conns -> Seq(Pieces)]
Talks == [Conns -> Seq(Parts)]

\* TypeOK, and TypeOK in the next state, conjunct by conjunct.
LEMMA Types ==
    /\ TypeOK <=> /\ clt \in Clients /\ srv \in [Conns -> Servers]
                  /\ net \in [Conns -> {"none", "syn", "up", "broken"}]
                  /\ up \in Wires /\ dn \in Wires /\ ca \in Keys
                  /\ sent \in [up : Talks, dn : Talks] /\ got \in [up : Talks, dn : Talks]
    /\ TypeOK' <=> /\ clt' \in Clients /\ srv' \in [Conns -> Servers]
                   /\ net' \in [Conns -> {"none", "syn", "up", "broken"}]
                   /\ up' \in Wires /\ dn' \in Wires /\ ca' \in Keys
                   /\ sent' \in [up : Talks, dn : Talks] /\ got' \in [up : Talks, dn : Talks]
BY DEF TypeOK, Clients, Servers, Wires, Talks

\* Nothing of connection c changes but what its ends keep of others.
Same(c) ==
    /\ srv'[c] = srv[c] /\ net'[c] = net[c] /\ up'[c] = up[c] /\ dn'[c] = dn[c]
    /\ sent'.up[c] = sent.up[c] /\ sent'.dn[c] = sent.dn[c]
    /\ got'.up[c] = got.up[c] /\ got'.dn[c] = got.dn[c]

\* A step elsewhere leaves the invariant of a connection.
LEMMA Untouched ==
    ASSUME NEW c \in Conns, NEW g, NEW n, NEW m, Placed(c), Conn(c, g, n, m), Same(c),
           clt' = clt \/ (Cur # c /\ clt'.conn = Cur)
    PROVE  Placed(c)' /\ Conn(c, g, n, m)'
<1>1. Quiet(c)' <=> Quiet(c)
  BY DEF Same, Quiet
<1>2. CASE clt' = clt
  <2>1. Placed(c)'
    BY <1>1, <1>2 DEF Placed, Same, Cur, Connected, There, Here
  <2>2. Conn(c, g, n, m)'
    BY <1>2 DEF Conn, Same, Cur, Connected, There, Here, BothOpen
  <2> QED
    BY <2>1, <2>2
<1>3. CASE Cur # c /\ clt'.conn = Cur
  <2>1. Placed(c)'
    BY <1>1, <1>3 DEF Placed, Same, Cur, Connected, There, Here
  <2>2. Conn(c, g, n, m)'
    BY <1>3 DEF Conn, Same, Cur, Connected, There, Here, BothOpen
  <2> QED
    BY <2>1, <2>2
<1> QED
  BY <1>2, <1>3

\* A step that touches connection d.
LEMMA StepAt ==
    ASSUME Inv, NEW d \in Conns, \A c \in Conns \ {d} : Same(c),
           clt' = clt \/ (Cur = d /\ clt'.conn = Cur),
           TypeOK', Told', Placed(d)', NEW g \in Keys, NEW n \in Nat, NEW m \in Nat, Conn(d, g, n, m)'
    PROVE  Inv'
<1>1. ASSUME NEW c \in Conns \ {d}
      PROVE  Placed(c)' /\ \E h \in Keys, i \in Nat, j \in Nat : Conn(c, h, i, j)'
  <2>1. PICK h \in Keys, i \in Nat, j \in Nat : Conn(c, h, i, j)
    BY DEF Inv
  <2>2. Placed(c) /\ Same(c) /\ (clt' = clt \/ (Cur # c /\ clt'.conn = Cur))
    BY DEF Inv
  <2> QED
    BY <2>1, <2>2, Untouched
<1>2. ASSUME NEW c \in Conns
      PROVE  Placed(c)' /\ \E h \in Keys, i \in Nat, j \in Nat : Conn(c, h, i, j)'
  <2>1. CASE c = d
    BY <2>1
  <2>2. CASE c # d
    BY <1>1, <2>2
  <2> QED
    BY <2>1, <2>2
<1> QED
  BY <1>2 DEF Inv

\* The invariant holds at first.
LEMMA InitInv == Init => Inv
<1> SUFFICES ASSUME Init PROVE Inv
  OBVIOUS
<1> DEFINE e == <<>>
           none == [c \in Conns |-> e]
<1>1. PICK t \in Trusts :
         clt = [status |-> "invalid", told |-> FALSE, conn |-> 0, tls |-> New("client", t)]
  BY DEF Init
<1>2. /\ srv = [c \in Conns |-> NoServer] /\ net = [c \in Conns |-> "none"]
      /\ up = none /\ dn = none /\ ca = 1 /\ sent = [up |-> none, dn |-> none] /\ got = sent
  BY DEF Init
<1>3. New("client", t) \in Sessions /\ New("server", AnyKey) \in Sessions
  <2>1. t \in Keys \cup {AnyKey}
    BY LinkAssumption
  <2> QED
    BY <2>1, NewSession
<1>4. New("client", t).side = "client"
  BY DEF New
<1>5. e \in Seq(Pieces) /\ e \in Seq(Parts)
  OBVIOUS
<1>6. 0 \in 0..MaxConns /\ 1 \in Keys
  BY LinkAssumption
<1> HIDE DEF e
<1>7. TypeOK
  <2>1. clt \in Clients
    BY <1>1, <1>3, <1>6 DEF Clients
  <2>2. srv \in [Conns -> Servers]
    BY <1>2, <1>3 DEF Servers, NoServer
  <2>3. none \in Wires /\ none \in Talks
    BY <1>5 DEF Wires, Talks
  <2> HIDE DEF none
  <2> QED
    BY <1>2, <1>6, <2>1, <2>2, <2>3, Types
<1>8. Told
  BY <1>1, <1>4 DEF Told, Cur, Connected
<1>9. ASSUME NEW c \in Conns PROVE Placed(c) /\ \E g \in Keys, n \in Nat, m \in Nat : Conn(c, g, n, m)
  <2>1. c > 0 /\ Cur = 0 /\ ~Connected /\ srv[c] = NoServer /\ net[c] = "none" /\ clt.status = "invalid"
    BY <1>1, <1>2 DEF Conns, Cur, Connected
  <2>2. Quiet(c)
    <3>1. up[c] = e /\ dn[c] = e
      BY <1>2
    <3>2. sent.up[c] = e /\ sent.dn[c] = e /\ got.up[c] = e /\ got.dn[c] = e
      BY <1>2
    <3> QED
      BY <3>1, <3>2 DEF Quiet, e
  <2>3. ~There(c) /\ ~Here(c)
    BY <2>1 DEF There, Here, NoServer
  <2>4. Placed(c)
    BY <2>1, <2>2, <2>3 DEF Placed
  <2>5. Conn(c, 1, 0, 0)
    BY <2>3 DEF Conn, BothOpen, There, Here
  <2> QED
    BY <1>6, <2>4, <2>5
<1> QED
  BY <1>7, <1>8, <1>9 DEF Inv

\* tcp_c::open: the next connection is begun, and there is nothing of it yet.
LEMMA OpenStep == ASSUME Inv, Open PROVE Inv'
<1> DEFINE d == Cur + 1
<1>1. /\ clt.status = "invalid" /\ Cur < MaxConns
      /\ net' = [net EXCEPT ![d] = "syn"]
      /\ clt' = [clt EXCEPT !.status = "connect", !.conn = d]
      /\ srv' = srv /\ up' = up /\ dn' = dn /\ ca' = ca /\ sent' = sent /\ got' = got
  BY DEF Open
<1>2. TypeOK /\ Told
  BY DEF Inv
<1>3. Cur \in 0..MaxConns /\ MaxConns \in Nat
  BY <1>2, Types, LinkAssumption DEF Clients, Cur
<1>4. d \in Conns /\ d \in 0..MaxConns
  BY <1>1, <1>3 DEF Conns
<1>5. Cur' = d /\ clt'.status = "connect" /\ ~Connected' /\ clt'.tls = clt.tls /\ clt'.told = clt.told
  BY <1>1, <1>2, Types DEF Clients, Cur, Connected
<1>6. TypeOK'
  <2>1. clt' \in Clients
    BY <1>1, <1>2, <1>4, Types DEF Clients
  <2>2. net' \in [Conns -> {"none", "syn", "up", "broken"}]
    BY <1>1, <1>2, Types
  <2> QED
    BY <1>1, <1>2, <2>1, <2>2, Types
<1>7. Told'
  <2>1. ~clt.told
    BY <1>1, <1>2 DEF Told, Connected
  <2> QED
    BY <1>2, <1>4, <1>5, <2>1 DEF Told
<1>8. ASSUME NEW c \in Conns
      PROVE  Placed(c)' /\ \E g \in Keys, n \in Nat, m \in Nat : Conn(c, g, n, m)'
  <2>1. Placed(c)
    BY DEF Inv
  <2>2. PICK g \in Keys, n \in Nat, m \in Nat : Conn(c, g, n, m)
    BY DEF Inv
  <2>3. Quiet(c)' <=> Quiet(c)
    BY <1>1 DEF Quiet
  <2>4. net'[c] = (IF c = d THEN "syn" ELSE net[c]) /\ net[c] \in {"none", "syn", "up", "broken"}
    BY <1>1, <1>2, Types
  <2>5. ~Here(c)'
    BY <1>5 DEF Here
  <2>6. There(c)' <=> There(c)
    BY <1>1 DEF There
  <2>7. c = d => srv[c] = NoServer /\ Quiet(c) /\ ~There(c)
    <3>1. c = d => c > Cur
      BY <1>3
    <3> QED
      BY <2>1, <3>1 DEF Placed, There, NoServer
  <2>8. net[c] # "syn"
    BY <1>1, <2>1 DEF Placed
  <2>9. Placed(c)'
    <3>1. c > Cur' => c > Cur /\ c # d
      BY <1>3, <1>5 DEF Conns
    <3>2. c > Cur' => net'[c] = "none" /\ srv'[c] = NoServer /\ Quiet(c)'
      BY <1>1, <2>1, <2>3, <2>4, <3>1 DEF Placed
    <3>3. c = Cur' /\ clt'.status = "connect" => Quiet(c)'
      BY <1>5, <2>3, <2>7
    <3>4. net'[c] = "syn" => srv'[c] = NoServer /\ c = Cur' /\ clt'.status = "connect"
      BY <1>1, <1>5, <2>4, <2>7, <2>8
    <3>5. net'[c] = "broken" => up'[c] = <<>> /\ dn'[c] = <<>>
      BY <1>1, <2>1, <2>4 DEF Placed
    <3>6. There(c)' \/ Here(c)' => net'[c] \in {"up", "broken"}
      BY <2>1, <2>4, <2>5, <2>6, <2>7 DEF Placed
    <3> QED
      BY <3>2, <3>3, <3>4, <3>5, <3>6 DEF Placed
  <2>10. Conn(c, g, n, m)'
    <3>1. There(c)' => ServerView(srv[c].tls, up[c], c, g, m, sent.up[c], got.up[c])
      BY <2>2, <2>6 DEF Conn
    <3>2. There(c)' => c # d
      BY <2>6, <2>7
    <3> QED
      BY <1>1, <1>5, <2>5, <3>1, <3>2 DEF Conn, BothOpen, Here
  <2> QED
    BY <2>9, <2>10
<1> QED
  BY <1>6, <1>7, <1>8 DEF Inv

\* A wire on which there was nothing.
LEMMA WireBegins ==
    ASSUME NEW records \in Seq(Recs)
    PROVE  OnWire(records) \in Seq(Pieces) /\ Longer(OnWire(records), <<>>, records)
<1> DEFINE e == <<>>
           o == OnWire(records)
<1>1. e \in Seq(Pieces)
  OBVIOUS
<1> HIDE DEF e, o
<1>2. o \in Seq(Pieces) /\ Longer(e \o o, e, records)
  BY <1>1, WireGrows DEF o
<1>3. e \o o = o
  BY <1>2, ConcatEmptySeq DEF e
<1> QED
  BY <1>2, <1>3 DEF e, o

\* doconnect: the ClientHello is the first record of the client's stream.
LEMMA DoConnectStep == ASSUME Inv, DoConnect PROVE Inv'
<1> DEFINE e == <<>>
<1>a. PICK d \in Conns : d = Cur
  BY DEF Inv, Told, DoConnect
<1>1. /\ clt.status = "connect" /\ srv' = srv /\ dn' = dn /\ ca' = ca /\ sent' = sent /\ got' = got
      /\ \/ net[d] = "up" /\ OnConnected(d) /\ net' = net
         \/ /\ net[d] # "up"
            /\ clt' = [clt EXCEPT !.status = "invalid"]
            /\ net' = [net EXCEPT ![d] = "broken"]
            /\ up' = up
  BY <1>a DEF DoConnect
<1>2. TypeOK /\ Told
  BY DEF Inv
<1>3. d \in Conns /\ ~clt.told /\ clt.tls.side = "client" /\ clt.conn = d
  BY <1>a, <1>1, <1>2 DEF Told, Connected, Cur
<1>4. clt.tls \in Sessions /\ clt.conn \in 0..MaxConns
  BY <1>2, Types DEF Clients
<1>5. Placed(d) /\ Quiet(d)
  <2>1. Placed(d)
    BY <1>3 DEF Inv
  <2> QED
    BY <1>a, <1>1, <2>1 DEF Placed
<1>6. up[d] = e /\ dn[d] = e /\ sent.up[d] = e /\ sent.dn[d] = e /\ got.up[d] = e /\ got.dn[d] = e
  BY <1>5 DEF Quiet
<1>7. PICK g \in Keys, n \in Nat, m \in Nat : Conn(d, g, n, m)
  BY <1>3 DEF Inv
<1>8. There(d) => m = 0 /\ srv[d].tls.tcp = e /\ ServerView(srv[d].tls, e, d, g, 0, e, e)
  BY <1>a, <1>1, <1>6, <1>7 DEF Conn
<1>9. d \in Nat /\ up \in Wires /\ net \in [Conns -> {"none", "syn", "up", "broken"}]
      /\ e \in Seq(Pieces) /\ Len(e) = 0
  BY <1>2, <1>3, Types DEF Conns
<1>10. ~Here(d)
  BY <1>1 DEF Here, Connected
<1> HIDE DEF e
<1>11. CASE net[d] = "up" /\ OnConnected(d) /\ net' = net
  <2> DEFINE a == ClientHello(clt.tls, d)
             x == Wire(OnWire(a.out), ServerThere(d))
             k == a.s
             o == a.out
  <2>1. /\ clt' = [clt EXCEPT !.status = "connected", !.conn = d, !.tls = k]
        /\ up' = [up EXCEPT ![d] = x]
    BY <1>11 DEF OnConnected
  <2>2. /\ k \in Sessions /\ k.side = "client" /\ k.tcp = e
        /\ ClientView(k, e, d, g, 0, e, e)
        /\ o \in Seq(Recs) /\ Len(o) = 1 /\ FromClient(o[1], d, g, 1, <<>>)
    BY <1>3, <1>4, ClientBegins DEF e
  <2> HIDE DEF a, k, o
  <2>3. OnWire(o) \in Seq(Pieces) /\ Longer(OnWire(o), e, o)
    BY <2>2, WireBegins DEF e
  <2>4. x = IF There(d) THEN OnWire(o) ELSE e
    BY <1>11 DEF Wire, ServerThere, There, o, e
  <2>5. x \in Seq(Pieces)
    BY <1>9, <2>3, <2>4
  <2> HIDE DEF x
  <2>6. clt' \in Clients /\ clt'.status = "connected" /\ clt'.conn = d /\ clt'.tls = k /\ ~clt'.told
    BY <1>2, <1>3, <1>4, <2>1, <2>2, Types DEF Clients
  <2>7. up' \in Wires /\ up'[d] = x /\ \A c \in Conns \ {d} : up'[c] = up[c]
    BY <1>3, <1>9, <2>1, <2>5 DEF Wires
  <2>8. TypeOK'
    BY <1>1, <1>2, <1>11, <2>6, <2>7, Types
  <2>9. Told' /\ Cur' = d /\ Connected'
    BY <1>3, <2>2, <2>6 DEF Told, Cur, Connected
  <2>10. \A c \in Conns \ {d} : Same(c)
    BY <1>1, <1>11, <2>7 DEF Same
  <2>11. Placed(d)'
    <3>1. net'[d] = "up" /\ Cur' = d /\ clt'.status = "connected"
      BY <1>11, <2>6, <2>9
    <3> QED
      BY <1>9, <3>1 DEF Placed
  <2>12. Len(x) = 1 /\ There(d) => ServerView(srv[d].tls, x, d, g, 0, e, e)
    <3>1. SUFFICES ASSUME There(d) PROVE ServerView(srv[d].tls, x, d, g, 0, e, e)
      OBVIOUS
    <3>2. Longer(x, e, o) /\ srv[d].tls.tcp = <<>> /\ ServerView(srv[d].tls, e, d, g, 0, e, e)
      BY <1>8, <2>3, <2>4, <3>1 DEF e
    <3> DEFINE z == 0
    <3>3. \A j \in 1..Len(o) : FromClient(o[j], d, g, z + Len(e) + j, e)
      <4>1. \A j \in 1..Len(o) : j = 1 /\ z + Len(e) + j = 1
        BY <1>9, <2>2
      <4> QED
        BY <2>2, <4>1 DEF e
    <3>4. Len(x) = 1
      BY <1>9, <2>2, <3>2 DEF Longer
    <3>5. /\ z \in Nat
          /\ z = 0 => Len(x) <= 1
          /\ z < 4 => z + Len(x) <= 4
          /\ srv[d].tls.tcp # <<>> => e # <<>>
      BY <3>2, <3>4
    <3>6. ServerView(srv[d].tls, e, d, g, z, e, e)
      BY <3>2
    <3> HIDE DEF z
    <3>7. ServerView(srv[d].tls, x, d, g, z, e, e)
      BY <1>9, <2>2, <3>2, <3>3, <3>5, <3>6, ViewsLonger
    <3> QED
      BY <3>7 DEF z
  <2>13. There(d) => Len(x) = 1
    BY <1>9, <2>2, <2>3, <2>4 DEF Longer
  <2>14. There(d) => Linked(k, srv[d].tls, x, e, 0, 0, e, e)
    <3>1. SUFFICES ASSUME There(d) PROVE Linked(k, srv[d].tls, x, e, 0, 0, e, e)
      OBVIOUS
    <3>2. ~k.wr /\ ~srv[d].tls.wr
      <4>1. ClientAt(k, d, g, 0) /\ ServerAt(srv[d].tls, d, g, 0)
        BY <1>8, <2>2, <3>1 DEF ClientView, ServerView
      <4> QED
        BY <4>1, Constants DEF ClientAt, ServerAt
    <3>3. 0 + Len(e) = ServerTotal(0, e)
      BY <1>9 DEF ServerTotal
    <3>4. 0 + Len(x) = ClientTotal(0, e)
      BY <2>13, <3>1, Constants DEF ClientTotal
    <3>5. k.tcp = <<>> /\ srv[d].tls.tcp = <<>> /\ e = <<>>
      BY <1>8, <2>2, <3>1 DEF e
    <3> QED
      BY <3>2, <3>3, <3>4, <3>5 DEF Linked
  <2>15. Conn(d, g, 0, 0)'
    <3>1. /\ clt'.tls = k /\ dn'[d] = e /\ sent'.dn[d] = e /\ got'.dn[d] = e /\ srv'[d] = srv[d]
          /\ up'[d] = x /\ sent'.up[d] = e /\ got'.up[d] = e
      BY <1>1, <1>6, <2>6, <2>7
    <3>2. ServerView(srv[d].tls, x, d, g, 0, e, e) \/ ~There(d)
      BY <2>12, <2>13
    <3>3. There(d)' <=> There(d)
      BY <3>1 DEF There
    <3> QED
      BY <2>2, <2>6, <2>9, <2>14, <3>1, <3>2, <3>3 DEF Conn, BothOpen, There
  <2> QED
    BY <1>a, <2>6, <2>8, <2>9, <2>10, <2>11, <2>15, StepAt DEF Cur
<1>12. CASE /\ net[d] # "up" /\ up' = up
            /\ clt' = [clt EXCEPT !.status = "invalid"]
            /\ net' = [net EXCEPT ![d] = "broken"]
  <2>1. /\ clt' \in Clients /\ clt'.status = "invalid" /\ clt'.conn = d /\ clt'.tls = clt.tls
        /\ ~clt'.told
    BY <1>2, <1>3, <1>12, Types DEF Clients
  <2>2. /\ net' \in [Conns -> {"none", "syn", "up", "broken"}] /\ net'[d] = "broken"
        /\ \A c \in Conns \ {d} : net'[c] = net[c]
    BY <1>3, <1>9, <1>12
  <2>3. TypeOK'
    BY <1>1, <1>2, <1>12, <2>1, <2>2, Types
  <2>4. Told' /\ Cur' = d /\ ~Connected'
    BY <1>3, <2>1 DEF Told, Cur, Connected
  <2>5. \A c \in Conns \ {d} : Same(c)
    BY <1>1, <1>12, <2>2 DEF Same
  <2>6. Placed(d)'
    BY <1>1, <1>6, <1>9, <1>12, <2>1, <2>2, <2>4 DEF Placed, e
  <2>7. Conn(d, g, n, m)'
    <3>1. There(d)' <=> There(d)
      BY <1>1 DEF There
    <3>2. There(d) => ServerView(srv[d].tls, up[d], d, g, m, sent.up[d], got.up[d])
      BY <1>7 DEF Conn
    <3> QED
      BY <1>1, <1>12, <2>1, <2>4, <3>1, <3>2 DEF Conn, BothOpen, Here
  <2> QED
    BY <1>a, <1>7, <2>1, <2>3, <2>4, <2>5, <2>6, <2>7, StepAt DEF Cur
<1> QED
  BY <1>1, <1>11, <1>12

\* The server accepts: its session is at position 0.
LEMMA AcceptStep == ASSUME Inv, NEW c \in Conns, Accept(c) PROVE Inv'
<1> DEFINE e == <<>>
           t == New("server", AnyKey)
<1>1. /\ net[c] = "syn" /\ net' = [net EXCEPT ![c] = "up"]
      /\ srv' = [srv EXCEPT ![c].life = "open"]
      /\ clt' = clt /\ up' = up /\ dn' = dn /\ ca' = ca /\ sent' = sent /\ got' = got
  BY DEF Accept
<1>2. TypeOK /\ Told /\ Placed(c)
  BY DEF Inv
<1>3. srv[c] = NoServer /\ c = Cur /\ clt.status = "connect" /\ Quiet(c)
  BY <1>1, <1>2 DEF Placed
<1>4. up[c] = e /\ dn[c] = e /\ sent.up[c] = e /\ got.up[c] = e
  BY <1>3 DEF Quiet
<1>5. 1 \in Keys /\ c \in Nat /\ 0 \in Nat
  BY LinkAssumption DEF Conns
<1>6. t \in Sessions /\ t.tcp = e /\ ServerView(t, e, c, 1, 0, e, e)
  BY ServerBegins
<1>7. NoServer = [life |-> "none", tls |-> t]
  BY DEF NoServer
<1> HIDE DEF t, e
<1>8. /\ srv' \in [Conns -> Servers] /\ srv'[c].life = "open" /\ srv'[c].tls = t
      /\ \A x \in Conns \ {c} : srv'[x] = srv[x]
  BY <1>1, <1>2, <1>3, <1>6, <1>7, Types DEF Servers
<1>9. /\ net' \in [Conns -> {"none", "syn", "up", "broken"}] /\ net'[c] = "up"
      /\ \A x \in Conns \ {c} : net'[x] = net[x]
  BY <1>1, <1>2, Types
<1>10. TypeOK'
  BY <1>1, <1>2, <1>8, <1>9, Types
<1>11. Told' /\ Cur' = Cur
  BY <1>1, <1>2 DEF Told, Cur, Connected
<1>12. \A x \in Conns \ {c} : Same(x)
  BY <1>1, <1>8, <1>9 DEF Same
<1>13. Quiet(c)' <=> Quiet(c)
  BY <1>1 DEF Quiet
<1>14. Placed(c)'
  BY <1>3, <1>5, <1>9, <1>11, <1>13 DEF Placed
<1>15. Conn(c, 1, 0, 0)'
  <2>1. ~Here(c)' /\ ~BothOpen(c)'
    BY <1>1, <1>3 DEF Here, Connected, BothOpen
  <2>2. ServerView(srv'[c].tls, up'[c], c, 1, 0, sent'.up[c], got'.up[c])
    BY <1>1, <1>4, <1>6, <1>8
  <2> QED
    BY <1>6, <1>8, <2>1, <2>2 DEF Conn, e
<1> QED
  BY <1>1, <1>5, <1>10, <1>11, <1>12, <1>14, <1>15, StepAt

\* Another key pair: a server that has answered keeps the one it answered with.
LEMMA ReSetCertStep == ASSUME Inv, ReSetCert PROVE Inv'
<1>1. /\ ca' \in Keys /\ clt' = clt /\ srv' = srv /\ net' = net /\ up' = up /\ dn' = dn
      /\ sent' = sent /\ got' = got
  BY DEF ReSetCert
<1>2. TypeOK' /\ Told'
  BY <1>1, Types DEF Inv, Told, Cur, Connected
<1>3. ASSUME NEW c \in Conns
      PROVE  Placed(c)' /\ \E g \in Keys, n \in Nat, m \in Nat : Conn(c, g, n, m)'
  <2>1. PICK g \in Keys, n \in Nat, m \in Nat : Conn(c, g, n, m)
    BY DEF Inv
  <2>2. Placed(c) /\ Same(c)
    BY <1>1 DEF Inv, Same
  <2> QED
    BY <1>1, <2>1, <2>2, Untouched
<1> QED
  BY <1>2, <1>3 DEF Inv

\* A broken connection has nothing in flight, and both ends keep their positions.
LEMMA BreakStep == ASSUME Inv, NEW c \in Conns, Break(c) PROVE Inv'
<1> DEFINE e == <<>>
<1>1. /\ net[c] \in {"syn", "up"} /\ net' = [net EXCEPT ![c] = "broken"]
      /\ up' = [up EXCEPT ![c] = e] /\ dn' = [dn EXCEPT ![c] = e]
      /\ clt' = clt /\ srv' = srv /\ ca' = ca /\ sent' = sent /\ got' = got
  BY DEF Break
<1>2. TypeOK /\ Told /\ Placed(c)
  BY DEF Inv
<1>3. e \in Seq(Pieces)
  OBVIOUS
<1>4. PICK g \in Keys, n \in Nat, m \in Nat : Conn(c, g, n, m)
  BY DEF Inv
<1>5. up[c] \in Seq(Pieces) /\ dn[c] \in Seq(Pieces)
  BY <1>2, Types DEF Wires
<1>6. Less(e, up[c]) /\ Less(e, dn[c])
  BY <1>5, Dropped
<1> HIDE DEF e
<1>7. /\ net' \in [Conns -> {"none", "syn", "up", "broken"}] /\ net'[c] = "broken"
      /\ up' \in Wires /\ up'[c] = e /\ dn' \in Wires /\ dn'[c] = e
      /\ \A x \in Conns \ {c} : net'[x] = net[x] /\ up'[x] = up[x] /\ dn'[x] = dn[x]
  BY <1>1, <1>2, <1>3, Types DEF Wires
<1>8. TypeOK' /\ Told' /\ Cur' = Cur
  BY <1>1, <1>2, <1>7, Types DEF Told, Cur, Connected
<1>9. \A x \in Conns \ {c} : Same(x)
  BY <1>1, <1>7 DEF Same
<1>10. Placed(c)'
  <2>1. ~(c > Cur)
    BY <1>1, <1>2 DEF Placed
  <2>2. c = Cur /\ clt.status = "connect" => Quiet(c)'
    BY <1>1, <1>2, <1>7 DEF Placed, Quiet, e
  <2> QED
    BY <1>1, <1>7, <1>8, <2>1, <2>2 DEF Placed, e
<1>11. Conn(c, g, n, m)'
  <2>1. Here(c) => ClientView(clt.tls, e, c, g, n, sent.dn[c], got.dn[c])
    BY <1>4, <1>5, <1>6, ViewsLess DEF Conn
  <2>2. There(c) => ServerView(srv[c].tls, e, c, g, m, sent.up[c], got.up[c])
    BY <1>4, <1>5, <1>6, ViewsLess DEF Conn
  <2>3. There(c) /\ Cur = c /\ clt.status = "connect" => m = 0 /\ srv[c].tls.tcp = <<>>
    BY <1>4 DEF Conn
  <2>4. (Here(c)' <=> Here(c)) /\ (There(c)' <=> There(c)) /\ ~BothOpen(c)'
    BY <1>1, <1>7 DEF Here, There, BothOpen, Cur, Connected
  <2> QED
    BY <1>1, <1>7, <1>8, <2>1, <2>2, <2>3, <2>4 DEF Conn
<1> QED
  BY <1>1, <1>4, <1>8, <1>9, <1>10, <1>11, StepAt

\* A step of the connected client.
LEMMA ClientStepAt ==
    ASSUME Inv, NEW d \in Conns, d = Cur, Connected, srv' = srv, net' = net, ca' = ca,
           clt' \in Clients, clt'.conn = d, clt'.tls.side = "client",
           clt'.status \in {"connected", "invalid"},
           clt'.told => clt'.status = "connected" /\ clt'.tls.fin,
           up' \in Wires, dn' \in Wires, sent' \in [up : Talks, dn : Talks],
           got' \in [up : Talks, dn : Talks], \A c \in Conns \ {d} : Same(c),
           net[d] = "broken" => up'[d] = <<>> /\ dn'[d] = <<>>,
           NEW g \in Keys, NEW n \in Nat, NEW m \in Nat,
           clt'.status = "connected"
              => ClientView(clt'.tls, dn'[d], d, g, n, sent'.dn[d], got'.dn[d]),
           There(d) => ServerView(srv[d].tls, up'[d], d, g, m, sent'.up[d], got'.up[d]),
           clt'.status = "connected" /\ There(d) /\ net[d] = "up"
              => Linked(clt'.tls, srv[d].tls, up'[d], dn'[d], n, m, sent'.up[d], sent'.dn[d])
    PROVE  Inv'
<1>1. TypeOK /\ Told /\ Placed(d)
  BY DEF Inv
<1>2. TypeOK'
  BY <1>1, Types
<1>3. Cur' = d /\ (Connected' <=> clt'.status = "connected") /\ clt'.status # "connect"
  BY DEF Cur, Connected
<1>4. Told'
  BY <1>3 DEF Told
<1>5. net[d] \in {"up", "broken"}
  BY <1>1 DEF Placed, Here
<1>6. Placed(d)'
  <2>1. ~(d > d)
    BY DEF Conns
  <2> QED
    BY <1>3, <1>5, <2>1 DEF Placed
<1>7. There(d)' <=> There(d)
  BY DEF There
<1>8. Conn(d, g, n, m)'
  BY <1>3, <1>7 DEF Conn, Here, BothOpen, There
<1> QED
  BY <1>2, <1>3, <1>4, <1>6, <1>8, StepAt DEF Cur

\* A step of a server's session.
LEMMA ServerStepAt ==
    ASSUME Inv, NEW d \in Conns, There(d), clt' = clt, net' = net, ca' = ca,
           srv' \in [Conns -> Servers], srv'[d].life \in {"open", "gone"},
           up' \in Wires, dn' \in Wires, sent' \in [up : Talks, dn : Talks],
           got' \in [up : Talks, dn : Talks], \A c \in Conns \ {d} : Same(c),
           net[d] = "broken" => up'[d] = <<>> /\ dn'[d] = <<>>,
           d = Cur /\ clt.status = "connect" => Quiet(d)',
           NEW g \in Keys, NEW n \in Nat, NEW m \in Nat,
           Here(d) => ClientView(clt.tls, dn'[d], d, g, n, sent'.dn[d], got'.dn[d]),
           srv'[d].life = "open"
              => /\ ServerView(srv'[d].tls, up'[d], d, g, m, sent'.up[d], got'.up[d])
                 /\ d = Cur /\ clt.status = "connect" => m = 0 /\ srv'[d].tls.tcp = <<>>,
           srv'[d].life = "open" /\ Here(d) /\ net[d] = "up"
              => Linked(clt.tls, srv'[d].tls, up'[d], dn'[d], n, m, sent'.up[d], sent'.dn[d])
    PROVE  Inv'
<1>1. TypeOK /\ Told /\ Placed(d)
  BY DEF Inv
<1>2. TypeOK'
  BY <1>1, Types
<1>3. Cur' = Cur /\ (Connected' <=> Connected) /\ (Here(d)' <=> Here(d))
  BY DEF Cur, Connected, Here
<1>4. Told'
  BY <1>1, <1>3 DEF Told
<1>5. net[d] \in {"up", "broken"} /\ srv[d] # NoServer
  BY <1>1 DEF Placed, There, NoServer
<1>6. Placed(d)'
  <2>1. ~(d > Cur)
    BY <1>1, <1>5 DEF Placed
  <2> QED
    BY <1>3, <1>5, <2>1 DEF Placed
<1>7. There(d)' <=> srv'[d].life = "open"
  BY DEF There
<1>8. Conn(d, g, n, m)'
  BY <1>3, <1>7 DEF Conn, Here, BothOpen, There
<1> QED
  BY <1>2, <1>3, <1>4, <1>6, <1>8, StepAt DEF Cur

\* The client closes: what reaches the server is a prefix of its stream.
LEMMA ClientLeaves ==
    ASSUME Inv, NEW d \in Conns, d = Cur, Connected, srv' = srv, net' = net, ca' = ca, got' = got,
           sent' \in [up : Talks, dn : Talks], sent'.dn = sent.dn,
           \A c \in Conns \ {d} : sent'.up[c] = sent.up[c],
           NEW k \in Clients, k.conn = d, k.tls.side = "client",
           NEW w \in Seq(Pieces), Leaves(k, w),
           NEW g \in Keys, NEW n \in Nat, NEW m \in Nat,
           There(d) => ServerView(srv[d].tls, up[d], d, g, m, sent'.up[d], got.up[d]),
           ServerThere(d) => ServerView(srv[d].tls, w, d, g, m, sent'.up[d], got.up[d])
    PROVE  Inv'
<1> DEFINE e == <<>>
<1>1. TypeOK /\ Placed(d)
  BY DEF Inv
<1>2. PICK p \in Prefixes(w) : up' = [up EXCEPT ![d] = Wire(p, ServerThere(d))]
  BY DEF Leaves
<1>3. clt' = [k EXCEPT !.status = "invalid", !.told = FALSE] /\ dn' = [dn EXCEPT ![d] = e]
  BY DEF Leaves, Closed
<1>4. Less(e, up[d]) /\ Less(p, w) /\ e \in Seq(Pieces)
  BY <1>1, <1>2, Types, Dropped DEF Wires
<1> HIDE DEF e
<1> DEFINE x == Wire(p, ServerThere(d))
<1>5. x = IF ServerThere(d) THEN p ELSE e
  BY DEF Wire, e
<1>6. x \in Seq(Pieces)
  BY <1>4, <1>5 DEF Less
<1> HIDE DEF x
<1>7. /\ up' \in Wires /\ up'[d] = x /\ dn' \in Wires /\ dn'[d] = e
      /\ \A c \in Conns \ {d} : up'[c] = up[c] /\ dn'[c] = dn[c]
  BY <1>1, <1>2, <1>3, <1>4, <1>6, Types DEF Wires, x
<1>8. clt' \in Clients /\ clt'.conn = d /\ clt'.tls = k.tls /\ clt'.status = "invalid" /\ ~clt'.told
  BY <1>3 DEF Clients
<1>9. net[d] = "broken" => x = e
  BY <1>5 DEF ServerThere
<1>10. There(d) => ServerView(srv[d].tls, x, d, g, m, sent'.up[d], got.up[d])
  <2>1. SUFFICES ASSUME There(d) PROVE ServerView(srv[d].tls, x, d, g, m, sent'.up[d], got.up[d])
    OBVIOUS
  <2>2. up[d] \in Seq(Pieces)
    BY <1>1, Types DEF Wires
  <2>3. CASE ServerThere(d)
    <3>1. x = p /\ ServerView(srv[d].tls, w, d, g, m, sent'.up[d], got.up[d])
      BY <1>5, <2>3
    <3> QED
      BY <1>4, <3>1, ViewsLess
  <2>4. CASE ~ServerThere(d)
    <3>1. x = e /\ ServerView(srv[d].tls, up[d], d, g, m, sent'.up[d], got.up[d])
      BY <1>5, <2>1, <2>4
    <3> QED
      BY <1>4, <2>2, <3>1, ViewsLess
  <2> QED
    BY <2>3, <2>4
<1>11. \A c \in Conns \ {d} : Same(c)
  BY <1>7 DEF Same
<1>12. got' \in [up : Talks, dn : Talks]
  BY <1>1, Types
<1> QED
  BY <1>7, <1>8, <1>9, <1>10, <1>11, <1>12, ClientStepAt DEF e

\* The server closes: what reaches the client is a prefix of its stream.
LEMMA ServerCloses ==
    ASSUME Inv, NEW d \in Conns, CloseServer(d), clt' = clt, net' = net, ca' = ca,
           sent' = sent, got' = got
    PROVE  Inv'
<1> DEFINE e == <<>>
           gone == [NoServer EXCEPT !.life = "gone"]
<1>1. TypeOK /\ Placed(d)
  BY DEF Inv
<1>2. PICK p \in Prefixes(dn[d]) : dn' = [dn EXCEPT ![d] = p]
  BY DEF CloseServer
<1>3. There(d) /\ srv' = [srv EXCEPT ![d] = gone] /\ up' = [up EXCEPT ![d] = e]
  BY DEF CloseServer, There
<1>4. dn[d] \in Seq(Pieces) /\ Less(p, dn[d]) /\ e \in Seq(Pieces)
  BY <1>1, <1>2, Types, Dropped DEF Wires
<1>5. gone \in Servers /\ gone.life = "gone"
  <2>1. New("server", AnyKey) \in Sessions
    BY NewSession
  <2> QED
    BY <2>1 DEF NoServer, Servers
<1>6. PICK g \in Keys, n \in Nat, m \in Nat : Conn(d, g, n, m)
  BY DEF Inv
<1> HIDE DEF e, gone
<1>7. /\ up' \in Wires /\ up'[d] = e /\ dn' \in Wires /\ dn'[d] = p
      /\ \A c \in Conns \ {d} : up'[c] = up[c] /\ dn'[c] = dn[c]
  BY <1>1, <1>2, <1>3, <1>4, Types DEF Wires, Less
<1>8. /\ srv' \in [Conns -> Servers] /\ srv'[d].life = "gone"
      /\ \A c \in Conns \ {d} : srv'[c] = srv[c]
  BY <1>1, <1>3, <1>5, Types
<1>9. dn[d] = <<>> => p = <<>>
  BY <1>4 DEF Less
<1>10. Here(d) => ClientView(clt.tls, p, d, g, n, sent.dn[d], got.dn[d])
  BY <1>4, <1>6, ViewsLess DEF Conn
<1>11. \A c \in Conns \ {d} : Same(c)
  BY <1>7, <1>8 DEF Same
<1>12. d = Cur /\ clt.status = "connect" => Quiet(d)'
  BY <1>1, <1>7, <1>9 DEF Placed, Quiet, e
<1>13. net[d] = "broken" => up'[d] = <<>> /\ dn'[d] = <<>>
  BY <1>1, <1>7, <1>9 DEF Placed, e
<1>14. sent' \in [up : Talks, dn : Talks] /\ got' \in [up : Talks, dn : Talks]
  BY <1>1, Types
<1> QED
  BY <1>3, <1>7, <1>8, <1>10, <1>11, <1>12, <1>13, <1>14, ServerStepAt

\* tcp_c::close of the application.
LEMMA CloseClientStep == ASSUME Inv, CloseClient PROVE Inv'
<1>1. /\ Connected /\ Leaves(clt, up[Cur]) /\ srv' = srv /\ net' = net /\ ca' = ca
      /\ sent' = sent /\ got' = got
  BY DEF CloseClient
<1>2. TypeOK /\ Told
  BY DEF Inv
<1>3. PICK d \in Conns : d = Cur
  BY <1>1, <1>2 DEF Told, Connected
<1>4. PICK g \in Keys, n \in Nat, m \in Nat : Conn(d, g, n, m)
  BY DEF Inv
<1>5. /\ clt \in Clients /\ clt.conn = d /\ clt.tls.side = "client" /\ up[d] \in Seq(Pieces)
      /\ sent' \in [up : Talks, dn : Talks]
  BY <1>1, <1>2, <1>3, Types DEF Told, Wires, Cur
<1>6. There(d) => ServerView(srv[d].tls, up[d], d, g, m, sent'.up[d], got.up[d])
  BY <1>1, <1>4 DEF Conn
<1>7. ServerThere(d) => There(d)
  BY DEF ServerThere, There
<1>8. Leaves(clt, up[d])
  BY <1>1, <1>3
<1> QED
  BY <1>1, <1>3, <1>5, <1>6, <1>7, <1>8, ClientLeaves

\* The client finds that the connection is over.
LEMMA ClientEofStep == ASSUME Inv, ClientEof PROVE Inv'
BY CloseClientStep DEF ClientEof

\* The server closes, or finds that the connection is over.
LEMMA ServerCloseStep ==
    ASSUME Inv, NEW c \in Conns, ServerClose(c) \/ ServerEof(c) PROVE Inv'
<1>1. CloseServer(c) /\ clt' = clt /\ net' = net /\ ca' = ca /\ sent' = sent /\ got' = got
  BY DEF ServerClose, ServerEof
<1> QED
  BY <1>1, ServerCloses

\* The client with what OnTcpRead makes of its session.
HasRead(k, a) == [k EXCEPT !.tls = a.s, !.told = @ \/ a.res = "HKOK"]

\* The client of connection d goes on after it has read i records: left is what
\* is left, o what it answers, x what is then on its way up, and now what its
\* application has been given.
ClientWentOn(d, g, n, m, i, a, left, o, x, now) ==
    /\ d = Cur /\ Connected /\ net[d] = "up" /\ srv' = srv /\ net' = net /\ ca' = ca /\ sent' = sent
    /\ g \in Keys /\ n \in Nat /\ m \in Nat /\ Conn(d, g, n, m)
    /\ i \in 0..Len(dn[d]) /\ ClientRun(a, clt.tls, d, g, n, i, dn[d], sent.dn[d])
    /\ Rest(a.s.tcp, dn[d], left, i) /\ Answers(a, o)
    /\ x \in Seq(Pieces) /\ (There(d) => Longer(x, up[d], o))
    /\ now \in Seq(Parts) /\ Len(now) = Beyond(n + i, Switch + 1)
    /\ a.res = "HKOK" => n + i = Switch + 1
    /\ clt' = HasRead(clt, a) /\ up' = [up EXCEPT ![d] = x] /\ dn' = [dn EXCEPT ![d] = left]
    /\ got' \in [up : Talks, dn : Talks] /\ got'.up = got.up
    /\ got'.dn = [got.dn EXCEPT ![d] = now]

\* A read of the client that is no error keeps the invariant.
LEMMA ClientGoesOn ==
    ASSUME Inv, NEW d \in Conns, NEW g, NEW n, NEW m, NEW i, NEW a, NEW left, NEW o, NEW x, NEW now,
           ClientWentOn(d, g, n, m, i, a, left, o, x, now)
    PROVE  Inv'
<1>a. /\ d = Cur /\ Connected /\ net[d] = "up" /\ srv' = srv /\ net' = net /\ ca' = ca /\ sent' = sent
      /\ g \in Keys /\ n \in Nat /\ m \in Nat /\ Conn(d, g, n, m)
      /\ i \in 0..Len(dn[d]) /\ ClientRun(a, clt.tls, d, g, n, i, dn[d], sent.dn[d])
      /\ Rest(a.s.tcp, dn[d], left, i) /\ Answers(a, o)
      /\ x \in Seq(Pieces) /\ (There(d) => Longer(x, up[d], o))
      /\ now \in Seq(Parts) /\ Len(now) = Beyond(n + i, Switch + 1)
      /\ a.res = "HKOK" => n + i = Switch + 1
      /\ clt' = HasRead(clt, a) /\ up' = [up EXCEPT ![d] = x] /\ dn' = [dn EXCEPT ![d] = left]
      /\ got' \in [up : Talks, dn : Talks] /\ got'.up = got.up
      /\ got'.dn = [got.dn EXCEPT ![d] = now]
  BY DEF ClientWentOn
<1> USE <1>a
<1> DEFINE q == n + i
<1>1. TypeOK /\ Told
  BY DEF Inv
<1>2. /\ clt \in Clients /\ up \in Wires /\ dn \in Wires /\ sent \in [up : Talks, dn : Talks]
      /\ got \in [up : Talks, dn : Talks]
  BY <1>1, Types
<1>3. ClientView(clt.tls, dn[d], d, g, n, sent.dn[d], got.dn[d])
  BY DEF Conn, Here
<1>4. There(d) => /\ ServerView(srv[d].tls, up[d], d, g, m, sent.up[d], got.up[d])
                  /\ Linked(clt.tls, srv[d].tls, up[d], dn[d], n, m, sent.up[d], sent.dn[d])
  BY DEF Conn, BothOpen, There
<1>5. q \in Nat /\ left \in Seq(Pieces) /\ i \in Nat
  BY DEF Rest, Wires
<1>6. ClientView(a.s, left, d, g, q, sent.dn[d], now)
  BY <1>3, ViewsAfter
<1>7. sent.up[d] \in Seq(Parts) /\ sent.dn[d] \in Seq(Parts)
  BY <1>2 DEF Talks
<1>8. There(d) => /\ ServerView(srv[d].tls, x, d, g, m, sent.up[d], got.up[d])
                  /\ Linked(a.s, srv[d].tls, x, left, q, m, sent.up[d], sent.dn[d])
  <2> SUFFICES ASSUME There(d)
               PROVE  /\ ServerView(srv[d].tls, x, d, g, m, sent.up[d], got.up[d])
                      /\ Linked(a.s, srv[d].tls, x, left, q, m, sent.up[d], sent.dn[d])
    OBVIOUS
  <2> DEFINE w == dn[d]
             u == up[d]
             s == srv[d].tls
             k == clt.tls
             su == sent.up[d]
             sd == sent.dn[d]
             gu == got.up[d]
             gd == got.dn[d]
  <2>1. /\ ClientView(k, w, d, g, n, sd, gd) /\ ServerView(s, u, d, g, m, su, gu)
        /\ Linked(k, s, u, w, n, m, su, sd) /\ su \in Seq(Parts) /\ sd \in Seq(Parts)
        /\ i \in 0..Len(w) /\ ClientRun(a, k, d, g, n, i, w, sd) /\ Rest(a.s.tcp, w, left, i)
        /\ Longer(x, u, o)
    BY <1>3, <1>4, <1>7
  <2> HIDE DEF w, u, s, k, su, sd, gu, gd
  <2>2. ServerView(s, x, d, g, m, su, gu) /\ Linked(a.s, s, x, left, n + i, m, su, sd)
    BY <2>1, ClientAnswers
  <2> QED
    BY <2>2 DEF s, su, sd, gu
<1>9. a.s \in Sessions /\ a.s.side = "client" /\ (a.s.fin <=> q >= Switch + 1)
  BY <1>6 DEF ClientView, ClientAt
<1>10. clt.tls.fin => n >= Switch + 1
  BY <1>3 DEF ClientView, ClientAt
<1>11. q >= n /\ (q = Switch + 1 => q >= Switch + 1)
  BY <1>5, Constants
<1>12. clt.tls.fin \/ a.res = "HKOK" => a.s.fin
  BY <1>5, <1>9, <1>10, <1>11, Constants
<1> DEFINE told == clt.told \/ a.res = "HKOK"
<1>13. /\ clt' \in Clients /\ clt'.conn = d /\ clt'.tls = a.s /\ clt'.status = "connected"
       /\ (clt'.told => clt'.tls.fin)
  <2>1. clt' = [clt EXCEPT !.tls = a.s, !.told = told] /\ told \in BOOLEAN
    BY <1>2 DEF Clients, HasRead
  <2>2. told => a.s.fin
    BY <1>1, <1>12 DEF Told
  <2> HIDE DEF told
  <2>3. clt' \in Clients /\ clt'.conn = clt.conn /\ clt'.status = clt.status
        /\ clt'.tls = a.s /\ clt'.told = told
    BY <1>2, <1>9, <2>1 DEF Clients
  <2> QED
    BY <2>2, <2>3 DEF Cur, Connected
<1>14. /\ up' \in Wires /\ up'[d] = x /\ dn' \in Wires /\ dn'[d] = left
       /\ \A c \in Conns \ {d} : up'[c] = up[c] /\ dn'[c] = dn[c]
  BY <1>2, <1>5 DEF Wires
<1>15. got'.dn[d] = now /\ \A c \in Conns \ {d} : got'.dn[c] = got.dn[c]
  BY <1>2 DEF Talks
<1>16. \A c \in Conns \ {d} : Same(c)
  BY <1>14, <1>15 DEF Same
<1>17. sent' \in [up : Talks, dn : Talks]
  BY <1>2
<1> HIDE DEF q, told
<1>18. ClientView(clt'.tls, dn'[d], d, g, q, sent'.dn[d], got'.dn[d])
  BY <1>6, <1>13, <1>14, <1>15
<1>19. There(d) => /\ ServerView(srv[d].tls, up'[d], d, g, m, sent'.up[d], got'.up[d])
                   /\ Linked(clt'.tls, srv[d].tls, up'[d], dn'[d], q, m, sent'.up[d], sent'.dn[d])
  BY <1>8, <1>13, <1>14
<1> QED
  BY <1>5, <1>9, <1>13, <1>14, <1>16, <1>17, <1>18, <1>19, ClientStepAt

\* No records, and a read that has something to read.
LEMMA NoRecords ==
    ASSUME NEW w \in Seq(Pieces)
    PROVE  Longer(w, w, <<>>) /\ Bodies(<<>>) = <<>> /\ \A r \in Reads(w) : w # <<>>
<1> DEFINE e == <<>>
<1>1. Len(e) = 0
  OBVIOUS
<1>2. ASSUME NEW r \in Reads(w), w = e PROVE FALSE
  <2>1. Len(w) = 0
    BY <1>1, <1>2
  <2> QED
    BY <1>2, <2>1 DEF Reads
<1>3. Bodies(e) = e
  BY <1>1 DEF Bodies
<1> HIDE DEF e
<1>4. Longer(w, w, e)
  BY <1>1 DEF Longer
<1> QED
  BY <1>2, <1>3, <1>4 DEF e

\* doNetIO of the client.
LEMMA ClientReadStep == ASSUME Inv, ClientRead PROVE Inv'
<1>1. Connected /\ srv' = srv /\ net' = net /\ ca' = ca /\ sent' = sent
  BY DEF ClientRead
<1>2. TypeOK /\ Told
  BY DEF Inv
<1>3. PICK d \in Conns : d = Cur
  BY <1>1, <1>2 DEF Told, Connected
<1> DEFINE Does(b, left) ==
              \/ b.res \in {"NONE", "HKOK"} /\ SendBytes(HasRead(clt, b), b.out, left) /\ got' = got
              \/ /\ b.res = "APPDATA"
                 /\ clt' = HasRead(clt, b)
                 /\ dn' = [dn EXCEPT ![Cur] = left] /\ up' = up
                 /\ got' = [got EXCEPT !.dn[Cur] = @ \o Bodies(b.out)]
              \/ b.res = "ERR" /\ Leaves(HasRead(clt, b), up[Cur] \o OnWire(b.out)) /\ got' = got
<1>a. \E r \in Reads(dn[Cur]) : \E b \in OnTcpRead(clt.tls, r.data, ca, Cur) : Does(b, r.left)
  BY Zenon DEF ClientRead, HasRead
<1>b. PICK r \in Reads(dn[d]) : \E b \in OnTcpRead(clt.tls, r.data, ca, d) : Does(b, r.left)
  <2> HIDE DEF Does
  <2> QED
    BY <1>3, <1>a
<1>4. PICK a \in OnTcpRead(clt.tls, r.data, ca, d) : Does(a, r.left)
  BY <1>b
<1> DEFINE k == HasRead(clt, a)
<1>5. PICK g \in Keys, n \in Nat, m \in Nat : Conn(d, g, n, m)
  BY DEF Inv
<1>6. /\ clt \in Clients /\ up \in Wires /\ dn \in Wires /\ sent \in [up : Talks, dn : Talks]
      /\ got \in [up : Talks, dn : Talks]
  BY <1>2, Types
<1>7. /\ up[d] \in Seq(Pieces) /\ dn[d] \in Seq(Pieces) /\ sent.up[d] \in Seq(Parts)
      /\ sent.dn[d] \in Seq(Parts) /\ got.dn[d] \in Seq(Parts)
  BY <1>6 DEF Wires, Talks
<1>8. net[d] = "up"
  <2>1. dn[d] # <<>>
    BY <1>4, <1>7, NoRecords
  <2>2. Placed(d) /\ Here(d)
    BY <1>1, <1>3 DEF Inv, Here
  <2> QED
    BY <2>1, <2>2 DEF Placed
<1>9. ServerThere(d) <=> There(d)
  BY <1>8 DEF ServerThere, There
<1>10. ClientView(clt.tls, dn[d], d, g, n, sent.dn[d], got.dn[d])
  BY <1>1, <1>3, <1>5 DEF Conn, Here
<1>11. There(d) => /\ ServerView(srv[d].tls, up[d], d, g, m, sent.up[d], got.up[d])
                   /\ Linked(clt.tls, srv[d].tls, up[d], dn[d], n, m, sent.up[d], sent.dn[d])
  BY <1>1, <1>3, <1>5, <1>8 DEF Conn, BothOpen, There
<1>12. ASSUME a.s \in Sessions, a.s.side = "client"
       PROVE  k \in Clients /\ k.conn = d /\ k.tls.side = "client"
  <2> DEFINE told == clt.told \/ a.res = "HKOK"
  <2>1. k = [clt EXCEPT !.tls = a.s, !.told = told] /\ told \in BOOLEAN
    BY <1>6 DEF Clients, HasRead
  <2> HIDE DEF told, k
  <2> QED
    BY <1>3, <1>6, <1>12, <2>1 DEF Clients, Cur
<1>13. CASE ClientQuit(a, n, dn[d])
  <2> DEFINE w == up[d] \o OnWire(a.out)
  <2>1. a.res = "ERR" /\ a.s \in Sessions /\ a.s.side = "client" /\ a.out \in Seq(Recs)
    BY <1>13 DEF ClientQuit, Junk, Steps
  <2>2. Leaves(k, w) /\ got' = got
    BY <1>3, <1>4, <2>1
  <2>3. w \in Seq(Pieces) /\ Longer(w, up[d], a.out)
    <3>1. Longer(up[d] \o OnWire(a.out), up[d], a.out)
      BY <1>7, <2>1, WireGrows
    <3> QED
      BY <3>1 DEF Longer
  <2>4. k \in Clients /\ k.conn = d /\ k.tls.side = "client"
    BY <1>12, <2>1
  <2> HIDE DEF w, k
  <2>5. There(d) => ServerView(srv[d].tls, w, d, g, m, sent.up[d], got.up[d])
    <3> SUFFICES ASSUME There(d) PROVE ServerView(srv[d].tls, w, d, g, m, sent.up[d], got.up[d])
      OBVIOUS
    <3> DEFINE y == dn[d]
               u == up[d]
               s == srv[d].tls
               t == clt.tls
               su == sent.up[d]
               sd == sent.dn[d]
               gu == got.up[d]
               gd == got.dn[d]
    <3>1. /\ ClientView(t, y, d, g, n, sd, gd) /\ ServerView(s, u, d, g, m, su, gu)
          /\ Linked(t, s, u, y, n, m, su, sd) /\ su \in Seq(Parts) /\ sd \in Seq(Parts)
          /\ ClientQuit(a, n, y) /\ Longer(w, u, a.out)
      BY <1>7, <1>10, <1>11, <1>13, <2>3
    <3> HIDE DEF y, u, s, t, su, sd, gu, gd
    <3>2. ServerView(s, w, d, g, m, su, gu)
      BY <3>1, ClientDrops
    <3> QED
      BY <3>2 DEF s, su, gu
  <2>6. sent' \in [up : Talks, dn : Talks]
    BY <1>1, <1>6
  <2>7. There(d) => ServerView(srv[d].tls, up[d], d, g, m, sent'.up[d], got.up[d])
    BY <1>1, <1>11
  <2>8. ServerThere(d) => ServerView(srv[d].tls, w, d, g, m, sent'.up[d], got.up[d])
    BY <1>1, <1>9, <2>5
  <2> QED
    BY <1>1, <1>3, <2>2, <2>3, <2>4, <2>6, <2>7, <2>8, ClientLeaves
<1>14. ASSUME NEW i \in 0..Len(dn[d]), ClientRun(a, clt.tls, d, g, n, i, dn[d], sent.dn[d]),
              Rest(a.s.tcp, dn[d], r.left, i)
       PROVE  Inv'
  <2>1. /\ a.res \in {"NONE", "HKOK", "APPDATA"}
        /\ a.res = "HKOK" => n + i = Switch + 1
        /\ a.res = "APPDATA" =>
              ComesNext(Bodies(a.out), sent.dn[d], got.dn[d], Beyond(n + i, Switch + 1))
        /\ a.res # "APPDATA" => Len(got.dn[d]) = Beyond(n + i, Switch + 1)
    BY <1>7, <1>10, <1>14, ClientGiven
  <2>2. a.s \in Sessions /\ a.s.side = "client" /\ a.out \in Seq(Recs)
    BY <1>14 DEF ClientRun, ClientAt, Steps
  <2>3. CASE a.res \in {"NONE", "HKOK"}
    <3> DEFINE w == up[d] \o OnWire(a.out)
               x == Wire(w, ServerThere(d))
    <3>1. got' = got /\ Answers(a, a.out) /\ Len(got.dn[d]) = Beyond(n + i, Switch + 1)
      BY <1>4, <2>1, <2>3 DEF Answers
    <3>2. \/ clt' = k /\ up' = [up EXCEPT ![d] = x] /\ dn' = [dn EXCEPT ![d] = r.left]
          \/ Leaves(k, up[d])
      BY <1>3, <1>4, <2>3 DEF SendBytes
    <3>3. w \in Seq(Pieces) /\ Longer(w, up[d], a.out)
      <4>1. Longer(up[d] \o OnWire(a.out), up[d], a.out)
        BY <1>7, <2>2, WireGrows
      <4> QED
        BY <4>1 DEF Longer
    <3>4. x \in Seq(Pieces) /\ (There(d) => Longer(x, up[d], a.out))
      <4> HIDE DEF w
      <4> QED
        BY <1>9, <3>3 DEF Wire
    <3>5. CASE clt' = k /\ up' = [up EXCEPT ![d] = x] /\ dn' = [dn EXCEPT ![d] = r.left]
      <4>1. /\ got' \in [up : Talks, dn : Talks] /\ got'.up = got.up
            /\ got'.dn = [got.dn EXCEPT ![d] = got.dn[d]]
        BY <1>6, <3>1 DEF Talks
      <4> HIDE DEF x, w
      <4> QED
        <5>1. ClientWentOn(d, g, n, m, i, a, r.left, a.out, x, got.dn[d])
          BY <1>1, <1>3, <1>5, <1>7, <1>8, <1>14, <2>1, <3>1, <3>4, <3>5, <4>1 DEF ClientWentOn
        <5> QED
          BY <5>1, ClientGoesOn
    <3>6. CASE Leaves(k, up[d])
      <4>1. k \in Clients /\ k.conn = d /\ k.tls.side = "client"
        BY <1>12, <2>2
      <4>2. sent' \in [up : Talks, dn : Talks]
        BY <1>1, <1>6
      <4>3. There(d) => ServerView(srv[d].tls, up[d], d, g, m, sent'.up[d], got.up[d])
        BY <1>1, <1>11
      <4> HIDE DEF k
      <4> QED
        BY <1>1, <1>3, <1>7, <1>9, <3>1, <3>6, <4>1, <4>2, <4>3, ClientLeaves
    <3> QED
      BY <3>2, <3>5, <3>6
  <2>4. CASE a.res = "APPDATA"
    <3> DEFINE now == got.dn[d] \o Bodies(a.out)
               e == <<>>
    <3>1. clt' = k /\ up' = up /\ dn' = [dn EXCEPT ![d] = r.left] /\ got' = [got EXCEPT !.dn[Cur] = now]
      BY <1>3, <1>4, <2>4
    <3>2. now \in Seq(Parts) /\ Len(now) = Beyond(n + i, Switch + 1)
      BY <2>1, <2>4 DEF ComesNext
    <3>3. Answers(a, e) /\ Longer(up[d], up[d], e)
      BY <1>7, <2>4, NoRecords DEF Answers
    <3> HIDE DEF now, e
    <3>4. /\ got' \in [up : Talks, dn : Talks] /\ got'.up = got.up
          /\ got'.dn = [got.dn EXCEPT ![d] = now]
      BY <1>3, <1>6, <3>1, <3>2 DEF Talks
    <3>5. up' = [up EXCEPT ![d] = up[d]]
      BY <1>6, <3>1 DEF Wires
    <3> QED
      <4>1. ClientWentOn(d, g, n, m, i, a, r.left, e, up[d], now)
        BY <1>1, <1>3, <1>5, <1>7, <1>8, <1>14, <2>1, <3>1, <3>2, <3>3, <3>4, <3>5 DEF ClientWentOn
      <4> QED
        BY <4>1, ClientGoesOn
  <2> QED
    BY <2>1, <2>3, <2>4
<1> QED
  BY <1>5, <1>7, <1>10, <1>13, <1>14, ClientReads

\* The session of connection d goes on after it has read i records: left is what
\* is left, o what it answers, x what is then on its way down, and now what its
\* application has been given.
ServerWentOn(d, g, n, m, i, a, left, o, x, now) ==
    /\ There(d) /\ net[d] = "up" /\ clt' = clt /\ net' = net /\ ca' = ca /\ sent' = sent
    /\ ~(d = Cur /\ clt.status = "connect")
    /\ g \in Keys /\ n \in Nat /\ m \in Nat /\ Conn(d, g, n, m)
    /\ i \in 0..Len(up[d]) /\ ServerRun(a, srv[d].tls, d, g, m, i, up[d], sent.up[d])
    /\ Rest(a.s.tcp, up[d], left, i) /\ Answers(a, o)
    /\ x \in Seq(Pieces) /\ (Here(d) => Longer(x, dn[d], o))
    /\ now \in Seq(Parts) /\ Len(now) = Beyond(m + i, 4)
    /\ srv' = [srv EXCEPT ![d].tls = a.s] /\ up' = [up EXCEPT ![d] = left]
    /\ dn' = [dn EXCEPT ![d] = x]
    /\ got' \in [up : Talks, dn : Talks] /\ got'.dn = got.dn
    /\ got'.up = [got.up EXCEPT ![d] = now]

\* A read of the server that is no error keeps the invariant.
LEMMA ServerGoesOn ==
    ASSUME Inv, NEW d \in Conns, NEW g, NEW n, NEW m, NEW i, NEW a, NEW left, NEW o, NEW x, NEW now,
           ServerWentOn(d, g, n, m, i, a, left, o, x, now)
    PROVE  Inv'
<1>a. /\ There(d) /\ net[d] = "up" /\ clt' = clt /\ net' = net /\ ca' = ca /\ sent' = sent
      /\ ~(d = Cur /\ clt.status = "connect")
      /\ g \in Keys /\ n \in Nat /\ m \in Nat /\ Conn(d, g, n, m)
      /\ i \in 0..Len(up[d]) /\ ServerRun(a, srv[d].tls, d, g, m, i, up[d], sent.up[d])
      /\ Rest(a.s.tcp, up[d], left, i) /\ Answers(a, o)
      /\ x \in Seq(Pieces) /\ (Here(d) => Longer(x, dn[d], o))
      /\ now \in Seq(Parts) /\ Len(now) = Beyond(m + i, 4)
      /\ srv' = [srv EXCEPT ![d].tls = a.s] /\ up' = [up EXCEPT ![d] = left]
      /\ dn' = [dn EXCEPT ![d] = x]
      /\ got' \in [up : Talks, dn : Talks] /\ got'.dn = got.dn
      /\ got'.up = [got.up EXCEPT ![d] = now]
  BY DEF ServerWentOn
<1> USE <1>a
<1> DEFINE q == m + i
<1>1. TypeOK
  BY DEF Inv
<1>2. /\ srv \in [Conns -> Servers] /\ up \in Wires /\ dn \in Wires
      /\ sent \in [up : Talks, dn : Talks] /\ got \in [up : Talks, dn : Talks]
  BY <1>1, Types
<1>3. ServerView(srv[d].tls, up[d], d, g, m, sent.up[d], got.up[d])
  BY DEF Conn
<1>4. Here(d) => /\ ClientView(clt.tls, dn[d], d, g, n, sent.dn[d], got.dn[d])
                 /\ Linked(clt.tls, srv[d].tls, up[d], dn[d], n, m, sent.up[d], sent.dn[d])
  BY DEF Conn, BothOpen, There, Here
<1>5. q \in Nat /\ left \in Seq(Pieces) /\ i \in Nat
  BY DEF Rest, Wires
<1>6. ServerView(a.s, left, d, g, q, sent.up[d], now)
  BY <1>3, ViewsAfter
<1>7. sent.up[d] \in Seq(Parts) /\ sent.dn[d] \in Seq(Parts)
  BY <1>2 DEF Talks
<1>8. Here(d) => /\ ClientView(clt.tls, x, d, g, n, sent.dn[d], got.dn[d])
                 /\ Linked(clt.tls, a.s, left, x, n, q, sent.up[d], sent.dn[d])
  <2> SUFFICES ASSUME Here(d)
               PROVE  /\ ClientView(clt.tls, x, d, g, n, sent.dn[d], got.dn[d])
                      /\ Linked(clt.tls, a.s, left, x, n, q, sent.up[d], sent.dn[d])
    OBVIOUS
  <2> DEFINE w == dn[d]
             u == up[d]
             s == srv[d].tls
             k == clt.tls
             su == sent.up[d]
             sd == sent.dn[d]
             gu == got.up[d]
             gd == got.dn[d]
  <2>1. /\ ClientView(k, w, d, g, n, sd, gd) /\ ServerView(s, u, d, g, m, su, gu)
        /\ Linked(k, s, u, w, n, m, su, sd) /\ su \in Seq(Parts) /\ sd \in Seq(Parts)
        /\ i \in 0..Len(u) /\ ServerRun(a, s, d, g, m, i, u, su) /\ Rest(a.s.tcp, u, left, i)
        /\ Longer(x, w, o)
    BY <1>3, <1>4, <1>7
  <2> HIDE DEF w, u, s, k, su, sd, gu, gd
  <2>2. ClientView(k, x, d, g, n, sd, gd) /\ Linked(k, a.s, left, x, n, m + i, su, sd)
    BY <2>1, ServerAnswers
  <2> QED
    BY <2>2 DEF k, su, sd, gd
<1>9. a.s \in Sessions
  BY <1>6 DEF ServerView, ServerAt
<1>10. /\ srv' \in [Conns -> Servers] /\ srv'[d].life = "open" /\ srv'[d].tls = a.s
       /\ \A c \in Conns \ {d} : srv'[c] = srv[c]
  BY <1>2, <1>9 DEF Servers, There
<1>11. /\ up' \in Wires /\ up'[d] = left /\ dn' \in Wires /\ dn'[d] = x
       /\ \A c \in Conns \ {d} : up'[c] = up[c] /\ dn'[c] = dn[c]
  BY <1>2, <1>5 DEF Wires
<1>12. got'.up[d] = now /\ \A c \in Conns \ {d} : got'.up[c] = got.up[c]
  BY <1>2 DEF Talks
<1>13. \A c \in Conns \ {d} : Same(c)
  BY <1>10, <1>11, <1>12 DEF Same
<1>14. sent' \in [up : Talks, dn : Talks]
  BY <1>2
<1> HIDE DEF q
<1>15. ServerView(srv'[d].tls, up'[d], d, g, q, sent'.up[d], got'.up[d])
  BY <1>6, <1>10, <1>11, <1>12
<1>16. Here(d) => /\ ClientView(clt.tls, dn'[d], d, g, n, sent'.dn[d], got'.dn[d])
                  /\ Linked(clt.tls, srv'[d].tls, up'[d], dn'[d], n, q, sent'.up[d], sent'.dn[d])
  BY <1>8, <1>10, <1>11
<1> QED
  BY <1>5, <1>10, <1>11, <1>13, <1>14, <1>15, <1>16, ServerStepAt

\* A server that has taken no hello has the key its certificate will name.
LEMMA KeyToBe ==
    ASSUME Inv, NEW d \in Conns, There(d), net[d] = "up"
    PROVE  \E g \in Keys, n \in Nat, m \in Nat : Conn(d, g, n, m) /\ (m = 0 => g = ca)
<1>1. PICK h \in Keys, n \in Nat, m \in Nat : Conn(d, h, n, m)
  BY DEF Inv
<1>2. ca \in Keys
  BY Types DEF Inv
<1>3. CASE m # 0
  BY <1>1, <1>3
<1>4. CASE m = 0
  <2>1. ServerView(srv[d].tls, up[d], d, h, 0, sent.up[d], got.up[d])
    BY <1>1, <1>4 DEF Conn
  <2>2. ServerView(srv[d].tls, up[d], d, ca, 0, sent.up[d], got.up[d])
    BY <2>1, NoKeyYet
  <2>3. Here(d) => ClientView(clt.tls, dn[d], d, ca, n, sent.dn[d], got.dn[d])
    <3> SUFFICES ASSUME Here(d) PROVE ClientView(clt.tls, dn[d], d, ca, n, sent.dn[d], got.dn[d])
      OBVIOUS
    <3> DEFINE w == dn[d]
               e == <<>>
    <3>1. ClientView(clt.tls, w, d, h, n, sent.dn[d], got.dn[d])
      BY <1>1 DEF Conn
    <3>2. n + Len(w) = 0
      BY <1>1, <1>4 DEF Conn, BothOpen, Here, There, Linked, ServerTotal
    <3>3. w \in Seq(Pieces)
      BY <3>1 DEF ClientView
    <3> HIDE DEF w
    <3>4. n = 0 /\ w = e
      <4>1. Len(w) \in Nat
        BY <3>3
      <4>2. n = 0 /\ Len(w) = 0
        BY <3>2, <4>1
      <4> QED
        BY <3>3, <4>2
    <3>5. ClientView(clt.tls, e, d, h, 0, sent.dn[d], got.dn[d])
      BY <3>1, <3>4
    <3>6. ClientView(clt.tls, e, d, ca, 0, sent.dn[d], got.dn[d])
      BY <3>5, NoKeyYet
    <3> QED
      BY <3>4, <3>6 DEF w
  <2>4. Conn(d, ca, n, 0)
    BY <1>1, <1>4, <2>2, <2>3 DEF Conn
  <2> QED
    BY <1>2, <1>4, <2>4
<1> QED
  BY <1>3, <1>4

\* session_tls::onrecvbytes.
LEMMA ServerReadStep == ASSUME Inv, NEW d \in Conns, ServerRead(d) PROVE Inv'
<1> DEFINE Does(b, left) ==
              \/ /\ b.res # "ERR"
                 /\ srv' = [srv EXCEPT ![d].tls = b.s]
                 /\ up' = [up EXCEPT ![d] = left]
                 /\ \/ /\ b.res \in {"NONE", "HKOK"}
                       /\ dn' = [dn EXCEPT ![d] = Wire(@ \o OnWire(b.out), ClientThere(d))]
                       /\ got' = got
                    \/ /\ b.res = "APPDATA"
                       /\ got' = [got EXCEPT !.up[d] = @ \o Bodies(b.out)]
                       /\ dn' = dn
              \/ b.res = "ERR" /\ CloseServer(d) /\ got' = got
<1>1. There(d) /\ clt' = clt /\ net' = net /\ ca' = ca /\ sent' = sent
  BY DEF ServerRead, There
<1>2. TypeOK /\ Placed(d)
  BY DEF Inv
<1>3. PICK r \in Reads(up[d]) : \E b \in OnTcpRead(srv[d].tls, r.data, ca, d) : Does(b, r.left)
  BY Zenon DEF ServerRead
<1>4. PICK a \in OnTcpRead(srv[d].tls, r.data, ca, d) : Does(a, r.left)
  BY <1>3
<1>5. /\ srv \in [Conns -> Servers] /\ up \in Wires /\ dn \in Wires
      /\ sent \in [up : Talks, dn : Talks] /\ got \in [up : Talks, dn : Talks]
  BY <1>2, Types
<1>6. /\ up[d] \in Seq(Pieces) /\ dn[d] \in Seq(Pieces) /\ sent.up[d] \in Seq(Parts)
      /\ sent.dn[d] \in Seq(Parts) /\ got.up[d] \in Seq(Parts)
  BY <1>5 DEF Wires, Talks
<1>7. net[d] = "up" /\ ~(d = Cur /\ clt.status = "connect")
  <2>1. up[d] # <<>>
    BY <1>4, <1>6, NoRecords
  <2> QED
    BY <1>1, <1>2, <2>1 DEF Placed, Quiet
<1>8. PICK g \in Keys, n \in Nat, m \in Nat : Conn(d, g, n, m) /\ (m = 0 => g = ca)
  BY <1>1, <1>7, KeyToBe
<1>9. ServerView(srv[d].tls, up[d], d, g, m, sent.up[d], got.up[d])
  BY <1>1, <1>8 DEF Conn
<1>10. ClientThere(d) <=> Here(d)
  BY <1>7 DEF ClientThere, Here
<1>11. CASE a.res = "ERR"
  BY <1>1, <1>4, <1>11, ServerCloses
<1>12. ASSUME NEW i \in 0..Len(up[d]), ServerRun(a, srv[d].tls, d, g, m, i, up[d], sent.up[d]),
              Rest(a.s.tcp, up[d], r.left, i)
       PROVE  Inv'
  <2>1. /\ a.res \in {"NONE", "HKOK", "APPDATA"}
        /\ a.res = "APPDATA" => ComesNext(Bodies(a.out), sent.up[d], got.up[d], Beyond(m + i, 4))
        /\ a.res # "APPDATA" => Len(got.up[d]) = Beyond(m + i, 4)
    BY <1>6, <1>9, <1>12, ServerGiven
  <2>2. a.out \in Seq(Recs)
    BY <1>12 DEF ServerRun, Steps
  <2>3. srv' = [srv EXCEPT ![d].tls = a.s] /\ up' = [up EXCEPT ![d] = r.left]
    BY <1>4, <2>1
  <2>4. CASE a.res \in {"NONE", "HKOK"}
    <3> DEFINE w == dn[d] \o OnWire(a.out)
               x == Wire(w, ClientThere(d))
    <3>1. got' = got /\ Answers(a, a.out) /\ Len(got.up[d]) = Beyond(m + i, 4)
      BY <1>4, <2>1, <2>4 DEF Answers
    <3>2. dn' = [dn EXCEPT ![d] = x]
      BY <1>4, <2>4
    <3>3. w \in Seq(Pieces) /\ Longer(w, dn[d], a.out)
      <4>1. Longer(dn[d] \o OnWire(a.out), dn[d], a.out)
        BY <1>6, <2>2, WireGrows
      <4> QED
        BY <4>1 DEF Longer
    <3>4. x \in Seq(Pieces) /\ (Here(d) => Longer(x, dn[d], a.out))
      <4> HIDE DEF w
      <4> QED
        BY <1>10, <3>3 DEF Wire
    <3>5. /\ got' \in [up : Talks, dn : Talks] /\ got'.dn = got.dn
          /\ got'.up = [got.up EXCEPT ![d] = got.up[d]]
      BY <1>5, <3>1 DEF Talks
    <3> HIDE DEF x, w
    <3>6. ServerWentOn(d, g, n, m, i, a, r.left, a.out, x, got.up[d])
      BY <1>1, <1>6, <1>7, <1>8, <1>12, <2>3, <3>1, <3>2, <3>4, <3>5 DEF ServerWentOn
    <3> QED
      BY <3>6, ServerGoesOn
  <2>5. CASE a.res = "APPDATA"
    <3> DEFINE now == got.up[d] \o Bodies(a.out)
               e == <<>>
    <3>1. dn' = dn /\ got' = [got EXCEPT !.up[d] = now]
      BY <1>4, <2>5
    <3>2. now \in Seq(Parts) /\ Len(now) = Beyond(m + i, 4)
      BY <2>1, <2>5 DEF ComesNext
    <3>3. Answers(a, e) /\ Longer(dn[d], dn[d], e)
      BY <1>6, <2>5, NoRecords DEF Answers
    <3> HIDE DEF now, e
    <3>4. /\ got' \in [up : Talks, dn : Talks] /\ got'.dn = got.dn
          /\ got'.up = [got.up EXCEPT ![d] = now]
      BY <1>5, <3>1, <3>2 DEF Talks
    <3>5. dn' = [dn EXCEPT ![d] = dn[d]]
      BY <1>5, <3>1 DEF Wires
    <3>6. ServerWentOn(d, g, n, m, i, a, r.left, e, dn[d], now)
      BY <1>1, <1>6, <1>7, <1>8, <1>12, <2>3, <3>2, <3>3, <3>4, <3>5 DEF ServerWentOn
    <3> QED
      BY <3>6, ServerGoesOn
  <2> QED
    BY <2>1, <2>4, <2>5
<1>13. \/ a.res = "ERR"
       \/ \E i \in 0..Len(up[d]) : /\ ServerRun(a, srv[d].tls, d, g, m, i, up[d], sent.up[d])
                                   /\ Rest(a.s.tcp, up[d], r.left, i)
  BY <1>8, <1>9, ServerReads
<1> QED
  BY <1>11, <1>12, <1>13

-----------------------------------------------------------------------------
(* What the applications send.                                               *)

\* A message is a sequence of parts.
LEMMA MessageIs ==
    ASSUME NEW n \in Nat, NEW size \in Nat
    PROVE  Message(n, size) \in Seq(Parts)
<1> DEFINE e(i) == [msg |-> n, part |-> i]
           M == [i \in 1..size |-> e(i)]
<1>1. \A i \in 1..size : e(i) \in Parts
  BY DEF Parts
<1> HIDE DEF e
<1>2. M \in Seq(Parts)
  BY <1>1
<1> QED
  BY <1>2 DEF Message, M, e

\* The messages parts are of are finitely many.
LEMMA RangeIsFinite ==
    ASSUME NEW s \in Seq(Parts)
    PROVE  IsFiniteSet({x.msg : x \in Range(s)})
<1> DEFINE D == 1..Len(s)
           f == [i \in D |-> s[i].msg]
           S == {x.msg : x \in Range(s)}
<1>1. Len(s) \in Nat /\ IsFiniteSet(D)
  BY FS_Interval
<1>2. Range(s) = {s[i] : i \in D}
  BY DEF Range
<1>3. f \in Surjection(D, S)
  BY <1>2 DEF Surjection
<1> HIDE DEF f, S, D
<1>4. IsFiniteSet(S)
  BY <1>1, <1>3, FS_Surjection
<1> QED
  BY <1>4 DEF S

\* Count counts.
LEMMA CountIsNat ==
    ASSUME TypeOK, NEW dir \in {"up", "dn"}
    PROVE  Count(dir) \in Nat
<1> DEFINE F(c) == {x.msg : x \in Range(sent[dir][c])}
           S == {F(c) : c \in Conns}
           f == [c \in Conns |-> F(c)]
<1>1. IsFiniteSet(Conns)
  BY LinkAssumption, FS_Interval DEF Conns
<1>2. ASSUME NEW c \in Conns PROVE IsFiniteSet(F(c))
  <2>1. sent[dir][c] \in Seq(Parts)
    <3>1. sent \in [up : Talks, dn : Talks]
      BY Types
    <3> QED
      BY <3>1 DEF Talks
  <2> QED
    BY <2>1, RangeIsFinite
<1>3. f \in Surjection(Conns, S)
  <2> HIDE DEF F
  <2> QED
    BY DEF Surjection
<1> HIDE DEF f
<1>4. IsFiniteSet(S)
  <2> HIDE DEF S
  <2> QED
    BY <1>1, <1>3, FS_Surjection
<1>5. \A T \in S : IsFiniteSet(T)
  <2> HIDE DEF F
  <2> QED
    BY <1>2
<1> HIDE DEF S
<1>6. IsFiniteSet(UNION S)
  BY <1>4, <1>5, FS_UNION
<1>7. Cardinality(UNION S) \in Nat
  BY <1>6, FS_CardinalityType
<1> QED
  BY <1>7 DEF Count, S

\* tls_c::sendbytes, or the full send buffer that ends the connection.
LEMMA ClientSendStep == ASSUME Inv, ClientSend PROVE Inv'
<1> DEFINE With(a) == [clt EXCEPT !.tls = a.s]
           Does(m, a) ==
              /\ sent' = [sent EXCEPT !.up[Cur] = @ \o m]
              /\ SendBytes(With(a), a.out, dn[Cur])
<1>1. Connected /\ clt.told /\ srv' = srv /\ net' = net /\ ca' = ca /\ got' = got
  BY DEF ClientSend
<1>2. TypeOK /\ Told
  BY DEF Inv
<1>3. PICK d \in Conns : d = Cur
  BY <1>1, <1>2 DEF Told, Connected
<1>4. PICK size \in Sizes, first \in Firsts :
         Does(Message(Count("up") + 1, size),
              MakeAppRecord(clt.tls, Message(Count("up") + 1, size), first))
  BY Zenon DEF ClientSend
<1> DEFINE more == Message(Count("up") + 1, size)
           a == MakeAppRecord(clt.tls, more, first)
<1>5. more \in Seq(Parts) /\ first \in BOOLEAN
  <2>1. Count("up") + 1 \in Nat /\ size \in Nat
    BY <1>2, CountIsNat, LinkAssumption
  <2> QED
    BY <2>1, MessageIs, LinkAssumption
<1>6. sent' = [sent EXCEPT !.up[Cur] = @ \o more] /\ SendBytes(With(a), a.out, dn[Cur])
  BY <1>4
<1>7. PICK g \in Keys, n \in Nat, m \in Nat : Conn(d, g, n, m)
  BY DEF Inv
<1>8. /\ clt \in Clients /\ up \in Wires /\ dn \in Wires /\ sent \in [up : Talks, dn : Talks]
      /\ got \in [up : Talks, dn : Talks]
  BY <1>2, Types
<1>9. /\ up[d] \in Seq(Pieces) /\ dn[d] \in Seq(Pieces) /\ sent.up[d] \in Seq(Parts)
      /\ sent.dn[d] \in Seq(Parts)
  BY <1>8 DEF Wires, Talks
<1>10. ClientView(clt.tls, dn[d], d, g, n, sent.dn[d], got.dn[d])
  BY <1>1, <1>3, <1>7 DEF Conn, Here
<1>11. There(d) => ServerView(srv[d].tls, up[d], d, g, m, sent.up[d], got.up[d])
  BY <1>7 DEF Conn
<1>12. ServerThere(d) =>
          There(d) /\ Linked(clt.tls, srv[d].tls, up[d], dn[d], n, m, sent.up[d], sent.dn[d])
  BY <1>1, <1>3, <1>7 DEF Conn, BothOpen, There, ServerThere
<1>13. clt.tls \in Sessions /\ clt.tls.fin /\ clt.tls.wr
  BY <1>1, <1>2, <1>10, Constants DEF Told, ClientView, ClientAt
<1> HIDE DEF more
<1>14. /\ Carries(a.out, more) /\ Apart(a.s, clt.tls, {"wseq"})
       /\ a.s.wseq = clt.tls.wseq + SealedIn(a.out)
  BY <1>5, <1>13, AppRecords
<1> HIDE DEF a
<1> DEFINE msgs == sent.up[d] \o more
           k == With(a)
<1>15. msgs \in Seq(Parts)
  BY <1>5, <1>9
<1>16. a.s \in Sessions /\ a.s.side = clt.tls.side /\ a.s.fin = clt.tls.fin /\ a.out \in Seq(Recs)
  BY <1>14 DEF Apart, Fields, Carries
<1>17. There(d) => ServerView(srv[d].tls, up[d], d, g, m, msgs, got.up[d])
  BY <1>5, <1>9, <1>11, ViewsSent
<1>18. /\ sent' \in [up : Talks, dn : Talks] /\ sent'.up[d] = msgs /\ sent'.dn = sent.dn
       /\ \A c \in Conns \ {d} : sent'.up[c] = sent.up[c]
  <2>1. sent' = [sent EXCEPT !.up[d] = msgs]
    BY <1>3, <1>6
  <2> HIDE DEF msgs
  <2> QED
    BY <1>8, <1>15, <2>1 DEF Talks
<1>19. k \in Clients /\ k.conn = d /\ k.tls = a.s /\ k.status = "connected" /\ k.told
  BY <1>1, <1>3, <1>8, <1>16 DEF Clients, Cur, Connected
<1> HIDE DEF msgs, With
<1>20. a.s.side = "client"
  BY <1>2, <1>16 DEF Told
<1> DEFINE w == up[d] \o OnWire(a.out)
           x == Wire(w, ServerThere(d))
<1>21. \/ clt' = k /\ up' = [up EXCEPT ![d] = x] /\ dn' = [dn EXCEPT ![d] = dn[d]]
       \/ Leaves(k, up[d])
  BY <1>3, <1>6 DEF SendBytes
<1>22. CASE Leaves(k, up[d])
  <2>1. There(d) => ServerView(srv[d].tls, up[d], d, g, m, sent'.up[d], got.up[d])
    BY <1>17, <1>18
  <2>2. ServerThere(d) => There(d)
    BY <1>12
  <2> HIDE DEF k
  <2> QED
    BY <1>1, <1>3, <1>9, <1>18, <1>19, <1>20, <1>22, <2>1, <2>2, ClientLeaves
<1>23. CASE clt' = k /\ up' = [up EXCEPT ![d] = x] /\ dn' = [dn EXCEPT ![d] = dn[d]]
  <2> DEFINE e == <<>>
  <2>1. w \in Seq(Pieces) /\ Longer(w, up[d], a.out)
    <3>1. Longer(up[d] \o OnWire(a.out), up[d], a.out)
      BY <1>9, <1>16, WireGrows
    <3> QED
      BY <3>1 DEF Longer
  <2> HIDE DEF w
  <2>2. x = IF ServerThere(d) THEN w ELSE e
    BY DEF Wire
  <2>3. Less(e, up[d]) /\ e \in Seq(Pieces)
    BY <1>9, Dropped
  <2> HIDE DEF x, e, k
  <2>4. x \in Seq(Pieces)
    BY <2>1, <2>2, <2>3
  <2>5. /\ up' \in Wires /\ up'[d] = x /\ dn' \in Wires /\ dn'[d] = dn[d]
        /\ \A c \in Conns \ {d} : up'[c] = up[c] /\ dn'[c] = dn[c]
    BY <1>8, <1>23, <2>4 DEF Wires
  <2>6. ClientView(a.s, dn[d], d, g, n, sent.dn[d], got.dn[d])
    BY <1>10, <1>14, Counted
  <2>7. ASSUME ServerThere(d)
        PROVE  /\ ServerView(srv[d].tls, w, d, g, m, msgs, got.up[d])
               /\ Linked(a.s, srv[d].tls, w, dn[d], n, m, msgs, sent.dn[d])
    <3> DEFINE y == dn[d]
               u == up[d]
               s == srv[d].tls
               t == clt.tls
               o == a.out
               z == a.s
               su == sent.up[d]
               sd == sent.dn[d]
               gu == got.up[d]
               gd == got.dn[d]
    <3>1. /\ ClientView(t, y, d, g, n, sd, gd) /\ ServerView(s, u, d, g, m, su, gu)
          /\ Linked(t, s, u, y, n, m, su, sd) /\ su \in Seq(Parts) /\ sd \in Seq(Parts) /\ t.fin
          /\ Carries(o, more) /\ Longer(w, u, o) /\ Apart(z, t, {"wseq"})
          /\ z.wseq = t.wseq + SealedIn(o)
      BY <1>9, <1>10, <1>11, <1>12, <1>13, <1>14, <2>1, <2>7
    <3> HIDE DEF y, u, s, t, o, z, su, sd, gu, gd
    <3>2. ServerView(s, w, d, g, m, su \o more, gu) /\ Linked(z, s, w, y, n, m, su \o more, sd)
      BY <1>5, <3>1, ClientSends
    <3> QED
      BY <3>2 DEF y, s, z, su, sd, gu, msgs
  <2>8. There(d) => ServerView(srv[d].tls, x, d, g, m, msgs, got.up[d])
    <3> SUFFICES ASSUME There(d) PROVE ServerView(srv[d].tls, x, d, g, m, msgs, got.up[d])
      OBVIOUS
    <3>1. CASE ServerThere(d)
      BY <2>2, <2>7, <3>1
    <3>2. CASE ~ServerThere(d)
      <4>1. x = e /\ ServerView(srv[d].tls, up[d], d, g, m, msgs, got.up[d])
        BY <1>17, <2>2, <3>2
      <4> QED
        BY <1>9, <2>3, <4>1, ViewsLess
    <3> QED
      BY <3>1, <3>2
  <2>9. net[d] = "up" /\ There(d) =>
           /\ ServerThere(d)
           /\ Linked(a.s, srv[d].tls, x, dn[d], n, m, msgs, sent.dn[d])
    BY <2>2, <2>7 DEF ServerThere, There
  <2>10. net[d] = "broken" => x = <<>> /\ dn[d] = <<>>
    BY <2>2 DEF Inv, Placed, ServerThere, e
  <2>11. \A c \in Conns \ {d} : Same(c)
    BY <1>1, <1>18, <2>5 DEF Same
  <2>12. clt' \in Clients /\ clt'.conn = d /\ clt'.tls = a.s /\ clt'.status = "connected"
    BY <1>19, <1>23
  <2>13. got' \in [up : Talks, dn : Talks]
    BY <1>1, <1>8
  <2>14. ClientView(clt'.tls, dn'[d], d, g, n, sent'.dn[d], got'.dn[d])
    BY <1>1, <1>18, <2>5, <2>6, <2>12
  <2>15. There(d) => ServerView(srv[d].tls, up'[d], d, g, m, sent'.up[d], got'.up[d])
    BY <1>1, <1>18, <2>5, <2>8
  <2>16. There(d) /\ net[d] = "up" =>
            Linked(clt'.tls, srv[d].tls, up'[d], dn'[d], n, m, sent'.up[d], sent'.dn[d])
    BY <1>18, <2>5, <2>9, <2>12
  <2> QED
    BY <1>1, <1>3, <1>13, <1>16, <1>18, <1>20, <2>5, <2>10, <2>11, <2>12, <2>13, <2>14, <2>15,
       <2>16, ClientStepAt
<1> QED
  BY <1>21, <1>22, <1>23

\* session_tls::sendasyn.
LEMMA ServerSendStep == ASSUME Inv, NEW d \in Conns, ServerSend(d) PROVE Inv'
<1> DEFINE Does(m, a) ==
              /\ srv' = [srv EXCEPT ![d].tls = a.s]
              /\ dn' = [dn EXCEPT ![d] = Wire(@ \o OnWire(a.out), ClientThere(d))]
              /\ sent' = [sent EXCEPT !.dn[d] = @ \o m]
<1>1. There(d) /\ srv[d].tls.fin /\ clt' = clt /\ net' = net /\ up' = up /\ ca' = ca /\ got' = got
  BY DEF ServerSend, There
<1>2. TypeOK /\ Placed(d)
  BY DEF Inv
<1>4. PICK size \in Sizes, first \in Firsts :
         Does(Message(Count("dn") + 1, size),
              MakeAppRecord(srv[d].tls, Message(Count("dn") + 1, size), first))
  BY Zenon DEF ServerSend
<1> DEFINE more == Message(Count("dn") + 1, size)
           a == MakeAppRecord(srv[d].tls, more, first)
<1>5. more \in Seq(Parts) /\ first \in BOOLEAN
  <2>1. Count("dn") + 1 \in Nat /\ size \in Nat
    BY <1>2, CountIsNat, LinkAssumption
  <2> QED
    BY <2>1, MessageIs, LinkAssumption
<1>6. Does(more, a)
  BY <1>4
<1>7. PICK g \in Keys, n \in Nat, m \in Nat : Conn(d, g, n, m)
  BY DEF Inv
<1>8. /\ srv \in [Conns -> Servers] /\ up \in Wires /\ dn \in Wires
      /\ sent \in [up : Talks, dn : Talks] /\ got \in [up : Talks, dn : Talks]
  BY <1>2, Types
<1>9. /\ up[d] \in Seq(Pieces) /\ dn[d] \in Seq(Pieces) /\ sent.up[d] \in Seq(Parts)
      /\ sent.dn[d] \in Seq(Parts)
  BY <1>8 DEF Wires, Talks
<1>10. ServerView(srv[d].tls, up[d], d, g, m, sent.up[d], got.up[d])
  BY <1>1, <1>7 DEF Conn
<1>11. Here(d) => ClientView(clt.tls, dn[d], d, g, n, sent.dn[d], got.dn[d])
  BY <1>7 DEF Conn
<1>12. ClientThere(d) =>
          Here(d) /\ Linked(clt.tls, srv[d].tls, up[d], dn[d], n, m, sent.up[d], sent.dn[d])
  BY <1>1, <1>7 DEF Conn, BothOpen, There, Here, ClientThere
<1>13. srv[d].tls \in Sessions /\ srv[d].tls.wr /\ m # 0
  BY <1>1, <1>10 DEF ServerView, ServerAt
<1>a. ~(d = Cur /\ clt.status = "connect")
  BY <1>1, <1>7, <1>13 DEF Conn
<1> HIDE DEF more
<1>14. /\ Carries(a.out, more) /\ Apart(a.s, srv[d].tls, {"wseq"})
       /\ a.s.wseq = srv[d].tls.wseq + SealedIn(a.out)
  BY <1>1, <1>5, <1>13, AppRecords
<1> HIDE DEF a
<1> DEFINE msgs == sent.dn[d] \o more
           w == dn[d] \o OnWire(a.out)
           x == Wire(w, ClientThere(d))
           e == <<>>
<1>15. msgs \in Seq(Parts)
  BY <1>5, <1>9
<1>16. a.s \in Sessions /\ a.out \in Seq(Recs)
  BY <1>14 DEF Apart, Carries
<1>17. Here(d) => ClientView(clt.tls, dn[d], d, g, n, msgs, got.dn[d])
  BY <1>5, <1>9, <1>11, ViewsSent
<1>18. /\ sent' \in [up : Talks, dn : Talks] /\ sent'.dn[d] = msgs /\ sent'.up = sent.up
       /\ \A c \in Conns \ {d} : sent'.dn[c] = sent.dn[c]
  <2>1. sent' = [sent EXCEPT !.dn[d] = msgs]
    BY <1>6
  <2> HIDE DEF msgs
  <2> QED
    BY <1>8, <1>15, <2>1 DEF Talks
<1>19. srv' = [srv EXCEPT ![d].tls = a.s] /\ dn' = [dn EXCEPT ![d] = x]
  BY <1>6
<1>20. w \in Seq(Pieces) /\ Longer(w, dn[d], a.out)
  <2>1. Longer(dn[d] \o OnWire(a.out), dn[d], a.out)
    BY <1>9, <1>16, WireGrows
  <2> QED
    BY <2>1 DEF Longer
<1> HIDE DEF w, msgs
<1>21. x = IF ClientThere(d) THEN w ELSE e
  BY DEF Wire
<1>22. Less(e, dn[d]) /\ e \in Seq(Pieces)
  BY <1>9, Dropped
<1> HIDE DEF x, e
<1>23. x \in Seq(Pieces)
  BY <1>20, <1>21, <1>22
<1>24. /\ srv' \in [Conns -> Servers] /\ srv'[d].life = "open" /\ srv'[d].tls = a.s
       /\ \A c \in Conns \ {d} : srv'[c] = srv[c]
  BY <1>1, <1>8, <1>16, <1>19 DEF Servers, There
<1>25. dn' \in Wires /\ dn'[d] = x /\ \A c \in Conns \ {d} : dn'[c] = dn[c]
  BY <1>8, <1>19, <1>23 DEF Wires
<1>26. ServerView(a.s, up[d], d, g, m, sent.up[d], got.up[d])
  BY <1>10, <1>14, Counted
<1>27. ASSUME ClientThere(d)
       PROVE  /\ ClientView(clt.tls, w, d, g, n, msgs, got.dn[d])
              /\ Linked(clt.tls, a.s, up[d], w, n, m, sent.up[d], msgs)
  <2> DEFINE y == dn[d]
             u == up[d]
             s == srv[d].tls
             t == clt.tls
             o == a.out
             z == a.s
             su == sent.up[d]
             sd == sent.dn[d]
             gu == got.up[d]
             gd == got.dn[d]
  <2>1. /\ ClientView(t, y, d, g, n, sd, gd) /\ ServerView(s, u, d, g, m, su, gu)
        /\ Linked(t, s, u, y, n, m, su, sd) /\ su \in Seq(Parts) /\ sd \in Seq(Parts) /\ s.fin
        /\ Carries(o, more) /\ Longer(w, y, o) /\ Apart(z, s, {"wseq"})
        /\ z.wseq = s.wseq + SealedIn(o)
    BY <1>1, <1>9, <1>10, <1>11, <1>12, <1>14, <1>20, <1>27
  <2> HIDE DEF y, u, s, t, o, z, su, sd, gu, gd
  <2>2. ClientView(t, w, d, g, n, sd \o more, gd) /\ Linked(t, z, u, w, n, m, su, sd \o more)
    BY <1>5, <2>1, ServerSends
  <2> QED
    BY <2>2 DEF u, t, z, su, sd, gd, msgs
<1>28. Here(d) => ClientView(clt.tls, x, d, g, n, msgs, got.dn[d])
  <2> SUFFICES ASSUME Here(d) PROVE ClientView(clt.tls, x, d, g, n, msgs, got.dn[d])
    OBVIOUS
  <2>1. CASE ClientThere(d)
    BY <1>21, <1>27, <2>1
  <2>2. CASE ~ClientThere(d)
    <3>1. x = e /\ ClientView(clt.tls, dn[d], d, g, n, msgs, got.dn[d])
      BY <1>17, <1>21, <2>2
    <3> QED
      BY <1>9, <1>22, <3>1, ViewsLess
  <2> QED
    BY <2>1, <2>2
<1>29. Here(d) /\ net[d] = "up" => Linked(clt.tls, a.s, up[d], x, n, m, sent.up[d], msgs)
  BY <1>21, <1>27 DEF ClientThere, Here
<1>30. net[d] = "broken" => up[d] = <<>> /\ x = <<>>
  BY <1>2, <1>21 DEF Placed, ClientThere, e
<1>31. \A c \in Conns \ {d} : Same(c)
  BY <1>1, <1>18, <1>24, <1>25 DEF Same
<1>32. got' \in [up : Talks, dn : Talks] /\ up' \in Wires
  BY <1>1, <1>8
<1>33. Here(d) => ClientView(clt.tls, dn'[d], d, g, n, sent'.dn[d], got'.dn[d])
  BY <1>1, <1>18, <1>25, <1>28
<1>34. ServerView(srv'[d].tls, up'[d], d, g, m, sent'.up[d], got'.up[d])
  BY <1>1, <1>18, <1>24, <1>26
<1>35. Here(d) /\ net[d] = "up" =>
          Linked(clt.tls, srv'[d].tls, up'[d], dn'[d], n, m, sent'.up[d], sent'.dn[d])
  BY <1>1, <1>18, <1>24, <1>25, <1>29
<1> QED
  BY <1>1, <1>a, <1>18, <1>24, <1>25, <1>30, <1>31, <1>32, <1>33, <1>34, <1>35, ServerStepAt

-----------------------------------------------------------------------------
\* Every step keeps the invariant.
LEMMA NextInv == ASSUME Inv, [Next]_vars PROVE Inv'
<1>1. CASE Client
  BY <1>1, DoConnectStep, ClientReadStep, ClientEofStep DEF Client
<1>2. ASSUME NEW c \in Conns, Server(c) PROVE Inv'
  BY <1>2, AcceptStep, ServerReadStep, ServerCloseStep DEF Server
<1>3. CASE Apps
  BY <1>3, OpenStep, ClientSendStep, CloseClientStep, ReSetCertStep, ServerSendStep,
     ServerCloseStep DEF Apps
<1>4. ASSUME NEW c \in Conns, Break(c) PROVE Inv'
  BY <1>4, BreakStep
<1>5. CASE UNCHANGED vars
  <2>1. /\ clt' = clt /\ srv' = srv /\ net' = net /\ up' = up /\ dn' = dn /\ ca' = ca
        /\ sent' = sent /\ got' = got
    BY <1>5 DEF vars
  <2>2. TypeOK' /\ Told'
    BY <2>1, Types DEF Inv, Told, Cur, Connected
  <2>3. ASSUME NEW c \in Conns
        PROVE  Placed(c)' /\ \E g \in Keys, n \in Nat, m \in Nat : Conn(c, g, n, m)'
    <3>1. PICK g \in Keys, n \in Nat, m \in Nat : Conn(c, g, n, m)
      BY DEF Inv
    <3>2. Placed(c) /\ Same(c)
      BY <2>1 DEF Inv, Same
    <3> QED
      BY <2>1, <3>1, <3>2, Untouched
  <2> QED
    BY <2>2, <2>3 DEF Inv
<1> QED
  BY <1>1, <1>2, <1>3, <1>4, <1>5 DEF Next

\* In every reachable state each connection has a key pair and two positions, the
\* records each end has taken of the other's stream, which determine both
\* sessions and all that is in flight (OnTcpRead, MakeAppRecord, doNetIO).
THEOREM LinkInvariant == Spec => []Inv
<1>1. Init => Inv
  BY InitInv
<1>2. Inv /\ [Next]_vars => Inv'
  BY NextInv
<1> QED
  BY <1>1, <1>2, PTL DEF Spec

-----------------------------------------------------------------------------
\* The positions of the two ends tell what each has of the other.
LEMMA InvAgrees == Inv => SessionsAgree
<1> SUFFICES ASSUME Inv, NEW c \in Conns, BothOpen(c)
             PROVE  LET k == clt.tls  s == srv[c].tls IN
                    /\ k.fin => s.fin /\ k.master = s.master /\ k.trust \in {AnyKey, k.cert}
                    /\ s.fin => k.wr /\ k.master = s.master /\ s.rd
                    /\ k.wr => k.wseq = (IF s.rd THEN s.rseq ELSE 0) + Ciphered(up[c])
                    /\ s.wr => s.wseq = (IF k.rd THEN k.rseq ELSE 0) + Ciphered(dn[c])
  BY DEF SessionsAgree
<1> DEFINE k == clt.tls
           s == srv[c].tls
           u == up[c]
           d == dn[c]
           su == sent.up[c]
           sd == sent.dn[c]
<1>1. PICK g \in Keys, n \in Nat, m \in Nat : Conn(c, g, n, m)
  BY DEF Inv
<1>2. /\ ClientAt(k, c, g, n) /\ ServerAt(s, c, g, m) /\ Linked(k, s, u, d, n, m, su, sd)
      /\ u \in Seq(Pieces) /\ d \in Seq(Pieces)
  BY <1>1 DEF Conn, Here, There, BothOpen, ClientView, ServerView
<1>3. su \in Seq(Parts) /\ sd \in Seq(Parts)
  <2>1. sent \in [up : Talks, dn : Talks]
    BY Types DEF Inv
  <2> QED
    BY <2>1 DEF Talks
<1> HIDE DEF k, s, u, d, su, sd
<1>4. /\ n + Len(d) = ServerTotal(m, sd) /\ m + Len(u) = ClientTotal(n, su)
      /\ k.wr => k.wseq = Beyond(m, 3) + Ciphered(u)
      /\ s.wr => s.wseq = Beyond(n, Switch) + Ciphered(d)
  BY <1>2 DEF Linked
<1>5. Len(d) \in Nat /\ Len(u) \in Nat /\ Len(su) \in Nat /\ Len(sd) \in Nat
  BY <1>2, <1>3
<1>6. n >= Switch + 1 => m >= 4
  BY <1>4, <1>5, Constants DEF ServerTotal
<1>7. m >= 4 => n >= Flight
  BY <1>4, <1>5, Constants DEF ClientTotal
<1>8. /\ k.fin <=> n >= Switch + 1
      /\ k.wr <=> n >= Flight
      /\ n >= Flight => k.master = Secret(c)
      /\ n >= 1 + CertRecords => k.cert = g /\ k.trust \in {AnyKey, g}
      /\ k.rd <=> n >= Switch
      /\ k.rseq = IF n >= Switch THEN n - Switch ELSE 0
  BY <1>2 DEF ClientAt
<1>9. /\ s.fin <=> m >= 4
      /\ s.rd <=> m >= 3
      /\ s.rseq = IF m >= 3 THEN m - 3 ELSE 0
      /\ m >= 2 => s.master = Secret(c)
  BY <1>2 DEF ServerAt
<1>10. k.fin => s.fin /\ k.master = s.master /\ k.trust \in {AnyKey, k.cert}
  <2> SUFFICES ASSUME k.fin PROVE s.fin /\ k.master = s.master /\ k.trust \in {AnyKey, k.cert}
    OBVIOUS
  <2>1. n >= Switch + 1 /\ m >= 4 /\ n >= Flight /\ n >= 1 + CertRecords /\ m >= 2
    BY <1>6, <1>8, Constants
  <2> QED
    BY <1>8, <1>9, <2>1
<1>11. s.fin => k.wr /\ k.master = s.master /\ s.rd
  <2> SUFFICES ASSUME s.fin PROVE k.wr /\ k.master = s.master /\ s.rd
    OBVIOUS
  <2>1. m >= 4 /\ n >= Flight /\ m >= 2 /\ m >= 3
    BY <1>7, <1>9
  <2> QED
    BY <1>8, <1>9, <2>1
<1>12. k.wr => k.wseq = (IF s.rd THEN s.rseq ELSE 0) + Ciphered(u)
  <2>1. Beyond(m, 3) = IF s.rd THEN s.rseq ELSE 0
    BY <1>9 DEF Beyond
  <2> QED
    BY <1>4, <2>1
<1>13. s.wr => s.wseq = (IF k.rd THEN k.rseq ELSE 0) + Ciphered(d)
  <2>1. Beyond(n, Switch) = IF k.rd THEN k.rseq ELSE 0
    BY <1>8, Constants DEF Beyond
  <2> QED
    BY <1>4, <2>1
<1> QED
  BY <1>10, <1>11, <1>12, <1>13 DEF k, s, u, d

\* A client that was told has taken the server's Finished.
LEMMA InvToldOfThis == Inv => ToldOfThis
<1> SUFFICES ASSUME Inv, clt.told
             PROVE  Connected /\ clt.tls.fin /\ clt.tls.wr /\ clt.tls.master.cr = Cur
  BY DEF ToldOfThis
<1>1. Connected /\ clt.tls.fin /\ Cur \in Conns
  BY DEF Inv, Told, Connected
<1>2. PICK g \in Keys, n \in Nat, m \in Nat : Conn(Cur, g, n, m)
  BY <1>1 DEF Inv
<1>3. ClientAt(clt.tls, Cur, g, n)
  BY <1>1, <1>2 DEF Conn, Here, ClientView
<1>4. n >= Flight
  BY <1>1, <1>3, Constants DEF ClientAt
<1>5. clt.tls.wr /\ clt.tls.master = Secret(Cur)
  BY <1>3, <1>4 DEF ClientAt
<1> QED
  BY <1>1, <1>5 DEF Secret

\* What the two ends hold of a connection agrees, whatever key pairs the server
\* has meanwhile and however TCP cuts the records (OnClientFinish,
\* OnServerFinished): no end is finished with another secret than its peer, or
\* counts other sealed records than the peer sealed.
THEOREM TlsSessionsAgree == Spec => []SessionsAgree
BY LinkInvariant, InvAgrees, PTL

\* An application told of a finished handshake has a connected client that seals,
\* with the secret of the connection there is (tls_c::ondisconnected, Reset).
THEOREM TlsToldOfThis == Spec => []ToldOfThis
BY LinkInvariant, InvToldOfThis, PTL

-----------------------------------------------------------------------------
(* The streams.                                                              *)

UpLife == [c \in Conns |-> srv[c].life]
DnLife == [c \in Conns |-> IF c > Cur \/ (c = Cur /\ clt.status = "connect") THEN "none"
                           ELSE IF c = Cur /\ Connected THEN "open" ELSE "gone"]

UpStutter == UpLife' = UpLife /\ sent'.up = sent.up /\ got'.up = got.up
DnStutter == DnLife' = DnLife /\ sent'.dn = sent.dn /\ got'.dn = got.dn

\* A direction that stutters leaves the variables of its Stream.
LEMMA Stutters ==
    /\ UpStutter => UNCHANGED Up!svars
    /\ DnStutter => UNCHANGED Dn!svars
BY DEF UpStutter, DnStutter, UpLife, DnLife, Up!svars, Dn!svars

\* t is s with more behind it at d.
Extends(t, s, d, more) == t = [s EXCEPT ![d] = s[d] \o more]

\* A sequence with more behind it is Stream's next one.
LEMMA Lengthened ==
    ASSUME NEW s \in Talks, NEW d \in Conns, NEW more \in Seq(Parts), more # <<>>,
           NEW t, Extends(t, s, d, more)
    PROVE  /\ t \in [Conns -> Seq(Parts)] /\ Len(t[d]) > Len(s[d])
           /\ s = [t EXCEPT ![d] = SubSeq(t[d], 1, Len(s[d]))]
<1> DEFINE a == s[d]
           b == a \o more
<1>1. a \in Seq(Parts) /\ Len(a) \in Nat /\ Len(more) \in Nat /\ Len(more) # 0
  BY DEF Talks
<1>2. b \in Seq(Parts) /\ Len(b) = Len(a) + Len(more) /\ \A i \in 1..Len(a) : b[i] = a[i]
  BY <1>1, MoreParts
<1>3. SubSeq(b, 1, Len(a)) = a
  <2> DEFINE x == SubSeq(b, 1, Len(a))
             L == Len(a)
  <2>1. L \in Nat /\ L <= Len(b) /\ b \in Seq(Parts)
    BY <1>1, <1>2
  <2> HIDE DEF b, L
  <2>2. x \in Seq(Parts) /\ Len(x) = L /\ \A i \in 1..L : x[i] = b[i]
    <3>1. SubSeq(b, 1, L) \in Seq(Parts) /\ Len(SubSeq(b, 1, L)) = L
          /\ \A i \in 1..L : SubSeq(b, 1, L)[i] = b[i]
      BY <2>1
    <3> QED
      BY <3>1 DEF L
  <2> HIDE DEF x
  <2>3. \A i \in 1..L : x[i] = a[i]
    BY <1>2, <2>2 DEF L
  <2>4. x = a
    BY <1>1, <2>2, <2>3, SeqEqual DEF L
  <2> QED
    BY <2>4 DEF x
<1> HIDE DEF b
<1>4. t = [s EXCEPT ![d] = b]
  BY DEF Extends, b
<1>5. t \in Talks /\ t[d] = b /\ \A c \in Conns \ {d} : t[c] = s[c]
  BY <1>2, <1>4 DEF Talks
<1>6. s = [t EXCEPT ![d] = a]
  BY <1>5 DEF Talks
<1> QED
  BY <1>1, <1>2, <1>3, <1>5, <1>6 DEF Talks

\* Stream!Send of more at d, in either direction.
LEMMA StreamSends ==
    ASSUME NEW d \in Conns, NEW more \in Seq(Parts), more # <<>>, TypeOK
    PROVE  /\ UpLife' = UpLife /\ got'.up = got.up /\ Extends(sent'.up, sent.up, d, more) => Up!Next
           /\ DnLife' = DnLife /\ got'.dn = got.dn /\ Extends(sent'.dn, sent.dn, d, more) => Dn!Next
<1>1. sent.up \in Talks /\ sent.dn \in Talks
  BY Types
<1>2. ASSUME UpLife' = UpLife, got'.up = got.up, Extends(sent'.up, sent.up, d, more) PROVE Up!Next
  <2>1. /\ sent'.up \in [Conns -> Seq(Parts)] /\ Len(sent'.up[d]) > Len(sent.up[d])
        /\ sent.up = [sent'.up EXCEPT ![d] = SubSeq(sent'.up[d], 1, Len(sent.up[d]))]
    BY <1>1, <1>2, Lengthened
  <2>2. Up!Send(d)
    BY <1>2, <2>1 DEF Up!Send, UpLife
  <2> QED
    BY <2>2 DEF Up!Next
<1>3. ASSUME DnLife' = DnLife, got'.dn = got.dn, Extends(sent'.dn, sent.dn, d, more) PROVE Dn!Next
  <2>1. /\ sent'.dn \in [Conns -> Seq(Parts)] /\ Len(sent'.dn[d]) > Len(sent.dn[d])
        /\ sent.dn = [sent'.dn EXCEPT ![d] = SubSeq(sent'.dn[d], 1, Len(sent.dn[d]))]
    BY <1>1, <1>3, Lengthened
  <2>2. Dn!Send(d)
    BY <1>3, <2>1 DEF Dn!Send, DnLife
  <2> QED
    BY <2>2 DEF Dn!Next
<1> QED
  BY <1>2, <1>3

\* What the application of a connection d is given next: b messages in all.
LEMMA StreamDelivers ==
    ASSUME NEW d \in Conns, NEW more, NEW b
    PROVE  /\ /\ UpLife' = UpLife /\ UpLife[d] = "open" /\ sent'.up = sent.up
              /\ Extends(got'.up, got.up, d, more) /\ ComesNext(more, sent.up[d], got.up[d], b)
              => Up!Next
           /\ /\ DnLife' = DnLife /\ DnLife[d] = "open" /\ sent'.dn = sent.dn
              /\ Extends(got'.dn, got.dn, d, more) /\ ComesNext(more, sent.dn[d], got.dn[d], b)
              => Dn!Next
<1>1. ASSUME UpLife' = UpLife, UpLife[d] = "open", sent'.up = sent.up,
             Extends(got'.up, got.up, d, more), ComesNext(more, sent.up[d], got.up[d], b)
      PROVE  Up!Next
  <2>1. /\ b \in Len(got.up[d]) + 1..Len(sent.up[d])
        /\ got'.up = [got.up EXCEPT ![d] = got.up[d] \o SubSeq(sent.up[d], Len(got.up[d]) + 1, b)]
    BY <1>1 DEF Extends, ComesNext
  <2>2. Up!Deliver(d)
    BY <1>1, <2>1 DEF Up!Deliver, UpLife
  <2> QED
    BY <2>2 DEF Up!Next
<1>2. ASSUME DnLife' = DnLife, DnLife[d] = "open", sent'.dn = sent.dn,
             Extends(got'.dn, got.dn, d, more), ComesNext(more, sent.dn[d], got.dn[d], b)
      PROVE  Dn!Next
  <2>1. /\ b \in Len(got.dn[d]) + 1..Len(sent.dn[d])
        /\ got'.dn = [got.dn EXCEPT ![d] = got.dn[d] \o SubSeq(sent.dn[d], Len(got.dn[d]) + 1, b)]
    BY <1>2 DEF Extends, ComesNext
  <2>2. Dn!Deliver(d)
    BY <1>2, <2>1 DEF Dn!Deliver, DnLife
  <2> QED
    BY <2>2 DEF Dn!Next
<1> QED
  BY <1>1, <1>2

\* Stream!Open and Stream!Close of d, in either direction.
LEMMA StreamOpens ==
    ASSUME NEW d \in Conns
    PROVE  /\ /\ sent'.up = sent.up /\ got'.up = got.up
              /\ \/ UpLife[d] = "none" /\ UpLife' = [UpLife EXCEPT ![d] = "open"]
                 \/ UpLife[d] # "gone" /\ UpLife' = [UpLife EXCEPT ![d] = "gone"]
              => Up!Next
           /\ /\ sent'.dn = sent.dn /\ got'.dn = got.dn
              /\ \/ DnLife[d] = "none" /\ DnLife' = [DnLife EXCEPT ![d] = "open"]
                 \/ DnLife[d] # "gone" /\ DnLife' = [DnLife EXCEPT ![d] = "gone"]
              => Dn!Next
<1>1. ASSUME sent'.up = sent.up, got'.up = got.up,
             \/ UpLife[d] = "none" /\ UpLife' = [UpLife EXCEPT ![d] = "open"]
             \/ UpLife[d] # "gone" /\ UpLife' = [UpLife EXCEPT ![d] = "gone"]
      PROVE  Up!Next
  <2>1. Up!Open(d) \/ Up!Close(d)
    BY <1>1 DEF Up!Open, Up!Close, UpLife
  <2> QED
    BY <2>1 DEF Up!Next
<1>2. ASSUME sent'.dn = sent.dn, got'.dn = got.dn,
             \/ DnLife[d] = "none" /\ DnLife' = [DnLife EXCEPT ![d] = "open"]
             \/ DnLife[d] # "gone" /\ DnLife' = [DnLife EXCEPT ![d] = "gone"]
      PROVE  Dn!Next
  <2>1. Dn!Open(d) \/ Dn!Close(d)
    BY <1>2 DEF Dn!Open, Dn!Close, DnLife
  <2> QED
    BY <2>1 DEF Dn!Next
<1> QED
  BY <1>1, <1>2

\* How the steps of the two ends move the lives of the streams.
LEMMA Lives ==
    ASSUME Inv
    PROVE  /\ clt'.conn = Cur /\ clt'.status = clt.status => DnLife' = DnLife
           /\ \A d \in Conns : d = Cur /\ Connected => DnLife[d] = "open"
           /\ \A d \in Conns : d = Cur /\ Connected /\ clt'.conn = d /\ clt'.status = "invalid"
                 => DnLife' = [DnLife EXCEPT ![d] = "gone"]
           /\ \A d \in Conns : d = Cur /\ clt.status = "connect" /\ clt'.conn = d
                 => /\ DnLife[d] = "none"
                    /\ clt'.status = "connected" => DnLife' = [DnLife EXCEPT ![d] = "open"]
                    /\ clt'.status = "invalid" => DnLife' = [DnLife EXCEPT ![d] = "gone"]
<1>1. ASSUME clt'.conn = Cur, clt'.status = clt.status PROVE DnLife' = DnLife
  BY <1>1 DEF DnLife, Cur, Connected
<1>2. ASSUME NEW d \in Conns, d = Cur PROVE ~(d > Cur)
  BY <1>2 DEF Conns
<1>3. ASSUME NEW d \in Conns, d = Cur, Connected PROVE DnLife[d] = "open"
  BY <1>2, <1>3 DEF DnLife, Connected
<1>4. ASSUME NEW d \in Conns, d = Cur, clt'.conn = d, clt.status # "invalid"
      PROVE  /\ clt'.status = "invalid" => DnLife' = [DnLife EXCEPT ![d] = "gone"]
             /\ clt'.status = "connected" => DnLife' = [DnLife EXCEPT ![d] = "open"]
  <2>1. Cur' = d /\ (Connected' <=> clt'.status = "connected")
    BY <1>4 DEF Cur, Connected
  <2>2. ASSUME NEW c \in Conns, c # d PROVE DnLife'[c] = DnLife[c]
    BY <1>4, <2>1, <2>2 DEF DnLife
  <2>3. ~(d > d)
    BY DEF Conns
  <2>4. /\ clt'.status = "invalid" => DnLife'[d] = "gone"
        /\ clt'.status = "connected" => DnLife'[d] = "open"
    BY <2>1, <2>3 DEF DnLife
  <2>5. DnLife = [c \in Conns |-> DnLife[c]] /\ DnLife' = [c \in Conns |-> DnLife'[c]]
    BY DEF DnLife
  <2> QED
    BY <2>2, <2>4, <2>5
<1>5. ASSUME NEW d \in Conns, d = Cur, clt.status = "connect" PROVE DnLife[d] = "none"
  BY <1>5 DEF DnLife
<1> QED
  BY <1>1, <1>3, <1>4, <1>5 DEF Connected

\* A client that leaves ends the stream it is given.
LEMMA LeavesLife ==
    ASSUME Inv, NEW d \in Conns, d = Cur, Connected, NEW k, k.conn = d, k \in Clients,
           NEW w, Leaves(k, w)
    PROVE  DnLife[d] # "gone" /\ DnLife' = [DnLife EXCEPT ![d] = "gone"]
<1>1. clt' = [k EXCEPT !.status = "invalid", !.told = FALSE]
  BY DEF Leaves, Closed
<1>2. clt'.conn = d /\ clt'.status = "invalid"
  BY <1>1 DEF Clients
<1> QED
  BY <1>2, Lives

\* A server that closes ends the stream it is given.
LEMMA CloseServerLife ==
    ASSUME Inv, NEW d \in Conns, CloseServer(d)
    PROVE  UpLife[d] # "gone" /\ UpLife' = [UpLife EXCEPT ![d] = "gone"]
<1> DEFINE gone == [NoServer EXCEPT !.life = "gone"]
<1>1. srv[d].life = "open" /\ srv' = [srv EXCEPT ![d] = gone]
  BY DEF CloseServer
<1>2. gone.life = "gone"
  BY DEF NoServer
<1> HIDE DEF gone
<1>3. srv \in [Conns -> Servers]
  BY Types DEF Inv
<1> QED
  BY <1>1, <1>2, <1>3 DEF UpLife

\* What the client's application is given when it is.
ClientGot(d, a, b) ==
    /\ clt'.conn = Cur /\ clt'.status = clt.status
    /\ Extends(got'.dn, got.dn, d, Bodies(a.out)) /\ got'.up = got.up
    /\ ComesNext(Bodies(a.out), sent.dn[d], got.dn[d], b)

\* What a read of the client is for the two streams.
LEMMA ClientReadGives ==
    ASSUME Inv, ClientRead, NEW d \in Conns, d = Cur
    PROVE  /\ Connected /\ srv' = srv /\ sent' = sent
           /\ \/ \E a, b : ClientGot(d, a, b)
              \/ got' = got /\ clt'.conn = Cur /\ clt'.status = clt.status
              \/ got' = got /\ \E k \in Clients : k.conn = d /\ \E w : Leaves(k, w)
<1> DEFINE Does(b, left) ==
              \/ b.res \in {"NONE", "HKOK"} /\ SendBytes(HasRead(clt, b), b.out, left) /\ got' = got
              \/ /\ b.res = "APPDATA"
                 /\ clt' = HasRead(clt, b)
                 /\ dn' = [dn EXCEPT ![Cur] = left] /\ up' = up
                 /\ got' = [got EXCEPT !.dn[Cur] = @ \o Bodies(b.out)]
              \/ b.res = "ERR" /\ Leaves(HasRead(clt, b), up[Cur] \o OnWire(b.out)) /\ got' = got
<1>1. Connected /\ srv' = srv /\ sent' = sent
  BY DEF ClientRead
<1>2. \E r \in Reads(dn[Cur]) : \E b \in OnTcpRead(clt.tls, r.data, ca, Cur) : Does(b, r.left)
  BY Zenon DEF ClientRead, HasRead
<1>3. PICK r \in Reads(dn[d]) : \E b \in OnTcpRead(clt.tls, r.data, ca, d) : Does(b, r.left)
  <2> HIDE DEF Does
  <2> QED
    BY <1>2
<1>4. PICK a \in OnTcpRead(clt.tls, r.data, ca, d) : Does(a, r.left)
  BY <1>3
<1> DEFINE k == HasRead(clt, a)
<1>5. PICK g \in Keys, n \in Nat, m \in Nat : Conn(d, g, n, m)
  BY DEF Inv
<1>6. /\ clt \in Clients /\ sent \in [up : Talks, dn : Talks] /\ got \in [up : Talks, dn : Talks]
  BY Types DEF Inv
<1>7. sent.dn[d] \in Seq(Parts) /\ got.dn[d] \in Seq(Parts)
  BY <1>6 DEF Talks
<1>8. ClientView(clt.tls, dn[d], d, g, n, sent.dn[d], got.dn[d])
  BY <1>1, <1>5 DEF Conn, Here
<1>9. ASSUME a.s \in Sessions PROVE k \in Clients /\ k.conn = Cur /\ k.status = clt.status
  <2> DEFINE told == clt.told \/ a.res = "HKOK"
  <2>1. k = [clt EXCEPT !.tls = a.s, !.told = told] /\ told \in BOOLEAN
    BY <1>6 DEF Clients, HasRead
  <2> HIDE DEF told, k
  <2> QED
    BY <1>6, <1>9, <2>1 DEF Clients, Cur
<1>10. \/ ClientQuit(a, n, dn[d])
       \/ \E i \in 0..Len(dn[d]) : /\ ClientRun(a, clt.tls, d, g, n, i, dn[d], sent.dn[d])
                                   /\ Rest(a.s.tcp, dn[d], r.left, i)
  BY <1>5, <1>8, ClientReads
<1>11. k \in Clients /\ k.conn = Cur /\ k.status = clt.status
  <2>1. a.s \in Sessions
    BY <1>10 DEF ClientQuit, ClientRun, Steps
  <2> QED
    BY <1>9, <2>1
<1>12. CASE a.res = "APPDATA"
  <2>1. PICK i \in 0..Len(dn[d]) : ClientRun(a, clt.tls, d, g, n, i, dn[d], sent.dn[d])
    BY <1>10, <1>12 DEF ClientQuit
  <2> DEFINE more == Bodies(a.out)
             now == got.dn[d] \o more
  <2>2. ComesNext(more, sent.dn[d], got.dn[d], Beyond(n + i, Switch + 1))
    BY <1>7, <1>8, <1>12, <2>1, ClientGiven
  <2>3. clt' = k /\ got' = [got EXCEPT !.dn[Cur] = now]
    BY <1>4, <1>12
  <2>4. got'.up = got.up /\ got'.dn = [got.dn EXCEPT ![d] = now]
    <3> HIDE DEF now
    <3> QED
      BY <1>6, <2>3
  <2>5. ClientGot(d, a, Beyond(n + i, Switch + 1))
    BY <1>11, <2>2, <2>3, <2>4 DEF ClientGot, Extends
  <2> QED
    BY <1>1, <2>5
<1>13. CASE a.res # "APPDATA"
  <2> DEFINE w == up[d]
             x == up[Cur] \o OnWire(a.out)
  <2>1. got' = got /\ (clt' = k \/ Leaves(k, w) \/ Leaves(k, x))
    BY <1>4, <1>13 DEF SendBytes
  <2> HIDE DEF k, w, x
  <2> QED
    BY <1>1, <1>11, <2>1
<1> QED
  BY <1>12, <1>13

\* What the server's application is given when it is.
ServerGot(d, a, b) ==
    /\ Extends(got'.up, got.up, d, Bodies(a.out)) /\ got'.dn = got.dn
    /\ ComesNext(Bodies(a.out), sent.up[d], got.up[d], b)

\* What a read of the server is for the two streams.
LEMMA ServerReadGives ==
    ASSUME Inv, NEW d \in Conns, ServerRead(d)
    PROVE  /\ clt' = clt /\ sent' = sent /\ UpLife[d] = "open"
           /\ \/ UpLife' = UpLife /\ \E a, b : ServerGot(d, a, b)
              \/ UpLife' = UpLife /\ got' = got
              \/ CloseServer(d) /\ got' = got
<1> DEFINE Does(b, left) ==
              \/ /\ b.res # "ERR"
                 /\ srv' = [srv EXCEPT ![d].tls = b.s]
                 /\ up' = [up EXCEPT ![d] = left]
                 /\ \/ /\ b.res \in {"NONE", "HKOK"}
                       /\ dn' = [dn EXCEPT ![d] = Wire(@ \o OnWire(b.out), ClientThere(d))]
                       /\ got' = got
                    \/ /\ b.res = "APPDATA"
                       /\ got' = [got EXCEPT !.up[d] = @ \o Bodies(b.out)]
                       /\ dn' = dn
              \/ b.res = "ERR" /\ CloseServer(d) /\ got' = got
<1>1. There(d) /\ clt' = clt /\ sent' = sent /\ UpLife[d] = "open"
  BY DEF ServerRead, There, UpLife
<1>2. TypeOK /\ Placed(d)
  BY DEF Inv
<1>3. PICK r \in Reads(up[d]) : \E b \in OnTcpRead(srv[d].tls, r.data, ca, d) : Does(b, r.left)
  BY Zenon DEF ServerRead
<1>4. PICK a \in OnTcpRead(srv[d].tls, r.data, ca, d) : Does(a, r.left)
  BY <1>3
<1>5. /\ srv \in [Conns -> Servers] /\ up \in Wires
      /\ sent \in [up : Talks, dn : Talks] /\ got \in [up : Talks, dn : Talks]
  BY <1>2, Types
<1>6. /\ up[d] \in Seq(Pieces) /\ sent.up[d] \in Seq(Parts) /\ got.up[d] \in Seq(Parts)
  BY <1>5 DEF Wires, Talks
<1>7. net[d] = "up"
  <2>1. up[d] # <<>>
    BY <1>4, <1>6, NoRecords
  <2> QED
    BY <1>1, <1>2, <2>1 DEF Placed
<1>8. PICK g \in Keys, n \in Nat, m \in Nat : Conn(d, g, n, m) /\ (m = 0 => g = ca)
  BY <1>1, <1>7, KeyToBe
<1>9. ServerView(srv[d].tls, up[d], d, g, m, sent.up[d], got.up[d])
  BY <1>1, <1>8 DEF Conn
<1>10. \/ a.res = "ERR"
       \/ \E i \in 0..Len(up[d]) : /\ ServerRun(a, srv[d].tls, d, g, m, i, up[d], sent.up[d])
                                   /\ Rest(a.s.tcp, up[d], r.left, i)
  BY <1>8, <1>9, ServerReads
<1>11. CASE a.res = "ERR"
  BY <1>1, <1>4, <1>11
<1>12. ASSUME a.res # "ERR" PROVE UpLife' = UpLife
  <2>1. srv' = [srv EXCEPT ![d].tls = a.s]
    BY <1>4, <1>12
  <2>2. \A c \in Conns : srv'[c].life = srv[c].life
    BY <1>5, <2>1 DEF Servers
  <2> QED
    BY <2>2 DEF UpLife
<1>13. CASE a.res = "APPDATA"
  <2>1. PICK i \in 0..Len(up[d]) : ServerRun(a, srv[d].tls, d, g, m, i, up[d], sent.up[d])
    BY <1>10, <1>13
  <2> DEFINE more == Bodies(a.out)
             now == got.up[d] \o more
  <2>2. ComesNext(more, sent.up[d], got.up[d], Beyond(m + i, 4))
    BY <1>6, <1>9, <1>13, <2>1, ServerGiven
  <2>3. got' = [got EXCEPT !.up[d] = now]
    BY <1>4, <1>13
  <2>4. got'.dn = got.dn /\ got'.up = [got.up EXCEPT ![d] = now]
    <3> HIDE DEF now
    <3> QED
      BY <1>5, <2>3
  <2>5. ServerGot(d, a, Beyond(m + i, 4))
    BY <2>2, <2>4 DEF ServerGot, Extends
  <2> QED
    BY <1>1, <1>12, <1>13, <2>5
<1>14. CASE a.res \notin {"ERR", "APPDATA"}
  BY <1>1, <1>4, <1>12, <1>14
<1> QED
  BY <1>11, <1>13, <1>14

\* A message has a part.
LEMMA MessageIsSome ==
    ASSUME NEW n \in Nat, NEW size \in Nat \ {0}
    PROVE  Message(n, size) # <<>>
<1>1. Len(Message(n, size)) = size
  BY DEF Message
<1> DEFINE m == Message(n, size)
<1> HIDE DEF m
<1>2. ASSUME m = <<>> PROVE FALSE
  <2>1. Len(m) = 0
    BY <1>2
  <2> QED
    BY <1>1, <2>1 DEF m
<1> QED
  BY <1>2 DEF m

\* What a message of the client is for the two streams.
LEMMA ClientSendGives ==
    ASSUME Inv, ClientSend, NEW d \in Conns, d = Cur
    PROVE  /\ Connected /\ srv' = srv /\ got' = got /\ sent'.dn = sent.dn
           /\ \E more \in Seq(Parts) : more # <<>> /\ Extends(sent'.up, sent.up, d, more)
           /\ \/ clt'.conn = Cur /\ clt'.status = clt.status
              \/ \E k \in Clients : k.conn = d /\ \E w : Leaves(k, w)
<1> DEFINE With(a) == [clt EXCEPT !.tls = a.s]
           Does(m, a) ==
              /\ sent' = [sent EXCEPT !.up[Cur] = @ \o m]
              /\ SendBytes(With(a), a.out, dn[Cur])
<1>1. Connected /\ clt.told /\ srv' = srv /\ got' = got
  BY DEF ClientSend
<1>2. TypeOK /\ Told
  BY DEF Inv
<1>3. PICK size \in Sizes, first \in Firsts :
         Does(Message(Count("up") + 1, size),
              MakeAppRecord(clt.tls, Message(Count("up") + 1, size), first))
  BY Zenon DEF ClientSend
<1> DEFINE more == Message(Count("up") + 1, size)
           a == MakeAppRecord(clt.tls, more, first)
<1>4. more \in Seq(Parts) /\ more # <<>> /\ first \in BOOLEAN
  <2>1. Count("up") + 1 \in Nat /\ size \in Nat \ {0}
    BY <1>2, CountIsNat, LinkAssumption
  <2> QED
    BY <2>1, MessageIs, MessageIsSome, LinkAssumption
<1>5. sent' = [sent EXCEPT !.up[Cur] = @ \o more] /\ SendBytes(With(a), a.out, dn[Cur])
  BY <1>3
<1>6. PICK g \in Keys, n \in Nat, m \in Nat : Conn(d, g, n, m)
  BY DEF Inv
<1>7. clt \in Clients /\ sent \in [up : Talks, dn : Talks]
  BY <1>2, Types
<1>8. ClientView(clt.tls, dn[d], d, g, n, sent.dn[d], got.dn[d])
  BY <1>1, <1>6 DEF Conn, Here
<1>9. clt.tls \in Sessions /\ clt.tls.fin /\ clt.tls.wr
  BY <1>1, <1>2, <1>8, Constants DEF Told, ClientView, ClientAt
<1> HIDE DEF more
<1>10. Apart(a.s, clt.tls, {"wseq"})
  BY <1>4, <1>9, AppRecords
<1> HIDE DEF a
<1> DEFINE k == With(a)
           w == up[Cur]
           msgs == sent.up[Cur] \o more
<1>11. k \in Clients /\ k.conn = Cur /\ k.status = clt.status
  BY <1>7, <1>10 DEF Clients, Cur, Apart
<1> HIDE DEF With
<1>12. clt' = k \/ Leaves(k, w)
  BY <1>5 DEF SendBytes
<1>13. Extends(sent'.up, sent.up, d, more) /\ sent'.dn = sent.dn
  <2>1. sent' = [sent EXCEPT !.up[Cur] = msgs]
    BY <1>5
  <2>2. sent'.up = [sent.up EXCEPT ![d] = msgs] /\ sent'.dn = sent.dn
    <3> HIDE DEF msgs
    <3> QED
      BY <1>7, <2>1
  <2> QED
    BY <2>2 DEF Extends
<1> HIDE DEF k, w
<1> QED
  BY <1>1, <1>4, <1>11, <1>12, <1>13

\* What a message of the server is for the two streams.
LEMMA ServerSendGives ==
    ASSUME Inv, NEW d \in Conns, ServerSend(d)
    PROVE  /\ clt' = clt /\ UpLife' = UpLife /\ got' = got /\ sent'.up = sent.up
           /\ \E more \in Seq(Parts) : more # <<>> /\ Extends(sent'.dn, sent.dn, d, more)
<1> DEFINE Does(m, a) ==
              /\ srv' = [srv EXCEPT ![d].tls = a.s]
              /\ sent' = [sent EXCEPT !.dn[d] = @ \o m]
<1>1. clt' = clt /\ got' = got
  BY DEF ServerSend
<1>2. /\ TypeOK /\ srv \in [Conns -> Servers] /\ sent \in [up : Talks, dn : Talks]
  BY Types DEF Inv
<1>3. PICK size \in Sizes, first \in Firsts :
         Does(Message(Count("dn") + 1, size),
              MakeAppRecord(srv[d].tls, Message(Count("dn") + 1, size), first))
  BY Zenon DEF ServerSend
<1> DEFINE more == Message(Count("dn") + 1, size)
           a == MakeAppRecord(srv[d].tls, more, first)
           msgs == sent.dn[d] \o more
<1>4. more \in Seq(Parts) /\ more # <<>>
  <2>1. Count("dn") + 1 \in Nat /\ size \in Nat \ {0}
    BY <1>2, CountIsNat, LinkAssumption
  <2> QED
    BY <2>1, MessageIs, MessageIsSome
<1> HIDE DEF more
<1>5. srv' = [srv EXCEPT ![d].tls = a.s] /\ sent' = [sent EXCEPT !.dn[d] = msgs]
  BY <1>3 DEF more
<1> HIDE DEF a
<1>6. \A c \in Conns : srv'[c].life = srv[c].life
  BY <1>2, <1>5 DEF Servers
<1>7. Extends(sent'.dn, sent.dn, d, more) /\ sent'.up = sent.up
  <2>1. sent'.dn = [sent.dn EXCEPT ![d] = msgs] /\ sent'.up = sent.up
    <3> HIDE DEF msgs
    <3> QED
      BY <1>2, <1>5
  <2> QED
    BY <2>1 DEF Extends
<1> QED
  BY <1>1, <1>4, <1>6, <1>7 DEF UpLife

\* A step of the connections is one of each direction's stream, or none of it.
Streams == (UpStutter \/ Up!Next) /\ (DnStutter \/ Dn!Next)

\* The stream to the servers lives as they do.
LEMMA UpStays == ASSUME srv' = srv PROVE UpLife' = UpLife
BY DEF UpLife

\* The stream to the client lives as it does.
LEMMA DnStays == ASSUME clt' = clt PROVE DnLife' = DnLife
BY DEF DnLife, Cur, Connected

\* More is sent to a server.
LEMMA SomeUpNext ==
    ASSUME Inv, NEW d \in Conns, UpLife' = UpLife, got'.up = got.up,
           \E more \in Seq(Parts) : more # <<>> /\ Extends(sent'.up, sent.up, d, more)
    PROVE  Up!Next
<1>1. PICK more \in Seq(Parts) : more # <<>> /\ Extends(sent'.up, sent.up, d, more)
  OBVIOUS
<1>2. TypeOK
  BY DEF Inv
<1> QED
  BY <1>1, <1>2, StreamSends

\* More is sent to the client.
LEMMA SomeDnNext ==
    ASSUME Inv, NEW d \in Conns, DnLife' = DnLife, got'.dn = got.dn,
           \E more \in Seq(Parts) : more # <<>> /\ Extends(sent'.dn, sent.dn, d, more)
    PROVE  Dn!Next
<1>1. PICK more \in Seq(Parts) : more # <<>> /\ Extends(sent'.dn, sent.dn, d, more)
  OBVIOUS
<1>2. TypeOK
  BY DEF Inv
<1> QED
  BY <1>1, <1>2, StreamSends

\* A client that leaves, or does not.
LEMMA ClientDn ==
    ASSUME Inv, NEW d \in Conns, d = Cur, Connected, sent'.dn = sent.dn, got'.dn = got.dn,
           \/ clt'.conn = Cur /\ clt'.status = clt.status
           \/ \E k \in Clients : k.conn = d /\ \E w : Leaves(k, w)
    PROVE  DnStutter \/ Dn!Next
<1>1. CASE clt'.conn = Cur /\ clt'.status = clt.status
  BY <1>1, Lives DEF DnStutter
<1>2. CASE \E k \in Clients : k.conn = d /\ \E w : Leaves(k, w)
  <2>1. PICK k \in Clients : k.conn = d /\ \E w : Leaves(k, w)
    BY <1>2
  <2>a. PICK w : Leaves(k, w)
    BY <2>1
  <2>2. DnLife[d] # "gone" /\ DnLife' = [DnLife EXCEPT ![d] = "gone"]
    BY <2>1, <2>a, LeavesLife
  <2> QED
    BY <2>2, StreamOpens
<1> QED
  BY <1>1, <1>2

\* Open moves neither stream: a connection that is begun is not open yet.
LEMMA OpenStreams == ASSUME Inv, Open PROVE Streams
<1>1. /\ clt.status = "invalid" /\ Cur < MaxConns
      /\ clt' = [clt EXCEPT !.status = "connect", !.conn = Cur + 1]
      /\ srv' = srv /\ sent' = sent /\ got' = got
  BY DEF Open
<1>2. clt \in Clients /\ Cur \in 0..MaxConns /\ MaxConns \in Nat
  BY Types, LinkAssumption DEF Inv, Clients, Cur
<1>3. Cur' = Cur + 1 /\ clt'.status = "connect" /\ ~Connected' /\ ~Connected
  BY <1>1, <1>2 DEF Clients, Cur, Connected
<1>4. ASSUME NEW c \in Conns PROVE DnLife'[c] = DnLife[c]
  <2>1. c \in Nat
    BY DEF Conns
  <2>2. DnLife[c] = IF c > Cur THEN "none" ELSE "gone"
    BY <1>1, <1>3 DEF DnLife
  <2>3. DnLife'[c] = IF c > Cur' \/ c = Cur' THEN "none" ELSE "gone"
    BY <1>3 DEF DnLife
  <2> QED
    BY <1>2, <1>3, <2>1, <2>2, <2>3
<1>5. DnLife' = DnLife
  BY <1>4 DEF DnLife
<1> QED
  BY <1>1, <1>5, UpStays DEF Streams, UpStutter, DnStutter

\* Stream!Open of the client's end, or Close of one refused.
LEMMA DoConnectStreams == ASSUME Inv, DoConnect PROVE Streams
<1>1. PICK d \in Conns : d = Cur
  BY DEF Inv, Told, DoConnect
<1>2. /\ clt.status = "connect" /\ srv' = srv /\ sent' = sent /\ got' = got
      /\ OnConnected(d) \/ clt' = [clt EXCEPT !.status = "invalid"]
  BY <1>1 DEF DoConnect
<1>3. clt \in Clients
  BY Types DEF Inv
<1>4. clt'.conn = d /\ clt'.status \in {"connected", "invalid"}
  <2>1. ASSUME OnConnected(d) PROVE clt'.conn = d /\ clt'.status = "connected"
    <3>1. PICK s : clt' = [clt EXCEPT !.status = "connected", !.conn = d, !.tls = s]
      BY <2>1 DEF OnConnected
    <3> QED
      BY <1>3, <3>1 DEF Clients
  <2>2. ASSUME clt' = [clt EXCEPT !.status = "invalid"]
        PROVE  clt'.conn = d /\ clt'.status = "invalid"
    BY <1>1, <1>3, <2>2 DEF Clients, Cur
  <2> QED
    BY <1>2, <2>1, <2>2
<1>5. /\ DnLife[d] = "none"
      /\ DnLife' = [DnLife EXCEPT ![d] = "open"] \/ DnLife' = [DnLife EXCEPT ![d] = "gone"]
  BY <1>1, <1>2, <1>4, Lives
<1>6. DnLife[d] # "gone"
  BY <1>5
<1>7. sent'.dn = sent.dn /\ got'.dn = got.dn /\ UpStutter
  BY <1>2, UpStays DEF UpStutter
<1> QED
  BY <1>5, <1>6, <1>7, StreamOpens DEF Streams

\* Stream!Deliver to the client, Close, or nothing.
LEMMA ClientReadStreams == ASSUME Inv, ClientRead PROVE Streams
<1>1. PICK d \in Conns : d = Cur
  BY DEF Inv, Told, ClientRead, Connected
<1>2. Connected /\ srv' = srv /\ sent' = sent
  BY <1>1, ClientReadGives
<1>3. CASE \E a, b : ClientGot(d, a, b)
  <2>1. PICK a, b : ClientGot(d, a, b)
    BY <1>3
  <2>2. DnLife' = DnLife /\ DnLife[d] = "open"
    BY <1>1, <1>2, <2>1, Lives DEF ClientGot
  <2>3. Dn!Next
    BY <1>2, <2>1, <2>2, StreamDelivers DEF ClientGot
  <2>4. UpStutter
    BY <1>2, <2>1, UpStays DEF UpStutter, ClientGot
  <2> QED
    BY <2>3, <2>4 DEF Streams
<1>4. ASSUME got' = got,
             \/ clt'.conn = Cur /\ clt'.status = clt.status
             \/ \E k \in Clients : k.conn = d /\ \E w : Leaves(k, w)
      PROVE  Streams
  <2>1. DnStutter \/ Dn!Next
    <3>1. sent'.dn = sent.dn /\ got'.dn = got.dn
      BY <1>2, <1>4
    <3> QED
      BY <1>1, <1>2, <1>4, <3>1, ClientDn
  <2> QED
    BY <1>2, <1>4, <2>1, UpStays DEF Streams, UpStutter
<1> QED
  BY <1>1, <1>3, <1>4, ClientReadGives

\* Stream!Close of the client's end.
LEMMA CloseClientStreams == ASSUME Inv, CloseClient PROVE Streams
<1>1. PICK d \in Conns : d = Cur
  BY DEF Inv, Told, CloseClient, Connected
<1>2. Connected /\ Leaves(clt, up[Cur]) /\ srv' = srv /\ sent' = sent /\ got' = got
  BY DEF CloseClient
<1>3. clt \in Clients /\ clt.conn = d
  BY <1>1, Types DEF Inv, Cur
<1>4. DnStutter \/ Dn!Next
  <2>1. sent'.dn = sent.dn /\ got'.dn = got.dn
    BY <1>2
  <2> QED
    BY <1>1, <1>2, <1>3, <2>1, ClientDn
<1> QED
  BY <1>2, <1>4, UpStays DEF Streams, UpStutter

\* Stream!Send to the server, with Close of the client's end when the buffer is full.
LEMMA ClientSendStreams == ASSUME Inv, ClientSend PROVE Streams
<1>1. PICK d \in Conns : d = Cur
  BY DEF Inv, Told, ClientSend, Connected
<1>2. /\ Connected /\ srv' = srv /\ got' = got /\ sent'.dn = sent.dn
      /\ \E more \in Seq(Parts) : more # <<>> /\ Extends(sent'.up, sent.up, d, more)
      /\ \/ clt'.conn = Cur /\ clt'.status = clt.status
         \/ \E k \in Clients : k.conn = d /\ \E w : Leaves(k, w)
  BY <1>1, ClientSendGives
<1>3. Up!Next
  <2>1. UpLife' = UpLife /\ got'.up = got.up
    BY <1>2, UpStays
  <2> QED
    BY <1>2, <2>1, SomeUpNext
<1>4. DnStutter \/ Dn!Next
  <2>1. got'.dn = got.dn
    BY <1>2
  <2> QED
    BY <1>1, <1>2, <2>1, ClientDn
<1> QED
  BY <1>3, <1>4 DEF Streams

\* Stream!Open of the server's end.
LEMMA AcceptStreams == ASSUME Inv, NEW d \in Conns, Accept(d) PROVE Streams
<1>1. /\ net[d] = "syn" /\ srv' = [srv EXCEPT ![d].life = "open"]
      /\ clt' = clt /\ sent' = sent /\ got' = got
  BY DEF Accept
<1>2. srv \in [Conns -> Servers] /\ srv[d] = NoServer
  <2>1. Placed(d)
    BY DEF Inv
  <2> QED
    BY <1>1, <2>1, Types DEF Inv, Placed
<1>3. /\ srv'[d].life = "open" /\ srv[d].life = "none"
      /\ \A c \in Conns \ {d} : srv'[c] = srv[c]
  BY <1>1, <1>2 DEF NoServer
<1>4. UpLife[d] = "none" /\ UpLife' = [UpLife EXCEPT ![d] = "open"]
  BY <1>3 DEF UpLife
<1>5. Up!Next
  <2>1. sent'.up = sent.up /\ got'.up = got.up
    BY <1>1
  <2> QED
    BY <1>4, <2>1, StreamOpens
<1> QED
  BY <1>1, <1>5, DnStays DEF Streams, DnStutter

\* Stream!Close of the server's end.
LEMMA ServerCloseStreams ==
    ASSUME Inv, NEW d \in Conns, CloseServer(d), clt' = clt, sent' = sent, got' = got
    PROVE  Streams
<1>1. sent'.up = sent.up /\ got'.up = got.up
  OBVIOUS
<1>2. Up!Next
  BY <1>1, CloseServerLife, StreamOpens
<1> QED
  BY <1>2, DnStays DEF Streams, DnStutter

\* Stream!Deliver to the server, Close, or nothing.
LEMMA ServerReadStreams == ASSUME Inv, NEW d \in Conns, ServerRead(d) PROVE Streams
<1>1. clt' = clt /\ sent' = sent /\ UpLife[d] = "open"
  BY ServerReadGives
<1>2. CASE UpLife' = UpLife /\ \E a, b : ServerGot(d, a, b)
  <2>1. PICK a, b : ServerGot(d, a, b)
    BY <1>2
  <2>2. sent'.up = sent.up /\ sent'.dn = sent.dn
    BY <1>1
  <2>3. Up!Next
    BY <1>1, <1>2, <2>1, <2>2, StreamDelivers DEF ServerGot
  <2> QED
    BY <1>1, <2>1, <2>2, <2>3, DnStays DEF Streams, DnStutter, ServerGot
<1>3. CASE UpLife' = UpLife /\ got' = got
  BY <1>1, <1>3, DnStays DEF Streams, UpStutter, DnStutter
<1>4. CASE CloseServer(d) /\ got' = got
  BY <1>1, <1>4, ServerCloseStreams
<1> QED
  BY <1>2, <1>3, <1>4, ServerReadGives

\* Stream!Send to the client.
LEMMA ServerSendStreams == ASSUME Inv, NEW d \in Conns, ServerSend(d) PROVE Streams
<1>1. /\ clt' = clt /\ UpLife' = UpLife /\ got' = got /\ sent'.up = sent.up
      /\ \E more \in Seq(Parts) : more # <<>> /\ Extends(sent'.dn, sent.dn, d, more)
  BY ServerSendGives
<1>2. Dn!Next
  <2>1. DnLife' = DnLife /\ got'.dn = got.dn
    BY <1>1, DnStays
  <2> QED
    BY <1>1, <2>1, SomeDnNext
<1> QED
  BY <1>1, <1>2 DEF Streams, UpStutter

\* ReSetCert, Break, and a step of something else.
LEMMA QuietStreams ==
    ASSUME clt' = clt, srv' = srv, sent' = sent, got' = got
    PROVE  Streams
BY UpStays, DnStays DEF Streams, UpStutter, DnStutter

\* Every step is one of each stream.
LEMMA NextStreams == ASSUME Inv, [Next]_vars PROVE Streams
<1>1. CASE Client
  BY <1>1, DoConnectStreams, ClientReadStreams, CloseClientStreams DEF Client, ClientEof
<1>2. ASSUME NEW c \in Conns, Server(c) PROVE Streams
  BY <1>2, AcceptStreams, ServerReadStreams, ServerCloseStreams DEF Server, ServerEof
<1>3. CASE Apps
  <2>1. ASSUME NEW c \in Conns, ServerClose(c) PROVE Streams
    BY <2>1, ServerCloseStreams DEF ServerClose
  <2>2. CASE ReSetCert
    BY <2>2, QuietStreams DEF ReSetCert
  <2> QED
    BY <1>3, <2>1, <2>2, OpenStreams, ClientSendStreams, CloseClientStreams,
       ServerSendStreams DEF Apps
<1>4. ASSUME NEW c \in Conns, Break(c) PROVE Streams
  BY <1>4, QuietStreams DEF Break
<1>5. CASE UNCHANGED vars
  BY <1>5, QuietStreams DEF vars
<1> QED
  BY <1>1, <1>2, <1>3, <1>4, <1>5 DEF Next

\* Both streams begin empty.
LEMMA InitStreams == ASSUME Init PROVE Up!Init /\ Dn!Init
<1>1. /\ clt.status = "invalid" /\ clt.conn = 0 /\ srv = [c \in Conns |-> NoServer]
      /\ up = [c \in Conns |-> <<>>] /\ dn = up
      /\ sent = [up |-> up, dn |-> dn] /\ got = sent
  BY DEF Init
<1>2. /\ sent.up = [c \in Conns |-> <<>>] /\ sent.dn = [c \in Conns |-> <<>>]
      /\ got.up = [c \in Conns |-> <<>>] /\ got.dn = [c \in Conns |-> <<>>]
  BY <1>1
<1>3. UpLife = [c \in Conns |-> "none"]
  BY <1>1 DEF UpLife, NoServer
<1>4. DnLife = [c \in Conns |-> "none"]
  <2>1. \A c \in Conns : c > Cur
    BY <1>1 DEF Conns, Cur
  <2> QED
    BY <2>1 DEF DnLife
<1> QED
  BY <1>2, <1>3, <1>4 DEF Up!Init, Dn!Init, UpLife, DnLife

\* Each direction of every connection is a Stream: an application is given what
\* the other sent on that connection, in order and once, however TCP cuts the
\* records and whenever a connection breaks (OnTcpRead, session_tls::onrecvbytes).
THEOREM TlsStreams == Spec => StreamsSpec
<1>1. Init => Up!Init /\ Dn!Init
  BY InitStreams
<1>2. Inv /\ [Next]_vars => [Up!Next]_(Up!svars) /\ [Dn!Next]_(Dn!svars)
  BY NextStreams, Stutters DEF Streams
<1> QED
  BY <1>1, <1>2, LinkInvariant, PTL DEF Spec, StreamsSpec, Up!Spec, Dn!Spec
=============================================================================
