------------------------------- MODULE TlsLink -------------------------------
(***************************************************************************)
(* A client, tls_c over tcp_c (ec_tlsclient.h, ec_tcpclient.h), that opens *)
(* one connection after the other to a server whose sessions speak TLS     *)
(* (session_tls, ec_aiotls.h).  TCP delivers in order and in any pieces,   *)
(* until it breaks.  The server's loop is NetServer's subject: here it     *)
(* reads, sends and closes.  up[c] and dn[c] hold what one end has handed  *)
(* to its send buffer and the other has not read.                          *)
(***************************************************************************)
EXTENDS TlsSession, FiniteSets, SequencesExt

CONSTANTS MaxConns,     \* connections the client opens
          UpMax,        \* messages the client's application sends in all
          DnMax,        \* messages the server's application sends in all
          Sizes,        \* records a message takes
          Firsts,       \* whether a message may start with the byte of an alert
          Trusts,       \* keys the client trusts: AnyKey, or that of initca
          Keys,         \* key pairs the server has, one after the other
          SndMax        \* records a full send buffer holds at least

ASSUME LinkAssumption ==
    /\ {MaxConns, UpMax, DnMax, SndMax} \subseteq Nat
    /\ Sizes \subseteq Nat \ {0} /\ Firsts \subseteq BOOLEAN
    /\ Keys = 1..Cardinality(Keys) /\ 1 \in Keys /\ Trusts \subseteq Keys \union {AnyKey}

Conns == 1..MaxConns
Parts == [msg : Nat, part : Nat]   \* of messages

VARIABLES clt,    \* the client: _status, _nstatus, its connection, _tls
          srv,    \* [Conns -> the server's end: life and _tls]
          net,    \* [Conns -> "none", "syn", "up" or "broken"]
          up, dn, \* [Conns -> Seq of records or pieces of one]
          ca,     \* the key pair the server has now
          sent,   \* [up, dn -> [Conns -> parts the application sent]]
          got     \* [up, dn -> [Conns -> parts the application was given]]

vars == <<clt, srv, net, up, dn, ca, sent, got>>

-----------------------------------------------------------------------------
\* What a read may return of a stream, and what it leaves.
Reads(w) ==
    {[data |-> SubSeq(w, 1, n), left |-> SubSeq(w, n + 1, Len(w))] : n \in 1..Len(w)}
    \union {[data |-> Append(SubSeq(w, 1, n - 1), Piece(w[n].of, "head")),
             left |-> <<Piece(w[n].of, "tail")>> \o SubSeq(w, n + 1, Len(w))] :
               n \in {i \in 1..Len(w) : w[i].part = "all"}}

OnWire(records) == [i \in 1..Len(records) |-> Piece(records[i], "all")]
Bodies(records) == [i \in 1..Len(records) |-> records[i].body]

Cur == clt.conn
Connected == clt.status = "connected"

\* What becomes of a wire w with an end that is there, or is not.
Wire(w, there) == IF there THEN w ELSE <<>>
ServerThere(c) == net[c] = "up" /\ srv[c].life = "open"
ClientThere(c) == net[c] = "up" /\ Cur = c /\ Connected

-----------------------------------------------------------------------------
(* The client.                                                                *)

\* Mutant: the application is not told that the handshake is void.
ClosedTold(c) == [c EXCEPT !.status = "invalid"]
\* close(): ondisconnected; what has not left the send buffer is dropped, and
\* what was not read is lost with the socket.
Closed(c) == [c EXCEPT !.status = "invalid", !.told = FALSE]

Leaves(c, w) ==
    /\ clt' = Closed(c)
    /\ \E p \in Prefixes(w) : up' = [up EXCEPT ![Cur] = Wire(p, ServerThere(Cur))]
    /\ dn' = [dn EXCEPT ![Cur] = <<>>]

\* tcp_c::sendbytes of records, with left unread: a full buffer closes the
\* connection.
SendBytes(c, records, left) ==
    LET w == up[Cur] \o OnWire(records) IN
    \/ /\ clt' = c
       /\ up' = [up EXCEPT ![Cur] = Wire(w, ServerThere(Cur))]
       /\ dn' = [dn EXCEPT ![Cur] = left]
    \/ records # <<>> /\ Len(w) > SndMax /\ Leaves(c, up[Cur])

\* onconnected(): Reset and ClientHello.
OnConnected(n) ==
    LET a == ClientHello(clt.tls, n) IN
    /\ clt' = [clt EXCEPT !.status = "connected", !.conn = n, !.tls = a.s]
    /\ up' = [up EXCEPT ![n] = Wire(OnWire(a.out), ServerThere(n))]

\* open(), which may connect at once.
Open ==
    /\ clt.status = "invalid" /\ Cur < MaxConns
    /\ net' = [net EXCEPT ![Cur + 1] = "syn"]
    /\ clt' = [clt EXCEPT !.status = "connect", !.conn = Cur + 1]
    /\ UNCHANGED <<srv, up, dn, ca, sent, got>>

\* doconnect: writable without an error, or broken, refused, too late.
DoConnect ==
    /\ clt.status = "connect"
    /\ \/ net[Cur] = "up" /\ OnConnected(Cur) /\ UNCHANGED net
       \/ /\ net[Cur] # "up"
          /\ clt' = [clt EXCEPT !.status = "invalid"]         \* connectfailed
          /\ net' = [net EXCEPT ![Cur] = "broken"]
          /\ UNCHANGED up
    /\ UNCHANGED <<srv, dn, ca, sent, got>>

\* POLLIN of doNetIO and onreadbytes: what the session puts out is sent, or
\* given to the application.
ClientRead ==
    /\ UNCHANGED <<srv, net, ca, sent>>
    /\ Connected
    /\ \E r \in Reads(dn[Cur]) : \E a \in OnTcpRead(clt.tls, r.data, ca, Cur) :
         LET c == [clt EXCEPT !.tls = a.s, !.told = @ \/ a.res = "HKOK"] IN
         \/ a.res \in {"NONE", "HKOK"} /\ SendBytes(c, a.out, r.left) /\ UNCHANGED got
         \/ /\ a.res = "APPDATA"
            /\ clt' = c
            /\ dn' = [dn EXCEPT ![Cur] = r.left] /\ UNCHANGED up
            /\ got' = [got EXCEPT !.dn[Cur] = @ \o Bodies(a.out)]
         \/ a.res = "ERR" /\ Leaves(c, up[Cur] \o OnWire(a.out)) /\ UNCHANGED got

CloseClient ==
    /\ Connected
    /\ Leaves(clt, up[Cur])
    /\ UNCHANGED <<srv, net, ca, sent, got>>

\* doNetIO: recv returns 0, or the connection is broken.
ClientEof ==
    /\ Connected
    /\ \/ net[Cur] = "broken"
       \/ srv[Cur].life = "gone" /\ dn[Cur] = <<>>
    /\ CloseClient

\* The parts of a message, and the number of messages so far.
Message(n, size) == [i \in 1..size |-> [msg |-> n, part |-> i]]
Count(dir) == Cardinality(UNION {{x.msg : x \in Range(sent[dir][c])} : c \in Conns})

\* tls_c::sendbytes by an application that waits for ontlshandshake(), when
\* MakeAppRecord takes what it is given (ToldOfThis).
ClientSend ==
    /\ Connected /\ clt.told
    /\ Count("up") < UpMax
    /\ \E size \in Sizes, first \in Firsts :
         LET m == Message(Count("up") + 1, size)
             a == MakeAppRecord(clt.tls, m, first)
         IN  /\ sent' = [sent EXCEPT !.up[Cur] = @ \o m]
             /\ a.res # "ERR" /\ SendBytes([clt EXCEPT !.tls = a.s], a.out, dn[Cur])
    /\ UNCHANGED <<srv, net, ca, got>>

-----------------------------------------------------------------------------
(* The server.                                                                *)

Accept(c) ==
    /\ net[c] = "syn"
    /\ net' = [net EXCEPT ![c] = "up"]
    /\ srv' = [srv EXCEPT ![c].life = "open"]
    /\ UNCHANGED <<clt, up, dn, ca, sent, got>>

NoServer == [life |-> "none", tls |-> New("server", AnyKey)]

CloseServer(c) ==
    /\ srv[c].life = "open"
    /\ srv' = [srv EXCEPT ![c] = [NoServer EXCEPT !.life = "gone"]]
    /\ \E p \in Prefixes(dn[c]) : dn' = [dn EXCEPT ![c] = p]
    /\ up' = [up EXCEPT ![c] = <<>>]

\* session_tls::onrecvbytes; an error closes the session with its send buffer
\* and the alert in it.
ServerRead(c) ==
    /\ UNCHANGED <<clt, net, ca, sent>>
    /\ srv[c].life = "open"
    /\ \E r \in Reads(up[c]) : \E a \in OnTcpRead(srv[c].tls, r.data, ca, c) :
         \/ /\ a.res # "ERR"
            /\ srv' = [srv EXCEPT ![c].tls = a.s]
            /\ up' = [up EXCEPT ![c] = r.left]
            /\ \/ /\ a.res \in {"NONE", "HKOK"}
                  /\ dn' = [dn EXCEPT ![c] = Wire(@ \o OnWire(a.out), ClientThere(c))]
                  /\ UNCHANGED got
               \/ /\ a.res = "APPDATA"
                  /\ got' = [got EXCEPT !.up[c] = @ \o Bodies(a.out)]
                  /\ UNCHANGED dn
         \/ a.res = "ERR" /\ CloseServer(c) /\ UNCHANGED got

ServerEof(c) ==
    /\ \/ net[c] = "broken"
       \/ (Cur # c \/ ~Connected) /\ up[c] = <<>> /\ (Cur = c => clt.status # "connect")
    /\ CloseServer(c)
    /\ UNCHANGED <<clt, net, ca, sent, got>>

\* The application, or a delayed disconnect.
ServerClose(c) == CloseServer(c) /\ UNCHANGED <<clt, net, ca, sent, got>>

\* session_tls::sendasyn, at any time once the handshake is over.
ServerSend(c) ==
    /\ srv[c].life = "open" /\ srv[c].tls.fin
    /\ Count("dn") < DnMax
    /\ \E size \in Sizes, first \in Firsts :
         LET m == Message(Count("dn") + 1, size)
             a == MakeAppRecord(srv[c].tls, m, first)
         IN  /\ srv' = [srv EXCEPT ![c].tls = a.s]
             /\ dn' = [dn EXCEPT ![c] = Wire(@ \o OnWire(a.out), ClientThere(c))]
             /\ sent' = [sent EXCEPT !.dn[c] = @ \o m]
    /\ UNCHANGED <<clt, net, up, ca, got>>

\* tls_srvca::ReSetCert, with sessions in the middle of a handshake.
ReSetCert ==
    /\ ca + 1 \in Keys
    /\ ca' = ca + 1
    /\ UNCHANGED <<clt, srv, net, up, dn, sent, got>>

\* The connection breaks: what is on its way is lost.
Break(c) ==
    /\ net[c] \in {"syn", "up"}
    /\ net' = [net EXCEPT ![c] = "broken"]
    /\ up' = [up EXCEPT ![c] = <<>>] /\ dn' = [dn EXCEPT ![c] = <<>>]
    /\ UNCHANGED <<clt, srv, ca, sent, got>>

-----------------------------------------------------------------------------
Init ==
    /\ \E t \in Trusts :
         clt = [status |-> "invalid", told |-> FALSE, conn |-> 0, tls |-> New("client", t)]
    /\ srv = [c \in Conns |-> NoServer]
    /\ net = [c \in Conns |-> "none"]
    /\ up = [c \in Conns |-> <<>>] /\ dn = up
    /\ ca = 1
    /\ sent = [up |-> up, dn |-> up] /\ got = sent

\* What the loops of the two ends do of themselves, what applications do.
Client == DoConnect \/ ClientRead \/ ClientEof
Server(c) == Accept(c) \/ ServerRead(c) \/ ServerEof(c)
Apps == \/ Open \/ ClientSend \/ CloseClient \/ ReSetCert
        \/ \E c \in Conns : ServerSend(c) \/ ServerClose(c)

Next == Client \/ (\E c \in Conns : Server(c)) \/ Apps \/ (\E c \in Conns : Break(c))

Spec == Init /\ [][Next]_vars

\* Both loops poll, and a listening server accepts; nobody need open, send, close.
FairSpec == Spec /\ WF_vars(Client) /\ \A c \in Conns : WF_vars(Server(c))

-----------------------------------------------------------------------------
(* Properties.                                                                *)

BothOpen(c) == Cur = c /\ Connected /\ srv[c].life = "open" /\ net[c] = "up"
Ciphered(w) == Cardinality({i \in 1..Len(w) : w[i].of.sealed /\ w[i].part # "head"})

\* What the two ends of a connection hold of it agrees: a client that is
\* finished has a server that is, with the same master secret and a
\* certificate the client trusts; a server that is finished has a client that
\* seals; and each end's count of sealed records is the other's with those on
\* their way (mkr_ClientFinished, OnClientFinish, OnServerFinished).
SessionsAgree == \A c \in Conns : BothOpen(c) =>
    LET k == clt.tls  s == srv[c].tls IN
    /\ k.fin => s.fin /\ k.master = s.master /\ k.trust \in {AnyKey, k.cert}
    /\ s.fin => k.wr /\ k.master = s.master /\ s.rd
    /\ k.wr => k.wseq = (IF s.rd THEN s.rseq ELSE 0) + Ciphered(up[c])
    /\ s.wr => s.wseq = (IF k.rd THEN k.rseq ELSE 0) + Ciphered(dn[c])

\* The status the application reads, and sends by, is that of the connection
\* there is: told of a finished handshake, it is connected and can seal, also
\* after other connections before (tls_c::ondisconnected, Reset).
ToldOfThis ==
    clt.told => Connected /\ clt.tls.fin /\ clt.tls.wr /\ clt.tls.master.cr = Cur

\* In both directions the application is given what the other sent on this
\* connection, in order, nothing twice and nothing of another connection,
\* however TCP cuts the records.
Up == INSTANCE Stream WITH Messages <- Parts, sent <- sent.up, got <- got.up,
    life <- [c \in Conns |-> srv[c].life]
Dn == INSTANCE Stream WITH Messages <- Parts, sent <- sent.dn, got <- got.dn,
    life <- [c \in Conns |-> IF c > Cur \/ (c = Cur /\ clt.status = "connect") THEN "none"
                             ELSE IF c = Cur /\ Connected THEN "open" ELSE "gone"]
StreamsSpec == Up!Spec /\ Dn!Spec

\* No connection stays half made, and all that is sent on it arrives, unless
\* an end of it closes.
Over(c) == Cur # c \/ clt.status = "invalid" \/ srv[c].life = "gone"
Settled(c) ==
    clt.tls.fin /\ srv[c].tls.fin /\ got.up[c] = sent.up[c] /\ got.dn[c] = sent.dn[c]
Served == \A c \in Conns : ~Over(c) ~> Over(c) \/ Settled(c)
=============================================================================
