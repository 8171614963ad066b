------------------------------ MODULE NetServer -------------------------------
(***************************************************************************)
(* The network server of src/ec_aiosrv.h over the event loop of            *)
(* src/ec_netepoll.h, with the HTTP and WebSocket sessions of              *)
(* src/ec_aiohttp.h.  One thread runs it all: runtime() scans the receive  *)
(* buffers, waits for events and handles them, and closes what is overdue. *)
(* Handlers call the application (domessage, onDisconnect, timerjob ...),  *)
(* which calls the server again; the calls under way are kept on a stack.  *)
(* Peers and time move at any moment.                                      *)
(***************************************************************************)
EXTENDS Descriptors, Sequences, SequencesExt

CONSTANTS
    Scripts,     \* [Conns -> streams the peer may send: sequences of kinds]
    Size,        \* [kind -> units]; the first unit is shorter than 5 bytes
    SndMax,      \* capacity of a send buffer
    AppCalls,    \* bound: calls the application makes from its callbacks
    AppMay       \* [callback -> the calls it may make there]

ASSUME NetAssumption ==
    /\ SndMax \in Nat \ {0} /\ AppCalls \in Nat
    /\ \A cb \in DOMAIN AppMay : AppMay[cb] \subseteq {"send", "close", "delay", "connect"}

VARIABLES
    sess,    \* _mapsession: [key -> session]
    chain,   \* the keys of sess in the order its hash chain links them
    pc,      \* where runtime() is
    pos,     \* doRecvBuffer: the position in the map, 0 at the end
    posp,    \* doRecvBuffer: the position before
    cur,     \* doRecvBuffer: the session visited
    dels,    \* the descriptors to close after a scan
    evts,    \* events epoll_wait returned, not yet handled
    stack,   \* calls under way inside a handler, innermost first
    ret,     \* what domessage returned
    calls,   \* calls the application may still make
    net,     \* [Conns -> state of the network and the peer]
    sock,    \* [Conns -> {"none", "open", "gone"}], the server's socket
    script,  \* [Conns -> what the peer has to say]
    out,     \* [Conns -> <<message, unit>>], the unit the peer sends next
    wire,    \* [Conns -> units sent and not received]
    got      \* [Conns -> messages given to domessage]

tables  == <<limit, fds, nextfd, sess, chain, sock>>
loop    == <<pc, pos, posp, cur, dels, evts>>
peer    == <<net, script, out, wire>>
app     == <<ret, calls, got>>
vars    == <<tables, loop, stack, peer, app>>

Kinds == {"get", "upg", "txt", "ping", "cls", "bad"}
AppKinds == {"get", "txt"}
Session(c, st) ==
    [conn |-> c, status |-> st, proto |-> "TCP", rbuf |-> <<>>, snd |-> 0,
     lastapp |-> FALSE, late |-> "no", closeframe |-> FALSE]

-----------------------------------------------------------------------------
(* Calls *)

ConnOf(k) == IF k \in DOMAIN fds THEN fds[k].conn ELSE NoConn
Ref(k) == [fd |-> k, conn |-> ConnOf(k)]
NoRef == [fd |-> 0, conn |-> NoConn]
Call(at, k, err) == [at |-> at, fd |-> k, conn |-> ConnOf(k), err |-> err]
Top == Head(stack)
Below == Tail(stack)
Idle == stack = <<>>
Running(at) == stack # <<>> /\ Top.at = at
TopAt(at) == <<[Top EXCEPT !.at = at]>> \o Below
Close(r, err) == [at |-> "closefd", fd |-> r.fd, conn |-> r.conn, err |-> err]

\* Mutant: nothing is read while the buffer holds anything.
CanRecvEmpty(s) == s.rbuf = <<>>

\* sizeCanRecv: nothing is read while a message that was given to the
\* application may have others behind it in the buffer.
CanRecv(s) == ~s.lastapp \/ s.rbuf = <<>>

\* triger_evt: what session s wants to be told of.
Interest(s) ==
    (IF CanRecv(s) THEN {"EPOLLIN"} ELSE {})
      \union (IF s.snd > 0 \/ s.status = "CONNECTING" THEN {"EPOLLOUT"} ELSE {})
Trigger(k, s) == [fds EXCEPT ![k].pollevents = Interest(s)]

NewSession(k, s) ==
    /\ sess' = [j \in DOMAIN sess \union {k} |-> IF j = k THEN s ELSE sess[j]]
    /\ chain' = <<k>> \o chain

\* Where erase finds the session of key k.
PlaceOf(k) == CHOOSE i \in 1..Len(chain) : chain[i] = k

\* What the application may call from a callback, over the calls in st.
AppSend(st) == \E k \in DOMAIN sess :                      \* sendtofd
    /\ IF sess[k].snd = SndMax
       THEN stack' = st /\ UNCHANGED sess
       ELSE /\ sess' = [sess EXCEPT ![k].snd = @ + 1]
            /\ stack' = <<Call("postsend", k, 0)>> \o st
    /\ UNCHANGED <<limit, fds, nextfd, chain, sock, net>>

AppClose(st) == \E k \in DOMAIN sess :                     \* closefd(k, 0)
    /\ stack' = <<Call("closefd", k, 0)>> \o st
    /\ UNCHANGED <<tables, net>>

AppDelay(st) == \E k \in DOMAIN sess :                     \* setSessionDelayDisconnect
    /\ sess' = [sess EXCEPT ![k].late = "young"]
    /\ stack' = st
    /\ UNCHANGED <<limit, fds, nextfd, chain, sock, net>>

AppConnect(st) == \E c \in Conns :                         \* tcpconnect
    /\ net[c] = "none" /\ ~Full
    /\ SetFd(FirstFree, "fd_tcpout", c)
    /\ nextfd' = FirstFree
    /\ NewSession(FirstFree, Session(c, "CONNECTING"))
    /\ sock' = [sock EXCEPT ![c] = "open"]
    /\ net' = [net EXCEPT ![c] = "connecting"]
    /\ stack' = st
    /\ UNCHANGED limit

AppCall(callback, st) ==
    /\ calls > 0
    /\ calls' = calls - 1
    /\ \/ "send"    \in AppMay[callback] /\ AppSend(st)
       \/ "close"   \in AppMay[callback] /\ AppClose(st)
       \/ "delay"   \in AppMay[callback] /\ AppDelay(st)
       \/ "connect" \in AppMay[callback] /\ AppConnect(st)

\* A callback whose return value does not matter; it may do nothing.
Callback(callback, st) ==
    /\ \/ AppCall(callback, st)
       \/ stack' = st /\ UNCHANGED <<tables, net, calls>>
    /\ UNCHANGED <<ret, got>>

-----------------------------------------------------------------------------
(* closefd and postsend *)

\* onCloseFd of an open WebSocket: once, if the send buffer takes the frame.
SendsCloseFrame(k) ==
    /\ k \in DOMAIN sess
    /\ sess[k].status = "CONNECTED" /\ sess[k].proto = "WS"
    /\ ~sess[k].closeframe

Closefd ==
    LET k == Top.fd IN
    /\ Running("closefd")
    /\ IF k \notin DOMAIN fds THEN stack' = Below /\ UNCHANGED sess
       ELSE IF Top.err = 0 /\ SendsCloseFrame(k)
       THEN IF sess[k].snd = SndMax
            THEN /\ sess' = [sess EXCEPT ![k].closeframe = TRUE]
                 /\ stack' = TopAt("onDisconnect")
            ELSE /\ sess' = [sess EXCEPT ![k].closeframe = TRUE, ![k].snd = @ + 1]
                 /\ stack' = <<Call("postsend", k, 0)>> \o TopAt("onDisconnect")
       ELSE stack' = TopAt("onDisconnect") /\ UNCHANGED sess
    /\ UNCHANGED <<limit, fds, nextfd, chain, sock, loop, peer, app>>

OnDisconnect ==
    /\ Running("onDisconnect")
    /\ Callback("onDisconnect", TopAt("drop"))
    /\ UNCHANGED <<loop, script, out, wire>>

\* epoll_ctl(DEL), close_ and the base onDisconnected, each by key.
Drop ==
    LET k == Top.fd IN
    /\ Running("drop")
    /\ fds' = Without(k)
    /\ sess' = [j \in DOMAIN sess \ {k} |-> sess[j]]
    /\ chain' = IF k \in DOMAIN sess THEN RemoveAt(chain, PlaceOf(k)) ELSE chain
    /\ LET c == ConnOf(k) IN
       IF c = NoConn THEN UNCHANGED <<sock, wire>>
       ELSE /\ sock' = [sock EXCEPT ![c] = "gone"]
            /\ wire' = [wire EXCEPT ![c] = <<>>]
    /\ stack' = IF calls = 0 THEN Below ELSE TopAt("onDisconnected")
    /\ UNCHANGED <<limit, nextfd, loop, net, script, out, app>>

OnDisconnected ==
    /\ Running("onDisconnected")
    /\ Callback("onDisconnected", Below)
    /\ UNCHANGED <<loop, script, out, wire>>

\* What sendbuf may leave: nothing, or all of it while the system has no room.
Left(s) == {0, s.snd}

PostSend ==
    LET k == Top.fd IN
    /\ Running("postsend")
    /\ IF k \notin DOMAIN sess THEN stack' = Below /\ UNCHANGED <<fds, sess>>
       ELSE IF net[sess[k].conn] = "rst" /\ sess[k].snd > 0
       THEN stack' = <<Call("closefd", k, 102)>> \o Below /\ UNCHANGED <<fds, sess>>
       ELSE \E left \in Left(sess[k]) :
            /\ sess' = [sess EXCEPT ![k].snd = left]
            /\ fds' = Trigger(k, sess'[k])
            /\ stack' = Below
    /\ UNCHANGED <<limit, nextfd, chain, sock, loop, peer, app>>

-----------------------------------------------------------------------------
(* Parsing: onrecvbytes of session_http and the upgrade of a TCP session *)

KindAt(c, u) == script[c][u[1]]
Result(res, s, m) == [res |-> res, s |-> s, m |-> m]

\* One call of onrecvbytes on what the receive buffer holds: the message it
\* yields, if any, and the session it leaves.
OnRecvBytes(c, s) ==
    LET b == s.rbuf
        kind == KindAt(c, b[1])
        s0 == [s EXCEPT !.lastapp = FALSE]
        freed == [s0 EXCEPT !.rbuf = <<>>]
        rest == [s0 EXCEPT !.rbuf = SubSeq(b, Size[kind] + 1, Len(b))]
        room == s.snd < SndMax
        reply == [rest EXCEPT !.snd = IF room THEN @ + 1 ELSE @]
        given == [rest EXCEPT !.lastapp = TRUE]
    IN  IF s.proto = "TCP" \/ b = <<>> THEN Result("NUL", IF s.proto = "TCP" THEN s ELSE s0, 0)
        ELSE IF ~IsPrefix([j \in 1..Size[kind] |-> <<b[1][1], j>>], b)
        THEN IF Len(b) < Size[kind] THEN Result("NUL", s0, 0) ELSE Result("ERR", freed, 0)
        ELSE IF s.proto = "HTTP"
        THEN IF kind = "get" THEN Result("HTTP", given, b[1][1])
             ELSE IF kind = "upg"      \* DoUpgradeWebSocket
             THEN IF room THEN Result("NUL", [reply EXCEPT !.proto = "WS"], 0)
                  ELSE Result("ERR", rest, 0)
             ELSE Result("ERR", freed, 0)
        ELSE IF kind = "txt" THEN Result("WS", given, b[1][1])
             ELSE IF kind = "ping" THEN Result("NUL", reply, 0)
             ELSE IF kind = "cls" THEN Result("CLOSE", freed, 0)
             ELSE Result("ERR", freed, 0)

\* Mutant: what comes takes the place of a part of a message that is there.
JoinedAnew(s, data) == [s EXCEPT !.rbuf = data]

Joined(s, data) == [s EXCEPT !.rbuf = @ \o data]

\* onReceived: the units in data join the buffer; a TCP session becomes an
\* HTTP one when a request begins there, and is left to time out otherwise.
OnReceived(c, s, data) ==
    LET t == Joined(s, data) IN
    IF s.late # "no" THEN Result("NUL", s, 0)
    ELSE IF s.proto # "TCP" THEN OnRecvBytes(c, t)
    ELSE IF Len(t.rbuf) < 2 THEN Result("NUL", t, 0)
    ELSE IF KindAt(c, t.rbuf[1]) \in {"get", "upg"}
    THEN OnRecvBytes(c, [t EXCEPT !.proto = "HTTP"])
    ELSE Result("NUL", [t EXCEPT !.late = "young"], 0)

\* domessage(k, message m of connection c); then the application acts.
Give(k, c, m) ==
    /\ got' = [got EXCEPT ![c] = Append(@, m)]
    /\ stack' = <<Call("domessage", k, 0)>>

DoMessage ==
    /\ Running("domessage")
    /\ \/ stack' = Below /\ ret' = 0 /\ UNCHANGED <<tables, net, calls>>
       \/ /\ calls > 0 /\ calls' = calls - 1
          /\ stack' = Below /\ ret' = -1 /\ UNCHANGED <<tables, net>>
       \/ AppCall("domessage", TopAt("domessageDone")) /\ UNCHANGED ret
    /\ UNCHANGED <<loop, got, script, out, wire>>

\* The contract of domessage: -1 when its own connection is gone.
DoMessageDone ==
    LET there == Top.fd \in DOMAIN sess /\ sess[Top.fd].conn = Top.conn IN
    /\ Running("domessageDone")
    /\ stack' = Below
    /\ ret' \in IF there THEN {0, -1} ELSE {-1}
    /\ UNCHANGED <<tables, loop, peer, calls, got>>

-----------------------------------------------------------------------------
(* runtime() *)

AtLoop(p) == pc = p /\ Idle

TimerJob ==
    /\ AtLoop("timer")
    /\ Callback("timerjob", <<>>)
    /\ pc' = "scan"
    /\ pos' = 1 /\ posp' = 1
    /\ UNCHANGED <<cur, dels, evts, script, out, wire>>

\* One turn of doRecvBuffer: the session at pos, one message at most.
Scan ==
    /\ AtLoop("scan")
    /\ IF pos \notin 1..Len(chain)
       THEN /\ pc' = IF dels = <<>> THEN "wait" ELSE "scanDels"
            /\ cur' = NoRef /\ pos' = 0 /\ posp' = 0
            /\ UNCHANGED <<dels, sess, stack, got>>
       ELSE LET k == chain[pos]
                p == OnRecvBytes(sess[k].conn, sess[k])
            IN  /\ pos' = IF pos < Len(chain) THEN pos + 1 ELSE 0
                /\ cur' = Ref(k)
                /\ IF sess[k].late # "no"
                   THEN posp' = pos' /\ UNCHANGED <<pc, dels, sess, stack, got>>
                   ELSE /\ sess' = [sess EXCEPT ![k] = p.s]
                        /\ IF p.res \in {"HTTP", "WS"}
                           THEN /\ Give(k, sess[k].conn, p.m)
                                /\ pc' = "scanned"
                                /\ UNCHANGED <<posp, dels>>
                           ELSE /\ dels' = IF p.res = "NUL" THEN dels ELSE Append(dels, Ref(k))
                                /\ posp' = pos'
                                /\ UNCHANGED <<pc, stack, got>>
    /\ UNCHANGED <<limit, fds, nextfd, chain, sock, evts, ret, calls, peer>>

\* After domessage: its session may be gone, then the scan steps back.
Scanned ==
    LET gone == cur.fd \notin DOMAIN sess IN
    /\ AtLoop("scanned")
    /\ pos' = IF ret < 0 /\ gone THEN posp ELSE pos
    /\ posp' = pos'
    /\ dels' = IF ret < 0 /\ ~gone THEN Append(dels, cur) ELSE dels
    /\ pc' = "scan"
    /\ UNCHANGED <<cur, evts, tables, stack, peer, app>>

\* closefd(fd, 0) of the first of the descriptors collected at a point of the
\* pass, which goes on at next after the last.
CloseNext(at, next) ==
    /\ AtLoop(at)
    /\ stack' = <<Close(Head(dels), 0)>>
    /\ dels' = Tail(dels)
    /\ pc' = IF Len(dels) = 1 THEN next ELSE at
    /\ UNCHANGED <<tables, pos, posp, cur, evts, peer, app>>

ScanDels == CloseNext("scanDels", "wait")

\* dorecvflowctrl: the events every TCP descriptor is to be watched for.
FlowControl == [k \in DOMAIN fds |-> IF k \in TcpFds THEN Trigger(k, sess[k])[k] ELSE fds[k]]

Backlog == {c \in Conns : sock[c] = "none" /\ net[c] \in {"up", "fin", "rst"}}

\* What the kernel reports of an entry of the table.
Ready(f) ==
    CASE f.type = "fd_listen" -> IF Backlog # {} THEN {"EPOLLIN"} ELSE {}
      [] f.type = "fd_epoll" -> {}
      [] OTHER ->
         {e \in f.pollevents :
             \/ e = "EPOLLIN" /\ (wire[f.conn] # <<>> \/ net[f.conn] \in {"fin", "rst"})
             \/ e = "EPOLLOUT" /\ net[f.conn] # "connecting"}
           \union (IF net[f.conn] = "rst" THEN {"EPOLLERR"} ELSE {})

\* runtime_ up to its events: flow control, if 4 ms have passed since the last,
\* and epoll_wait, which returns the ready descriptors in some order (at most 16
\* at a time; the instances have fewer), or none after the waiting time.
Wait(flow) ==
    LET watched == IF flow THEN FlowControl ELSE fds
        ready == {k \in DOMAIN fds : Ready(watched[k]) # {}}
    IN
    /\ AtLoop("wait")
    /\ fds' = watched
    /\ \E order \in SetToSeqs(ready) :
          evts' = [i \in DOMAIN order |->
                     [fd |-> order[i], conn |-> ConnOf(order[i]),
                      events |-> Ready(watched[order[i]])]]
    /\ pc' = "event"
    /\ UNCHANGED <<limit, nextfd, sess, chain, sock, pos, posp, cur, dels, stack, peer, app>>

-----------------------------------------------------------------------------
(* onevent, for the first of evts *)

Event == Head(evts)
AtEvent(p) == AtLoop(p) /\ evts # <<>>
TypeOf(k) == IF k \in DOMAIN fds THEN fds[k].type ELSE "none"
NextEvent == evts' = Tail(evts) /\ pc' = "event"

\* accept_ and onAccept; a full table leaves what was accepted as left.
AcceptInto(left) ==
    /\ AtEvent("event")
    /\ TypeOf(Event.fd) = "fd_listen"
    /\ \/ Backlog = {} /\ UNCHANGED <<fds, nextfd, sess, chain, sock, wire>>
       \/ \E c \in Backlog :
            /\ Full
            /\ sock' = [sock EXCEPT ![c] = left]
            /\ wire' = [wire EXCEPT ![c] = <<>>]
            /\ UNCHANGED <<fds, nextfd, sess, chain>>
       \/ \E c \in Backlog :
            /\ ~Full
            /\ SetFd(FirstFree, "fd_tcp", c)
            /\ nextfd' = FirstFree
            /\ NewSession(FirstFree, Session(c, "CONNECTED"))
            /\ sock' = [sock EXCEPT ![c] = "open"]
            /\ UNCHANGED wire
    /\ NextEvent
    /\ UNCHANGED <<limit, pos, posp, cur, dels, stack, net, script, out, app>>

\* Mutant: without a key for it the socket is left as it is.
AcceptLeaks == AcceptInto("open")

Accept == AcceptInto("gone")

\* The EPOLLIN part: recv_, then onReceived; without data, on to the rest.
Receive ==
    LET k == Event.fd IN
    /\ AtEvent("event")
    /\ TypeOf(k) # "fd_listen"
    /\ IF "EPOLLIN" \in Event.events /\ k \in DOMAIN sess /\ CanRecv(sess[k])
       THEN LET c == fds[k].conn
                p == OnReceived(c, sess[k], wire[c])
            IN  IF wire[c] = <<>>
                THEN /\ IF net[c] \in {"fin", "rst"}
                        THEN stack' = <<Close(Event, 102)>> /\ NextEvent
                        ELSE pc' = "eventRest" /\ UNCHANGED <<evts, stack>>
                     /\ UNCHANGED <<sess, wire, got>>
                ELSE /\ wire' = [wire EXCEPT ![c] = <<>>]
                     /\ sess' = [sess EXCEPT ![k] = p.s]
                     /\ IF p.res \in {"HTTP", "WS"}
                        THEN Give(k, c, p.m) /\ pc' = "eventMsg" /\ UNCHANGED evts
                        ELSE /\ IF p.res = "NUL"
                                THEN pc' = "eventRest" /\ UNCHANGED <<evts, stack>>
                                ELSE stack' = <<Close(Event, 0)>> /\ NextEvent
                             /\ UNCHANGED got
       ELSE pc' = "eventRest" /\ UNCHANGED <<evts, sess, stack, wire, got>>
    /\ UNCHANGED <<limit, fds, nextfd, chain, sock, pos, posp, cur, dels, net, script, out, ret, calls>>

AfterMessage ==
    /\ AtEvent("eventMsg")
    /\ IF ret < 0
       THEN stack' = <<Close(Event, 0)>> /\ NextEvent
       ELSE pc' = "eventRest" /\ UNCHANGED <<evts, stack>>
    /\ UNCHANGED <<tables, pos, posp, cur, dels, peer, app>>

\* EPOLLERR closes; EPOLLOUT is onepollout: a connection asked for is made or
\* refused, else the send buffer goes out; last comes sendtrigger.
EventRest ==
    LET k == Event.fd
        s == sess[k]
        outs == "EPOLLOUT" \in Event.events
        failed == net[s.conn] = "rst"
        connects == s.status = "CONNECTING"
    IN
    /\ AtEvent("eventRest")
    /\ \/ /\ "EPOLLERR" \in Event.events
          /\ stack' = <<Close(Event, 102)>> /\ NextEvent
          /\ UNCHANGED <<fds, sess>>
       \/ /\ "EPOLLERR" \notin Event.events /\ k \notin DOMAIN sess
          /\ NextEvent
          /\ UNCHANGED <<fds, sess, stack>>
       \/ /\ "EPOLLERR" \notin Event.events /\ k \in DOMAIN sess
          /\ \/ /\ ~outs
                /\ fds' = Trigger(k, s) /\ NextEvent
                /\ UNCHANGED <<sess, stack>>
             \/ /\ outs /\ failed /\ (connects \/ s.snd > 0)
                /\ stack' = <<Close(Event, IF connects THEN 111 ELSE 102)>>
                /\ NextEvent
                /\ UNCHANGED <<fds, sess>>
             \/ /\ outs /\ connects /\ ~failed
                /\ sess' = [sess EXCEPT ![k].status = "CONNECTED"]
                /\ pc' = "connected"
                /\ UNCHANGED <<fds, stack, evts>>
             \/ /\ outs /\ ~connects /\ ~(failed /\ s.snd > 0)
                /\ \E left \in Left(s) \ {SndMax} : sess' = [sess EXCEPT ![k].snd = left]
                /\ fds' = Trigger(k, sess'[k]) /\ NextEvent
                /\ UNCHANGED stack
    /\ UNCHANGED <<limit, nextfd, chain, sock, app, pos, posp, cur, dels, peer>>

\* onTcpOutConnected; only sendtrigger is left of the event.
Connected ==
    /\ AtEvent("connected")
    /\ Callback("onTcpOutConnected", <<>>)
    /\ evts' = <<[Event EXCEPT !.events = {}]>> \o Tail(evts)
    /\ pc' = "eventRest"
    /\ UNCHANGED <<pos, posp, cur, dels, script, out, wire>>

\* Mutant: sessions that speak HTTP or WebSocket are passed over.
LateTcp == {k \in DOMAIN sess : sess[k].late = "old" /\ sess[k].proto = "TCP"}

LateSessions == {k \in DOMAIN sess : sess[k].late = "old"}

\* The end of the pass: sessions whose delay is over, in the order of the map.
\* The code looks once a second, which only makes a delay longer.
Overdue ==
    /\ AtLoop("event") /\ evts = <<>>
    /\ \E late \in SetToSeqs(LateSessions) :
          /\ \A i, j \in DOMAIN late : i < j => PlaceOf(late[i]) < PlaceOf(late[j])
          /\ dels' = [i \in DOMAIN late |-> Ref(late[i])]
    /\ pc' = IF LateSessions = {} THEN "timer" ELSE "reap"
    /\ UNCHANGED <<tables, pos, posp, cur, evts, stack, peer, app>>

Reap == CloseNext("reap", "timer")

-----------------------------------------------------------------------------
(* Peers, the network and time.  The loop sees them where it waits and, when  *)
(* a connection breaks, where it handles an event or sends; they move there.  *)

SetNet(c, st) == net' = [net EXCEPT ![c] = st]

PeerConnect(c) ==
    /\ net[c] = "none"
    /\ SetNet(c, "up")
    /\ \E sc \in Scripts[c] : script' = [script EXCEPT ![c] = sc]
    /\ UNCHANGED <<out, wire>>

\* An outgoing connection is made or refused.
Resolve(c) ==
    /\ net[c] = "connecting"
    /\ \/ SetNet(c, "up") /\ \E sc \in Scripts[c] : script' = [script EXCEPT ![c] = sc]
       \/ SetNet(c, "rst") /\ UNCHANGED script
    /\ UNCHANGED <<out, wire>>

PeerSend(c) ==
    LET m == out[c][1]
        j == out[c][2]
    IN  /\ net[c] = "up" /\ sock[c] # "gone"
        /\ m <= Len(script[c])
        /\ wire' = [wire EXCEPT ![c] = Append(@, <<m, j>>)]
        /\ out' = [out EXCEPT ![c] = IF j < Size[script[c][m]] THEN <<m, j + 1>>
                                     ELSE <<m + 1, 1>>]
        /\ UNCHANGED <<net, script>>

PeerFin(c) ==
    /\ net[c] = "up" /\ sock[c] # "gone"
    /\ SetNet(c, "fin")
    /\ UNCHANGED <<script, out, wire>>

PeerReset(c) ==
    /\ net[c] \in {"up", "fin"} /\ sock[c] # "gone"
    /\ SetNet(c, "rst")
    /\ wire' = [wire EXCEPT ![c] = <<>>]
    /\ UNCHANGED <<script, out>>

Peer == \E c \in Conns :
    /\ \/ /\ AtLoop("wait")
          /\ PeerConnect(c) \/ Resolve(c) \/ PeerSend(c) \/ PeerFin(c)
       \/ /\ AtLoop("wait") \/ AtLoop("event") \/ Running("postsend")
          /\ PeerReset(c)
    /\ UNCHANGED <<tables, loop, stack, app>>

\* Five seconds pass for a session that is to be closed with delay.
Age ==
    /\ AtLoop("wait")
    /\ \E k \in DOMAIN sess :
          sess[k].late = "young" /\ sess' = [sess EXCEPT ![k].late = "old"]
    /\ UNCHANGED <<limit, fds, nextfd, chain, sock, loop, stack, peer, app>>

-----------------------------------------------------------------------------
Init ==
    /\ InitFds
    /\ sess = [k \in {} |-> Session(NoConn, "CONNECTING")]
    /\ chain = <<>>
    /\ pc = "timer" /\ pos = 0 /\ posp = 0
    /\ cur = NoRef
    /\ dels = <<>> /\ evts = <<>> /\ stack = <<>>
    /\ ret = 0 /\ calls = AppCalls
    /\ net = [c \in Conns |-> "none"]
    /\ sock = [c \in Conns |-> "none"]
    /\ script = [c \in Conns |-> <<>>]
    /\ out = [c \in Conns |-> <<1, 1>>]
    /\ wire = [c \in Conns |-> <<>>]
    /\ got = [c \in Conns |-> <<>>]

Handler ==
    \/ Closefd \/ OnDisconnect \/ Drop \/ OnDisconnected \/ PostSend
    \/ DoMessage \/ DoMessageDone
Runtime ==
    \/ TimerJob \/ Scan \/ Scanned \/ ScanDels
    \/ \E flow \in BOOLEAN : Wait(flow)
    \/ Accept \/ Receive \/ AfterMessage \/ EventRest \/ Connected
    \/ Overdue \/ Reap

Next == Handler \/ Runtime \/ Peer \/ Age
Spec == Init /\ [][Next]_vars

\* The thread that calls runtime() goes on calling it, passes of 4 ms or more
\* recur, and time passes.  Nothing is asked of the peers or the application.
FairSpec ==
    /\ Spec
    /\ WF_vars(Handler \/ Runtime)
    /\ SF_vars(Wait(TRUE))
    /\ SF_vars(Age)

-----------------------------------------------------------------------------
(* Properties *)

Points == {"timer", "scan", "scanned", "scanDels", "wait", "event",
           "eventMsg", "eventRest", "connected", "reap"}

\* Every variable holds a value of its kind.
TypeOK ==
    /\ DOMAIN fds \subseteq Keys /\ nextfd \in Keys
    /\ \A k \in DOMAIN fds :
          /\ fds[k].type \in FdTypes
          /\ fds[k].conn \in Conns \union {NoConn}
          /\ fds[k].pollevents \subseteq {"EPOLLIN", "EPOLLOUT"}
    /\ \A k \in DOMAIN sess :
          /\ sess[k].conn \in Conns
          /\ sess[k].status \in {"CONNECTING", "CONNECTED"}
          /\ sess[k].proto \in {"TCP", "HTTP", "WS"}
          /\ sess[k].snd \in 0..SndMax
          /\ sess[k].late \in {"no", "young", "old"}
          /\ sess[k].lastapp \in BOOLEAN /\ sess[k].closeframe \in BOOLEAN
    /\ pc \in Points /\ pos \in 0..limit /\ posp \in 0..limit
    /\ ret \in {0, -1} /\ calls \in 0..AppCalls
    /\ net \in [Conns -> {"none", "connecting", "up", "fin", "rst"}]
    /\ sock \in [Conns -> {"none", "open", "gone"}]

\* The table of descriptors, the map of sessions and the sockets open in the
\* system stay in step through every callback, early return and nested close:
\* a connection has one descriptor and one session, or none of the three (the
\* two maps are kept by netio_linux and netserver apart).  What a session holds
\* to be sent stays within its bound.
OneEach ==
    /\ TypeOK
    /\ DOMAIN sess = TcpFds
    /\ \A k \in TcpFds : sess[k].conn = fds[k].conn
    /\ \A c \in Conns : sock[c] = "open" <=> \E k \in TcpFds : fds[k].conn = c
    /\ \A j, k \in TcpFds : fds[j].conn = fds[k].conn => j = k
    /\ ToSet(chain) = DOMAIN sess /\ Len(chain) = Cardinality(DOMAIN sess)

\* A descriptor that was noted (in an event, in a list of descriptors to close,
\* in a call that has not returned) never names a connection made after it was
\* noted, however many were closed and accepted in between.
NoStaleKey ==
    LET fresh(r) == r.fd \in DOMAIN fds => fds[r.fd].conn = r.conn
    IN  /\ \A i \in DOMAIN evts : fresh(evts[i])
        /\ \A i \in DOMAIN dels : fresh(dels[i])
        /\ \A i \in DOMAIN stack : fresh(stack[i])
        /\ fresh(cur)

\* The messages of a connection reach the application as Stream says, under
\* every way the bytes arrive in pieces, through the upgrades from TCP to HTTP
\* to WebSocket, and whether onReceived or doRecvBuffer finds them.
AppMessages(c) == SelectSeq([i \in 1..(out[c][1] - 1) |-> i],
                            LAMBDA i : script[c][i] \in AppKinds)
TheStream == INSTANCE Stream WITH
    Messages <- 1..5, life <- sock, sent <- [c \in Conns |-> AppMessages(c)]
StreamSpec == TheStream!Spec

\* The server catches up with its peers, who have only so much to say: no whole
\* message stays in a buffer for ever while its connection is open.
Waiting(c) == sock[c] = "open" /\ Len(got[c]) < Len(AppMessages(c))
MessagesHandled == []<>(\A c \in Conns : ~Waiting(c))

\* A connection whose peer has left, or that is to be closed with delay, is
\* closed, with its session and its descriptor.
Doomed(c) ==
    /\ sock[c] = "open"
    /\ net[c] \in {"fin", "rst"} \/ \E k \in DOMAIN sess : sess[k].conn = c /\ sess[k].late # "no"
DeadClosed == []<>(\A c \in Conns : ~Doomed(c))
=============================================================================
