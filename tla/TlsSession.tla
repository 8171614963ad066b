------------------------------ MODULE TlsSession ------------------------------
(***************************************************************************)
(* One end of a TLS 1.2 session, ec_tls12.h: from a session and what is    *)
(* read from TCP to the session afterwards, what it puts out and the       *)
(* TLS_SESSION_XXX it returns, together a step a = [s, out, res].          *)
(*                                                                         *)
(* Cryptography is ideal: a sealed record opens under its key, direction   *)
(* and sequence number and no other, a verify data names all it covers.    *)
(* Randoms and premaster secrets are as fresh as the number id they are    *)
(* drawn with.  One cipher suite stands for the four, which differ in the  *)
(* length of keys; the client offers all of them.  The public key of a     *)
(* certificate stands for the certificate.                                 *)
(***************************************************************************)
EXTENDS Integers, Sequences

CONSTANT CertRecords   \* 1 or 2: the records the Certificate message takes

ASSUME CertAssumption == CertRecords \in {1, 2}

-----------------------------------------------------------------------------
(* Bytes arrive in pieces: a record of the TCP stream, or a message of the    *)
(* handshake in records, is whole or a head with its tail behind it.          *)

Piece(x, part) == [of |-> x, part |-> part]

\* kept, what _pkgtcp or _pkgm holds, is what p continues, and nothing else.
Continues(kept, p) == (p.part = "tail") = (kept # <<>>)

-----------------------------------------------------------------------------
(* The session: flags and counters, the bytes not parsed yet, the messages of *)
(* the handshake while there is one (_hmsg), randoms, key and certificate.    *)

AnyKey == 0
NoMsg == [t |-> "none"]
Slots == {"cli_hello", "srv_hello", "srv_certificate", "srv_hellodone",
          "cli_key_exchange", "cli_finished"}
NoHandshake == [x \in Slots |-> NoMsg]
NoMaster == [pre |-> 0, cr |-> 0, sr |-> 0]

New(side, trust) ==
    [side |-> side, trust |-> trust, fin |-> FALSE, rd |-> FALSE, wr |-> FALSE,
     wseq |-> 0, rseq |-> 0, tcp |-> <<>>, pkgm |-> <<>>, open |-> TRUE,
     hmsg |-> NoHandshake, cr |-> 0, sr |-> 0, master |-> NoMaster, cert |-> 0]

Reset(s) == New(s.side, s.trust)

Other(side) == IF side = "client" THEN "server" ELSE "client"

\* handshake::out, what a Finished covers.
Out(h, bfin) == [h EXCEPT !["cli_finished"] = IF bfin THEN @ ELSE NoMsg]

Finished(side, s, bfin) ==
    [t |-> "finished", by |-> side, master |-> s.master, saw |-> Out(s.hmsg, bfin)]

-----------------------------------------------------------------------------
(* Records.  make_package looks for an alert in the first byte of what it     *)
(* packs, where the type of the record would tell: a message that starts with *)
(* that byte goes out unsealed.                                               *)

Record(type, body) ==
    [type |-> type, sealed |-> FALSE, key |-> NoMaster, by |-> "none", seq |-> 0,
     body |-> body]
Sealed(s, n, r) ==
    [r EXCEPT !.sealed = TRUE, !.key = s.master, !.by = s.side, !.seq = s.wseq + n]

Package(s, type, bodies, alertlike) ==
    LET rs == [i \in 1..Len(bodies) |-> Record(type, bodies[i])]
    IN  IF s.wr /\ ~alertlike THEN [i \in 1..Len(rs) |-> Sealed(s, i - 1, rs[i])] ELSE rs

\* mk_nocipher cuts what is longer than TLS_CBCBLKSIZE.
Handshake(s, m) ==
    Package(s, "handshake",
            IF m.t = "certificate" /\ CertRecords = 2
            THEN <<Piece(m, "head"), Piece(m, "tail")>> ELSE <<Piece(m, "all")>>, FALSE)
ChangeCipherSpec(s) == Package(s, "change_cipher_spec", <<NoMsg>>, FALSE)

\* The cipher is on from the Finished, the first record it seals.
StartCipher(s) == [s EXCEPT !.wr = TRUE, !.wseq = 0]

Start(s) == [s |-> s, out |-> <<>>, res |-> "NONE"]
Fail(a) == [a EXCEPT !.res = "ERR"]
Alert(a) == [a EXCEPT !.res = "ERR", !.out = <<Record("alert", NoMsg)>>]

\* MakeAppRecord, of a message in as many records as it has parts.
MakeAppRecord(s, parts, alertlike) ==
    IF ~s.fin THEN Fail(Start(s))
    ELSE [Start(s) EXCEPT !.out = Package(s, "application_data", parts, alertlike),
                          !.s.wseq = IF alertlike THEN @ ELSE @ + Len(parts)]

\* Reset and mkr_ClientHelloMsg.
ClientHello(s, id) ==
    LET m == [t |-> "client_hello", rand |-> id]
        s1 == [Reset(s) EXCEPT !.cr = id, !.hmsg["cli_hello"] = m]
    IN  [Start(s1) EXCEPT !.out = Handshake(s1, m)]

-----------------------------------------------------------------------------
(* Handshake messages at the client.                                          *)

OnServerHello(a, m) ==
    IF ~a.s.open THEN Fail(a)
    ELSE [a EXCEPT !.s.hmsg["srv_hello"] = m, !.s.sr = m.rand]

\* Mutant: whatever certificate comes is taken.
OnServerCertificateAny(a, m) ==
    [a EXCEPT !.s.hmsg["srv_certificate"] = m, !.s.cert = m.key]
OnServerCertificate(a, m) ==
    IF ~a.s.open \/ a.s.trust \notin {AnyKey, m.key} THEN Fail(a)
    ELSE [a EXCEPT !.s.hmsg["srv_certificate"] = m, !.s.cert = m.key]

\* ClientKeyExchange, ChangeCipherSpec and Finished.
OnServerHelloDone(a, m, id) ==
    LET kx == [t |-> "client_key_exchange", to |-> a.s.cert, pre |-> id]
        s1 == [a.s EXCEPT !.master = [pre |-> id, cr |-> a.s.cr, sr |-> a.s.sr],
                          !.hmsg["srv_hellodone"] = m,
                          !.hmsg["cli_key_exchange"] = kx]
        s2 == StartCipher(s1)
        fm == Finished("client", s1, FALSE)
    IN  IF ~a.s.open THEN Fail(a)
        ELSE [a EXCEPT !.s = [s2 EXCEPT !.wseq = 1, !.hmsg["cli_finished"] = fm],
                       !.out = @ \o Handshake(s1, kx) \o ChangeCipherSpec(s1)
                                 \o Handshake(s2, fm)]

\* Mutant: what the last messages put out is cleared with the handshake.
EndHandshakeQuiet(a) ==
    [a EXCEPT !.s.open = FALSE, !.s.hmsg = NoHandshake, !.s.fin = TRUE, !.res = "HKOK",
              !.out = <<>>]
EndHandshake(a) ==
    [a EXCEPT !.s.open = FALSE, !.s.hmsg = NoHandshake, !.s.fin = TRUE, !.res = "HKOK"]

OnServerFinished(a, m) ==
    IF ~a.s.open THEN Fail(a)
    ELSE IF m # Finished("server", a.s, TRUE) THEN Alert(a)
    ELSE EndHandshake(a)

-----------------------------------------------------------------------------
(* Handshake messages at the server; ca is the key pair it has now.           *)

OnClientHello(a, m, ca, id) ==
    LET sh == [t |-> "server_hello", rand |-> id]
        ct == [t |-> "certificate", key |-> ca]
        hd == [t |-> "server_hello_done"]
        s1 == [a.s EXCEPT !.cr = m.rand, !.sr = id,
                          !.hmsg["cli_hello"] = m, !.hmsg["srv_hello"] = sh,
                          !.hmsg["srv_certificate"] = ct, !.hmsg["srv_hellodone"] = hd]
    IN  IF ~a.s.open THEN Fail(a)
        ELSE [a EXCEPT !.s = s1,
                       !.out = @ \o Handshake(s1, sh) \o Handshake(s1, ct) \o Handshake(s1, hd)]

OnClientKeyExchange(a, m, ca) ==
    IF ~a.s.open THEN Fail(a)
    ELSE IF m.to # ca THEN Alert(a)      \* PrivateDecrypt
    ELSE [a EXCEPT !.s.hmsg["cli_key_exchange"] = m,
                   !.s.master = [pre |-> m.pre, cr |-> a.s.cr, sr |-> a.s.sr]]

OnClientFinish(a, m) ==
    LET s1 == StartCipher([a.s EXCEPT !.hmsg["cli_finished"] = m])
    IN  IF ~a.s.open THEN Fail(a)
        ELSE IF m # Finished("client", a.s, FALSE) THEN Alert(a)
        ELSE EndHandshake([a EXCEPT !.s = [s1 EXCEPT !.wseq = 1],
                                    !.out = @ \o ChangeCipherSpec(a.s)
                                              \o Handshake(s1, Finished("server", s1, TRUE))])

\* dohandshakemsg of client and server: a record has one message or a part of it.
DoMessage(a, m, ca, id) ==
    LET client == a.s.side = "client" IN
    CASE client /\ m.t = "server_hello"           -> OnServerHello(a, m)
      [] client /\ m.t = "certificate"            -> OnServerCertificate(a, m)
      [] client /\ m.t = "server_hello_done"      -> OnServerHelloDone(a, m, id)
      [] client /\ m.t = "finished"               -> OnServerFinished(a, m)
      [] ~client /\ m.t = "client_hello"          -> OnClientHello(a, m, ca, id)
      [] ~client /\ m.t = "client_key_exchange"   -> OnClientKeyExchange(a, m, ca)
      [] ~client /\ m.t = "finished"              -> OnClientFinish(a, m)
      [] OTHER                                    -> Fail(a)

DoHandshakeMsg(a, p, ca, id) ==
    CASE ~Continues(a.s.pkgm, p) -> Fail(a)
      [] Continues(a.s.pkgm, p) /\ p.part = "head" -> [a EXCEPT !.s.pkgm = <<p>>, !.res = "NONE"]
      [] OTHER -> DoMessage([a EXCEPT !.s.pkgm = <<>>, !.res = "NONE"], p.of, ca, id)

-----------------------------------------------------------------------------
(* The record layer.                                                          *)

\* Mutant: the data of a record takes the place of that of the one before.
DoRecordLast(a, r, ca, id) ==
    CASE r.type = "handshake"          -> DoHandshakeMsg(a, r.body, ca, id)
      [] r.type = "alert"              -> [a EXCEPT !.res = "NONE"]
      [] r.type = "change_cipher_spec" -> [a EXCEPT !.s.rd = TRUE, !.s.rseq = 0, !.res = "NONE"]
      [] r.type = "application_data"   -> [a EXCEPT !.out = <<Record("data", r.body)>>,
                                                    !.res = "APPDATA"]
DoRecord(a, r, ca, id) ==
    CASE r.type = "handshake"          -> DoHandshakeMsg(a, r.body, ca, id)
      [] r.type = "alert"              -> [a EXCEPT !.res = "NONE"]
      [] r.type = "change_cipher_spec" -> [a EXCEPT !.s.rd = TRUE, !.s.rseq = 0, !.res = "NONE"]
      [] r.type = "application_data"   -> [a EXCEPT !.out = Append(@, Record("data", r.body)),
                                                    !.res = "APPDATA"]

Opens(s, r) ==
    r.sealed /\ r.key = s.master /\ r.by = Other(s.side) /\ r.seq = s.rseq

\* One turn of the loop of OnTcpRead.  Ciphertext that is taken for plain text
\* makes no handshake message.
TakeRecord(a, r, ca, id) ==
    CASE r.type = "data"                  -> IF a.s.rd THEN Fail(a) ELSE Alert(a)
      [] r.type # "data" /\ a.s.rd        -> IF ~Opens(a.s, r) THEN Fail(a)
                                            ELSE DoRecord([a EXCEPT !.s.rseq = @ + 1], r, ca, id)
      [] OTHER                            -> IF r.sealed THEN Fail(a) ELSE DoRecord(a, r, ca, id)

TakePiece(a, p, ca, id) ==
    CASE a.res = "ERR" -> a
      [] a.res # "ERR" /\ ~Continues(a.s.tcp, p) -> IF a.s.rd THEN Fail(a) ELSE Alert(a)
      [] OTHER -> IF p.part = "head" THEN [a EXCEPT !.s.tcp = <<p>>]
                  ELSE TakeRecord([a EXCEPT !.s.tcp = <<>>], p.of, ca, id)

\* The steps OnTcpRead may make, one in fact.  The result is that of the last
\* record, whatever the ones before gave.
OnTcpRead(s, data, ca, id) ==
    LET After[n \in 0..Len(data)] ==
            IF n = 0 THEN {Start(s)} ELSE {TakePiece(a, data[n], ca, id) : a \in After[n - 1]}
    IN  After[Len(data)]
=============================================================================
