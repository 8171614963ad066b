----------------------------- MODULE Descriptors ------------------------------
(***************************************************************************)
(* The table of netio_linux (src/ec_aiolinux.h): a virtual descriptor, the *)
(* key, for each system descriptor, and the events last given to epoll for *)
(* it.  Keys are handed out in rising order, so that a key that was closed *)
(* is not met again for as long as possible.                               *)
(***************************************************************************)
EXTENDS Integers, FiniteSets

CONSTANTS
    Conns,        \* TCP connections, each with a system descriptor of its own
    INT32_MAX,    \* keys are 1 .. INT32_MAX - 1
    SIZE_MAX_FD,  \* the limits of the table: a macro, one value in each build
    FirstFd       \* the last key used, as SetFdFile reads it from the key file

NoConn == "none"   \* of the epoll and the listening descriptor

\* At least one key is free whenever the table is not full.
ASSUME KeysAssumption ==
    /\ NoConn \notin Conns
    /\ INT32_MAX \in Nat
    /\ SIZE_MAX_FD \subseteq 2..(INT32_MAX - 2)
    /\ FirstFd \in 0..(INT32_MAX - 1)

VARIABLES
    limit,   \* the value of SIZE_MAX_FD in this build
    fds,     \* _mapfd: [key -> [type, conn, pollevents]]
    nextfd   \* _nextfd, the key handed out last

Keys == 1..(INT32_MAX - 1)
FdTypes == {"fd_tcp", "fd_tcpout", "fd_listen", "fd_epoll"}

\* Mutant: the lowest key that is free, as the system does.
LowestFree == CHOOSE k \in Keys \ DOMAIN fds : \A j \in Keys \ DOMAIN fds : k <= j

\* nextfd(): the first key after nextfd, around the end of the range, that is not in use.
FirstFree ==
    LET away(k) == (k - nextfd - 1) % (INT32_MAX - 1)
    IN  CHOOSE k \in Keys \ DOMAIN fds :
            \A j \in Keys \ DOMAIN fds : away(k) <= away(j)

Full == Cardinality(DOMAIN fds) >= limit

\* setfd: the descriptor of connection c under key k; epoll_ctl(ADD) follows.
SetFd(k, type, c) ==
    fds' = [j \in DOMAIN fds \union {k} |->
              IF j = k THEN [type |-> type, conn |-> c,
                             pollevents |-> {"EPOLLIN", "EPOLLOUT"}]
              ELSE fds[j]]

Without(k) == [j \in DOMAIN fds \ {k} |-> fds[j]]

TcpFds == {k \in DOMAIN fds : fds[k].type \in {"fd_tcp", "fd_tcpout"}}
ListenFds == {k \in DOMAIN fds : fds[k].type = "fd_listen"}

\* open() and tcplisten(): the epoll descriptor and one listening socket.
InitFds ==
    LET after(k) == IF k + 1 = INT32_MAX THEN 1 ELSE k + 1
        ep == after(FirstFd)
        ls == after(ep)
    IN  /\ fds = [k \in {ep, ls} |->
                    [type |-> IF k = ep THEN "fd_epoll" ELSE "fd_listen",
                     conn |-> NoConn,
                     pollevents |-> IF k = ep THEN {} ELSE {"EPOLLIN"}]]
        /\ nextfd = ls
        /\ limit \in SIZE_MAX_FD
=============================================================================
