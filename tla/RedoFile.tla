------------------------------- MODULE RedoFile -------------------------------
(***************************************************************************)
(* The redo log of src/ec_redofile.h.  Threads append blocks under a mutex, *)
(* a 16 byte head and then the body, to a file that is chosen by the time   *)
(* of day; another redofile object scans a file meanwhile or after a crash. *)
(* Linux build, class ec::File below it.                                    *)
(*                                                                          *)
(* A file is a sequence of units.  Unit number part of block blk belongs to *)
(* the head if part <= HeadLen and to the body otherwise; a head parses     *)
(* only as a whole and in place (magic and crc), a body says nothing of     *)
(* itself unless it is compressed.                                          *)
(***************************************************************************)
EXTENDS Integers, Sequences, SequencesExt

CONSTANTS
    Threads,     \* threads that share the object and its mutex
    Blocks,      \* blocks that are appended, each once
    Size,        \* Size[b]: units of the body of block b
    Packed,      \* the blocks that are compressed with zlib
    LastPeriod,  \* bound: periods of SECONDS_REDOFILE that are explored
    MaxCrashes,  \* bound: how often the process dies
    Hazards,     \* a subset of {"openFault", "writeFault", "shortWrite"}
    Null

HeadLen == 2     \* SIZE_REDOLOG_BLKHEAD, in units: a head can be torn
Periods == 1 .. LastPeriod
Length(b) == HeadLen + Size[b]
May(hazard) == hazard \in Hazards

ASSUME RedoAssumption ==
    /\ Size \in [Blocks -> Nat \ {0}]
    /\ Packed \subseteq Blocks
    /\ LastPeriod \in Nat \ {0}
    /\ MaxCrashes \in Nat
    /\ Hazards \subseteq {"openFault", "writeFault", "shortWrite"}
    /\ Null \notin Blocks \cup Threads

VARIABLES
    now,      \* ::time(nullptr), in periods
    log,      \* log[f]: the units in the file of period f
    made,     \* the periods whose file exists
    timet,    \* _timet, 0 = none yet
    open,     \* the period whose file _file has open, 0 = closed
    mutex,    \* the thread in appendblk that holds *_pmutex
    pc,       \* per thread: idle, wait (for the mutex), head, body
    blk,      \* per thread: the block it appends
    called,   \* per thread: the time of its call
    acked,    \* the blocks appendblk returned 0 for, with their files, in order
    crashes,
    scan      \* the running or last redo_onefile of the other object

vars == <<now, log, made, timet, open, mutex, pc, blk, called, acked, crashes, scan>>
object == <<timet, open>>
threads == <<mutex, pc, blk, called>>

Unit == [blk : Blocks, part : Nat \ {0}]

\* The units of block b from number k to number m.
Piece(b, k, m) == [j \in 1 .. (m - k + 1) |-> [blk |-> b, part |-> k + j - 1]]
HeadOf(b) == Piece(b, 1, HeadLen)
BodyOf(b) == Piece(b, HeadLen + 1, Length(b))

NoScan == [state |-> "none", file |-> 1, pos |-> 0, head |-> Null,
           out |-> <<>>, num |-> 0, before |-> {}]

TypeOK ==
    /\ now \in Periods
    /\ log \in [Periods -> Seq(Unit)]
    /\ made \subseteq Periods
    /\ timet \in 0 .. LastPeriod
    /\ open \in 0 .. LastPeriod
    /\ mutex \in Threads \cup {Null}
    /\ pc \in [Threads -> {"idle", "wait", "head", "body"}]
    /\ blk \in [Threads -> Blocks \cup {Null}]
    /\ called \in [Threads -> Periods]
    /\ acked \in Seq([blk : Blocks, file : Periods])
    /\ crashes \in 0 .. MaxCrashes
    /\ scan.state \in {"none", "head", "body", "done"}
    /\ scan.file \in Periods
    /\ scan.pos \in 0 .. Len(log[scan.file])
    /\ scan.head \in Blocks \cup {Null}
    /\ scan.out \in Seq([head : Blocks, body : Seq(Unit)])
    /\ scan.num \in {-1, Len(scan.out)}

Init ==
    /\ now = 1
    /\ log = [f \in Periods |-> <<>>]
    /\ made = {}
    /\ timet = 0
    /\ open = 0
    /\ mutex = Null
    /\ pc = [t \in Threads |-> "idle"]
    /\ blk = [t \in Threads |-> Null]
    /\ called = [t \in Threads |-> 1]
    /\ acked = <<>>
    /\ crashes = 0
    /\ scan = NoScan

-----------------------------------------------------------------------------
(* appendblk.                                                                *)

Used == { blk[t] : t \in Threads } \cup UNION { { u.blk : u \in ToSet(log[f]) } : f \in Periods }

Call(t, b) ==
    /\ pc[t] = "idle"
    /\ b \notin Used
    /\ pc' = [pc EXCEPT ![t] = "wait"]
    /\ blk' = [blk EXCEPT ![t] = b]
    /\ called' = [called EXCEPT ![t] = now]
    /\ UNCHANGED <<now, log, made, object, mutex, acked, crashes, scan>>

Return(t) ==
    /\ mutex' = Null
    /\ pc' = [pc EXCEPT ![t] = "idle"]
    /\ blk' = [blk EXCEPT ![t] = Null]
    /\ UNCHANGED called

\* The file that is open once the time was looked at: another period closes it.
Rotated == IF timet = now THEN open ELSE 0

\* Mutants: the mutex is not taken; the time is looked at before it is taken.
EnterUnlocked(t) ==
    /\ pc[t] = "wait"
    /\ timet' = now
    /\ open' = now
    /\ made' = made \cup {now}
    /\ mutex' = t
    /\ pc' = [pc EXCEPT ![t] = "head"]
    /\ UNCHANGED <<now, log, blk, called, acked, crashes, scan>>

EnterEarly(t) ==
    /\ pc[t] = "wait"
    /\ mutex = Null
    /\ timet' = called[t]
    /\ open' = called[t]
    /\ made' = made \cup {called[t]}
    /\ mutex' = t
    /\ pc' = [pc EXCEPT ![t] = "head"]
    /\ UNCHANGED <<now, log, blk, called, acked, crashes, scan>>

\* The mutex is taken, the file of the time closed or opened.
Enter(t) ==
    /\ pc[t] = "wait"
    /\ mutex = Null
    /\ timet' = now
    /\ \/ /\ open' = IF Rotated = 0 THEN now ELSE Rotated
          /\ made' = made \cup {now}
          /\ mutex' = t
          /\ pc' = [pc EXCEPT ![t] = "head"]
          /\ UNCHANGED <<blk, called>>
       \/ /\ Rotated = 0 /\ May("openFault")
          /\ open' = 0
          /\ Return(t)
          /\ UNCHANGED made
    /\ UNCHANGED <<now, log, acked, crashes, scan>>

\* A call without a block only switches files.
SwitchFile ==
    /\ mutex = Null
    /\ timet' = now
    /\ open' = Rotated
    /\ UNCHANGED <<now, log, made, threads, acked, crashes, scan>>

\* Close(), and redo_onefile() of this object while no call appends.
Close ==
    /\ mutex = Null
    /\ open # 0
    /\ open' = 0
    /\ UNCHANGED <<now, log, made, timet, threads, acked, crashes, scan>>

\* write(): all of the units, none and an error, or some of them, which
\* counts as success because only a negative result is looked at.
Wrote(units, ok) ==
    \E m \in 0 .. Len(units) :
        /\ log' = [log EXCEPT ![open] = @ \o SubSeq(units, 1, m)]
        /\ \/ m = Len(units) /\ ok
           \/ m > 0 /\ m < Len(units) /\ ok /\ May("shortWrite")
           \/ m = 0 /\ ~ok /\ May("writeFault")

\* Mutant: the result of writing the head is not looked at.
WriteHeadUnchecked(t) ==
    /\ pc[t] = "head"
    /\ \E ok \in BOOLEAN : Wrote(HeadOf(blk[t]), ok)
    /\ pc' = [pc EXCEPT ![t] = "body"]
    /\ UNCHANGED <<now, made, object, mutex, blk, called, acked, crashes, scan>>

WriteHead(t) ==
    /\ pc[t] = "head"
    /\ \/ Wrote(HeadOf(blk[t]), TRUE) /\ pc' = [pc EXCEPT ![t] = "body"] /\ UNCHANGED <<mutex, blk, called>>
       \/ Wrote(HeadOf(blk[t]), FALSE) /\ Return(t)
    /\ UNCHANGED <<now, made, object, acked, crashes, scan>>

WriteBody(t) ==
    /\ pc[t] = "body"
    /\ \/ /\ Wrote(BodyOf(blk[t]), TRUE)
          /\ acked' = Append(acked, [blk |-> blk[t], file |-> open])
       \/ /\ Wrote(BodyOf(blk[t]), FALSE)
          /\ UNCHANGED acked
    /\ Return(t)
    /\ UNCHANGED <<now, made, object, crashes, scan>>

-----------------------------------------------------------------------------
(* redo_onefile, by an object of its own; it takes no mutex.                  *)

\* The blocks appendblk returned 0 for, in file f.
AckedIn(f) == {acked[k].blk : k \in {i \in DOMAIN acked : acked[i].file = f}}

StartScan(f) ==
    /\ scan.state \in {"none", "done"}
    /\ f \in made
    /\ scan' = [NoScan EXCEPT !.state = "head", !.file = f,
                              !.before = AckedIn(f)]
    /\ UNCHANGED <<now, log, made, object, threads, acked, crashes>>

Rest == SubSeq(log[scan.file], scan.pos + 1, Len(log[scan.file]))

\* Fewer bytes than a head end the scan, a head that does not parse fails it.
ScanHead ==
    /\ scan.state = "head"
    /\ scan' =
          IF Len(Rest) < HeadLen THEN [scan EXCEPT !.state = "done"]
          ELSE IF SubSeq(Rest, 1, HeadLen) # HeadOf(Rest[1].blk)
               THEN [scan EXCEPT !.state = "done", !.num = -1]
          ELSE [scan EXCEPT !.state = "body", !.head = Rest[1].blk, !.pos = @ + HeadLen]
    /\ UNCHANGED <<now, log, made, object, threads, acked, crashes>>

\* Mutant: the number of bytes read for the body is not looked at.
ScanBodyUnchecked ==
    LET b == scan.head
        m == IF Len(Rest) < Size[b] THEN Len(Rest) ELSE Size[b]
    IN  /\ scan.state = "body"
        /\ scan' = [scan EXCEPT !.state = "head", !.pos = @ + m, !.num = @ + 1,
                                !.out = Append(@, [head |-> b, body |-> SubSeq(Rest, 1, m)])]
        /\ UNCHANGED <<now, log, made, object, threads, acked, crashes>>

\* A body that is too short or cannot be decompressed fails the scan; any
\* other goes to the caller, who may stop it.
ScanBody ==
    LET b == scan.head
        body == SubSeq(Rest, 1, Size[b])
    IN  /\ scan.state = "body"
        /\ \/ scan' = IF Len(Rest) < Size[b] \/ (b \in Packed /\ body # BodyOf(b))
                      THEN [scan EXCEPT !.state = "done", !.num = -1]
                      ELSE [scan EXCEPT !.state = "head", !.pos = @ + Size[b], !.num = @ + 1,
                                        !.out = Append(@, [head |-> b, body |-> body])]
           \/ scan' = NoScan
        /\ UNCHANGED <<now, log, made, object, threads, acked, crashes>>

-----------------------------------------------------------------------------
(* The rest of the world.                                                    *)

Tick ==
    /\ now < LastPeriod
    /\ now' = now + 1
    /\ UNCHANGED <<log, made, object, threads, acked, crashes, scan>>

\* The process of the threads dies; a write under way may be cut.
Crash ==
    /\ crashes < MaxCrashes
    /\ crashes' = crashes + 1
    /\ \/ UNCHANGED log
       \/ /\ mutex # Null
          /\ LET units == IF pc[mutex] = "head" THEN HeadOf(blk[mutex]) ELSE BodyOf(blk[mutex])
             IN  \E m \in 1 .. Len(units) :
                    log' = [log EXCEPT ![open] = @ \o SubSeq(units, 1, m)]
    /\ timet' = 0
    /\ open' = 0
    /\ mutex' = Null
    /\ pc' = [t \in Threads |-> "idle"]
    /\ blk' = [t \in Threads |-> Null]
    /\ UNCHANGED <<now, made, called, acked, scan>>

Next ==
    \/ \E t \in Threads :
          \/ \E b \in Blocks : Call(t, b)
          \/ Enter(t) \/ WriteHead(t) \/ WriteBody(t)
    \/ SwitchFile \/ Close
    \/ \E f \in Periods : StartScan(f)
    \/ ScanHead \/ ScanBody
    \/ Tick
    \/ Crash

Spec == Init /\ [][Next]_vars

-----------------------------------------------------------------------------
(* Properties.                                                               *)

\* The units of a block lie together and in order, whatever the threads do: a
\* unit that does not begin a block follows one of the same block; and the
\* log and its scan stay of their type.
BlocksApart ==
    TypeOK /\ \A f \in Periods : \A k \in DOMAIN log[f] :
        \/ log[f][k].part = 1
        \/ /\ k > 1
           /\ log[f][k - 1].blk = log[f][k].blk
           /\ log[f][k - 1].part < log[f][k].part

\* Block b is in file f, whole.
Whole(b, f) ==
    \E k \in 0 .. Len(log[f]) - Length(b) :
        SubSeq(log[f], k + 1, k + Length(b)) = Piece(b, 1, Length(b))

\* "return 0: success" (appendblk): the block is in the file, whole.
AckedWhole == \A k \in DOMAIN acked : Whole(acked[k].blk, acked[k].file)

\* Blocks are logged in the order of time: a block goes to the file of a period
\* in which its call was running, and to no older file than the one before it.
LoggedInTime ==
    [][ acked' # acked
            => /\ \A t \in Threads : WriteBody(t) => Last(acked').file \in called[t] .. now
               /\ acked # <<>> => Last(acked').file >= Last(acked).file ]_vars

\* The number of leading units of file f that form whole blocks.
Sound(f) ==
    LET ends == { k \in 0 .. Len(log[f]) :
                    \A j \in 1 .. k :
                        LET u == log[f][j]
                            first == j - u.part + 1
                        IN  /\ first >= 1
                            /\ first + Length(u.blk) - 1 <= k
                            /\ SubSeq(log[f], first, first + Length(u.blk) - 1)
                                   = Piece(u.blk, 1, Length(u.blk)) }
    IN  CHOOSE k \in ends : \A j \in ends : j <= k

Delivered(b) == [head |-> b, body |-> BodyOf(b)]

\* Where the whole blocks begin that the file has up to the first torn one.
Starts(f) == { k \in 1 .. Sound(f) : log[f][k].part = 1 }

\* A scan delivers, in order and unchanged, the whole blocks of the file up to the
\* first one that was torn; of these every one that was logged before it began.
ScanComplete ==
    scan.state = "done" =>
        LET starts == Starts(scan.file)
            nth(k) == Cardinality({ j \in starts : j <= k })
        IN  \A k \in starts :
                LET b == log[scan.file][k].blk
                IN  /\ b \in scan.before => nth(k) \in DOMAIN scan.out
                    /\ nth(k) \in DOMAIN scan.out => scan.out[nth(k)] = Delivered(b)

\* "the number of blocks, -1 means an error" (redo_onefile): a scan that does
\* not fail has delivered only blocks that were appended.
ScanSound ==
    scan.state = "done" /\ scan.num >= 0 =>
        \A k \in DOMAIN scan.out : scan.out[k] = Delivered(scan.out[k].head)

=============================================================================
