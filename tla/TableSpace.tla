------------------------------ MODULE TableSpace ------------------------------
(***************************************************************************)
(* The table space of src/ec_tbs.h: page allocation, release and growth on  *)
(* the disk image, one disk write per step.                                 *)
(*                                                                          *)
(* Free pages are linked through the first 24 bytes of each page            *)
(* (tbs_freepagehead); the entry of the chain, the number of pages and the  *)
(* number of free pages (tbs_info) are kept in memory and saved in the      *)
(* first file after every change.  The class has no lock: one call runs at  *)
(* a time, and pc says how far it got.  Between any two steps the process   *)
(* may die; the writes already made survive it.                             *)
(***************************************************************************)
EXTENDS Integers, FiniteSets

CONSTANTS
    PageLimit,   \* bound: pages the disk has room for, a write beyond fails
    FilePages,   \* filepages(): pages per file
    MaxFiles,    \* _args._maxfiles, 0 = no limit
    Grow,        \* pages added by one grownfilepages (256 in the code)
    Hazards,     \* what may go wrong besides a crash, see HazardKinds
    NotFree      \* a page head that does not parse as a tbs_freepagehead

HazardKinds ==
    { "readFault",    \* a read, or the opening of a file, fails
      "writeFault",   \* a write fails
      "damage",       \* the head of a page nobody owns is overwritten
      "freeAgain" }   \* clients call pagefree on pages they do not own

Pages == 0 .. PageLimit - 1
Files == 0 .. PageLimit \div FilePages
Links == (0 .. PageLimit) \cup {-1}   \* growing may name the page past the end

ASSUME SizesAssumption ==
    /\ PageLimit \in Nat \ {0}
    /\ FilePages \in Nat \ {0}
    /\ MaxFiles \in Nat
    /\ Grow \in Nat \ {0}
    /\ FilePages % Grow = 0
    /\ Hazards \subseteq HazardKinds
ASSUME NotFreeAssumption == NotFree \notin Int

VARIABLES
    file,    \* per file: no file, a file without its head page, a good file
    head,    \* per page: the link of the free page head on disk, or NotFree
    dsk,     \* the tbs_info saved in the first file
    mem,     \* the tbs_info of the running process, _info
    isopen,  \* the process has the table space open
    pc,      \* the next step of the running call, "idle" if there is none
    pgno,    \* the page the running call works on
    n,       \* pagealloc: how often it may still try (int n)
    i,       \* grownfilepages: pages written so far
    held     \* the pages the clients own; they remember them across crashes

vars == <<file, head, dsk, mem, isopen, pc, pgno, n, i, held>>
call == <<pgno, n, i>>
image == <<file, head, dsk>>

InfoType == [numall : Nat, next : Links, nfree : Int]
NewInfo == [numall |-> 0, next |-> -1, nfree |-> 0]

May(hazard) == hazard \in Hazards
FileOf(p) == p \div FilePages

-----------------------------------------------------------------------------
(* The pages reached from a chain entry, as pagealloc would pop them: the   *)
(* walk ends at -1 or at a page whose head does not parse.                   *)

Parses(p) == p \in Pages /\ head[p] # NotFree

Walk(next) ==
    LET step[k \in 0 .. PageLimit] ==
            IF k = 0 THEN next
            ELSE IF Parses(step[k - 1]) THEN head[step[k - 1]] ELSE -1
    IN  step

FreePages(next) ==
    LET w == Walk(next) IN { w[k] : k \in { j \in 0 .. PageLimit : Parses(w[j]) } }

-----------------------------------------------------------------------------
TypeOK ==
    /\ file \in [Files -> {"absent", "headless", "ready"}]
    /\ head \in [Pages -> Links \cup {NotFree}]
    /\ dsk \in InfoType
    /\ mem \in InfoType
    /\ isopen \in BOOLEAN
    /\ pc \in {"idle", "create", "growFile", "growHead", "growPage", "growInfo",
               "pop", "fill", "free", "freeHead", "freeInfo"}
    /\ pgno \in Pages
    /\ n \in {0, 1}
    /\ i \in 0 .. Grow
    /\ held \subseteq Pages

\* Nothing on the disk yet.  head says NotFree of space no file contains.
Init ==
    /\ file = [f \in Files |-> "absent"]
    /\ head = [p \in Pages |-> NotFree]
    /\ dsk = NewInfo
    /\ mem = NewInfo
    /\ isopen = FALSE
    /\ pc = "idle"
    /\ pgno = 0
    /\ n = 0
    /\ i = 0
    /\ held = {}

\* A call goes on at another step, or returns and its locals are gone.
Goto(label) == pc' = label /\ UNCHANGED call
Return == pc' = "idle" /\ pgno' = 0 /\ n' = 0 /\ i' = 0

\* updateinfo() after _info became v: the write may fail, and the memory
\* keeps v all the same.
UpdateInfo(v, saved) ==
    /\ mem' = v
    /\ dsk' = IF saved THEN v ELSE dsk
    /\ saved \/ May("writeFault")

-----------------------------------------------------------------------------
(* Create and Open.                                                          *)

\* Create() refuses an existing file; the new one has no head page yet.
CreateFile ==
    /\ pc = "idle" /\ ~isopen
    /\ file[0] = "absent"
    /\ file' = [file EXCEPT ![0] = "headless"]
    /\ Goto("create")
    /\ UNCHANGED <<head, dsk, mem, isopen, held>>

\* Create() writes the head page with _args and _info.
CreateHead ==
    /\ pc = "create"
    /\ \/ /\ file' = [file EXCEPT ![0] = "ready"]
          /\ dsk' = mem
          /\ isopen' = TRUE
       \/ /\ May("writeFault")
          /\ UNCHANGED <<file, dsk, isopen>>
    /\ Return
    /\ UNCHANGED <<head, mem, held>>

\* Open() reads _info back; it fails on a file without a head page.
Open ==
    /\ pc = "idle" /\ ~isopen
    /\ file[0] = "ready"
    /\ mem' = dsk
    /\ isopen' = TRUE
    /\ UNCHANGED <<image, pc, call, held>>

-----------------------------------------------------------------------------
(* pagealloc.                                                                *)

\* Mutant: one file too many.
FullTooLate == MaxFiles # 0 /\ FileOf(mem.numall) > MaxFiles

Full == MaxFiles # 0 /\ FileOf(mem.numall) >= MaxFiles

\* No free page: grow once, unless the table space is full (tbs_err_full).
AllocGrow ==
    /\ pc = "idle" /\ isopen
    /\ mem.next = -1
    /\ ~Full
    /\ n' = 0
    /\ pc' = "growFile"
    /\ UNCHANGED <<image, mem, isopen, pgno, i, held>>

AllocPop ==
    /\ pc = "idle" /\ isopen
    /\ mem.next # -1
    /\ n' = 1
    /\ pc' = "pop"
    /\ UNCHANGED <<image, mem, isopen, pgno, i, held>>

\* openpagefile(nfileno) failed; only the first file is always open.
PopOpenFails ==
    /\ pc = "pop"
    /\ May("readFault")
    /\ FileOf(mem.next) # 0
    /\ Return
    /\ UNCHANGED <<image, mem, isopen, held>>

\* Mutant: the head is read again, without counting the tries.
PopRetryUncounted ==
    /\ pc = "pop"
    /\ May("readFault") \/ ~Parses(mem.next)
    /\ UNCHANGED <<image, mem, isopen, pc, call, held>>

\* The head of the first free page cannot be read or does not parse: the
\* space is grown instead, if this was the first try.
PopRetry ==
    /\ pc = "pop"
    /\ May("readFault") \/ ~Parses(mem.next)
    /\ \/ n = 1 /\ n' = 0 /\ pc' = "growFile" /\ UNCHANGED <<pgno, i>>
       \/ n = 0 /\ Return
    /\ UNCHANGED <<image, mem, isopen, held>>

\* Mutant: the result of updateinfo is not looked at.
PopUnsaved ==
    /\ pc = "pop"
    /\ Parses(mem.next)
    /\ \E saved \in BOOLEAN :
          UpdateInfo([mem EXCEPT !.next = head[mem.next], !.nfree = @ - 1], saved)
    /\ pc' = "fill" /\ pgno' = mem.next
    /\ UNCHANGED <<file, head, isopen, n, i, held>>

\* The page leaves the chain and the new entry is saved; a failure there
\* ends the call with the page off the chain.
Pop ==
    /\ pc = "pop"
    /\ Parses(mem.next)
    /\ \E saved \in BOOLEAN :
          /\ UpdateInfo([mem EXCEPT !.next = head[mem.next], !.nfree = @ - 1], saved)
          /\ IF saved THEN pc' = "fill" /\ pgno' = mem.next /\ UNCHANGED <<n, i>> ELSE Return
    /\ UNCHANGED <<file, head, isopen, held>>

\* 0xFF over the page head, the result of the write is not looked at; the
\* client has the page.
Fill ==
    /\ pc = "fill"
    /\ \/ head' = [head EXCEPT ![pgno] = NotFree]
       \/ May("writeFault") /\ UNCHANGED head
    /\ held' = held \cup {pgno}
    /\ Return
    /\ UNCHANGED <<file, dsk, mem, isopen>>

-----------------------------------------------------------------------------
(* grownpages, createpagefile and grownfilepages.                            *)

LastFile == FileOf(mem.numall)

\* Mutant: a new file is used without its head page.
GrowFileHeadless ==
    /\ pc = "growFile"
    /\ IF file[LastFile] = "absent"
       THEN file' = [file EXCEPT ![LastFile] = "headless"] ELSE UNCHANGED file
    /\ Goto("growPage")
    /\ UNCHANGED <<head, dsk, mem, isopen, held>>

\* The file that gets the new pages exists, is created (without its head
\* page yet) or, existing without a head page, is refused by openpagefile.
GrowFile ==
    /\ pc = "growFile"
    /\ \/ /\ file[LastFile] = "absent"
          /\ file' = [file EXCEPT ![LastFile] = "headless"]
          /\ Goto("growHead")
       \/ /\ file[LastFile] = "ready"
          /\ Goto("growPage")
          /\ UNCHANGED file
       \/ /\ \/ file[LastFile] = "headless"
             \/ May("readFault") /\ LastFile # 0
             \/ May("writeFault")
          /\ Return
          /\ UNCHANGED file
    /\ UNCHANGED <<head, dsk, mem, isopen, held>>

\* createpagefile() writes the head page of the new file.
GrowHead ==
    /\ pc = "growHead"
    /\ \/ /\ file' = [file EXCEPT ![LastFile] = "ready"]
          /\ Goto("growPage")
       \/ /\ May("writeFault")
          /\ Return
          /\ UNCHANGED file
    /\ UNCHANGED <<head, dsk, mem, isopen, held>>

\* One turn of the loop of grownfilepages: the new pages link to each other,
\* the last one to the chain as it was.
GrowPage ==
    LET p == mem.numall + i
    IN  /\ pc = "growPage"
        /\ \/ /\ p \in Pages
              /\ head' = [head EXCEPT ![p] =
                              IF i + 1 = Grow THEN mem.next ELSE p + 1]
              /\ i' = i + 1
              /\ pc' = IF i + 1 = Grow THEN "growInfo" ELSE "growPage"
              /\ UNCHANGED <<pgno, n>>
           \/ /\ p \notin Pages \/ May("writeFault")
              /\ Return
              /\ UNCHANGED head
        /\ UNCHANGED <<file, dsk, mem, isopen, held>>

\* Mutant: the last new page is not counted.
GrowInfoShort ==
    /\ pc = "growInfo"
    /\ UpdateInfo([numall |-> mem.numall + Grow - 1, next |-> mem.numall,
                   nfree |-> mem.nfree + Grow], TRUE)
    /\ Goto("pop")
    /\ UNCHANGED <<file, head, isopen, held>>

\* The information is changed last; then pagealloc goes on with the new pages.
GrowInfo ==
    /\ pc = "growInfo"
    /\ \E saved \in BOOLEAN :
          /\ UpdateInfo([numall |-> mem.numall + Grow, next |-> mem.numall,
                         nfree |-> mem.nfree + Grow], saved)
          /\ IF saved THEN Goto("pop") ELSE Return
    /\ UNCHANGED <<file, head, isopen, held>>

-----------------------------------------------------------------------------
(* pagefree.  The call takes the page away from the client whatever it       *)
(* returns: every caller in ec_dbtable.h and ec_dbindex.h forgets the page.  *)

FreeCall(p) ==
    /\ pc = "idle" /\ isopen
    /\ p < mem.numall
    /\ p \in held \/ May("freeAgain")
    /\ pgno' = p
    /\ held' = held \ {p}
    /\ pc' = "free"
    /\ UNCHANGED <<image, mem, isopen, n, i>>

\* Mutant: the head is not read back.
FreeReadSkipped ==
    /\ pc = "free"
    /\ Goto("freeHead")
    /\ UNCHANGED <<image, mem, isopen, held>>

\* The head is read back to see whether the page is free already.  The result
\* of the read is not looked at: a failed read leaves zeros, that is "in use".
FreeRead ==
    /\ pc = "free"
    /\ \/ Parses(pgno) /\ Return
       \/ (May("readFault") \/ ~Parses(pgno)) /\ Goto("freeHead")
       \/ May("readFault") /\ FileOf(pgno) # 0 /\ Return
    /\ UNCHANGED <<image, mem, isopen, held>>

\* Mutant: the freed page does not link to the chain.
FreeHeadUnlinked ==
    /\ pc = "freeHead"
    /\ head' = [head EXCEPT ![pgno] = -1]
    /\ Goto("freeInfo")
    /\ UNCHANGED <<file, dsk, mem, isopen, held>>

FreeHead ==
    /\ pc = "freeHead"
    /\ \/ /\ head' = [head EXCEPT ![pgno] = mem.next]
          /\ Goto("freeInfo")
       \/ /\ May("writeFault")
          /\ Return
          /\ UNCHANGED head
    /\ UNCHANGED <<file, dsk, mem, isopen, held>>

FreeInfo ==
    /\ pc = "freeInfo"
    /\ \E saved \in BOOLEAN :
          UpdateInfo([mem EXCEPT !.next = pgno, !.nfree = @ + 1], saved)
    /\ Return
    /\ UNCHANGED <<file, head, isopen, held>>

-----------------------------------------------------------------------------
(* The rest of the world.                                                    *)

\* writepage() by the owner of the page, from offset 0 on.
WritePage(p) ==
    /\ pc = "idle" /\ isopen
    /\ p \in held
    /\ head' = [head EXCEPT ![p] = NotFree]
    /\ UNCHANGED <<file, dsk, mem, isopen, pc, call, held>>

\* The head of a page nobody owns is lost: a bad sector, or writepage() by a
\* client that kept using a page it had freed.
Damage(p) ==
    /\ May("damage")
    /\ pc = "idle" /\ isopen
    /\ p < mem.numall
    /\ p \notin held
    /\ head' = [head EXCEPT ![p] = NotFree]
    /\ UNCHANGED <<file, dsk, mem, isopen, pc, call, held>>

\* The process dies, or destroys the object.
Crash ==
    /\ isopen \/ pc # "idle"
    /\ isopen' = FALSE
    /\ mem' = NewInfo
    /\ Return
    /\ UNCHANGED <<image, held>>

\* The steps of a running call.
Step ==
    \/ CreateHead
    \/ PopOpenFails \/ PopRetry \/ Pop \/ Fill
    \/ GrowFile \/ GrowHead \/ GrowPage \/ GrowInfo
    \/ FreeRead \/ FreeHead \/ FreeInfo

Next ==
    \/ Step
    \/ CreateFile \/ Open
    \/ AllocGrow \/ AllocPop
    \/ \E p \in Pages : FreeCall(p) \/ WritePage(p) \/ Damage(p)
    \/ Crash

Spec == Init /\ [][Next]_vars

\* A call that was made runs on: the thread that made it does nothing else.
FairSpec == Spec /\ WF_vars(Step)

-----------------------------------------------------------------------------
(* Properties.                                                               *)

\* The page pagealloc is about to return belongs to no client, lies inside the
\* saved space, and is the entry of neither the chain in memory nor the saved
\* one: no other call and no restart hands it out again.
GrantFresh ==
    pc = "fill" => /\ pgno \notin held
                   /\ pgno < dsk.numall
                   /\ pgno \notin {mem.next, dsk.next}

\* A restart takes no page from a client, whatever step the process dies in:
\* none is on the chain it finds, for pagealloc saves _info before it returns
\* the page, and none lies behind the saved space, where it would grow.
GrantsDurable ==
    /\ FreePages(dsk.next) \cap held = {}
    /\ \A p \in held : p < dsk.numall

\* A free chain, in memory or on disk, ends after as many pages as its counter
\* says, and lies inside the space, however often clients free the same page.
\* (Without damaged pages and failed reads.)
ChainSound ==
    \A info \in {mem, dsk} :
        /\ Walk(info.next)[PageLimit] = -1
        /\ \A p \in FreePages(info.next) : p < info.numall
        /\ info.nfree = Cardinality(FreePages(info.next))

\* "Pages are preallocated, no file needs to be created any more" (writepage):
\* the file of every page of the space exists, with its head page.
FilesPrecedePages ==
    \A p \in Pages :
        p < mem.numall \/ p < dsk.numall => file[FileOf(p)] = "ready"

\* maxfiles is the largest number of files the space may have.  (Without damaged
\* pages and failed reads: pagealloc then grows the space without looking.)
Capacity == MaxFiles # 0 => mem.numall <= MaxFiles * FilePages

\* Pages that nobody owns and pagealloc cannot reach.
Lost ==
    LET info == IF isopen THEN mem ELSE dsk
    IN  { p \in Pages : p < info.numall } \ (held \cup FreePages(info.next))

\* A call that moves a page and returns has not lost it, a step loses no more
\* than the page it moves, and a crash loses nothing that was saved.
PagesAccounted ==
    [][ /\ pc \in {"fill", "freeInfo"} /\ pc' = "idle" /\ isopen' => pgno \notin Lost'
        /\ isopen' => Cardinality(Lost' \ Lost) <= 1
        /\ isopen /\ ~isopen' /\ mem = dsk => Lost' \subseteq Lost ]_vars

\* Every call returns: pagealloc retries once, whatever it reads.
CallsReturn == pc # "idle" ~> pc = "idle"

\* The table space implements the allocator with neither disk nor chain.
Moving ==
    IF pc \in {"fill", "free", "freeHead", "freeInfo"}
    THEN {pgno} \ FreePages(mem.next)
    ELSE {}

Allocator == INSTANCE PageAllocator WITH
    owned <- held,
    free <- FreePages(IF isopen THEN mem.next ELSE dsk.next),
    moving <- Moving,
    up <- isopen

AllocatorSpec == Allocator!Spec

=============================================================================
