# eclib4: models, checks and proofs

eclib4 is a header-only C++ library for storage and network services: an
embedded page store with B+ tree indexes for records of tags, a redo log, an
event loop with TCP, UDP, TLS 1.2, HTTP and WebSocket sessions, and the
containers, allocators, locks and codecs under them. This directory holds TLA+
models of its parts, the TLC runs that check them on small instances, and
theorems proved with TLAPS for every instance.

The models are of the Linux build. `PROJECT.json` lists components, runs,
mutants, the lines every definition stands for, hazards and theorems.

## 1. Inventory

### Storage

| component | state | operations | correct when |
|---|---|---|---|
| table space, `ec_tbs.h` | files of pages on disk; `_info` (number of pages, entry and length of the free chain) in memory and in the first file; the links of the free chain in the heads of the free pages; an LRU list of open files | `Create`, `Open`, `pagealloc`, `pagefree`, `readpage`, `writepage`, `Close` | a page has one owner, even after a crash between two writes; the free chain is a path inside the space; the space respects `maxfiles` |
| page cache, `ec_dbpagecache.h` | a doubly linked list of nodes, each with a copy of a page and the length of its changed prefix | `GetPage`, `WritePage`, `Flush`, `FlushAll`, `RemovePage`, `clear` | no change is lost when a node is reused; what is flushed is what was written |
| data pages and tables, `ec_dbdatapage.h`, `ec_dbtable.h` | per tag a doubly linked chain of pages with sorted records | `insert`, `insertfast`, `query`, `deleterecord`, `DeleteTag`, split and reuse of pages | the chain is whole and sorted, its pages belong to one tag, the index finds every page |
| B+ tree, `ec_bptree.h`; data index, `ec_dbindex.h`, `ec_ipgstorage.h` | index pages in a table space, a dictionary of tags with root page and number of pages | insert with splits, update, find, delete with merges; save of the dictionary | every key is found, the leaves are linked in order, the count agrees with the tree |
| object file, `ec_objfile.h` | one file of pages, a free chain, objects as chains of pages | `create`, `open`, `writeObject`, `readObject`, delete | an object is read as it was written, a page belongs to one object |
| redo log, `ec_redofile.h` | one file per period of time, the file that is open, a mutex | `appendblk` by several threads, `redo_onefile` | an acknowledged block is whole; a scan delivers the blocks in order up to the first torn one |

A data table calls the page cache, which reads and writes pages of a table
space; it allocates pages there directly. The data index keeps a B+ tree per
tag in a table space of its own and its dictionary in an object file. None of
these classes has a lock: one thread uses them, and what is hard about them is
failure between two writes, crashes, and long sequences of legal calls. The
redo log is the exception: its mutex is shared by threads.

### Concurrency

| component | state | operations | correct when |
|---|---|---|---|
| lock-free list, `ec_list.hpp`, with the event of `ec_event.h` | nodes with plain links, `_phead` of the consumer, `_ptail` of the producer, an atomic `_size`, `_nready` | `push` by one thread, `pop` by another, `SetEvent`, `Wait` | the list is a pipe, no deleted node is used, no wake-up is lost |
| thread, `ec_thread.h` | `m_tid`, and the plain ints `_stopflag`, `_runst`, `_runonce` | `threadStart`, `threadStop`, `mainloop` | `threadStop` returns, and then no thread is left |
| handle table, `ec_handle.h` | a map from numbers to objects, the next number | `create`, `del`, `getobjptr` and values | a number names one object while it lives |
| locks, `ec_mutex.h` | | scoped locks, spin lock | mutual exclusion |
| log, `ec_log.h` | a queue of lines, a sender thread | `add`, send | no line is torn, the queue is bounded |

### Network

`ec_netepoll.h` over `ec_aiolinux.h` runs one thread: it waits for epoll
events, receives, sends, accepts and closes, and calls back. Descriptors are
numbers of its own (`kfd`), so that an event for a closed one is recognised.
`ec_aiosrv.h` keeps the table of sessions of `ec_aiosession.h`: it dispatches
messages, delays disconnects, and replaces a session by one of another
protocol (`ec_aiotls.h`, `ec_aiohttp.h`, `ec_aiohttps.h`, with `ec_http.h`,
`ec_wstips.h`, `ec_tls12.h`). Clients have loops of their own
(`ec_tcpclient.h`, `ec_tlsclient.h`, `ec_wsclient.h`, `ec_wssclient.h`,
`ec_wsc.hpp`). What is hard: callbacks that close the connection they are
called for, tables that change while they are walked, events that are stale
when they are handled, upgrades, partial sends and the flow control that reads
again later. Correct when every accepted connection is closed once, reported
once, and its session freed once, and the bytes of a session keep their order.

### The rest

`ec_server.hpp` (one instance of a service, start in the background, stop),
buffers and allocators (`ec_memory.h`, `ec_alloctor.h`), containers
(`ec_map.h`, `ec_queue.h`, `ec_stack.h`), codecs and scanners (protocol
buffers, JSON, configuration, base64, time, DNS, expressions). Vendored zlib and
minilzo, hashes, ciphers, wrappers of system calls and the Windows event loop
are left out; `PROJECT.json` says why for each.

## 2. Modules

| module | models | uses |
|---|---|---|
| `PageAllocator` | what the table space promises: pages owned, free, moving or lost, and never shared | |
| `TableSpace` | `ec_tbs.h`, one disk write per step | `INSTANCE PageAllocator` as a refinement |
| `TableSpaceProofs` | what a chain of free pages is and what changing one link does to the walk along it; the inductive invariant of the table space and theorems about its pages, its files and its limit; that it implements `PageAllocator` | `TableSpace` |
| `WriteBackStore` | what the page cache promises: a store with a durable copy that lags behind | |
| `PageCache` | `ec_dbpagecache.h`, down to the pointers | `INSTANCE WriteBackStore` |
| `PageCacheProofs` | its inductive invariant, theorems, and that it implements `WriteBackStore` | `PageCache` |
| `RedoFile` | `ec_redofile.h`: threads that append, a scan beside them, crashes | |
| `RedoFileProofs` | its inductive invariants and theorems | `RedoFile` |
| `Pipe` | what the lock-free list promises | |
| `LockFreeList` | `lckfree_list` with `cEvent`, one memory access per step | `INSTANCE Pipe` |
| `LockFreeListProofs` | its inductive invariant, theorems, and that it implements `Pipe` | `LockFreeList` |
| `WorkerThread` | `ec::thread` | |
| `WorkerThreadProofs` | its theorems | `WorkerThread` |
| `RecordStore` | what a data table promises: records by tag and key, and a copy on disk that follows record by record | |
| `DataIndex` | `ec_dbindex.h` as the data table calls it: a map from index values to pages | |
| `DataTable` | `ec_dbtable.h` with the pages of `ec_dbdatapage.h`, over a cache and a table space that are folded in | `DataIndex`, `INSTANCE RecordStore` |
| `DataTableProofs` | its inductive invariant, theorems about the chains and the pages, and that it implements `RecordStore` | `DataTable` |
| `BPlusTree` | `ec_bptree.h`: the insertions, updates and deletions of an index, page by page, with reads, writes, allocations and frees that fail; `MCDataTable` holds it beside `DataTable` | `DataIndex` |
| `KeptMap` | what the dictionary of tags promises: a map with a copy on disk | |
| `ObjFile` | `ec_objfile.h`, and the dictionary of `ec_dbindex.h` in it; `MCDataTable` holds it beside the two | `INSTANCE KeptMap` |
| `Stream` | what one end of a connection is promised of what the other sends | |
| `Descriptors` | the table of virtual descriptors of `ec_aiolinux.h` | |
| `NetServer` | `ec_aiosrv.h` over `ec_netepoll.h` with the sessions of `ec_aiosession.h` and `ec_aiohttp.h` | `Descriptors`, `INSTANCE Stream` |
| `NetServerProofs` | its inductive invariant, and that no noted key comes to name another connection | `NetServer` |
| `TlsSession` | one end of a TLS session, `ec_tls12.h`, as operators from a session and what is read to the session after | |
| `TlsLink` | a TLS client (`ec_tlsclient.h`, `ec_tcpclient.h`) and TLS sessions of a server (`ec_aiotls.h`) with TCP between them | `TlsSession`, `INSTANCE Stream` twice |
| `TlsLinkProofs` | its inductive invariant, that both ends agree, and that both directions implement `Stream` | `TlsLink` |

`MC<module>` extends a module with the definitions its `.cfg` files give to the
constants. An operator whose comment begins with "Mutant" is the form a
definition would have after a plausible mistake; nothing in a module uses it,
and `PROJECT.json` says which property catches it.

### TableSpace

`pc` is the place in the running call, `pgno`, `n` and `i` its locals; each
action ends with one disk access. `file[f]` says whether a page file exists and
has its head page, `head[p]` the link in the first 24 bytes of page `p` or that
they do not parse, `dsk` the saved `tbs_info` and `mem` the one in memory, `held`
the pages clients own (a variable of the model, remembered across crashes).

| action | code |
|---|---|
| `CreateFile`, `CreateHead`, `Open` | `Create`, `Open` |
| `AllocGrow`, `AllocPop`, `PopOpenFails`, `PopRetry`, `Pop`, `Fill` | `pagealloc`: the empty chain and `maxfiles`, the bad head and its single retry, the saved entry, the 0xFF over the head |
| `GrowFile`, `GrowHead`, `GrowPage`, `GrowInfo` | `grownpages`, `createpagefile`, one turn of the loop of `grownfilepages`, its `updateinfo` |
| `FreeCall`, `FreeRead`, `FreeHead`, `FreeInfo` | `pagefree`: the call, the read back against double frees, the link, the saved entry |
| `WritePage`, `Damage`, `Crash` | `writepage` by the owner; a head that is lost; the end of the process |

A write of at most 128 bytes at the start of a page is one step, because it
never crosses a sector. A crash is one of the process: what was written stays
written. (`OF_SYNC` does not reach `open` as a flag in `ec_file.h`, so nothing
could be said of a power failure.) `Fill` may fail silently as in the code.

### PageCache

`phead`, `pprev` and `pnext` are the pointers of the list; a page has `Parts`
parts, and `updated[x]` is `updatesize` in parts. Operations are atomic: one
thread uses the class. `GetPageNode` is `Hit`, `Reuse` or `Add`. `Hit` leaves
`pprev` of the old head as it is, like the code, which is why `died` exists: the
code can follow that null pointer, in `RemovePage` or when it reuses the last node,
and the model then stops. `died` says in which of the two. `CacheAssumption` says
that a byte has a value and that the null pointer is not the address of a node.

### RedoFile

A file is a sequence of units that carry the block and the place in it they
belong to, so a mixed, torn or spliced block is visible. `Enter` is all that
`appendblk` does before its first write, `WriteHead` and `WriteBody` the two
writes; a crash may cut the one under way anywhere. The scan is an object of its
own that takes no mutex, two reads per block, so it meets half written blocks.
The clock ticks by whole periods of `SECONDS_REDOFILE`.

### LockFreeList and WorkerThread

One action per memory access, in the order of the source. The links, values
and flags are plain memory in the code; the models are of a build that keeps
the order of the stores, as x86 does. On a build that does not, `push` may
publish a node before its value, and none of what is checked here would hold.
`WaitTimesOut` is also a spurious wake-up.

### DataTable

One thread uses a table, so a call is one step; what makes its outcomes many is
the cache under it and the calls that fail. `disk[p]` is what is on disk of page
`p`, `dirty` the changed pages of the cache (the others are as on disk), `free`
the free chain of the table space, `index[t]` the index of a tag. `Evict` saves
and drops any page at any time between calls, `Crash` forgets the cache there.

| action or operator | code |
|---|---|
| `Insert`, `InsertFast` | `insert`, `insertfast`; `Appended` is the search for how many records fit, `Put` the answer |
| `NewTag` | `InertNewTagData`, `AppendNewTagDatas` |
| `SplitSave`, `SecondPage`, `Reuse`, `SetNext`, `SetPrev` | `splitsave`, its new page or one that is reused, `reuse`, `modifydatapageptr` |
| `Delete` with `DeleteOnly`, `DeleteFirst`, `DeletePage`; `DeleteTag` | `deleterecord` by the place of the page that becomes empty; `DeleteTag` |
| `Overwrite`, `SecondKeys`, `Fits` | a page's own `Insert` and `SplitPage`, and whether it is written back as it is |
| `GetPage`, `WritePage`, `RemovePage`, `Flush`, `FlushAll`, `Alloc`, `PageFree` | the calls of cache and table space, which `PageCache` and `TableSpace` model in full |

A record is a key, a value and a size; the order of keys and the boundaries of
pages are kept, the bytes are not. `DataIndex` looks up the greatest index value
that is not above a key, as the tree does while it has one leaf (510 data pages
with index pages of 8K; the tables of the run have at most five). A flush may fail before a split and the first write of a new tag may fail;
failures of the last flush of a split, and crashes within a call, are left out
because the code does not survive them (see below).

### BPlusTree

A call of the tree is one step on a copy of it, in which the storage may refuse
the n-th of the calls made to it, `fault`: a `pg_read`, a `pg_write`, a `pg_alloc` or
a `pg_free`, each of which counts down to it. Recursion in the code is recursion in
the model. `pages[p]` is the index page on disk: its kind, `pgidx`, `right` and items.

| action or operator | code |
|---|---|
| `Insert`: `LeafOf`, `InsertIdxIn`, `NewRoot`, `PutBack` | `insert`, `insert_idx` with its split, the item in the page above and the way back, `createroot` |
| `Erease`: `FindInPage`, `DelIdx`, `MergeRight`, `MergeLeft` | `erease`, `find_in_page_`, `del_idx_` with `mergeright_` and `mergeleft_`, each with its reads of the page above and of the neighbour |
| `Clear`: `ClearFrom` | `clear`, `clear_` |
| `Bsearch`, `Above`, `Before`, `Behind` | `bsearch`, `find_left`, `find_right` |
| `Read`, `Readable`, `WritePage`, `Alloc`, `PageFree` | `readpage` with `frompage`, `writepage`, the storage |

Two variables are of the model. `leaked` are pages that the tree gave up and the
storage did not take back: nobody looks at the result of `pg_free`, and `clear` leaves
a page it cannot read with all that is below it. `damaged` becomes true when a call leaves a
link or an item for a page that is gone, or a page that is half restored:

- an emptied page is freed with no neighbour to take its place, since none has its
  page above, or that page or the neighbour could not be read, or the left one
  not be written;
- the storage fails after pages were joined;
- the page that was split cannot be put back when the split is undone.

What comes after is left out; the code has no answer to it (see below).

### ObjFile

A call is one step on a copy of the file, in which the n-th write fails, or the
process dies before it and the file is loaded again: writes are the only thing
that can come between, since one thread uses the class, and what was written
stays written when the process dies. `heads[p]` is the head of page `p` with the part of an object
behind it, `info` and `saved` are `_info` in memory and in the file, `map` is the
dictionary, and `found` what `OpenObf` would make of the file as it is.

| action or operator | code |
|---|---|
| `WriteIdx`: `WriteObject`, `Take`, `PageAlloc`, `GrownPages`, `WritePage`, `FreePages` | `writeidx2obf` for `InsertIdx` and `DelIdxRec`, `writeObject` with the pages it has, takes and gives back |
| `ClearIdxTree`: `FreeObject`, `PageFree` | the end of `ClearIdxTree`, `freeObject`, `pagefree` |
| `OpenObf`: `Load`, `IsEntry` | `OpenObf`, `loadAll`, `getObject`, the parser |

The content of an entry is a number with the pages it fills. `writeidx2obf`
tests an unsigned number for `>= 0`, so a new entry takes the same branch as an
old one (`ec_dbindex.h:459`), as in the model. Changes of the tree and of the
dictionary are calls of two models; a crash between them leaves an entry with an
old root, which the code does not mend.

### NetServer

`pc` is where `runtime()` is, `stack` holds the calls under way inside a handler,
innermost first: the application, called back, calls the server again, and may
close the connection the handler works for. A call is `[at, fd, conn, err]`. `fds`
and `sess` are the map of descriptors and `_mapsession`, with the order of its
hash chain in `chain`, since the scan stands at a position of it while entries
come and go. `conn` beside a descriptor is a variable of the model: which
connection was meant when the number was noted.

| actions | code |
|---|---|
| `TimerJob`, `Scan`, `Scanned`, `ScanDels`, `Wait`, `Overdue`, `Reap` | `runtime`, `doRecvBuffer`, `epoll_wait` in `runtime_`, sessions whose time is up |
| `Accept`, `Receive`, `AfterMessage`, `EventRest`, `Connected` | `onevent` for one entry of the array of events, which may be stale |
| `OnReceived`, `OnRecvBytes`, `DoMessage`, `DoMessageDone` | the session takes its bytes, one message at a time, with upgrades TCP to HTTP to WebSocket |
| `Closefd`, `SendsCloseFrame`, `OnDisconnect`, `Drop`, `OnDisconnected`, `PostSend` | `closefd` step by step with its callbacks between them, sending |
| `AppSend`, `AppClose`, `AppDelay`, `AppConnect` | `sendtofd`, `closefd`, `setSessionDelayDisconnect`, `tcpconnect` from a callback |
| `PeerConnect`, `PeerSend`, `PeerFin`, `PeerReset`, `Resolve`, `Age` | the peers, the network and the clock |

Left out: UDP, the job that sends a file, WebSocket messages in several frames,
compression, `setreadpause`, `close()` of the whole server, more than one batch of
16 events.

### TlsSession and TlsLink

A step of a session is `[s, out, res]`: the session after, the records it puts
out, the `TLS_SESSION_XXX` it returns. Records and handshake messages arrive as
pieces, whole or a head and later its tail. Cryptography is ideal: a sealed
record opens under its key, direction and sequence number and no other, and a
`Finished` is the list of messages it covers. The four suites differ in lengths
only and are one. Both ends are those of this library, so no malformed message
comes.

| action | code |
|---|---|
| `Open`, `DoConnect` | `tcp_c::open`, `doconnect` with refusal, breakage and timeout; `tls_c::onconnected` with `Reset` and the client hello |
| `ClientRead`, `ClientEof` | `doNetIO` and `tls_c::onreadbytes` for each result of `OnTcpRead` |
| `ClientSend`, `CloseClient` | `tls_c::sendbytes` with a send buffer that may be full; `close` |
| `ServerRead`, `ServerSend`, `ServerClose`, `ServerEof`, `Accept` | `session_tls::onrecvbytes` and `sendasyn`; the loop of `NetServer` |
| `ReSetCert`, `Break` | the certificate is replaced; TCP breaks and what is on its way is lost |

`up[c]` and `dn[c]` merge a send buffer with the stream behind it; closing keeps a
prefix of what was in them. The client's application sends when
`ontlshandshake` has told it to. Left out: the socks5 proxy, `close(0)`, a client
that is opened again from its own `ondisconnected`, a full send buffer of the
server (`NetServer` has it), HTTPS and WSS above.

## 3. Runs

| run | module, cfg | checks | bounds |
|---|---|---|---|
| `tbs_faults` | `MCTableSpace`, `TbsFaults` | `GrantFresh`, `GrantsDurable`, `FilesPrecedePages`, `AllocatorSpec`, `CallsReturn` | 3 pages, 2 per file, growth by 1, so that a second file and a full disk occur; reads and writes fail, heads are damaged, any number of crashes |
| `tbs_clients` | `MCTableSpace`, `TbsClients` | `ChainSound`, `Capacity`, `PagesAccounted` | one file of 4 pages allowed and room for 6, growth by 2; clients free any page at any time, writes fail |
| `cache_store` | `MCPageCache`, `CacheStore` | `ListSound` (with `TypeOK`), `FlushAllSaves`, `StoreSpec` | 2 nodes, 3 pages of 2 parts, 2 values; all failures |
| `cache_reuse` (violation) | `MCPageCache`, `CacheReuse` | `LastReused` | as above without failures |
| `redo_log` | `MCRedoFile`, `RedoLog` | `BlocksApart` (with `TypeOK`), `AckedWhole`, `ScanComplete`, `LoggedInTime` | 2 threads, 3 blocks (one compressed, as long as two others), 2 periods, 1 crash |
| `redo_splice` (violation) | `MCRedoFile`, `RedoSplice` | `ScanSound` | 1 thread, 2 blocks, 1 crash |
| `list_pipe` | `MCLockFreeList`, `ListPipe` | `TypeOK`, `PointersLive`, `SizeFollows`, `PipeSpec`, `AllPopped` | 6 pushes |
| `thread_stops` | `MCWorkerThread`, `ThreadStops` | `StopMeansStopped`, `StopReturns` | 4 starts |
| `thread_restart` (violation) | `MCWorkerThread`, `ThreadRestart` | `EndsWhenAsked` | 2 starts |
| `data_table` | `MCDataTable`, `DataTable` | of the table `TypeOK`, `ChainSound`, `DiskSound`, `PagesAccounted`, `RecordsSpec`; of the tree `TreeSound`, `TreeKeepsMap`; of the object file `DictionarySound`, `DictionaryKept` | table: 2 tags, 6 keys, pages of two records, a space of 5 pages, 4 tables to start from (an empty one, and chains of 3 and 4 pages), 3 calls; tree: pages of 5 items, 19 pages in the storage, 6 trees of up to four rows to start from, made by up to 34 calls, 11 entries to put in or take out, a fault at any call of the storage (38 in the longest), 3 calls, or 2 of which one meets a fault; object file: 2 tags, 3 contents, one of two pages, growth by 3 pages to 6, 3 files to start from, a fault or a death at the first six writes of a call, 3 calls. A behaviour uses one of the three |
| `net_server` | `MCNetServer`, `NetServer` | `OneEach` (with `TypeOK`), `NoStaleKey`, `StreamSpec`, `MessagesHandled`, `DeadClosed` | 2 connections, one of which speaks HTTP and WebSocket in pieces; numbers that wrap at 8, tables of 3 and 4; a send buffer of 1; 1 call from a callback |
| `tls_link` | `MCTlsLink`, `TlsLink` | `SessionsAgree`, `ToldOfThis`, `StreamsSpec`, `Served` | 2 connections one after the other, 1 message of 2 records each way, a certificate message of 2 records, 2 certificates of which the client trusts the first |

Why the bounds are enough. In the table space every interesting case needs two
pages on the chain and one in motion; two files are needed for a file that has
no head page yet. The page cache needs one node besides the head and one page
more than nodes; a third node adds longer lists but no other case of a link.
In the redo log two threads and three blocks give a torn block with a whole one
before and behind it. The list reuses nothing, so the number of pushes only
adds longer queues; the theorems below hold for any number.
A data table needs four pages for a page that is neither first, second nor last
beside one that is split, and a fifth page for the split; longer histories are
had by starting from chains that earlier calls made. A tree needs pages of five
items for a page that is neither full nor due to be joined, and for a leaf of
four that its neighbour does not fit in; three rows are needed for a split and a
join that go up twice. With 19 pages the largest tree fills the storage but for one,
so that a split of two rows finds it full after the first. Six pages let the object file grow once, be full, and hold
an object whose pages are not in ascending order. In the server the
keys go around the end of their range within a run (the last key read from the
file is 5 of 7), so that the search of `nextfd` wraps; two connections give an event for one whose
handler closes the other, and one call from a callback gives every pair of a
handler and a call inside it. A TLS client needs a second connection to meet
what the first left, and reads that take any number of records with a piece of
the next, so that the handshake comes in every division.

Fairness. `CallsReturn` assumes that a call of the table space that was made runs
on (`WF_vars(Step)`): the caller's thread is in it. `AllPopped` assumes that a
`push` that began is finished and that the consumer serves its queue as long as
it has a step; it assumes nothing of timeouts. `StopReturns` assumes that both
threads run and that a round of `threadRuntime` returns, which the code asks of
the class that implements it. `MessagesHandled` and `DeadClosed` assume that a
thread calls `runtime()` again and again (`WF` of handlers and of the loop), that
in doing so it waits again and again with the flow control of
`dorecvflowctrl` (`SF_vars(Wait(TRUE))`), and that time passes; nothing of peers
or of the application. `Served` assumes that the loops of client and server
poll, weakly fair each; nobody need open, send or close.

Deadlock is checked in `list_pipe`. The other systems may really stop: a disk is
full, all blocks are logged, all starts used up.

### What the violations show

- `cache_reuse`: a page that was the head, was overtaken by a hit of another page
  and then became the last of a full cache has no predecessor link; taking
  another page in follows the null pointer (`ec_dbpagecache.h:180`). `RemovePage` of
  such a page follows it as well (`ec_dbpagecache.h:136`); the run asks for the first.
- `redo_splice`: the crc of a redo block covers its head only. A body torn by a
  crash is completed with the bytes of the block appended next, and is delivered
  as a block; if the sizes meet, the scan reports success.
- `thread_restart`: `threadStop()` on a thread that has ended by itself leaves
  `_stopflag` set, and the thread of the next `threadStart()` ends after a round.

Seen while modelling, and without a run of their own:

- `pagealloc` looks at `maxfiles` only when the chain is empty; after a bad page
  head it grows without looking (`ec_tbs.h:685`, `699`), so `Capacity` is checked
  without failed reads. That growth also puts the bad page behind the new ones,
  though the comment says the chain is dropped and `_nextpageno` is -1
  (`ec_tbs.h:972`).
- `pagefree` ignores the result of its read back (`ec_tbs.h:750`): with a failed
  read a free page is linked into the chain again. `ChainSound` is checked
  without failed reads.
- a page file whose head page was not written is refused by `openpagefile` and
  by `createpagefile`: the space cannot grow any more (`ec_tbs.h:1030`).
- a hit in the page cache does not always put the page at the head, since the
  head is recognised by its missing predecessor (`ec_dbpagecache.h:160`).
- a write of the redo log that falls short returns success
  (`ec_redofile.h:219-222`, `240-243`).

In the data table (each is kept out of `DataTable`, by a guard or by the
granularity of its steps):

- `splitsave` with reuse excludes only the second page (`ec_dbtable.h:773`). When
  the page to be split is the first, `reuse` copies the second page over it and
  returns the second; what was read of the first is written over that, and the
  new page gets itself as its successor. When it is the third, its link back is
  stale. The model asks for reuse only when records are appended, where the page
  that is split is the last.
- the last flush of a split writes in the order of the cache list, the old page
  before the new one it points to, though the comment at `ec_dbtable.h:770` asks
  for the new page first: a crash within it leaves a link to a page that was
  never written. If `InsertIdx` fails or the process ends before it, the page is
  in the chain and not in the index. Failures of the last flush in `splitsave`,
  `reuse` and `deleterecord` leave chain and index apart as well.
- `DeleteTag` frees pages whose changed copies stay in the cache; a later flush
  writes over the head of a free page, the free chain ends there and the pages
  behind it are never handed out again (`ec_dbtable.h:559`). `PagesAccounted` says of
  a page only that it was given back once; it does not say that it comes back.
- `SplitPage` answers 0 when the record that crosses three quarters is the last
  one; a negative key is not found by `GetIdx` and starts the tag anew.
- a `GetIdx` that fails because an index page cannot be read is taken for a tag
  that is not there: `insert` and `insertfast` make a first page for it
  (`ec_dbtable.h:62`, `139`). Failing reads, of pages and of the index, are left out
  of `DataTable`.
- a half that does not fit in a page is refused only when it is written
  (`ec_dbtable.h:794`, `821`), after `reuse` has taken over the second page or the new
  half is in the cache. The record that crosses three quarters stays in the first half,
  so it takes a record of more than a quarter of a page; `HalvesFit` keeps them out.

In the B+ tree, from the states in which `damaged` becomes true and from the
answer of `find`:

- when the first index value of a leaf is taken out, `find` of a value between
  the `pgidx` of the leaf and its first item answers that item, which is above,
  though `ec_dbindex.h:222` says `<= idxval`. A record that the table then puts
  into that data page is below the page's index value; when the leaf is joined to
  its left neighbour, the index gives the page before for it. `FindsNear` says
  what holds: the answer is a neighbour.
- a page that has no sibling may become empty, if the index pages beside its
  parent are too full to be joined with it (`ec_bptree.h:655`). The parent is empty
  too, takes in the items of its right neighbour and keeps its own `pgidx`: an
  index value between this and the first item is refused by `insert` and not
  found by `find` (`ec_bptree.h:416`, `447`), and the table takes the tag for a new
  one. The last of the trees the run starts from is one call before this: it
  takes out 26, after which 30 could not be put in.
- the leaf before such a page keeps its link to it. When the page number is used
  again and that leaf gets a sibling from beyond, `mergeright_` reads by the link
  what is not its neighbour (`ec_bptree.h:843`).
- a neighbour of an emptied page that cannot be read counts as none: `mergeright_`
  and `mergeleft_` answer as if there were none (`ec_bptree.h:844`, `873`), as they do
  when the page above cannot be read, and the page is freed (`ec_bptree.h:651`). The
  leaf before it keeps its link to it, with the consequences above. So it is when
  the left neighbour cannot be written, whose result is not looked at
  (`ec_bptree.h:637`).
- a failing read or write after a join leaves the item of a freed page in the page above.
- a split is undone by a write whose result is not looked at (`ec_bptree.h:569`, `600`):
  if it fails too, the page has lost the half that was in the new one.
- a failing `pg_free` leaves the page taken for good, and a failing read in `clear_`
  the pages below (`ec_bptree.h:747`); the root is forgotten all the same.

In the object file (each is kept out of `ObjFile` by a guard, but for the second,
which `KeptMap` allows for):

- `pagefree` refuses the last page of the file, comparing `pgno + 1`
  (`ec_objfile.h:696`), and `ClearIdxTree` does not look at the answer. The entry
  of a tag that was dropped stays on disk when it is in that page, or when the
  write fails, and the tag is loaded again with the pages of a tree that was
  freed; an entry written for the tag meanwhile may be hidden by it.
- `writeObject` does not look at whether it got its first page
  (`ec_objfile.h:383`). It writes the part 512 bytes before the first page, an
  unused place in a file of that page size (with 4096 it would be `_info`), and
  returns 0. The entry lives in memory until a later write finds a page.
- a change of an object of several pages is not atomic: cut or failing, it leaves
  parts of both contents; and when it shrinks, the pages left over are freed even
  if the write that unlinks them failed (`ec_objfile.h:405`).
- deleting an object of several pages frees the highest page first. Cut short, it
  leaves a first page that links to free pages, and to those of another object
  once they are used again.
- `isfreepage` answers `false` for every head that can be parsed
  (`ec_objfile.h:688`); that no page is freed twice rests on `getPages`.

In the network:

- `setSessionDelayDisconnect` with ten seconds or more closes at once, since the
  difference of times is taken without its sign (`ec_aiosrv.h:112`).
- `sendtofd` returns -1 with a full buffer and leaves the connection open, though
  `ec_aiosrv.h:217` says it is closed and reclaimed.
- `closefd(fd, 0)` of a WebSocket session whose close frame cannot be sent is
  closed by the call inside, and the outer one reports it again, though
  `ec_aiosrv.h:386` says that the session is still there in the callback.
- a client that reads change cipher spec, Finished and data at once answers
  `TLS_SESSION_APPDATA`: `_nstatus` stays, `ontlshandshake` is never called
  (`ec_tlsclient.h:99-107`). In the model such a client is given its data and is
  never told; `Served` asks for the session to be finished, not for the call.
- `make_package` compares the first byte of the data, not the type of the record,
  with 21 (`ec_tls12.h:705`): a message that starts with this byte is sent as a
  plain record and the other end breaks off (`Firsts` of `TlsLink`).
- the alert a server session puts out is lost, because the session is closed with
  its send buffer.
- `tcp_c::close` calls `ondisconnected` before it clears `_sndbuf`, and its callers
  close once more (`ec_tcpclient.h:195`, `533`, `556`): a client opened again in
  the callback is closed. `doconnect` asks for `_uport` where `open` asks for
  `_s5port`, so a domain without a port takes the proxy's way
  (`ec_tcpclient.h:181`, `602`).

## 4. Proofs

### The table space

All its safety properties are proved, for every number of pages, size of files,
limit and growth, and so is that it implements `PageAllocator`, whose `up` is `isopen`.

| theorem | property | under |
|---|---|---|
| `TypeCorrect`, `GrantsAreFresh`, `GrantsAreDurable` | `TypeOK`, `GrantFresh`, `GrantsDurable` | `Safe` |
| `ChainsAreSound` | `ChainSound` | `Safe`, no damaged heads |
| `FilesComeFirst` | `FilesPrecedePages` | `Safe` |
| `CapacityKept` | `Capacity` | no damaged heads, no failed reads |
| `Implements` | `AllocatorSpec` | `Safe` |
| `NothingElseLost` | `PagesAccounted` | `Safe`, no damaged heads |

`Safe` says that clients that free pages they do not own are not combined with
damaged heads or failed reads: the protection against double frees is lost with
them (see above). The other assumptions are those without which the property
does not hold of the code.

The invariants are not inductive by themselves: that `pagealloc` returns a fresh
page depends on where the chain leads. The inductive invariant `IInv` says that
no owned page is on the chain from `mem` or from `dsk`, that both are closed under
following the links, where the page in motion stands at each `pc`, and how far
`mem` may be ahead of `dsk` after a failed save. For this a set that is closed
under the links is enough. `ChainSound` needs the walk itself. The lemmas on
chains describe a chain by a numbering of its pages in which each links to the next
and the last to none; the walk follows the numbers (`FollowIs`), ends behind
the last one and never meets a page twice (`ChainLength`, `WalkOfChain`). That
is an induction, done here over a set of numbers with a least element
(`SetInduction`), since the theorems of induction over operators are out of the
provers' reach. `ChainPop`, `ChainPush`, `ChainGrow`, `ChainCut`, `ChainMark` and
`ChainFrame` are what the writes of the code do to a chain: each names the
numbering after it and what the walk reaches.

`FilesInv` says that the space grows by whole steps inside the disk and that the
file of the page that `grownpages` writes next is ready. `CapacityInv` says that the
space is within `maxfiles` times the size of a file, and that a call under way
grows it only from below that, which needs the file of the last page of a growth
(`Division`, `Quotient`, `SameFile`).

The refinement goes by step: `CreateHead` and `Open` start the allocator, `Pop`
reserves a page or drops it when the save fails, `Fill` grants it, `GrowInfo`
extends the free pages, `FreeCall` releases a page, `FreeInfo` recycles it, and
`FreeRead` or `FreeHead` lose it when the call gives up there; `Damage` shrinks the
free pages, `Crash` stops the allocator, all else stutters. It rests on `IInv` and on what
the lemmas on chains say the walk reaches after each write.

### The page cache

`PageCacheProofs` proves, for any number of nodes, pages and parts of a page,
`ListAlwaysSound` (`ListSound`), `FlushAllAlwaysSaves` (`FlushAllSaves`) and
`CacheIsStore`: the cache over the disk is a `WriteBackStore`.

`ListSound` walks the list with a counter of steps and says nothing of the links
back, which the next hit or removal reads. The invariant `Inv` says it as a path:
the allocated nodes can be numbered from `phead` so that `pnext` goes up by one and
ends in null, and `pprev` of a node is the one before it *or null*, which is what the
hit path leaves behind (`Path`); no two nodes hold one page (`OnePerPage`); and
beyond `updatesize` a node is what is on disk (`CleanPart`), without which a save of
the changed prefix would not write the page. TLC checked `Inv` with three nodes
and four pages before the proof.

All that the calls do to the list is two operations: `PutFirst` is a path with a node
before it, `TakeOut` one with a node left out, which also holds when the node taken
out or the one behind it has lost its link back, as long as the code does not follow
it. `WalkOnPath` says that the walk along a path reaches what is numbered, and so
every allocated node once (`InvListSound`). A numbering ends because there are no
more different nodes than `Size` (`Counting`, `PathLength`).

For the refinement, a call that touches a page has an `Effect`: one node at most
changes the page it holds, and before it does its page was saved or is still
unchanged. `SaveStep`, `KeepStep` and `DiscardStep` say which step of the store each
of the three is, `EffectStep` puts them together.

### The redo log

`RedoFileProofs` proves `BlocksStayApart` (`BlocksApart` with the types) and
`TimesInOrder` (`LoggedInTime`) for any number of threads, blocks, periods and
crashes and all hazards, and `AckedStaysWhole` (`AckedWhole`) if no write falls
short. The invariant `RInv`: a thread between its two writes holds the mutex and
a file is open (`Mutexed`), what was written last is its head (`HeadLast`), the open
file is that of the time the object looked at, and neither the call that holds
the mutex nor any logged block is later (`Times`). For acknowledged blocks `AInv`
adds that the head is there whole and at the end (`HeadWhole`), and the place
where each block lies (`AckedAt`), which no later write moves.

`ScansDeliver` (`ScanComplete`) holds for all hazards, short writes among them. The
invariant `UInv` adds to `RInv` that everything a running or ended scan delivered lies
in the file where it was read, one behind the other from its first unit on
(`Placed`), and the scan stands right behind it (`PlaceInv`); that a scan which has
ended stands where no whole block begins that leads to one it owed its caller
(`NoneMissed`); that no unit has a greater number than its block is long (`Parts`);
and that an acknowledged block is never written again, because it is appended once
and its thread has left it (`Once`). What makes the last two necessary: files only
grow (`Grew`), so a scan that ended at a torn block could be made incomplete later,
if a block it owed could still appear in whole behind it. From `UInv` the theorem
follows in two steps. Within the sound prefix (`SoundIs`) every whole block
before the scan's end was delivered, since a delivered block that reached over its
beginning would be sound too (`Reached`), and every block the scan owed lies before
its end (`Covered`). And the place of a block among those delivered is its place
among the beginnings in the prefix, by counting both (`Counted`, `InOrder`).

### The data table

`DataTableProofs` proves `ChainsAreSound` (`ChainSound`), `DiskIsSound`
(`DiskSound`), `PagesAreAccounted` (`PagesAccounted`) and `TableKeepsRecords`
(`RecordsSpec`): for any tags, keys, values and their sizes, any size of page,
reserve and space, any batches, any chain to start from and any number of calls. They rest
on `TableAssumption` alone (`HalvesFit` says for which sizes the model is that of the
code; no proof uses it), which says what the code takes for granted of its
input: keys and values are above 0, a record is no larger than a page, a batch is not
empty, and the pages of a table that is opened are in order and hold records. One of
its conjuncts is a matter of the code, `ReuseMin > 3`: a table takes over its second
page only if there are two more behind it, so that the page that is split is another
(`RDB_REUSE_MIN_IDXNUM` is 5).

The properties speak of a table between two calls, and a call is one step that
goes through several tables: a page taken, the halves written, the page behind
linked back, everything flushed, the index. `Good(d, L)` says of any of
these tables `d` what is sound of it while the call holds the pages `L`: pages and
free chain are what they can be (`Tables`), every page is of one tag, free,
held, or beyond the end (`Accounted`), a changed page of the cache is a data page
whose place on disk is not beyond the end, and the index of each tag fits the
pages in memory and those on disk, each by itself (`Chained`). `Fine` is what that
means for a page: its value, its links to the pages next to it in the order of
values, and that its keys belong there and nowhere else (`Here`). The invariant of
the run is `IInv`, `Good` of the table with no page held; TLC checked it on the
instance of `data_table` before the proof.

That memory and disk are both in order is more than `ChainSound`, and it is what
makes it inductive: pages leave the cache one by one and in any order, which keeps the
chain on disk only because a call that changes a link ends by saving all that is
dirty, so that what the cache holds between calls differs from the disk in records
alone. `DeleteTag` is the exception, since it frees pages which the
cache may still hold, and saves over the head of a free page later. So `Good` does not
say that a free page is free on disk, nor that the free chain goes on: `pagealloc`
stops there and takes a page beyond the end.

The proof goes upwards. What the calls of cache and space do to a table in memory
and on disk (`Written`, `Flushed`, `GoodFlush`, `GoodAlloc`, `GoodFree`); what becomes
of a chain when a page is put into it, taken out or written (`ChainGrows`,
`ChainShrinks`, `ChainChanges`); the parts of the calls (`GoodNew`, `GoodWrite`,
`GoodSplit`, `GoodReuse`, `GoodDeletePage`, `GoodDeleteFirst`, `GoodDeleteOnly`); the
calls (`GoodInsert`, `GoodInsertFast`, `GoodDelete`, `GoodDeleteTag`); one step for each
action (`InsertStep` to `CrashStep`). A page that is deleted and a page that is taken
over by the one before it are one lemma, `GoodShrinks`: two neighbours become one, with
the records of either. `DeleteTag` frees its pages one after the other, so what holds
after each is shown by induction over a set of numbers.

Each lemma also says what became of the records (`IsNew`, `IsWritten`, `IsStored`, `Shrunk`,
`IsDeleted`, `IsTagDeleted`), and the refinement is about nothing else. `Rec` is
the record of a key in the page its index gives for it (`RecordsHere` ties it to the
mapping of the model); `Stored`, `Stays` and `Trails` are `Put`, `Keep` and `Follows` of
`RecordStore` in these terms. What has to be shown of a split is that every
key is found in the half it went to (`SplitRecs`), and of a page that was taken over,
that the keys below the next value, and no others, are gone (`SecondRecs`), which
are all below those of the call. That a batch stores its first `n` records, and says
how many, is `PutRefines`.

The sizes of records are not in the invariant: where a page is split, and how many
records of a batch are taken, matters to none of these theorems. That the records of
a page fit (`TypeOK`) is left to TLC, since a sum over the records of a page is a
fold, and nothing can be proved of a fold by induction here.

### The list and the thread

`LockFreeListProofs` proves, for any number of pushes, `TypeOK`, `PointersLive`,
`SizeFollows`, and `Spec => PipeSpec`: the list implements the pipe. The
invariant: `_ptail` is the last node linked or the one before it (`ProducerAt`),
`_phead` is linked and exactly the nodes before the one being left are deleted
(`ConsumerAt`), and from `_phead` on each node links to the next (`Whole`). The
refinement maps the content of the pipe to the numbers between the consumer's
and the last linked node; `PushLink` appends to it, `PopTake` takes its head, all
other steps leave it alone.

`WorkerThreadProofs` proves `TypeOK` and `StopMeansStopped` for any number of
starts: a thread that is not over is the one `m_tid` names.

### The network server

`NetServerProofs` proves `TablesStayInStep` (`OneEach`) for any number of
connections, keys and calls, any send buffer and any peers. `OneEach` is not
inductive: the session of a descriptor is known by the type of its entry alone,
and a connection may be opened only where there was none. The invariant `Inv`
adds that an entry is of TCP exactly if it has a connection (`Table`), that a
connection the network does not know of has no socket yet (`Sockets`), that the
chain of the map lists every session once (`Lists`), and that the scan stands
inside it (`LoopInv`). All that callbacks, handlers and the loop do to the
tables is one of four things, each with its lemma: entries and sessions change
without changing hands (`Retuned`, with `OneSession` and `Rewatched`), a
connection that was not open gets a free key (`Opened`, `FreshKey`), a key leaves
(`Dropped`), or nothing happens (`Untouched`). The application's calls are taken
apart once, in `AppKeeps`.

`NoKeyIsStale` (`NoStaleKey`) holds under `FewConns`: the server meets at most
`INT32_MAX - 3` connections, 2147483644 in the code. The server never removes
what it has noted of a descriptor that is closed, so the property rests on the
keys alone. `Turn` counts keys from the first one handed out, around the end of
the range; the next key has the next turn (`NextTurn`, `FreeIsNext`), which no
key in use and no key noted has reached (`HandedOut`, `Means`), and an entry keeps
its connection. What is noted is true when it is noted (`KeyHere`) and stays true
whether a key is given (`KeyGiven`) or not (`KeysStay`). The bound is
tight: with one connection more TLC finds a descriptor that stays open while the
keys go around, is closed by the handler of another event of a pass, and whose key
the next event, an accept, hands out again, before its own event comes.

### TLS

`TlsLinkProofs` proves `TlsSessionsAgree` (`SessionsAgree`), `TlsToldOfThis`
(`ToldOfThis`) and `TlsStreams` (`StreamsSpec`): for any number of connections,
messages, records of a message, key pairs of the server and sizes of the send
buffer, for a certificate message of one or two records, and for every way TCP
cuts, breaks and ends a stream. They assume nothing but `LinkAssumption` and
`CertAssumption`, which give the constants their types, and the ideal
cryptography of the model.

What an end says in the whole life of a connection is one stream of records: a
script that the number of the connection and the key pair of the certificate
determine, then the data of its application. The invariant `Inv` (theorem
`LinkInvariant`) says of every connection that there are a key pair `g` and two
positions, `n` records the client has taken of the server's stream and `m` the
server has taken of the client's, such that

- the session of each end is the one its position determines: flags, counters,
  messages kept for the Finished, secret, certificate (`ClientAt`, `ServerAt`);
- what is on its way to an end are the records of the other's script behind its
  position, the first one without its head if the end has that already, and its
  application was given as many parts as the position says (`ClientView`,
  `ServerView`);
- while both ends are there and the connection is not broken, nothing is missing:
  position and records in flight make up what the other end has sent at *its*
  position, and each count of sealed records is the other's with those in flight
  (`Linked`).

`Placed` and `Told` say which of this is there at all: nothing of a connection not
yet begun, nothing in flight of a broken one. `g`, `n` and `m` are quantified in the
invariant, where one would otherwise add history variables. TLC checked `Inv` on the instance of
the run `tls_link` (with positions up to 24) before the proof. `SessionsAgree` is
not inductive, since it says nothing of records in flight, nor of a handshake half
made, where a key pair may be replaced: a server that has answered a hello keeps
`g` in its messages, and refuses the key exchange of a client that has it, when
`ca` is another by then (`ServerTakesKeys`).

The proof goes upwards. One record: `ClientTakes` and `ServerTakes` put together what
`TakeRecord` makes of the record behind each position. One read: `OneRead` names the
sequence of steps that `OnTcpRead` goes through (the model writes it as sets), and
`ClientReads`, `ServerReads` carry the position along it, by induction over a set of
numbers (`SetInduction`), to what is left in the stream (`ReadSplits`,
`ReadLeaves`). What is put out: `ClientAnswers`, `ServerAnswers`, `ClientSends` and
`ServerSends` show that it is the next of the script of the end that puts it out, and
count what of it is sealed (`SealsBehind`, over `CountBoth`). Then one step for each
action, which touches one connection (`StepAt`, `ClientStepAt`, `ServerStepAt`).

`ClientGiven` and `ServerGiven` say that what a read gives an application are the
next parts that the other end's sent, so it is a `Deliver` of `Stream`. For the
refinement, `NextStreams` says of each action which step it is in each direction:
`Accept` and `DoConnect` open an end, a send is a `Send`, what closes an end is its
`Close`, and a message of a client whose send buffer is full is both at once, a
`Send` of one stream and a `Close` of the other.

### Only model-checked

Liveness (`CallsReturn`, `AllPopped`, `StopReturns`, `MessagesHandled`, `DeadClosed`,
`Served`), which is out of the prover's reach; that the records of a page of the data
table fit (its `TypeOK`), which is a sum; the refinements of `KeptMap` and of `Stream` by
`NetServer`; and everything about `BPlusTree` and `ObjFile`. The tree is written with
`RECURSIVE` operators, which the prover does not take; the object file goes through
pages by folds and recursive functions, whose theorems of induction it cannot apply.

## 5. Not modelled, and what is next

1. The data table over a tree of several leaves, once `find` answers as it says;
   trees and dictionary of the index in one model, with crashes between them.
2. Crashes within a call of the data table, once the order of its last flush is
   mended; the LRU list of open files of the table space.
3. `HandleTable`, `BlockPool`, `HashMap`; WebSocket clients and the HTTPS and WSS
   sessions over `TlsSession`; the service process.
4. Pure algorithms as operators against reference definitions: dates, base64,
   varints, DNS names, configuration lines.
5. Proofs: the object file and its dictionary, by numbering the pages of a chain as in
   the table space; `StreamSpec` of the server.

Also outside the models that exist: `readpage` (it changes nothing), negative page
numbers, a page allocated on one table space and freed on another, the stdio
variant of the redo log and every Windows variant, a second `threadStart()`
without a stop, and `threadStop()` from the thread itself.
