# A TLA+ model of DFS_SYSTEM

DFS_SYSTEM is a distributed file store in C++. *Trackers* serve log-in pages and
send clients to a storage node; *storage nodes* take uploads, downloads and
deletes, and tell the peers of their group about them. This directory models the
parts of both programs whose correctness depends on what happens at the same time,
in which order, or on what a crash or a lost client leaves behind. TLC checks the
modules on small instances; for the lock, the two pools, the log, the byte buffer, the timer
heap, the ring log, the file requests, the channel between storage nodes, the sessions with
trackers, their registry of storage nodes and their accounts TLAPS proves the safety
properties for every number of threads, connections, tasks, lines, bytes, timers, entries,
files, nodes and users.

Paths below are relative to `src/`; `S/` is `storage/src/`, `T/` is `tracker/src/`.

## The system: components, state, operations

| Component | State | Operations | What makes it correct | Module |
|---|---|---|---|---|
| Readers-writer lock, `T/lock/rwlock.h` | `reader`, `writeQuest`, `writer`, two condition variables | constructors and destructors of two RAII classes | a writer is alone; writers are preferred; no wake-up is lost | `RWLock` |
| Connection pool, `pool/sqlconnpool.cpp` (both programs) | `connQue_`, `semId_`, `mtx_`, `stop_`, the refreshing thread (tracker) | `GetConn`, `FreeConn`, `Freshen_`, `ShutDown`/`ClosePool` | connections are neither shared nor lost; the semaphore counts them; shutdown ends | `SqlConnPool` |
| Thread pool, event loop, SIGINT handler, `pool/threadpool.h`, `S/server/storageserver.cpp`, `S/main.cpp` | `tasks_`, `stop_`, `free_`, `mtx_`, `cv_` | `AddTask`, workers, `Shutdown`, `CloseServer` | every task runs once; nobody sleeps through work; shutdown lets tasks end | `ThreadPool` |
| Ring log, `S/consistlog/ringlog` | header, pages on two linked lists, the stream's buffer and position | `WriteRollbackLog`, `WriteSynLog`, `FreeLog`, `Init` and `Redo_` | entries are not shared, lists stay linked, records survive a kill | `RingLog` |
| File requests, `S/http`, and the rollback log, `S/consistlog/rollbacklog` | per connection: parser, rollback order, ring addresses; tables; files; `userCount` | accept, `ReadProcess`, `UpdateLog_`, `UpdateSql_`, `WriteProcess`, destructor | rows and files agree; what committed stays; what was rolled back is what was done | `StorageHttp` |
| Sync channel to a peer, `S/message/node/storagenode.cpp` | `taskQue_`, `sendBuff`, `status`, the one-shot registration | `AddTask`, `WriteProcess`, `modFd` | tasks go out once, in order; the peer is not hung up on | `PeerSync` |
| Registry of storage nodes, `T/message` | `storageNode`, `group`, the hash ring, `Status`, `threadIsRun` | NEW, CHG self, disconnection, redirects | tables agree; peers hear of each other; a redirect leaves one active node | `TrackerGroup` |
| Timer heap, `T/single/heaptimer.cpp` | `heap_`, `ref_` | `add`, `update`, `erase`, `tick`, `GetNextTick` | a heap with a true index; idle connections are closed, and only those | `HeapTimer` |
| Asynchronous log, `S/log` | `deq_`, `isClose_`, `mtx_`, the writer thread | `write`, `flush`, `AsyncWrite`, `ShutDown` | each line is written once; shutdown ends | `AsyncLog` |
| Byte buffer, `buffer/buffer.cpp` | `buffer_`, `LPos_`, `RPos_` | `Append`, `ReadFd`, `WriteFd` | a queue of bytes: none lost, moved or repeated | `ByteBuffer`, `ByteQueue` |
| Consistent hashing, `T/message/consistenthash.h` | an ordered map of hashes | `AddNode`, `GetGroup` | a user moves only to a group that joins | `ConsistentHash` |
| Tracker connection, `S/message/node/trackernode.cpp`, `syntracker.h` | `sendBuff`, `recvBuff`, `status` | NEW, CHG, "new" | the stream arrives once and in order; the node is known and active at every tracker | `TrackerSession` |
| Sync receiver, `S/message/node/tasknode.cpp` | parser, rollback order | NEW, UPL, DEL | the stream is taken apart where messages end, and the peer connects back | `PeerSync` |
| Sync log, `S/consistlog/synlog` | free and used entries | write, finish | records are kept until finished | - |
| Tracker pages, `T/http` | per connection: parser, `HttpMessage`; the table `user`; cookies in browsers | registration, log-in, log-out, pages | a log-in lasts, a log-out ends it, a registration is whole | `TrackerHttp` |

### How they interact

- `main` runs the event loop. `epoll` hands it a `BaseNode*`; the loop turns the
  event into a task of the thread pool, which calls the node's `ReadProcess` or
  `WriteProcess` and re-arms the one-shot registration from its result. Everything
  that follows runs on four workers (`ThreadPool`).
- An upload or delete (`StorageHttp`) writes a rollback entry to the ring log
  (`RingLog`), appends to the file, files a task for every peer (`PeerSync`), frees
  the entry, and updates the tables with a connection of the pool (`SqlConnPool`).
- A storage node that starts says NEW to its trackers, which tell it the peers of its
  group (`TrackerGroup`); the answer of any tracker makes it connect to those peers
  (`PeerSync`) and say CHG to all trackers (`TrackerSession`). A peer that is told NEW
  connects back.
- Both programs read and write their sockets through `Buffer` (`ByteBuffer`).
- The tracker's HTTP handlers look users up with a connection of the pool
  (`TrackerHttp`), pick a node from the registry, partly under the readers-writer lock
  (`RWLock`), and refresh their connection's timer (`HeapTimer`).
- Everybody logs (`AsyncLog`). SIGINT runs `CloseServer`, then shuts down the thread
  pool, the connection pool and the log, on the thread of the event loop.

### What is hard here

*Interleavings*: registry handlers that read under no lock or drop it early; ring
log bodies written outside the mutex; a peer's node served by two workers. *One-shot
events*: arming twice merges or repeats them, and a slow worker arms a connection for
less than another has armed it for meanwhile. *Streams*: reads cut messages anywhere. *Crashes*: `bin/stop.sh` kills with
`-9`, in the middle of a list update. *Interrupted clients*: the rollback order must
be what was done. *Condition variables*: two of them with selective notification in
the lock, a close flag that is only looked at after a wait in the log's queue.
*Signals* on the thread that may hold the mutex. *Limits*: an empty pool, a full
queue, the end of the ring log's free list, a timer popped twice.

## Modules

The specification modules hold the state as VARIABLES, one action for each handler
or for each step between two places where another thread may come in, the
properties, and the mutated operators the properties are tried against. The `MC`
modules name the model values. Names of actions and fields are those of the code.

**`RWLock`** (abstract specification: `RWLockSpec`). `ReaderLock`/`WriterLock` are the
constructors up to the wait or past it, `ReaderWakes`/`WriterWakes` the loop after a
wake-up, `ReaderUnlock`/`WriterUnlock` the destructors with their notifications;
`SpuriousWakeup` is what the standard allows. The sleepers of both condition
variables are sets. `RefinesRWLockSpec` maps threads in a scope, and writers that
wait, to the three sets of the abstract lock.

**`SqlConnPool`**. `Call`, `Wait`, `Pop`, `FreeConn` for users, `FreshWake`,
`FreshLock`, `FreshWait`, `Fresh` for `Freshen_`, `ClosePool` and `Join` for the end. `mtx`
is a variable only for the two threads that block while they hold it. Whether a
refresh is due at a wake-up is left open (it is every 28,000 seconds).

**`ThreadPool`**. The main thread's steps are `TestsStop`, `EpollWait`, `AddTaskLock`, `AddTaskPush`,
`AddTaskNotify`, and `Events` is the environment; `Signal` may interrupt the main thread before any of
them, or asleep in `epoll_wait`, and runs `CloseServer`, `ShutdownLock`, `ShutdownNotify`, `Join` before it returns
there (`ReturnsTo`: only an `epoll_wait` that had begun ends with -1). Workers `Check`, `Begin` and `End`.

**`RingLog`**. Page 0 is the header; a page has a record and two links. `GetFreebody`
takes an entry, `SeekBody` and `WriteBody` are the writes outside the mutex, `FreeLog`
is the list surgery in the order of its writes (`FreeSteps`), `Kill` and `KillInFree`
cut it anywhere and restart from what had been flushed. Logs are counted, not entries: what was freed is
handed out again. The behaviour stops when page 0, the header, has been handed out as an entry (`HeaderTaken`).

**`StorageHttp`**. A request is cut into pieces, and one recv returns any number of
them: `Recv` is a turn of `HttpRequest::process` with parsing, file and rollback entry. An
upload has two names that nothing compares: the URL's (`Row`: tables, rollback) and the one
its form sends (`Stored`: the file on the disk).
`UpdateLog`, `UpdateSql`, `Respond`, `SendRest` follow; every end runs `Destroy`, the
destructor with its roll-back. `Abort` is a client that goes away, `Kill` a `kill -9`.

**`PeerSync`**. `AddTask` and `ModFdOut` are what a client's handler does, `Dispatch` the
event loop, `Take`, `Pop`, `Ready`, `Write`, `Account`, `Rearm` the steps of `OnWrite_` and
`WriteProcess` between which another worker may run. A channel begins as `DealTranew_`
leaves it, with an introduction, or as `DealNEW_` does, without. At the other end
`PeerReads` is `TaskNode`'s `ReadProcess` on any part of what is under way: a message is
its text and its line end, and the handler returns after the first whole one.

**`ByteBuffer`** (abstract specification: `ByteQueue`). The operations of `Buffer` as
functions of its cells and two positions; `MakeSpace` moves or grows as `MakeSpace_` does.
`SessionProofs` has the state machine that applies them in any order.

**`TrackerSession`** (over `ByteBuffer`). A node and its trackers: `Dispatch` and the
workers' steps `Read`, `ReadySynSelf`, `ModFd`, `Write`, `Account`, `Rearm`, `DealClose`, between
which another worker may serve or arm the same connection. The node looks for no line end:
`Read` takes what has arrived of an answer and four bytes off that for the verb, whether they
are there (`Aborts`: an assertion ends the node, which ends the model), begin the answer
(`TakesAnswer`) or are a part of its rest (`DropsVerb`). Bytes of an answer are counted (`answers`
under way, `left` in `recvBuff`), not spelt. At a tracker, `TrackerReads`
reads any part of what is under way into the receive buffer and handles at most one
message, `TrackerWrites` answers, `TrackerCloses` is the end. `said` remembers all the node put
into a send buffer; `Taken` is how much of it the system call has and `LPos_` does not know of.

**`ConsistentHash`**. `AddNode` and `GetGroup` over a hash function that is a constant, so
that virtual nodes may collide.

**`TrackerGroup`**. A handler of several steps where the code has an unlocked gap:
`DealNEW`/`LooksForMembers`/`PutsOnRing`/`JoinGroup`, `DealCHG`/`ThreadGO`, `LeaveGroup`/`LeaveTable`,
`PublicRequest`/`SynPULGroup`/`Respond`. `PutsOnRing` puts a group on the ring of
`ConsistentHash`, from which `UsersStay` looks users up.

**`TrackerHttp`**. `Recv` parses what arrived, `VerifyCookie`, `Select`, `Insert`, `Update`
are the statements of `Verify` and `Login_`, between which other handlers run; `Respond`
prepares the answer, `Deliver` sends the last of it and lets the browser keep the cookie.
`Send` and `Expire` are the browsers, `Hangup` a lost connection or its timer, `Restart`
starts the process again, and with it `rand()`. `session` and `expects` remember what a
browser was told, `apart` whether requests ever overlapped.

**`HeapTimer`**. The heap's operations are functions of a pair [heap, ref], written after
the code's array algorithms; the actions are the event loop's turn (`Tick`, `GetNextTick`,
`EpollWait`, `WakeUp`, `Dispatch`, `HangUp`) and the handlers (`Accept`, `Handle`), and the clock may
advance between any two of them. The callback of an
expired timer is followed through the destructor that erases the timer again.

**`AsyncLog`**. `Write`, `AsksWhetherFull`, `Pushes`, `PutsDirectly`, `Unlocks`, `Flush` for a
thread that logs; `Pop`, `Wake`, `WriterPuts` for the writer; `ShutDown`, `Drain`, `Close`,
`CloseNotifies`, `Join`.

### Conditions that properties carry

Several promises hold only as long as some accident has not happened, and the code
does nothing to keep it from happening. Those modules have a history variable that
remembers it, and the property says so:

- `RingLog.alone`: nobody used the log while another worker wrote a body. Bodies are
  written at a stream position that a concurrent seek moves, so two workers do spoil
  the list. `spent`: the last entry of the free list was taken (`EndsFreeList`).
  `GetFreebody_` does not notice: `freeListEnd` then names an entry in use, to which
  `FreeLog` appends, and the entry handed out next is the header's page, or one in use. The list
  need not be empty of free entries for that. `FreeLog` saves the header to page 1 instead of
  page 0 (offset 64, `ringlog.cpp:118`), so page 1, once on the list, has the successor 0 and
  ends it. Entries that were freed come back before, as often as one likes while page 1 is in
  use, and after a kill that left page 1 behind without end. Without the condition TLC refutes `ListsSound`,
  and with three entries and six logs `PagesNotShared`: a kill in `FreeLog` has left the last
  page of the list linked to the entry that was being freed, and that one to an entry in use.
- `StorageHttp.alone` and `aborts`: connections took turns, clients saw their request
  through. An upload between the two events of a delete leaves a row without a file.
  `SentAsNamed`, of one file: the forms that upload it send the name of their URL. Otherwise
  one upload, whole and undisturbed, lists a file that is not there.
- `PeerSync.alone` (`overlaps` is 0): no two workers served the peer at once. Otherwise
  one finds that the other has sent everything and hangs up on the peer.
- `TrackerSession.crossed`: a connection was armed, or served, while a worker was serving
  or arming it. The answer of one tracker makes a worker arm all the others: a slow
  worker that then arms its own connection for input overwrites that, and CHG stays in
  the buffer; or an event for output finds that everything was sent already, and the
  node hangs up on its tracker. `doubled`: two workers wrote from one buffer, and the
  stream repeats bytes; nothing after that is modelled.
  `aborted`: less than a verb of an answer had arrived, and the assertion in `AddHandled` ended
  the node (`trackernode.cpp:64`). An answer cut behind its verb is no exception: the session
  goes on, though the node may not hear of all of its group (that is not modelled).
- `TrackerGroup.serial`: no two handlers overlapped. Two nodes that join at once do not
  hear of each other; a node that leaves during a redirect is a null pointer; two nodes
  that report at once both start the flag thread, which ends the program. `raced`: the groups
  that a node found empty while another first member was on its way in. Both put the group on the
  ring, the second perhaps after a third group took one of its places, and a user goes back and forth.
- `TrackerHttp.apart`: requests of one browser, or about one user, did not overlap.
  Otherwise two registrations of one name are both welcomed, a refused form writes an
  outdated cookie back, and a late answer undoes a log-in or a log-out. `restarts`: log-ins
  after a restart draw cookie values that rows may still hold, and the unique column
  refuses them silently. A browser that logs in as a second user sends two cookies, which
  the parser takes for one value, and is taken for nobody.
- `HeapTimer.timedOut`: no timer has gone off yet. `tick` calls the callback, whose
  destructor erases the timer, and then pops another one. `missed`: the first timer ended
  between the two readings of the clock in `GetNextTick`, whose test for a negative rest is a test
  of an unsigned number, and the loop sleeps without a time-out. Besides, `SleepsUntilFirstTimer`
  is about timers set before the time-out was worked out: one that a worker adds while the loop
  sleeps without a time-out is not seen until something else happens.
- `AsyncLog.wasFull`: the queue was full once, so a line overtook others; `missed`: the
  writer was busy when `Close` notified, and will wait for ever.
- `ThreadPool.interrupted`: where the signal struck. In the critical section of `AddTask`
  the handler waits for a mutex its own thread holds (`locked`); between the test of `stop_` and
  `epoll_wait` (`enter`) the handler ends, but the loop then sleeps without a time-out, and at the next
  event `AddTask`'s assertion ends the process.

The unconditional forms were tried with TLC and are violated.

## Runs

| Run | Instance | What it shows |
|---|---|---|
| `MCRWLock` | three threads, each reader or writer at every turn | `Exclusion`, `NoLostWakeup`, `NobodyForgotten` (`WritersProgress`, `ReadersNotForgotten`), `RefinesRWLockSpec`. Two threads that wait for a third, of either kind, are the least in which a notification can go to the wrong one. |
| `MCRingLog` | two workers, four entries, five logs, two kills | `PagesNotShared`, `ListsSound` (types, `TodoListComplete`, `DoublyLinked`), `RecordsKept`. Four entries give every position in a list (first, last, two in the middle). More logs than entries: freed entries are taken again, also after kills, and the list runs out (`spent`). With five entries and eight logs, one worker at a time, the properties and the invariant of the proof were found to hold as well. |
| `MCStorageHttp` | two connections, two names, two chunks, three kinds of request in two spaces, one abort, one kill | `BooksRight` (types, `userCount`, `FreesWhatItWrote`), `RowsHaveFiles`, `UploadIsWhole`, `NoRollbackAfterCommit`, `RequestsAnswered`. Four pieces of an upload allow a cut at every boundary the parser has; with two names, an upload may list one and store the other. |
| `MCStorageHttpAbort` | the same without kills | `AbortKeepsTables` is violated: rolling back an upload that never reached the tables deletes the rows of an earlier one. |
| `MCPeerSync` | two workers, two operations, one overlap of workers, any cut of the stream | `ChannelSound` (types, `NeverPopsEmpty`, `HandedOutOnce`, `NeverHangsUp`, `PeerHearsInOrder`), `PipelineOnlyGrows`, `PeerConnectsBack`. With the introduction, three tasks meet in a queue that two workers drain; one overlap is what it takes for two messages to be written twice or a channel to be hung up. |
| `MCTrackerSession` | two trackers, two workers, reads of one byte or all there is, an answer of nine bytes that comes whole or, from one tracker, also cut after its verb, send buffers of six bytes, receive buffers of three | `SessionSound` (types, `StreamIntact`, `NeverCutOff`, `EndsActive`: no rest before every tracker has the node as active), `BecomesActive`. Two answers are the least that cross. Of the pieces of an answer one is the verb alone, one a rest that passes for a verb, and one too short for any. NEW is two bytes and the CHG of each answer two more, so a receive buffer of three is moved and grown; the send buffer, of 1024 bytes in the code, is not. |
| `MCSqlConnPool` | three users, two connections, refresh and shutdown | `ConnsConserved`, `SemCounts`, `ClosedWhenDone`, `WaitersServed`, `ShutdownCompletes`. One user always has to wait. A refresh, once it has begun, keeps the mutex it asks for again: the properties except it by name. |
| `MCThreadPool` | three workers, three tasks, a signal anywhere | `PoolSound` (types, `TasksRunOnce`, `NoLostNotify`, `ShutdownDrains`), `TasksRun`, `ShutdownCompletes` (the signal struck neither between the test of `stop_` and `epoll_wait` nor in `AddTask` with the mutex held; no further event is needed). |
| `MCTrackerGroup` | three nodes in three private groups or the public one, two users, two workers, two redirects | `TablesSound` (types, `TablesAgree`, `GroupsOnRing`), `MeshComplete`, `NeverCrashes`, `RedirectLeavesOne`, `UsersStay`. Two groups share a place on the ring, to which a user is mapped, and a group may be left and joined again. Symmetric in nodes and workers. |
| `MCHeapTimer` | three descriptors used twice, time-out 2, clock to 4 | `HeapSound` (types, `HeapShape`, `TimersMatch`), `SleepsUntilFirstTimer`, `ClosesOnlyIdle`. Three nodes are a heap with two children; the clock lets a connection expire, its descriptor be used again, and expire again. Symmetric in the descriptors. |
| `MCTrackerHttp` | two connections, two browsers, two users of whom one is registered, three requests of any kind with either of two passwords, a restart | `AccountsSound` (types, `WelcomesRightly`), `SessionsHold`, `OnlyLoginsMoveCookies`. Log in, be disturbed by somebody else, ask again takes three requests. Symmetric in connections and browsers. |
| `MCAsyncLog` | three threads, a queue for two lines, five lines | `LinesSound` (types, `LinesConserved`, `NeverWaitsForRoom`, `LinesInOrder`), `LinesWritten`, `ShutDownEnds`. |

Deadlock is checked for the lock and for `TrackerHttp`, where threads and clients never stop. Elsewhere a behaviour
may end: the bounds are used up, the server was shut down or has crashed.

Every bound is a constant with "bound" in its comment and appears only in the guard of
the action it limits.

## Fairness

Weak fairness of single steps, and only of those the code will do when it can: a thread
inside a scope leaves it and a woken thread gets its mutex (`RWLock`), users return
connections and the refresher reacts to `stop_` (`SqlConnPool`), workers carry on with a
task (`ThreadPool`, `PeerSync`, and in `StorageHttp` up to the first write of the answer, for
which a new socket buffer has room; the rest of it needs a client that reads, and the node has no time-out), the main thread takes its next step (`ThreadPool`; events and
the signal need not come), the event loop dispatches and the peer reads
(`PeerSync`), the writer thread writes (`AsyncLog`). In `TrackerSession` only `Next` as a whole
is fair: bytes and answers are finite in number, so every behaviour runs to its end whatever
the order. Nobody is obliged to take a lock, send a request, log a
line or send a signal; clients promise nothing; spurious wake-ups are never relied upon.
`RWLock` needs no strong fairness, because a writer that waits blocks new readers.

## Proofs

`LockPoolTimerProofs`, in three parts. The first is the lock, for any finite set of threads. The
inductive invariant is `IInv == TypeOK /\ CountersExact /\ Exclusion /\ NoLostWakeup`: the guards of the code
speak of counters and the properties of threads, and `CountersExact` ties the two;
`NoLostWakeup` needs to know who is queued. One lemma for each action shows that it keeps
`IInv`; cardinalities move by one (`AtPlus`, `AtMinus`). Theorems: `TypeCorrect`,
`CountersAreExact`, `LockExcludes`, `WakeupsNotLost`, `WritersPreferred` (an action
property) and `LockImplementsSpec`, the refinement of `RWLockSpec`, a step or a stutter for
each action under `IInv`.
The second is the connection pool, for any finite sets of users and connections, with or
without a refresher. `PoolIInv` is `PoolTypeOK`, `ConnsConserved`, `SemCounts` and
`QuietWhenClosed`: whoever is past the semaphore finds a connection because queue = semaphore
+ those past it, and that equality survives the refresher's and the shutdown's steps only if
nobody uses the pool any more once it is closed. Theorems: `PoolTypeCorrect`, `ConnectionsConserved`, `SemaphoreCounts`,
`PopsFindConnections`, `ShutdownClosesAll`.
The third is the timer heap, for any finite set of descriptors and any time-out. Most of it is
about the array algorithms: `LoopDefined` gives a sift its recursion equation and `LoopKeeps`
what its steps keep, by a least number of steps left (`LeastOf`), so that `SiftedDown`
and `SiftedUp` say that a heap with one node out of place is a heap afterwards with the same
timers and a true index. `Deleted`, `Added`, `Updated`, `Erased`, `Popped` and `Ticked` follow,
the last through the callback that erases the timer again. `TimerInv` is that the heap is
`Good`, that no timer is later than a time-out from now (`WithinTimeOut`), that its timers are
those of the open connections as long as none went off (`Matches`), and that the time-out, once
worked out, is no longer than any timer that was there needs (`Wakes`): timers added later, and
those put off meanwhile, end later than that. Theorems: `HeapStaysSound`,
`SleepIsBounded` and the action property `OnlyIdleAreClosed`.

`SessionProofs`, in two parts. The first is the byte buffer, for any cells and any numbers of
bytes. Sequences are compared byte by
byte (`PartOfSeq`), each operation is shown to keep `IsBuffer` and to put or take what it
should (`HasWrittenPuts`, `ResizedKeeps`, `MovedToFrontKeeps`, `AddHandledTakes`), and the three
cases of `MakeSpace_` (enough room, move, grow) are `RoomIsMade`, from which `AppendPuts` and
`ReadFdPuts` follow. `BufferSound` is the invariant (`IsBuffer` is inductive by itself),
`BufferIsQueue` the refinement of `ByteQueue`.
The second is a node's sessions with its trackers, for any trackers, workers, sizes of buffers
and cuts of the messages and of the answers. `StreamIntact` leans on `OneWrites` and `TakenThere`: until two workers
write at once, one at most has bytes with the socket that `LPos_` still counts, and they
are at the front of the buffer. `NeverCutOff` leans on what holds until events cross: one
worker for a connection (`OneEach`), which nobody arms for output while it sends
(`Reserved`), and `SomethingToSend`: whenever a connection is armed for output, is about to be,
or was passed by the loop of `SyncSelf` on behalf of its own handler, there is something in its
buffer. A second layer, `GInv`, gives `EndsActive`, the safety half of `BecomesActive`: it does
not say that the conversation goes on, but that there is always something to go on with. What is said is whole lines, NEW the first of them (`Lines`), and a
tracker handles whole lines (`Whole`); a connection is armed or some worker has it
(`Registered`); what is in the send buffer, somebody will send (`Remembered`, `Drained`); and a
tracker that has handled NEW is about to answer, has its answer whole under way (`Begins`: a
read that cuts it takes the verb, `ReadGoes`) or being handled, or has another line to read
(`Replied`). At rest none of these is left but that a second line was handled, and with
it the status is active (`RestsWhenActive`). Theorem: `SessionIsSound` (`SessionSound`).

`ChannelProofs` is the sync channel, for any workers, operations and overlaps.
`IInv` is `TypeOK`, `NeverHangsUp`, `PeerHearsInOrder` and what these lean on: `OneWorker`,
`FiledOnce` (a task is in one place of the queue or in one worker's hands), `Phases` (where a
worker is, the status and what is left in the buffer fit), `Heard`, and `Enough`, which is the
heart of it: for every job that is queued, served or still to come, and for a socket that is
armed, there is a task in the queue or the rest of one in the buffer. `pop()` without a test
and the close on an empty buffer are safe for this reason alone, and only while workers come
one at a time (`alone`). Theorems: `ChannelIsSound` (`ChannelSound`) and the action property
`PipelineGrows` (`PipelineOnlyGrows`), which follows every entry from the queue through a
worker's hands and the buffer to the peer.

`TrackerGroupProofs`, for any nodes, workers, users, groups and hash function, in two parts.
`UsersStayPut` is the action property `UsersStay`. Its lemmas are about the ring: the first
place from a hash on exists (by well-foundedness of `<`), and it stays the first when places
are added unless one of them is before it (`PositionStays`), so a group that is added takes
users for itself only (`JoinerTakesUsers`). The invariant `JoinsAreSound` (places are numbers,
a joining handler is about a node) is what makes these apply to the registry's steps; its part
`FirstIsAlone` says that a group a handler is about to put on the ring is still empty and nobody
else is joining it, unless it is among `raced`.
The other part is about the tables. `IInv` is `TypeOK`, `TablesAgree`, `GroupsOnRing`,
`MeshComplete` and what makes these inductive: `JobsSound` (while a handler files a node,
takes it out or starts its flag's thread, the node is where the handler left it and no other
is about it), `ListedOnRing` (a private group is on the ring before a node is listed in it),
`AcceptedFound` (a node that was accepted and has not gone is in
`storageNode`) and `OneHandler` (as long as no two handlers overlapped, one worker at most is
busy and what its handler has found out still holds). Theorems: `TablesAreSound`,
`MeshIsComplete`, `TrackerSurvives` (`NeverCrashes`) and `RedirectsLeaveOne`
(`RedirectLeavesOne`).

`RingLogProofs`, for any number of entries, logs, workers and kills, however often entries are
freed and taken again. None of the three
properties is inductive, and none can be shown without the others. `IInv` has three parts:
`Basics` (types, the counts of the header, who writes what), which holds without conditions;
`Apart`, while workers take turns and until the list is spent; and `Records`, which counts
what cannot be read back and what the page still in the stream's buffer can add.
There are three free lists at a time: the one of the header in memory (`InMemory`), and those a
restart would find in the file as it is and without its last page (`OnFile`, `OnDisk`), since
`freeListEnd` in memory runs ahead of the file. `Apart` gives each a set of pages which the list's links do
not leave, no two of which link to the same page, and which belong to no log (`Fits`): so the
page taken next is nobody's, and leaves a list of the same kind. `Links` says of the entries in use that they
are linked in the order of their logs' numbers, which is what `FreeLog` needs to write to
neighbours and nowhere else; it excepts page 1, over which the header goes, and the link of the
oldest, which after a kill leads to a page in use before. `FreeLog` is treated write by write
(`Unlink1Pages` to `FreedPages` say what each changes on which page, `WritesLeave` what none of them does), so
that being killed between any two is covered. That all entries are found from `todoList` takes
a well-founded argument (`ListsReachAll`): if a log's entry is missing from a set closed under the
links, then among the later logs whose entries are in it there is a first, and its link would lead
to an entry between the two.
Theorems: `PagesAreNotShared`, `ListsAreSound` (`ListsSound`), `RecordsAreKept`.

`StorageServerProofs`, in two parts. The first is the file requests, for any connections, files
and pieces, however many are open at once, leave early or are killed. `IInv` is `TypeOK`, `FreesWhatItWrote`, `RowsHaveFiles` and what
these lean on: `Logged` (by stage, whether the rollback entry was written and freed),
`Orderly` (no order is left once the entry is freed), `Shapes` (the types `TypeOK` leaves
out), and, for requests that never overlapped (`alone`, a condition of `RowsHaveFiles` and
`UploadIsWhole`), `OneAtATime`, `EndsWithReceived` (the pieces received are the end of the
file they are stored in, in order) and `RowsDeleted`. Names once sent do not change (`NamesStay`), so the
condition `SentAsNamed` of `RowsHaveFiles` held before a step if it holds after. Theorems: `BooksAreRight`, `ListedFilesExist`,
`UploadsAreWhole` and the action property `CommittedStays` (`NoRollbackAfterCommit`).
The second is the event loop and its thread pool, for any number of workers and tasks.
`PoolIsSound` is `PoolSound`, the invariant of `MCThreadPool`. It is not inductive by itself:
`Phases` ties where the main thread is to `serverStop`, `stop` and `mtx_`, `RoomForTask` says
that a loop on its way into `AddTask` has a task left, even if it was interrupted there, and
`LeaversLeaveNothing` that a worker leaves only a closed and empty pool; with these, a handler
that has returned (`stop`, and main elsewhere) has left no worker and no task behind.

`TrackerHttpProofs`, for any connections, browsers, users, passwords, requests and restarts,
in two layers. `IInv` says of every connection what its stage allows (`Right`), bounds the
random values by the requests that may still draw one (`DrawnForRequests`) and says what
requests kept apart are: about different users, from different browsers (`KeptApart`). It
gives `AccountsAreSound` and the action property `LoginsMoveCookies`. `SInv` ties, on top of
it, the cookies of the browsers to the tracker's table, to the headers under way and to what
each browser was told (`SessionCurrent`, `HeaderCurrent`, `AsExpected`), and says that until a
restart every login has a value of its own (`Draws`); it gives `SessionsAreKept`. The second
layer speaks, as `SessionsHold` does, of requests kept apart.

`AsyncLogProofs`, for any threads, capacity and number of lines. `LinesAreSound` is
`LinesSound`, the invariant of `MCAsyncLog`. Whoever is inside `write` carries the highest
number (`Books`), so everything put somewhere before is below it: what is in the file, with
the writer thread and in the queue are the numbers up to `Settled`, once each, and as long
as the queue never was full they are in that order (`Ordered`). That there is still room
when a thread pushes follows from `Log::mtx_`, which keeps all others out.

The proofs assume only what the modules' ASSUMEs state: finite sets, a Boolean, hashes and
(in `TrackerSession`) workers that are numbers, threads that are not called `Nobody`, users that are not called by one of the
values that stand for none (`""`, `"unknown"`, `"out"`), operations that are not called by the
model's names for the introduction and the line end, verbs that are not the line end, and passwords that are not empty. A theorem states every invariant and every
action property of the passing runs, and both refinements. What is model-checked only is
liveness, since TLAPS 1.4.5 has no backend for fairness: `NobodyForgotten`, `WaitersServed`,
both `ShutdownCompletes`, `TasksRun`, `RequestsAnswered`,
`PeerConnectsBack`, `BecomesActive`, `LinesWritten` and `ShutDownEnds`.

## What is not modelled, and why

- Data races. `HeapTimer` has no lock in the code and `Buffer` only atomics for its
  positions; their calls are taken one after another. Containers of the registry are taken
  to survive concurrent changes. What a race may do is undefined and no model of it would
  say more than that.
- `ReadySyn_`, `sendfile`, `FinshSyn_` and the receiver's UPL and DEL: `AddTask(synPack)`
  files every task as NEW (`S/message/node/storagenode.cpp:111`), so nothing ever gets there:
  each operation makes the peer open another connection back, and no file is synchronised.
- `Redo_`: `todoListNum` is never incremented, so a restart finds nothing to redo.
- Messages of a peer that arrive together: the second stays in the buffer until more comes,
  and is lost if the sender hangs up (`PeerConnectsBack` promises nothing for it).
- A download's rollback order is never set and holds what the heap held before
  (`S/consistlog/rollbacklog/rollbacklog.cpp:3`); a private upload never gets its row, since
  its statement names two values for one column (`S/http/httpconn.cpp:87`).
- The sync log: two writes of a record that nothing reads.
- The private redirect: `HeaderAddPriAddr_` looks in the group named like the user and
  compares a message status with STORAGE_STATUS_ACTIVE, so it finds no node.
- Names longer than the twelve bytes of a ring entry, which overwrite its links; the second
  `RingLog::Init` with two trackers; descriptors closed twice; the log's change of files.
- `onlieUser` and `userServer`, which log-ins fill: they are read when a storage node sends
  CHG user, and none does. Cookies are what `Set-Cookie` made them: no malformed headers.
- `updateFlag_` never ends, since it takes the time once: `threadIsRun` stays true.
- Configuration, HTML, MD5, sockets: start-up, presentation and system calls.

## Plan

1. Done: all modules above, with proofs of their safety properties.
2. Next: `RingLog` with a second `Init`.
3. Compositions: `StorageHttp` over `RingLog`, where the addresses a request frees meet the
   lists; `TrackerGroup` over `RWLock` for the handlers that do take the lock;
   `TrackerSession` with the ends of `TrackerGroup` behind it.
