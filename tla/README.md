# Models of CHEN_Test

CHEN_Test (`src/CHEN_Test`) is a Windows load-test client for a game server
that speaks a small message protocol over UDP. It has two ways of playing a
player: `NetService`, driven by an I/O completion port, and `TestClient`,
driven by a thread pool. This directory holds TLA+ modules of its parts, TLC
configurations that check them on small instances, and theorems proved with
TLAPS for all instances.

## The system

| component | state | operations | interacts with | modules |
|---|---|---|---|---|
| `ThreadPool` | list `m_elems` of `_ThreadElem` (callback, parameter, runs left, last start, interval), a critical section, `m_bRun` (never cleared) | `Init`, `AddElem` / `HasSpace`, `ThreadFunc` / `GetElem` | called by `main()` and by callbacks; calls `TestClient::TestFunc` | `ThreadPool`, `TaskLedger`, `PoolStart` |
| `IOCPHelper` | the port `m_iocp`, `m_run`, `m_threadCount`, `m_existCount` | `Init`, `RegHandle`, `ShutDown`, `_WorkThread` | calls `Callback` of `CLog` and `NetService` | `IOCPHelper` |
| `NetService` | per player a `NetIoData`: `OVERLAPPED` with an event, buffer, `OPT`, `recvID`, `sendID`; a map of players | `RegesterNewSocket`, `CheckUid`, `ReqJoinTable`, `ReqStartSyncFish`, `ReqBullet`, `Callback`, `RecvCmdData`, `GetHanle` | `main()` and the workers share the struct without a lock | `NetService`, `Acknowledger`, `Commands`, `SocketRegistry` |
| `CLog` | one `PerIocpData` with the file offset, `m_bOpened` | `Init`, `TranceLog`, `Callback` (empty) | called by every thread | `CLog` |
| `TestClient` | socket, record of sent messages | `InitClient`, `CheckUid`, `CheckUidRst`, `TestFunc` | runs on pool threads, adds elements to the pool | `TestClient`, `SocketRegistry` |
| socket creation | none | `CreateSocket` | `NetService`, `TestClient` | `SocketRegistry` |
| messages | 28 generated classes | set, clear, swap, merge, size, write, read | `NetService`, `TestClient`; runs on the Protocol Buffers headers | `Messages` and the `Fishing...` tables |
| `main` | none | start-up, then `Sleep` | all of the above; its use of `NetService` is commented out at this commit | parts, see below |

What is hard here: elements of the pool are used after the lock that protects
them is released; threads enter that lock before it is initialised; a DWORD
clock and a DWORD file offset wrap; `AddElem` tests and pushes in two locked blocks; every operation of
a player goes through one struct, one event and one `OPT`; waits have no time
limit; the log has one buffer and one offset for all threads; `m_optRecord` is
shared without a lock; datagrams are lost, doubled and reordered; failures of
calls are logged or ignored; the generated code skips and jumps by has-bits and
tags. `PROJECT.json` lists these hazards at their lines, with the properties
that watch them.

What makes each part correct:

- *ThreadPool*: each hand-out counts one run, and an element without runs left is
  reclaimed, not while a worker uses it; the list is bounded and changed by one
  thread at a time; a finite element is reclaimed at last, if none stands before
  it that is always due.
- *IOCPHelper*: each packet reaches its handler; the port outlives the workers;
  `ShutDown` returns; failures of `Init` do no worse.
- *NetService*: before the first request one operation of a player at a time may
  change its struct; while calls are accepted no signal is lost and `main()` goes
  on; the id answered to the server never goes back and answers only what arrived;
  the parse stays aligned, and leaves the buffer only after a datagram that leaves
  one to three bytes of it.
- *Sockets*: none leaks, none has two owners, each player's is attached once.
- *CLog*: old text stays; the pieces tile the file and hold what was logged.
- *TestClient*: each sent message is deleted once.
- *Messages*: what is written means what the `.proto` file says, has the size
  that the header announces, and reads back the same.

## Modules

| module | models | composed with |
|---|---|---|
| `TaskLedger` | what the pool promises a caller of `AddElem` | implemented by `ThreadPool` |
| `ThreadPool` | `ThreadPool.cpp`, `ThreadPool.h` | `INSTANCE TaskLedger` |
| `PoolStart` | `ThreadPool::Init`, `CS_LockGuide.cpp` | proved about in `ThreadPoolProofs` |
| `IOCPHelper` | `IOCPHelper.cpp` | |
| `Acknowledger` | what the receiving side promises the server | implemented by `NetService` and by `Commands` |
| `NetService` | one player of `NetService.cpp`, the kernel and the network | `INSTANCE Acknowledger` |
| `Commands` | the loop of `RecvCmdData` over bytes, and the server | `INSTANCE Acknowledger` |
| `SocketRegistry` | `Global.cpp`, `RegesterNewSocket`, `GetHanle`, `RegIOHandle`, `InitClient` | |
| `TestClient` | the exchange of `TestClient.cpp` | `INSTANCE TaskLedger` |
| `CLog` | `CLog.cpp` | |
| `FishingProto` | `Game60_FishingMessage.proto` | |
| `FishingClass`, `FishingAccess`, `FishingNew`, `FishingClear`, `FishingMerge`, `FishingParse`, `FishingWrite`, `FishingSize` | one function of each generated class, as a table | |
| `Messages` | the objects, and the library code that the tables drive | `INSTANCE` of the nine tables |
| `MC...` | values of the constants, symmetry | the module of the name |
| `...Proofs` | theorems and proofs | the module of the name |

`TestClient` uses the pool only through `TaskLedger`, which `ThreadPool` is shown
to implement; `NetService` and `Commands` are two views of one receiver and are
both shown to keep the promise of `Acknowledger`.

Some definitions are marked *Mutant*: a plausible wrong version of the
definition they precede. No action uses them. Put in its place, each makes a
run fail, which shows that the run can tell the difference.

### ThreadPool

A block under `AUTO_LOCKER` is one action. `GetElem` is `GetElemHit` (the first
due element with a run left is taken, spent ones before it are deleted) or
`GetElemMiss` (spent ones are deleted, NULL is returned). Between `GetElemHit`
and `Return` the worker reads the element without the lock (`Call`, then the
callback runs). `AddElem` is `AddElem` (first test), `HasSpace`, and `Push`. An
element is named by the rank of its `push_back`, and the list only grows at its
end, so the list is a set and its order is the order of the names; a deleted
element leaves the set, but its last fields stay readable in the model so that
properties can speak of it. `Tick` is `timeGetTime()`, modulo `TickMod`
(2^32 in the program). `Forever` stands for `MAX_THREAD_RUNCOUNT`, all bits
set; it only has to differ from the finite counts that occur. `held` is not in
the code: it counts the milliseconds a worker has had its element, for the
properties. Behaviours begin when `Init` has returned; `PoolStart` has what
comes before.

`TaskLedger` is what a caller of `AddElem` may count on: a thread that gets a task
(`Hand`) takes exactly one of its runs, a task is handed out only with a run left
and deleted only without one. That a task is handed out at all it does not
promise; that is `Reclaimed`.

### PoolStart

`Init` starts the threads (`Spawn`, `Spawned`) and only then initialises the
critical section (`InitLocker`), which the threads have been entering (`Lock`,
`Scan`, `Wake`). Until then the section is `"raw"` memory: `LockUndefined` lets
`EnterCriticalSection` admit the thread, keep it for ever, or end the process.
A thread that was admitted so and leaves after the initialisation leaves a
section that does not know it; from then on the section is `"spoiled"`, and all
three outcomes are possible again. `_beginthreadex` may fail, unnoticed. `main()`
enters the section twice for its element, for `HasSpace` (`Check`) and for the
push (`Add`).

So that `ThreadPoolProofs` can use both modules, its names differ from `ThreadPool`'s:
`at` is where each thread is, `added` whether the element of `main()` is in the list,
`SpaceForFirst` and `AddFirst` are the two blocks of `AddElem` as called by
`main()`, whose thread is `Starter`.

### IOCPHelper

`Init` is `CreatePort` (which may leave NULL), one `Spawn` per thread (which may
fail) and `InitReturns`; workers already run while later ones are started. A
worker goes through `TestRun`, `GetStatus` or `InvalidHandle`,
`CallbackReturns`, `Exit`. `ShutDown` clears `m_run`; `ClosePort` is the end of
its loop and `CloseHandle`. `Issue` and `Complete` are Windows: an operation of
a handle whose port nobody serves (`"orphan"`, or refused) is lost. `Init` compares the port with
`INVALID_HANDLE_VALUE` while `CreateIoCompletionPort` returns NULL on failure,
so it goes on without a port. The case of
a worker that waits on a port while it is closed is not in `GetStatus`:
`PortOutlivesWorkers`, which is proved, says that it does not occur.

### NetService

One player, as players share only the map of sockets, which the module leaves
out. `OPT` and the kinds of operations have names: 1 `checkuid`, 0x10001
`recvcheck`, 0xf0000 `recv`, 0x20000 `ack`, 2 `join`, 3 `scene`, 4 `bullet`.
All branches of `Callback` share one form (wait, reset, fill the struct, start
one operation), so the actions are `Callback` (a worker gets the packet and
reads `OPT`), `Inspect` (the check-uid answer), `Wait`, `Reset`, `Parse` (a round
of the loop of `RecvCmdData`), `Prepare` (fill), `Issue` or `IssueFails`;
`After` says which operation each branch starts. Behind its `WSASend`,
`RecvCmdData` still reads the struct for a log line (`Report`), when the send may
have ended and its callback run on another worker. The requests of `main()` are
`Request`, then `Wait`, `Reset`, `Prepare`, `Issue` by the thread `Main`.
`Complete` signals the event and posts the packet, `Deliver` also puts a
datagram in the buffer, and `CompleteEmpty` on a receive is a failed receive,
which the worker of `IOCPHelper` hands on like a good one. A datagram is the
list of its message ids; any of the set `Datagrams` may arrive at any time,
which covers loss, repetition and reordering. Assumed of the server, which is not
in the repository: it sends the fields of commands in the byte order of the
client's machine, as `RecvCmdData` reads them raw, though the client's own
messages and answers go through `htonl` and `htons`.

Abstracted or left out: `sendID` (counted, put into messages, never read
back), `wsabuf.len`, the bytes of messages, logging, the last `else` of
`Callback` (no operation has such an `OPT`), the lookup of the player by uid.
The struct's own messages in the buffer, parsed by mistake, hold no id that
could follow `recvID` and count as empty.

### SocketRegistry

One thread registers players and initialises clients, in any order, and each
call into Winsock is an action that may fail. A socket is named by its rank.
`data` are the sockets with a `CreateSocketData` in memory: `InitClient` deletes
it, a registered player keeps it, and a failure leaks it - which is not a
property that is checked, as it is what the code plainly does. `GetHanle` is not
told for whom it is called: it gives out the first unmarked handle from the
greatest uid down. The kinds of socket (UDP, TCP, overlapped) differ in no step.

### TestClient

One client and the elements it adds. `TestFunc` hands a thread a run of an
element; `REQ_CHECKUID` is `Send`, `Lookup` and `Assign` (`m_optRecord[0]`, and
the assignment to what it returned), `ReqOpt_RecvCheckUid`, and falls through to
`CheckUidRst` and `DeleteRecordData` (`Find`, `Free`, `Erase`), which
`REQ_RECV_CHEKCUID` enters directly. `m_optRecord` is a `std::map` without a lock:
a thread is inside `operator[]`, `find` or `erase` from the action before it to the
action that ends it, and `Break` is what may happen when another thread changes the
tree meanwhile, when the entry was erased that a reference or an iterator stands
for, or when a message is deleted twice. `recv` is taken to return, and what it
finds makes no difference. Any `AddElem` may be refused. Once memory is broken the
behaviour is undefined and the model stops. `main()` builds its parameter with
`new TestParam(pt)`, for which `TestClient.h` has no constructor; it is taken for a
`REQ_CHECKUID`.

### CLog

`TranceLog` cuts a text into pieces of the buffer's size; a piece is `Fill`,
`WriteFile` at the current `Offset`, then the load and the store of
`Offset += lastWriteLen`. A write is done at once, fails, or stays pending until
`Perform`, which reads the buffer as it is then. The file is a function from
positions to bytes, a byte the number of its message and its place in it. `Offset`
is a DWORD (`OffsetMod`, 2^32 in the program) and `OffsetHigh` stays 0: the store
wraps, and `InitLog` takes the low half of the file's length, or all ones when
`SetFilePointer` fails. `astray` is not in the code: it remembers that `Offset` was
once not the length of the file plus what was added.

### Commands

A datagram is a run of commands of the server, given by its first and last id;
`Start` says where each begins, `Size` where the last one ends. `RecvCmdData` is
always called with the size of the buffer (`IOCPHelper.cpp:106`), so `pend` is the
buffer's end and the branches for short datagrams are never taken: the loop ends at
`pend` or at a zero. A field is read at an offset: at a command it is that
command's, behind the datagram it is zero (the buffer was cleared before the
receive), anywhere else, and where it lies across the end of the buffer, it may be
anything. `Round` is a round of the loop, `Break` its end, and `Overrun` the step
that reads on behind the buffer, where the model stops: what follows is foreign
memory. `ReceiveNothing` is a receive that failed. The server sends what it has not
seen answered, in datagrams that are lost, doubled and reordered, and so are the
answers. Assumed of the server: a datagram fits the buffer (`IOCP_BUFFER_SIZE`),
fields come in the client's byte order (as in `NetService`), and ids stay below 2^31.

### Messages

Each `Fishing...` table has one definition per message, read from its own
generated function: `FishingClass` the members, `FishingAccess` the has-bits and
what `clear_...()` does, `FishingNew` `SharedCtor`, `FishingClear` `Clear` with
its masks of eight has-bits, `FishingMerge` `MergeFrom`, `IsInitialized` and
`Swap`, `FishingParse` the cases and jumps of `MergePartialFromCodedStream`,
`FishingWrite` `SerializeWithCachedSizes`, `FishingSize` `ByteSize`. They
agree only if the generated code does. `Messages` interprets them: calls on an
object, `SerializeTo`, then reading token by token with a stack of calls
(`ReadField`, `ReadNested`, `SkipField`, `Return`, `ReturnFalse`). A token is a
field on the wire with its size in bytes; the bytes of a varint are not spelled
out, their number is. TLC's integers end at 2^31, so the runs meet varints of up to
five bytes and of ten (negative numbers); those of six to nine bytes, which an
`int64` can have, are in `VarintSize64` and in the theorems only. Lists keep cleared elements, as `RepeatedPtrField` does.
`StrangeField` is a peer with another `.proto` file, `CutOff` one whose bytes
end early: the parse returns false, and the object keeps what came before, with a
part of a string or of a nested message that was cut. Reflection, descriptors,
text format and start-up registration are left out.

## What the runs check

| run | shows | distinct states |
|---|---|---|
| `ThreadPool_safety` | `FreedOnlyAfterOverrun`, `SharedOnlyAfterOverrun`: an element is deleted under a worker, or shared by two, only after an overrun of its interval; `CapacityOvershoot`: overshoot of the list is less than the number of threads; `LedgerSpec`: refinement of `TaskLedger` | 1.1M |
| `ThreadPool_live` | `Reclaimed`: a finite element is deleted in the end, unless an endless one that is ever due stands before it | 453k |
| `PoolStart` | `ExclusiveUnlessOvertaken`, `ListAlone`: the list is guarded, unless a worker was inside while the section was initialised; `Served`: the first element is found, unless the threads were lost | 4.7k |
| `IOCPHelper_live` | `PortOutlivesWorkers`; `Serviced`: packets reach a callback; `ShutDownIfWoken`: `ShutDown` returns if enough packets come | 130k |
| `NetService_chain` | without requests: `ExclusiveWrite`, one at a time may change the struct; `WaitNeverBlocks`; `AnswersOnlyReceived`, refinement of `Acknowledger`; `AllAnswered` | 2.5k |
| `NetService_requests` | with requests: `NoLostWakeup`; `HoldersBound`, those that may change the struct are at most 1 + requests; `RequestSent` | 1.2M |
| `NetService_mismatch` | **violated**: `ReceivedIsHandled`, received data taken for the end of another operation | |
| `Commands` | `Aligned`: out of step never, out of the buffer only behind a datagram that leaves one to three bytes of it; `ForgottenArrived`: the server forgets no command that did not arrive; `AnswersOnlyReceived`; `AnsweredUpToEmpty`: just the commands before the first empty one get answered, unless the loop ran out of the buffer | 237k |
| `SocketRegistry` | `SocketsAccounted`, `DataOwned`, `OfferedOnce` | 6.6k |
| `TestClient` | `RecordHasOwner`; `BrokenOnlyByTwo`, `LostOnlyByTwo`: broken memory needs two threads at the entry, a lost message two in the exchange; `MessageDeleted` | 262k |
| `CLog` | `OldTextKept`; `Tiled`: no gap and no overlap until two threads race; `AsLogged`: until then, and until the buffer is refilled too early, the file holds what was logged; no race makes the log too long (`TypeOK`); all while positions fit the DWORD | 655k |
| `Messages` | `WrittenAsDeclared`, `SizeIsExact`, `ReadAsDeclared`, `InitializedIfComplete`, `NothingStale` | 212k |

The type invariants of `ThreadPool`, `IOCPHelper`, `NetService`, `PoolStart`,
`SocketRegistry` and `TestClient` are proved and not among the runs' properties,
and so is `RefusedForEver` of `SocketRegistry`, which `OfferedOnce` and
`SocketsAccounted` imply; those of `CLog`, `Commands` and `Messages` are proved and
checked, too.

The violated run checks what the label of a branch of `Callback` says
(`NetService.cpp:133`); `PROJECT.json` quotes it under `findings`. It needs the
requests of `main()` that are commented out at this commit
(`CHEN_Test.cpp:27-66`).

Where the code does less than one would wish, the property says what does hold:

- `AddElem` can exceed `MAX_THREAD_ELEMS`: `CapacityOvershoot` bounds by how much.
- `ShutDown` never wakes a worker; on an idle port it does not return:
  `ShutDownIfWoken` asks for packets.
- Elements may be shared and freed under a worker: only after an overrun.
- Behind an endless element that is always due an element waits for ever, and one
  of the largest interval is never run: `Reclaimed` is about the others.
- Requests of `main()` may use the struct together with the chain:
  `HoldersBound`.
- A call that fails at once ends the chain of a player: `AllAnswered`,
  `NoLostWakeup` and `RequestSent` speak of behaviours in which none did.
- `ReqJoinTable` and `ReqStartSyncFish` set `recvID`, so an id may be answered
  that never arrived: `AnswersOnlyReceived` is for a player without requests.
- A message of length zero is never passed by the loop: `AnsweredUpToEmpty`.
- A player whose handle the port refused stays registered and is never
  offered again: `RefusedForEver`.
- A worker may log another id than the one it answered: `ExclusiveWrite` is about
  those that may change the struct.
- A datagram that leaves one to three bytes of the buffer can send the parse out
  of it: `Aligned` says that nothing else can.
- Two threads in one exchange can break memory or lose a message; racing
  threads can garble the log: the `...ByTwo` properties, `Tiled`, `AsLogged`.
- At 4 GB, and when `SetFilePointer` fails, the log goes on over its own text:
  the properties of `CLog` hold until then (`astray`).

### Bounds

- *ThreadPool*: two workers and `main()` are enough for one thread to delete or
  share what another uses while a third adds. A clock of 4 ticks wraps many
  times, so wrapped subtractions occur everywhere. Four elements (`MaxPushed`)
  on a list of capacity 1 let one be served, one be spent behind it, and one
  be pushed meanwhile; and a list of four, one longer than the bound allows,
  would be possible within `MaxPushed`. In
  `ThreadPool_live` the clock has 3 ticks, and three elements go through a list of
  two: once or twice due, always due and endless, or never due, one behind another
  in every order.
- *PoolStart*: three workers: one overtaken inside, one that enters after the
  initialisation, and one more that finds the section spoiled. No counters.
- *IOCPHelper*: two workers, two handlers, three operations: more operations
  than workers, and fewer than workers left when some have been used up.
- *NetService*: two workers and `main()` on one struct. `NetService_chain` has
  three ids in datagrams that overlap, skip and run backwards; the runs with
  requests use one or two ids to keep the product with the second chain of
  operations small. `MaxRefused = 1` allows one call to fail anywhere; it is 0
  in the violated run.
- *Commands*: three commands (`Last = 4`), each of length 0, 2 or 5, and a buffer of
  33 bytes: datagrams of up to three commands fill it to the end, leave 1, 3, 5 or
  more bytes, or do not fit, so that the server splits them. A wrong step lands
  inside a command or behind the datagram; an empty command comes first, in the
  middle, last, or not at all. What is read out of step may be any id.
- *SocketRegistry*: three players, so that the greatest uid may come first,
  last or between; one client between them; four sockets, one for each.
- *TestClient*: two workers, three elements, three messages: the element of
  `main()` with two runs, and an element that reads an answer and another check
  while they wait, or the readers of both.
- *CLog*: two threads, one message each, of up to three bytes through a buffer of
  two: messages of one piece, of one full piece and of two; one byte of old text. An
  offset of six values wraps within the second message.
- *Messages*: all 28 messages, starting empty or full, three calls on the object
  before reading (`MaxCalls`), which is enough to use, clear and use again, to
  write twice, or to write, add a strange field and cut; lists of up to three
  elements. The values tried are one that is not the default and the ends
  that change the number of bytes (a negative number, 300, a string of 130).

`CHECK_DEADLOCK FALSE` is set where the program may really stop, or where a bound
stops the model: the chain of callbacks ends after a failed call or a wrong
check-uid answer, `IOCPHelper` ends after `ShutDown`, all threads of `PoolStart`
may hang or the process end, the exchange of `TestClient` ends with its last
element or with broken memory, `SocketRegistry` and `CLog` end with their last
call, `Messages` when the object has been read. The runs of `ThreadPool` and of
`Commands` check deadlock; as time, and the server, can always go on, this says
little.

### Fairness

- *ThreadPool*: time passes, callbacks return (the only callback of the program
  does), calls of `AddElem` end. The critical section is not fair to a given
  thread, so fairness is stated for the workers together. `KeepsUp`: an element that
  is due again and again is so when some worker scans the list - and gets it or
  one before it, or deletes it. On a clock of three ticks an element stops being due
  after a turn, and no fairness of single steps keeps the scans from falling into
  the other ticks; in the program a turn is 49 days, and a worker without work
  scans every millisecond. It is not assumed that the scan gets as far as the
  element.
- *PoolStart*: threads run; a thread that waits for the section gets it in the end
  (strong fairness), as the others sleep a millisecond between two entries.
- *IOCPHelper*: threads run, callbacks return, devices end what was started.
  Nobody has to start an operation, register a handle or shut down.
- *NetService*: threads run, sends end, and a receive ends with some datagram,
  as the game server keeps sending. That a message the server repeats until it
  is answered gets through in the end is the strong fairness on `Carries`.
- *Commands*: the callbacks run; the server resends all that is not answered, and
  what is sent again and again is delivered in the end, as are the answers
  (strong fairness: the network may lose any one, not all).
- *TestClient*: threads run, and the pool hands out the elements it has accepted
  (`Reclaimed` of `ThreadPool` is the counterpart). Nobody has to start a check.

`SocketRegistry`, `CLog` and `Messages` have safety properties only.

## What is proved

All theorems are for every value of the constants that meets the module's
assumption (`PoolAssumption`, `StartAssumption`, `PortAssumption`, `NetAssumption`,
`RegistryAssumption`, `LogAssumption`, `ClientAssumption`, `CommandsAssumption`,
`MessagesAssumption`). Except for the last, these say no more than that numbers
are numbers, sets of threads are finite and names differ. `MessagesAssumption`
also says what the tables of `Fishing...` must have in common (below); TLC
evaluates it for all 28 messages.

`ThreadPoolProofs`
- `TypeCorrect`: `TypeOK` is inductive.
- `FreedAfterOverrun`, `SharedAfterOverrun`: from the inductive `OverrunInv`,
  which relates the clock to `held`: as long as a worker has had an element for
  no longer than its interval, the element is in the list and the time since
  its `startTime` is exactly `held`, so that the element is not due for another
  worker. The lemmas `NextTick` and `ElapsedStep` state what a tick does to a
  subtraction modulo `TickMod`; each kind of step has a lemma.
- `CapacityBound`: `CapacityOvershoot` with the finiteness of the list. A push
  moves one from `Pushing` to the list, so the sum does not change; only a
  thread that has seen room joins `Pushing`.
- `LedgerRefinement`: each step is a step of `TaskLedger` or a stutter: with `cur`
  as the task of each thread, every hand-out counts one run. That there is a next
  hand-out is not in it.

`ThreadPoolProofs`, of `PoolStart`
- `StartTypeCorrect`, `Exclusive`, `AddsAlone`: from `SectionOK`. While the section is
  raw everybody inside is unknown to it; when nobody was overtaken it is never
  spoiled and at most one thread is inside. What has happened to `overtaken` is
  needed because a spoiled section looks like a free one from outside.

`IOCPHelperProofs`
- `TypeCorrect`: types, with `Counted`: `m_existCount` is the number of workers
  that ended. Without it the bound on the counter is not inductive.
- `PortOutlives`: if the counters are equal all workers ended, and an ended
  worker stays so.

`NetServiceProofs`
- `TypeCorrect`: types, with `MainKnows` (a request under way is known by its
  name).
- `WakeupKept`: `NoLostWakeup` for any script: it is inductive once one sees
  that a thread past its wait always goes on to start an operation.
- `ExclusiveBeforeRequests`, `NoBlockBeforeRequests`: from `ChainInv`: before
  the first request exactly one of these holds: nothing holds the struct, one
  thread does, one operation does, one packet does; and the event is on from the
  packet to the reset. A worker at its log line (`Report`) holds nothing: it only
  reads.
- `AnswersRefine`: without requests, `NetService` implements `Acknowledger`,
  from `AnswerInv`: everything up to `recvID` has arrived, and the buffer holds
  only what arrived. It uses `ChainInv`: with two users of the buffer the reply
  may not be the one prepared.
- `HoldersAreBounded`: `HoldersBound` for any number of workers and any script.
  `BoundInv` counts the holders (threads, operations, packets): every step
  passes the struct from one holder to another or lets it go (`PassedOn`), and
  only `CheckUid` and the requests add one (`OneMore`).

`SocketRegistryProofs`
- `TypeCorrect`, `NoSocketLeaks`, `PlayersKeepData`, `OfferedExactlyOnce`,
  `RefusedStaysRefused`: from one invariant: the sockets accounted for; `CallOK`,
  the socket of the call under way is nobody's yet; `KeptOK`, no two owners share
  one; `OfferOK`, the marked handles are those of the players whose call is over.
  So there is exactly one unmarked handle when `GetHanle` is called, the
  caller's (`UnmarkedIsOwner`).

`CLogProofs`
- `TypesHold`: types, and the bound on `Offset`, from `BoundInv`. What the messages
  can still add is counted by cells, one for each byte of each message that
  was not yet counted; a step that adds to `Offset` uses up as many cells, and
  a thread that loses the race uses up its own for nothing. A sum over the
  threads is then the cardinality of a finite set, so no induction is needed.
- `OldTextIsKept`: from `BehindStart`: no thread works with an offset before the old
  end, however the updates race. This and what follows hold while `~astray`; the
  invariant is `~astray => IInv`, and `StaysAstray` says that it need not be kept
  beyond.
- `WritesTile`: from `TilesOK`: without a race one thread at most has a write that
  `Offset` does not count yet, and it is the last one.
- `LoggedAsMeant`: `AsLogged`, from `BufferOK` (until it is refilled too early the
  buffer holds the piece of the one thread about to write, or of the one write
  that is pending) and the tiles: a write that is done disturbs no other.

`TestClientProofs`
- `TypeCorrect`, `RecordIsOwned`, `BrokenByTwo`, `LostByTwo`: from one inductive
  invariant: a message about to be recorded is nobody else's (`NewMessages`); as long
  as no two threads have met at the entry (`met`), what `operator[]` or `find` gave a
  thread is still the entry, and one thread alone deletes (`OneDeletes`); who erases
  another's entry is not alone in the exchange (`OtherInExchange`).

`CommandsProofs`
- `TypesHold`, `ParseIsAligned`: from `IInv`, in which the loop is at the start of
  a command of its datagram or behind the last one, and the datagram fits the buffer.
  At a command the whole header is in the buffer (`ReadsCommand`); behind the last
  one a zero is read if four bytes are left (`ReadsEnd`), so that only fewer lead
  out of it. `place`, where a command
  begins, is a recursive function; that it has a value and grows by the length
  of each command is proved by induction. The library's theorems on induction
  take a predicate as a parameter, which cannot be instantiated here; `Induction`
  is stated for a set instead, and rests on the fact that the strict subset
  ordering of finite sets is well-founded.
- `ForgottenHasArrived`: the server forgets only what arrived, from `Received`:
  `recvID`, the answers on their way and `acked` are all at most what arrived.
- `NothingBehindEmpty`: no id behind an empty command is ever answered: the
  safety half of `AnsweredUpToEmpty`.
- `ImplementsAcknowledger`: each step is a step of `Acknowledger` or a stutter.

`MessagesProofs`
- `TypesHold`, `NothingIsStale`: from `IInv`, in which every object of the message -
  the two that are used, what was merged, what was read and what is being read
  on either level - is a `GoodObject`: each member that is not set is as in a new
  object, each list is a run of good elements and then elements that are like
  new. There is one lemma for each operation on an object (`...IsGood`) and one for
  each step of the parser (`...Keeps`), also where the bytes end.
- `InitializedIsComplete`: from `IInv`, as the mask of `IsInitialized` is that of
  the required fields.
- `SizesAreExact`, `WritesWhatItHolds`: from `WrittenObjects` on top of `IInv`: the
  objects hold values of their types, and their unknown fields are tokens that
  fit no field. A sum over the fields of `ByteSize` is then the sum over the
  tokens that `Serialize` writes, row by row; and the tokens that fit a field,
  picked out of what was written, are those of its own row.
- `ReadsAsDeclared`: from `WhatIsRead` on top of both. Its part `Together` says that
  what `MergeFrom` put together is what the bytes mean; `Reading` says that at any
  moment of the parse the object of each call holds the meaning of the tokens that
  the call has passed, that a case which is entered by a jump is the case of the
  next token (`CaseOK`), and how the nested object continues that of its caller.
  The lemmas behind it say what one more token changes in a meaning and what
  `Then`, `Filled` and `Remains` do to an object, the cut-off ends included.

The proofs for `Messages` need of the tables that has-bits are the fields' own
(`HasBitsAgree`), that the masks of `Clear` cover the has-bit of what they guard
and that it gives the defaults of `SharedCtor` (`ClearAgrees`), that `MergeFrom`
treats a member as its type wants and `Swap` leaves none out (`MergeAgrees`), and
that the fields, types, required fields, tags and sizes are those of the
`.proto` file in each table (`RequiredAgree`, `ProtoAgrees`, `WriteAgrees`,
`SizeAgrees`, `ParseAgrees`). These are facts about the generated text that do not
mention states; together they are `MessagesAssumption`, and a table with a wrong
row makes the run fail at it. The theorems are about the histories that such
tables allow. What is written and read is built of `FlattenSeq` and `FoldLeft`,
which recurse along a sequence: `FlattenIs` and `TotalIs` first show that
each has a value and what it is, by `SeqInduction`. As in `CommandsProofs`, the
induction is stated for a set, as one over a predicate cannot be instantiated.

Only model-checked: the liveness properties (the proof system does not reach
fairness and `ENABLED`), of which `Commands` has half proved as `NothingBehindEmpty`.
Every safety property of a passing run is a theorem.

## Not modelled

- The rest of the Protocol Buffers headers (`lib/`): descriptors, reflection,
  extensions, services, text format. It is third-party code which this program
  hardly ever runs; what the messages run on is in `Messages`. Of the generated
  files, the registration of descriptors at start-up and the reflection tables.
- `main()` as a module of its own: it calls one thing after another before any
  other thread has work. `PoolStart`, `TestClient` and `NetService` begin with
  what it starts.
- `CLog::CloseLog` (only in the destructor of a singleton that is never deleted),
  `ReqNewRecvCmd`, `ReqNewSendCmd`, `RemoveSocket` (empty or never called).
- Build files.

## Plan

Done: all components above, and the theorems listed. What is left is a composition
of `IOCPHelper` with `NetService` and `CLog`: workers that are blocked in a callback
while `ShutDown` waits for them.

## Running

    tlasany NetService.tla
    tlc -workers 2 -config NetService_chain.cfg MCNetService.tla
    tlapm NetServiceProofs.tla

A run is named after its configuration. Its module has the name of the run, or
is `MCThreadPool`, `IOCPHelper` (for `IOCPHelper_live`) or `MCNetService` for the
runs that begin so.
