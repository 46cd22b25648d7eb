# Verification of isu-net and the imouto RPC layers

TLA+ modules, TLC configurations and TLAPS proofs for the C++ code under `src/`:
a reliable-datagram layer (`isu-net`), the timer, bitmap and slicing utilities it
stands on (`ex-utility`), a serialiser (`sul-serialize`) and an RPC client and
server (`imou-rpc-*`). Line numbers below are those of the files under `src/`.

## 1. The system

```
 imou-rpc-client            imou-rpc-server
   rpc_client                 rpc_server -- server_stub_pool
   simple_translation_kernel  basic_rpc_server
          \                   /
           udt  (messages = groups of slices)         datagram_tcp (frames over TCP)
            |                                              |
        trans_core (acknowledged packages over UDP)        |
         /       |         \                               |
 multiplex_timer  dynamic_bitmap  io_complete_port ---------
```

| component | state | operations | called by |
|---|---|---|---|
| `trans_core` | id counter, window credit, bitmap of tracked packages, bitmap of received ids per peer, completion port | `assembile_send`, `send_assembiled`, `cancel_io`, `recv`, `close`; timer callback; receive thread | `udt`, `simple_translation_kernel` |
| `multiplex_timer` | list of timers, each with its native handle and the word `than`; completion thread | `ready_timer`, `start_timer`, `cancel_timer`, `cancel_timer_when_callback_exit`, `advance_expire`, `stop`, `kill` | `trans_core`, `rpc_client` |
| `dynamic_bitmap` | a growing array of bits | `set`, `just_set`, `have`, `test_and_set` | `trans_core`, `rpc_server` |
| `io_complete_port` | a Windows completion port | `post`, `get`, `close` | `trans_core`, `udt`, `datagram_tcp` |
| `slice`, `combination`, `slicer` | pieces of one message by offset | cut, insert, `accept_all`, combine | `udt` |
| `udt` | groups being sent and being reassembled | `send_block`, `recv`, `cancel_io`, bad-send callback | rpc transports |
| `datagram_tcp` | one byte stream per peer, a partial header or datagram, a callback; the server's list of connections | `connect`, `send`, `when_recv_complete`, `disconnect`, `close`; receive thread; accepting thread | rpc transports |
| `rpc_client` | missions by xid, their timers | `timed_invoke`, `async`, reply processing, timeout | applications |
| `simple_translation_kernel` | groups in flight | `send`, receive loop, `_bad_send`, `close` | `rpc_client` |
| `rpc_server` | xids seen per address | the checks on a request, execution, reply | transports |
| `server_stub_pool` | stubs by identity | `registe`, `emplace_register`, `find` | `rpc_server` |
| `archive_packages`, `xdr`, memory blocks | none, or a buffer | encode, decode, grow | all |

**What is hard.** Four kinds of threads touch a package of `trans_core`: the
application's, the pool's (timer callbacks, which Windows may run several at a
time for one timer), one receive thread and the timer's completion thread. The
network loses, duplicates and reorders. Handles are raw pointers that travel in
the header of the datagram and come back in the acknowledgement (484-500). Locks
are non-recursive spinlocks and some callbacks run inside them. The RPC client
adds a second timer per call that races the reply. `PROJECT.json` lists these
hazards line by line.

**What makes each component correct.**

- `trans_core`: a package reaches `recv()` at most once; a success is only reported
  for a package the other end has taken; every started package ends in a report;
  credit is returned once; a timer handle is not used after it was deleted.
- `multiplex_timer`: nothing runs on a deleted handle; every handle is deleted once.
- `dynamic_bitmap`: a bit that is marked lies inside the bitmap.
- `slice`/`udt`: reassembly returns the bytes that were sent; the send callback runs once,
  and not before the other side has every slice unless one failed.
- `simple_translation_kernel`: its user is told once of each block that failed, also by `close()`.
- `archive_packages`, `serialize`, `xdr`: what is read is what was written, inside the buffer.
- `datagram_tcp`: the frames read are those written, in order.
- `rpc_client`: the callback of a call runs once, with the reply or the timeout.
- `rpc_server`: a request runs at most once, and only on the stub it names.

## 2. What is modelled now

### `DatagramService` - the promise

State: `sent`, what each node did with each package (`phase`: none, taken, delivered),
the packages a node lost track of (`lost`, only those of `Far`, whose ids are beyond the first
block of a bitmap) and the packages whose sender was told of a success (`succeeded`). It says that
delivery happens once at most, but for a package that was lost track of, and that success implies
that some node took the package. It
promises no order (`trans_core.hpp:205-206`) and does not promise that a taken
package is delivered, because the receive thread acknowledges (512) before it
marks (514) and posts (516).

### `TransCore` - the code

Parameters: the endpoints `Node`, application threads `Thread` with their endpoint
`Home`, pool threads `Worker`, and the constants of the code scaled down
(`Window` for 773, `IdBoundary` for 4096, `RetryLimit`, `IdMod`, `SizeMax`).

| code (`isu-net/src/trans_core.cpp` unless said) | model |
|---|---|
| `_group_allocer`, `_sr_blance`, `_packages`, `_received` | `nextId`, `window`, `packages`, `received` |
| `retry_count`, `retry_limit = -1` | `retry` (saturated one above the limit), `endless` |
| native timer, `_timer_args::than`, queued `timer_exit` | `timer`, `than`, `exits` |
| `biggest_id` of the receive thread | `biggest` |
| `_received[from]`: its size, its bits; ids looked for beyond its end | `bits`, `received`; `astray` |
| `recv_result`s posted | `delivered`, `complete`, `failed` (counted) |
| calls of `bad_send`, of the handle's deletion | `badsend`, `releases` (counted) |
| `assembile_send` 161-207 | `Assemble` |
| `_enter_trans` 238-252 | `CheckWindow`, then `ChargeWindow`: the test and the decrement are two steps |
| `start_timer` (multiplex_timer.cpp 57-74) | `StartTimer`, `StartTimerFails` |
| the first `sendto` 209-228 | `SendTo` |
| `_crack` (209-217), the callback 370-396 and `_crack_impl` (219-248) | `Fire`, then `Stun`+`ExitTimer`, `Retransmit`, or `RetransmitFails`+`ExitTimerUnlocked`, then `Crack` |
| completion thread (257-304) | `ReleaseOnExit` |
| receive thread, acknowledgement 481-502 | `RecvAck`, `PostComplete` or `PostCompleteOutOfMemory`, `CancelTimer`, `TimerCancelled` |
| receive thread, data 503-518 | `RecvData`, `Deliver`, `DeliverOutOfMemory` or `DeliverCrashes` |
| `cancel_io` 140-155 | `CancelNothing`, `CancelCrashes`, `CancelUnnoticed` |

Decisions a reader should know of:

- **Grain.** One action is what a thread does between two points where another can
  interfere. A section under `_group_lock` is one action. The lock itself is not a
  variable, so a callback that waits for the lock its own thread holds (384) is
  outside this module; it is listed as a hazard.
- **Network.** `net` is the set of datagrams ever sent. A datagram that is never
  received was lost, one received again was duplicated, and any order is possible.
- **Bitmaps.** `received` has the bits that are set and `bits` how many there are. `_try_extern`
  (dynamic_bitmap.cpp:85-97) extends once, to three times what there is plus a block, so an id far
  beyond that is looked for and set outside. What it finds there is undefined: the package is taken
  for new or for a repeat, or the process ends. Such packages are kept in `astray`; nothing
  is known of them afterwards, and the properties say so. The ids of a bitmap's first block never
  go astray, nor do those of a receiver that grew with its sender. `_packages` is a set, for the
  sender's ids grow one by one. The one place where its
  array shows is `_exit_timer` without the lock (392): `_packages.set` reads a word and
  writes it back. `snap` is what was read, and the write restores it. The scaled ids
  of an endpoint share one word. The mirrored race, in which the locked writer loses,
  and the same unlocked write inside `cancel_io` are not represented.
- **Undefined behaviour.** `retry_count` is never initialised: its first value is any
  of `FreshRetry`. `retrans_trunk::timer` is never assigned, so `cancel_io` either
  ends the process or goes unnoticed. When it goes unnoticed the real timer keeps
  running with `retry_limit` at its maximum. After a second deletion of a handle the
  model goes on as if nothing had been damaged, so what it shows after that point is the
  best case.
- **Faults.** `sendto` errors, `CreateTimerQueueTimer` failures and `bad_alloc` are
  injected, at most `MaxFaults` in a behaviour. A first `sendto` that fails is the same
  as a lost datagram, for its error is only returned.
- **Bounds.** Ids below `MaxId`, from one of `FirstIds` on (what was sent before), `MaxSent`
  packages per endpoint, `MaxFaults`, `MaxCancels` calls of `cancel_io` per package.
  `BitsPerBlock` is 32 scaled down. `IdMod` is large enough that ids do not wrap; the product
  in `Refused` is still taken modulo `IdMod`, as in the code.

### `FrameFifo` and `DatagramTcp` - datagrams over TCP

`FrameFifo` is the promise of a connection: the datagrams one end writes come out at
the other whole, once and in order. Its state is the lengths written and passed on.

`DatagramTcp` is one connection seen from the receiving end: the peer that writes,
the receive thread that cuts datagrams out of the stream, and the way the connection
gets its callback. `role` says whether `connect()` or the server's accepting
thread made it.

| code (`isu-net/src/datagram_tcp.cpp` unless said) | model |
|---|---|
| the TCP stream | `written`, `begins`, `total`, `taken`, `link` |
| the bytes `push()` has yet to consume (274) | `chunk` |
| `_head` with `_head_wrap`; `_memory` with `_wrap` | `headStart`, `headGot`; `bodyStart`, `bodyGot`, `bodySize` |
| the datagrams given to the lambda (339-343) | `out`, each with what `_callback` was |
| `_callback` of the connection | `callback` |
| `send` 151-169 | `Send` |
| the peer's close; `close`, `disconnect` or a reset | `Finish`; `Break` |
| `connect` 124-133; the constructor 110-116 | `Start` |
| `_tcp_accepter` 445-448 | `List`, then `PassOnCallback` |
| `when_recv_complete` 197-200, the server's 421-428 | `WhenRecvComplete` |
| `_tcp_recv` 345-360 | `Recv`, `RecvNothing`, `RecvFails` |
| `push` 274-280 with `_try_analysis_head` 287-311 | `UsedUp`, `HasHead`, `AppendHead` |
| `_copy_and_try_call` 313-326 | `NothingToCopy`, `CopyPart`, `CopyAndCall` |

Decisions:

- **Bytes are offsets.** The peer's bytes differ by their place in the stream alone, so a
  buffer is the offset of its first byte and a count. The length a header decodes to
  (300-305) is that of the datagram which begins at that offset; if none begins there
  the reader is out of step and any length of `Length` may come out. Nothing in the
  model keeps the reader in step, so `ImplementsFifo` shows that the code does.
- **Mixed buffers.** A buffer is filled by consecutive `append`s without a gap, as
  `push()` consumes its chunk from the front; the offset of the first byte is therefore
  enough.
- **The callback** is tested when a datagram is complete (341). `out` remembers
  whether it was set (`handed`) and whether `when_recv_complete()` had returned on a connection
  that was set up (`registered`). For `ImplementsFifo` a datagram that was registered for and not
  handed over is as wrong as one of other bytes. What is set while the connection is set up
  may be lost (448); nothing is promised of it.
- **Races on data.** `_callback` and `_clients` are read and written without a common
  lock. The model has the orders these steps can take, not the torn values a
  `std::function` may show.

### `RpcService` and `RpcSession` - calls

`RpcService` is what client and server promise together: a call runs once at most, its
callback is called once at most, and a success is what the procedure returned. A call may
fail whether or not it ran, and it may stay unanswered.

`RpcSession` is client processes, a transport and one server. Files: `imouto_rpc_client.hpp` (C),
`imouto_rpc_server.hpp` (S), `server_stub_pool.hpp`, `multiplex_timer.cpp` (T).

| code | model |
|---|---|
| `_last_xid`, `_missions` | `lastXid`, `missions` |
| what `invoke` was called with, `trunk` and `handle` of the message | `request` |
| a calling thread, a receive thread | `at`, `recv` |
| the timer of an async call | `timer` |
| `rpc_code` of each call of a callback; how `timed_invoke` ended | `answers`; `outcome` |
| the server's `_xidmap`: bits there are, bits set; what is on the pool, what ran | `bits`, `seen`; `jobs`, `ran` |
| whether the server's process lives | `alive` |
| `_call` C 353-382 with `_alloc_xid` 643-650 | `AllocXid`, `SetTimer` or `SetTimerFails`, `Send` |
| `timed_invoke` C 220-256 | `Wakes`, or `TimesOut` then `ChecksMission` |
| `_process_package_impl`, a failed send C 393-403 | `IoFailed` |
| a reply C 404-449 | `RecvReply`, `FindAgain`, `Answer` |
| `_rpc_timeout` C 574-585 with `_crack` and the completion thread of T | `Fire`, `RpcTimeout`, `ReleaseOnExit` |
| `_process_rpcmsg_impl` S 120-153 and its checks 155-234 | `ProcessRequest` |
| `_call_stub` S 236-298, a `_reply` that fails inside it (283, 297) | `CallStub`, `ReplyThrows` |

Decisions:

- **Locks.** A section under `_xidmap_lock` is one action, except that a receive
  thread keeps the lock while `cancel_timer` waits for a callback (C 442). `Locked` says
  so, and everything else that needs the lock waits for it. A timer callback that waits
  for the lock while the receive thread waits for the callback is a deadlock the model
  reaches.
- **A reply is looked up twice** (C 415 and 437). `RecvReply` is the first, which keeps
  what it read in `recv`; `FindAgain` the second. If the mission is gone then, an
  end iterator is dereferenced and the process ends.
- **Undefined behaviour.** `trunk` of a sync call and `handle` of any call are never set
  (`FreshPointer`). Cancelling through them ends the process or goes unnoticed, and so does
  cancelling a timer that is gone, deleting one twice, and writing to a frame of
  `timed_invoke` that has returned. A null `trunk` cancels nothing; a null
  `handle` ends the process. `_last_xid` has no first value either: xids are counted from
  the one it is found with.
- **`dest` of the timer's argument** is never set, so `TimeoutHave` is false: `_have`
  asks about an address that was default-constructed.
- **Refusals** carry no arguments. What `_make_exception` reads from such a reply is not
  modelled; it raises in any case.
- **The transport** (`netVars`) is the set of requests and replies sent. Either may never
  arrive, arrive again or late. It may report the failure of a send that arrived, once
  per request. What `udt` or `datagram_tcp` really do in its place is in their own modules.
- **What a request meets** (`kind`) is chosen when it is made: a procedure that returns,
  throws or faults; one that is not there; a wrong program; another protocol version; a
  sender or a reply that verification rejects.
- **The server's bitmap** grows like those of `trans_core`. `set_xid` tests and extends; when the
  bit is still outside, `verify_xid` (S 219) throws a moment later, past every catch of the receiving
  thread, and the server's process ends (`alive`). The first xid is whatever `_last_xid` held (`FirstXid`).
- **What undoes an answer**, and what `EventuallyAnswered` therefore excepts by name: the
  client's process ended (`down`) or hangs between lock and timer (`Hangs`, C 442); the server's ended
  (`alive`); the reply was distrusted, in which case it is dropped with the mission left, and a sync
  caller without a timeout waits for ever (`Dropped`, C 419-423).
- **Left out**: a timer that fires again while its callback runs; the destructor and
  `close()`; callbacks of the application that call again; restarts of either side. The
  references an async callback keeps to the caller's arguments (C 262) are taken to be valid.

### `BlockService` and `Udt` - blocks of any size

`BlockService` is what `udt` promises: under the id of a block nothing comes out before all of it
arrived, unless another sender's block of that id crossed it; the report that it was sent is made
once and, while none of its slices has failed, means that the other side has all of it.

`Udt` is any number of threads in `send_block`, each with one block, the threads in `recv()`,
the timer's thread in `_udt_bad_send`, and the other side's `recv()`, which also hears other
senders (`Stranger`). `Id` gives each block its group id: different ones for the blocks of one
sender (234), any for those of others. `Copies` bounds how often a slice is handed over.

| code (`isu-net/src/udt.cpp`, `udt.hpp`, `ex-utility/src/slice.cpp`) | model |
|---|---|
| `_sending_groups`, `udt_group::_count`, `_geted` | `sending`, `count`, `geted` |
| where `send_block` is; the slicer; its own count | `pc`; `used`; `local` |
| `_sending_groups_lock` held between counting and comparing | `holder` |
| a completion between `_cancel_slice` and `_erase_group` | `ticking` |
| deletions of a node's value; calls of the two callbacks | `deleted`; `reported`, `bad` |
| `trans_core` on this side: given, no longer tracked, posted | `sent`, `settled`, `port` |
| `combination`, by group id | `expected`, `available`, `pieces`; `received` |
| `send_block` | `Register`, `SendSlice`, `StoreCount`, `CompareCount`, `EraseAfterSend` |
| `recv` on a completion | `CancelSlice`, `CountSlice`, `FinishTick` |
| `_udt_bad_send` | `CancelGroup`, `ForgetGroup`; `ExitTimer` is the end of the callback |
| `recv` on data, `_insert`, `combination::insert` | `Insert` |

Decisions:

- **`trans_core` is seen through what it posts** (`Take`, `Acknowledge`, `ExitTimer`), as
  `TransCore` shows it: a slice is taken, rarely more than once, and it completes or is given up,
  in rare schedules both.
- **The key of a reassembly is the group id** (244). `_insert` is given the sender's address and does
  not look at it, so blocks of two senders with one id are put into one memory. A block is `Alone`
  while no slice of another block with its id has come, and what is promised of reassembly
  is promised of such blocks; `crossed` is what `BlockService` calls the others.
- **What a failed slice leaves behind.** Its node is deleted at 278 and its group erased at 288, while its
  own completion still carries a pointer to both, and later completions one to the group. The model goes
  there; `NodesAlive` says which completions are safe in spite of it.
- **A slice is its offset.** Contents do not differ, so a memory handed up is the set of
  slices copied into it.
- **`cancel_io`** called on a failed slice reaches that slice's node alone: `root.connect`
  links the last node to a root that has no value. The failure is posted or not depending on
  a bit that belongs to the other direction; both are possible. That the process may end there, at a
  handle never assigned, is followed in `TransCore` and `Translation`.
- **Left out**: multicast (the null handle at 163 ends the process), an id of a group given
  twice by wrap-around, and a failing `emplace`.

### `DynamicMemory` and `Packages` - buffers

`DynamicMemory` is `dynamic_memory_block`: a buffer of cells that remember what was written
where, and how many were allocated. `TryExtern`, `Extern`, `PushMemory`, `AllocToCopy`,
`FillMemory`, `CleanData` are the members of these names.

`Packages` is `archive_packages` with `packages_analysis`: `PushBack`, `Fill`, `Clear`, then
the analysis (`Analyse`, `Generic`, `GenericEnds`) on what was made.

Decisions: a word is `Word` cells that carry its value. A dynamic package, which has no
header, is filled before anything is pushed, as `udt` does it; its counter then overwrites
the first word of what it filled (`CountPackage`), and there the model keeps `Changed`.

### `Xdr` and `Marshal` - arguments

`Xdr` has the pure part: `ArchivedSize`, `Image` and `Read` are how one value is measured,
written and read; `Measure`, `ArchiveTo` and `RarchiveReal` are what `serialize<>` does with
a list of values, some of which a filter holds back (`ArchivedUpTo` and `ReadUpTo` are how
far they have come after some of them). A value is a sequence of bytes, a byte is
a letter and its place.

`Marshal` is one call: `Push` or `PushThrows` (client stub), `Serve` or `ServeThrows`
(server stub and the function, which may change what was passed by reference), `Result` or
`Raise` (client stub again). Which values cross is decided by how the argument is declared
(`Copied`). What a program's functions look like is `Signature`: at most one result, and no
more arguments than the table of sizes has room for (`SizeOfArgument`; the code does not check).

Decisions: both ends are of one kind (the conversions of byte order have no caller, and the
code is 32-bit), so integers cross as they are. An object of less than four bytes is read with
what lies behind it, which shows as `Garbage`. A function may leave a
`string&` as it likes, also shorter than it came. Such a string does not come back (the copy of
extent/string_serialize.hpp:28-30 starts behind the end), so `CallerSeesResults` is said of calls in
which no string that comes back is shorter than what it is read into (`Kept`).

### `MultiplexTimer` - the memory behind a handle

| code (`ex-utility/src/multiplex_timer.cpp`) | model |
|---|---|
| `_timers`; the system's timer; `_timer_args.than` | `listed`; `native`; `than` |
| deletions of the handle; calls of `_cleanup` | `freed`; `cleaned` |
| a pool thread; the completion port; the completion thread | `work`; `complete`, `port_open`; `exiting` |
| `ready_timer`, `start_timer` 48-74 | `ReadyTimer`, `StartTimer`, `StartTimerFails` |
| `cancel_timer` | `CancelTimer`, `TimerCancelled` |
| `_crack`, `_crack_impl`, `cancel_timer_when_callback_exit` | `Crack`, `CancelWhenCallbackExit`, `CallbackReturns`, `Claim`, `Post` |
| `_complete_io_impl` | `TakeCompletion`, `TimerExit` |
| `stop`, the destructor | `Stop`, `Stopped`; `Destroy`, `PostAllExited`, `Join`, `Ended` |

Decisions: `TransCore` and `RpcSession` have the timer as their callers see it; here it is the
memory. Callers never cancel a timer whose callback has asked to end it, which both keep to.
`Stop` happens at any time, as `trans_core_impl::close` calls it. It frees what is listed, and so also
the timers a callback has ended that the completion thread, or a thread that was about to post, has not
come to: `caught` remembers them. They are freed twice, or used after they were freed, which is
finding 3; the other properties speak of all other timers. `kill` and `advance_expire` have no caller.

### `CompletePort` and `Translation` - a kernel and its close()

`CompletePort` is a queue that several threads post to and get from and that throws once it is
closed. `Translation` is `simple_translation_kernel` over `udt` and `trans_core`.

| code (`imouto_simple_translation_kernel.hpp` unless said) | model |
|---|---|
| `_groups`; `_sending_groups` of `udt`; `_packages` of `trans_core` | `groups`; `sending`; `packages` |
| a block's timer; `_callback` calls of failures | `timer`; `told` |
| `_recver_port`; the kernel's thread | `port`; `recver` |
| how far `close()` and the destructor are | `owner`, `left`, `closes` |
| `send` | `Register`, `Send` |
| `_bad_send`, then `_exit_timer` of `trans_core` | `BadSend`, `ExitTimer` |
| `_recver` and `_success_send` | `Get`, `GetFails`, `EraseGroup`, `HandUp`, `RecverEnds` |
| `close` with `udt::close` and `trans_core_impl::close` (trans_core.cpp:122-133), the destructor | `Close`, `ReceiverExits`, `PortClosed`, `TimersStopped`, `TellLeft`, `Closed`, `Join` |

Decisions: a block is one slice, since slices are the subject of `Udt`. `get()` and `post()` on a
closed port throw, nobody catches it, and the process ends (`Terminate`); so it may in `cancel_io` of
a failed slice, whose timer handle was never assigned (`BadSendEnds`). A receiving thread that is not
inside `recvfrom` when the socket is closed is told by an error that is not ENOTSOCK
(trans_core.cpp:441-472, 448), goes on for ever, and so does the wait of `close()`: the owner is `missed`
from the moment of the close, and `looping` once the thread is back at `recvfrom`. The loop of `close()`
runs without a lock (78); what it does when its iterator's node is erased is undefined, and the model
takes the good case. `close()` runs twice when both `~imouto_rpc_client` and the kernel's own
destructor call it.

### `DynamicBitmap` and `ReceiveFilter` - ids and bits

`DynamicBitmap` has the bits and the number of bits of a bitmap, with `TryExtern` as the code
extends it. `ReceiveFilter` is the two bitmaps of `trans_core`: the sender's, which grows with the
ids it gives, and the receiver's, which meets them in any order, after losses, and from the middle
on when the receiver was started again.

### The runs

| run | instance | shows |
|---|---|---|
| `transcore_faults` | two interchangeable endpoints that send to each other or to themselves, one package each, one worker, one fault, one `cancel_io` per package, `bad_send` and posting both on | `TypeOK`; `DeliveredAtMostOnce`; `SuccessOnlyIfTaken`; the refinement `ImplementsService` |
| `transcore_clean` | one thread, unicast or multicast, two packages, bitmaps of blocks of one bit, two workers (two callbacks of one timer at a time), garbage in `retry_count`, no failing call, under fairness | `WindowAccounting`, `SuccessMeansDelivered`, `TrackedTimerAlive`, `NoCallbackOnReleasedTimer`, `CompletedAtMostOnce`, `EventuallyReported`, `TimersReturned` |
| `transcore_released_twice` | one package, see Findings | violates a comment of the code |
| `tcp_framing` | a connection of either role, up to three datagrams of length 0, 1 or 3, headers of 2 bytes, `recv()` of at most 3 bytes, under fairness | `NothingHeldBack`, `EveryDatagramComesOut`, the refinement `ImplementsFifo` |
| `rpc_session` | one process, two threads, two calls of any style with and without timeout, the first of any kind of request, the second to a procedure that returns or with a distrusted reply, bitmaps of blocks of two bits, one failed send, refused timer or reply that cannot be sent, under fairness | `TypeOK`, `RunsAtMostOnce`, `CalledBackOnce`, `AnswersTellTheTruth`, `ReturnMeansAnswered`, `TimerHeldUntilAnswer`, `EventuallyAnswered`, the refinement `ImplementsService` |
| `udt_groups` | a block of two slices, the first of which may come twice and the second of which may fail, and another sender's block of the same id and size; two threads in `recv()`; under fairness | `ReassembledExactly`, `ReportMeansTaken`, `ReportedOnce`, `NodesAlive`, `EventuallyTold`, `EventuallyHandedUp`, the refinement `ImplementsService` |
| `packages` | the three types, words of 2 cells, buffers with and without a reserve, up to three blocks of 0, 1, 2 or 5 bytes | `InsideBuffer`, `SlotsStay`, `AnalysisGivesBack` |
| `marshal` | three functions with values, references, const references, classes, strings and opaque blocks, which may shorten strings; lengths 0, 1, 5 and 9, of which 9 is over the limit | `ServerSeesArguments`, `CallerSeesResults`, `CallerSeesFailure` |
| `timers` | three timers, three pool threads, `stop()` at any time and the destructor, under fairness | `ReleasedOnce`, `NobodyHoldsFreed`, `EventuallyReleased` |
| `timers_stopped` | two timers, two pool threads | violates a comment of the code |
| `translation` | three blocks sent, one that arrives, `close()` called twice, under fairness | `ToldOnce`, `EventuallySettled` |
| `bitmap_first_id` | blocks of 4 bits, 7 ids, two sending threads, one restart of the receiver | violates a comment of the code |

Why these bounds: a package interacts with others through the window, the bitmap
word, the workers and `cancel_io`'s confusion of the two directions. Two packages
exercise the first three. The fourth needs two endpoints with the same id, or one that sends
to itself. `RetryLimit` 1 gives one retransmission and one giving up. Two workers
give a callback that overlaps another of the same timer. With one bit to a block the second
package of `transcore_clean`, when it comes first, is looked for beyond the end of an empty
bitmap; after the first one it is inside.

`transcore_faults` uses symmetry: the endpoints, each together with its thread, may be
exchanged, and none of its properties tells them apart.

For `tcp_framing`, a header of two bytes can be split, a buffer of three holds a header and a
byte of the body, an empty datagram and the beginning of the next header, or less than
a datagram of length 3. With three datagrams one ends and another begins
in the same chunk, an empty one stands first, between or last.

For `rpc_session`, calls of one process meet in its lock, its receive thread and its
missions; two calls and two threads let one be answered while the other is made, times
out or fails. Processes share nothing but the server's process, as the server keeps its xids by
address. One call of each kind meets one that goes well or is distrusted; a second fault would be the
other call's. xids count from 1, and a block of two bits holds 0 and 1, so the second request finds its
bit outside when it comes first and inside when it comes second. The pointers hold garbage: a
null one behaves like a case garbage has too.

For `udt_groups`, the sender and the `recv` threads race on the count of a block of two slices:
one completion may come before the count is stored and one after, or both before. The slice that may
fail has a sibling that may not, which is what `NodesAlive` is about. The stranger's block has the same id
and size, so its slices fit in the place of the block's own. That several
blocks of one sender do not disturb each other is left to the theorems, which have any number.

For `packages`, 0 and 7 bytes of reserve make the header, the first or a later block the one
that grows the buffer, and 5 is more than twice a word. For `marshal`, 1, 5 and 8 lie on both
sides of the alignment and 9 aligns to more than `MaxLength`. For `timers`, three threads can be
inside callbacks of one timer, one of which takes the ladder, another is late, while the third
runs for the next timer, and `stop()` comes between any of them. For `translation`, three blocks can be acknowledged, given up and left
for `close()` in one behaviour.

Deadlock is not checked in any run, because a system whose applications stop sending
comes to rest, and so does a thread that waits for credit no acknowledgement returns.

Fairness (`FairSpec`) is weak fairness of what goes on by itself, and assumes nothing of the
applications:

- `TransCore`: of some step among those the pool, a thread inside a callback, the
  receive thread between two `recvfrom`, and the completion thread can make. Each is taken finitely
  often for a package, so all of them are taken at last. Nothing is assumed about UDP:
  `EventuallyReported` covers the case in which every datagram is lost.
- `DatagramTcp`: the receive thread, which TCP brings the bytes that were written.
- `RpcSession`: every thread that can go on, of the timer's too, and the server for each request,
  which also says that the transport brings a request and a reply at last: the RPC layer
  repeats nothing itself. `timed_wait` of a sync call gives up at last (`TimesOut`), and a timer's
  callback that has begun goes on; that the timer of an async call fires is not assumed.
- `Udt`: of some step, among those that need nobody to call `send_block`. That
  `trans_core` settles every slice is what `EventuallyReported` of `TransCore` says.
- `MultiplexTimer`: each pool thread inside a callback, the completion thread, and a destructor
  that has begun.
- `Translation`: `send` that has begun, the timers (which run out of retries at last), the kernel's
  thread, and a `close()` that has begun, with the end of the receiving thread it waits for.

### Not promised

`WindowAccounting` states what the code does: only an acknowledgement gives a credit
back. A multicast or failed package keeps its credit for ever, so 773 of them
stop an endpoint. The invariant is checked with one sending thread per endpoint; with
two, the separate test and decrement can take `_sr_blance` below zero. A `cancel_io`
also marks an id of the *peer's* packages as received, which later discards a package
that was never delivered (acknowledged, so `SuccessOnlyIfTaken` holds but
`SuccessMeansDelivered` does not). No line of the repository says otherwise, so these
are hazards rather than findings.

## 3. Findings

1. `TimerReleasedOnce` (trans_core.cpp:382). The comment at 338-339 explains why `_exit_timer`
   must be inside the lock: otherwise a timer is deleted twice. The lock is only taken after
   `bad_send`, and the bit is not tested again, so an acknowledgement in between
   deletes the timer that the callback then has deleted once more.
2. `MarksInside` (dynamic_bitmap.cpp:85). The comment at dynamic_bitmap.hpp:21-31 says
   that `test_and_set` sets the bit it is asked for. The bitmap is extended once, by what it
   has, whatever the bit: an id of 32 or more that meets an empty bitmap is marked outside of it.
   A receiver that lost the first packages, or was started again, meets such an id. `TransCore` and
   `RpcSession` have the same bitmap, and say what it costs: a package with such an id may be lost
   though acknowledged, or come out twice; a request with such an xid ends the server.
3. `NobodyCompetes` (multiplex_timer.cpp:190). The comment at 196 says that with the system's queue
   deleted there is no preemption left. `stop()`, which `trans_core_impl::close` calls at any time
   (trans_core.cpp:132), then frees every listed timer, also one whose `timer_exit` is queued or half
   done: the completion thread frees it as well.

Seen on the way, without a run of their own. The first eleven are states the models reach or outcomes
they have, and the properties that would otherwise fail name them as exceptions; the others were read
in the code.

- A package is refused as malicious or too far out of order (trans_core.cpp:288, 505) although
  it is the first, in order, that this receiver gets, as ids are shared by all destinations.
- An empty datagram whose header comes last waits for the bytes of another, although
  datagram_tcp.cpp:63-66 promises that all complete ones are passed on (315).
- The server of `datagram_tcp` never stores the callback, so connections accepted later have
  none (421), and line 448 can undo what `when_recv_complete()` just did.
- The timeout of an async call never reports one (imouto_rpc_client.hpp:578), since `dest` of
  the timer's argument is not set. Setting it alone would be worse: the mission stays and a late
  reply calls the callback again (the mutant `TimeoutHaveDest` of `CalledBackOnce`). And
  `imouto_rpc_client.hpp:634` raises nothing for the three largest values of `session_stat`.
- Blocks of two senders with one group id are mixed (udt.cpp:244), and every sender counts its ids from
  a value nobody sets. Two clients of one server may do just that.
- The completion of a slice that failed finds its node deleted or deletes it again (udt.cpp:66, 278), and
  completions that come later find the group erased (288).
- A distrusted reply is dropped without a word (imouto_rpc_client.hpp:419-423): a sync call without a
  timeout never returns. A reply whose timer is just firing hangs the process (442, 577).
- A client whose first xid is 32 or more ends the server's process (imouto_rpc_server.hpp:159, 219).
- `close()` of `trans_core` waits for ever when its thread was not in `recvfrom` (trans_core.cpp:448).
- A `string&` the function made shorter does not come back: the copy starts behind the end
  (extent/string_serialize.hpp:30).
- A `start_timer` that fails leaves the argument with its caller (multiplex_timer.cpp:67-88).
- When the retries of a package run out, trans_core.cpp:379 calls `bad_send` and 384 posts
  the failure as well, although the comment at 343 says only one may be chosen.
- A timer callback that posts between the closing of the port and the stop of the timers, and a
  kernel's thread that gets from the closed port, end the process: the port throws (where
  io_complete_port.hpp:75-80 says `post` returns 0) and nobody catches it. Both destructors call
  `close()`, so a block may be told of twice, the second time to a client that is half gone
  (imouto_rpc_client.hpp:154-163).
- `cancel_io` of `udt` cancels nothing, because `_root.value` is always null.
- The limit of 255 for `xdr_string` is never applied (xdr_convert.hpp:97-107, 209); an
  exception of another class is archived as its raw image (imouto_rpc_server.hpp:266); a message
  over the limit is thrown out of the catch block; the table of 20 sizes is not checked
  (serialize.hpp:96, 190).
- The counter of a dynamic package overwrites its first data word, and one with less room than a
  word is written beyond its end; `packages_analysis` of dynamic data takes three words of it for
  a header, and does not end for a package size of 0; `fill` does not write the zeros that
  archive_packages.cpp:158 speaks of.
- `find` with an unknown version may serve another program (server_stub_pool.hpp:73); a `recv` of
  0 bytes makes the TCP receive thread spin (datagram_tcp.cpp:348).

## 4. What is proved

`TransCoreProofs`, for every set of endpoints, threads and workers and every value of
the numbers, under `ConstantsAssumption` and `NamesAssumption` of `TransCore`:

- `TypeCorrect`: `TypeOK`, with `WorkOK` (a thread in the middle of something holds
  a package that exists). Both together are inductive.
- `AtMostOnce`: `DeliveredAtMostOnce`, over bitmaps that grow as the code's do. Inductive with
  `DeliveredMarked`: what was delivered has its bit set, inside the bitmap, unless it went astray; no
  action clears a bit of `received` or shrinks a bitmap; and an id of the first block never goes
  astray, because the first extension holds it. This is where `cancel_io`'s wrong bit is harmless: it
  can only suppress a delivery.
- `SuccessIsTaken`: `SuccessOnlyIfTaken`. The strengthening `SuccessInv` says where a
  success comes from: an id not yet allocated has no datagram (`FreshInv`); an
  acknowledgement on the network was sent by the destination, which marked the package
  or is about to (`AckInv`); a completion, posted or about to be, had its
  acknowledgement (`CauseInv`).
- `Implementation`: `ImplementsService`. The invariants above give the two facts the
  mapping needs: delivery happens from phase `taken` or, for multicast, `none`, and
  never twice unless the package was lost track of; success happens after the acknowledgement.

The second half of `TransCoreProofs` is for the same constants when nothing fails and nothing is
cancelled (`Clean`); with failures or cancellations the four are false, as section 3 shows of the timer that is
released twice. Any loss, duplication and order of datagrams, and any interleaving, is covered.
`CleanInv` joins what is known of each package (`PkgInv`: an id not yet allocated has left no trace,
nothing runs on a timer before it is started or after it was released, and whoever ends a package
has cleared its bit first), of each sender (`ThreadInv`, `Distinct`: the package of a thread that has
not started its timer was not sent, and no two threads hold one package) and of each receive thread
(`AckerInv`).

- `CompletedOnce`, `TrackedHaveTimers`, `CallbacksHaveTimers`: `CompletedAtMostOnce`,
  `TrackedTimerAlive`, `NoCallbackOnReleasedTimer`.
- `SuccessIsDelivered`: `SuccessMeansDelivered`, with `MarkedDelivered`: while no thread runs out of
  memory and nothing is cancelled, a bit of `received` is only set with the package handed over. Only
  of a package that went astray nothing is said.
- `WindowIsAccounted`: `WindowAccounting`, when each endpoint has one sending thread
  (`OneSenderEach`) and completions are posted. A package joins the set of those that are out
  when its thread takes the credit, and leaves it when its acknowledgement returns the credit; an
  acknowledged package was charged, since it was sent. That a thread past its check finds credit
  is where the one thread is needed: two could both see the last credit.

`DatagramTcpProofs`, for every set of lengths, header size, buffer size and number of
datagrams, under `SizeAssumption`, from one inductive invariant `FramingInv`:
`StreamInv` (datagrams follow each other without gap, as `send` writes them), `ReaderInv` (the
reader stands `headGot` bytes into the header of the current datagram, `HeadInv`, or `bodyGot`
bytes into its body, `BodyInv`) and `OutInv` (what came out is what was written).

- `FramingTypeCorrect`: `TypeOK`.
- `HoldsNothingBack`: `NothingHeldBack`. The position of the reader says how much of the
  current datagram is missing; a datagram that has arrived lies before it.
- `FramingImplementation`: `ImplementsFifo`. `CopyAndCall` passes the current datagram,
  `Send` writes, and every other step leaves both sequences alone.

`RpcSessionProofs`, for every set of processes and threads, any number of calls, any kinds
of request and any budget of faults, under `SessionAssumption`, from the inductive invariant
`TypeInv /\ ServerInv /\ ClientInv`:

- `SessionTypeCorrect`: `TypeOK`, with `PlaceOK` (who works on a call holds its xid).
- `RunsOnce`: `RunsAtMostOnce`. `ServerInv` says that a request which was not seen has not
  run, that one on the pool has not run yet, and that each reply tells what is `Settled`:
  the request was seen, is not on the pool, and ran as the reply says, or ran and its reply could not
  be sent. What is settled stays so, whatever step is taken. That a bit once set stays inside is why
  the growing bitmap forgets nothing.
- `CallsBackOnce`: `CalledBackOnce`. `ClientInv` ties missions to callbacks: in a process
  that runs, a mission's callback has not been called. The lock is needed
  for its part about the receive thread: while it waits for a timer, nobody takes its mission.
- `TruthfulAnswers`: `AnswersTellTheTruth`. What the receive thread carries between its two
  lookups, and what a callback was told, is settled.
- `ReturnsAnswered`: `ReturnMeansAnswered`, with `ReturnInv`: a call without a mission was
  answered, for whoever erases a mission calls its callback first.
- `TimerIsHeld`: `TimerHeldUntilAnswer`, with `HeldInv`: the timer of an untimed async call with a
  mission was armed before the request went out, cannot fire, and whoever cancels it erases the mission.
- `SessionImplementation`: `ImplementsService`, with `MadeInv` (only calls that were made are
  sent or run). `AllocXid` is the service's `Invoke`, `CallStub` its `Run`; by `OneAnswer`
  any other step changes nothing or answers one call for the first time.

`MultiplexTimerProofs`, for every set of timers and of pool threads:

- `TimersTypeCorrect`: `TypeOK`.
- `FreedOnce` and `NobodyLeft`, with `stop()` called at any time: `ReleasedOnce` and
  `NobodyHoldsFreed`. The argument of `TimerInv` is one of a token. The ladder of a timer is taken
  by one thread (`WorkInv`); that thread holds the token until it posts, then the queue does
  (`PostInv`, `QueueInv`: the timer is queued once, and nobody else posts it), then the completion
  thread (`ExitInv`). Who holds the token may free; a timer whose end was asked for through
  `cancel_timer` never has one (`HandleInv`). What `stop()` and the destructor free is listed, hence not freed
  (`MemoryInv`), and by then no callback runs (`CloseInv`). A timer in none of these places that is
  listed has nobody left to free it; one that is in such a place when `stop()` comes is `caught`, and
  nothing more is said of it.

`TranslationProofs`, for every set of blocks and arrivals and any number of `close()` calls:

- `FailureToldOnce`: `ToldOnce`. `ToldInv` follows one block: while it is in `_groups` nobody was told
  of it, until the loop of `close()` comes to it (`KeptInv`); when it left, it was acknowledged or
  its timer told the user (`GoneInv`); what is reported as sent was one of the two (`ReportedInv`).
  Once the timers were stopped none can strike a block off any more (`StoppedInv`), which is why
  the loop and a timer never both tell.

`UdtProofs`, for blocks of any sizes (also empty ones), any slice size, any number of threads in
`recv()`, any slices that may fail, any other senders with any ids, and any number of copies of a
slice (`IndInv`):

- `UdtTypeCorrect`: `TypeOK`, which rests on `CutInv`: the slicer stands where a slice starts or at the
  end, what lies before it was sent, and `local * SliceData` is at most one slice off its place.
- `BlockReportedOnce`, `BlockReportTrue`, `BlockNodesAlive`: `SliceInv` keeps the one completion of a
  slice that was not given up in one place (port, between the locks, at the lock). `CountInv` says that
  `geted` of a healthy group is the number of slices whose completion went through `_erase_group`,
  and that a group that left `_sending_groups` has all of them counted. The largest `size_t` stored
  before sending is what makes an early comparison fail. `BlockNodesAlive` is about each slice by
  itself: a failing sibling deletes its own node and no other (`Linked`).
- `BlockReassembled`: every slice but the last has `SliceData` bytes (`ShortIsLast`), so the bytes that
  came tell how many slices came, and their sum is the size of the block only when none is missing
  (`SumIsAll`, which also covers a block that is still being cut). Copies that are known are not added,
  and those that start the next memory are paid for by what was taken (`Accounted`). While the block
  is `Alone` only its own slices can have come under its id.
- `BlockImplementation`: `ImplementsService`, that `Udt` implements `BlockService`. A slice of another
  sender's block is its `Cross`.

`PackagesProofs`, for a word of any size, any package sizes and reserves, and any blocks that are
pushed, filled and cleared, from `IInv`:

- `BufferStaysInside`, `SlotsStayValid`: `InsideBuffer`, `SlotsStay`. `PackInv` reads the buffer cell
  by cell: what `Grown` makes of it keeps the cells in use, so a block stands where it was put
  (`BlockStands`), the blocks lie edge to edge behind the header (`Edge`), and counting changes only
  the first word.
- `AnalysisIsRight`: `AnalysisGivesBack`. `AnalysisInv` says how far the analysis has come: its
  position is the edge of the first block it has not found yet.
- `HeaderIsRight`: the header counts the blocks (`HeaderCounts`).

`MarshalProofs`, for every signature, any letters and lengths and any limit, under
`MarshalAssumption` and `XdrAssumption`:

- `RoundTrip`: `RarchiveReal` of what `ArchiveReal` made is the row of values that passed the filter,
  merged into the variables (`Merged`), and reading ends where the block ends. It asks of
  the variables what the code relies on (`Fits`): one of fixed size has the size of its value, a string
  is not longer than what comes. Its lemmas: a value read back takes what was measured for it
  (`ReadBack`), and each stands where the sizes before it say (`ValuesStand`).
- `MessageArrives`: `Bodies` finds one body in a `Message`, and `BlockOf` its block.
- `ArgumentsReachTheFunction`, `FailuresReachTheCaller`: `ServerSeesArguments`, `CallerSeesFailure`.
  The inductive invariant says what is under way: the arguments (`CallSent`), what the function
  left (`ReplySent`) or its message (`FailureSent`); the two theorems above say how it arrives.
- `ResultsReachTheCaller`: `CallerSeesResults`, for functions that do to strings what they like. A
  string that was made shorter is lost by the code (section 3), which is why the property speaks of
  calls that kept theirs (`Kept`), each for itself.

The functions of `Xdr` and `Marshal` that write, read and walk are recursive functions, not folds or
RECURSIVE operators, so that they can be proved about. The induction theorems of the library take an
operator and cannot be instantiated here; `SetInduction` (a set of numbers with 0 that is closed under
`+ 1` is `Nat`, from the well-founded order of the numbers) takes a set and can. With it each recursive
function is shown to exist and then to be what it ought to be.

Every invariant of the passing runs is stated by a theorem. Model-checked only are the liveness
properties (`EventuallyReported`, `TimersReturned`, `EveryDatagramComesOut`, `EventuallyAnswered`,
`EventuallyTold`, `EventuallyHandedUp`, `EventuallyReleased`, `EventuallySettled`): they rest on
fairness, and this prover knows no ENABLED.

## 5. Not modelled

What the plan of the project named is done: `TransCore` with its `close()` (in `Translation`) and
restarts (in `ReceiveFilter`), the timers, the bitmap, slices and groups, the kernel, and the
serialisation. What is left out, and why:

- **Restarts of an RPC client or server.** The server keeps xids in memory, so a request may run again
  after a restart, and a restarted client may be refused or answered with another's xid. No
  text of the repository promises anything here, and with restarts the promises of `RpcService` fail.
- **Callbacks that call again** under a lock their own thread holds (trans_core.cpp:384,
  imouto_rpc_client.hpp:446) wait for ever. That needs no interleaving to see.
- **Registration of stubs.** Stubs are registered before the server runs; `registe` has no caller,
  and `unregister` does not compile when used.
- **Starting and stopping a server**, `redire()`, the set-up of sockets, multicast in `udt`, and the
  unlocked list of several TCP clients: sequential set-up code, or states that matter only through
  data races.
- **The template dispatch** of `sul-serialize`, the macro and type-list utilities (evaluated by the
  compiler), floating point and byte order in `xdr`, exceptions and log lines, the thin winsock
  wrappers (`TransCore` models what the calls do) and the benchmark in `test/`.
- **Functions without a caller**: `kill` and `advance_expire` of the timer, `reset` and `clear` of
  the bitmap, the byte-order variants of the archive, `alloc_xid` and `get_xid`.

`PROJECT.json` gives the status of each part.
