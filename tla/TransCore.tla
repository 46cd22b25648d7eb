----------------------------- MODULE TransCore -----------------------------
(***************************************************************************)
(* trans_core (isu-net): acknowledged, retransmitted, de-duplicated UDP    *)
(* packages between endpoints, as the threads of the program run it.       *)
(*                                                                         *)
(*   - application threads assemble a package, wait for window credit,     *)
(*     start its retransmission timer and send it;                         *)
(*   - pool threads run the timer callback, which retransmits or gives up; *)
(*   - one receive thread per endpoint handles acknowledgements and data;  *)
(*   - one completion thread per endpoint releases the timers that asked   *)
(*     to be released when their callback ends (multiplex_timer).          *)
(*                                                                         *)
(* One action is what a thread does between two points at which another    *)
(* thread can get in between.  The network keeps every datagram ever sent: *)
(* one that is never received is lost, one that is received again was      *)
(* duplicated, and they are received in any order.                         *)
(***************************************************************************)
EXTENDS Integers, FiniteSets

CONSTANTS
  Node,             \* endpoints (a trans_core_impl bound to an address)
  Multicast,        \* the address of a multicast group all nodes joined
  NoAddress,        \* the address of a package that does not exist yet
  NoPkg,            \* "works on no package"
  Address,          \* where the applications of this instance send to
  Thread,           \* application threads
  Home,             \* Home[t]: the endpoint thread t uses
  Worker,           \* pool threads that run timer callbacks
  MaxId,            \* bound: ids below this are used
  MaxSent,          \* bound: packages an endpoint may send
  FirstIds,         \* ids an endpoint may have reached before this instance
  BitsPerBlock,     \* bits a bitmap grows by (32), scaled down
  IdMod,            \* values of package_id_type (2^32)
  IdBoundary,       \* id_boundary (4096), scaled down
  Window,           \* default_window_size (773), scaled down
  SizeMax,          \* the largest size_t
  RetryLimit,       \* retrans_control::retry_limit
  FreshRetry,       \* what the uninitialised retry_count may hold
  PostSendComplete, \* the POST_SEND_COMPLETE work flag is set
  HasBadSend,       \* a bad_send callback was given
  MaxFaults,        \* bound: failures of sendto, new and CreateTimerQueueTimer
  MaxCancels        \* bound: cancel_io calls that return true

Id == 0 .. (MaxId - 1)

(* A package is named by its sender and the id its sender gave it.         *)
Pkg == Node \X Id
Src(p) == p[1]
Num(p) == p[2]

Kind == {"data", "ack"}
Data(p) == [kind |-> "data", pkg |-> p]
Ack(p) == [kind |-> "ack", pkg |-> p]

ASSUME ConstantsAssumption ==
  /\ MaxId \in Nat /\ MaxSent \in Nat /\ FirstIds \subseteq 0 .. MaxId
  /\ BitsPerBlock \in Nat \ {0} /\ IdMod \in Nat \ {0} /\ IdBoundary \in Nat
  /\ Window \in Nat /\ SizeMax \in Nat /\ Window <= SizeMax
  /\ RetryLimit \in Nat /\ FreshRetry \subseteq 0 .. RetryLimit
  /\ MaxFaults \in Nat /\ MaxCancels \in Nat
  /\ PostSendComplete \in BOOLEAN /\ HasBadSend \in BOOLEAN

ASSUME NamesAssumption ==
  /\ Multicast \notin Node /\ NoAddress \notin Node \cup {Multicast}
  /\ Address \subseteq Node \cup {Multicast}
  /\ NoPkg \notin Pkg
  /\ Home \in [Thread -> Node]

-----------------------------------------------------------------------------
VARIABLES
  nextId,    \* [Node -> Nat] _group_allocer
  window,    \* [Node -> 0 .. SizeMax] _sr_blance, the credit left
  packages,  \* the bits of _packages that are set, of all endpoints
  dest,      \* [Pkg -> address]
  timer,     \* [Pkg -> TimerState] the native timer of the package
  than,      \* [Pkg -> Than] the word the timer's callback and owner share
  retry,     \* [Pkg -> 0 .. RetryLimit + 1] retry_count, saturated
  endless,   \* packages whose retry_limit was set to -1
  exits,     \* timer_exit messages posted to the completion thread
  spc,       \* [Thread -> SendState]
  scur,      \* [Thread -> package being sent]
  wpc,       \* [Worker -> CallbackState]
  wcur,      \* [Worker -> package whose callback runs]
  snap,      \* [Worker -> SUBSET Pkg] _packages as read without the lock
  rpc,       \* [Node -> RecvState] the receive thread
  rcur,      \* [Node -> package it works on]
  biggest,   \* [Node -> Nat] biggest_id
  received,  \* [Node -> SUBSET Pkg] the bits of _received that are set
  bits,      \* [Node -> [Node -> Nat]] the sizes of _received[from]
  astray,    \* [Node -> SUBSET Pkg] looked for beyond the end of _received
  net,       \* every datagram sent so far
  crashed,   \* endpoints whose process died
  faults,    \* failures injected so far
  (* what the application has been told, counted *)
  delivered, \* [Node -> [Pkg -> Nat]] RECV_COMPLETE posted
  complete,  \* [Pkg -> Nat] SEND_COMPLETE posted
  failed,    \* [Pkg -> Nat] FAILED_SEND_COMPLETE posted
  badsend,   \* [Pkg -> Nat] calls of bad_send
  granted,   \* [Pkg -> Nat] cancel_io calls that returned true
  releases   \* [Pkg -> Nat] times the timer handle was deleted

sendVars == <<nextId, window, dest, spc, scur>>
timerVars == <<timer, than, retry, endless, exits, releases>>
workVars == <<wpc, wcur, snap>>
bitVars == <<received, bits, astray>>
recvVars == <<rpc, rcur, biggest, bitVars, delivered>>
toldVars == <<complete, failed, badsend, granted>>
faultVars == <<crashed, faults>>
vars == <<sendVars, timerVars, workVars, recvVars, toldVars, faultVars,
          packages, net>>

TimerState == {"none", "ready", "armed", "deleting", "gone"}
Than == {"zero", "LADDER", "PROCESSING"}
SendState == {"idle", "check", "charge", "start", "sendto"}
CallbackState == {"idle", "callback", "stunned", "sendfailed", "crack"}
RecvState ==
  {"recv", "deliver", "complete", "cancel", "wait", "exited", "unposted"}

TypeOK ==
  /\ nextId \in [Node -> 0 .. MaxId]
  /\ window \in [Node -> 0 .. SizeMax]
  /\ packages \subseteq Pkg
  /\ dest \in [Pkg -> Node \cup {Multicast, NoAddress}]
  /\ timer \in [Pkg -> TimerState]
  /\ than \in [Pkg -> Than]
  /\ retry \in [Pkg -> 0 .. (RetryLimit + 1)]
  /\ endless \subseteq Pkg
  /\ exits \subseteq Pkg
  /\ spc \in [Thread -> SendState]
  /\ scur \in [Thread -> Pkg \cup {NoPkg}]
  /\ wpc \in [Worker -> CallbackState]
  /\ wcur \in [Worker -> Pkg \cup {NoPkg}]
  /\ snap \in [Worker -> SUBSET Pkg]
  /\ rpc \in [Node -> RecvState]
  /\ rcur \in [Node -> Pkg \cup {NoPkg}]
  /\ biggest \in [Node -> Nat]
  /\ received \in [Node -> SUBSET Pkg]
  /\ bits \in [Node -> [Node -> Nat]]
  /\ astray \in [Node -> SUBSET Pkg]
  /\ net \subseteq [kind : Kind, pkg : Pkg]
  /\ crashed \subseteq Node
  /\ faults \in 0 .. MaxFaults
  /\ delivered \in [Node -> [Pkg -> Nat]]
  /\ complete \in [Pkg -> Nat]
  /\ failed \in [Pkg -> Nat]
  /\ badsend \in [Pkg -> Nat]
  /\ granted \in [Pkg -> Nat]
  /\ releases \in [Pkg -> Nat]

Init ==
  /\ nextId \in [Node -> FirstIds]
  /\ window = [n \in Node |-> Window]
  /\ packages = {}
  /\ dest = [p \in Pkg |-> NoAddress]
  /\ timer = [p \in Pkg |-> "none"]
  /\ than = [p \in Pkg |-> "zero"]
  /\ retry = [p \in Pkg |-> 0]
  /\ endless = {}
  /\ exits = {}
  /\ spc = [t \in Thread |-> "idle"]
  /\ scur = [t \in Thread |-> NoPkg]
  /\ wpc = [w \in Worker |-> "idle"]
  /\ wcur = [w \in Worker |-> NoPkg]
  /\ snap = [w \in Worker |-> {}]
  /\ rpc = [n \in Node |-> "recv"]
  /\ rcur = [n \in Node |-> NoPkg]
  /\ biggest = [n \in Node |-> IdBoundary]
  /\ received = [n \in Node |-> {}]
  /\ bits = [n \in Node |-> [m \in Node |-> 0]]
  /\ astray = [n \in Node |-> {}]
  /\ net = {}
  /\ crashed = {}
  /\ faults = 0
  /\ delivered = [n \in Node |-> [p \in Pkg |-> 0]]
  /\ complete = [p \in Pkg |-> 0]
  /\ failed = [p \in Pkg |-> 0]
  /\ badsend = [p \in Pkg |-> 0]
  /\ granted = [p \in Pkg |-> 0]
  /\ releases = [p \in Pkg |-> 0]

Up(n) == n \notin crashed

(* The environment makes a system call or an allocation fail.              *)
Fault ==
  /\ faults < MaxFaults
  /\ faults' = faults + 1
  /\ UNCHANGED crashed

(* The thread or the callback goes on to its next point.                   *)
ThreadAt(t, from, to) ==
  /\ Up(Home[t])
  /\ spc[t] = from
  /\ spc' = [spc EXCEPT ![t] = to]

WorkerAt(w, from, to) ==
  /\ wpc[w] = from
  /\ Up(Src(wcur[w]))
  /\ wpc' = [wpc EXCEPT ![w] = to]

RecvAt(n, from, to) ==
  /\ Up(n)
  /\ rpc[n] = from
  /\ rpc' = [rpc EXCEPT ![n] = to]

(* _timeout_timer deletes the handle and the argument of package p.        *)
Release(p) ==
  /\ timer' = [timer EXCEPT ![p] = "gone"]
  /\ releases' = [releases EXCEPT ![p] = @ + 1]

-----------------------------------------------------------------------------
(* Application threads: assembile_send, then send_assembiled.              *)

(* Allocates the id, tracks it and readies a timer; a multicast package    *)
(* has no timer.  retry_count is never initialised.  An endpoint may have  *)
(* sent packages before: then its ids go on where they were, also towards  *)
(* a receiver that was just started.                                       *)
SentBy(n) == {p \in Pkg : Src(p) = n /\ dest[p] # NoAddress}

Assemble(t, a) ==
  LET n == Home[t]
      p == <<n, nextId[n]>>
  IN
  /\ nextId[n] < MaxId /\ Cardinality(SentBy(n)) < MaxSent
  /\ ThreadAt(t, "idle", "check")
  /\ nextId' = [nextId EXCEPT ![n] = @ + 1]
  /\ scur' = [scur EXCEPT ![t] = p]
  /\ packages' = packages \cup {p}
  /\ dest' = [dest EXCEPT ![p] = a]
  /\ IF a = Multicast
     THEN UNCHANGED <<timer, retry>>
     ELSE /\ timer' = [timer EXCEPT ![p] = "ready"]
          /\ \E r \in FreshRetry : retry' = [retry EXCEPT ![p] = r]
  /\ UNCHANGED <<window, than, endless, exits, releases, workVars, recvVars,
                 toldVars, faultVars, net>>

(* while (_sr_blance == 0) yield.                                          *)
CheckWindow(t) ==
  /\ window[Home[t]] # 0
  /\ ThreadAt(t, "check", "charge")
  /\ UNCHANGED <<nextId, window, dest, scur, timerVars, workVars, recvVars,
                 toldVars, faultVars, packages, net>>

(* --_sr_blance, a separate atomic operation that wraps at zero.           *)
Decremented(x) == IF x = 0 THEN SizeMax ELSE x - 1
Incremented(x) == IF x = SizeMax THEN 0 ELSE x + 1

ChargeWindow(t) ==
  LET n == Home[t] IN
  /\ ThreadAt(t, "charge",
              IF dest[scur[t]] = Multicast THEN "sendto" ELSE "start")
  /\ window' = [window EXCEPT ![n] = Decremented(@)]
  /\ UNCHANGED <<nextId, dest, scur, timerVars, workVars, recvVars, toldVars,
                 faultVars, packages, net>>

StartTimer(t) ==
  /\ ThreadAt(t, "start", "sendto")
  /\ timer' = [timer EXCEPT ![scur[t]] = "armed"]
  /\ UNCHANGED <<nextId, window, dest, scur, than, retry, endless, exits,
                 releases, workVars, recvVars, toldVars, faultVars, packages,
                 net>>

(* CreateTimerQueueTimer fails: start_timer deletes the handle and throws  *)
(* out of send, and nothing gives the credit or the tracking bit back.     *)
StartTimerFails(t) ==
  /\ Fault
  /\ ThreadAt(t, "start", "idle")
  /\ scur' = [scur EXCEPT ![t] = NoPkg]
  /\ Release(scur[t])
  /\ UNCHANGED <<nextId, window, dest, than, retry, endless, exits, workVars,
                 recvVars, toldVars, packages, net>>

(* The first sendto; an error is only returned, as for a lost datagram.    *)
SendTo(t) ==
  /\ ThreadAt(t, "sendto", "idle")
  /\ scur' = [scur EXCEPT ![t] = NoPkg]
  /\ net' = net \cup {Data(scur[t])}
  /\ UNCHANGED <<nextId, window, dest, timerVars, workVars, recvVars,
                 toldVars, faultVars, packages>>

Send(t) ==
  \/ \E a \in Address : Assemble(t, a)
  \/ CheckWindow(t) \/ ChargeWindow(t)
  \/ StartTimer(t) \/ StartTimerFails(t)
  \/ SendTo(t)

-----------------------------------------------------------------------------
(* Pool threads: multiplex_timer::_crack around _timer_callback.           *)

(* An armed timer fires on a free pool thread, also while an earlier       *)
(* callback of the same timer still runs.                                  *)
Fire(w, p) ==
  /\ wpc[w] = "idle"
  /\ Up(Src(p))
  /\ timer[p] = "armed"
  /\ than[p] # "PROCESSING"
  /\ wpc' = [wpc EXCEPT ![w] = "callback"]
  /\ wcur' = [wcur EXCEPT ![w] = p]
  /\ UNCHANGED <<sendVars, timerVars, snap, recvVars, toldVars, faultVars,
                 packages, net>>

Counted(p) == IF retry[p] > RetryLimit THEN retry[p] ELSE retry[p] + 1
(* Mutant: the retry limit is never reached.                               *)
ExhaustedNever(p) == FALSE

Exhausted(p) == p \notin endless /\ Counted(p) > RetryLimit

(* ++retry_count > retry_limit: _stun_group calls bad_send before the lock *)
(* is taken.                                                               *)
Stun(w) ==
  LET p == wcur[w] IN
  /\ WorkerAt(w, "callback", "stunned")
  /\ Exhausted(p)
  /\ retry' = [retry EXCEPT ![p] = Counted(p)]
  /\ badsend' = IF HasBadSend THEN [badsend EXCEPT ![p] = @ + 1] ELSE badsend
  /\ UNCHANGED <<sendVars, timer, than, endless, exits, releases, wcur, snap,
                 recvVars, complete, failed, granted, faultVars, packages, net>>

Retransmit(w) ==
  LET p == wcur[w] IN
  /\ WorkerAt(w, "callback", "crack")
  /\ ~ Exhausted(p)
  /\ retry' = [retry EXCEPT ![p] = Counted(p)]
  /\ net' = net \cup {Data(p)}
  /\ UNCHANGED <<sendVars, timer, than, endless, exits, releases, wcur, snap,
                 recvVars, toldVars, faultVars, packages>>

(* sendto returns SOCKET_ERROR: _exit_timer is called without the lock,    *)
(* and its first statement has read the bits of _packages.                 *)
RetransmitFails(w) ==
  LET p == wcur[w] IN
  /\ Fault
  /\ WorkerAt(w, "callback", "sendfailed")
  /\ ~ Exhausted(p)
  /\ retry' = [retry EXCEPT ![p] = Counted(p)]
  /\ snap' = [snap EXCEPT ![w] = {q \in packages : Src(q) = Src(p)}]
  /\ UNCHANGED <<sendVars, timer, than, endless, exits, releases, wcur,
                 recvVars, toldVars, packages, net>>

(* The rest of _exit_timer: report, then ask for the timer's release.      *)
ReportFailure(p) ==
  /\ failed' = IF PostSendComplete THEN [failed EXCEPT ![p] = @ + 1] ELSE failed
  /\ badsend' = IF ~ PostSendComplete /\ HasBadSend
                THEN [badsend EXCEPT ![p] = @ + 1] ELSE badsend
  /\ UNCHANGED <<complete, granted>>

(* Mutant: the word skips the state the end of the callback looks for.     *)
CancelSkipsLadder(p) == than' = [than EXCEPT ![p] = "PROCESSING"]

CancelWhenCallbackExit(p) ==
  than' = IF than[p] = "zero" THEN [than EXCEPT ![p] = "LADDER"] ELSE than

(* Mutant: giving up leaves the package's bit set.                         *)
UntrackedForgotten(p) == packages

Untracked(p) == packages \ {p}

(* _exit_timer under _group_lock, after the retries ran out.               *)
ExitTimer(w) ==
  LET p == wcur[w] IN
  /\ WorkerAt(w, "stunned", "crack")
  /\ packages' = Untracked(p)
  /\ ReportFailure(p)
  /\ CancelWhenCallbackExit(p)
  /\ UNCHANGED <<sendVars, timer, retry, endless, exits, releases, wcur, snap,
                 recvVars, faultVars, net>>

(* _exit_timer without the lock: the block of bits is written back as it   *)
(* was read, so what other threads changed meanwhile is undone.            *)
ExitTimerUnlocked(w) ==
  LET p == wcur[w] IN
  /\ WorkerAt(w, "sendfailed", "crack")
  /\ packages' = {q \in packages : Src(q) # Src(p)} \cup (snap[w] \ {p})
  /\ snap' = [snap EXCEPT ![w] = {}]
  /\ ReportFailure(p)
  /\ CancelWhenCallbackExit(p)
  /\ UNCHANGED <<sendVars, timer, retry, endless, exits, releases, wcur,
                 recvVars, faultVars, net>>

(* The end of _crack_impl: the callback that finds the ladder kicked posts *)
(* timer_exit, once.                                                       *)
Crack(w) ==
  LET p == wcur[w] IN
  /\ WorkerAt(w, "crack", "idle")
  /\ wcur' = [wcur EXCEPT ![w] = NoPkg]
  /\ IF than[p] = "LADDER"
     THEN /\ than' = [than EXCEPT ![p] = "PROCESSING"]
          /\ exits' = exits \cup {p}
     ELSE UNCHANGED <<than, exits>>
  /\ UNCHANGED <<sendVars, timer, retry, endless, releases, snap, recvVars,
                 toldVars, faultVars, packages, net>>

Callback(w) ==
  \/ Stun(w) \/ Retransmit(w) \/ RetransmitFails(w)
  \/ ExitTimer(w) \/ ExitTimerUnlocked(w) \/ Crack(w)

(* Mutant: the timer is deleted without waiting for its callbacks.         *)
CallbackRunsUnwaited(p) == FALSE

(* DeleteTimerQueueTimer(INVALID_HANDLE_VALUE) waits for these.            *)
CallbackRuns(p) == \E w \in Worker : wcur[w] = p

(* The completion thread gets timer_exit: it deletes the timer, its        *)
(* argument and its handle.                                                *)
ReleaseOnExit(p) ==
  /\ p \in exits
  /\ Up(Src(p))
  /\ ~ CallbackRuns(p)
  /\ exits' = exits \ {p}
  /\ Release(p)
  /\ UNCHANGED <<sendVars, than, retry, endless, workVars, recvVars, toldVars,
                 faultVars, packages, net>>

-----------------------------------------------------------------------------
(* The receive thread.                                                     *)

(* Mutant: any acknowledgement is honoured, whether its bit is set or not. *)
TrackedUnchecked(p) == TRUE

Tracked(p) == p \in packages

(* An acknowledgement of a tracked package: under the lock its bit is      *)
(* cleared and the credit returned.  Any other one is ignored.             *)
RecvAck(n, p) ==
  /\ Ack(p) \in net
  /\ Src(p) = n
  /\ Tracked(p)
  /\ RecvAt(n, "recv", "complete")
  /\ rcur' = [rcur EXCEPT ![n] = p]
  /\ packages' = packages \ {p}
  /\ window' = [window EXCEPT ![n] = Incremented(@)]
  /\ UNCHANGED <<nextId, dest, spc, scur, timerVars, workVars, biggest,
                 bitVars, delivered, toldVars, faultVars, net>>

(* After the unlock it reads the timer's argument and posts SEND_COMPLETE. *)
PostComplete(n) ==
  LET p == rcur[n] IN
  /\ RecvAt(n, "complete", "cancel")
  /\ complete' = IF PostSendComplete THEN [complete EXCEPT ![p] = @ + 1]
                                     ELSE complete
  /\ UNCHANGED <<sendVars, timerVars, workVars, rcur, biggest, bitVars,
                 delivered, failed, badsend, granted, faultVars, packages, net>>

(* bad_alloc in io_result or in _post ends the receive thread: the credit  *)
(* was returned and the bit cleared, nothing is posted and the timer runs. *)
PostCompleteOutOfMemory(n) ==
  /\ Fault
  /\ PostSendComplete
  /\ RecvAt(n, "complete", "unposted")
  /\ UNCHANGED <<sendVars, timerVars, workVars, rcur, biggest, bitVars,
                 delivered, toldVars, packages, net>>

(* cancel_timer: the native timer stops firing ...                         *)
CancelTimer(n) ==
  /\ RecvAt(n, "cancel", "wait")
  /\ timer' = [timer EXCEPT ![rcur[n]] = "deleting"]
  /\ UNCHANGED <<sendVars, than, retry, endless, exits, releases, workVars,
                 rcur, biggest, bitVars, delivered, toldVars, faultVars,
                 packages, net>>

(* ... and once its callbacks are done the handle is deleted.              *)
TimerCancelled(n) ==
  /\ RecvAt(n, "wait", "recv")
  /\ ~ CallbackRuns(rcur[n])
  /\ Release(rcur[n])
  /\ rcur' = [rcur EXCEPT ![n] = NoPkg]
  /\ UNCHANGED <<sendVars, than, retry, endless, exits, workVars, biggest,
                 bitVars, delivered, toldVars, faultVars, packages, net>>

(* head.id > biggest_id * 2: taken for a malicious package and ignored.    *)
Refused(n, p) == Num(p) > (2 * biggest[n]) % IdMod
AddressedTo(n, p) == dest[p] \in {n, Multicast}
AckFor(p) == IF dest[p] = Multicast THEN {} ELSE {Ack(p)}

(* Data: acknowledged at once, unless it came by multicast.                *)
RecvData(n, p) ==
  /\ Data(p) \in net
  /\ AddressedTo(n, p)
  /\ ~ Refused(n, p)
  /\ RecvAt(n, "recv", "deliver")
  /\ rcur' = [rcur EXCEPT ![n] = p]
  /\ biggest' = [biggest EXCEPT ![n] = IF Num(p) > @ THEN Num(p) ELSE @]
  /\ net' = net \cup AckFor(p)
  /\ UNCHANGED <<sendVars, timerVars, workVars, bitVars, delivered, toldVars,
                 faultVars, packages>>

(* Mutants: no de-duplication, and de-duplication by the highest id seen.  *)
AlreadyReceivedNever(n, p) == FALSE
AlreadyReceivedByHighest(n, p) == Num(p) <= biggest[n]

AlreadyReceived(n, p) == p \in received[n]

(* _try_extern: a bitmap too short for the id grows once, to about three   *)
(* times its size, whether that is enough for the id or not.               *)
Blocks(n, p) ==
  IF bits[n][Src(p)] <= Num(p)
  THEN ((2 * bits[n][Src(p)]) \div BitsPerBlock) + 1 ELSE 0
Extended(n, p) == bits[n][Src(p)] + BitsPerBlock * Blocks(n, p)
Inside(n, p) == Num(p) < Extended(n, p)
Extend(n, p) == bits' = [bits EXCEPT ![n][Src(p)] = Extended(n, p)]

(* _received[from].test_and_set(id) finds the bit clear, and sets it.  An  *)
(* id still beyond the end is looked for outside the bitmap: what is found *)
(* there is undefined, and the bitmap keeps nothing of what is set.        *)
FirstTime(n, p) ==
  /\ Extend(n, p)
  /\ IF Inside(n, p)
     THEN /\ ~ AlreadyReceived(n, p)
          /\ received' = [received EXCEPT ![n] = @ \cup {p}]
          /\ UNCHANGED astray
     ELSE /\ astray' = [astray EXCEPT ![n] = @ \cup {p}]
          /\ UNCHANGED received

(* ... or finds it set.                                                    *)
Repeated(n, p) ==
  /\ Extend(n, p)
  /\ IF Inside(n, p)
     THEN AlreadyReceived(n, p) /\ UNCHANGED astray
     ELSE astray' = [astray EXCEPT ![n] = @ \cup {p}]
  /\ UNCHANGED received

(* RECV_COMPLETE is posted the first time.                                 *)
Deliver(n) ==
  LET p == rcur[n] IN
  /\ RecvAt(n, "deliver", "recv")
  /\ rcur' = [rcur EXCEPT ![n] = NoPkg]
  /\ \/ /\ FirstTime(n, p)
        /\ delivered' = [delivered EXCEPT ![n][p] = @ + 1]
     \/ Repeated(n, p) /\ UNCHANGED delivered
  /\ UNCHANGED <<sendVars, timerVars, workVars, biggest, toldVars, faultVars,
                 packages, net>>

(* bad_alloc in the bitmap, in the copy of the buffer or in _post: the     *)
(* receive thread ends, with the package acknowledged and perhaps marked.  *)
DeliverOutOfMemory(n) ==
  LET p == rcur[n] IN
  /\ Fault
  /\ RecvAt(n, "deliver", "exited")
  /\ \/ FirstTime(n, p)
     \/ /\ \E k \in 0 .. (Blocks(n, p) - 1) :
             bits' = [bits EXCEPT ![n][Src(p)] = @ + k * BitsPerBlock]
        /\ UNCHANGED <<received, astray>>
  /\ UNCHANGED <<sendVars, timerVars, workVars, rcur, biggest, delivered,
                 toldVars, packages, net>>

(* Looking beyond the bitmap may also end the process.                     *)
DeliverCrashes(n) ==
  /\ Up(n)
  /\ rpc[n] = "deliver"
  /\ ~ Inside(n, rcur[n])
  /\ crashed' = crashed \cup {n}
  /\ UNCHANGED <<sendVars, timerVars, workVars, recvVars, toldVars, faults,
                 packages, net>>

Receive(n) ==
  \/ \E p \in Pkg : RecvAck(n, p) \/ RecvData(n, p)
  \/ PostComplete(n) \/ PostCompleteOutOfMemory(n)
  \/ CancelTimer(n) \/ TimerCancelled(n)
  \/ Deliver(n) \/ DeliverOutOfMemory(n) \/ DeliverCrashes(n)

-----------------------------------------------------------------------------
(* cancel_io(p), from any thread of the sender.  It consults the bitmap of *)
(* what was received from p's destination, at p's own id, and sets the bit *)
(* there.                                                                  *)
(* Mutant: the id after the package's own, which nobody sent, is marked.   *)
OppositeNext(p) == <<dest[p], Num(p) + 1>>

Opposite(p) == <<dest[p], Num(p)>>

CancelNothing(p) ==
  /\ Up(Src(p)) /\ granted[p] < MaxCancels
  /\ dest[p] \in Node
  /\ Repeated(Src(p), Opposite(p))
  /\ granted' = [granted EXCEPT ![p] = @ + 1]
  /\ UNCHANGED <<sendVars, timerVars, workVars, rpc, rcur, biggest, delivered,
                 complete, failed, badsend, faultVars, packages, net>>

CancelMarks(p) ==
  /\ Up(Src(p)) /\ granted[p] < MaxCancels
  /\ dest[p] \in Node
  /\ FirstTime(Src(p), Opposite(p))
  /\ packages' = packages \ {p}

(* retrans_trunk::timer was never assigned: using it is undefined.  It may *)
(* end the process, or, when the failure is posted, go unnoticed: then the *)
(* package's own timer is left running with retry_limit at its maximum.    *)
CancelCrashes(p) ==
  /\ CancelMarks(p)
  /\ crashed' = crashed \cup {Src(p)}
  /\ UNCHANGED <<sendVars, timerVars, workVars, rpc, rcur, biggest, delivered,
                 toldVars, faults, net>>

CancelUnnoticed(p) ==
  /\ PostSendComplete
  /\ CancelMarks(p)
  /\ failed' = [failed EXCEPT ![p] = @ + 1]
  /\ endless' = endless \cup {p}
  /\ granted' = [granted EXCEPT ![p] = @ + 1]
  /\ UNCHANGED <<sendVars, timer, than, retry, exits, releases, workVars, rpc,
                 rcur, biggest, delivered, complete, badsend, faultVars, net>>

CancelIo(p) == CancelNothing(p) \/ CancelCrashes(p) \/ CancelUnnoticed(p)

-----------------------------------------------------------------------------
Next ==
  \/ \E t \in Thread : Send(t)
  \/ \E w \in Worker : Callback(w) \/ \E p \in Pkg : Fire(w, p)
  \/ \E n \in Node : Receive(n)
  \/ \E p \in Pkg : ReleaseOnExit(p) \/ CancelIo(p)

Spec == Init /\ [][Next]_vars

(* What goes on by itself: the pool fires armed timers and runs their      *)
(* callbacks, the receive thread finishes an acknowledgement, and the      *)
(* completion thread releases timers.  Nothing is assumed of the network   *)
(* or of the applications.                                                 *)
Progress ==
  \/ \E w \in Worker : Callback(w) \/ \E p \in Pkg : Fire(w, p)
  \/ \E n \in Node : PostComplete(n) \/ CancelTimer(n) \/ TimerCancelled(n)
  \/ \E p \in Pkg : ReleaseOnExit(p)

(* A timer makes finitely many of these steps, so it is enough that some   *)
(* step is made as long as one can be made, whatever the order: the pool   *)
(* need not be fair to one timer among several.                            *)
Fairness == WF_vars(Progress)

FairSpec == Spec /\ Fairness

-----------------------------------------------------------------------------
(* Properties                                                              *)

(* recv() hands a package to the application at most once, however often   *)
(* it was retransmitted or duplicated (lines 514 to 518), unless its id    *)
(* came so early that it was looked for beyond the end of the bitmap, which *)
(* does not happen to the ids of a bitmap's first block.                   *)
DeliveredAtMostOnce ==
  \A n \in Node, p \in Pkg :
    delivered[n][p] > 1 => p \in astray[n] /\ Num(p) >= BitsPerBlock

(* Node n took p: its bit is set or was looked for, or the receive thread  *)
(* is between the acknowledgement and the bit, for good if it ended there. *)
Taken(n, p) ==
  \/ p \in received[n] \cup astray[n]
  \/ rcur[n] = p /\ rpc[n] \in {"deliver", "exited"}

(* SEND_COMPLETE (line 496) is only posted for a package its destination   *)
(* has taken, even when threads run out of memory or packages are          *)
(* cancelled.                                                              *)
SuccessOnlyIfTaken ==
  \A p \in Pkg : complete[p] > 0 => Taken(dest[p], p)

(* Without such failures a success means that the application at the other *)
(* end gets the package: it has it or the thread is about to hand it over. *)
(* Only of an id looked for beyond the end of the bitmap nothing is known. *)
SuccessMeansDelivered ==
  \A p \in Pkg : complete[p] > 0 =>
    LET d == dest[p] IN
    \/ delivered[d][p] = 1
    \/ rcur[d] = p /\ rpc[d] = "deliver"
    \/ p \in astray[d]

(* A package has been charged once its thread is past --_sr_blance.        *)
Charged(p) ==
  /\ dest[p] # NoAddress
  /\ \A t \in Thread : scur[t] = p => spc[t] \notin {"check", "charge"}

Credited(p) ==
  \/ complete[p] > 0
  \/ rcur[Src(p)] = p /\ rpc[Src(p)] \in {"complete", "unposted"}

(* The credit left is the window minus the packages charged and not yet    *)
(* acknowledged: an acknowledgement gives back one credit, once, and       *)
(* nothing else does (lines 244 to 248 and 487).                           *)
WindowAccounting ==
  \A n \in Node :
    window[n] = Window - Cardinality({p \in Pkg :
                           Src(p) = n /\ Charged(p) /\ ~ Credited(p)})

(* The handle an acknowledgement carries is used when the package is still *)
(* tracked (lines 484 to 500): such a package's handle was not deleted.    *)
TrackedTimerAlive ==
  \A p \in packages : releases[p] = 0

(* No callback runs on a timer whose argument and handle were deleted.     *)
NoCallbackOnReleasedTimer ==
  \A w \in Worker : wpc[w] # "idle" => releases[wcur[w]] = 0

(* Repeated acknowledgements do not complete a package twice: the bit is   *)
(* tested and cleared under the lock (lines 483 to 488).                   *)
CompletedAtMostOnce == \A p \in Pkg : complete[p] <= 1

Reported(p) == complete[p] + failed[p] + badsend[p] > 0

Started(p) == timer[p] \notin {"none", "ready"} /\ Up(Src(p))

(* Whatever the network does, the sender of a package whose timer was      *)
(* started is told how it ended, as long as its process lives (lines 370   *)
(* to 396 and 481 to 502).                                                 *)
EventuallyReported == <>[](\A p \in Pkg : Started(p) => Reported(p))

(* Every timer that was started is given back (lines 116 to 121, 219 to    *)
(* 248 and 257 to 304 of multiplex_timer.cpp).                             *)
TimersReturned == <>[](\A p \in Pkg : Started(p) => releases[p] > 0)

(* The comment at lines 338 and 339: with _exit_timer inside the lock the  *)
(* timer is not deleted twice.                                             *)
TimerReleasedOnce == \A p \in Pkg : releases[p] <= 1

-----------------------------------------------------------------------------
(* trans_core implements DatagramService.                                  *)
PhaseOf(n, p) ==
  IF delivered[n][p] > 1 /\ p \notin astray[n] THEN "twice"
  ELSE IF delivered[n][p] > 0 THEN "delivered"
  ELSE IF dest[p] = n /\ Ack(p) \in net THEN "taken"
  ELSE "none"

Service == INSTANCE DatagramService WITH
  Far <- {p \in Pkg : Num(p) >= BitsPerBlock},
  sent <- {p \in Pkg : Data(p) \in net},
  phase <- [n \in Node |-> [p \in Pkg |-> PhaseOf(n, p)]],
  lost <- astray,
  succeeded <- {p \in Pkg : complete[p] > 0}

ImplementsService == Service!Spec
=============================================================================
