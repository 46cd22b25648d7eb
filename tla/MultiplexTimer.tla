--------------------------- MODULE MultiplexTimer ---------------------------
(***************************************************************************)
(* The life of a multiplex_timer (multiplex_timer.cpp): timers are armed   *)
(* with the system, threads of the system's pool run their callbacks, more *)
(* than one at a time for one timer when the interval is short; a timer is *)
(* ended by cancel_timer, which waits for its callbacks, or by a callback  *)
(* that asks for it (cancel_timer_when_callback_exit), in which case a     *)
(* thread of the multiplex_timer frees it, told through a completion port; *)
(* and the destructor frees what is left while all of that goes on.        *)
(*                                                                         *)
(* TransCore and RpcSession see a timer from its user's side; this module  *)
(* is about the memory behind the handle: the list node, the handle and    *)
(* the user's argument, which every thread above holds a pointer to.       *)
(***************************************************************************)
EXTENDS Naturals, Sequences

CONSTANTS
  Timer,      \* the timers ready_timer makes, each once
  Worker      \* threads of the pool the callbacks run in

ASSUME NamesApart == "timer_all_exited" \notin Timer /\ "none" \notin Timer

VARIABLES
  listed,      \* _timers: the timers whose node is in the list
  native,      \* what CreateTimerQueueTimer made: "none", "armed", "deleted"
  than,        \* _timer_args.than: zero, the ladder, processing
  asked,       \* who ends the timer: "no" one, cancel_timer ("api"), "callback"
  freed,       \* how many times the handle was deleted
  cleaned,     \* how many times the user's argument was given to _cleanup
  work,        \* what each thread of the pool does, and for which timer
  complete,    \* what is queued at the completion port
  port_open,   \* the completion port has not been closed
  exiting,     \* the timer the completion thread deletes; "none", or it ended
  systimer,    \* the system's timer queue: "alive", "deleting", "invalid"
  owner,       \* how far the owner has come
  caught       \* history: the timers stop() freed though a callback had
               \* ended them, and the completion thread would free them

memory == <<listed, asked, freed, cleaned>>
close == <<port_open, systimer, owner, caught>>
threads == <<work, complete, exiting, close>>
vars == <<memory, native, than, threads>>

Idle == [at |-> "idle", timer |-> "none"]

(* A thread inside a callback of t, or on its way out of one.              *)
Runs(w, t) == work[w].timer = t
Quiet(t) == \A w \in Worker : ~Runs(w, t)
AllQuiet == \A w \in Worker : work[w] = Idle

(* _timer_state = timer_running                                            *)
Running == owner \in {"open", "stopping", "stopped"}

Init ==
  /\ listed = {}
  /\ native = [t \in Timer |-> "none"]
  /\ than = [t \in Timer |-> "zero"]
  /\ asked = [t \in Timer |-> "no"]
  /\ freed = [t \in Timer |-> 0]
  /\ cleaned = [t \in Timer |-> 0]
  /\ work = [w \in Worker |-> Idle]
  /\ complete = <<>>
  /\ port_open = TRUE
  /\ exiting = "none"
  /\ systimer = "alive"
  /\ owner = "open"
  /\ caught = {}

-----------------------------------------------------------------------------
(* The user's threads.                                                     *)

(* ready_timer                                                             *)
ReadyTimer(t) ==
  /\ owner = "open"
  /\ t \notin listed /\ freed[t] = 0
  /\ listed' = listed \cup {t}
  /\ UNCHANGED <<native, than, asked, freed, cleaned>>
  /\ UNCHANGED threads

StartTimer(t) ==
  /\ owner = "open"
  /\ t \in listed /\ native[t] = "none" /\ asked[t] = "no"
  /\ native' = [native EXCEPT ![t] = "armed"]
  /\ UNCHANGED than /\ UNCHANGED memory /\ UNCHANGED threads

(* The system makes no timer: the node and the handle go, the argument     *)
(* stays with the caller, who gets an exception.                           *)
StartTimerFails(t) ==
  /\ owner = "open"
  /\ t \in listed /\ native[t] = "none" /\ asked[t] = "no"
  /\ listed' = listed \ {t}
  /\ freed' = [freed EXCEPT ![t] = @ + 1]
  /\ UNCHANGED <<native, than, asked, cleaned>>
  /\ UNCHANGED threads

(* Nobody cancels a timer a callback has asked to end (the callers keep    *)
(* to that, by the bit of the package or the entry of the call).           *)
CancelTimer(t) ==
  /\ owner = "open"
  /\ t \in listed /\ asked[t] = "no" /\ native[t] = "armed"
  /\ asked' = [asked EXCEPT ![t] = "api"]
  /\ native' = [native EXCEPT ![t] = "deleted"]
  /\ UNCHANGED <<listed, than, freed, cleaned>>
  /\ UNCHANGED threads

(* The argument, the node and the handle of a timer nothing runs for.      *)
Release(t) ==
  /\ cleaned' = [cleaned EXCEPT ![t] = @ + 1]
  /\ listed' = listed \ {t}
  /\ freed' = [freed EXCEPT ![t] = @ + 1]

(* The rest of cancel_timer, after DeleteTimerQueueTimer has waited.       *)
TimerCancelled(t) ==
  /\ asked[t] = "api" /\ t \in listed /\ Quiet(t)
  /\ Release(t)
  /\ UNCHANGED <<native, than, asked>>
  /\ UNCHANGED threads

-----------------------------------------------------------------------------
(* The threads of the pool.                                                *)

(* _crack: the timer is due; nothing is done for one that is on its way    *)
(* out already.                                                            *)
Crack(w, t) ==
  /\ systimer = "alive" /\ native[t] = "armed"
  /\ work[w] = Idle
  /\ than[t] # "processing"
  /\ work' = [work EXCEPT ![w] = [at |-> "callback", timer |-> t]]
  /\ UNCHANGED <<native, than, complete, port_open, exiting, close>>
  /\ UNCHANGED memory

(* Mutant: than is set, not compared and exchanged.                        *)
CancelWhenCallbackExitAlways(w) ==
  LET t == work[w].timer IN
  /\ work[w].at = "callback" /\ asked[t] \in {"no", "callback"}
  /\ asked' = [asked EXCEPT ![t] = "callback"]
  /\ than' = [than EXCEPT ![t] = "ladder"]
  /\ UNCHANGED <<listed, native, freed, cleaned>>
  /\ UNCHANGED threads

(* The callback calls cancel_timer_when_callback_exit.                     *)
CancelWhenCallbackExit(w) ==
  LET t == work[w].timer IN
  /\ work[w].at = "callback" /\ asked[t] \in {"no", "callback"}
  /\ asked' = [asked EXCEPT ![t] = "callback"]
  /\ than' = IF than[t] = "zero" THEN [than EXCEPT ![t] = "ladder"] ELSE than
  /\ UNCHANGED <<listed, native, freed, cleaned>>
  /\ UNCHANGED threads

(* Mutant: than is not read again after the callback.                      *)
CallbackReturnsOnly(w) ==
  /\ work[w].at = "callback"
  /\ work' = [work EXCEPT ![w] = Idle]
  /\ UNCHANGED <<native, than, complete, port_open, exiting, close>>
  /\ UNCHANGED memory

(* The callback returns; than is read.                                     *)
CallbackReturns(w) ==
  /\ work[w].at = "callback"
  /\ work' = [work EXCEPT ![w] =
       IF than[work[w].timer] = "ladder" THEN [@ EXCEPT !.at = "claim"] ELSE Idle]
  /\ UNCHANGED <<native, than, complete, port_open, exiting, close>>
  /\ UNCHANGED memory

(* Of the threads that saw the ladder the one that takes it may post, and  *)
(* does while the multiplex_timer is not being destroyed.                  *)
Claim(w) ==
  LET t == work[w].timer IN
  /\ work[w].at = "claim"
  /\ than' = IF than[t] = "ladder" THEN [than EXCEPT ![t] = "processing"] ELSE than
  /\ work' = [work EXCEPT ![w] =
       IF than[t] = "ladder" /\ Running THEN [@ EXCEPT !.at = "post"] ELSE Idle]
  /\ UNCHANGED <<native, complete, port_open, exiting, close>>
  /\ UNCHANGED memory

(* A post to a port that was closed meanwhile fails.                       *)
Post(w) ==
  /\ work[w].at = "post"
  /\ complete' = IF port_open THEN Append(complete, work[w].timer) ELSE complete
  /\ work' = [work EXCEPT ![w] = Idle]
  /\ UNCHANGED <<native, than, port_open, exiting, close>>
  /\ UNCHANGED memory

-----------------------------------------------------------------------------
(* The completion thread (_complete_io_impl).                              *)

TakeCompletion ==
  /\ exiting = "none" /\ complete # <<>>
  /\ exiting' = Head(complete)
  /\ complete' = Tail(complete)
  /\ native' = IF Head(complete) \in Timer
               THEN [native EXCEPT ![Head(complete)] = "deleted"] ELSE native
  /\ UNCHANGED <<than, work, close>>
  /\ UNCHANGED memory

(* Mutant: the timer is deleted without waiting for its callbacks.         *)
TimerExitAtOnce ==
  /\ exiting \in Timer
  /\ Release(exiting)
  /\ exiting' = "none"
  /\ UNCHANGED <<native, than, asked, work, complete, close>>

(* DeleteTimerQueueTimer has waited for the callbacks.                     *)
TimerExit ==
  /\ exiting \in Timer /\ Quiet(exiting)
  /\ Release(exiting)
  /\ exiting' = "none"
  /\ UNCHANGED <<native, than, asked, work, complete, close>>

-----------------------------------------------------------------------------
(* The owner: stop() where it calls it, whatever the callbacks and the     *)
(* completion thread are at, as trans_core_impl::close() does; then the    *)
(* destructor.  No user thread is inside cancel_timer by then.             *)

NobodyCancels == \A t \in Timer : asked[t] = "api" => t \notin listed

(* stop() waits in DeleteTimerQueueEx for the callbacks ...                *)
Stop ==
  /\ owner = "open" /\ NobodyCancels
  /\ owner' = "stopping" /\ systimer' = "deleting"
  /\ UNCHANGED <<memory, native, than, work, complete, exiting, port_open, caught>>

(* ... and frees what is listed, without emptying the list (_cleanup_all). *)
CleanupAll ==
  /\ AllQuiet
  /\ systimer' = "invalid"
  /\ freed' = [t \in Timer |-> IF t \in listed THEN freed[t] + 1 ELSE freed[t]]
  /\ cleaned' = [t \in Timer |-> IF t \in listed THEN cleaned[t] + 1 ELSE cleaned[t]]
  /\ UNCHANGED <<listed, native, than, asked, work, complete, port_open, exiting>>

Stopped ==
  /\ owner = "stopping" /\ owner' = "stopped"
  /\ CleanupAll
  /\ caught' = {t \in listed : asked[t] = "callback"}

(* _timer_state = timer_killing                                            *)
Destroy ==
  /\ owner = "stopped" \/ (owner = "open" /\ NobodyCancels)
  /\ owner' = "killing"
  /\ UNCHANGED <<memory, native, than, work, complete, exiting, port_open, systimer,
                 caught>>

PostAllExited ==
  /\ owner = "killing"
  /\ complete' = Append(complete, "timer_all_exited")
  /\ owner' = "waiting"
  /\ UNCHANGED <<memory, native, than, work, exiting, port_open, systimer, caught>>

(* The completion thread has ended; the port is closed, and stop() does    *)
(* nothing where the system's queue is gone.                               *)
Join ==
  /\ owner = "waiting" /\ exiting = "timer_all_exited"
  /\ port_open' = FALSE
  /\ IF systimer = "invalid"
     THEN owner' = "gone" /\ UNCHANGED systimer
     ELSE owner' = "ending" /\ systimer' = "deleting"
  /\ UNCHANGED <<memory, native, than, work, complete, exiting, caught>>

Ended ==
  owner = "ending" /\ owner' = "gone" /\ CleanupAll /\ UNCHANGED caught

-----------------------------------------------------------------------------
WorkerStep(w) ==
  CallbackReturns(w) \/ Claim(w) \/ Post(w)

CompletionStep == TakeCompletion \/ TimerExit

CloseStep ==
  Stopped \/ PostAllExited \/ Join \/ Ended

Next ==
  \/ \E t \in Timer :
       \/ ReadyTimer(t) \/ StartTimer(t) \/ StartTimerFails(t)
       \/ CancelTimer(t) \/ TimerCancelled(t)
       \/ \E w \in Worker : Crack(w, t)
  \/ \E w \in Worker : CancelWhenCallbackExit(w) \/ WorkerStep(w)
  \/ CompletionStep
  \/ Stop \/ Destroy \/ CloseStep

Spec == Init /\ [][Next]_vars

(* Callbacks return, the completion thread runs, a destructor goes on.     *)
Fairness ==
  /\ \A w \in Worker : WF_vars(WorkerStep(w))
  /\ WF_vars(CompletionStep)
  /\ WF_vars(CloseStep)

FairSpec == Spec /\ Fairness

-----------------------------------------------------------------------------
(* The shape of the state.                                                 *)
TypeOK ==
  /\ listed \subseteq Timer
  /\ native \in [Timer -> {"none", "armed", "deleted"}]
  /\ than \in [Timer -> {"zero", "ladder", "processing"}]
  /\ asked \in [Timer -> {"no", "api", "callback"}]
  /\ freed \in [Timer -> Nat] /\ cleaned \in [Timer -> Nat]
  /\ work \in [Worker -> [at : {"idle", "callback", "claim", "post"},
                          timer : Timer \cup {"none"}]]
  /\ complete \in Seq(Timer \cup {"timer_all_exited"})
  /\ port_open \in BOOLEAN
  /\ exiting \in Timer \cup {"none", "timer_all_exited"}
  /\ systimer \in {"alive", "deleting", "invalid"}
  /\ owner \in {"open", "stopping", "stopped", "killing", "waiting", "ending", "gone"}
  /\ caught \subseteq Timer

(* The handle of a timer is deleted once and its argument cleaned up once, *)
(* whichever of cancel_timer, the completion thread, stop() and the        *)
(* destructor comes to it (multiplex_timer.cpp:21-46, 102-108, 190-207,    *)
(* 275-287), but for the timers stop() caught on their way out; and when   *)
(* the destructor has returned nothing that was listed is left, those      *)
(* whose post came behind timer_all_exited or after the port was closed    *)
(* too.                                                                    *)
ReleasedOnce ==
  /\ \A t \in Timer : freed[t] > 1 \/ cleaned[t] > 1 => t \in caught
  /\ owner = "gone" => \A t \in listed : freed[t] = 1 /\ cleaned[t] = 1

(* No callback works on a handle that was deleted.  No delete of the       *)
(* completion thread does, and none is in the port's queue where it can    *)
(* still be taken out of it, but for a timer that stop() caught            *)
(* (multiplex_timer.cpp:209-248, 277-286).                                 *)
NobodyHoldsFreed ==
  \A t \in Timer : freed[t] > 0 =>
    /\ Quiet(t)
    /\ \/ t \in caught
       \/ /\ exiting # t
          /\ \/ exiting = "timer_all_exited"
             \/ \A i \in 1 .. Len(complete) : complete[i] # t

(* Once stop() has deleted the system's queue there is nobody left to      *)
(* compete with (the comment at multiplex_timer.cpp:196): what it finds    *)
(* listed it may free, and nobody frees it once more.                      *)
NobodyCompetes == \A t \in Timer : freed[t] <= 1 /\ cleaned[t] <= 1

(* A timer a callback has asked to end is freed, and a destructor that has *)
(* begun returns (multiplex_timer.cpp:116-121, 219-248, 37-39).            *)
EventuallyReleased ==
  <>[](/\ owner \in {"open", "stopped", "gone"}
       /\ \A t \in Timer : asked[t] = "callback" => freed[t] > 0)
=============================================================================
