---------------------------- MODULE CompletePort ----------------------------
(***************************************************************************)
(* io_complete_port (io_complete_port.cpp): a queue several threads post   *)
(* to and get from, until it is closed. get() blocks while the queue is    *)
(* empty. What is queued at close() is lost. After it, post() and get()    *)
(* both throw: the system call fails, and _try_throw_last_error comes      *)
(* before the 0 post() has for that and before the complete_port_exit      *)
(* get() has for it.                                                       *)
(***************************************************************************)
EXTENDS Sequences

(* _init                                                                   *)
NewPort == [queue |-> <<>>, alive |-> TRUE]

CanPost(p) == p.alive
Posted(p, what) == [p EXCEPT !.queue = Append(@, what)]

CanGet(p) == p.alive /\ p.queue # <<>>
Got(p) == Head(p.queue)
AfterGet(p) == [p EXCEPT !.queue = Tail(@)]

(* A thread blocked in get() is let go by close(), with an error.          *)
GetThrows(p) == ~p.alive

ClosedPort(p) == [queue |-> <<>>, alive |-> FALSE]
=============================================================================
