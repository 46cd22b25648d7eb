----------------------------- MODULE RpcSession -----------------------------
(***************************************************************************)
(* imouto_rpc_client and imouto_rpc_server over a transport.               *)
(*                                                                         *)
(* In a client process several threads meet: those that call invoke, the   *)
(* transport's receive thread, the threads on which the transport reports  *)
(* a send that failed, and the timer's.  They share the missions under     *)
(* _xidmap_lock, a spinlock.  The server has one receive thread for each   *)
(* client and a pool that runs the procedures.                             *)
(*                                                                         *)
(* The transport keeps requests and replies; it may lose, repeat, delay    *)
(* and reorder them, and report the failure of a send that arrived.        *)
(***************************************************************************)
EXTENDS Naturals, Sequences

CONSTANTS
  Client,        \* client processes, each with its address
  Thread,        \* the threads that call invoke ...
  Home,          \* ... and the process of each
  MaxXid,        \* bound: calls of a process
  MaxFaults,     \* bound: failed sends reported and timers refused
  Style,         \* "sync" and "async" calls
  Timed,         \* whether a call may have a timeout
  Asked,         \* bound: what may become of the request of each call
  FreshPointer,  \* what an uninitialised trunk or handle may hold
  FirstXid,      \* what _last_xid was found with, in each process
  BitsPerBlock   \* 32: by what the server's bitmap of xids grows

(* A request's procedure returns, throws a C++ exception, or faults; or    *)
(* there is none with its number; or the program or version it names is    *)
(* not the server's, though the number is; or it speaks another version of *)
(* the protocol; or its sender fails the server's verification; or the     *)
(* reply fails the client's.                                               *)
Kind == {"returns", "throws", "faults", "no_procedure", "other_program",
         "other_version", "stranger", "distrusted"}

Xid == 1 .. MaxXid
Call == Client \X Xid

ASSUME SessionAssumption ==
  /\ Home \in [Thread -> Client]
  /\ MaxXid \in Nat
  /\ MaxFaults \in Nat
  /\ Style \subseteq {"sync", "async"}
  /\ Timed \subseteq BOOLEAN
  /\ Asked \in [Xid -> SUBSET Kind]
  /\ FreshPointer \subseteq {"null", "garbage"}
  /\ FirstXid \in [Client -> Nat]
  /\ BitsPerBlock \in Nat \ {0}

(* session_stat, and the largest of them that is raised.                   *)
SessionIoFailed == 1
SessionTimeout == 2
SessionSuccess == 3
SessionRpcMismatch == 10
EnumValueBoundary == 8
SessionStat == 1 .. 11

VARIABLES
  (* client *)
  lastXid,   \* _last_xid, counted from the value it was found with
  missions,  \* _missions: the xids that wait
  request,   \* what each call was made with
  at,        \* where the threads are
  recv,      \* where the receive threads are
  timer,     \* the timer of each call
  answers,   \* the session_stats each callback was called with
  outcome,   \* how each invoke ended
  down,      \* the processes that undefined behaviour ended
  faults,
  (* transport *)
  sent,      \* requests
  replies,
  reported,  \* requests whose failure was reported
  (* server *)
  alive,     \* whether its process has not ended
  bits,      \* _xidmap: how many bits there are for a client ...
  seen,      \* ... and which of them are set
  jobs,      \* requests scheduled on the pool
  ran        \* how the procedure ended, each time it ran

clientVars == <<lastXid, missions, request, at, recv, timer, answers, outcome,
                down, faults>>
serverVars == <<alive, bits, seen, jobs, ran>>
netVars == <<sent, replies, reported>>
vars == <<clientVars, netVars, serverVars>>

None == [style |-> "none", timed |-> FALSE, kind |-> "none",
         trunk |-> "null", handle |-> "null"]
Request == [style : Style, timed : Timed, kind : Kind,
            trunk : FreshPointer \cup {"own"}, handle : FreshPointer]
Accepted == [id : Call, what : {"accepted"}, stat : 0 .. 6]  \* accept_stat
Denied == [id : Call, what : {"denied"}, stat : 0 .. 1]      \* reject_stat
Idle == [pc |-> "idle", xid |-> 0]
Listening == [pc |-> "listening", xid |-> 0, stat |-> 0]

(* Only a receive thread keeps _xidmap_lock from one step to the next.     *)
Locked(c) == recv[c].pc = "cancel"

Running(c) == c \notin down

TypeOK ==
  /\ lastXid \in [Client -> 0 .. MaxXid]
  /\ missions \in [Client -> SUBSET Xid]
  /\ request \in [Call -> Request \cup {None}]
  /\ at \in [Thread -> [pc : {"idle", "timer", "send", "wait", "check"},
                        xid : 0 .. MaxXid]]
  /\ recv \in [Client -> [pc : {"listening", "found", "cancel"},
                          xid : 0 .. MaxXid, stat : {0} \cup SessionStat]]
  /\ timer \in [Call -> {"none", "armed", "firing", "exiting", "stale",
                         "released"}]
  /\ answers \in [Call -> Seq(SessionStat)]
  /\ outcome \in [Call -> {"none", "raised", "timeout", "result", "empty"}]
  /\ down \subseteq Client
  /\ faults \in 0 .. MaxFaults
  /\ sent \subseteq Call
  /\ replies \subseteq Accepted \cup Denied
  /\ reported \subseteq Call
  /\ alive \in BOOLEAN
  /\ bits \in [Client -> Nat]
  /\ seen \in [Client -> SUBSET Xid]
  /\ jobs \subseteq Call
  /\ ran \in [Call -> Seq({"returned", "raised", "unsent"})]

Init ==
  /\ lastXid = [c \in Client |-> 0]
  /\ missions = [c \in Client |-> {}]
  /\ request = [id \in Call |-> None]
  /\ at = [t \in Thread |-> Idle]
  /\ recv = [c \in Client |-> Listening]
  /\ timer = [id \in Call |-> "none"]
  /\ answers = [id \in Call |-> <<>>]
  /\ outcome = [id \in Call |-> "none"]
  /\ down = {}
  /\ faults = 0
  /\ sent = {} /\ replies = {} /\ reported = {}
  /\ alive = TRUE
  /\ bits = [c \in Client |-> 0]
  /\ seen = [c \in Client |-> {}]
  /\ jobs = {}
  /\ ran = [id \in Call |-> <<>>]

Fault == faults < MaxFaults /\ faults' = faults + 1

-----------------------------------------------------------------------------
(* The threads that call.                                                  *)

ThreadAt(t, pc) == at[t].pc = pc /\ Running(Home[t])
Made(t) == <<Home[t], at[t].xid>>
Go(t, pc) == at' = [at EXCEPT ![t].pc = pc]
Return(t) == at' = [at EXCEPT ![t] = Idle]
Ends(t, how) == outcome' = [outcome EXCEPT ![Made(t)] = how]

(* _call() up to the timer: the xid and the mission, under the lock.  A    *)
(* sync call leaves trunk as it finds it, and no call sets handle.         *)
AllocXid(t, style, timed, kind, trunk, handle) ==
  LET c == Home[t]
      x == lastXid[c] + 1
  IN /\ ThreadAt(t, "idle")
     /\ x \in Xid /\ kind \in Asked[x]
     /\ ~Locked(c)
     /\ lastXid' = [lastXid EXCEPT ![c] = x]
     /\ missions' = [missions EXCEPT ![c] = @ \cup {x}]
     /\ request' = [request EXCEPT ![<<c, x>>] =
          [style |-> style, timed |-> timed, kind |-> kind,
           trunk |-> IF style = "async" THEN "own" ELSE trunk,
           handle |-> handle]]
     /\ at' = [at EXCEPT ![t] =
          [pc |-> IF style = "async" THEN "timer" ELSE "send", xid |-> x]]
     /\ UNCHANGED <<recv, timer, answers, outcome, down, faults,
                    netVars, serverVars>>

SetTimer(t) ==
  /\ ThreadAt(t, "timer")
  /\ timer' = [timer EXCEPT ![Made(t)] = "armed"]
  /\ Go(t, "send")
  /\ UNCHANGED <<lastXid, missions, request, recv, answers, outcome, down,
                 faults, netVars, serverVars>>

(* set_timer throws, through _call(); the mission stays.                   *)
SetTimerFails(t) ==
  /\ ThreadAt(t, "timer")
  /\ Fault
  /\ Ends(t, "raised")
  /\ Return(t)
  /\ UNCHANGED <<lastXid, missions, request, recv, timer, answers, down,
                 netVars, serverVars>>

(* An async call returns once the request is out.                          *)
Send(t) ==
  /\ ThreadAt(t, "send")
  /\ sent' = sent \cup {Made(t)}
  /\ IF request[Made(t)].style = "sync" THEN Go(t, "wait") ELSE Return(t)
  /\ UNCHANGED <<lastXid, missions, request, recv, timer, answers, outcome,
                 down, faults, replies, reported, serverVars>>

(* What timed_invoke makes of the callback's arguments.                    *)
OutcomeOf(stat) ==
  IF stat = SessionSuccess THEN "result"
  ELSE IF stat <= EnumValueBoundary THEN "raised" ELSE "empty"

(* The callback has unlocked wait_handle.                                  *)
Wakes(t) ==
  /\ ThreadAt(t, "wait")
  /\ answers[Made(t)] # <<>>
  /\ Ends(t, OutcomeOf(Head(answers[Made(t)])))
  /\ Return(t)
  /\ UNCHANGED <<lastXid, missions, request, recv, timer, answers, down,
                 faults, netVars, serverVars>>

(* timed_wait gives up, and only then is the mission looked up.            *)
TimesOut(t) ==
  /\ ThreadAt(t, "wait")
  /\ request[Made(t)].timed
  /\ answers[Made(t)] = <<>>
  /\ Go(t, "check")
  /\ UNCHANGED <<lastXid, missions, request, recv, timer, answers, outcome,
                 down, faults, netVars, serverVars>>

(* Mutant: the opposite test.                                              *)
HaveNot(c, x) == x \notin missions[c]

Have(c, x) == x \in missions[c]

(* Without a mission timed_invoke returns the result it has, an empty one. *)
ChecksMission(t) ==
  /\ ThreadAt(t, "check")
  /\ ~Locked(Home[t])
  /\ Ends(t, IF Have(Home[t], at[t].xid) THEN "timeout" ELSE "empty")
  /\ Return(t)
  /\ UNCHANGED <<lastXid, missions, request, recv, timer, answers, down,
                 faults, netVars, serverVars>>

-----------------------------------------------------------------------------
(* Callbacks.                                                              *)

(* The callback of a sync call refers to the frame of timed_invoke.        *)
FrameLives(id) ==
  \/ request[id].style = "async"
  \/ \E t \in Thread : Made(t) = id /\ at[t].pc \in {"send", "wait", "check"}

(* Undefined behaviour: the process ends, or nothing comes of it.          *)
Undefined(c) == down' \in {down, down \cup {c}}
Crash(c) == down' = down \cup {c}

Calls(id, stat) == answers' = [answers EXCEPT ![id] = Append(@, stat)]

(* Mutant: the mission is left.                                            *)
ErasesNothing(c, x) == UNCHANGED missions

Erases(c, x) == missions' = [missions EXCEPT ![c] = @ \ {x}]

(* The transport reports that a send failed.  The callback is called, a    *)
(* handle nobody ever set is cancelled, and the mission erased, all under  *)
(* the lock.                                                               *)
IoFailedLate(c, x) ==
  /\ ~Have(c, x)
  /\ UNCHANGED <<missions, answers, down>>

IoFailedUnnoticed(c, x) ==
  /\ Have(c, x)
  /\ request[<<c, x>>].handle = "garbage"
  /\ Calls(<<c, x>>, SessionIoFailed)
  /\ Erases(c, x)
  /\ UNCHANGED down

IoFailedCrashes(c, x) ==
  /\ Have(c, x)
  /\ Calls(<<c, x>>, SessionIoFailed)
  /\ Crash(c)
  /\ UNCHANGED missions

IoFailed(c, x) ==
  /\ Running(c)
  /\ ~Locked(c)
  /\ <<c, x>> \in sent \ reported
  /\ Fault
  /\ reported' = reported \cup {<<c, x>>}
  /\ IoFailedLate(c, x) \/ IoFailedUnnoticed(c, x) \/ IoFailedCrashes(c, x)
  /\ UNCHANGED <<lastXid, request, at, recv, timer, outcome, sent, replies,
                 serverVars>>

(* _to_session_stat().  Mutant: reject_stat counted from one.              *)
ToSessionStatShifted(reply) ==
  reply.stat + IF reply.what = "accepted" THEN SessionSuccess
                                          ELSE SessionRpcMismatch + 1

ToSessionStat(reply) ==
  reply.stat + IF reply.what = "accepted" THEN SessionSuccess
                                          ELSE SessionRpcMismatch

(* The first lookup of a reply, _have(); a reply without a mission, or an  *)
(* accepted one that the client's verifier rejects, is dropped.            *)
RecvReply(c) ==
  /\ Running(c)
  /\ recv[c].pc = "listening"
  /\ \E reply \in replies :
       LET x == reply.id[2] IN
       /\ reply.id[1] = c
       /\ Have(c, x)
       /\ reply.what = "accepted" => request[reply.id].kind # "distrusted"
       /\ recv' = [recv EXCEPT ![c] =
            [pc |-> "found", xid |-> x, stat |-> ToSessionStat(reply)]]
  /\ UNCHANGED <<lastXid, missions, request, at, timer, answers, outcome,
                 down, faults, netVars, serverVars>>

(* The second lookup does not ask whether there is a mission.              *)
FindAgain(c) ==
  /\ Running(c)
  /\ recv[c].pc = "found"
  /\ IF Have(c, recv[c].xid)
       THEN recv' = [recv EXCEPT ![c].pc = "cancel"] /\ UNCHANGED down
       ELSE Crash(c) /\ UNCHANGED recv
  /\ UNCHANGED <<lastXid, missions, request, at, timer, answers, outcome,
                 faults, netVars, serverVars>>

(* cancel_timer(reply.trunk) waits for a callback of the timer, and uses   *)
(* the handle whether or not the timer was deleted before.                 *)
TimerAlive(id) == timer[id] \in {"armed", "exiting"}

CancelTimer(id) ==
  IF request[id].trunk = "own"
    THEN /\ timer[id] # "firing"
         /\ timer' = [timer EXCEPT ![id] =
              CASE @ = "armed" -> "released"
                [] @ = "exiting" -> "stale"
                [] OTHER -> @]
    ELSE UNCHANGED timer

CancelsNoTimer(id) ==
  \/ request[id].trunk = "garbage"
  \/ request[id].trunk = "own" /\ ~TimerAlive(id)

(* Still under the lock: the timer, the callback, the mission.  The        *)
(* callback of a sync call whose frame is gone writes somewhere else.      *)
Answer(c) ==
  LET x == recv[c].xid
      id == <<c, x>>
  IN /\ Running(c)
     /\ recv[c].pc = "cancel"
     /\ CancelTimer(id)
     /\ IF CancelsNoTimer(id) \/ ~FrameLives(id) THEN Undefined(c)
                                                 ELSE UNCHANGED down
     /\ Calls(id, recv[c].stat)
     /\ Erases(c, x)
     /\ recv' = [recv EXCEPT ![c] = Listening]
     /\ UNCHANGED <<lastXid, request, at, outcome, faults, netVars, serverVars>>

-----------------------------------------------------------------------------
(* The timers of async calls.                                              *)

Fire(c, x) ==
  /\ Running(c)
  /\ timer[<<c, x>>] = "armed"
  /\ request[<<c, x>>].timed
  /\ timer' = [timer EXCEPT ![<<c, x>>] = "firing"]
  /\ UNCHANGED <<lastXid, missions, request, at, recv, answers, outcome, down,
                 faults, netVars, serverVars>>

(* Mutant: dest is set, and the mission is still left where it is.         *)
TimeoutHaveDest(c, x) == Have(c, x)

(* _timer_arg::dest was never set, so _have() looks at another address.    *)
TimeoutHave(c, x) == FALSE

RpcTimeout(c, x) ==
  /\ Running(c)
  /\ timer[<<c, x>>] = "firing"
  /\ ~Locked(c)
  /\ IF TimeoutHave(c, x) THEN Calls(<<c, x>>, SessionTimeout)
                          ELSE UNCHANGED answers
  /\ timer' = [timer EXCEPT ![<<c, x>>] = "exiting"]
  /\ UNCHANGED <<lastXid, missions, request, at, recv, outcome, down, faults,
                 netVars, serverVars>>

(* The timer's completion thread deletes it, a stale one once more.        *)
ReleaseOnExit(c, x) ==
  /\ Running(c)
  /\ timer[<<c, x>>] \in {"exiting", "stale"}
  /\ timer' = [timer EXCEPT ![<<c, x>>] = "released"]
  /\ IF timer[<<c, x>>] = "stale" THEN Undefined(c) ELSE UNCHANGED down
  /\ UNCHANGED <<lastXid, missions, request, at, recv, answers, outcome, faults,
                 netVars, serverVars>>

-----------------------------------------------------------------------------
(* The server.                                                             *)

(* dynamic_bitmap::_try_extern(), once for a bit that is not there.        *)
Grown(size) == size + BitsPerBlock * ((size * 2) \div BitsPerBlock + 1)
Number(c, x) == FirstXid[c] + x
Has(c, x) == Number(c, x) < bits[c]

(* The bit is looked for, and set where the bitmap, grown, has it.         *)
SetXid(c, x) ==
  /\ bits' = [bits EXCEPT ![c] = IF Has(c, x) THEN @ ELSE Grown(@)]
  /\ seen' = [seen EXCEPT ![c] = IF Has(c, x)' THEN @ \cup {x} ELSE @]

(* Mutant: no check of the xid.                                            *)
AlreadySeenNever(c, x) == FALSE

AlreadySeen(c, x) == x \in seen[c]

Replies(id, what, stat) ==
  replies' = replies \cup {[id |-> id, what |-> what, stat |-> stat]}

(* stub_pool::find(): what it finds out about the program's number and     *)
(* version is overwritten by what it finds out about the procedure's.      *)
FindSuccess == 0
ProcMismatch == 2
Find(kind) == IF kind = "no_procedure" THEN ProcMismatch ELSE FindSuccess

(* _process_rpcmsg_impl(): the checks in order; the first that fails       *)
(* replies, except for a repeated xid.                                     *)
CheckVersion(id) ==
  /\ request[id].kind = "other_version"
  /\ Replies(id, "denied", 0)
  /\ UNCHANGED <<jobs, alive>>

(* Mutant: a stranger is refused and served all the same.                  *)
CheckUserGoesOn(id) ==
  /\ request[id].kind = "stranger"
  /\ Replies(id, "denied", 1)
  /\ jobs' = jobs \cup {id}
  /\ UNCHANGED alive

CheckUser(id) ==
  /\ request[id].kind = "stranger"
  /\ Replies(id, "denied", 1)
  /\ UNCHANGED <<jobs, alive>>

(* Mutant: the client is not told that there is no such procedure.         *)
NoStubSilent(id) ==
  /\ Find(request[id].kind) # FindSuccess
  /\ UNCHANGED <<jobs, replies, alive>>

NoStub(id) ==
  /\ Find(request[id].kind) # FindSuccess
  /\ Replies(id, "accepted", Find(request[id].kind))
  /\ UNCHANGED <<jobs, alive>>

(* Where the bitmap, though it has grown, does not have the bit verify_xid *)
(* throws what nobody catches, and the server's process ends.              *)
Schedule(id) ==
  /\ Find(request[id].kind) = FindSuccess
  /\ alive' = Has(id[1], id[2])'
  /\ jobs' = IF alive' THEN jobs \cup {id} ELSE jobs
  /\ UNCHANGED replies

CheckStub(id) ==
  /\ request[id].kind \notin {"other_version", "stranger"}
  /\ NoStub(id) \/ Schedule(id)

ProcessRequest(c, x) ==
  LET id == <<c, x>>
  IN /\ alive /\ id \in sent
     /\ ~AlreadySeen(c, x)
     /\ SetXid(c, x)
     /\ CheckVersion(id) \/ CheckUser(id) \/ CheckStub(id)
     /\ UNCHANGED <<ran, sent, reported, clientVars>>

(* _call_stub(): the procedure runs on a pool thread, which then replies.  *)
Stat(kind) == CASE kind = "throws" -> 5
                [] kind = "faults" -> 6
                [] OTHER -> 0

EndsJob(id, how) ==
  /\ alive /\ id \in jobs
  /\ jobs' = jobs \ {id}
  /\ ran' = [ran EXCEPT ![id] = Append(@, how)]
  /\ UNCHANGED <<alive, bits, seen, sent, reported>>

CallStub(id) ==
  LET stat == Stat(request[id].kind)
  IN /\ EndsJob(id, IF stat = 0 THEN "returned" ELSE "raised")
     /\ Replies(id, "accepted", stat)
     /\ UNCHANGED clientVars

(* The reply throws: that of a procedure that returned into the handler of *)
(* the procedure's C++ exceptions, and that handler's reply into the       *)
(* filter of the platform's.                                               *)
ReplyThrows(id) ==
  LET stat == Stat(request[id].kind)
  IN /\ Fault /\ stat # 6
     /\ EndsJob(id, IF stat = 0 THEN "unsent" ELSE "raised")
     /\ Replies(id, "accepted", IF stat = 0 THEN 5 ELSE 6)
     /\ UNCHANGED <<lastXid, missions, request, at, recv, timer, answers, outcome,
                    down>>

-----------------------------------------------------------------------------
ThreadNext(t) ==
  \/ \E style \in Style, timed \in Timed, kind \in Kind,
        trunk, handle \in FreshPointer :
       AllocXid(t, style, timed, kind, trunk, handle)
  \/ SetTimer(t) \/ SetTimerFails(t) \/ Send(t)
  \/ Wakes(t) \/ TimesOut(t) \/ ChecksMission(t)

CallNext(c, x) ==
  \/ IoFailed(c, x)
  \/ Fire(c, x) \/ RpcTimeout(c, x) \/ ReleaseOnExit(c, x)
  \/ ProcessRequest(c, x) \/ CallStub(<<c, x>>) \/ ReplyThrows(<<c, x>>)

Next ==
  \/ \E t \in Thread : ThreadNext(t)
  \/ \E c \in Client : RecvReply(c) \/ FindAgain(c) \/ Answer(c)
  \/ \E c \in Client, x \in Xid : CallNext(c, x)

Spec == Init /\ [][Next]_vars

(* The transport brings every request and reply once, whatever it does to  *)
(* others before; every thread goes on when it can.                        *)
FairThread(t) ==
  /\ WF_vars(SetTimer(t) \/ Send(t) \/ Wakes(t) \/ ChecksMission(t))
  /\ WF_vars(TimesOut(t))

FairReceiver(c) == WF_vars(RecvReply(c) \/ FindAgain(c) \/ Answer(c))

FairCall(c, x) ==
  /\ WF_vars(RpcTimeout(c, x))
  /\ WF_vars(ReleaseOnExit(c, x))
  /\ WF_vars(ProcessRequest(c, x) /\ \A reply \in replies : reply.id # <<c, x>>)
  /\ WF_vars(CallStub(<<c, x>>))

FairSpec ==
  /\ Spec
  /\ \A t \in Thread : FairThread(t)
  /\ \A c \in Client : FairReceiver(c)
  /\ \A c \in Client, x \in Xid : FairCall(c, x)

-----------------------------------------------------------------------------
(* Properties.                                                             *)

(* A request runs at most once, however often the transport brings it:     *)
(* the server marks the xid before anything else (_check_xid).             *)
RunsAtMostOnce == \A id \in Call : Len(ran[id]) <= 1

(* A callback is called at most once, although a reply, a failed send and  *)
(* a timeout may all come for one call: whoever calls it under the lock    *)
(* also erases the mission.                                                *)
CalledBackOnce == \A id \in Call : Len(answers[id]) <= 1

(* What a callback is told is what happened on the server: a success is    *)
(* the procedure's, an exception means that it ran and raised one, or that *)
(* its results could not be sent, and a refusal means that it did not run  *)
(* and will not.                                                           *)
ToldAs(stat) ==
  CASE stat = SessionSuccess -> {<<"returned">>}
    [] stat \in {8, 9} -> {<<"raised">>, <<"unsent">>}
    [] OTHER -> {<<>>}

AnswersTellTheTruth ==
  \A id \in Call : \A i \in DOMAIN answers[id] :
    answers[id][i] > SessionTimeout =>
      ran[id] \in ToldAs(answers[id][i]) /\ id \notin jobs

(* A sync call that returns without an exception was answered, also when   *)
(* its timeout and the answer came together.                               *)
ReturnMeansAnswered ==
  \A id \in Call : outcome[id] \in {"result", "empty"} => answers[id] # <<>>

(* While an untimed async call waits, its timer is there to be cancelled.  *)
TimerHeldUntilAnswer ==
  \A id \in sent :
    /\ id[2] \in missions[id[1]]
    /\ request[id].trunk = "own"
    /\ ~request[id].timed
    => timer[id] = "armed"

(* The receive thread waits in cancel_timer, with _xidmap_lock, for a      *)
(* callback of the timer that waits for the lock: for good, and with it    *)
(* every thread of the process that asks for the lock.                     *)
Hangs(c) == recv[c].pc = "cancel" /\ timer[<<c, recv[c].xid>>] = "firing"

(* Where the reply fails the client's verification it is dropped           *)
(* (imouto_rpc_client.hpp:419-423): the callback is never called, and an   *)
(* invoke ends if it has a timeout.                                        *)
Dropped(id) ==
  /\ request[id].kind = "distrusted"
  /\ request[id].style = "sync" /\ request[id].timed => outcome[id] # "none"

(* A request that was sent is answered, and a sync call then goes on.      *)
(* Excepted are what the client and the server do to themselves: the       *)
(* client's process was ended by undefined behaviour, or hangs; the        *)
(* server's was ended by what verify_xid throws; the reply is distrusted.  *)
EventuallyAnswered ==
  \A id \in Call :
    id \in sent ~> \/ id[1] \in down \/ Hangs(id[1]) \/ ~alive
                   \/ Dropped(id)
                   \/ /\ answers[id] # <<>>
                      /\ request[id].style = "sync" => outcome[id] # "none"

-----------------------------------------------------------------------------
(* The service this implements.                                            *)

Once(s, none) == IF s = <<>> THEN none
                 ELSE IF Len(s) = 1 THEN Head(s) ELSE "repeated"

Meaning(stats) ==
  [i \in DOMAIN stats |-> IF stats[i] = SessionSuccess THEN "success"
                                                       ELSE "failure"]

Service == INSTANCE RpcService WITH
  called <- {id \in Call : request[id] # None},
  ran <- [id \in Call |-> Once(ran[id], "not_run")],
  answer <- [id \in Call |-> Once(Meaning(answers[id]), "none")]

(* Every behaviour of client, transport and server is one of the service.  *)
ImplementsService == Service!Spec
=============================================================================
