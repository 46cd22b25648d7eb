-------------------------- MODULE RpcSessionProofs --------------------------
(***************************************************************************)
(* Proofs about RpcSession for any number of processes, threads and calls, *)
(* any mixture of calls, and any budget of faults.                         *)
(***************************************************************************)
EXTENDS RpcSession, TLAPS

(* A thread that works on a call works on one with an xid of its process.  *)
PlaceOK ==
  /\ \A t \in Thread : at[t].pc # "idle" => at[t].xid \in Xid
  /\ \A c \in Client : recv[c].pc # "listening" =>
       recv[c].xid \in Xid /\ recv[c].stat \in SessionStat

TypeInv == TypeOK /\ PlaceOK

(* A bitmap that grows still has a natural number of bits.                  *)
LEMMA GrownIsNat == ASSUME NEW n \in Nat PROVE Grown(n) \in Nat
<1>1. BitsPerBlock \in Nat /\ BitsPerBlock > 0
  BY SessionAssumption
<1>2. (n * 2) \div BitsPerBlock \in Nat
  <2> DEFINE m == n * 2
  <2>1. m \in Nat
    OBVIOUS
  <2> HIDE DEF m
  <2>2. m \div BitsPerBlock \in Nat
    BY <1>1, <2>1
  <2>3. QED BY <2>2 DEF m
<1> DEFINE k == (n * 2) \div BitsPerBlock
<1> HIDE DEF k
<1>3. k \in Nat
  BY <1>2 DEF k
<1>4. BitsPerBlock * (k + 1) \in Nat
  BY <1>1, <1>3
<1>5. n + BitsPerBlock * (k + 1) \in Nat
  BY <1>4
<1>6. QED BY <1>5 DEF Grown, k

LEMMA InitTypeInv == Init => TypeInv
BY SessionAssumption
   DEF Init, TypeInv, TypeOK, PlaceOK, Call, Xid, Idle, Listening, SessionStat

LEMMA MadeIsCall ==
  ASSUME TypeInv, NEW t \in Thread, at[t].pc # "idle"
  PROVE  Made(t) \in Call /\ Home[t] \in Client
BY SessionAssumption DEF TypeInv, PlaceOK, Made, Call

(* A call that was made has a request.                                     *)
LEMMA NoneIsNoRequest == None \notin Request
BY SessionAssumption DEF None, Request

LEMMA AllocTypeInv ==
  ASSUME TypeInv, NEW t \in Thread, NEW style \in Style, NEW timed \in Timed,
         NEW kind \in Kind, NEW trunk \in FreshPointer,
         NEW handle \in FreshPointer,
         AllocXid(t, style, timed, kind, trunk, handle)
  PROVE  /\ TypeInv'
         /\ <<Home[t], lastXid[Home[t]] + 1>> \in Call
         /\ \E r \in Request :
              request' = [request EXCEPT ![<<Home[t], lastXid[Home[t]] + 1>>] = r]
<1> DEFINE c == Home[t]
           x == lastXid[c] + 1
           r == [style |-> style, timed |-> timed, kind |-> kind,
                 trunk |-> IF style = "async" THEN "own" ELSE trunk,
                 handle |-> handle]
<1>1. c \in Client /\ x \in Xid /\ <<c, x>> \in Call
  BY SessionAssumption DEF AllocXid, Call
<1>2. r \in Request
  BY DEF Request
<1>3. request' = [request EXCEPT ![<<c, x>>] = r]
  BY DEF AllocXid
<1>4. request' \in [Call -> Request \cup {None}]
  BY <1>1, <1>2, <1>3 DEF TypeInv, TypeOK
<1>5. lastXid' \in [Client -> 0 .. MaxXid] /\ missions' \in [Client -> SUBSET Xid]
  BY <1>1, SessionAssumption DEF TypeInv, TypeOK, AllocXid, Xid
<1>6. /\ at' \in [Thread -> [pc : {"idle", "timer", "send", "wait", "check"},
                             xid : 0 .. MaxXid]]
      /\ \A u \in Thread : at'[u].pc # "idle" => at'[u].xid \in Xid
  BY <1>1, SessionAssumption DEF TypeInv, TypeOK, PlaceOK, AllocXid, Xid
<1>7. UNCHANGED <<recv, timer, answers, outcome, down, faults, netVars, serverVars>>
  BY DEF AllocXid
<1>8. TypeInv'
  BY <1>4, <1>5, <1>6, <1>7 DEF TypeInv, TypeOK, PlaceOK, netVars, serverVars
<1>9. QED BY <1>1, <1>2, <1>3, <1>8

(* Where a thread may go from a call, and back.                            *)
LEMMA GoTypes ==
  ASSUME TypeInv, NEW t \in Thread, at[t].pc # "idle",
         Return(t) \/ \E pc \in {"send", "wait", "check"} : Go(t, pc)
  PROVE  /\ at' \in [Thread -> [pc : {"idle", "timer", "send", "wait", "check"},
                                xid : 0 .. MaxXid]]
         /\ \A u \in Thread : at'[u].pc # "idle" => at'[u].xid \in Xid
<1> DEFINE Places == [pc : {"idle", "timer", "send", "wait", "check"},
                      xid : 0 .. MaxXid]
<1>1. at \in [Thread -> Places]
      /\ \A u \in Thread : at[u].pc # "idle" => at[u].xid \in Xid
  BY DEF TypeInv, TypeOK, PlaceOK
<1>2. CASE Return(t)
  <2>1. Idle \in Places /\ Idle.pc = "idle"
    BY SessionAssumption DEF Idle
  <2>2. QED BY <1>1, <1>2, <2>1 DEF Return
<1>3. ASSUME NEW pc \in {"send", "wait", "check"}, Go(t, pc)
      PROVE  /\ at' \in [Thread -> Places]
             /\ \A u \in Thread : at'[u].pc # "idle" => at'[u].xid \in Xid
  BY <1>1, <1>3 DEF Go
<1>4. QED BY <1>2, <1>3

LEMMA ThreadTypeInv ==
  ASSUME TypeInv, NEW t \in Thread, ThreadNext(t) PROVE TypeInv'
<1>1. ASSUME NEW style \in Style, NEW timed \in Timed, NEW kind \in Kind,
             NEW trunk \in FreshPointer, NEW handle \in FreshPointer,
             AllocXid(t, style, timed, kind, trunk, handle)
      PROVE  TypeInv'
  BY <1>1, AllocTypeInv
<1>2. CASE SetTimer(t) \/ SetTimerFails(t) \/ Send(t)
           \/ Wakes(t) \/ TimesOut(t) \/ ChecksMission(t)
  <2>1. Made(t) \in Call /\ at[t].pc # "idle"
    BY <1>2, MadeIsCall DEF SetTimer, SetTimerFails, Send, Wakes, TimesOut,
       ChecksMission, ThreadAt
  <2>2. Return(t) \/ \E pc \in {"send", "wait", "check"} : Go(t, pc)
    BY <1>2 DEF SetTimer, SetTimerFails, Send, Wakes, TimesOut, ChecksMission
  <2>3. /\ at' \in [Thread -> [pc : {"idle", "timer", "send", "wait", "check"},
                               xid : 0 .. MaxXid]]
        /\ \A u \in Thread : at'[u].pc # "idle" => at'[u].xid \in Xid
    BY <2>1, <2>2, GoTypes
  <2>4. timer' = timer \/ timer' = [timer EXCEPT ![Made(t)] = "armed"]
    BY <1>2 DEF SetTimer, SetTimerFails, Send, Wakes, TimesOut, ChecksMission
  <2>5. timer' \in [Call -> {"none", "armed", "firing", "exiting", "stale",
                             "released"}]
    BY <2>1, <2>4 DEF TypeInv, TypeOK
  <2>6. sent' \subseteq Call
    <3>1. sent' \subseteq sent \cup {Made(t)}
      BY <1>2 DEF SetTimer, SetTimerFails, Send, Wakes, TimesOut, ChecksMission,
         netVars
    <3>2. QED BY <2>1, <3>1 DEF TypeInv, TypeOK
  <2>7. outcome' \in [Call -> {"none", "raised", "timeout", "result", "empty"}]
    <3>1. \A stat : OutcomeOf(stat) \in {"raised", "result", "empty"}
      BY DEF OutcomeOf
    <3>2. \/ outcome' = outcome
          \/ \E how \in {"raised", "timeout", "result", "empty"} :
               outcome' = [outcome EXCEPT ![Made(t)] = how]
      BY <1>2, <3>1 DEF SetTimer, SetTimerFails, Send, Wakes, TimesOut,
         ChecksMission, Ends
    <3>3. QED BY <2>1, <3>2 DEF TypeInv, TypeOK
  <2>8. faults' \in 0 .. MaxFaults
    BY <1>2, SessionAssumption
       DEF SetTimer, SetTimerFails, Send, Wakes, TimesOut, ChecksMission, Fault,
           TypeInv, TypeOK
  <2>9. UNCHANGED <<lastXid, missions, request, recv, answers, down, replies,
                    reported, serverVars>>
    BY <1>2 DEF SetTimer, SetTimerFails, Send, Wakes, TimesOut, ChecksMission,
       netVars
  <2>10. QED
    BY <2>3, <2>5, <2>6, <2>7, <2>8, <2>9 DEF TypeInv, TypeOK, PlaceOK, serverVars
<1>3. QED
  BY <1>1, <1>2 DEF ThreadNext

(* What _to_session_stat() gives for any reply the server sends.           *)
LEMMA SessionStats ==
  ASSUME NEW r \in Accepted \cup Denied
  PROVE  ToSessionStat(r) \in SessionStat /\ ToSessionStat(r) > SessionTimeout
<1>1. CASE r \in Accepted
  BY <1>1 DEF Accepted, ToSessionStat, SessionStat, SessionTimeout,
     SessionSuccess, SessionRpcMismatch
<1>2. CASE r \in Denied
  BY <1>2 DEF Denied, ToSessionStat, SessionStat, SessionTimeout,
     SessionSuccess, SessionRpcMismatch
<1>3. QED BY <1>1, <1>2

(* The call a reply belongs to, seen from the process that gets it.        *)
LEMMA ReplyFor ==
  ASSUME TypeInv, NEW r \in replies, NEW c \in Client, r.id[1] = c
  PROVE  r.id[2] \in Xid /\ r.id = <<c, r.id[2]>>
<1>1. r.id \in Call
  BY DEF TypeInv, TypeOK, Accepted, Denied
<1>2. QED BY <1>1 DEF Call

LEMMA AppendedAnswer ==
  ASSUME TypeInv, NEW id \in Call, NEW stat \in SessionStat, Calls(id, stat)
  PROVE  /\ answers' \in [Call -> Seq(SessionStat)]
         /\ answers'[id] = Append(answers[id], stat)
         /\ \A other \in Call \ {id} : answers'[other] = answers[other]
<1>1. answers \in [Call -> Seq(SessionStat)]
  BY DEF TypeInv, TypeOK
<1>2. Append(answers[id], stat) \in Seq(SessionStat)
  BY <1>1
<1>3. QED BY <1>1, <1>2 DEF Calls

LEMMA CancelledTimerType ==
  ASSUME TypeInv, NEW id \in Call, CancelTimer(id)
  PROVE  timer' \in [Call -> {"none", "armed", "firing", "exiting", "stale",
                             "released"}]
<1> DEFINE T == {"none", "armed", "firing", "exiting", "stale", "released"}
<1>1. timer \in [Call -> T]
  BY DEF TypeInv, TypeOK
<1>2. CASE request[id].trunk = "own"
  <2>1. PICK v \in T : timer' = [timer EXCEPT ![id] = v]
    <3>1. CASE timer[id] = "armed"
      BY <1>1, <1>2, <3>1 DEF CancelTimer
    <3>2. CASE timer[id] = "exiting"
      BY <1>1, <1>2, <3>2 DEF CancelTimer
    <3>3. CASE timer[id] \notin {"armed", "exiting"}
      <4>1. timer' = [timer EXCEPT ![id] = timer[id]]
        BY <1>2, <3>3 DEF CancelTimer
      <4>2. timer[id] \in T  BY <1>1
      <4>3. QED BY <4>1, <4>2
    <3>4. QED BY <3>1, <3>2, <3>3
  <2>2. QED BY <1>1, <2>1
<1>3. CASE request[id].trunk # "own"
  BY <1>1, <1>3 DEF CancelTimer
<1>4. QED BY <1>2, <1>3

LEMMA ReceiverTypeInv ==
  ASSUME TypeInv, NEW c \in Client, RecvReply(c) \/ FindAgain(c) \/ Answer(c)
  PROVE  TypeInv'
<1> USE DEF netVars, serverVars
<1>1. CASE RecvReply(c)
  <2>1. PICK r \in replies :
          /\ r.id[1] = c
          /\ recv' = [recv EXCEPT ![c] =
               [pc |-> "found", xid |-> r.id[2], stat |-> ToSessionStat(r)]]
    BY <1>1 DEF RecvReply
  <2>2. r.id[2] \in Xid /\ ToSessionStat(r) \in SessionStat
    BY <2>1, ReplyFor, SessionStats DEF TypeInv, TypeOK
  <2>3. r.id[2] \in 0 .. MaxXid
    BY <2>2, SessionAssumption DEF Xid
  <2>4. UNCHANGED <<lastXid, missions, request, at, timer, answers, outcome,
                    down, faults, netVars, serverVars>>
    BY <1>1 DEF RecvReply
  <2> HIDE DEF ToSessionStat
  <2>5. QED BY <2>1, <2>2, <2>3, <2>4 DEF TypeInv, TypeOK, PlaceOK
<1>2. CASE FindAgain(c)
  <2>1. CASE Have(c, recv[c].xid)
    <3>1. /\ recv' = [recv EXCEPT ![c].pc = "cancel"]
          /\ recv[c].pc = "found"
          /\ UNCHANGED <<lastXid, missions, request, at, timer, answers, outcome,
                         down, faults, netVars, serverVars>>
      BY <1>2, <2>1 DEF FindAgain
    <3>2. /\ recv' \in [Client -> [pc : {"listening", "found", "cancel"},
                                   xid : 0 .. MaxXid,
                                   stat : {0} \cup SessionStat]]
          /\ \A d \in Client : recv'[d].pc # "listening" =>
               recv'[d].xid \in Xid /\ recv'[d].stat \in SessionStat
      <4>1. recv \in [Client -> [pc : {"listening", "found", "cancel"},
                                 xid : 0 .. MaxXid,
                                 stat : {0} \cup SessionStat]]
        BY DEF TypeInv, TypeOK
      <4> HIDE DEF SessionStat, Xid
      <4>2. recv' \in [Client -> [pc : {"listening", "found", "cancel"},
                                  xid : 0 .. MaxXid,
                                  stat : {0} \cup SessionStat]]
        BY <3>1, <4>1
      <4>3. \A d \in Client :
              /\ recv'[d].pc # "listening" => recv[d].pc # "listening"
              /\ recv'[d].xid = recv[d].xid /\ recv'[d].stat = recv[d].stat
        BY <3>1, <4>1
      <4>4. QED BY <4>2, <4>3 DEF TypeInv, PlaceOK
    <3>3. QED BY <3>1, <3>2 DEF TypeInv, TypeOK, PlaceOK
  <2>2. CASE ~Have(c, recv[c].xid)
    BY <1>2, <2>2 DEF FindAgain, Crash, TypeInv, TypeOK, PlaceOK
  <2>3. QED BY <2>1, <2>2
<1>3. CASE Answer(c)
  <2>1. recv[c].xid \in Xid /\ recv[c].stat \in SessionStat
        /\ <<c, recv[c].xid>> \in Call
    BY <1>3 DEF Answer, TypeInv, PlaceOK, Call
  <2>2. answers' \in [Call -> Seq(SessionStat)]
    BY <1>3, <2>1, AppendedAnswer DEF Answer
  <2>3. timer' \in [Call -> {"none", "armed", "firing", "exiting", "stale",
                             "released"}]
    BY <1>3, <2>1, CancelledTimerType DEF Answer
  <2>4. down' \subseteq Client
    BY <1>3 DEF Answer, Undefined, TypeInv, TypeOK
  <2>5. missions' \in [Client -> SUBSET Xid]
    BY <1>3 DEF Answer, Erases, TypeInv, TypeOK
  <2>6. /\ recv' \in [Client -> [pc : {"listening", "found", "cancel"},
                                 xid : 0 .. MaxXid,
                                 stat : {0} \cup SessionStat]]
        /\ \A d \in Client : recv'[d].pc # "listening" =>
             recv'[d].xid \in Xid /\ recv'[d].stat \in SessionStat
    BY <1>3, SessionAssumption DEF Answer, Listening, TypeInv, TypeOK, PlaceOK
  <2>7. UNCHANGED <<lastXid, request, at, outcome, faults, netVars, serverVars>>
    BY <1>3 DEF Answer
  <2>8. QED BY <2>2, <2>3, <2>4, <2>5, <2>6, <2>7 DEF TypeInv, TypeOK, PlaceOK
<1>4. QED BY <1>1, <1>2, <1>3

LEMMA IoFailedTypeInv ==
  ASSUME TypeInv, NEW c \in Client, NEW x \in Xid, IoFailed(c, x)
  PROVE  TypeInv'
<1>1. <<c, x>> \in Call /\ SessionIoFailed \in SessionStat
  BY DEF Call, SessionIoFailed, SessionStat
<1>2. answers' \in [Call -> Seq(SessionStat)]
  <2>1. CASE Have(c, x)
    BY <1>1, <2>1, AppendedAnswer
       DEF IoFailed, IoFailedLate, IoFailedUnnoticed, IoFailedCrashes
  <2>2. CASE ~Have(c, x)
    BY <2>2 DEF IoFailed, IoFailedLate, IoFailedUnnoticed, IoFailedCrashes,
       TypeInv, TypeOK
  <2>3. QED BY <2>1, <2>2
<1>3. missions' \in [Client -> SUBSET Xid]
  BY DEF IoFailed, IoFailedLate, IoFailedUnnoticed, IoFailedCrashes, Erases,
     TypeInv, TypeOK
<1>4. down' \subseteq Client
  BY DEF IoFailed, IoFailedLate, IoFailedUnnoticed, IoFailedCrashes, Crash,
     TypeInv, TypeOK
<1>5. faults' \in 0 .. MaxFaults /\ reported' \subseteq Call
  <2>1. faults \in 0 .. MaxFaults /\ faults < MaxFaults /\ faults' = faults + 1
    BY DEF IoFailed, Fault, TypeInv, TypeOK
  <2>2. reported' = reported \cup {<<c, x>>} /\ reported \subseteq Call
    BY DEF IoFailed, TypeInv, TypeOK
  <2>3. QED BY <1>1, <2>1, <2>2, SessionAssumption
<1>6. UNCHANGED <<lastXid, request, at, recv, timer, outcome, sent, replies,
                  serverVars>>
  BY DEF IoFailed
<1>7. QED
  BY <1>2, <1>3, <1>4, <1>5, <1>6 DEF TypeInv, TypeOK, PlaceOK, serverVars

LEMMA TimerTypeInv ==
  ASSUME TypeInv, NEW c \in Client, NEW x \in Xid,
         Fire(c, x) \/ RpcTimeout(c, x) \/ ReleaseOnExit(c, x)
  PROVE  TypeInv' /\ UNCHANGED answers
<1> USE DEF TypeInv, TypeOK, PlaceOK, netVars, serverVars
<1>1. <<c, x>> \in Call
  BY DEF Call
<1>2. CASE Fire(c, x)
  BY <1>1, <1>2 DEF Fire
<1>3. CASE RpcTimeout(c, x)
  BY <1>1, <1>3 DEF RpcTimeout, TimeoutHave
<1>4. CASE ReleaseOnExit(c, x)
  <2>1. down' \subseteq Client
    BY <1>4 DEF ReleaseOnExit, Undefined
  <2>2. QED BY <1>1, <1>4, <2>1 DEF ReleaseOnExit
<1>5. QED BY <1>2, <1>3, <1>4

LEMMA ProcessRequestTypeInv ==
  ASSUME TypeInv, NEW c \in Client, NEW x \in Xid, ProcessRequest(c, x)
  PROVE  TypeInv'
<1> DEFINE id == <<c, x>>
<1>1. id \in Call
  BY DEF Call
<1>2. replies' \subseteq Accepted \cup Denied /\ jobs' \subseteq Call
      /\ alive' \in BOOLEAN
  <2>0. /\ replies \subseteq Accepted \cup Denied
        /\ jobs \subseteq Call /\ alive \in BOOLEAN
    BY DEF TypeInv, TypeOK
  <2>1. CASE CheckVersion(id) \/ CheckUser(id)
    <3>1. PICK n \in 0 .. 1 :
            replies' = replies \cup
              {[id |-> id, what |-> "denied", stat |-> n]}
      BY <2>1 DEF CheckVersion, CheckUser, Replies
    <3>2. jobs' = jobs /\ alive' = alive
      BY <2>1 DEF CheckVersion, CheckUser
    <3> HIDE DEF id
    <3>3. [id |-> id, what |-> "denied", stat |-> n] \in Denied
      BY <1>1 DEF Denied
    <3>4. QED BY <2>0, <3>1, <3>2, <3>3
  <2>2. CASE NoStub(id)
    <3>1. /\ jobs' = jobs /\ alive' = alive
          /\ replies' = replies \cup
              {[id |-> id, what |-> "accepted", stat |-> ProcMismatch]}
      BY <2>2 DEF NoStub, Find, Replies
    <3> HIDE DEF id
    <3>2. [id |-> id, what |-> "accepted", stat |-> ProcMismatch] \in Accepted
      BY <1>1 DEF Accepted, ProcMismatch
    <3>3. QED BY <2>0, <3>1, <3>2
  <2>3. CASE Schedule(id)
    BY <1>1, <2>0, <2>3 DEF Schedule, Has
  <2>4. QED BY <2>1, <2>2, <2>3 DEF ProcessRequest, CheckStub
<1>3. SetXid(c, x) /\ UNCHANGED <<ran, sent, reported, clientVars>>
  BY DEF ProcessRequest
<1>4. bits' \in [Client -> Nat] /\ seen' \in [Client -> SUBSET Xid]
  <2>1. bits \in [Client -> Nat] /\ seen \in [Client -> SUBSET Xid]
    BY DEF TypeInv, TypeOK
  <2>2. Grown(bits[c]) \in Nat
    BY <2>1, GrownIsNat
  <2>3. \E n \in Nat : bits' = [bits EXCEPT ![c] = n]
    BY <1>3, <2>1, <2>2 DEF SetXid
  <2>4. seen' = seen \/ seen' = [seen EXCEPT ![c] = @ \cup {x}]
    BY <1>3, <2>1 DEF SetXid
  <2>5. QED BY <2>1, <2>3, <2>4
<1>5. QED
  BY <1>2, <1>3, <1>4 DEF TypeInv, TypeOK, PlaceOK, clientVars

(* How a job may end: what the procedure came to, and what is replied.     *)
Endings == {"returned", "raised", "unsent"}

LEMMA JobEnds ==
  ASSUME TypeInv, NEW c \in Client, NEW x \in Xid,
         CallStub(<<c, x>>) \/ ReplyThrows(<<c, x>>)
  PROVE  /\ \E how \in Endings, stat \in {0, 5, 6} :
              /\ EndsJob(<<c, x>>, how)
              /\ Replies(<<c, x>>, "accepted", stat)
              /\ <<how>> \in ToldAs(stat + 3)
         /\ UNCHANGED <<lastXid, missions, request, at, recv, timer, answers,
                        outcome, down, sent>>
         /\ jobs' \subseteq jobs
         /\ faults' \in 0 .. MaxFaults
<1> DEFINE id == <<c, x>>
           kind == request[id].kind
<1>1. Stat(kind) \in {0, 5, 6}
  BY DEF Stat
<1>2. CASE CallStub(id)
  <2>1. UNCHANGED <<lastXid, missions, request, at, recv, timer, answers,
                    outcome, down>> /\ faults' \in 0 .. MaxFaults
    BY <1>2 DEF CallStub, clientVars, TypeInv, TypeOK
  <2> DEFINE how == IF Stat(kind) = 0 THEN "returned" ELSE "raised"
  <2>2. EndsJob(id, how) /\ Replies(id, "accepted", Stat(kind))
    BY <1>2 DEF CallStub
  <2>3. how \in Endings /\ <<how>> \in ToldAs(Stat(kind) + 3)
    BY <1>1 DEF ToldAs, SessionSuccess, Endings
  <2> HIDE DEF how, kind
  <2>4. jobs' \subseteq jobs /\ sent' = sent
    BY <2>2 DEF EndsJob
  <2>5. QED BY <1>1, <2>1, <2>2, <2>3, <2>4
<1>3. CASE ReplyThrows(id)
  <2>1. UNCHANGED <<lastXid, missions, request, at, recv, timer, answers,
                    outcome, down>>
    BY <1>3 DEF ReplyThrows
  <2>2. faults' \in 0 .. MaxFaults
    BY <1>3, SessionAssumption DEF ReplyThrows, Fault, TypeInv, TypeOK
  <2> DEFINE how == IF Stat(kind) = 0 THEN "unsent" ELSE "raised"
             stat == IF Stat(kind) = 0 THEN 5 ELSE 6
  <2>3. EndsJob(id, how) /\ Replies(id, "accepted", stat)
    BY <1>3 DEF ReplyThrows
  <2>4. how \in Endings /\ stat \in {0, 5, 6} /\ <<how>> \in ToldAs(stat + 3)
    BY DEF ToldAs, SessionSuccess, Endings
  <2> HIDE DEF how, stat, kind
  <2>5. jobs' \subseteq jobs /\ sent' = sent
    BY <2>3 DEF EndsJob
  <2>6. QED BY <2>1, <2>2, <2>3, <2>4, <2>5
<1>4. QED BY <1>2, <1>3

LEMMA JobEndsTypeInv ==
  ASSUME TypeInv, NEW c \in Client, NEW x \in Xid,
         CallStub(<<c, x>>) \/ ReplyThrows(<<c, x>>)
  PROVE  TypeInv'
<1> DEFINE id == <<c, x>>
<1>1. id \in Call
  BY DEF Call
<1>2. PICK how \in Endings, stat \in {0, 5, 6} :
        EndsJob(id, how) /\ Replies(id, "accepted", stat)
  BY JobEnds
<1> HIDE DEF id
<1>3. replies' \subseteq Accepted \cup Denied
  <2>1. [id |-> id, what |-> "accepted", stat |-> stat] \in Accepted
    BY <1>1 DEF Accepted
  <2>2. QED BY <1>2, <2>1 DEF Replies, TypeInv, TypeOK
<1>4. ran' \in [Call -> Seq(Endings)]
  <2>1. ran \in [Call -> Seq(Endings)]
    BY DEF TypeInv, TypeOK, Endings
  <2>2. Append(ran[id], how) \in Seq(Endings)
    BY <1>1, <2>1
  <2>3. QED BY <1>2, <2>1, <2>2 DEF EndsJob
<1>5. jobs' \subseteq Call /\ UNCHANGED <<alive, bits, seen, sent, reported>>
  BY <1>2 DEF EndsJob, TypeInv, TypeOK
<1>6. /\ UNCHANGED <<lastXid, missions, request, at, recv, timer, answers,
                     outcome, down>>
      /\ faults' \in 0 .. MaxFaults
  BY JobEnds
<1>7. QED BY <1>3, <1>4, <1>5, <1>6 DEF TypeInv, TypeOK, PlaceOK, Endings

LEMMA NextTypeInv == TypeInv /\ [Next]_vars => TypeInv'
<1> SUFFICES ASSUME TypeInv, [Next]_vars PROVE TypeInv'
  OBVIOUS
<1>1. ASSUME NEW t \in Thread, ThreadNext(t) PROVE TypeInv'
  BY <1>1, ThreadTypeInv
<1>2. ASSUME NEW c \in Client, RecvReply(c) \/ FindAgain(c) \/ Answer(c)
      PROVE  TypeInv'
  BY <1>2, ReceiverTypeInv
<1>3. ASSUME NEW c \in Client, NEW x \in Xid, CallNext(c, x) PROVE TypeInv'
  BY <1>3, IoFailedTypeInv, TimerTypeInv, ProcessRequestTypeInv, JobEndsTypeInv
     DEF CallNext
<1>4. CASE UNCHANGED vars
  BY <1>4 DEF vars, clientVars, netVars, serverVars, TypeInv, TypeOK, PlaceOK
<1>5. QED BY <1>1, <1>2, <1>3, <1>4 DEF Next

(* The state of client, transport and server keeps its types: no xid, no   *)
(* session_stat and no reply outside the ranges of the code's enums.       *)
THEOREM SessionTypeCorrect == Spec => []TypeOK
<1>1. TypeInv => TypeOK
  BY DEF TypeInv
<1>2. QED BY InitTypeInv, NextTypeInv, <1>1, PTL DEF Spec

-----------------------------------------------------------------------------
(* A call is made once.                                                    *)

FreshInv ==
  \A c \in Client, x \in Xid : x > lastXid[c] => request[<<c, x>>] = None

LEMMA InitFreshInv == Init => FreshInv
BY DEF Init, FreshInv, Call

LEMMA FreshStep ==
  ASSUME TypeInv, FreshInv, [Next]_vars
  PROVE  /\ FreshInv'
         /\ \A id \in Call : request[id] # None => request'[id] = request[id]
<1> DEFINE Kept == UNCHANGED <<lastXid, request>>
<1>1. CASE Kept
  BY <1>1 DEF FreshInv
<1>2. ASSUME NEW t \in Thread, NEW style \in Style, NEW timed \in Timed,
             NEW kind \in Kind, NEW trunk \in FreshPointer,
             NEW handle \in FreshPointer,
             AllocXid(t, style, timed, kind, trunk, handle)
      PROVE  /\ FreshInv'
             /\ \A id \in Call : request[id] # None => request'[id] = request[id]
  <2> DEFINE c == Home[t]
             x == lastXid[c] + 1
  <2>1. PICK r \in Request : request' = [request EXCEPT ![<<c, x>>] = r]
    BY <1>2, AllocTypeInv
  <2>2. c \in Client /\ x \in Xid /\ lastXid' = [lastXid EXCEPT ![c] = x]
    BY <1>2, SessionAssumption DEF AllocXid
  <2>3. /\ lastXid \in [Client -> 0 .. MaxXid]
        /\ request \in [Call -> Request \cup {None}]
    BY DEF TypeInv, TypeOK
  <2>4. /\ \A d \in Client : d # c => lastXid'[d] = lastXid[d]
        /\ lastXid'[c] = lastXid[c] + 1
    BY <2>2, <2>3
  <2>5. lastXid[c] \in Nat
    BY <2>2, <2>3
  <2>6. request[<<c, x>>] = None
    BY <2>2, <2>5 DEF FreshInv
  <2>7. \A d \in Client, y \in Xid : <<d, y>> # <<c, x>> =>
          request'[<<d, y>>] = request[<<d, y>>]
    BY <2>1, <2>3 DEF Call
  <2>8. ASSUME NEW d \in Client, NEW y \in Xid, y > lastXid'[d]
        PROVE  request'[<<d, y>>] = None
    <3>1. y \in Nat
      BY DEF Xid
    <3>2. y > lastXid[d] /\ <<d, y>> # <<c, x>>
      BY <2>4, <2>5, <2>8, <3>1
    <3>3. QED BY <2>7, <3>2 DEF FreshInv
  <2>9. FreshInv'
    BY <2>8 DEF FreshInv
  <2>10. ASSUME NEW id \in Call, request[id] # None
         PROVE  request'[id] = request[id]
    BY <2>1, <2>3, <2>6, <2>10
  <2>11. QED BY <2>9, <2>10
<1>3. ASSUME NEW t \in Thread, ThreadNext(t)
      PROVE  \/ Kept
             \/ \E style \in Style, timed \in Timed, kind \in Kind,
                  trunk, handle \in FreshPointer :
                    AllocXid(t, style, timed, kind, trunk, handle)
  BY <1>3 DEF ThreadNext, SetTimer, SetTimerFails, Send, Wakes, TimesOut,
     ChecksMission
<1>4. ASSUME NEW c \in Client, RecvReply(c) \/ FindAgain(c) \/ Answer(c)
      PROVE  Kept
  BY <1>4 DEF RecvReply, FindAgain, Answer
<1>5. ASSUME NEW c \in Client, NEW x \in Xid, CallNext(c, x) PROVE Kept
  BY <1>5, JobEnds DEF CallNext, IoFailed, Fire, RpcTimeout, ReleaseOnExit,
     ProcessRequest, clientVars
<1>6. CASE UNCHANGED vars
  BY <1>1, <1>6 DEF vars, clientVars
<1>7. QED BY <1>1, <1>2, <1>3, <1>4, <1>5, <1>6 DEF Next

-----------------------------------------------------------------------------
(* The server: what it has decided about a request stays decided.          *)

(* The server refuses the request, whenever it meets it.                   *)
Refused(id) == request[id].kind \in {"other_version", "stranger", "no_procedure"}

(* The server has taken the request or refuses it, it does not run (any    *)
(* more), and what happened to it is what stat says.                       *)
Settled(c, x, stat) ==
  /\ x \in seen[c] \/ Refused(<<c, x>>)
  /\ <<c, x>> \notin jobs
  /\ ran[<<c, x>>] \in ToldAs(stat)

ServerInv ==
  /\ \A c \in Client, x \in Xid : x \notin seen[c] => ran[<<c, x>>] = <<>>
  /\ \A c \in Client, x \in Xid :
       <<c, x>> \in jobs => x \in seen[c] /\ ran[<<c, x>>] = <<>>
  /\ \A id \in Call : Len(ran[id]) <= 1
  /\ \A r \in replies : \A c \in Client, x \in Xid :
       r.id = <<c, x>> => Settled(c, x, ToSessionStat(r))

LEMMA InitServerInv == Init => ServerInv
BY DEF Init, ServerInv, Call

LEMMA ProcessRequestServerInv ==
  ASSUME TypeInv, ServerInv, NEW c \in Client, NEW x \in Xid,
         ProcessRequest(c, x)
  PROVE  /\ ServerInv'
         /\ \A d \in Client, y \in Xid, stat \in SessionStat :
              Settled(d, y, stat) => Settled(d, y, stat)'
<1>1. <<c, x>> \in Call /\ x \notin seen[c] /\ ran[<<c, x>>] = <<>>
      /\ <<c, x>> \notin jobs
  BY DEF Call, ProcessRequest, AlreadySeen, ServerInv
<1>2. ran' = ran /\ SetXid(c, x) /\ request' = request
  BY DEF ProcessRequest, clientVars
<1>3. /\ seen \in [Client -> SUBSET Xid]
      /\ jobs \subseteq Call
      /\ replies \subseteq Accepted \cup Denied
  BY DEF TypeInv, TypeOK
<1>4. /\ \A d \in Client, y \in Xid : y \in seen[d] => y \in seen'[d]
      /\ Has(c, x)' => x \in seen'[c]
  BY <1>2, <1>3 DEF SetXid
<1> DEFINE Scheduled == /\ jobs' = jobs \cup {<<c, x>>} /\ Has(c, x)'
                        /\ ~Refused(<<c, x>>)
           Refuses == /\ jobs' = jobs /\ Refused(<<c, x>>)
                      /\ \E r \in Accepted \cup Denied :
                           /\ replies' = replies \cup {r}
                           /\ r.id = <<c, x>>
                           /\ ToldAs(ToSessionStat(r)) = {<<>>}
<1>5. \/ Scheduled /\ replies' = replies
      \/ jobs' = jobs /\ replies' = replies
      \/ Refuses
  <2>1. CASE CheckVersion(<<c, x>>) \/ CheckUser(<<c, x>>)
    <3>1. PICK n \in 0 .. 1 :
            replies' = replies \cup
              {[id |-> <<c, x>>, what |-> "denied", stat |-> n]}
      BY <2>1 DEF CheckVersion, CheckUser, Replies
    <3>2. jobs' = jobs /\ Refused(<<c, x>>)
      BY <2>1 DEF CheckVersion, CheckUser, Refused
    <3> DEFINE r == [id |-> <<c, x>>, what |-> "denied", stat |-> n]
    <3>3. r \in Denied
      BY <1>1 DEF Denied
    <3>4. ToldAs(ToSessionStat(r)) = {<<>>}
      BY DEF ToldAs, ToSessionStat, SessionSuccess, SessionRpcMismatch
    <3>5. r.id = <<c, x>>
      OBVIOUS
    <3>6. replies' = replies \cup {r}
      BY <3>1
    <3> HIDE DEF r
    <3>7. QED BY <3>2, <3>3, <3>4, <3>5, <3>6
  <2>2. CASE NoStub(<<c, x>>) /\ CheckStub(<<c, x>>)
    <3> DEFINE r == [id |-> <<c, x>>, what |-> "accepted", stat |-> ProcMismatch]
    <3>1. replies' = replies \cup {r} /\ jobs' = jobs /\ Refused(<<c, x>>)
      BY <2>2 DEF NoStub, Find, Replies, Refused
    <3>2. r \in Accepted
      BY <1>1 DEF Accepted, ProcMismatch
    <3>3. ToldAs(ToSessionStat(r)) = {<<>>}
      BY DEF ToldAs, ToSessionStat, SessionSuccess, ProcMismatch
    <3>4. r.id = <<c, x>>
      OBVIOUS
    <3> HIDE DEF r
    <3>5. QED BY <3>1, <3>2, <3>3, <3>4
  <2>3. CASE Schedule(<<c, x>>) /\ CheckStub(<<c, x>>)
    <3>1. ~Refused(<<c, x>>)
      BY <2>3 DEF CheckStub, Schedule, Find, FindSuccess, ProcMismatch, Refused
    <3>2. \/ Has(c, x)' /\ jobs' = jobs \cup {<<c, x>>}
          \/ jobs' = jobs
      BY <2>3 DEF Schedule
    <3>3. QED BY <2>3, <3>1, <3>2 DEF Schedule
  <2>4. QED BY <2>1, <2>2, <2>3 DEF ProcessRequest, CheckStub
<1>6. \A d \in Client, y \in Xid, stat \in SessionStat :
        Settled(d, y, stat) => Settled(d, y, stat)'
  BY <1>1, <1>2, <1>4, <1>5 DEF Settled, Refused
<1>7. \A r \in replies' : \A d \in Client, y \in Xid :
        r.id = <<d, y>> => Settled(d, y, ToSessionStat(r))'
  <2> SUFFICES ASSUME NEW r \in replies', NEW d \in Client, NEW y \in Xid,
                      r.id = <<d, y>>
               PROVE  Settled(d, y, ToSessionStat(r))'
    OBVIOUS
  <2>1. CASE r \in replies
    <3>1. Settled(d, y, ToSessionStat(r)) /\ ToSessionStat(r) \in SessionStat
      BY <1>3, <2>1, SessionStats DEF ServerInv
    <3>2. QED BY <1>6, <3>1
  <2>2. CASE r \notin replies
    <3>1. /\ r.id = <<c, x>>
          /\ ToldAs(ToSessionStat(r)) = {<<>>}
          /\ jobs' = jobs
          /\ Refused(<<c, x>>)
      BY <1>5, <2>2
    <3>2. d = c /\ y = x
      BY <2>2, <3>1
    <3>3. Refused(<<d, y>>)' /\ <<d, y>> \notin jobs' /\ ran'[<<d, y>>] = <<>>
      BY <1>1, <1>2, <3>1, <3>2 DEF Refused
    <3>4. QED BY <3>1, <3>3 DEF Settled
  <2>3. QED BY <2>1, <2>2
<1>8. \A d \in Client, y \in Xid :
        <<d, y>> \in jobs' => y \in seen'[d] /\ ran'[<<d, y>>] = <<>>
  BY <1>1, <1>2, <1>4, <1>5 DEF ServerInv
<1>9. QED BY <1>2, <1>4, <1>6, <1>7, <1>8 DEF ServerInv

LEMMA JobEndsServerInv ==
  ASSUME TypeInv, ServerInv, NEW c \in Client, NEW x \in Xid,
         CallStub(<<c, x>>) \/ ReplyThrows(<<c, x>>)
  PROVE  /\ ServerInv'
         /\ \A d \in Client, y \in Xid, stat \in SessionStat :
              Settled(d, y, stat) => Settled(d, y, stat)'
         /\ ran[<<c, x>>] = <<>>
         /\ \E end \in Endings : ran' = [ran EXCEPT ![<<c, x>>] = <<end>>]
<1>0. PICK end \in Endings, stat0 \in {0, 5, 6} :
        /\ EndsJob(<<c, x>>, end)
        /\ Replies(<<c, x>>, "accepted", stat0)
        /\ <<end>> \in ToldAs(stat0 + 3)
  BY JobEnds
<1> DEFINE id == <<c, x>>
           r == [id |-> id, what |-> "accepted", stat |-> stat0]
<1>1. id \in Call /\ id \in jobs /\ x \in seen[c] /\ ran[id] = <<>>
  BY <1>0 DEF Call, EndsJob, ServerInv
<1>2. jobs' = jobs \ {id} /\ seen' = seen /\ replies' = replies \cup {r}
      /\ request' = request
  BY <1>0, JobEnds DEF EndsJob, Replies
<1>5. ran' = [ran EXCEPT ![id] = Append(@, end)]
  BY <1>0 DEF EndsJob
<1>6. <<end>> \in ToldAs(ToSessionStat(r)) /\ r \in Accepted /\ r.id = id
  <2> HIDE DEF id
  <2>1. id \in Call
    BY <1>1
  <2>2. ToSessionStat(r) = stat0 + 3
    BY DEF ToSessionStat, SessionSuccess
  <2>3. r \in Accepted /\ r.id = id
    BY <2>1 DEF Accepted
  <2> HIDE DEF r
  <2>4. QED BY <1>0, <2>2, <2>3
<1> HIDE DEF r
<1>7. /\ ran \in [Call -> Seq(Endings)]
      /\ jobs \subseteq Call
      /\ replies \subseteq Accepted \cup Denied
  BY DEF TypeInv, TypeOK, Endings
<1>8. ran' = [ran EXCEPT ![id] = <<end>>]
  <2>1. Append(ran[id], end) = <<end>>
    BY <1>1
  <2>2. QED BY <1>5, <1>7, <2>1
<1>9. \A d \in Client, y \in Xid : <<d, y>> # id =>
        ran'[<<d, y>>] = ran[<<d, y>>]
  BY <1>7, <1>8 DEF Call
<1>10. ran'[id] = <<end>>
  BY <1>1, <1>7, <1>8
<1>11. \A d \in Client, y \in Xid, stat \in SessionStat :
        Settled(d, y, stat) => Settled(d, y, stat)'
  <2> SUFFICES ASSUME NEW d \in Client, NEW y \in Xid, NEW stat \in SessionStat,
                      Settled(d, y, stat)
               PROVE  Settled(d, y, stat)'
    OBVIOUS
  <2>1. <<d, y>> # id
    BY <1>1 DEF Settled
  <2>2. ran'[<<d, y>>] = ran[<<d, y>>]
    BY <1>9, <2>1
  <2>3. QED BY <1>2, <2>2 DEF Settled, Refused
<1>12. \A s \in replies' : \A d \in Client, y \in Xid :
        s.id = <<d, y>> => Settled(d, y, ToSessionStat(s))'
  <2> SUFFICES ASSUME NEW s \in replies', NEW d \in Client, NEW y \in Xid,
                      s.id = <<d, y>>
               PROVE  Settled(d, y, ToSessionStat(s))'
    OBVIOUS
  <2>1. CASE s \in replies
    <3>1. Settled(d, y, ToSessionStat(s)) /\ ToSessionStat(s) \in SessionStat
      BY <1>7, <2>1, SessionStats DEF ServerInv
    <3>2. QED BY <1>11, <3>1
  <2>2. CASE s = r
    <3>1. d = c /\ y = x
      BY <1>6, <2>2
    <3>2. QED BY <1>1, <1>2, <1>6, <1>10, <2>2, <3>1 DEF Settled
  <2>3. QED BY <1>2, <2>1, <2>2
<1>13. \A other \in Call : Len(ran'[other]) <= 1
  <2>1. Len(<<end>>) = 1
    OBVIOUS
  <2>2. QED BY <1>7, <1>8, <1>10, <2>1 DEF ServerInv
<1>14. \A d \in Client, y \in Xid :
        <<d, y>> \in jobs' => y \in seen'[d] /\ ran'[<<d, y>>] = <<>>
  BY <1>2, <1>9 DEF ServerInv
<1>15. \A d \in Client, y \in Xid : y \notin seen'[d] => ran'[<<d, y>>] = <<>>
  BY <1>1, <1>2, <1>9 DEF ServerInv
<1>16. QED
  BY <1>1, <1>8, <1>11, <1>12, <1>13, <1>14, <1>15 DEF ServerInv

(* Nothing but the server's own steps touches what it has decided.         *)
LEMMA OtherServerInv ==
  ASSUME TypeInv, ServerInv, UNCHANGED <<seen, ran, jobs, replies>>,
         \A id \in Call : request[id] # None => request'[id] = request[id]
  PROVE  /\ ServerInv'
         /\ \A c \in Client, x \in Xid, stat \in SessionStat :
              Settled(c, x, stat) => Settled(c, x, stat)'
<1>1. \A c \in Client, x \in Xid : Refused(<<c, x>>) => Refused(<<c, x>>)'
  BY DEF Refused, None, Call
<1>3. \A c \in Client, x \in Xid, stat \in SessionStat :
        Settled(c, x, stat) => Settled(c, x, stat)'
  BY <1>1 DEF Settled
<1>4. \A r \in replies : ToSessionStat(r) \in SessionStat
  BY SessionStats DEF TypeInv, TypeOK
<1>5. \A r \in replies' : \A c \in Client, x \in Xid :
        r.id = <<c, x>> => Settled(c, x, ToSessionStat(r))'
  BY <1>3, <1>4 DEF ServerInv
<1>6. QED BY <1>3, <1>5 DEF ServerInv

LEMMA NextServerInv ==
  ASSUME TypeInv, FreshInv, ServerInv, [Next]_vars
  PROVE  /\ ServerInv'
         /\ \A c \in Client, x \in Xid, stat \in SessionStat :
              Settled(c, x, stat) => Settled(c, x, stat)'
<1> DEFINE Goal ==
      /\ ServerInv'
      /\ \A c \in Client, x \in Xid, stat \in SessionStat :
           Settled(c, x, stat) => Settled(c, x, stat)'
           Kept == UNCHANGED <<seen, ran, jobs, replies>>
<1>0. ASSUME Kept PROVE Goal
  BY <1>0, FreshStep, OtherServerInv
<1>1. ASSUME NEW t \in Thread, ThreadNext(t) PROVE Goal
  <2>1. Kept
    BY <1>1 DEF ThreadNext, AllocXid, SetTimer, SetTimerFails, Send, Wakes,
       TimesOut, ChecksMission, netVars, serverVars
  <2>2. QED BY <1>0, <2>1
<1>2. ASSUME NEW c \in Client, RecvReply(c) \/ FindAgain(c) \/ Answer(c)
      PROVE  Goal
  <2>1. Kept
    BY <1>2 DEF RecvReply, FindAgain, Answer, netVars, serverVars
  <2>2. QED BY <1>0, <2>1
<1>3. ASSUME NEW c \in Client, NEW x \in Xid, CallNext(c, x) PROVE Goal
  <2>1. CASE IoFailed(c, x) \/ Fire(c, x) \/ RpcTimeout(c, x)
             \/ ReleaseOnExit(c, x)
    <3>1. Kept
      BY <2>1 DEF IoFailed, Fire, RpcTimeout, ReleaseOnExit, netVars, serverVars
    <3>2. QED BY <1>0, <3>1
  <2>2. CASE ProcessRequest(c, x)
    BY <2>2, ProcessRequestServerInv
  <2>3. CASE CallStub(<<c, x>>) \/ ReplyThrows(<<c, x>>)
    BY <2>3, JobEndsServerInv
  <2>4. QED BY <1>3, <2>1, <2>2, <2>3 DEF CallNext
<1>4. CASE UNCHANGED vars
  <2>1. Kept
    BY <1>4 DEF vars, netVars, serverVars
  <2>2. QED BY <1>0, <2>1
<1>5. QED BY <1>1, <1>2, <1>3, <1>4 DEF Next

(* A request runs at most once, for any number of processes and calls and  *)
(* however often the transport brings it.                                  *)
THEOREM RunsOnce == Spec => []RunsAtMostOnce
<1> DEFINE I == TypeInv /\ FreshInv /\ ServerInv
<1>1. I /\ [Next]_vars => I'
  BY NextTypeInv, FreshStep, NextServerInv
<1>2. Init => I
  BY InitTypeInv, InitFreshInv, InitServerInv
<1>3. I => RunsAtMostOnce
  BY DEF ServerInv, RunsAtMostOnce
<1>4. QED BY <1>1, <1>2, <1>3, PTL DEF Spec

-----------------------------------------------------------------------------
(* The client: a mission is a callback that has not been called.           *)

ClientInv ==
  /\ \A c \in Client, x \in Xid : request[<<c, x>>] = None =>
       x \notin missions[c] /\ answers[<<c, x>>] = <<>>
  /\ \A c \in Client, x \in Xid : x \in missions[c] /\ Running(c) =>
       answers[<<c, x>>] = <<>>
  /\ \A c \in Client : recv[c].pc = "cancel" => recv[c].xid \in missions[c]
  /\ \A c \in Client, x \in Xid, stat \in SessionStat :
       recv[c].pc # "listening" /\ recv[c].xid = x /\ recv[c].stat = stat
       => Settled(c, x, stat)
  /\ \A id \in Call : Len(answers[id]) <= 1
  /\ \A c \in Client, x \in Xid, stat \in SessionStat :
       answers[<<c, x>>] = <<stat>> /\ stat > SessionTimeout
       => Settled(c, x, stat)

Inv == TypeInv /\ FreshInv /\ ServerInv /\ ClientInv

LEMMA InitClientInv == Init => ClientInv
<1> SUFFICES ASSUME Init PROVE ClientInv
  OBVIOUS
<1>1. \A c \in Client, x \in Xid :
        request[<<c, x>>] = None /\ answers[<<c, x>>] = <<>>
  BY DEF Init, Call
<1>2. \A c \in Client : recv[c].pc = "listening" /\ missions[c] = {}
  BY DEF Init, Listening
<1>3. \A id \in Call : Len(answers[id]) = 0
  BY DEF Init
<1>4. QED
  BY <1>1, <1>2, <1>3 DEF ClientInv

(* A step that touches neither missions nor answers, and starts no call.   *)
LEMMA OtherClientInv ==
  ASSUME Inv, [Next]_vars,
         UNCHANGED <<lastXid, missions, request, recv, answers>>,
         down \subseteq down'
  PROVE  ClientInv'
<1>1. \A c \in Client, x \in Xid, stat \in SessionStat :
        Settled(c, x, stat) => Settled(c, x, stat)'
  BY NextServerInv DEF Inv
<1>2. \A c \in Client : Running(c)' => Running(c)
  BY DEF Running
<1>3. QED BY <1>1, <1>2 DEF Inv, ClientInv

(* A callback is called for a mission that waits, whose process runs.      *)
LEMMA CalledClientInv ==
  ASSUME Inv, [Next]_vars, NEW c \in Client, NEW x \in Xid,
         NEW stat \in SessionStat,
         x \in missions[c], Running(c),
         stat > SessionTimeout => Settled(c, x, stat),
         Calls(<<c, x>>, stat),
         \/ Erases(c, x)
         \/ missions' = missions /\ ~Running(c)',
         down \subseteq down',
         UNCHANGED <<lastXid, request>>,
         \/ recv' = recv /\ ~Locked(c)
         \/ recv' = [recv EXCEPT ![c] = Listening]
  PROVE  /\ ClientInv'
         /\ answers' = [answers EXCEPT ![<<c, x>>] = <<stat>>]
         /\ answers[<<c, x>>] = <<>>
         /\ request[<<c, x>>] # None
<1>1. \A d \in Client, y \in Xid, s \in SessionStat :
        Settled(d, y, s) => Settled(d, y, s)'
  BY NextServerInv DEF Inv
<1>2. /\ answers \in [Call -> Seq(SessionStat)]
      /\ missions \in [Client -> SUBSET Xid]
      /\ recv \in [Client -> [pc : {"listening", "found", "cancel"},
                              xid : 0 .. MaxXid, stat : {0} \cup SessionStat]]
      /\ <<c, x>> \in Call
  BY DEF Inv, TypeInv, TypeOK, Call
<1>3. answers[<<c, x>>] = <<>> /\ request[<<c, x>>] # None
  BY DEF Inv, ClientInv
<1>4. answers' = [answers EXCEPT ![<<c, x>>] = <<stat>>]
  <2>1. Append(answers[<<c, x>>], stat) = <<stat>>
    BY <1>3
  <2>2. QED BY <1>2, <2>1 DEF Calls
<1>5. /\ answers'[<<c, x>>] = <<stat>>
      /\ \A d \in Client, y \in Xid : <<d, y>> # <<c, x>> =>
           answers'[<<d, y>>] = answers[<<d, y>>]
      /\ \A id \in Call : id # <<c, x>> => answers'[id] = answers[id]
  BY <1>2, <1>4 DEF Call
<1>6. \A d \in Client, y \in Xid :
        /\ y \in missions'[d] => y \in missions[d]
        /\ y \in missions'[d] /\ Running(d)' => <<d, y>> # <<c, x>>
  <2>1. CASE Erases(c, x)
    BY <1>2, <2>1 DEF Erases
  <2>2. CASE missions' = missions /\ ~Running(c)'
    BY <2>2
  <2>3. QED BY <2>1, <2>2
<1>7. \A d \in Client : d # c =>
        missions'[d] = missions[d] /\ recv'[d] = recv[d]
  <2>1. \A d \in Client : d # c => missions'[d] = missions[d]
    BY <1>2 DEF Erases
  <2>2. \A d \in Client : d # c => recv'[d] = recv[d]
    BY <1>2
  <2>3. QED BY <2>1, <2>2
<1>8. \A d \in Client, y \in Xid : request'[<<d, y>>] = None =>
        y \notin missions'[d] /\ answers'[<<d, y>>] = <<>>
  <2> SUFFICES ASSUME NEW d \in Client, NEW y \in Xid,
                      request[<<d, y>>] = None
               PROVE  y \notin missions'[d] /\ answers'[<<d, y>>] = <<>>
    OBVIOUS
  <2>1. y \notin missions[d] /\ answers[<<d, y>>] = <<>>
    BY DEF Inv, ClientInv
  <2>2. <<d, y>> # <<c, x>>
    BY <1>3
  <2>3. QED BY <1>5, <1>6, <2>1, <2>2
<1>9. \A d \in Client, y \in Xid : y \in missions'[d] /\ Running(d)' =>
        answers'[<<d, y>>] = <<>>
  <2> SUFFICES ASSUME NEW d \in Client, NEW y \in Xid,
                      y \in missions'[d], Running(d)'
               PROVE  answers'[<<d, y>>] = <<>>
    OBVIOUS
  <2>1. y \in missions[d] /\ Running(d)
    BY <1>6 DEF Running
  <2>2. answers[<<d, y>>] = <<>>
    BY <2>1 DEF Inv, ClientInv
  <2>3. QED BY <1>5, <1>6, <2>2
<1>10. recv'[c].pc # "cancel"
  BY <1>2 DEF Locked, Listening
<1>11. \A d \in Client : recv'[d].pc = "cancel" => recv'[d].xid \in missions'[d]
  BY <1>7, <1>10 DEF Inv, ClientInv
<1>12. \A d \in Client : recv'[d].pc # "listening" => recv'[d] = recv[d]
  BY <1>2 DEF Listening
<1>13. \A d \in Client, y \in Xid, s \in SessionStat :
         recv'[d].pc # "listening" /\ recv'[d].xid = y /\ recv'[d].stat = s
         => Settled(d, y, s)'
  BY <1>1, <1>12 DEF Inv, ClientInv
<1>14. \A id \in Call : Len(answers'[id]) <= 1
  <2>1. Len(<<stat>>) = 1  OBVIOUS
  <2>2. QED BY <1>5, <2>1 DEF Inv, ClientInv
<1>15. \A d \in Client, y \in Xid, s \in SessionStat :
         answers'[<<d, y>>] = <<s>> /\ s > SessionTimeout => Settled(d, y, s)'
  <2> SUFFICES ASSUME NEW d \in Client, NEW y \in Xid, NEW s \in SessionStat,
                      answers'[<<d, y>>] = <<s>>, s > SessionTimeout
               PROVE  Settled(d, y, s)'
    OBVIOUS
  <2>1. CASE <<d, y>> = <<c, x>>
    <3>1. s = stat /\ d = c /\ y = x
      BY <1>5, <2>1
    <3>2. QED BY <1>1, <3>1
  <2>2. CASE <<d, y>> # <<c, x>>
    <3>1. answers[<<d, y>>] = <<s>>
      BY <1>5, <2>2
    <3>2. QED BY <1>1, <3>1 DEF Inv, ClientInv
  <2>3. QED BY <2>1, <2>2
<1>16. ClientInv'
  BY <1>8, <1>9, <1>11, <1>13, <1>14, <1>15 DEF ClientInv
<1>17. QED BY <1>3, <1>4, <1>16

(* The new call, of a thread that was idle.                                *)
LEMMA AllocClientInv ==
  ASSUME Inv, [Next]_vars,
         NEW t \in Thread, NEW style \in Style, NEW timed \in Timed,
         NEW kind \in Kind, NEW trunk \in FreshPointer,
         NEW handle \in FreshPointer,
         AllocXid(t, style, timed, kind, trunk, handle)
  PROVE  ClientInv'
<1> DEFINE c == Home[t]
           x == lastXid[c] + 1
<1>1. /\ c \in Client /\ x \in Xid /\ <<c, x>> \in Call
      /\ lastXid \in [Client -> 0 .. MaxXid]
      /\ missions \in [Client -> SUBSET Xid]
      /\ request \in [Call -> Request \cup {None}]
  BY AllocTypeInv, SessionAssumption DEF Inv, TypeInv, TypeOK, Call, AllocXid
<1>2. /\ lastXid' = [lastXid EXCEPT ![c] = x]
      /\ missions' = [missions EXCEPT ![c] = @ \cup {x}]
      /\ UNCHANGED <<recv, answers, down>>
  BY DEF AllocXid
<1>3. PICK r \in Request : request' = [request EXCEPT ![<<c, x>>] = r]
  BY AllocTypeInv DEF Inv
<1>4. r # None
  BY <1>3, NoneIsNoRequest
<1> DEFINE n == lastXid[c]
<1>5. n \in Nat /\ x = n + 1
  BY <1>1
<1> HIDE DEF x, c
<1>6. /\ request'[<<c, x>>] = r
      /\ \A d \in Client, y \in Xid : <<d, y>> # <<c, x>> =>
           request'[<<d, y>>] = request[<<d, y>>]
  BY <1>1, <1>3 DEF Call
<1>7. \A d \in Client, y \in Xid :
        y \in missions'[d] <=> y \in missions[d] \/ <<d, y>> = <<c, x>>
  BY <1>1, <1>2
<1>8. answers[<<c, x>>] = <<>>
  <2>1. x > n
    BY <1>5
  <2>2. request[<<c, x>>] = None
    BY <1>1, <2>1 DEF Inv, FreshInv, n
  <2>3. QED BY <1>1, <2>2 DEF Inv, ClientInv
<1>9. \A d \in Client, y \in Xid, stat \in SessionStat :
        Settled(d, y, stat) => Settled(d, y, stat)'
  BY NextServerInv DEF Inv
<1>11. \A d \in Client, y \in Xid : request'[<<d, y>>] = None =>
         y \notin missions'[d] /\ answers'[<<d, y>>] = <<>>
  <2> SUFFICES ASSUME NEW d \in Client, NEW y \in Xid,
                      request'[<<d, y>>] = None
               PROVE  y \notin missions'[d] /\ answers'[<<d, y>>] = <<>>
    OBVIOUS
  <2>1. <<d, y>> # <<c, x>>
    BY <1>4, <1>6
  <2>2. request[<<d, y>>] = None
    BY <1>6, <2>1
  <2>3. QED BY <1>2, <1>7, <2>1, <2>2 DEF Inv, ClientInv
<1>12. \A d \in Client, y \in Xid : y \in missions'[d] /\ Running(d)' =>
         answers'[<<d, y>>] = <<>>
  BY <1>2, <1>7, <1>8 DEF Inv, ClientInv, Running
<1>13. \A d \in Client : recv'[d].pc = "cancel" => recv'[d].xid \in missions'[d]
  BY <1>1, <1>2 DEF Inv, ClientInv
<1>14. QED
  BY <1>2, <1>9, <1>11, <1>12, <1>13 DEF Inv, ClientInv

LEMMA RecvReplyClientInv ==
  ASSUME Inv, [Next]_vars, NEW c \in Client, RecvReply(c)
  PROVE  ClientInv'
<1>1. PICK r \in replies :
        /\ r.id[1] = c
        /\ recv' = [recv EXCEPT ![c] =
             [pc |-> "found", xid |-> r.id[2], stat |-> ToSessionStat(r)]]
  BY DEF RecvReply
<1>2. r.id = <<c, r.id[2]>> /\ r.id[2] \in Xid
  BY <1>1, ReplyFor DEF Inv
<1>3. ToSessionStat(r) \in SessionStat
  BY SessionStats DEF Inv, TypeInv, TypeOK
<1>4. Settled(c, r.id[2], ToSessionStat(r))
  BY <1>2 DEF Inv, ServerInv
<1> DEFINE x == r.id[2]
           stat == ToSessionStat(r)
<1>5. /\ recv' = [recv EXCEPT ![c] = [pc |-> "found", xid |-> x, stat |-> stat]]
      /\ Settled(c, x, stat) /\ stat \in SessionStat /\ x \in Xid
  BY <1>1, <1>2, <1>3, <1>4
<1>6. recv \in [Client -> [pc : {"listening", "found", "cancel"},
                           xid : 0 .. MaxXid, stat : {0} \cup SessionStat]]
  BY DEF Inv, TypeInv, TypeOK
<1>7. \A d \in Client, y \in Xid, s \in SessionStat :
        Settled(d, y, s) => Settled(d, y, s)'
  BY NextServerInv DEF Inv
<1> HIDE DEF x, stat
<1>8. \A d \in Client :
        \/ recv'[d] = recv[d]
        \/ d = c /\ recv'[d] = [pc |-> "found", xid |-> x, stat |-> stat]
  BY <1>5, <1>6
<1>9. \A d \in Client, y \in Xid, s \in SessionStat :
        recv'[d].pc # "listening" /\ recv'[d].xid = y /\ recv'[d].stat = s
        => Settled(d, y, s)'
  <2> SUFFICES ASSUME NEW d \in Client, NEW y \in Xid, NEW s \in SessionStat,
                      recv'[d].pc # "listening", recv'[d].xid = y,
                      recv'[d].stat = s
               PROVE  Settled(d, y, s)'
    OBVIOUS
  <2>1. CASE recv'[d] = recv[d]
    BY <1>7, <2>1 DEF Inv, ClientInv
  <2>2. CASE d = c /\ recv'[d] = [pc |-> "found", xid |-> x, stat |-> stat]
    <3>1. y = x /\ s = stat
      BY <2>2
    <3>2. QED BY <1>5, <1>7, <2>2, <3>1
  <2>3. QED BY <1>8, <2>1, <2>2
<1>10. UNCHANGED <<lastXid, missions, request, answers, down>>
  BY DEF RecvReply
<1>11. \A d \in Client : recv'[d].pc = "cancel" => recv'[d].xid \in missions'[d]
  BY <1>8, <1>10 DEF Inv, ClientInv
<1>12. QED
  BY <1>7, <1>9, <1>10, <1>11 DEF Inv, ClientInv, Running

LEMMA FindAgainClientInv ==
  ASSUME Inv, [Next]_vars, NEW c \in Client, FindAgain(c)
  PROVE  ClientInv'
<1>1. CASE Have(c, recv[c].xid)
  <2>1. /\ recv' = [recv EXCEPT ![c].pc = "cancel"]
        /\ recv[c].pc # "listening"
        /\ UNCHANGED <<lastXid, missions, request, answers, down>>
    BY <1>1 DEF FindAgain
  <2>2. recv \in [Client -> [pc : {"listening", "found", "cancel"},
                             xid : 0 .. MaxXid, stat : {0} \cup SessionStat]]
    BY DEF Inv, TypeInv, TypeOK
  <2>3. \A d \in Client :
          /\ recv'[d].xid = recv[d].xid /\ recv'[d].stat = recv[d].stat
          /\ d # c => recv'[d] = recv[d]
    BY <2>1, <2>2
  <2>4. \A d \in Client, y \in Xid, s \in SessionStat :
          Settled(d, y, s) => Settled(d, y, s)'
    BY NextServerInv DEF Inv
  <2>5. \A d \in Client, y \in Xid, s \in SessionStat :
          recv'[d].pc # "listening" /\ recv'[d].xid = y /\ recv'[d].stat = s
          => Settled(d, y, s)'
    BY <2>1, <2>3, <2>4 DEF Inv, ClientInv
  <2>6. \A d \in Client : recv'[d].pc = "cancel" => recv'[d].xid \in missions'[d]
    BY <1>1, <2>1, <2>3 DEF Inv, ClientInv, Have
  <2>7. QED
    BY <2>1, <2>4, <2>5, <2>6 DEF Inv, ClientInv, Running
<1>2. CASE ~Have(c, recv[c].xid)
  <2>1. UNCHANGED <<lastXid, missions, request, recv, answers>>
        /\ down \subseteq down'
    BY <1>2 DEF FindAgain, Crash
  <2>2. QED BY <2>1, OtherClientInv
<1>3. QED BY <1>1, <1>2

(* What a step may do to the callbacks: nothing, or one first call.        *)
OneAnswer ==
  \/ UNCHANGED answers
  \/ \E c \in Client, x \in Xid, stat \in SessionStat :
       /\ answers' = [answers EXCEPT ![<<c, x>>] = <<stat>>]
       /\ answers[<<c, x>>] = <<>>
       /\ request[<<c, x>>] # None
       /\ stat > SessionTimeout => Settled(c, x, stat)

LEMMA IoFailedClientInv ==
  ASSUME Inv, [Next]_vars, NEW c \in Client, NEW x \in Xid, IoFailed(c, x)
  PROVE  ClientInv' /\ OneAnswer
<1>1. /\ UNCHANGED <<lastXid, request, recv>>
      /\ Running(c) /\ ~Locked(c)
  BY DEF IoFailed
<1>2. CASE IoFailedLate(c, x)
  <2>1. UNCHANGED <<missions, answers, down>>
    BY <1>2 DEF IoFailedLate
  <2>2. QED BY <1>1, <2>1, OtherClientInv DEF OneAnswer
<1>3. CASE IoFailedUnnoticed(c, x) \/ IoFailedCrashes(c, x)
  <2>1. SessionIoFailed \in SessionStat /\ ~(SessionIoFailed > SessionTimeout)
    BY DEF SessionIoFailed, SessionStat, SessionTimeout
  <2>2. x \in missions[c] /\ Calls(<<c, x>>, SessionIoFailed)
    BY <1>3 DEF IoFailedUnnoticed, IoFailedCrashes, Have
  <2>3. /\ Erases(c, x) \/ (missions' = missions /\ ~Running(c)')
        /\ down \subseteq down'
    BY <1>3 DEF IoFailedUnnoticed, IoFailedCrashes, Crash, Running
  <2> HIDE DEF SessionIoFailed, SessionTimeout
  <2>4. /\ ClientInv'
        /\ answers' = [answers EXCEPT ![<<c, x>>] = <<SessionIoFailed>>]
        /\ answers[<<c, x>>] = <<>>
        /\ request[<<c, x>>] # None
    BY <1>1, <2>1, <2>2, <2>3, CalledClientInv
  <2>5. QED BY <2>1, <2>4 DEF OneAnswer
<1>4. QED BY <1>2, <1>3 DEF IoFailed

LEMMA AnswerClientInv ==
  ASSUME Inv, [Next]_vars, NEW c \in Client, Answer(c)
  PROVE  ClientInv' /\ OneAnswer
<1> DEFINE x == recv[c].xid
           stat == recv[c].stat
<1>1. recv[c].pc = "cancel" /\ Running(c)
  BY DEF Answer
<1>2. x \in Xid /\ stat \in SessionStat
  BY <1>1 DEF Inv, TypeInv, PlaceOK
<1>3. x \in missions[c] /\ Settled(c, x, stat)
  BY <1>1, <1>2 DEF Inv, ClientInv
<1>4. /\ Calls(<<c, x>>, stat) /\ Erases(c, x)
      /\ recv' = [recv EXCEPT ![c] = Listening]
      /\ UNCHANGED <<lastXid, request>>
      /\ down \subseteq down'
  BY DEF Answer, Undefined
<1> HIDE DEF x, stat
<1>5. /\ ClientInv'
      /\ answers' = [answers EXCEPT ![<<c, x>>] = <<stat>>]
      /\ answers[<<c, x>>] = <<>>
      /\ request[<<c, x>>] # None
  BY <1>1, <1>2, <1>3, <1>4, CalledClientInv
<1>6. QED BY <1>2, <1>3, <1>5 DEF OneAnswer

LEMMA NextClientInv ==
  ASSUME Inv, [Next]_vars PROVE ClientInv' /\ OneAnswer
<1> DEFINE Quiet == /\ UNCHANGED <<lastXid, missions, request, recv, answers>>
                    /\ down \subseteq down'
<1>1. Quiet => ClientInv' /\ OneAnswer
  BY OtherClientInv DEF OneAnswer
<1>2. ASSUME NEW t \in Thread, ThreadNext(t) PROVE ClientInv' /\ OneAnswer
  <2>1. ASSUME NEW style \in Style, NEW timed \in Timed, NEW kind \in Kind,
               NEW trunk \in FreshPointer, NEW handle \in FreshPointer,
               AllocXid(t, style, timed, kind, trunk, handle)
        PROVE  ClientInv' /\ OneAnswer
    <3>1. UNCHANGED answers
      BY <2>1 DEF AllocXid
    <3>2. QED BY <2>1, <3>1, AllocClientInv DEF OneAnswer
  <2>2. CASE SetTimer(t) \/ SetTimerFails(t) \/ Send(t)
             \/ Wakes(t) \/ TimesOut(t) \/ ChecksMission(t)
    <3>1. Quiet
      BY <2>2 DEF SetTimer, SetTimerFails, Send, Wakes, TimesOut, ChecksMission
    <3> HIDE DEF Quiet
    <3>2. QED BY <1>1, <3>1
  <2>3. QED BY <1>2, <2>1, <2>2 DEF ThreadNext
<1>3. ASSUME NEW c \in Client, RecvReply(c) \/ FindAgain(c) \/ Answer(c)
      PROVE  ClientInv' /\ OneAnswer
  <2>1. CASE RecvReply(c)
    BY <2>1, RecvReplyClientInv DEF OneAnswer, RecvReply
  <2>2. CASE FindAgain(c)
    BY <2>2, FindAgainClientInv DEF OneAnswer, FindAgain
  <2>3. CASE Answer(c)
    BY <2>3, AnswerClientInv
  <2>4. QED BY <1>3, <2>1, <2>2, <2>3
<1>4. ASSUME NEW c \in Client, NEW x \in Xid, CallNext(c, x)
      PROVE  ClientInv' /\ OneAnswer
  <2>1. CASE IoFailed(c, x)
    BY <2>1, IoFailedClientInv
  <2>2. CASE Fire(c, x) \/ RpcTimeout(c, x) \/ ReleaseOnExit(c, x)
             \/ ProcessRequest(c, x)
    <3>1. Quiet
      BY <2>2 DEF Fire, RpcTimeout, TimeoutHave, ReleaseOnExit, Undefined,
         ProcessRequest, clientVars
    <3> HIDE DEF Quiet
    <3>2. QED BY <1>1, <3>1
  <2>3. CASE CallStub(<<c, x>>) \/ ReplyThrows(<<c, x>>)
    <3>1. Quiet
      BY <2>3, JobEnds DEF Inv
    <3> HIDE DEF Quiet
    <3>2. QED BY <1>1, <3>1
  <2>4. QED BY <1>4, <2>1, <2>2, <2>3 DEF CallNext
<1>5. CASE UNCHANGED vars
  <2>1. Quiet
    BY <1>5 DEF vars, clientVars
  <2> HIDE DEF Quiet
  <2>2. QED BY <1>1, <2>1
<1>6. QED BY <1>2, <1>3, <1>4, <1>5 DEF Next

LEMMA InitInv == Init => Inv
BY InitTypeInv, InitFreshInv, InitServerInv, InitClientInv DEF Inv

LEMMA NextInv == Inv /\ [Next]_vars => Inv'
BY NextTypeInv, FreshStep, NextServerInv, NextClientInv DEF Inv

(* A callback is called at most once, for any number of calls and however  *)
(* replies, failed sends and timeouts interleave.                          *)
THEOREM CallsBackOnce == Spec => []CalledBackOnce
<1>1. Inv => CalledBackOnce
  BY DEF Inv, ClientInv, CalledBackOnce
<1>2. QED BY InitInv, NextInv, <1>1, PTL DEF Spec

(* What a callback is told of the server is what happened there, and what  *)
(* has happened there for good.                                            *)
THEOREM TruthfulAnswers == Spec => []AnswersTellTheTruth
<1>1. ASSUME Inv, NEW id \in Call, NEW i \in DOMAIN answers[id],
             answers[id][i] > SessionTimeout
      PROVE  ran[id] \in ToldAs(answers[id][i]) /\ id \notin jobs
  <2>1. PICK c \in Client, x \in Xid : id = <<c, x>>
    BY DEF Call
  <2>2. answers[id] \in Seq(SessionStat) /\ Len(answers[id]) <= 1
    BY <1>1 DEF Inv, TypeInv, TypeOK, ClientInv
  <2> DEFINE told == answers[id]
  <2>3. i = 1 /\ Len(told) = 1 /\ told[1] \in SessionStat
    <3>1. told \in Seq(SessionStat) /\ Len(told) <= 1 /\ i \in DOMAIN told
      BY <1>1, <2>2
    <3> HIDE DEF told
    <3>2. DOMAIN told = 1 .. Len(told) /\ Len(told) \in Nat
      BY <3>1
    <3>3. i = 1 /\ Len(told) = 1
      BY <3>1, <3>2
    <3>4. told[1] \in SessionStat
      <4>1. 1 \in 1 .. Len(told)
        BY <3>3
      <4>2. QED BY <3>1, <4>1
    <3>5. QED BY <3>3, <3>4
  <2> DEFINE stat == answers[id][1]
  <2>4. answers[id] = <<stat>>
    BY <2>2, <2>3
  <2>5. stat \in SessionStat /\ stat > SessionTimeout
    BY <1>1, <2>3
  <2> HIDE DEF stat
  <2>6. Settled(c, x, stat)
    BY <1>1, <2>1, <2>4, <2>5 DEF Inv, ClientInv
  <2>7. QED BY <2>1, <2>3, <2>6 DEF Settled, stat
<1>2. Inv => AnswersTellTheTruth
  BY <1>1 DEF AnswersTellTheTruth
<1>3. QED BY InitInv, NextInv, <1>2, PTL DEF Spec

-----------------------------------------------------------------------------
(* The session implements the service.                                     *)

(* Only calls that were made are worked on.                                *)
MadeInv ==
  /\ \A t \in Thread : at[t].pc # "idle" => request[Made(t)] # None
  /\ \A id \in sent \cup jobs : request[id] # None

LEMMA InitMadeInv == Init => MadeInv
BY DEF Init, MadeInv, Idle

LEMMA NextMadeInv ==
  ASSUME Inv, MadeInv, [Next]_vars PROVE MadeInv'
<1>1. ASSUME NEW t \in Thread, ThreadNext(t) PROVE MadeInv'
  <2>1. ASSUME NEW style \in Style, NEW timed \in Timed, NEW kind \in Kind,
               NEW trunk \in FreshPointer, NEW handle \in FreshPointer,
               AllocXid(t, style, timed, kind, trunk, handle)
        PROVE  MadeInv'
    <3> DEFINE id == <<Home[t], lastXid[Home[t]] + 1>>
    <3>1. PICK r \in Request : request' = [request EXCEPT ![id] = r]
      BY <2>1, AllocTypeInv DEF Inv
    <3>2. id \in Call /\ r # None /\ request \in [Call -> Request \cup {None}]
      BY <2>1, AllocTypeInv, NoneIsNoRequest DEF Inv, TypeInv, TypeOK
    <3> HIDE DEF id
    <3>3. /\ request'[id] # None
          /\ \A other \in Call : request[other] # None => request'[other] # None
      BY <3>1, <3>2
    <3>4. /\ UNCHANGED <<sent, jobs>> /\ sent \cup jobs \subseteq Call
      BY <2>1 DEF AllocXid, netVars, serverVars, Inv, TypeInv, TypeOK
    <3>5. ASSUME NEW u \in Thread, at'[u].pc # "idle"
          PROVE  request'[Made(u)'] # None
      <4>1. at \in [Thread -> [pc : {"idle", "timer", "send", "wait", "check"},
                               xid : 0 .. MaxXid]]
        BY DEF Inv, TypeInv, TypeOK
      <4>2. CASE u = t
        <5>1. at'[u].xid = lastXid[Home[t]] + 1
          BY <2>1, <4>1, <4>2 DEF AllocXid
        <5>2. Made(u)' = id
          BY <4>2, <5>1 DEF Made, id
        <5>3. QED BY <3>3, <5>2
      <4>3. CASE u # t
        <5>1. at'[u] = at[u]
          BY <2>1, <4>1, <4>3 DEF AllocXid
        <5>2. Made(u)' = Made(u) /\ Made(u) \in Call /\ request[Made(u)] # None
          BY <3>5, <5>1, MadeIsCall DEF Made, MadeInv, Inv
        <5>3. QED BY <3>3, <5>2
      <4>4. QED BY <4>2, <4>3
    <3>6. QED BY <3>3, <3>4, <3>5 DEF MadeInv
  <2>2. CASE SetTimer(t) \/ SetTimerFails(t) \/ Send(t)
             \/ Wakes(t) \/ TimesOut(t) \/ ChecksMission(t)
    <3>1. at[t].pc # "idle" /\ UNCHANGED <<request, jobs>>
      BY <2>2 DEF SetTimer, SetTimerFails, Send, Wakes, TimesOut,
         ChecksMission, ThreadAt, serverVars
    <3>2. request[Made(t)] # None
      BY <3>1 DEF MadeInv
    <3>3. sent' \subseteq sent \cup {Made(t)}
      BY <2>2 DEF SetTimer, SetTimerFails, Send, Wakes, TimesOut,
         ChecksMission, netVars
    <3>4. \/ \E pc \in {"send", "wait", "check"} : Go(t, pc)
          \/ Return(t)
      BY <2>2 DEF SetTimer, SetTimerFails, Send, Wakes, TimesOut, ChecksMission
    <3>5. at \in [Thread -> [pc : {"idle", "timer", "send", "wait", "check"},
                             xid : 0 .. MaxXid]]
      BY DEF Inv, TypeInv, TypeOK
    <3>6. \A u \in Thread : at'[u].pc # "idle" =>
            at[u].pc # "idle" /\ at'[u].xid = at[u].xid
      <4>1. CASE Return(t)
        BY <3>5, <4>1 DEF Return, Idle
      <4>2. CASE \E pc \in {"send", "wait", "check"} : Go(t, pc)
        BY <3>1, <3>5, <4>2 DEF Go
      <4>3. QED BY <3>4, <4>1, <4>2
    <3>7. QED BY <3>1, <3>2, <3>3, <3>6 DEF MadeInv, Made
  <2>3. QED BY <1>1, <2>1, <2>2 DEF ThreadNext
<1>2. ASSUME NEW c \in Client, RecvReply(c) \/ FindAgain(c) \/ Answer(c)
      PROVE  MadeInv'
  <2>1. UNCHANGED <<at, request, sent, jobs>>
    BY <1>2 DEF RecvReply, FindAgain, Answer, netVars, serverVars
  <2>2. QED BY <2>1 DEF MadeInv, Made
<1>3. ASSUME NEW c \in Client, NEW x \in Xid, CallNext(c, x) PROVE MadeInv'
  <2>1. UNCHANGED <<at, request, sent>> /\ jobs' \subseteq jobs \cup sent
    <3>1. CASE CallStub(<<c, x>>) \/ ReplyThrows(<<c, x>>)
      BY <3>1, JobEnds DEF Inv
    <3>2. CASE ~(CallStub(<<c, x>>) \/ ReplyThrows(<<c, x>>))
      BY <1>3, <3>2
         DEF CallNext, IoFailed, Fire, RpcTimeout, ReleaseOnExit, ProcessRequest,
             CheckVersion, CheckUser, CheckStub, NoStub, Schedule, netVars,
             serverVars, clientVars
    <3>3. QED BY <3>1, <3>2
  <2>2. QED BY <2>1 DEF MadeInv, Made
<1>4. CASE UNCHANGED vars
  BY <1>4 DEF vars, clientVars, netVars, serverVars, MadeInv, Made
<1>5. QED BY <1>1, <1>2, <1>3, <1>4 DEF Next

(* How the service sees the sequences that the session keeps.              *)
LEMMA OnceIs ==
  ASSUME NEW none, NEW v
  PROVE  Once(<<>>, none) = none /\ Once(<<v>>, none) = v
BY DEF Once

LEMMA MeaningIs ==
  /\ Meaning(<<>>) = <<>>
  /\ \A stat \in SessionStat :
       Meaning(<<stat>>) =
         <<IF stat = SessionSuccess THEN "success" ELSE "failure">>
<1>1. Meaning(<<>>) = <<>>
  BY DEF Meaning
<1>2. ASSUME NEW stat \in SessionStat
      PROVE  Meaning(<<stat>>) =
               <<IF stat = SessionSuccess THEN "success" ELSE "failure">>
  BY DEF Meaning
<1>3. QED BY <1>1, <1>2

AnswerOf(stats) == Once(Meaning(stats), "none")

LEMMA AnswerOfIs ==
  /\ AnswerOf(<<>>) = "none"
  /\ \A stat \in SessionStat :
       AnswerOf(<<stat>>) =
         IF stat = SessionSuccess THEN "success" ELSE "failure"
<1>1. AnswerOf(<<>>) = "none"
  BY OnceIs, MeaningIs DEF AnswerOf
<1>2. ASSUME NEW stat \in SessionStat
      PROVE  AnswerOf(<<stat>>) =
               IF stat = SessionSuccess THEN "success" ELSE "failure"
  <2> DEFINE v == IF stat = SessionSuccess THEN "success" ELSE "failure"
  <2>1. Meaning(<<stat>>) = <<v>>
    BY MeaningIs
  <2> HIDE DEF v
  <2>2. AnswerOf(<<stat>>) = v
    BY <2>1, OnceIs DEF AnswerOf
  <2>3. QED BY <2>2 DEF v
<1>3. QED BY <1>1, <1>2

LEMMA InvokeService ==
  ASSUME Inv,
         NEW t \in Thread, NEW style \in Style, NEW timed \in Timed,
         NEW kind \in Kind, NEW trunk \in FreshPointer,
         NEW handle \in FreshPointer,
         AllocXid(t, style, timed, kind, trunk, handle)
  PROVE  Service!Next
<1>0. PICK id \in Call : id = <<Home[t], lastXid[Home[t]] + 1>>
  BY AllocTypeInv DEF Inv
<1>1. PICK r \in Request : request' = [request EXCEPT ![id] = r]
  BY <1>0, AllocTypeInv DEF Inv
<1>2. /\ r # None
      /\ request \in [Call -> Request \cup {None}]
  BY NoneIsNoRequest DEF Inv, TypeInv, TypeOK
<1>3. request[id] = None
  <2> DEFINE c == Home[t]
             n == lastXid[c]
  <2>1. c \in Client /\ n \in Nat /\ n + 1 \in Xid
    <3>1. c \in Client /\ lastXid \in [Client -> 0 .. MaxXid]
      BY SessionAssumption DEF Inv, TypeInv, TypeOK
    <3>2. n + 1 \in Xid
      BY DEF AllocXid
    <3>3. QED BY <3>1, <3>2
  <2>2. n + 1 > n
    BY <2>1
  <2>3. QED BY <1>0, <2>1, <2>2 DEF Inv, FreshInv
<1>4. UNCHANGED <<ran, answers>>
  BY DEF AllocXid, serverVars
<1>5. {i \in Call : request'[i] # None} = {i \in Call : request[i] # None} \cup {id}
  BY <1>1, <1>2
<1>6. Service!Invoke(id)
  BY <1>2, <1>3, <1>4, <1>5 DEF Service!Invoke
<1>7. QED BY <1>6 DEF Service!Next

LEMMA RunService ==
  ASSUME Inv, MadeInv, NEW c \in Client, NEW x \in Xid,
         CallStub(<<c, x>>) \/ ReplyThrows(<<c, x>>)
  PROVE  Service!Next
<1> DEFINE id == <<c, x>>
<1>1. /\ id \in Call
      /\ ran \in [Call -> Seq(Endings)]
      /\ UNCHANGED <<request, answers>>
      /\ request[id] # None
  <2>1. id \in jobs
    <3>1. CASE CallStub(id)
      BY <3>1 DEF CallStub, EndsJob
    <3>2. CASE ReplyThrows(id)
      BY <3>2 DEF ReplyThrows, EndsJob
    <3>3. QED BY <3>1, <3>2
  <2>2. UNCHANGED <<request, answers>>
    BY JobEnds DEF Inv
  <2>3. QED BY <2>1, <2>2 DEF Inv, TypeInv, TypeOK, Call, MadeInv, Endings
<1>2. PICK end \in Endings : ran' = [ran EXCEPT ![id] = <<end>>]
  BY JobEndsServerInv DEF Inv
<1>3. ran[id] = <<>>
  BY JobEndsServerInv DEF Inv
<1> HIDE DEF id
<1>4. /\ Once(ran[id], "not_run") = "not_run"
      /\ Once(ran'[id], "not_run") = end
      /\ \A i \in Call : i # id => ran'[i] = ran[i]
  BY <1>1, <1>2, <1>3, OnceIs
<1>5. [i \in Call |-> Once(ran'[i], "not_run")] =
        [[i \in Call |-> Once(ran[i], "not_run")] EXCEPT ![id] = end]
  BY <1>1, <1>4
<1>6. Service!Run(id)
  BY <1>1, <1>4, <1>5 DEF Service!Run, Endings
<1>7. QED BY <1>1, <1>6 DEF Service!Next

(* Any other step: nothing, or one callback that gets its answer.          *)
LEMMA OtherService ==
  ASSUME Inv, OneAnswer, UNCHANGED <<request, ran>>
  PROVE  [Service!Next]_(Service!vars)
<1>1. CASE UNCHANGED answers
  BY <1>1 DEF Service!vars
<1>2. CASE ~UNCHANGED answers
  <2>1. PICK c \in Client, x \in Xid, stat \in SessionStat :
          /\ answers' = [answers EXCEPT ![<<c, x>>] = <<stat>>]
          /\ answers[<<c, x>>] = <<>>
          /\ request[<<c, x>>] # None
          /\ stat > SessionTimeout => Settled(c, x, stat)
    BY <1>2 DEF OneAnswer
  <2> DEFINE id == <<c, x>>
             answer == IF stat = SessionSuccess THEN "success" ELSE "failure"
  <2>2. id \in Call /\ answers \in [Call -> Seq(SessionStat)]
    BY DEF Call, Inv, TypeInv, TypeOK
  <2>3. /\ AnswerOf(answers[id]) = "none"
        /\ AnswerOf(answers'[id]) = answer
        /\ \A i \in Call : i # id => answers'[i] = answers[i]
    BY <2>1, <2>2, AnswerOfIs
  <2>4. stat = SessionSuccess => Once(ran[id], "not_run") = "returned"
    <3>1. stat = SessionSuccess => ran[id] = <<"returned">>
      BY <2>1 DEF Settled, ToldAs, SessionSuccess, SessionTimeout
    <3>2. QED BY <3>1, OnceIs
  <2> HIDE DEF id, AnswerOf
  <2>5. [i \in Call |-> AnswerOf(answers'[i])] =
          [[i \in Call |-> AnswerOf(answers[i])] EXCEPT ![id] = answer]
    BY <2>2, <2>3
  <2>6. CASE stat = SessionSuccess
    <3>1. Service!Succeed(id)
      BY <2>2, <2>3, <2>4, <2>5, <2>6 DEF Service!Succeed, AnswerOf
    <3>2. QED BY <2>2, <3>1 DEF Service!Next
  <2>7. CASE stat # SessionSuccess
    <3>1. Service!Fail(id)
      BY <2>1, <2>2, <2>3, <2>5, <2>7 DEF Service!Fail, AnswerOf, id
    <3>2. QED BY <2>2, <3>1 DEF Service!Next
  <2>8. QED BY <2>6, <2>7
<1>3. QED BY <1>1, <1>2

LEMMA InitService == Init => Service!Init
<1> SUFFICES ASSUME Init PROVE Service!Init
  OBVIOUS
<1>1. {id \in Call : request[id] # None} = {}
  BY DEF Init
<1>2. [id \in Call |-> Once(ran[id], "not_run")] = [id \in Call |-> "not_run"]
  BY OnceIs DEF Init
<1>3. [id \in Call |-> AnswerOf(answers[id])] = [id \in Call |-> "none"]
  BY AnswerOfIs DEF Init
<1>4. QED BY <1>1, <1>2, <1>3 DEF Service!Init, AnswerOf

LEMMA NextService ==
  ASSUME Inv, MadeInv, [Next]_vars PROVE [Service!Next]_(Service!vars)
<1>1. OneAnswer
  BY NextClientInv
<1>2. ASSUME NEW t \in Thread, ThreadNext(t) PROVE [Service!Next]_(Service!vars)
  <2>1. CASE SetTimer(t) \/ SetTimerFails(t) \/ Send(t)
             \/ Wakes(t) \/ TimesOut(t) \/ ChecksMission(t)
    <3>1. UNCHANGED <<request, ran>>
      BY <2>1 DEF SetTimer, SetTimerFails, Send, Wakes, TimesOut,
         ChecksMission, serverVars
    <3>2. QED BY <1>1, <3>1, OtherService
  <2>2. QED BY <1>2, <2>1, InvokeService DEF ThreadNext
<1>3. ASSUME NEW c \in Client, RecvReply(c) \/ FindAgain(c) \/ Answer(c)
      PROVE  [Service!Next]_(Service!vars)
  <2>1. UNCHANGED <<request, ran>>
    BY <1>3 DEF RecvReply, FindAgain, Answer, serverVars
  <2>2. QED BY <1>1, <2>1, OtherService
<1>4. ASSUME NEW c \in Client, NEW x \in Xid, CallNext(c, x)
      PROVE  [Service!Next]_(Service!vars)
  <2>1. CASE CallStub(<<c, x>>) \/ ReplyThrows(<<c, x>>)
    BY <2>1, RunService
  <2>2. CASE IoFailed(c, x) \/ Fire(c, x) \/ RpcTimeout(c, x)
             \/ ReleaseOnExit(c, x) \/ ProcessRequest(c, x)
    <3>1. UNCHANGED <<request, ran>>
      BY <2>2 DEF IoFailed, Fire, RpcTimeout, ReleaseOnExit, ProcessRequest,
         serverVars, clientVars
    <3>2. QED BY <1>1, <3>1, OtherService
  <2>3. QED BY <1>4, <2>1, <2>2 DEF CallNext
<1>5. CASE UNCHANGED vars
  <2>1. UNCHANGED <<request, ran>>
    BY <1>5 DEF vars, clientVars, serverVars
  <2>2. QED BY <1>1, <2>1, OtherService
<1>6. QED BY <1>2, <1>3, <1>4, <1>5 DEF Next

(* Every behaviour of client, transport and server is one of the service:  *)
(* a call runs once at most, its callback is called once at most, and a    *)
(* success is the procedure's.                                             *)
THEOREM SessionImplementation == Spec => ImplementsService
<1>1. Inv /\ MadeInv /\ [Next]_vars => (Inv /\ MadeInv)'
  BY NextInv, NextMadeInv
<1>2. Init => Inv /\ MadeInv
  BY InitInv, InitMadeInv
<1>3. QED
  BY <1>1, <1>2, InitService, NextService, PTL
     DEF Spec, ImplementsService, Service!Spec

-----------------------------------------------------------------------------
(* A sync call that returns was answered.                                  *)

ReturnInv ==
  /\ \A c \in Client, x \in Xid : request[<<c, x>>] # None =>
       x \in missions[c] \/ answers[<<c, x>>] # <<>>
  /\ ReturnMeansAnswered

(* An answer is not taken back.                                            *)
LEMMA AnswersStay ==
  ASSUME Inv, [Next]_vars, NEW id \in Call, answers[id] # <<>>
  PROVE  answers'[id] # <<>>
<1>1. CASE UNCHANGED answers
  BY <1>1
<1>2. CASE ~UNCHANGED answers
  <2>1. PICK other \in Call, stat \in SessionStat :
          answers' = [answers EXCEPT ![other] = <<stat>>]
    BY <1>2, NextClientInv DEF OneAnswer, Call
  <2>2. answers \in [Call -> Seq(SessionStat)]
    BY DEF Inv, TypeInv, TypeOK
  <2>3. QED BY <2>1, <2>2
<1>3. QED BY <1>1, <1>2

(* Whoever erases a mission calls its callback.                            *)
LEMMA ErasedIsAnswered ==
  ASSUME Inv, [Next]_vars, NEW c \in Client, NEW x \in Xid, x \in missions[c]
  PROVE  x \in missions'[c] \/ answers'[<<c, x>>] # <<>>
<1>0. missions \in [Client -> SUBSET Xid]
  BY DEF Inv, TypeInv, TypeOK
<1>1. ASSUME NEW d \in Client, NEW y \in Xid, NEW stat \in SessionStat,
             Calls(<<d, y>>, stat), Erases(d, y)
      PROVE  x \in missions'[c] \/ answers'[<<c, x>>] # <<>>
  <2>1. CASE <<c, x>> = <<d, y>>
    <3>1. answers'[<<d, y>>] = Append(answers[<<d, y>>], stat)
      BY <1>1 DEF Calls, Call, Inv, TypeInv, TypeOK
    <3>2. answers[<<d, y>>] \in Seq(SessionStat)
      BY DEF Call, Inv, TypeInv, TypeOK
    <3>3. Append(answers[<<d, y>>], stat) # <<>>
      BY <3>2
    <3>4. QED BY <2>1, <3>1, <3>3
  <2>2. CASE <<c, x>> # <<d, y>>
    BY <1>0, <1>1, <2>2 DEF Erases
  <2>3. QED BY <2>1, <2>2
<1>2. ASSUME NEW t \in Thread, ThreadNext(t)
      PROVE  x \in missions'[c]
  <2>1. ASSUME NEW style \in Style, NEW timed \in Timed, NEW kind \in Kind,
               NEW trunk \in FreshPointer, NEW handle \in FreshPointer,
               AllocXid(t, style, timed, kind, trunk, handle)
        PROVE  x \in missions'[c]
    BY <1>0, <2>1 DEF AllocXid
  <2>2. QED BY <1>2, <2>1
        DEF ThreadNext, SetTimer, SetTimerFails, Send, Wakes, TimesOut,
            ChecksMission
<1>3. ASSUME NEW d \in Client, RecvReply(d) \/ FindAgain(d) \/ Answer(d)
      PROVE  x \in missions'[c] \/ answers'[<<c, x>>] # <<>>
  <2>1. CASE RecvReply(d) \/ FindAgain(d)
    BY <2>1 DEF RecvReply, FindAgain
  <2>2. CASE Answer(d)
    <3>1. recv[d].xid \in Xid /\ recv[d].stat \in SessionStat
      BY <2>2 DEF Answer, Inv, TypeInv, PlaceOK
    <3>2. Calls(<<d, recv[d].xid>>, recv[d].stat) /\ Erases(d, recv[d].xid)
      BY <2>2 DEF Answer
    <3>3. PICK y \in Xid, stat \in SessionStat :
            y = recv[d].xid /\ stat = recv[d].stat
      BY <3>1
    <3>4. Calls(<<d, y>>, stat) /\ Erases(d, y)
      BY <3>2, <3>3 DEF Calls, Erases
    <3>5. QED BY <1>1, <3>4
  <2>3. QED BY <1>3, <2>1, <2>2
<1>4. ASSUME NEW d \in Client, NEW y \in Xid, CallNext(d, y)
      PROVE  x \in missions'[c] \/ answers'[<<c, x>>] # <<>>
  <2>1. CASE IoFailed(d, y)
    <3>1. CASE IoFailedLate(d, y) \/ IoFailedCrashes(d, y)
      BY <3>1 DEF IoFailedLate, IoFailedCrashes
    <3>2. CASE IoFailedUnnoticed(d, y)
      <4>1. SessionIoFailed \in SessionStat
        BY DEF SessionIoFailed, SessionStat
      <4>2. QED BY <1>1, <3>2, <4>1 DEF IoFailedUnnoticed
    <3>3. QED BY <2>1, <3>1, <3>2 DEF IoFailed
  <2>2. CASE Fire(d, y) \/ RpcTimeout(d, y) \/ ReleaseOnExit(d, y)
             \/ ProcessRequest(d, y)
    BY <2>2 DEF Fire, RpcTimeout, ReleaseOnExit, ProcessRequest, clientVars
  <2>3. CASE CallStub(<<d, y>>) \/ ReplyThrows(<<d, y>>)
    BY <2>3, JobEnds DEF Inv
  <2>4. QED BY <1>4, <2>1, <2>2, <2>3 DEF CallNext
<1>5. CASE UNCHANGED vars
  BY <1>5 DEF vars, clientVars
<1>6. QED BY <1>2, <1>3, <1>4, <1>5 DEF Next

(* A new call has a mission.                                               *)
LEMMA NewHasMission ==
  ASSUME Inv, [Next]_vars, NEW c \in Client, NEW x \in Xid,
         request[<<c, x>>] = None, request'[<<c, x>>] # None
  PROVE  x \in missions'[c]
<1>1. ASSUME NEW t \in Thread, ThreadNext(t) PROVE x \in missions'[c]
  <2>1. ASSUME NEW style \in Style, NEW timed \in Timed, NEW kind \in Kind,
               NEW trunk \in FreshPointer, NEW handle \in FreshPointer,
               AllocXid(t, style, timed, kind, trunk, handle)
        PROVE  x \in missions'[c]
    <3>1. PICK id \in Call : id = <<Home[t], lastXid[Home[t]] + 1>>
      BY <2>1, AllocTypeInv DEF Inv
    <3>2. PICK r \in Request : request' = [request EXCEPT ![id] = r]
      BY <2>1, <3>1, AllocTypeInv DEF Inv
    <3>3. request \in [Call -> Request \cup {None}] /\ <<c, x>> \in Call
      BY DEF Call, Inv, TypeInv, TypeOK
    <3>4. id = <<c, x>>
      BY <3>2, <3>3
    <3>5. c = Home[t] /\ x = lastXid[Home[t]] + 1
      BY <3>1, <3>4
    <3>6. missions' = [missions EXCEPT ![c] = @ \cup {x}]
      BY <2>1, <3>5 DEF AllocXid
    <3>7. QED BY <3>6 DEF Inv, TypeInv, TypeOK
  <2>2. QED BY <1>1, <2>1
        DEF ThreadNext, SetTimer, SetTimerFails, Send, Wakes, TimesOut,
            ChecksMission
<1>2. ASSUME NEW d \in Client, RecvReply(d) \/ FindAgain(d) \/ Answer(d)
      PROVE  FALSE
  BY <1>2 DEF RecvReply, FindAgain, Answer
<1>3. ASSUME NEW d \in Client, NEW y \in Xid, CallNext(d, y)
      PROVE  FALSE
  BY <1>3, JobEnds DEF Inv, CallNext, IoFailed, Fire, RpcTimeout, ReleaseOnExit,
     ProcessRequest, clientVars
<1>4. CASE UNCHANGED vars
  BY <1>4 DEF vars, clientVars
<1>5. QED BY <1>1, <1>2, <1>3, <1>4 DEF Next

(* A call only ends as returned when it has its answer.                    *)
LEMMA EndsAnswered ==
  ASSUME Inv, MadeInv, ReturnInv, [Next]_vars, NEW id \in Call,
         outcome'[id] \in {"result", "empty"}
  PROVE  answers[id] # <<>>
<1>1. CASE outcome'[id] = outcome[id]
  BY <1>1 DEF ReturnInv, ReturnMeansAnswered
<1>2. CASE outcome'[id] # outcome[id]
  <2>1. PICK t \in Thread : SetTimerFails(t) \/ Wakes(t) \/ ChecksMission(t)
    <3>1. ASSUME NEW d \in Client, RecvReply(d) \/ FindAgain(d) \/ Answer(d)
          PROVE  FALSE
      BY <1>2, <3>1 DEF RecvReply, FindAgain, Answer
    <3>2. ASSUME NEW d \in Client, NEW y \in Xid, CallNext(d, y)
          PROVE  FALSE
      BY <1>2, <3>2, JobEnds
         DEF Inv, CallNext, IoFailed, Fire, RpcTimeout, ReleaseOnExit,
             ProcessRequest, clientVars
    <3>3. ~UNCHANGED vars
      BY <1>2 DEF vars, clientVars
    <3>4. PICK t \in Thread : ThreadNext(t)
      BY <3>1, <3>2, <3>3 DEF Next
    <3>5. SetTimerFails(t) \/ Wakes(t) \/ ChecksMission(t)
      BY <1>2, <3>4 DEF ThreadNext, AllocXid, SetTimer, Send, TimesOut
    <3>6. QED BY <3>5
  <2>2. outcome \in [Call -> {"none", "raised", "timeout", "result", "empty"}]
    BY DEF Inv, TypeInv, TypeOK
  <2>3. PICK how : outcome' = [outcome EXCEPT ![Made(t)] = how]
    BY <2>1 DEF SetTimerFails, Wakes, ChecksMission, Ends
  <2>4. Made(t) = id /\ outcome'[id] = how
    BY <1>2, <2>2, <2>3
  <2>5. CASE SetTimerFails(t)
    <3>1. outcome'[id] = "raised"
      BY <2>2, <2>4, <2>5 DEF SetTimerFails, Ends
    <3>2. QED BY <3>1
  <2>6. CASE Wakes(t)
    BY <2>4, <2>6 DEF Wakes
  <2>7. CASE ChecksMission(t)
    <3>1. at[t].pc # "idle" /\ Made(t) = <<Home[t], at[t].xid>>
      BY <2>7 DEF ChecksMission, ThreadAt, Made
    <3>2. request[id] # None
      BY <2>4, <3>1 DEF MadeInv
    <3>3. ~Have(Home[t], at[t].xid)
      <4>1. CASE Have(Home[t], at[t].xid)
        <5>1. outcome'[id] = "timeout"
          BY <2>2, <2>4, <2>7, <4>1 DEF ChecksMission, Ends
        <5>2. QED BY <5>1
      <4>2. QED BY <4>1
    <3>4. Home[t] \in Client /\ at[t].xid \in Xid
      BY <3>1, SessionAssumption DEF Inv, TypeInv, PlaceOK
    <3>5. QED BY <2>4, <3>1, <3>2, <3>3, <3>4 DEF ReturnInv, Have
  <2>8. QED BY <2>1, <2>5, <2>6, <2>7
<1>3. QED BY <1>1, <1>2

(* A sync call that returns without an exception was answered, also when   *)
(* its timeout and the answer come together.                               *)
THEOREM ReturnsAnswered == Spec => []ReturnMeansAnswered
<1>1. ASSUME Inv, MadeInv, ReturnInv, [Next]_vars PROVE ReturnInv'
  <2>1. \A c \in Client, x \in Xid : request'[<<c, x>>] # None =>
          x \in missions'[c] \/ answers'[<<c, x>>] # <<>>
    <3> SUFFICES ASSUME NEW c \in Client, NEW x \in Xid,
                        request'[<<c, x>>] # None
                 PROVE  x \in missions'[c] \/ answers'[<<c, x>>] # <<>>
      OBVIOUS
    <3>1. <<c, x>> \in Call
      BY DEF Call
    <3>2. CASE request[<<c, x>>] = None
      BY <1>1, <3>2, NewHasMission
    <3>3. CASE request[<<c, x>>] # None
      <4>1. x \in missions[c] \/ answers[<<c, x>>] # <<>>
        BY <1>1, <3>3 DEF ReturnInv
      <4>2. CASE x \in missions[c]
        BY <1>1, <4>2, ErasedIsAnswered
      <4>3. CASE answers[<<c, x>>] # <<>>
        BY <1>1, <3>1, <4>3, AnswersStay
      <4>4. QED BY <4>1, <4>2, <4>3
    <3>4. QED BY <3>2, <3>3
  <2>2. \A id \in Call : outcome'[id] \in {"result", "empty"} =>
          answers'[id] # <<>>
    BY <1>1, EndsAnswered, AnswersStay
  <2>3. QED BY <2>1, <2>2 DEF ReturnInv, ReturnMeansAnswered
<1>2. Init => ReturnInv
  <2>1. Init => \A c \in Client, x \in Xid : request[<<c, x>>] = None
    BY DEF Init, Call
  <2>2. Init => \A id \in Call : outcome[id] = "none"
    BY DEF Init
  <2>3. QED BY <2>1, <2>2 DEF ReturnInv, ReturnMeansAnswered
<1>3. ReturnInv => ReturnMeansAnswered
  BY DEF ReturnInv
<1>4. QED
  BY <1>1, <1>2, <1>3, InitInv, NextInv, InitMadeInv, NextMadeInv, PTL DEF Spec

-----------------------------------------------------------------------------
(* The timer of an untimed async call.                                     *)

Waits(id) ==
  id[2] \in missions[id[1]] /\ request[id].trunk = "own" /\ ~request[id].timed

HeldInv ==
  /\ \A id \in Call : request[id] = None => timer[id] = "none"
  /\ \A id \in Call : Waits(id) => timer[id] \in {"none", "armed"}
  /\ \A t \in Thread : at[t].pc = "send" /\ Waits(Made(t)) =>
       timer[Made(t)] = "armed"
  /\ \A id \in sent : Waits(id) => timer[id] = "armed"

LEMMA HeldKept ==
  ASSUME Inv, HeldInv, request' = request,
         \A c \in Client : missions'[c] \subseteq missions[c],
         \A id \in Call : request[id] = None => timer'[id] = timer[id],
         \A id \in Call : Waits(id)' => timer'[id] \in {timer[id], "armed"},
         \A t \in Thread : at'[t].pc = "send" =>
           at[t].pc # "idle" /\ at'[t].xid = at[t].xid
           /\ (at[t].pc = "send" \/ timer'[Made(t)] = "armed"),
         \A id \in sent' :
           id \in sent \/ \E t \in Thread : at[t].pc = "send" /\ id = Made(t)
  PROVE  HeldInv'
<1>1. \A id \in Call : Waits(id)' => Waits(id)
  BY DEF Waits, Call
<1>2. sent \subseteq Call /\ (\A t \in Thread : at[t].pc # "idle" => Made(t) \in Call)
  BY MadeIsCall DEF Inv, TypeInv, TypeOK
<1>3. \A id \in Call : request'[id] = None => timer'[id] = "none"
  BY DEF HeldInv
<1>4. \A id \in Call : Waits(id)' => timer'[id] \in {"none", "armed"}
  BY <1>1 DEF HeldInv
<1>5. ASSUME NEW t \in Thread, at'[t].pc = "send", Waits(Made(t))'
      PROVE  timer'[Made(t)'] = "armed"
  <2>1. Made(t)' = Made(t) /\ Made(t) \in Call
    BY <1>2, <1>5 DEF Made
  <2>2. Waits(Made(t)) /\ timer'[Made(t)] \in {timer[Made(t)], "armed"}
    <3>1. PICK id \in Call : id = Made(t)
      BY <2>1
    <3>2. Waits(id)'
      BY <1>5, <2>1, <3>1 DEF Waits
    <3>3. QED BY <1>1, <3>1, <3>2
  <2>3. QED BY <1>5, <2>1, <2>2 DEF HeldInv
<1>6. ASSUME NEW id \in sent', Waits(id)' PROVE timer'[id] = "armed"
  BY <1>1, <1>2, <1>6 DEF HeldInv
<1>7. QED BY <1>3, <1>4, <1>5, <1>6 DEF HeldInv

LEMMA AllocHeldInv ==
  ASSUME Inv, MadeInv, HeldInv, NEW t \in Thread, NEW style \in Style,
         NEW timed \in Timed, NEW kind \in Kind, NEW trunk \in FreshPointer,
         NEW handle \in FreshPointer,
         AllocXid(t, style, timed, kind, trunk, handle)
  PROVE  HeldInv'
<1> DEFINE c == Home[t]
           x == lastXid[c] + 1
<1>1. PICK new \in Call : new = <<c, x>>
  BY AllocTypeInv DEF Inv
<1>2. c \in Client /\ x \in Xid /\ lastXid[c] \in Nat
  <2>1. c \in Client
    BY SessionAssumption
  <2>2. x \in Xid
    BY DEF AllocXid
  <2>3. lastXid[c] \in Nat
    BY <2>1, SessionAssumption DEF Inv, TypeInv, TypeOK
  <2>4. QED BY <2>1, <2>2, <2>3
<1>3. request[new] = None
  BY <1>1, <1>2 DEF Inv, FreshInv
<1>4. PICK r \in Request :
        /\ request' = [request EXCEPT ![new] = r]
        /\ r.trunk = IF style = "async" THEN "own" ELSE trunk
        /\ at' = [at EXCEPT ![t] =
             [pc |-> IF style = "async" THEN "timer" ELSE "send", xid |-> x]]
        /\ missions' = [missions EXCEPT ![c] = @ \cup {x}]
        /\ UNCHANGED <<timer, sent>>
  <2> DEFINE r == [style |-> style, timed |-> timed, kind |-> kind,
                   trunk |-> IF style = "async" THEN "own" ELSE trunk,
                   handle |-> handle]
  <2>1. r \in Request
    BY DEF Request
  <2>2. request' = [request EXCEPT ![new] = r]
    BY <1>1 DEF AllocXid
  <2>3. QED BY <2>1, <2>2 DEF AllocXid, netVars
<1> HIDE DEF c, x
<1>5. /\ request \in [Call -> Request \cup {None}] /\ sent \subseteq Call
      /\ missions \in [Client -> SUBSET Xid]
      /\ at \in [Thread -> [pc : {"idle", "timer", "send", "wait", "check"},
                            xid : 0 .. MaxXid]]
  BY DEF Inv, TypeInv, TypeOK
<1>6. /\ request'[new] = r /\ r # None
      /\ \A id \in Call : id # new => request'[id] = request[id]
  BY <1>4, <1>5, NoneIsNoRequest
<1>7. ASSUME NEW id \in Call, id # new PROVE Waits(id)' <=> Waits(id)
  <2>1. PICK d \in Client, y \in Xid : id = <<d, y>>
    BY DEF Call
  <2>2. y \in missions'[d] <=> y \in missions[d]
    BY <1>1, <1>2, <1>4, <1>5, <1>7, <2>1
  <2>3. QED BY <1>6, <1>7, <2>1, <2>2 DEF Waits
<1>8. \A id \in Call : request'[id] = None => timer'[id] = "none"
  BY <1>4, <1>6 DEF HeldInv
<1>9. \A id \in Call : Waits(id)' => timer'[id] \in {"none", "armed"}
  BY <1>3, <1>4, <1>7 DEF HeldInv
<1>10. ASSUME NEW u \in Thread, at'[u].pc = "send", Waits(Made(u))'
       PROVE  timer'[Made(u)'] = "armed"
  <2>1. CASE u = t
    <3>1. at'[t].pc = (IF style = "async" THEN "timer" ELSE "send") /\ at'[t].xid = x
      BY <1>4, <1>5
    <3>2. style # "async" /\ Made(t)' = new
      BY <1>1, <1>10, <2>1, <3>1 DEF Made, c
    <3>3. r.trunk = trunk /\ trunk # "own"
      BY <1>4, <3>2, SessionAssumption
    <3>4. request'[new].trunk = "own"
      BY <1>10, <2>1, <3>2 DEF Waits
    <3>5. QED BY <1>6, <3>3, <3>4
  <2>2. CASE u # t
    <3>1. at'[u] = at[u]
      BY <1>4, <1>5, <2>2
    <3>2. Made(u)' = Made(u)
      BY <3>1 DEF Made
    <3>3. PICK id \in Call : id = Made(u) /\ id # new
      BY <1>3, <1>10, <3>1, MadeIsCall DEF MadeInv, Inv
    <3>4. Waits(id)'
      BY <1>10, <3>2, <3>3 DEF Waits
    <3>5. Waits(Made(u))
      BY <1>7, <3>3, <3>4
    <3>6. QED BY <1>4, <1>10, <3>1, <3>2, <3>5 DEF HeldInv
  <2>3. QED BY <2>1, <2>2
<1>11. ASSUME NEW id \in sent', Waits(id)' PROVE timer'[id] = "armed"
  <2>1. id \in sent /\ id \in Call /\ id # new
    BY <1>3, <1>4, <1>5, <1>11 DEF MadeInv
  <2>2. QED BY <1>4, <1>7, <1>11, <2>1 DEF HeldInv
<1>12. QED BY <1>8, <1>9, <1>10, <1>11 DEF HeldInv

LEMMA ThreadHeldInv ==
  ASSUME Inv, MadeInv, HeldInv, NEW t \in Thread,
         SetTimer(t) \/ SetTimerFails(t) \/ Send(t)
         \/ Wakes(t) \/ TimesOut(t) \/ ChecksMission(t)
  PROVE  HeldInv'
<1>1. at[t].pc # "idle" /\ UNCHANGED <<request, missions>>
  BY DEF SetTimer, SetTimerFails, Send, Wakes, TimesOut, ChecksMission, ThreadAt
<1>2. Made(t) \in Call /\ request[Made(t)] # None
  BY <1>1, MadeIsCall DEF Inv, MadeInv
<1>3. \/ timer' = timer
      \/ timer' = [timer EXCEPT ![Made(t)] = "armed"]
  BY DEF SetTimer, SetTimerFails, Send, Wakes, TimesOut, ChecksMission
<1>4. /\ \A id \in Call : request[id] = None => timer'[id] = timer[id]
      /\ \A id \in Call : timer'[id] \in {timer[id], "armed"}
  BY <1>2, <1>3 DEF Inv, TypeInv, TypeOK
<1>5. at \in [Thread -> [pc : {"idle", "timer", "send", "wait", "check"},
                         xid : 0 .. MaxXid]]
  BY DEF Inv, TypeInv, TypeOK
<1>6. CASE SetTimer(t)
  <2>1. at[t].pc = "timer" /\ Go(t, "send") /\ sent' = sent
    BY <1>6 DEF SetTimer, ThreadAt, netVars
  <2>2. timer'[Made(t)] = "armed"
    BY <1>2, <1>6 DEF SetTimer, Inv, TypeInv, TypeOK
  <2>3. \A u \in Thread : at'[u].pc = "send" =>
          at[u].pc # "idle" /\ at'[u].xid = at[u].xid
          /\ (at[u].pc = "send" \/ timer'[Made(u)] = "armed")
    BY <1>5, <2>1, <2>2 DEF Go
  <2>4. QED BY <1>1, <1>4, <2>1, <2>3, HeldKept
<1>7. CASE ~SetTimer(t)
  <2>1. \A u \in Thread : at'[u].pc = "send" => at'[u] = at[u]
    <3>1. Return(t) \/ \E pc \in {"wait", "check"} : Go(t, pc)
      BY <1>7 DEF SetTimerFails, Send, Wakes, TimesOut, ChecksMission
    <3>2. CASE Return(t)
      BY <1>5, <3>2 DEF Return, Idle
    <3>3. CASE \E pc \in {"wait", "check"} : Go(t, pc)
      BY <1>5, <3>3 DEF Go
    <3>4. QED BY <3>1, <3>2, <3>3
  <2>2. \A id \in sent' :
          id \in sent \/ \E u \in Thread : at[u].pc = "send" /\ id = Made(u)
    BY <1>7 DEF SetTimerFails, Send, Wakes, TimesOut, ChecksMission, ThreadAt, netVars
  <2>3. \A u \in Thread : at'[u].pc = "send" =>
          at[u].pc # "idle" /\ at'[u].xid = at[u].xid
          /\ (at[u].pc = "send" \/ timer'[Made(u)] = "armed")
    BY <2>1
  <2>4. QED BY <1>1, <1>4, <2>2, <2>3, HeldKept
<1>8. QED BY <1>6, <1>7

LEMMA OtherHeldInv ==
  ASSUME Inv, MadeInv, HeldInv,
         \/ \E c \in Client : RecvReply(c) \/ FindAgain(c) \/ Answer(c)
         \/ \E c \in Client, x \in Xid : CallNext(c, x)
         \/ UNCHANGED vars
  PROVE  HeldInv'
<1>1. UNCHANGED <<request, at, sent>>
  <2>1. ASSUME NEW c \in Client, NEW x \in Xid, CallNext(c, x)
        PROVE  UNCHANGED <<request, at, sent>>
    BY <2>1, JobEnds DEF Inv, CallNext, IoFailed, Fire, RpcTimeout, ReleaseOnExit,
       ProcessRequest, clientVars, netVars
  <2>2. QED BY <2>1 DEF RecvReply, FindAgain, Answer, vars, clientVars, netVars
<1>2. missions \in [Client -> SUBSET Xid] /\ timer \in [Call -> {"none", "armed",
        "firing", "exiting", "stale", "released"}]
  BY DEF Inv, TypeInv, TypeOK
<1>3. ASSUME \A c \in Client : missions'[c] \subseteq missions[c],
             \A id \in Call : request[id] = None => timer'[id] = timer[id],
             \A id \in Call : Waits(id)' => timer'[id] \in {timer[id], "armed"}
      PROVE  HeldInv'
  <2>1. \A t \in Thread : at'[t].pc = "send" =>
          at[t].pc # "idle" /\ at'[t].xid = at[t].xid
          /\ (at[t].pc = "send" \/ timer'[Made(t)] = "armed")
    BY <1>1
  <2>2. \A id \in sent' :
          id \in sent \/ \E t \in Thread : at[t].pc = "send" /\ id = Made(t)
    BY <1>1
  <2>3. QED BY <1>1, <1>3, <2>1, <2>2, HeldKept
<1>4. ASSUME NEW c \in Client, Answer(c) PROVE HeldInv'
  <2>1. PICK x \in Xid : x = recv[c].xid
    BY <1>4 DEF Answer, Inv, TypeInv, PlaceOK
  <2>2. PICK id \in Call : id = <<c, x>>
    BY DEF Call
  <2>3. x \in missions[c] /\ request[id] # None
    BY <1>4, <2>1, <2>2 DEF Answer, Inv, ClientInv
  <2>4. missions' = [missions EXCEPT ![c] = @ \ {x}]
    BY <1>4, <2>1 DEF Answer, Erases
  <2>5. \A other \in Call : other # id => timer'[other] = timer[other]
    BY <1>2, <1>4, <2>1, <2>2 DEF Answer, CancelTimer
  <2>6. ~ Waits(id)'
    BY <1>2, <2>2, <2>4 DEF Waits
  <2>7. \A d \in Client : missions'[d] \subseteq missions[d]
    BY <1>2, <2>4
  <2>8. QED BY <1>3, <2>3, <2>5, <2>6, <2>7
<1>5. CASE \E c \in Client : RecvReply(c) \/ FindAgain(c)
  BY <1>3, <1>5 DEF RecvReply, FindAgain
<1>6. CASE UNCHANGED vars
  BY <1>3, <1>6 DEF vars, clientVars
<1>7. ASSUME NEW c \in Client, NEW x \in Xid, CallNext(c, x) PROVE HeldInv'
  <2>1. PICK id \in Call : id = <<c, x>>
    BY DEF Call
  <2>2. CASE IoFailed(c, x)
    <3>1. timer' = timer /\ (UNCHANGED missions \/ Erases(c, x))
      BY <2>2 DEF IoFailed, IoFailedLate, IoFailedUnnoticed, IoFailedCrashes
    <3>2. \A d \in Client : missions'[d] \subseteq missions[d]
      BY <1>2, <3>1 DEF Erases
    <3>3. QED BY <1>3, <3>1, <3>2
  <2>3. CASE Fire(c, x) \/ RpcTimeout(c, x) \/ ReleaseOnExit(c, x)
    <3>1. /\ UNCHANGED missions
          /\ \A other \in Call : other # id => timer'[other] = timer[other]
          /\ timer[id] \notin {"none", "armed"} \/ request[id].timed
          /\ timer[id] # "none"
      BY <1>2, <2>1, <2>3 DEF Fire, RpcTimeout, ReleaseOnExit
    <3>2. request[id] # None /\ ~ Waits(id)
      BY <3>1 DEF HeldInv, Waits
    <3>3. ~ Waits(id)'
      BY <1>1, <3>1, <3>2 DEF Waits
    <3>4. QED BY <1>3, <3>1, <3>2, <3>3
  <2>4. CASE ProcessRequest(c, x)
    BY <1>3, <2>4 DEF ProcessRequest, clientVars
  <2>5. CASE CallStub(<<c, x>>) \/ ReplyThrows(<<c, x>>)
    BY <1>3, <2>5, JobEnds DEF Inv
  <2>6. QED BY <1>7, <2>2, <2>3, <2>4, <2>5 DEF CallNext
<1>8. QED BY <1>4, <1>5, <1>6, <1>7

(* While an untimed async call waits, its timer is there to be cancelled,  *)
(* for any number of calls and faults.                                     *)
THEOREM TimerIsHeld == Spec => []TimerHeldUntilAnswer
<1>1. ASSUME Inv, MadeInv, HeldInv, [Next]_vars PROVE HeldInv'
  <2>1. ASSUME NEW t \in Thread, ThreadNext(t) PROVE HeldInv'
    BY <1>1, <2>1, AllocHeldInv, ThreadHeldInv DEF ThreadNext
  <2>2. QED BY <1>1, <2>1, OtherHeldInv DEF Next
<1>2. Init => HeldInv
  <2>1. Init => \A id \in Call : request[id] = None /\ timer[id] = "none"
    BY DEF Init
  <2>2. Init => \A id \in Call : ~ Waits(id)
    BY <2>1 DEF Waits, None
  <2>3. Init => sent = {} /\ \A t \in Thread : at[t].pc = "idle"
    BY DEF Init, Idle
  <2>4. QED BY <2>1, <2>2, <2>3 DEF HeldInv
<1>3. HeldInv => TimerHeldUntilAnswer
  BY DEF HeldInv, Waits, TimerHeldUntilAnswer
<1>4. QED
  BY <1>1, <1>2, <1>3, InitInv, NextInv, InitMadeInv, NextMadeInv, PTL DEF Spec
=============================================================================
