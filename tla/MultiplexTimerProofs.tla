------------------------ MODULE MultiplexTimerProofs ------------------------
(***************************************************************************)
(* For any number of timers and threads: every handle and argument is      *)
(* freed once, and nobody is left with a pointer to it, but where stop()   *)
(* caught a timer that a callback had ended.                               *)
(*                                                                         *)
(* The right to free a timer is a token: from the thread that takes the    *)
(* ladder it goes to the completion port's queue and from there to the     *)
(* completion thread, and is in one of these places only; a timer nobody   *)
(* asked a callback to end has none, and is cancel_timer's.                *)
(***************************************************************************)
EXTENDS MultiplexTimer, TLAPS, SequenceTheorems

Slots == 1 .. Len(complete)

(* The types, and a thread that does something does it for a timer.        *)
WorkOK ==
  \A w \in Worker : work[w].at # "idle" => work[w].timer \in Timer

Types == TypeOK /\ WorkOK

(* What the close-down has come to.                                        *)
CloseInv ==
  /\ owner = "open" => systimer = "alive"
  /\ owner = "stopping" => systimer = "deleting"
  /\ owner = "ending" => systimer = "deleting" /\ exiting = "timer_all_exited"
  /\ owner = "gone" => systimer = "invalid" /\ exiting = "timer_all_exited"
  /\ owner # "open" => NobodyCancels
  /\ systimer # "invalid" => caught = {}
  /\ systimer = "invalid" =>
       \/ exiting = "timer_all_exited"
       \/ \A t \in listed : asked[t] = "callback" => t \in caught

(* What is listed is alive until it is all cleaned up, and then it may be  *)
(* freed again only where stop() caught it.                                *)
MemoryInv(t) ==
  /\ t \notin caught => freed[t] <= 1
  /\ cleaned[t] <= freed[t]
  /\ t \in listed => freed[t] = IF systimer = "invalid" THEN 1 ELSE 0
  /\ t \in listed => cleaned[t] = freed[t]

HandleInv(t) ==
  /\ native[t] = "armed" => t \in listed
  /\ asked[t] = "api" => native[t] = "deleted"
  /\ than[t] # "zero" => asked[t] = "callback"

(* A thread of the pool, in a callback or behind it, has a listed timer;   *)
(* the one about to post has the token.                                    *)
WorkInv(w) ==
  IF work[w].at = "idle" THEN work[w].timer = "none"
  ELSE /\ work[w].timer \in listed /\ native[work[w].timer] # "none"
       /\ systimer # "invalid"
       /\ work[w].at \in {"claim", "post"} => than[work[w].timer] # "zero"

PostInv(w) ==
  work[w].at = "post" =>
    /\ than[work[w].timer] = "processing"
    /\ exiting # work[w].timer
    /\ \A i \in Slots : complete[i] # work[w].timer
    /\ \A v \in Worker : work[v] = work[w] => v = w

QueueInv(i) ==
  complete[i] \in Timer =>
    /\ complete[i] \in listed /\ than[complete[i]] = "processing"
    /\ exiting # complete[i]
    /\ \A j \in Slots : complete[j] = complete[i] => j = i

ExitInv ==
  exiting \in Timer =>
    exiting \in listed /\ than[exiting] = "processing" /\ native[exiting] = "deleted"

TimerInv ==
  /\ Types
  /\ CloseInv
  /\ \A t \in Timer : MemoryInv(t)
  /\ \A t \in Timer : HandleInv(t)
  /\ \A w \in Worker : WorkInv(w)
  /\ \A w \in Worker : PostInv(w)
  /\ \A i \in Slots : QueueInv(i)
  /\ ExitInv

-----------------------------------------------------------------------------
(* Types.                                                                  *)

LEMMA InitType == Init => Types
BY DEF Init, Types, TypeOK, WorkOK, Idle

(* A record of a thread keeps its fields' types.                           *)
LEMMA WorkType ==
  ASSUME TypeOK, NEW w \in Worker,
         NEW a \in {"idle", "callback", "claim", "post"}
  PROVE  /\ [work EXCEPT ![w] = [@ EXCEPT !.at = a]] \in
              [Worker -> [at : {"idle", "callback", "claim", "post"},
                          timer : Timer \cup {"none"}]]
         /\ [work EXCEPT ![w] = Idle] \in
              [Worker -> [at : {"idle", "callback", "claim", "post"},
                          timer : Timer \cup {"none"}]]
BY DEF TypeOK, Idle

LEMMA ReleaseType ==
  ASSUME TypeOK, NEW t \in Timer, Release(t)
  PROVE  /\ listed' \subseteq Timer
         /\ freed' \in [Timer -> Nat] /\ cleaned' \in [Timer -> Nat]
BY DEF TypeOK, Release

LEMMA CleanupType ==
  ASSUME TypeOK, CleanupAll
  PROVE  /\ listed' \subseteq Timer
         /\ freed' \in [Timer -> Nat] /\ cleaned' \in [Timer -> Nat]
         /\ systimer' \in {"alive", "deleting", "invalid"}
<1>1. listed' \subseteq Timer /\ systimer' \in {"alive", "deleting", "invalid"}
  BY DEF TypeOK, CleanupAll
<1>2. \A t \in Timer : freed[t] + 1 \in Nat /\ freed[t] \in Nat
  BY DEF TypeOK
<1>3. \A t \in Timer : cleaned[t] + 1 \in Nat /\ cleaned[t] \in Nat
  BY DEF TypeOK
<1>4. freed' \in [Timer -> Nat]
  BY <1>2 DEF CleanupAll
<1>5. cleaned' \in [Timer -> Nat]
  BY <1>3 DEF CleanupAll
<1> QED BY <1>1, <1>4, <1>5

LEMMA TypeStep == Types /\ [Next]_vars => Types'
<1> SUFFICES ASSUME Types, [Next]_vars PROVE Types'
  OBVIOUS
<1>0. TypeOK /\ WorkOK
  BY DEF Types
<1>1. ASSUME NEW t \in Timer, ReadyTimer(t) \/ StartTimer(t) \/ StartTimerFails(t)
      PROVE  Types'
  <2>1. CASE ReadyTimer(t)
    BY <1>0, <2>1 DEF ReadyTimer, Types, TypeOK, WorkOK, threads, close
  <2>2. CASE StartTimer(t)
    BY <1>0, <2>2 DEF StartTimer, Types, TypeOK, WorkOK, memory, threads, close
  <2>3. CASE StartTimerFails(t)
    BY <1>0, <2>3 DEF StartTimerFails, Types, TypeOK, WorkOK, threads, close
  <2> QED BY <1>1, <2>1, <2>2, <2>3
<1>2. ASSUME NEW t \in Timer, CancelTimer(t) PROVE Types'
  BY <1>0, <1>2 DEF CancelTimer, Types, TypeOK, WorkOK, threads, close
<1>3. ASSUME NEW t \in Timer, TimerCancelled(t) PROVE Types'
  BY <1>0, <1>3, ReleaseType
  DEF TimerCancelled, Types, TypeOK, WorkOK, threads, close
<1>4. ASSUME NEW t \in Timer, NEW w \in Worker, Crack(w, t) PROVE Types'
  BY <1>0, <1>4 DEF Crack, Types, TypeOK, WorkOK, memory, close
<1>5. ASSUME NEW w \in Worker, CancelWhenCallbackExit(w) PROVE Types'
  BY <1>0, <1>5 DEF CancelWhenCallbackExit, Types, TypeOK, WorkOK, threads, close
<1>6. ASSUME NEW w \in Worker, CallbackReturns(w) PROVE Types'
  <2>1. work' \in [Worker -> [at : {"idle", "callback", "claim", "post"},
                              timer : Timer \cup {"none"}]]
    BY <1>0, <1>6, WorkType DEF CallbackReturns
  <2>2. WorkOK'
    BY <1>0, <1>6 DEF CallbackReturns, WorkOK, TypeOK, Idle
  <2> QED BY <1>0, <1>6, <2>1, <2>2 DEF CallbackReturns, Types, TypeOK, memory, close
<1>7. ASSUME NEW w \in Worker, Claim(w) PROVE Types'
  <2>1. work' \in [Worker -> [at : {"idle", "callback", "claim", "post"},
                              timer : Timer \cup {"none"}]]
    BY <1>0, <1>7, WorkType DEF Claim
  <2>2. WorkOK'
    BY <1>0, <1>7 DEF Claim, WorkOK, TypeOK, Idle
  <2>3. than' \in [Timer -> {"zero", "ladder", "processing"}]
    BY <1>0, <1>7 DEF Claim, TypeOK
  <2> QED BY <1>0, <1>7, <2>1, <2>2, <2>3 DEF Claim, Types, TypeOK, memory, close
<1>8. ASSUME NEW w \in Worker, Post(w) PROVE Types'
  <2>1. work' \in [Worker -> [at : {"idle", "callback", "claim", "post"},
                              timer : Timer \cup {"none"}]]
    BY <1>0, <1>8, WorkType DEF Post
  <2>2. WorkOK'
    BY <1>0, <1>8 DEF Post, WorkOK, TypeOK, Idle
  <2>3. complete' \in Seq(Timer \cup {"timer_all_exited"})
    BY <1>0, <1>8 DEF Post, TypeOK, WorkOK
  <2> QED BY <1>0, <1>8, <2>1, <2>2, <2>3 DEF Post, Types, TypeOK, memory, close
<1>9. ASSUME TakeCompletion PROVE Types'
  <2>1. /\ complete' \in Seq(Timer \cup {"timer_all_exited"})
        /\ Head(complete) \in Timer \cup {"timer_all_exited"}
    BY <1>0, <1>9 DEF TakeCompletion, TypeOK
  <2>2. native' \in [Timer -> {"none", "armed", "deleted"}]
    BY <1>0, <1>9 DEF TakeCompletion, TypeOK
  <2> QED
    BY <1>0, <1>9, <2>1, <2>2
    DEF TakeCompletion, Types, TypeOK, WorkOK, memory, close
<1>10. ASSUME TimerExit PROVE Types'
  <2>1. Release(exiting) /\ exiting \in Timer
    BY <1>10 DEF TimerExit
  <2> QED
    BY <1>0, <1>10, <2>1, ReleaseType DEF TimerExit, Types, TypeOK, WorkOK, close
<1>11. ASSUME Stopped \/ Ended PROVE Types'
  <2>1. CleanupAll /\ owner' \in {"stopped", "gone"}
    BY <1>11 DEF Stopped, Ended
  <2>2. UNCHANGED <<native, than, asked, work, complete, port_open, exiting>>
    BY <2>1 DEF CleanupAll
  <2>3. caught' \subseteq Timer
    BY <1>0, <1>11 DEF Stopped, Ended, TypeOK
  <2> QED
    BY <1>0, <2>1, <2>2, <2>3, CleanupType DEF Types, TypeOK, WorkOK
<1>12. ASSUME Stop \/ Destroy \/ Join PROVE Types'
  BY <1>0, <1>12 DEF Stop, Destroy, Join, Types, TypeOK, WorkOK, memory
<1>13. ASSUME PostAllExited PROVE Types'
  <2>1. complete' \in Seq(Timer \cup {"timer_all_exited"})
    BY <1>0, <1>13 DEF PostAllExited, TypeOK
  <2> QED
    BY <1>0, <1>13, <2>1 DEF PostAllExited, Types, TypeOK, WorkOK, memory
<1>14. ASSUME UNCHANGED vars PROVE Types'
  BY <1>0, <1>14 DEF vars, memory, threads, close, Types, TypeOK, WorkOK
<1> QED
  BY <1>1, <1>2, <1>3, <1>4, <1>5, <1>6, <1>7, <1>8, <1>9, <1>10, <1>11, <1>12,
     <1>13, <1>14
  DEF Next, WorkerStep, CompletionStep, CloseStep

(* The state keeps its types, for any number of timers and threads.        *)
THEOREM TimersTypeCorrect == Spec => []TypeOK
<1>1. Types => TypeOK
  BY DEF Types
<1> QED BY <1>1, InitType, TypeStep, PTL DEF Spec
-----------------------------------------------------------------------------
(* The token of a timer, step by step.                                     *)

LEMMA InitTimerInv == Init => TimerInv
<1> SUFFICES ASSUME Init PROVE TimerInv
  OBVIOUS
<1>1. Types
  BY InitType
<1>2. CloseInv
  BY DEF Init, CloseInv
<1>3. \A t \in Timer : MemoryInv(t) /\ HandleInv(t)
  <2> TAKE t \in Timer
  <2>1. /\ freed[t] = 0 /\ cleaned[t] = 0 /\ listed = {}
        /\ native[t] = "none" /\ asked[t] = "no" /\ than[t] = "zero"
    BY DEF Init
  <2> QED BY <2>1 DEF MemoryInv, HandleInv
<1>4. \A w \in Worker : WorkInv(w) /\ PostInv(w)
  BY DEF Init, WorkInv, PostInv, Idle
<1>5. Slots = {}
  BY DEF Init, Slots
<1>6. ExitInv
  BY NamesApart DEF Init, ExitInv
<1> QED BY <1>1, <1>2, <1>3, <1>4, <1>5, <1>6 DEF TimerInv

(* What the types say of the numbers and names in the state.               *)
LEMMA TimerFacts ==
  ASSUME TimerInv
  PROVE  /\ TypeOK /\ WorkOK /\ listed \subseteq Timer
         /\ \A t \in Timer : freed[t] \in Nat /\ cleaned[t] \in Nat
         /\ \A w \in Worker : work[w].at # "idle" <=> work[w].timer \in Timer
         /\ Len(complete) \in Nat
         /\ \A i \in Slots : complete[i] \in Timer \cup {"timer_all_exited"}
         /\ \A w \in Worker, t \in Timer : Runs(w, t) => t \in listed
<1>1. TypeOK /\ WorkOK /\ \A w \in Worker : WorkInv(w)
  BY DEF TimerInv, Types
<1>2. \A t \in Timer : freed[t] \in Nat /\ cleaned[t] \in Nat
  BY <1>1 DEF TypeOK
<1>3. \A w \in Worker : work[w].at # "idle" <=> work[w].timer \in Timer
  BY <1>1, NamesApart DEF WorkOK, WorkInv
<1>4. Len(complete) \in Nat /\ \A i \in Slots : complete[i] \in Timer \cup {"timer_all_exited"}
  BY <1>1 DEF TypeOK, Slots
<1>5. \A w \in Worker, t \in Timer : Runs(w, t) => t \in listed
  BY <1>1, <1>3 DEF Runs, WorkInv
<1> QED BY <1>1, <1>2, <1>3, <1>4, <1>5 DEF TypeOK

(* A timer is released only while it is listed, and nothing was cleaned up *)
(* or stop() caught it.                                                    *)
LEMMA ReleaseKeeps ==
  ASSUME TimerInv, NEW t \in listed, Release(t),
         systimer # "invalid" \/ t \in caught,
         UNCHANGED <<systimer, caught>>
  PROVE  \A u \in Timer : MemoryInv(u)'
<1>1. t \in Timer /\ TypeOK /\ \A u \in Timer : MemoryInv(u)
  BY TimerFacts DEF TimerInv
<1>2. PICK n \in Nat : /\ freed[t] = n /\ cleaned[t] = n
                       /\ n = 0 \/ t \in caught
  <2>1. freed[t] \in Nat
    BY <1>1, TimerFacts
  <2> QED BY <1>1, <2>1 DEF MemoryInv
<1>3. freed' = [freed EXCEPT ![t] = n + 1] /\ cleaned' = [cleaned EXCEPT ![t] = n + 1]
  BY <1>2 DEF Release
<1>4. listed' = listed \ {t}
  BY DEF Release
<1>5. MemoryInv(t)'
  BY <1>1, <1>2, <1>3, <1>4 DEF MemoryInv, TypeOK
<1>6. \A u \in Timer : u # t => MemoryInv(u)'
  BY <1>1, <1>3, <1>4 DEF MemoryInv, TypeOK
<1> QED BY <1>5, <1>6

(* What is left alone by a step that touches neither memory nor the close. *)
LEMMA ReadyKeeps ==
  ASSUME TimerInv, Types', NEW t \in Timer, ReadyTimer(t)
  PROVE  TimerInv'
<1>0. /\ UNCHANGED <<native, than, asked, freed, cleaned, work, complete>>
      /\ UNCHANGED <<exiting, port_open, systimer, owner, caught>>
      /\ owner = "open" /\ freed[t] = 0 /\ listed' = listed \cup {t}
  BY DEF ReadyTimer, threads, close
<1>1. CloseInv'
  BY <1>0 DEF TimerInv, CloseInv
<1>2. \A u \in Timer : MemoryInv(u)'
  <2>1. systimer = "alive"
    BY <1>0 DEF TimerInv, CloseInv
  <2>2. cleaned[t] = 0
    BY <1>0, TimerFacts DEF TimerInv, MemoryInv
  <2> QED BY <1>0, <2>1, <2>2 DEF TimerInv, MemoryInv
<1>3. \A u \in Timer : HandleInv(u)'
  BY <1>0 DEF TimerInv, HandleInv
<1>4. \A w \in Worker : WorkInv(w)'
  BY <1>0 DEF TimerInv, WorkInv
<1>5. \A w \in Worker : PostInv(w)'
  BY <1>0 DEF TimerInv, PostInv, Slots
<1>6. \A i \in Slots' : QueueInv(i)'
  BY <1>0 DEF TimerInv, QueueInv, Slots
<1>7. ExitInv'
  BY <1>0 DEF TimerInv, ExitInv
<1> QED BY <1>1, <1>2, <1>3, <1>4, <1>5, <1>6, <1>7 DEF TimerInv

LEMMA StartKeeps ==
  ASSUME TimerInv, Types', NEW t \in Timer, StartTimer(t)
  PROVE  TimerInv'
<1>0. /\ UNCHANGED <<listed, than, asked, freed, cleaned, work, complete>>
      /\ UNCHANGED <<exiting, port_open, systimer, owner, caught>>
      /\ t \in listed /\ asked[t] = "no" /\ native[t] = "none"
      /\ native' = [native EXCEPT ![t] = "armed"]
      /\ native \in [Timer -> {"none", "armed", "deleted"}]
      /\ owner = "open"
  BY TimerFacts DEF StartTimer, threads, close, memory, TypeOK
<1>1. CloseInv'
  BY <1>0 DEF TimerInv, CloseInv
<1>2. \A u \in Timer : MemoryInv(u)'
  BY <1>0 DEF TimerInv, MemoryInv
<1>3. \A u \in Timer : HandleInv(u)'
  BY <1>0 DEF TimerInv, HandleInv
<1>4. \A w \in Worker : WorkInv(w)'
  BY <1>0, TimerFacts DEF TimerInv, WorkInv
<1>5. \A w \in Worker : PostInv(w)'
  BY <1>0 DEF TimerInv, PostInv, Slots
<1>6. \A i \in Slots' : QueueInv(i)'
  BY <1>0 DEF TimerInv, QueueInv, Slots
<1>7. ExitInv'
  BY <1>0 DEF TimerInv, ExitInv
<1> QED BY <1>1, <1>2, <1>3, <1>4, <1>5, <1>6, <1>7 DEF TimerInv

(* Nothing runs for a timer that was never armed.                          *)
LEMMA StartFailsKeeps ==
  ASSUME TimerInv, Types', NEW t \in Timer, StartTimerFails(t)
  PROVE  TimerInv'
<1>0. /\ UNCHANGED <<native, than, asked, cleaned, work, complete>>
      /\ UNCHANGED <<exiting, port_open, systimer, owner, caught>>
      /\ t \in listed /\ asked[t] = "no" /\ native[t] = "none" /\ owner = "open"
      /\ listed' = listed \ {t} /\ freed' = [freed EXCEPT ![t] = @ + 1]
      /\ freed \in [Timer -> Nat]
  BY TimerFacts DEF StartTimerFails, threads, close, TypeOK
<1>1. CloseInv'
  BY <1>0 DEF TimerInv, CloseInv
<1>2. \A u \in Timer : MemoryInv(u)'
  <2>1. systimer # "invalid"
    BY <1>0 DEF TimerInv, CloseInv
  <2>2. freed[t] = 0 /\ cleaned[t] = 0
    BY <1>0, <2>1 DEF TimerInv, MemoryInv
  <2> QED BY <1>0, <2>1, <2>2 DEF TimerInv, MemoryInv
<1>3. \A u \in Timer : HandleInv(u)'
  BY <1>0 DEF TimerInv, HandleInv
<1>4. \A w \in Worker : WorkInv(w)'
  BY <1>0 DEF TimerInv, WorkInv
<1>5. \A w \in Worker : PostInv(w)'
  BY <1>0 DEF TimerInv, PostInv, Slots
<1>6. than[t] = "zero"
  BY <1>0, TimerFacts DEF TimerInv, HandleInv
<1>7. \A i \in Slots' : QueueInv(i)'
  BY <1>0, <1>6 DEF TimerInv, QueueInv, Slots
<1>8. ExitInv'
  BY <1>0, <1>6 DEF TimerInv, ExitInv
<1> QED BY <1>1, <1>2, <1>3, <1>4, <1>5, <1>7, <1>8 DEF TimerInv

LEMMA CancelKeeps ==
  ASSUME TimerInv, Types', NEW t \in Timer, CancelTimer(t)
  PROVE  TimerInv'
<1>0. /\ UNCHANGED <<listed, than, freed, cleaned, work, complete>>
      /\ UNCHANGED <<exiting, port_open, systimer, owner, caught>>
      /\ t \in listed /\ asked[t] = "no" /\ owner = "open"
      /\ native' = [native EXCEPT ![t] = "deleted"]
      /\ asked' = [asked EXCEPT ![t] = "api"]
      /\ native \in [Timer -> {"none", "armed", "deleted"}]
      /\ asked \in [Timer -> {"no", "api", "callback"}]
  BY TimerFacts DEF CancelTimer, threads, close, TypeOK
<1>1. CloseInv'
  BY <1>0 DEF TimerInv, CloseInv
<1>2. \A u \in Timer : MemoryInv(u)'
  BY <1>0 DEF TimerInv, MemoryInv
<1>3. \A u \in Timer : HandleInv(u)'
  BY <1>0 DEF TimerInv, HandleInv
<1>4. \A w \in Worker : WorkInv(w)'
  BY <1>0, TimerFacts DEF TimerInv, WorkInv
<1>5. \A w \in Worker : PostInv(w)'
  BY <1>0 DEF TimerInv, PostInv, Slots
<1>6. \A i \in Slots' : QueueInv(i)'
  BY <1>0 DEF TimerInv, QueueInv, Slots
<1>7. ExitInv'
  BY <1>0 DEF TimerInv, ExitInv
<1> QED BY <1>1, <1>2, <1>3, <1>4, <1>5, <1>6, <1>7 DEF TimerInv

(* cancel_timer has no rival: the ladder was not set.                      *)
LEMMA CancelledKeeps ==
  ASSUME TimerInv, Types', NEW t \in Timer, TimerCancelled(t)
  PROVE  TimerInv'
<1>0. /\ UNCHANGED <<native, than, asked, work, complete>>
      /\ UNCHANGED <<exiting, port_open, systimer, owner, caught>>
      /\ t \in listed /\ asked[t] = "api" /\ Quiet(t) /\ Release(t)
      /\ listed' = listed \ {t}
  BY DEF TimerCancelled, Release, threads, close
<1>1. owner = "open" /\ systimer = "alive"
  BY <1>0 DEF TimerInv, CloseInv, NobodyCancels
<1>2. CloseInv'
  BY <1>0, <1>1 DEF TimerInv, CloseInv
<1>3. \A u \in Timer : MemoryInv(u)'
  BY <1>0, <1>1, ReleaseKeeps
<1>4. native[t] = "deleted" /\ than[t] # "processing"
  BY <1>0 DEF TimerInv, HandleInv
<1>5. \A u \in Timer : HandleInv(u)'
  BY <1>0, <1>4 DEF TimerInv, HandleInv
<1>6. \A w \in Worker : WorkInv(w)'
  BY <1>0 DEF TimerInv, WorkInv, Quiet, Runs
<1>7. \A w \in Worker : PostInv(w)'
  BY <1>0 DEF TimerInv, PostInv, Slots
<1>8. \A i \in Slots' : QueueInv(i)'
  BY <1>0, <1>4 DEF TimerInv, QueueInv, Slots
<1>9. ExitInv'
  BY <1>0, <1>4 DEF TimerInv, ExitInv
<1> QED BY <1>2, <1>3, <1>5, <1>6, <1>7, <1>8, <1>9 DEF TimerInv

-----------------------------------------------------------------------------
(* The threads of the pool.                                                *)

LEMMA CrackKeeps ==
  ASSUME TimerInv, Types', NEW t \in Timer, NEW w \in Worker, Crack(w, t)
  PROVE  TimerInv'
<1>0. /\ UNCHANGED <<listed, native, than, asked, freed, cleaned, complete>>
      /\ UNCHANGED <<exiting, port_open, systimer, owner, caught>>
      /\ systimer = "alive" /\ native[t] = "armed"
      /\ work' = [work EXCEPT ![w] = [at |-> "callback", timer |-> t]]
      /\ DOMAIN work = Worker
  BY TimerFacts DEF Crack, memory, close, TypeOK
<1>1. CloseInv'
  BY <1>0 DEF TimerInv, CloseInv, NobodyCancels
<1>2. \A u \in Timer : MemoryInv(u)' /\ HandleInv(u)'
  BY <1>0 DEF TimerInv, MemoryInv, HandleInv
<1>3. t \in listed
  BY <1>0 DEF TimerInv, HandleInv
<1>4. \A v \in Worker : WorkInv(v)'
  <2> TAKE v \in Worker
  <2>1. CASE v = w
    BY <1>0, <1>3, <2>1 DEF WorkInv
  <2>2. CASE v # w
    BY <1>0, <2>2 DEF TimerInv, WorkInv
  <2> QED BY <2>1, <2>2
<1>5. \A v \in Worker : PostInv(v)'
  <2> TAKE v \in Worker
  <2>1. CASE v = w
    BY <1>0, <2>1 DEF PostInv
  <2>2. CASE v # w
    BY <1>0, <2>2 DEF TimerInv, PostInv, Slots
  <2> QED BY <2>1, <2>2
<1>6. \A i \in Slots' : QueueInv(i)'
  BY <1>0 DEF TimerInv, QueueInv, Slots
<1>7. ExitInv'
  BY <1>0 DEF TimerInv, ExitInv
<1> QED BY <1>1, <1>2, <1>4, <1>5, <1>6, <1>7 DEF TimerInv

(* A callback runs only while the system's queue does, and then nothing is *)
(* claimed of the timers that callbacks asked to end.                      *)
LEMMA AskKeeps ==
  ASSUME TimerInv, Types', NEW w \in Worker, CancelWhenCallbackExit(w)
  PROVE  TimerInv'
<1> DEFINE t == work[w].timer
<1>0. /\ UNCHANGED <<listed, native, freed, cleaned, work, complete>>
      /\ UNCHANGED <<exiting, port_open, systimer, owner, caught>>
      /\ work[w].at = "callback" /\ asked[t] \in {"no", "callback"}
      /\ asked' = [asked EXCEPT ![t] = "callback"]
      /\ than' = IF than[t] = "zero" THEN [than EXCEPT ![t] = "ladder"] ELSE than
      /\ asked \in [Timer -> {"no", "api", "callback"}]
      /\ than \in [Timer -> {"zero", "ladder", "processing"}]
  BY TimerFacts DEF CancelWhenCallbackExit, threads, close, TypeOK
<1>1. t \in Timer /\ t \in listed
  BY <1>0, TimerFacts DEF TimerInv, WorkInv
<1> HIDE DEF t
<1>2. CloseInv'
  <2>1. systimer # "invalid"
    BY <1>0 DEF TimerInv, WorkInv
  <2>2. owner # "open" => NobodyCancels'
    BY <1>0, <1>1 DEF TimerInv, CloseInv, NobodyCancels
  <2> QED BY <1>0, <2>1, <2>2 DEF TimerInv, CloseInv
<1>3. \A u \in Timer : MemoryInv(u)'
  BY <1>0 DEF TimerInv, MemoryInv
<1>4. \A u \in Timer : HandleInv(u)'
  <2> TAKE u \in Timer
  <2>1. CASE u = t
    BY <1>0, <1>1, <2>1 DEF TimerInv, HandleInv
  <2>2. CASE u # t
    <3>1. than'[u] = than[u] /\ asked'[u] = asked[u]
      BY <1>0, <2>2
    <3> QED BY <1>0, <3>1 DEF TimerInv, HandleInv
  <2> QED BY <2>1, <2>2
<1>5. \A u \in Timer : /\ than[u] = "processing" => than'[u] = "processing"
                       /\ than[u] # "zero" => than'[u] # "zero"
  BY <1>0, <1>1
<1>6. \A v \in Worker : WorkInv(v)'
  BY <1>0, <1>5, TimerFacts DEF TimerInv, WorkInv
<1>7. \A v \in Worker : PostInv(v)'
  BY <1>0, <1>5, TimerFacts DEF TimerInv, PostInv, Slots
<1>8. \A i \in Slots' : QueueInv(i)'
  BY <1>0, <1>5 DEF TimerInv, QueueInv, Slots
<1>9. ExitInv'
  BY <1>0, <1>5 DEF TimerInv, ExitInv
<1> QED BY <1>2, <1>3, <1>4, <1>6, <1>7, <1>8, <1>9 DEF TimerInv

(* A thread that leaves its callback and one that claims nothing.          *)
LEMMA LeaveKeeps ==
  ASSUME TimerInv, Types', NEW w \in Worker, work[w].at # "idle",
         UNCHANGED <<listed, native, than, asked, freed, cleaned>>,
         UNCHANGED <<complete, exiting, port_open, systimer, owner, caught>>,
         \/ work' = [work EXCEPT ![w] = Idle]
         \/ /\ work' = [work EXCEPT ![w] = [@ EXCEPT !.at = "claim"]]
            /\ than[work[w].timer] # "zero"
  PROVE  TimerInv'
<1>0. /\ DOMAIN work = Worker
      /\ work[w] = [at |-> work[w].at, timer |-> work[w].timer]
  BY TimerFacts DEF TypeOK
<1>1. /\ \A v \in Worker : v # w => work'[v] = work[v]
      /\ work'[w] = Idle \/ /\ work'[w].at = "claim"
                            /\ work'[w].timer = work[w].timer
                            /\ than[work[w].timer] # "zero"
  BY <1>0
<1>2. CloseInv'
  <2>1. systimer # "invalid"
    BY DEF TimerInv, WorkInv
  <2> QED BY <2>1 DEF TimerInv, CloseInv, NobodyCancels
<1>3. \A u \in Timer : MemoryInv(u)' /\ HandleInv(u)'
  BY DEF TimerInv, MemoryInv, HandleInv
<1>4. \A v \in Worker : WorkInv(v)'
  <2> TAKE v \in Worker
  <2>1. CASE v = w
    BY <1>1, <2>1 DEF TimerInv, WorkInv, Idle
  <2>2. CASE v # w
    BY <1>1, <2>2 DEF TimerInv, WorkInv
  <2> QED BY <2>1, <2>2
<1>5. \A v \in Worker : PostInv(v)'
  <2> TAKE v \in Worker
  <2>1. CASE v = w
    BY <1>1, <2>1 DEF PostInv, Idle
  <2>2. CASE v # w
    <3>1. work'[v].at = "post" => work'[w] # work'[v]
      BY <1>1 DEF Idle
    <3> QED BY <1>1, <2>2, <3>1 DEF TimerInv, PostInv, Slots
  <2> QED BY <2>1, <2>2
<1>6. \A i \in Slots' : QueueInv(i)'
  BY DEF TimerInv, QueueInv, Slots
<1>7. ExitInv'
  BY DEF TimerInv, ExitInv
<1> QED BY <1>2, <1>3, <1>4, <1>5, <1>6, <1>7 DEF TimerInv

LEMMA ReturnsKeeps ==
  ASSUME TimerInv, Types', NEW w \in Worker, CallbackReturns(w)
  PROVE  TimerInv'
BY LeaveKeeps DEF CallbackReturns, memory, close

(* The token is made: no other place can have one while the ladder is up.  *)
LEMMA ClaimKeeps ==
  ASSUME TimerInv, Types', NEW w \in Worker, Claim(w)
  PROVE  TimerInv'
<1> DEFINE t == work[w].timer
<1>0. /\ UNCHANGED <<listed, native, asked, freed, cleaned, complete>>
      /\ UNCHANGED <<exiting, port_open, systimer, owner, caught>>
      /\ work[w].at = "claim"
  BY DEF Claim, memory, close
<1>1. /\ t \in Timer /\ t \in listed /\ systimer # "invalid" /\ native[t] # "none"
      /\ asked[t] = "callback" /\ than[t] # "zero"
  BY <1>0, TimerFacts DEF TimerInv, WorkInv, HandleInv
<1>2. CASE than[t] # "ladder"
  BY <1>0, <1>2, LeaveKeeps DEF Claim
<1>3. CASE than[t] = "ladder"
  <2>0. /\ than' = [than EXCEPT ![t] = "processing"]
        /\ \/ work' = [work EXCEPT ![w] = Idle]
           \/ work' = [work EXCEPT ![w] = [@ EXCEPT !.at = "post"]]
    BY <1>3 DEF Claim
  <2>1. /\ DOMAIN work = Worker /\ DOMAIN than = Timer
        /\ work[w] = [at |-> "claim", timer |-> t]
    BY <1>0, TimerFacts DEF TypeOK
  <2> HIDE DEF t
  <2>2. /\ \A v \in Worker : v # w => work'[v] = work[v]
        /\ \/ work'[w] = Idle
           \/ work'[w] = [at |-> "post", timer |-> t]
    BY <2>0, <2>1
  <2>3. \A u \in Timer : than'[u] = IF u = t THEN "processing" ELSE than[u]
    BY <2>0, <2>1
  <2>4. CloseInv'
    <3>1. systimer # "invalid"
      BY <1>0 DEF TimerInv, WorkInv
    <3> QED BY <1>0, <3>1 DEF TimerInv, CloseInv, NobodyCancels
  <2>5. \A u \in Timer : MemoryInv(u)'
    BY <1>0 DEF TimerInv, MemoryInv
  <2>6. \A u \in Timer : HandleInv(u)'
    <3> TAKE u \in Timer
    <3>1. CASE u = t
      BY <1>0, <1>1, <3>1 DEF TimerInv, HandleInv
    <3>2. CASE u # t
      BY <1>0, <2>3, <3>2 DEF TimerInv, HandleInv
    <3> QED BY <3>1, <3>2
  <2>7. \A v \in Worker : WorkInv(v)'
    <3> TAKE v \in Worker
    <3>1. CASE v = w
      <4>1. CASE work'[w] = Idle
        BY <3>1, <4>1 DEF WorkInv, Idle
      <4>2. CASE work'[w] = [at |-> "post", timer |-> t]
        <5>1. than'[t] # "zero"
          BY <1>1, <2>3
        <5> QED BY <1>0, <1>1, <3>1, <4>2, <5>1 DEF WorkInv
      <4> QED BY <2>2, <4>1, <4>2
    <3>2. CASE v # w
      <4>1. WorkInv(v) /\ work'[v] = work[v]
        BY <2>2, <3>2 DEF TimerInv
      <4>2. work[v].at # "idle" => work[v].timer \in Timer
        BY TimerFacts
      <4> QED BY <1>0, <2>3, <4>1, <4>2 DEF WorkInv
    <3> QED BY <3>1, <3>2
  <2>8. /\ exiting # t /\ \A i \in Slots : complete[i] # t
        /\ \A v \in Worker : work[v].timer = t => work[v].at # "post"
    BY <1>1, <1>3 DEF TimerInv, ExitInv, QueueInv, PostInv, t
  <2>9. \A v \in Worker : PostInv(v)'
    <3> SUFFICES ASSUME NEW v \in Worker, work'[v].at = "post"
                 PROVE  PostInv(v)'
      BY DEF PostInv
    <3>1. CASE v = w
      <4>1. work'[v] = [at |-> "post", timer |-> t]
        BY <2>2, <3>1 DEF Idle
      <4>2. \A u \in Worker : u # w => work'[u] # work'[v]
        BY <2>2, <2>8, <4>1
      <4>3. than'[t] = "processing"
        BY <1>1, <2>3
      <4> QED BY <1>0, <2>8, <3>1, <4>1, <4>2, <4>3 DEF PostInv, Slots
    <3>2. CASE v # w
      <4>1. work'[v] = work[v] /\ work[v].timer # t /\ PostInv(v)
        BY <2>2, <2>8, <3>2 DEF TimerInv
      <4>2. work'[w] # work'[v]
        BY <2>2, <4>1 DEF Idle
      <4>3. than'[work[v].timer] = "processing"
        BY <2>3, <4>1, TimerFacts DEF PostInv
      <4> QED BY <1>0, <2>2, <4>1, <4>2, <4>3 DEF PostInv, Slots
    <3> QED BY <3>1, <3>2
  <2>10. \A i \in Slots' : QueueInv(i)'
    BY <1>0, <2>3 DEF TimerInv, QueueInv, Slots
  <2>11. ExitInv'
    BY <1>0, <2>3 DEF TimerInv, ExitInv
  <2> QED BY <2>4, <2>5, <2>6, <2>7, <2>9, <2>10, <2>11 DEF TimerInv
<1> QED BY <1>2, <1>3

(* What Append and Tail do to the queue.                                   *)
LEMMA AppendSlots ==
  ASSUME TimerInv, NEW x \in Timer \cup {"timer_all_exited"},
         complete' = Append(complete, x)
  PROVE  /\ Len(complete) \in Nat
         /\ Slots' = 1 .. Len(complete) + 1
         /\ \A i \in Slots : i \in Slots' /\ complete'[i] = complete[i]
         /\ complete'[Len(complete) + 1] = x
         /\ \A i \in Slots' : i \in Slots \/ i = Len(complete) + 1
<1>1. complete \in Seq(Timer \cup {"timer_all_exited"})
  BY TimerFacts DEF TypeOK
<1> QED BY <1>1 DEF Slots

LEMMA TailSlots ==
  ASSUME TimerInv, complete # <<>>, complete' = Tail(complete)
  PROVE  /\ 1 \in Slots /\ Head(complete) = complete[1]
         /\ \A i \in Slots' : i + 1 \in Slots /\ complete'[i] = complete[i + 1]
         /\ \A i \in Slots' : i \in Int
<1>1. complete \in Seq(Timer \cup {"timer_all_exited"})
  BY TimerFacts DEF TypeOK
<1> QED BY <1>1 DEF Slots

(* The token goes to the queue, if the port is still there.                *)
LEMMA PostKeeps ==
  ASSUME TimerInv, Types', NEW w \in Worker, Post(w)
  PROVE  TimerInv'
<1> DEFINE t == work[w].timer
<1>0. /\ UNCHANGED <<listed, native, than, asked, freed, cleaned>>
      /\ UNCHANGED <<exiting, port_open, systimer, owner, caught>>
      /\ work[w].at = "post" /\ work' = [work EXCEPT ![w] = Idle]
      /\ complete' = IF port_open THEN Append(complete, t) ELSE complete
  BY DEF Post, memory, close
<1>1. CASE ~ port_open
  BY <1>0, <1>1, LeaveKeeps
<1>2. CASE port_open
  <2>0. complete' = Append(complete, t)
    BY <1>0, <1>2
  <2>1. /\ t \in Timer /\ t \in listed /\ than[t] = "processing" /\ exiting # t
        /\ \A i \in Slots : complete[i] # t
        /\ \A v \in Worker : work[v] = work[w] => v = w
        /\ DOMAIN work = Worker
    BY <1>0, TimerFacts DEF TimerInv, WorkInv, PostInv, TypeOK
  <2>2. \A v \in Worker : work[v].at = "post" /\ work[v].timer = t => v = w
    <3>1. \A v \in Worker : work[v] = [at |-> work[v].at, timer |-> work[v].timer]
      BY TimerFacts DEF TypeOK
    <3> QED BY <1>0, <2>1, <3>1
  <2> HIDE DEF t
  <2>3. /\ Slots' = 1 .. Len(complete) + 1 /\ Len(complete) \in Nat
        /\ \A i \in Slots : i \in Slots' /\ complete'[i] = complete[i]
        /\ complete'[Len(complete) + 1] = t
        /\ \A i \in Slots' : i \in Slots \/ i = Len(complete) + 1
    BY <2>0, <2>1, AppendSlots
  <2>4. /\ \A v \in Worker : v # w => work'[v] = work[v]
        /\ work'[w] = Idle
    BY <1>0, <2>1
  <2>5. CloseInv'
    <3>1. systimer # "invalid"
      BY <1>0 DEF TimerInv, WorkInv
    <3> QED BY <1>0, <3>1 DEF TimerInv, CloseInv, NobodyCancels
  <2>6. \A u \in Timer : MemoryInv(u)' /\ HandleInv(u)'
    BY <1>0 DEF TimerInv, MemoryInv, HandleInv
  <2>7. \A v \in Worker : WorkInv(v)'
    BY <1>0, <2>4 DEF TimerInv, WorkInv, Idle
  <2>8. \A v \in Worker : PostInv(v)'
    <3> SUFFICES ASSUME NEW v \in Worker, work'[v].at = "post"
                 PROVE  PostInv(v)'
      BY DEF PostInv
    <3>1. v # w /\ work'[v] = work[v] /\ PostInv(v) /\ work[v].timer # t
      BY <2>2, <2>4 DEF TimerInv, Idle
    <3>2. \A i \in Slots' : complete'[i] # work[v].timer
      BY <2>3, <3>1 DEF PostInv
    <3>3. work'[w] # work'[v]
      BY <2>4 DEF Idle
    <3> QED BY <1>0, <2>4, <3>1, <3>2, <3>3 DEF PostInv
  <2>9. \A i \in Slots' : QueueInv(i)'
    <3> SUFFICES ASSUME NEW i \in Slots', complete'[i] \in Timer
                 PROVE  QueueInv(i)'
      BY DEF QueueInv
    <3>1. CASE i = Len(complete) + 1
      <4>1. \A j \in Slots' : complete'[j] = t => j = i
        BY <2>1, <2>3, <3>1
      <4> QED BY <1>0, <2>1, <2>3, <3>1, <4>1 DEF QueueInv
    <3>2. CASE i \in Slots
      <4>1. QueueInv(i) /\ complete'[i] = complete[i] /\ complete[i] # t
        BY <2>1, <2>3, <3>2 DEF TimerInv
      <4>2. \A j \in Slots' : complete'[j] = complete'[i] => j = i
        BY <2>3, <3>2, <4>1 DEF QueueInv
      <4> QED BY <1>0, <4>1, <4>2 DEF QueueInv
    <3> QED BY <2>3, <3>1, <3>2
  <2>10. ExitInv'
    BY <1>0 DEF TimerInv, ExitInv
  <2> QED BY <2>5, <2>6, <2>7, <2>8, <2>9, <2>10 DEF TimerInv
<1> QED BY <1>1, <1>2

-----------------------------------------------------------------------------
(* The completion thread.                                                  *)

LEMMA TakeKeeps ==
  ASSUME TimerInv, Types', TakeCompletion
  PROVE  TimerInv'
<1> DEFINE h == Head(complete)
<1>0. /\ UNCHANGED <<listed, than, asked, freed, cleaned, work>>
      /\ UNCHANGED <<port_open, systimer, owner, caught>>
      /\ exiting = "none" /\ complete # <<>>
      /\ exiting' = h /\ complete' = Tail(complete)
      /\ native' = IF h \in Timer THEN [native EXCEPT ![h] = "deleted"] ELSE native
      /\ native \in [Timer -> {"none", "armed", "deleted"}]
  BY TimerFacts DEF TakeCompletion, memory, close, TypeOK
<1>1. /\ 1 \in Slots /\ h = complete[1]
      /\ \A i \in Slots' : i + 1 \in Slots /\ complete'[i] = complete[i + 1]
      /\ \A i \in Slots' : i \in Int
  BY <1>0, TailSlots
<1>2. h \in Timer =>
        /\ h \in listed /\ than[h] = "processing"
        /\ \A i \in Slots : complete[i] = h => i = 1
  BY <1>1 DEF TimerInv, QueueInv
<1> HIDE DEF h
<1>4. CloseInv'
  <2>1. owner # "ending" /\ owner # "gone"
    BY <1>0 DEF TimerInv, CloseInv
  <2> QED BY <1>0, <2>1 DEF TimerInv, CloseInv, NobodyCancels
<1>5. \A u \in Timer : MemoryInv(u)'
  BY <1>0 DEF TimerInv, MemoryInv
<1>6. \A u \in Timer : HandleInv(u)'
  BY <1>0 DEF TimerInv, HandleInv
<1>7. \A u \in Timer : native[u] # "none" => native'[u] # "none"
  BY <1>0
<1>8. \A w \in Worker : WorkInv(w)'
  BY <1>0, <1>7, TimerFacts DEF TimerInv, WorkInv
<1>9. \A w \in Worker : PostInv(w)'
  <2> SUFFICES ASSUME NEW w \in Worker, work[w].at = "post"
               PROVE  PostInv(w)'
    BY <1>0 DEF PostInv
  <2>1. PostInv(w)
    BY DEF TimerInv
  <2>2. h # work[w].timer
    BY <1>1, <2>1 DEF PostInv
  <2>3. \A i \in Slots' : complete'[i] # work[w].timer
    BY <1>1, <2>1 DEF PostInv
  <2> QED BY <1>0, <2>1, <2>2, <2>3 DEF PostInv
<1>10. \A i \in Slots' : QueueInv(i)'
  <2> SUFFICES ASSUME NEW i \in Slots', complete'[i] \in Timer
               PROVE  QueueInv(i)'
    BY DEF QueueInv
  <2>1. QueueInv(i + 1) /\ complete'[i] = complete[i + 1] /\ i + 1 \in Slots
    BY <1>1 DEF TimerInv
  <2>2. i \in Int /\ i + 1 # 1
    BY <1>1 DEF Slots
  <2>3. complete[i + 1] # h
    BY <1>2, <2>1, <2>2
  <2>4. \A j \in Slots' : complete'[j] = complete'[i] => j = i
    <3>1. \A k \in Slots : complete[k] = complete[i + 1] => k = i + 1
      BY <2>1 DEF QueueInv
    <3>2. TAKE j \in Slots'
    <3>3. j + 1 \in Slots /\ complete'[j] = complete[j + 1] /\ j \in Int
      BY <1>1
    <3>4. complete'[j] = complete'[i] => j + 1 = i + 1
      BY <2>1, <3>1, <3>3
    <3> QED BY <2>2, <3>3, <3>4
  <2> QED BY <1>0, <2>1, <2>3, <2>4 DEF QueueInv
<1>11. ExitInv'
  BY <1>0, <1>2 DEF ExitInv
<1> QED BY <1>4, <1>5, <1>6, <1>8, <1>9, <1>10, <1>11 DEF TimerInv

LEMMA ExitKeeps ==
  ASSUME TimerInv, Types', TimerExit
  PROVE  TimerInv'
<1>0. /\ UNCHANGED <<native, than, asked, work, complete>>
      /\ UNCHANGED <<port_open, systimer, owner, caught>>
      /\ exiting \in Timer /\ Quiet(exiting) /\ Release(exiting)
      /\ exiting' = "none" /\ listed' = listed \ {exiting}
  BY DEF TimerExit, Release, close
<1>1. /\ exiting \in listed /\ than[exiting] = "processing"
      /\ native[exiting] = "deleted" /\ asked[exiting] = "callback"
  BY <1>0 DEF TimerInv, ExitInv, HandleInv
<1>2. /\ exiting # "timer_all_exited"
      /\ systimer # "invalid" \/ exiting \in caught
  <2>1. exiting # "timer_all_exited"
    BY <1>0, NamesApart
  <2> QED BY <1>1, <2>1 DEF TimerInv, CloseInv
<1>3. CloseInv'
  BY <1>0, <1>2 DEF TimerInv, CloseInv, NobodyCancels
<1>4. \A u \in Timer : MemoryInv(u)'
  BY <1>0, <1>1, <1>2, ReleaseKeeps
<1>5. \A u \in Timer : HandleInv(u)'
  BY <1>0, <1>1 DEF TimerInv, HandleInv
<1>6. \A w \in Worker : WorkInv(w)'
  BY <1>0 DEF TimerInv, WorkInv, Quiet, Runs
<1>7. \A w \in Worker : PostInv(w)'
  <2> SUFFICES ASSUME NEW w \in Worker, work[w].at = "post"
               PROVE  PostInv(w)'
    BY <1>0 DEF PostInv
  <2>1. PostInv(w) /\ work[w].timer \in Timer
    BY TimerFacts DEF TimerInv
  <2> QED BY <1>0, <2>1, NamesApart DEF PostInv, Slots
<1>8. \A i \in Slots' : QueueInv(i)'
  BY <1>0, NamesApart DEF TimerInv, QueueInv, Slots
<1>9. ExitInv'
  BY <1>0, NamesApart DEF ExitInv
<1> QED BY <1>3, <1>4, <1>5, <1>6, <1>7, <1>8, <1>9 DEF TimerInv

-----------------------------------------------------------------------------
(* The owner.                                                              *)

(* When the system's queue has ended every callback, what is listed has    *)
(* been freed by nobody.                                                   *)
LEMMA CleanupKeeps ==
  ASSUME TimerInv, Types', CleanupAll, systimer = "deleting", CloseInv'
  PROVE  TimerInv'
<1>0. /\ UNCHANGED <<listed, native, than, asked, work, complete, exiting>>
      /\ systimer' = "invalid" /\ AllQuiet
      /\ freed' = [t \in Timer |-> IF t \in listed THEN freed[t] + 1 ELSE freed[t]]
      /\ cleaned' = [t \in Timer |->
                       IF t \in listed THEN cleaned[t] + 1 ELSE cleaned[t]]
  BY DEF CleanupAll
<1>1. \A t \in Timer : MemoryInv(t)'
  <2> TAKE t \in Timer
  <2>1. MemoryInv(t) /\ freed[t] \in Nat /\ cleaned[t] \in Nat
    BY TimerFacts DEF TimerInv
  <2>0. t \notin caught
    BY DEF TimerInv, CloseInv
  <2>2. CASE t \in listed
    <3>1. freed[t] = 0 /\ cleaned[t] = 0
      BY <2>1, <2>2 DEF MemoryInv
    <3>2. freed'[t] = 1 /\ cleaned'[t] = 1
      BY <1>0, <2>2, <3>1
    <3> QED BY <1>0, <3>2 DEF MemoryInv
  <2>3. CASE t \notin listed
    <3>1. freed'[t] = freed[t] /\ cleaned'[t] = cleaned[t]
      BY <1>0, <2>3
    <3> QED BY <1>0, <2>0, <2>1, <2>3, <3>1 DEF MemoryInv
  <2> QED BY <2>2, <2>3
<1>2. \A t \in Timer : HandleInv(t)'
  BY <1>0 DEF TimerInv, HandleInv
<1>3. \A w \in Worker : WorkInv(w)' /\ PostInv(w)'
  BY <1>0 DEF AllQuiet, Idle, WorkInv, PostInv
<1>4. \A i \in Slots' : QueueInv(i)'
  BY <1>0 DEF TimerInv, QueueInv, Slots
<1>5. ExitInv'
  BY <1>0 DEF TimerInv, ExitInv
<1> QED BY <1>1, <1>2, <1>3, <1>4, <1>5 DEF TimerInv

LEMMA StoppedKeeps ==
  ASSUME TimerInv, Types', Stopped
  PROVE  TimerInv'
<1>1. /\ owner = "stopping" /\ owner' = "stopped" /\ CleanupAll
      /\ systimer' = "invalid"
      /\ caught' = {t \in listed : asked[t] = "callback"}
      /\ UNCHANGED <<listed, asked, work, exiting>>
  BY DEF Stopped, CleanupAll
<1>2. systimer = "deleting" /\ NobodyCancels
  BY <1>1 DEF TimerInv, CloseInv
<1>3. CloseInv'
  BY <1>1, <1>2 DEF CloseInv, NobodyCancels
<1> QED BY <1>1, <1>2, <1>3, CleanupKeeps

LEMMA EndedKeeps ==
  ASSUME TimerInv, Types', Ended
  PROVE  TimerInv'
<1>1. /\ owner = "ending" /\ owner' = "gone" /\ CleanupAll
      /\ systimer' = "invalid" /\ caught' = caught
      /\ UNCHANGED <<listed, asked, work, exiting>>
  BY DEF Ended, CleanupAll
<1>2. systimer = "deleting" /\ exiting = "timer_all_exited" /\ NobodyCancels
  BY <1>1 DEF TimerInv, CloseInv
<1>3. CloseInv'
  BY <1>1, <1>2 DEF CloseInv, NobodyCancels
<1> QED BY <1>1, <1>2, <1>3, CleanupKeeps

(* A step of the owner that frees nothing.                                 *)
LEMMA OwnerKeeps ==
  ASSUME TimerInv, Types', CloseInv', systimer # "invalid" => systimer' # "invalid",
         systimer = "invalid" => systimer' = "invalid",
         UNCHANGED <<listed, native, than, asked, freed, cleaned, work, exiting>>,
         UNCHANGED caught,
         \/ UNCHANGED complete
         \/ complete' = Append(complete, "timer_all_exited")
  PROVE  TimerInv'
<1>1. \A t \in Timer : MemoryInv(t)' /\ HandleInv(t)'
  BY DEF TimerInv, MemoryInv, HandleInv
<1>2. \A w \in Worker : WorkInv(w)'
  BY DEF TimerInv, WorkInv
<1>3. ExitInv'
  BY DEF TimerInv, ExitInv
<1>4. CASE UNCHANGED complete
  <2>1. Slots' = Slots
    BY <1>4 DEF Slots
  <2>2. \A w \in Worker : PostInv(w)'
    BY <1>4, <2>1 DEF TimerInv, PostInv
  <2>3. \A i \in Slots' : QueueInv(i)'
    BY <1>4, <2>1 DEF TimerInv, QueueInv
  <2> QED BY <1>1, <1>2, <1>3, <2>2, <2>3 DEF TimerInv
<1>5. CASE complete' = Append(complete, "timer_all_exited")
  <2>1. /\ \A i \in Slots : i \in Slots' /\ complete'[i] = complete[i]
        /\ complete'[Len(complete) + 1] = "timer_all_exited"
        /\ \A i \in Slots' : i \in Slots \/ i = Len(complete) + 1
    BY <1>5, AppendSlots
  <2>2. \A w \in Worker : PostInv(w)'
    <3> SUFFICES ASSUME NEW w \in Worker, work[w].at = "post"
                 PROVE  PostInv(w)'
      BY DEF PostInv
    <3>1. PostInv(w) /\ work[w].timer # "timer_all_exited"
      BY NamesApart, TimerFacts DEF TimerInv
    <3>2. \A i \in Slots' : complete'[i] # work[w].timer
      BY <2>1, <3>1 DEF PostInv
    <3> QED BY <3>1, <3>2 DEF PostInv
  <2>3. \A i \in Slots' : QueueInv(i)'
    <3> SUFFICES ASSUME NEW i \in Slots', complete'[i] \in Timer
                 PROVE  QueueInv(i)'
      BY DEF QueueInv
    <3>1. i \in Slots /\ complete'[i] = complete[i] /\ QueueInv(i)
      BY <2>1, NamesApart DEF TimerInv
    <3>2. \A j \in Slots' : complete'[j] = complete'[i] => j = i
      BY <2>1, <3>1, NamesApart DEF QueueInv
    <3> QED BY <3>1, <3>2 DEF QueueInv
  <2> QED BY <1>1, <1>2, <1>3, <2>2, <2>3 DEF TimerInv
<1> QED BY <1>4, <1>5

LEMMA StopKeeps ==
  ASSUME TimerInv, Types', Stop
  PROVE  TimerInv'
<1>1. /\ NobodyCancels
      /\ owner' = "stopping" /\ systimer' = "deleting"
      /\ UNCHANGED <<listed, native, than, asked, freed, cleaned, work, exiting>>
      /\ UNCHANGED <<complete, caught>> /\ owner = "open"
  BY DEF Stop, memory
<1>2. systimer = "alive"
  BY <1>1 DEF TimerInv, CloseInv
<1>3. CloseInv'
  BY <1>1, <1>2 DEF TimerInv, CloseInv, NobodyCancels
<1> QED BY <1>1, <1>2, <1>3, OwnerKeeps

LEMMA DestroyKeeps ==
  ASSUME TimerInv, Types', Destroy
  PROVE  TimerInv'
<1>1. /\ owner' = "killing" /\ UNCHANGED systimer
      /\ UNCHANGED <<listed, native, than, asked, freed, cleaned, work, exiting>>
      /\ UNCHANGED <<complete, caught>>
      /\ owner = "stopped" \/ NobodyCancels
  BY DEF Destroy, memory
<1>2. CloseInv'
  BY <1>1 DEF TimerInv, CloseInv, NobodyCancels
<1> QED BY <1>1, <1>2, OwnerKeeps

LEMMA PostAllKeeps ==
  ASSUME TimerInv, Types', PostAllExited
  PROVE  TimerInv'
<1>1. /\ owner = "killing" /\ owner' = "waiting" /\ UNCHANGED systimer
      /\ UNCHANGED <<listed, native, than, asked, freed, cleaned, work, exiting>>
      /\ UNCHANGED caught
      /\ complete' = Append(complete, "timer_all_exited")
  BY DEF PostAllExited, memory
<1>2. CloseInv'
  BY <1>1 DEF TimerInv, CloseInv, NobodyCancels
<1> QED BY <1>1, <1>2, OwnerKeeps

LEMMA JoinKeeps ==
  ASSUME TimerInv, Types', Join
  PROVE  TimerInv'
<1>1. /\ owner = "waiting" /\ exiting = "timer_all_exited"
      /\ \/ systimer = "invalid" /\ owner' = "gone" /\ UNCHANGED systimer
         \/ systimer # "invalid" /\ owner' = "ending" /\ systimer' = "deleting"
      /\ UNCHANGED <<listed, native, than, asked, freed, cleaned, work, exiting>>
      /\ UNCHANGED <<complete, caught>>
  BY DEF Join, memory
<1>2. CloseInv'
  BY <1>1 DEF TimerInv, CloseInv, NobodyCancels
<1> QED BY <1>1, <1>2, OwnerKeeps

LEMMA TimerInvStep == TimerInv /\ [Next]_vars => TimerInv'
<1> SUFFICES ASSUME TimerInv, [Next]_vars PROVE TimerInv'
  OBVIOUS
<1>0. Types'
  BY TypeStep DEF TimerInv
<1>1. ASSUME NEW t \in Timer,
             \/ ReadyTimer(t) \/ StartTimer(t) \/ StartTimerFails(t)
             \/ CancelTimer(t) \/ TimerCancelled(t)
      PROVE  TimerInv'
  BY <1>0, <1>1, ReadyKeeps, StartKeeps, StartFailsKeeps, CancelKeeps, CancelledKeeps
<1>2. ASSUME NEW t \in Timer, NEW w \in Worker, Crack(w, t) PROVE TimerInv'
  BY <1>0, <1>2, CrackKeeps
<1>3. ASSUME NEW w \in Worker, CancelWhenCallbackExit(w) \/ WorkerStep(w)
      PROVE  TimerInv'
  BY <1>0, <1>3, AskKeeps, ReturnsKeeps, ClaimKeeps, PostKeeps DEF WorkerStep
<1>4. ASSUME CompletionStep PROVE TimerInv'
  BY <1>0, <1>4, TakeKeeps, ExitKeeps DEF CompletionStep
<1>5. ASSUME Stop \/ Destroy \/ CloseStep PROVE TimerInv'
  BY <1>0, <1>5, StopKeeps, DestroyKeeps, StoppedKeeps, PostAllKeeps, JoinKeeps,
     EndedKeeps
  DEF CloseStep
<1>6. ASSUME UNCHANGED vars PROVE TimerInv'
  <2>1. /\ UNCHANGED <<listed, native, than, asked, freed, cleaned, work, exiting>>
        /\ UNCHANGED <<systimer, owner, caught, complete>>
    BY <1>6 DEF vars, memory, threads, close
  <2>2. CloseInv'
    BY <2>1 DEF TimerInv, CloseInv, NobodyCancels
  <2> QED BY <1>0, <2>1, <2>2, OwnerKeeps
<1> QED BY <1>1, <1>2, <1>3, <1>4, <1>5, <1>6 DEF Next

LEMMA TimerInvReleased == TimerInv => ReleasedOnce
<1> SUFFICES ASSUME TimerInv PROVE ReleasedOnce
  OBVIOUS
<1>1. \A t \in Timer : freed[t] > 1 \/ cleaned[t] > 1 => t \in caught
  <2> TAKE t \in Timer
  <2>1. MemoryInv(t) /\ freed[t] \in Nat /\ cleaned[t] \in Nat
    BY TimerFacts DEF TimerInv
  <2> QED BY <2>1 DEF MemoryInv
<1>2. owner = "gone" => \A t \in listed : freed[t] = 1 /\ cleaned[t] = 1
  BY TimerFacts DEF TimerInv, CloseInv, MemoryInv
<1> QED BY <1>1, <1>2 DEF ReleasedOnce

LEMMA TimerInvNobody == TimerInv => NobodyHoldsFreed
<1> SUFFICES ASSUME TimerInv, NEW t \in Timer, freed[t] > 0
             PROVE  /\ Quiet(t)
                    /\ \/ t \in caught
                       \/ /\ exiting # t
                          /\ \/ exiting = "timer_all_exited"
                             \/ \A i \in Slots : complete[i] # t
  BY DEF NobodyHoldsFreed, Slots
<1>1. t \in listed => systimer = "invalid"
  BY DEF TimerInv, MemoryInv
<1>2. Quiet(t)
  BY <1>1, TimerFacts DEF TimerInv, Quiet, Runs, WorkInv
<1>3. t \in listed /\ than[t] = "processing" =>
        exiting = "timer_all_exited" \/ t \in caught
  BY <1>1 DEF TimerInv, HandleInv, CloseInv
<1>4. exiting # t \/ t \in caught
  BY <1>3, NamesApart DEF TimerInv, ExitInv
<1>5. \/ exiting = "timer_all_exited" \/ t \in caught
      \/ \A i \in Slots : complete[i] # t
  BY <1>3 DEF TimerInv, QueueInv
<1> QED BY <1>2, <1>4, <1>5

(* Every handle and argument is freed once, for any number of timers and   *)
(* threads and wherever stop() comes, but those of a timer that stop()     *)
(* caught on its way out.                                                  *)
THEOREM FreedOnce == Spec => []ReleasedOnce
BY InitTimerInv, TimerInvStep, TimerInvReleased, PTL DEF Spec

(* No callback has a freed handle; no delete of the completion thread has  *)
(* one, and none is queued where it can still be taken, but of a timer     *)
(* that stop() caught.                                                     *)
THEOREM NobodyLeft == Spec => []NobodyHoldsFreed
BY InitTimerInv, TimerInvStep, TimerInvNobody, PTL DEF Spec
=============================================================================
