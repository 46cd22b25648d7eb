-------------------------------- MODULE Udt --------------------------------
(***************************************************************************)
(* The block layer (udt) over the reliable datagrams of trans_core, with   *)
(* the slicer and the combination it uses.  Threads in send_block cut a    *)
(* block into slices and send them one by one, threads in recv() count the *)
(* completions of slices against the number send_block stores at the end,  *)
(* and the other side's recv() puts slices together again.                 *)
(*                                                                         *)
(* trans_core is seen through what it posts and calls (TransCore): a slice *)
(* is taken by the peer, rarely more than once; it completes, or its       *)
(* retries run out and bad_send is called, in rare schedules both.  The    *)
(* receiver hears other senders too, whose blocks may bear the same ids.   *)
(***************************************************************************)
EXTENDS Integers, Sequences, FiniteSets

CONSTANTS
  Group,      \* the blocks sent by the udt whose sending is followed
  Stranger,   \* blocks other senders send to the same receiver
  Id,         \* Id[b]: the group id of block b, counted by its own sender
  Size,       \* Size[b]: the bytes of block b
  SliceData,  \* the bytes of a block one slice carries
  LimitThread, \* limit_thread: the threads that may be in recv()
  MayFail,    \* bound: slices whose retries may run out
  Copies,     \* bound: Copies[s]: how often trans_core hands slice s over
  NoOne       \* nobody holds _sending_groups_lock

Block == Group \cup Stranger
Ids == {Id[b] : b \in Block}

(* A slice is its group and the offset it starts at, <<g, slice_start>>.   *)
Offsets(g) == {b \in 0 .. Size[g] : b < Size[g] /\ b % SliceData = 0}
Slices(g) == {g} \X Offsets(g)
Slice == UNION {Slices(g) : g \in Group}
AnySlice == UNION {Slices(b) : b \in Block}
Owner(s) == s[1]
Start(s) == s[2]

(* What recv() gets from trans_core about a slice that was sent.           *)
Completion == {"complete", "cancelled", "exited"} \X Slice
About(c) == c[2]

ASSUME ConstantsAssumption ==
  /\ IsFiniteSet(Group)
  /\ Group \cap Stranger = {}
  /\ Id \in [Block -> Nat]
  /\ \A g, h \in Group : Id[g] = Id[h] => g = h   \* one counter, line 234
  /\ Size \in [Block -> Nat]
  /\ SliceData \in Nat \ {0}
  /\ LimitThread \in Nat \ {0}
  /\ MayFail \subseteq Slice
  /\ Copies \in [AnySlice -> Nat]
  /\ NoOne \notin Completion

VARIABLES
  pc,        \* [Group -> SendState] where send_block is
  used,      \* [Group -> Nat] the slicer's _used_memory
  local,     \* [Group -> Nat] send_block's own count
  sending,   \* the keys of _sending_groups
  count,     \* [Group -> Int] udt_group::_count
  geted,     \* [Group -> Nat] udt_group::_geted
  holder,    \* the completion whose thread holds _sending_groups_lock
  ticking,   \* completions between _cancel_slice and _erase_group
  deleted,   \* [Slice -> Nat] times the node's value was deleted
  reported,  \* [Group -> Nat] calls of the send callback
  bad,       \* [Group -> Nat] calls of the application's bad_send
  (* trans_core on this side *)
  sent,      \* slices given to send_assembled
  settled,   \* slices trans_core no longer tracks
  failing,   \* [Slice -> FailState] where _udt_bad_send is
  port,      \* completions recv() has not fetched
  (* the other side *)
  taken,     \* [AnySlice -> Nat] times its trans_core has taken a slice
  inbox,     \* [AnySlice -> Nat] those its recv() has not fetched
  expected,  \* [Ids -> Nat] combination::_head.data_size, by group id
  available, \* [Ids -> Nat] _avaliable_memory
  pieces,    \* [Ids -> SUBSET AnySlice] what was copied into _memory
  received   \* [Ids -> Seq] the memories recv() returned

sendVars == <<pc, used, local>>
groupVars == <<sending, geted, holder, reported>>
coreVars == <<sent, settled, port>>
failVars == <<failing, deleted, bad>>
combVars == <<expected, available, pieces, received>>
peerVars == <<taken, inbox, combVars>>
vars == <<sendVars, count, groupVars, ticking, coreVars, failVars, peerVars>>

SendState == {"idle", "cutting", "stored", "erase", "done"}
FailState == {"no", "cancelled", "forgotten", "exited"}

TypeOK ==
  /\ pc \in [Group -> SendState]
  /\ used \in [Group -> Nat]
  /\ local \in [Group -> Nat]
  /\ sending \subseteq Group
  /\ count \in [Group -> Int]
  /\ geted \in [Group -> Nat]
  /\ holder \in Completion \cup {NoOne}
  /\ ticking \subseteq Completion
  /\ deleted \in [Slice -> Nat]
  /\ reported \in [Group -> Nat]
  /\ bad \in [Group -> Nat]
  /\ sent \subseteq Slice
  /\ settled \subseteq Slice
  /\ failing \in [Slice -> FailState]
  /\ port \subseteq Completion
  /\ taken \in [AnySlice -> Nat]
  /\ inbox \in [AnySlice -> Nat]
  /\ expected \in [Ids -> Nat]
  /\ available \in [Ids -> Nat]
  /\ pieces \in [Ids -> SUBSET AnySlice]
  /\ received \in [Ids -> Seq(SUBSET AnySlice)]

Init ==
  /\ pc = [g \in Group |-> "idle"]
  /\ used = [g \in Group |-> 0]
  /\ local = [g \in Group |-> 0]
  /\ sending = {}
  /\ count = [g \in Group |-> 0]
  /\ geted = [g \in Group |-> 0]
  /\ holder = NoOne
  /\ ticking = {}
  /\ deleted = [s \in Slice |-> 0]
  /\ reported = [g \in Group |-> 0]
  /\ bad = [g \in Group |-> 0]
  /\ sent = {}
  /\ settled = {}
  /\ failing = [s \in Slice |-> "no"]
  /\ port = {}
  /\ taken = [s \in AnySlice |-> 0]
  /\ inbox = [s \in AnySlice |-> 0]
  /\ expected = [id \in Ids |-> 0]
  /\ available = [id \in Ids |-> 0]
  /\ pieces = [id \in Ids |-> {}]
  /\ received = [id \in Ids |-> <<>>]

-----------------------------------------------------------------------------
(* send_block, in the sections other threads can tell apart.               *)

SenderAt(g, from, to) ==
  /\ pc[g] = from
  /\ pc' = [pc EXCEPT ![g] = to]

(* The group gets its entry; its count is the largest size_t from now on.  *)
Register(g) ==
  /\ holder = NoOne
  /\ SenderAt(g, "idle", "cutting")
  /\ sending' = sending \cup {g}
  /\ count' = [count EXCEPT ![g] = -1]
  /\ UNCHANGED <<used, local, geted, holder, reported, ticking, coreVars,
                 failVars, peerVars>>

SliceEnd(g) == used[g] = Size[g]

(* What is left, or as much as fits behind the heads.                      *)
SliceSize(g, start) ==
  IF Size[g] - start < SliceData THEN Size[g] - start ELSE SliceData

(* Mutant: the count is stored after each slice, not after the last.       *)
CountKeptCurrent(g) == [count EXCEPT ![g] = local[g] + 1]

CountWhileSending(g) == count

(* A slice is generated, assembled, hung into the group's list and sent.   *)
SendSlice(g) ==
  /\ pc[g] = "cutting"
  /\ ~ SliceEnd(g)
  /\ sent' = sent \cup {<<g, used[g]>>}
  /\ used' = [used EXCEPT ![g] = @ + SliceSize(g, @)]
  /\ local' = [local EXCEPT ![g] = @ + 1]
  /\ count' = CountWhileSending(g)
  /\ UNCHANGED <<pc, groupVars, ticking, settled, port, failVars, peerVars>>

StoreCount(g) ==
  /\ SliceEnd(g)
  /\ SenderAt(g, "cutting", "stored")
  /\ count' = [count EXCEPT ![g] = local[g]]
  /\ UNCHANGED <<used, local, groupVars, ticking, coreVars, failVars,
                 peerVars>>

AllGeted(g) == geted[g] = count[g]

(* Mutant: the thread trusts the recv threads to see the count it stored.  *)
ComparesNever(g) == FALSE

Compares(g) == AllGeted(g)

CompareCount(g) ==
  /\ SenderAt(g, "stored", IF Compares(g) THEN "erase" ELSE "done")
  /\ UNCHANGED <<used, local, count, groupVars, ticking, coreVars, failVars,
                 peerVars>>

(* _erase_group once it has the lock and its test came out true.           *)
(* Mutant: the callback is called whether the group is still there or not. *)
EraseAlways(g) ==
  /\ sending' = sending \ {g}
  /\ reported' = [reported EXCEPT ![g] = @ + 1]

EraseGroup(g) ==
  /\ sending' = sending \ {g}
  /\ reported' = IF g \in sending THEN [reported EXCEPT ![g] = @ + 1]
                                  ELSE reported

EraseAfterSend(g) ==
  /\ holder = NoOne
  /\ SenderAt(g, "erase", "done")
  /\ EraseGroup(g)
  /\ UNCHANGED <<used, local, count, geted, holder, ticking, coreVars,
                 failVars, peerVars>>

SendBlock(g) ==
  \/ Register(g) \/ SendSlice(g) \/ StoreCount(g)
  \/ CompareCount(g) \/ EraseAfterSend(g)

-----------------------------------------------------------------------------
(* trans_core and the network.                                             *)

(* The peer's trans_core takes a slice and posts it, mostly once: ids its  *)
(* bitmap loses track of are taken again (astray in TransCore).  Other     *)
(* senders' slices come whenever they like.                                *)
Take(s) ==
  /\ s \in sent \/ Owner(s) \in Stranger
  /\ taken[s] < Copies[s]
  /\ taken' = [taken EXCEPT ![s] = @ + 1]
  /\ inbox' = [inbox EXCEPT ![s] = @ + 1]
  /\ UNCHANGED <<sendVars, count, groupVars, ticking, coreVars, failVars,
                 combVars>>

Tracked(s) == s \in sent \ settled

Acknowledge(s) ==
  /\ Tracked(s)
  /\ taken[s] > 0
  /\ settled' = settled \cup {s}
  /\ port' = port \cup {<<"complete", s>>}
  /\ UNCHANGED <<sendVars, count, groupVars, ticking, sent, failVars,
                 peerVars>>

(* Mutant: all of the group, as the comment in _udt_bad_send expects.      *)
LinkedAll(s) == sent \cap Slices(Owner(s))

(* The nodes fetch_group_list reaches from a node: root.connect only ever  *)
(* links the root, which has no value, with the last node.                 *)
Linked(s) == {s}

(* _udt_bad_send on the timer's thread cancels what is linked to the       *)
(* failed slice.  cancel_io posts a failure unless the id of the slice is  *)
(* set among the ids received from the peer, which has nothing to do with  *)
(* it.  The process may end here, when that look goes past the bitmap or   *)
(* at the timer of a handle never assigned (CancelMarks and BadSendEnds of *)
(* TransCore and Translation): those outcomes are not followed here.       *)
CancelGroup(s) ==
  /\ s \in sent \cap MayFail
  /\ failing[s] = "no"
  /\ failing' = [failing EXCEPT ![s] = "cancelled"]
  /\ deleted' = [t \in Slice |->
                   IF t \in Linked(s) THEN deleted[t] + 1 ELSE deleted[t]]
  /\ \/ UNCHANGED <<settled, port>>
     \/ /\ settled' = settled \cup Linked(s)
        /\ port' = port \cup ({"cancelled"} \X Linked(s))
  /\ UNCHANGED <<sendVars, count, groupVars, ticking, sent, bad, peerVars>>

BadSend(g) == [bad EXCEPT ![g] = @ + 1]

ForgetGroup(s) ==
  /\ holder = NoOne
  /\ failing[s] = "cancelled"
  /\ failing' = [failing EXCEPT ![s] = "forgotten"]
  /\ bad' = BadSend(Owner(s))
  /\ sending' = sending \ {Owner(s)}
  /\ UNCHANGED <<sendVars, count, geted, holder, reported, ticking, coreVars,
                 deleted, peerVars>>

(* Back in trans_core, _exit_timer posts the failure, again or at last.    *)
ExitTimer(s) ==
  /\ failing[s] = "forgotten"
  /\ failing' = [failing EXCEPT ![s] = "exited"]
  /\ settled' = settled \cup {s}
  /\ port' = port \cup {<<"exited", s>>}
  /\ UNCHANGED <<sendVars, count, groupVars, ticking, sent, deleted, bad,
                 peerVars>>

Settle(s) ==
  /\ s \notin settled /\ failing[s] = "no"
  /\ (taken[s] = 0 /\ Take(s)) \/ Acknowledge(s) \/ CancelGroup(s)

-----------------------------------------------------------------------------
(* recv() on a completion, good or bad: under the group's lock the node is *)
(* detached and its value deleted ...                                      *)
CancelSlice(c) ==
  /\ c \in port
  /\ Cardinality(ticking) + (IF holder = NoOne THEN 0 ELSE 1) < LimitThread
  /\ port' = port \ {c}
  /\ ticking' = ticking \cup {c}
  /\ deleted' = [deleted EXCEPT ![About(c)] = @ + 1]
  /\ UNCHANGED <<sendVars, count, groupVars, sent, settled, failing, bad,
                 peerVars>>

(* ... then _erase_group counts it, if the group is there ...              *)
CountSlice(c) ==
  LET g == Owner(About(c)) IN
  /\ c \in ticking
  /\ holder = NoOne
  /\ ticking' = ticking \ {c}
  /\ IF g \in sending
     THEN /\ holder' = c
          /\ geted' = [geted EXCEPT ![g] = @ + 1]
     ELSE UNCHANGED <<holder, geted>>
  /\ UNCHANGED <<sendVars, count, sending, reported, coreVars, failVars,
                 peerVars>>

(* ... and compares with a count that may be stored at this very moment.   *)
FinishTick(c) ==
  LET g == Owner(About(c)) IN
  /\ holder = c
  /\ holder' = NoOne
  /\ IF AllGeted(g) THEN EraseGroup(g) ELSE UNCHANGED <<sending, reported>>
  /\ UNCHANGED <<sendVars, count, geted, ticking, coreVars, failVars,
                 peerVars>>

RecvCompletion(c) == CancelSlice(c) \/ CountSlice(c) \/ FinishTick(c)

-----------------------------------------------------------------------------
(* recv() on data, on the other side: _insert, under _groups_lock.         *)

(* The group id alone; `from` is not looked at.                            *)
Key(b) == Id[b]

(* Mutant: no record of what has come, "duplicates cannot happen".         *)
KnownNever(id, start) == FALSE

Known(id, start) == \E s \in pieces[id] : Start(s) = start

(* Mutant: more bytes than there are must have come.                       *)
AcceptedMore(total, size) == total > size

AcceptedAll(total, size) == total = size

(* The first slice of an id makes the combination, with the size it says.  *)
(* A start that is there already is dropped.  The slice that makes the sum *)
(* of sizes right hands the memory up and ends the combination.  A slice   *)
(* of another block that does not fit into this memory writes past it: the *)
(* outcome that goes on is followed.                                       *)
Insert(s) ==
  LET b == Owner(s)
      id == Key(b)
      size == IF pieces[id] = {} THEN Size[b] ELSE expected[id]
      total == IF Known(id, Start(s)) THEN available[id]
               ELSE available[id] + SliceSize(b, Start(s))
      memory == IF Known(id, Start(s)) THEN pieces[id] ELSE pieces[id] \cup {s}
  IN
  /\ inbox[s] > 0
  /\ inbox' = [inbox EXCEPT ![s] = @ - 1]
  /\ expected' = [expected EXCEPT ![id] = size]
  /\ IF AcceptedAll(total, size)
     THEN /\ received' = [received EXCEPT ![id] = Append(@, memory)]
          /\ pieces' = [pieces EXCEPT ![id] = {}]
          /\ available' = [available EXCEPT ![id] = 0]
     ELSE /\ pieces' = [pieces EXCEPT ![id] = memory]
          /\ available' = [available EXCEPT ![id] = total]
          /\ UNCHANGED received
  /\ UNCHANGED <<sendVars, count, groupVars, ticking, coreVars, failVars,
                 taken>>

-----------------------------------------------------------------------------
Next ==
  \/ \E g \in Group : SendBlock(g)
  \/ \E s \in Slice :
       Acknowledge(s) \/ CancelGroup(s) \/ ForgetGroup(s) \/ ExitTimer(s)
  \/ \E s \in AnySlice : Take(s) \/ Insert(s)
  \/ \E c \in Completion : RecvCompletion(c)

Spec == Init /\ [][Next]_vars

(* What goes on by itself once a block was given to send_block: its        *)
(* thread, the threads in recv() on either side, the timer's thread in     *)
(* _udt_bad_send, and trans_core, which settles a slice one way or the     *)
(* other (EventuallyReported of TransCore).  Repeats and other senders'    *)
(* slices need not come.                                                   *)
Progress ==
  \/ \E c \in Completion : RecvCompletion(c)
  \/ \E s \in Slice : Settle(s) \/ ForgetGroup(s) \/ ExitTimer(s)
  \/ \E s \in AnySlice : Insert(s)
  \/ \E g \in Group : pc[g] # "idle" /\ SendBlock(g)

(* A block makes finitely many steps, so it is enough that some step is    *)
(* made as long as one can be made.                                        *)
Fairness == WF_vars(Progress)

FairSpec == Spec /\ Fairness

-----------------------------------------------------------------------------
(* Properties                                                              *)

(* No slice of the group was given up.                                     *)
Healthy(g) == \A s \in Slices(g) : failing[s] = "no"

(* The slices the other side's trans_core has taken.                       *)
Here == {s \in AnySlice : taken[s] > 0}

(* No slice of another block with the same id has come.  Every sender      *)
(* counts its own ids (line 234, from a value nobody sets) and the         *)
(* receiver keys by the id alone (line 244), so blocks of two senders mix: *)
(* what is promised about a block is promised as long as it is alone.      *)
Alone(g) ==
  \A b \in Block \ {g} : Id[b] = Id[g] => Slices(b) \cap Here = {}

(* As long as no other sender's block of the same id has come, what recv() *)
(* returns under the id of a block is the block, whole, with every slice   *)
(* of it and no other, and no more often than trans_core handed each of    *)
(* its slices over: repeats never make up for a slice that is missing      *)
(* (lines 237 to 265 and slice.cpp 293 to 303).                            *)
ReassembledExactly ==
  \A g \in Group : Alone(g) =>
    /\ \A i \in DOMAIN received[Id[g]] : received[Id[g]][i] = Slices(g)
    /\ \A s \in Slices(g) : Len(received[Id[g]]) <= taken[s]

(* The send callback of a block none of whose slices was given up means    *)
(* that the other side has every slice, although the count is stored while *)
(* completions are being compared with it (lines 163 to 202, 310 to 324).  *)
ReportMeansTaken ==
  \A g \in Group : (reported[g] > 0 /\ Healthy(g)) => Slices(g) \subseteq Here

(* The sending thread and the recv threads may all find the count          *)
(* complete: the callback is called once, also when slices fail.           *)
ReportedOnce == \A g \in Group : reported[g] <= 1

(* A completion carries a pointer to its own node: when recv() fetches the *)
(* completion of a slice that was not given up, the node's value was not   *)
(* deleted, even if other slices of its block were given up.  It carries a *)
(* pointer into its group (udt_group::_locker) too: as long as no slice of *)
(* the block was given up, _sending_groups or send_block keeps the group.  *)
(* Neither holds of what _udt_bad_send leaves behind: the completion of    *)
(* the slice that failed finds its node deleted at line 278 or deletes it  *)
(* again, and every later completion of the block finds the group erased   *)
(* at line 288.                                                            *)
NodesAlive ==
  \A c \in port :
    LET g == Owner(About(c)) IN
    /\ failing[About(c)] = "no" => deleted[About(c)] = 0
    /\ Healthy(g) => g \in sending \/ pc[g] # "done"

(* In the end every sender was told what became of its block: it was sent, *)
(* or a slice of it failed.                                                *)
EventuallyTold ==
  <>[](\A g \in Group : pc[g] # "idle" => reported[g] > 0 \/ bad[g] > 0)

(* In the end every block that has crossed whole, and whose id no other    *)
(* sender's block that came has, has come out of recv(), in whatever order *)
(* its slices and those of other blocks came, and however often.           *)
EventuallyHandedUp ==
  <>[](\A g \in Group :
        (Slices(g) # {} /\ Slices(g) \subseteq Here /\ Alone(g)) =>
          \E i \in DOMAIN received[Id[g]] : received[Id[g]][i] = Slices(g))

-----------------------------------------------------------------------------
(* udt implements BlockService.                                            *)
Service == INSTANCE BlockService WITH
  accepted <- {g \in Group : pc[g] # "idle"},
  arrived <- {g \in Group : pc[g] # "idle" /\ Slices(g) \subseteq Here},
  crossed <- {g \in Group : ~ Alone(g)},
  handed <- {g \in Group : received[Id[g]] # <<>>},
  reported <- {g \in Group : reported[g] > 0},
  failed <- {g \in Group : ~ Healthy(g)}

(* udt implements BlockService: something comes out under the id of a      *)
(* block only when all of it arrived or another sender's block crossed it, *)
(* and the report says what it says there.                                 *)
ImplementsService == Service!Spec
=============================================================================
