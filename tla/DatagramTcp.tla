---------------------------- MODULE DatagramTcp ----------------------------
(***************************************************************************)
(* One connection of datagram_tcp: datagrams cut out of a TCP stream, and  *)
(* the callback that gets them.  The connection was opened by connect(),   *)
(* or accepted by a datagram_tcp_server, whose accepting thread races the  *)
(* connection's own receive thread and the application.                    *)
(*                                                                         *)
(* A byte is known by its offset in the stream, and the bytes in a buffer  *)
(* by the offset of the first one and their number.  The peer writes a     *)
(* header of HeadSize bytes and then the datagram; recv() cuts the stream  *)
(* anywhere.                                                               *)
(***************************************************************************)
EXTENDS Integers, Sequences

CONSTANTS
  Length,      \* lengths of the datagrams the peer writes
  HeadSize,    \* bytes of a header (4)
  BufferSize,  \* bytes one recv() takes at most (566)
  MaxFrames    \* bound: datagrams written

ASSUME SizeAssumption ==
  /\ Length \subseteq Nat
  /\ HeadSize \in Nat \ {0}
  /\ BufferSize \in Nat \ {0}
  /\ MaxFrames \in Nat

VARIABLES
  (* the stream *)
  written,    \* lengths of the datagrams written
  begins,     \* begins[i]: offset of the header of the i-th one
  total,      \* bytes written
  taken,      \* bytes recv() has returned
  link,       \* "open", "finished" by the peer, or "broken"
  (* the receive thread: stream_analysis *)
  pc,         \* where the thread is
  chunk,      \* bytes of the last recv() that push() has not consumed
  headStart,  \* _head: where its bytes come from ...
  headGot,    \* ... and how many it has
  bodyStart,  \* _memory, likewise
  bodyGot,
  bodySize,   \* _wrap's _maxinum
  out,        \* the complete datagrams, in order
  (* the callback *)
  role,       \* "client" or "server"
  accepter,   \* how far the connection has been set up
  callback,   \* the connection has a callback
  registered  \* history: when_recv_complete() has returned, and a server had
              \* set the connection up before

streamVars == <<written, begins, total, taken, link>>
headVars == <<headStart, headGot>>
bodyVars == <<bodyStart, bodyGot, bodySize>>
setupVars == <<role, accepter, callback, registered>>
vars == <<streamVars, pc, chunk, headVars, bodyVars, out, setupVars>>

Frame == [start : Nat, size : Nat, handed : BOOLEAN, registered : BOOLEAN]

FramingTypeOK ==
  /\ written \in Seq(Length)
  /\ begins \in Seq(Nat)
  /\ total \in Nat
  /\ taken \in 0 .. total
  /\ chunk \in 0 .. BufferSize
  /\ headStart \in Nat
  /\ headGot \in 0 .. HeadSize
  /\ bodyStart \in Nat
  /\ bodySize \in Nat
  /\ bodyGot \in 0 .. bodySize
  /\ out \in Seq(Frame)

SetupTypeOK ==
  /\ link \in {"open", "finished", "broken"}
  /\ pc \in {"new", "recv", "head", "copy", "ended"}
  /\ role \in {"client", "server"}
  /\ accepter \in {"listening", "constructed", "listed", "done"}
  /\ callback \in BOOLEAN
  /\ registered \in BOOLEAN

TypeOK == FramingTypeOK /\ SetupTypeOK

Init ==
  /\ written = <<>> /\ begins = <<>>
  /\ total = 0 /\ taken = 0
  /\ link = "open"
  /\ pc = "new"
  /\ chunk = 0
  /\ headStart = 0 /\ headGot = 0
  /\ bodyStart = 0 /\ bodyGot = 0 /\ bodySize = 0
  /\ out = <<>>
  /\ role \in {"client", "server"}
  /\ accepter = "listening"
  /\ callback = FALSE
  /\ registered = FALSE

-----------------------------------------------------------------------------
(* The peer and the network.                                               *)

(* A server's peer is connected before the connection is accepted.         *)
Connected == role = "server" \/ accepter # "listening"

(* send(): one WSASend of the header and the datagram.                     *)
Send(l) ==
  /\ link = "open" /\ Connected
  /\ Len(written) < MaxFrames
  /\ written' = Append(written, l)
  /\ begins' = Append(begins, total)
  /\ total' = total + HeadSize + l
  /\ UNCHANGED <<taken, link, pc, chunk, headVars, bodyVars, out, setupVars>>

(* The peer closes in order: its bytes still arrive, then recv() gives 0.  *)
Finish ==
  /\ link = "open" /\ Connected
  /\ link' = "finished"
  /\ UNCHANGED <<written, begins, total, taken, pc, chunk, headVars, bodyVars,
                 out, setupVars>>

(* close() at this end, or a reset: recv() fails from now on.              *)
Break ==
  /\ link # "broken" /\ Connected
  /\ link' = "broken"
  /\ UNCHANGED <<written, begins, total, taken, pc, chunk, headVars, bodyVars,
                 out, setupVars>>

-----------------------------------------------------------------------------
(* Setting up.                                                             *)

(* connect(), and the constructor the accepting thread calls, start the    *)
(* receive thread.                                                         *)
Start ==
  /\ accepter = "listening"
  /\ accepter' = IF role = "client" THEN "done" ELSE "constructed"
  /\ pc' = "recv"
  /\ UNCHANGED <<streamVars, chunk, headVars, bodyVars, out, role, callback,
                 registered>>

(* _clients.push_back.                                                     *)
List ==
  /\ accepter = "constructed"
  /\ accepter' = "listed"
  /\ UNCHANGED <<streamVars, pc, chunk, headVars, bodyVars, out, role,
                 callback, registered>>

(* when_recv_complete(_callback): nothing ever assigns the server's        *)
(* _callback, so it is empty.                                              *)
PassOnCallback ==
  /\ accepter = "listed"
  /\ accepter' = "done"
  /\ callback' = FALSE
  /\ UNCHANGED <<streamVars, pc, chunk, headVars, bodyVars, out, role,
                 registered>>

(* The application's when_recv_complete: on the connection itself, or on   *)
(* the server, which passes it to the connections it has at the moment.    *)
Registers == role = "client" \/ accepter \in {"listed", "done"}

WhenRecvComplete ==
  /\ ~ registered
  /\ registered' = (role = "client" \/ accepter = "done")
  /\ callback' = (callback \/ Registers)
  /\ UNCHANGED <<streamVars, pc, chunk, headVars, bodyVars, out, role,
                 accepter>>

-----------------------------------------------------------------------------
(* The receive thread: _tcp_recv around stream_analysis::push.             *)
Smaller(m, n) == IF m <= n THEN m ELSE n
Offset == taken - chunk

Recv(n) ==
  /\ pc = "recv" /\ link # "broken"
  /\ n \in 1 .. Smaller(BufferSize, total - taken)
  /\ taken' = taken + n
  /\ chunk' = n
  /\ pc' = "head"
  /\ UNCHANGED <<written, begins, total, link, headVars, bodyVars, out,
                 setupVars>>

(* recv() returns 0: nothing but an error ends the loop.                   *)
RecvNothing ==
  /\ pc = "recv" /\ link = "finished"
  /\ taken = total
  /\ pc' = "head"
  /\ UNCHANGED <<streamVars, chunk, headVars, bodyVars, out, setupVars>>

RecvFails ==
  /\ pc = "recv" /\ link = "broken"
  /\ pc' = "ended"
  /\ UNCHANGED <<streamVars, chunk, headVars, bodyVars, out, setupVars>>

(* push() returns when the bytes are used up.                              *)
UsedUp ==
  /\ pc = "head" /\ chunk = 0
  /\ pc' = "recv"
  /\ UNCHANGED <<streamVars, chunk, headVars, bodyVars, out, setupVars>>

(* The length in a header: that of a datagram if the buffer holds its      *)
(* header, and anything otherwise.                                         *)
Decoded(start) ==
  IF \E i \in DOMAIN begins : begins[i] = start
  THEN {written[i] : i \in {j \in DOMAIN begins : begins[j] = start}}
  ELSE Length

(* Mutant: the next push() starts with a header again.                     *)
HeadForgotten == FALSE

HeadComplete == headGot = HeadSize

HasHead ==
  /\ pc = "head" /\ chunk > 0
  /\ HeadComplete
  /\ pc' = "copy"
  /\ UNCHANGED <<streamVars, chunk, headVars, bodyVars, out, setupVars>>

(* stream_wrap::append takes what fits.                                    *)
Fits(room) == Smaller(chunk, room)

AppendHead ==
  LET n == Fits(HeadSize - headGot) IN
  /\ pc = "head" /\ chunk > 0
  /\ ~ HeadComplete
  /\ headStart' = IF headGot = 0 THEN Offset ELSE headStart
  /\ headGot' = headGot + n
  /\ chunk' = chunk - n
  /\ IF headGot + n = HeadSize
     THEN /\ bodySize' \in Decoded(headStart')
          /\ bodyGot' = 0
          /\ pc' = "copy"
     ELSE /\ UNCHANGED <<bodySize, bodyGot>>
          /\ pc' = "recv"
  /\ UNCHANGED <<streamVars, bodyStart, out, setupVars>>

NothingToCopy ==
  /\ pc = "copy" /\ chunk = 0
  /\ pc' = "head"
  /\ UNCHANGED <<streamVars, chunk, headVars, bodyVars, out, setupVars>>

(* The start of the datagram's bytes once some are copied.                 *)
BodyStart == IF bodyGot = 0 THEN Offset ELSE bodyStart

CopyPart ==
  LET n == Fits(bodySize - bodyGot) IN
  /\ pc = "copy" /\ chunk > 0
  /\ bodyGot + n # bodySize
  /\ bodyStart' = BodyStart
  /\ bodyGot' = bodyGot + n
  /\ chunk' = chunk - n
  /\ pc' = "head"
  /\ UNCHANGED <<streamVars, headVars, bodySize, out, setupVars>>

(* After a datagram everything is reset.  Mutant: the header is kept.      *)
HeadKept == HeadSize
HeadReset == 0

CopyAndCall ==
  LET n == Fits(bodySize - bodyGot) IN
  /\ pc = "copy" /\ chunk > 0
  /\ bodyGot + n = bodySize
  /\ out' = Append(out, [start |-> BodyStart, size |-> bodySize,
                         handed |-> callback, registered |-> registered])
  /\ chunk' = chunk - n
  /\ headGot' = HeadReset
  /\ bodyStart' = 0 /\ bodyGot' = 0 /\ bodySize' = 0
  /\ pc' = "head"
  /\ UNCHANGED <<streamVars, headStart, setupVars>>

Push ==
  \/ UsedUp \/ HasHead \/ AppendHead
  \/ NothingToCopy \/ CopyPart \/ CopyAndCall

Receive ==
  \/ \E n \in 1 .. BufferSize : Recv(n)
  \/ RecvNothing \/ RecvFails
  \/ Push

Next ==
  \/ \E l \in Length : Send(l)
  \/ Finish \/ Break
  \/ Start \/ List \/ PassOnCallback \/ WhenRecvComplete
  \/ Receive

Spec == Init /\ [][Next]_vars

(* The receive thread runs, and TCP gets the bytes to it.                  *)
FairSpec == Spec /\ WF_vars(Receive)

-----------------------------------------------------------------------------
(* Properties                                                              *)

Positive(i) == written[i] > 0

(* All bytes of the i-th datagram have been received.                      *)
Arrived(i) == begins[i] + HeadSize + written[i] <= taken

(* Wherever recv() cuts the stream, when push() is done every datagram     *)
(* that has arrived came out, but for an empty one at the very end (lines  *)
(* 274 to 326).                                                            *)
NothingHeldBack ==
  pc = "recv" =>
    \A i \in DOMAIN written :
      Arrived(i) /\ (Positive(i) \/ begins[i] + HeadSize < taken) =>
        i <= Len(out)

(* A datagram with bytes comes out sooner or later once the receive thread *)
(* has started, unless the connection breaks (lines 334 to 361).           *)
EveryDatagramComesOut ==
  \A i \in 1 .. MaxFrames :
    (pc # "new" /\ Len(written) >= i /\ written[i] > 0) ~>
      (Len(out) >= i \/ link = "broken")

-----------------------------------------------------------------------------
(* The connection implements FrameFifo; a datagram made of the wrong bytes *)
(* counts as corrupt, and so does one that is not handed to the callback   *)
(* although the application had set one on a connection that was set up.   *)
(* (What the application sets on a server that is still setting the        *)
(* connection up may be lost, 448; no such promise is made.)               *)
Corrupt == -1

Passed(i) ==
  IF /\ i \in DOMAIN begins
     /\ out[i].size = 0 \/ out[i].start = begins[i] + HeadSize
     /\ out[i].registered => out[i].handed
  THEN out[i].size
  ELSE Corrupt

Fifo == INSTANCE FrameFifo WITH
  sent <- written,
  passed <- [i \in DOMAIN out |-> Passed(i)]

ImplementsFifo == Fifo!Spec
=============================================================================
