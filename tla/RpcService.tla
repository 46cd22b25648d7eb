----------------------------- MODULE RpcService -----------------------------
(***************************************************************************)
(* What the RPC client and server promise together: a call runs on the     *)
(* server once at most, its callback is called once at most, and a success *)
(* is what the procedure returned.  A call may stay unanswered, and it may *)
(* fail whether or not it ran.                                             *)
(***************************************************************************)
CONSTANT Call

VARIABLES
  called,    \* the calls that were made
  ran,       \* for each call: not run, returned, ended by an exception, or
             \* returned what could not be sent
  answer     \* for each call: what its callback was told

vars == <<called, ran, answer>>

Init ==
  /\ called = {}
  /\ ran = [id \in Call |-> "not_run"]
  /\ answer = [id \in Call |-> "none"]

Invoke(id) ==
  /\ id \notin called
  /\ called' = called \cup {id}
  /\ UNCHANGED <<ran, answer>>

Run(id) ==
  /\ id \in called
  /\ ran[id] = "not_run"
  /\ \E end \in {"returned", "raised", "unsent"} : ran' = [ran EXCEPT ![id] = end]
  /\ UNCHANGED <<called, answer>>

Succeed(id) ==
  /\ ran[id] = "returned"
  /\ answer[id] = "none"
  /\ answer' = [answer EXCEPT ![id] = "success"]
  /\ UNCHANGED <<called, ran>>

Fail(id) ==
  /\ id \in called
  /\ answer[id] = "none"
  /\ answer' = [answer EXCEPT ![id] = "failure"]
  /\ UNCHANGED <<called, ran>>

Next == \E id \in Call : Invoke(id) \/ Run(id) \/ Succeed(id) \/ Fail(id)

Spec == Init /\ [][Next]_vars
=============================================================================
