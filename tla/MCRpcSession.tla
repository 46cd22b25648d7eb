---------------------------- MODULE MCRpcSession ----------------------------
(***************************************************************************)
(* Small instances of RpcSession for TLC.                                  *)
(***************************************************************************)
EXTENDS RpcSession

CONSTANTS c1, t1, t2

(* Two threads of one process.                                             *)
OneProcess == [t \in Thread |-> c1]

(* The first call may be of any kind.                                      *)
AnyThenTwo == [x \in Xid |-> IF x = 1 THEN Kind ELSE {"returns", "distrusted"}]

(* The processes count from 0: the second call has an xid that the first   *)
(* block of bits does not hold, so its request may come too early.         *)
FromZero == [c \in Client |-> 0]
=============================================================================
