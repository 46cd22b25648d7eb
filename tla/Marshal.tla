------------------------------ MODULE Marshal ------------------------------
(***************************************************************************)
(* What a remote call does to its arguments: imouto_client_stub::push, the *)
(* message around it, imouto_server_stub::invoke with the function behind  *)
(* it, the reply, and imouto_client_stub::result.  When the messages get   *)
(* through, and how often, is the subject of RpcSession.                   *)
(***************************************************************************)
EXTENDS Xdr, SequencesExt

CONSTANTS
  Signature,  \* bound: the functions R(Arg...): [result |-> types, args |-> ...]
  Letter,     \* bound: what the bytes of a value may be
  Length      \* bound: the lengths of strings and opaque blocks

(* How a parameter is declared: T, const T& or T&.                         *)
Mode == {"value", "const reference", "reference"}

ASSUME MarshalAssumption ==
  /\ Length \subseteq Nat
  /\ Signature \subseteq
       [result : Seq(Type), args : Seq([mode : Mode, members : Seq(Type)])]
  /\ \A s \in Signature :
       /\ Len(s.result) <= 1
       /\ Len(s.result) + Len(s.args) <= SizeOfArgument

VARIABLES
  phase,  \* "calling", "sent", "served", then "returned" or "raised"
  sig,    \* the function of the stub
  caller, \* the caller's arguments when it calls
  wire,   \* the datagram that was sent last
  server, \* what the server's function got, left and did
  got     \* what the caller has when the call is over

vars == <<phase, sig, caller, wire, server, got>>

(* An argument of a class that XDR_DEFINE_TYPE_n describes stands for its  *)
(* members, one after the other.                                           *)
Members(arg) ==
  [k \in DOMAIN arg.members |-> [type |-> arg.members[k], mode |-> arg.mode]]

Fields(args) == FlattenSeq([i \in DOMAIN args |-> Members(args[i])])

(* type_list<result_type&, Arg...>; nothing in front of a void function.   *)
ResultFields(s) ==
  [i \in DOMAIN s.result |-> [type |-> s.result[i], mode |-> "reference"]]

ReplyFields(s) == ResultFields(s) \o Fields(s.args)

Types(fs) == [i \in DOMAIN fs |-> fs[i].type]

(* is_no_need_copy: a value, or a reference to const.                      *)
NoNeedCopy(mode) == mode \in {"value", "const reference"}

Copied(fs) == {i \in DOMAIN fs : ~ NoNeedCopy(fs[i].mode)}

(* condition_filter<is_archiveable> at the client ...                      *)
ClientArchives(fs) == DOMAIN fs

ClientReads(fs) == Copied(fs)

(* ... and <is_rarchiveable> at the server.                                *)
ServerReads(fs) == DOMAIN fs

(* Mutant: the server sends back every argument.                           *)
ServerArchivesAll(fs) == DOMAIN fs

ServerArchives(fs) == Copied(fs)

(* mymaker: every argument starts as real_type<T>::type().                 *)
Default(t) == IF IsFixed(t) THEN [i \in 1 .. t.size |-> Zero] ELSE <<>>

Defaults(fs) == [i \in DOMAIN fs |-> Default(fs[i].type)]

-----------------------------------------------------------------------------
(* Messages                                                                *)

HeadSize == Word
HeadBytes == [i \in 1 .. HeadSize |-> <<"head", i>>] \* rpc_call_body, reply_body

(* A memory_block is archived with its length.                             *)
Sized(block) == WordBytes(Len(block)) \o block

Unsized(bytes, at) == Bytes(bytes, at + Word, WordAt(bytes, at))

(* _call and _reply put the size of the whole in front.                    *)
Message(head, block) ==
  WordBytes(Len(head) + Len(Sized(block))) \o head \o Sized(block)

(* for_each_memory_block                                                   *)
Bodies(datagram) ==
  LET From[at \in Nat] ==
        IF at >= Len(datagram) THEN <<>>
        ELSE <<Unsized(datagram, at)>>
               \o From[at + Word + WordAt(datagram, at)]
  IN  From[0]

(* _process_rpcmsg_impl and _process_package_impl step over the head.      *)
BlockOf(body) == Unsized(body, HeadSize)

-----------------------------------------------------------------------------
(* The function                                                            *)

Value(t) ==
  {[i \in 1 .. n |-> Byte(c, i)] :
     c \in Letter, n \in IF IsFixed(t) THEN {t.size} ELSE Length}

Values(fs) ==
  {vs \in [DOMAIN fs -> UNION {Value(fs[i].type) : i \in DOMAIN fs}] :
     \A i \in DOMAIN fs : vs[i] \in Value(fs[i].type)}

(* What a function may leave in its arguments; strings of any length.      *)
Leaves(fs, before) ==
  {after \in Values(fs) :
     \A i \in DOMAIN fs : fs[i].mode = "const reference" => after[i] = before[i]}

(* rpc_exception is archived as the one string _string_what.               *)
What == <<[kind |-> "string", size |-> 0]>>
Unknown == <<Zero, Zero, Zero>> \* RPC_SERVER_UNKNOW_EXCEPTION

Idle == [seen |-> <<>>, used |-> 0, left |-> <<>>, what |-> <<>>, stat |-> "none"]
Nothing == [values |-> <<>>, at |-> 0, what |-> <<>>]

Init ==
  /\ phase = "calling"
  /\ sig \in Signature
  /\ caller \in Values(Fields(sig.args))
  /\ wire = <<>>
  /\ server = Idle
  /\ got = Nothing

-----------------------------------------------------------------------------
(* A value that is too long is thrown at the caller, who packs.            *)
PushThrows ==
  LET fs == Fields(sig.args)
  IN  /\ phase = "calling"
      /\ Refused(Types(fs), caller, ClientArchives(fs))
      /\ phase' = "raised"
      /\ UNCHANGED <<sig, caller, wire, server, got>>

Push ==
  LET fs == Fields(sig.args)
  IN  /\ phase = "calling"
      /\ ~ Refused(Types(fs), caller, ClientArchives(fs))
      /\ wire' = Message(HeadBytes, ArchiveReal(NewCore, Types(fs), caller,
                                           ClientArchives(fs)))
      /\ phase' = "sent"
      /\ UNCHANGED <<sig, caller, server, got>>

(* rarchive_real into the arguments call_with_filter has made.             *)
Arguments(block) ==
  LET fs == Fields(sig.args)
  IN  RarchiveReal(Types(fs), Defaults(fs), ServerReads(fs), block)

(* Mutant: what a throwing function says is dropped for a fixed text.      *)
FailureUnknown(what) ==
  [stat |-> "cpp exception",
   block |-> ArchiveReal(NewCore, What, <<Unknown>>, {1})]

(* catch of _call_stub_with_cppexp.  A message that is itself too long is  *)
(* thrown on, and _my_filter takes it for a platform exception, which goes *)
(* out as the image of the object, pointers and all.                       *)
Failure(what) ==
  IF TooLong(What[1], what)
  THEN [stat |-> "c exception", block |-> Broken]
  ELSE [stat |-> "cpp exception",
        block |-> ArchiveReal(NewCore, What, <<what>>, {1})]

(* The stub archives the result and what the function left, or throws an   *)
(* invalid_argument, which is none of the runtime_errors.                  *)
Success(values) ==
  LET fs == ReplyFields(sig)
  IN  IF Refused(Types(fs), values, ServerArchives(fs)) THEN Failure(Unknown)
      ELSE [stat |-> "success",
            block |-> ArchiveReal(NewCore, Types(fs), values,
                                  ServerArchives(fs))]

Answer(args, left, what, reply) ==
  /\ server' = [seen |-> args.values, used |-> args.at, left |-> left,
                what |-> what, stat |-> reply.stat]
  /\ wire' = Message(HeadBytes, reply.block)
  /\ phase' = "served"
  /\ UNCHANGED <<sig, caller, got>>

Serve(body) ==
  LET fs == Fields(sig.args)
      args == Arguments(BlockOf(body))
  IN  /\ phase = "sent"
      /\ \E result \in Values(ResultFields(sig)),
            left \in Leaves(fs, args.values) :
           Answer(args, result \o left, Unknown, Success(result \o left))

ServeThrows(body) ==
  /\ phase = "sent"
  /\ \E what \in Value(What[1]) :
       Answer(Arguments(BlockOf(body)), <<>>, what, Failure(what))

(* What the caller's variables hold before the reply is read into them: a  *)
(* new result, and his own arguments.                                      *)
Before(s, vs) == Defaults(ResultFields(s)) \o vs

(* imouto_client_stub::result                                              *)
Result(body) ==
  LET fs == ReplyFields(sig)
      read == RarchiveReal(Types(fs), Before(sig, caller), ClientReads(fs),
                           BlockOf(body))
  IN  /\ phase = "served"
      /\ server.stat = "success"
      /\ got' = [values |-> read.values, at |-> read.at, what |-> <<>>]
      /\ phase' = "returned"
      /\ UNCHANGED <<sig, caller, wire, server>>

(* _make_exception                                                         *)
Raise(body) ==
  /\ phase = "served"
  /\ server.stat # "success"
  /\ got' = [values |-> <<>>, at |-> 0, what |->
       IF server.stat = "c exception" THEN Broken
       ELSE RarchiveReal(What, <<<<>>>>, {1}, BlockOf(body)).values[1]]
  /\ phase' = "raised"
  /\ UNCHANGED <<sig, caller, wire, server>>

(* process_msg hands over every body of a datagram, here always one.       *)
ProcessMsg ==
  \E i \in DOMAIN Bodies(wire) :
    LET body == Bodies(wire)[i]
    IN  Serve(body) \/ ServeThrows(body) \/ Result(body) \/ Raise(body)

Next == PushThrows \/ Push \/ ProcessMsg

Spec == Init /\ [][Next]_vars

-----------------------------------------------------------------------------
(* Properties                                                              *)

(* The function runs on the arguments of the call, whichever way they are  *)
(* passed, and reading them takes exactly the bytes that were written for  *)
(* them (imouto_server_stub.hpp, lines 67 to 72).                          *)
ServerSeesArguments ==
  phase = "served" =>
    LET fs == Fields(sig.args)
    IN  /\ server.seen = caller
        /\ server.used =
             Len(ArchiveReal(NewCore, Types(fs), caller, ClientArchives(fs)))

(* No string that comes back is shorter than the variable it is read into. *)
Kept(s, vs, left) ==
  \A i \in Copied(ReplyFields(s)) :
    ReplyFields(s)[i].type.kind = "string" => Len(left[i]) >= Len(Before(s, vs)[i])

(* When the call returns, the caller has the function's result, what it    *)
(* left in the arguments it could change, and his other arguments as they  *)
(* were (imouto_client_stub.hpp, line 29); and the reply was read to its   *)
(* end.  Nothing is said of a call whose function left a string shorter    *)
(* than it got it: the caller's is then overwritten and appended to from   *)
(* behind the end of what came (string_serialize.hpp, lines 28 to 30).     *)
CallerSeesResults ==
  (phase = "returned" /\ Kept(sig, caller, server.left)) =>
    /\ got.values = [i \in DOMAIN ReplyFields(sig) |->
         IF i \in Copied(ReplyFields(sig)) THEN server.left[i]
         ELSE Before(sig, caller)[i]]
    /\ got.at = Len(BlockOf(Bodies(wire)[1]))

(* A call that raises although the server has packed a C++ exception has   *)
(* raised just the message that was thrown, or the one for results that do *)
(* not fit (imouto_rpc_server.hpp, 272 to 298); of messages that are too   *)
(* long themselves, and go out as a platform exception, nothing is said.   *)
CallerSeesFailure ==
  (phase = "raised" /\ server.stat = "cpp exception") => got.what = server.what
=============================================================================
