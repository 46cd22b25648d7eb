----------------------------- MODULE MCMarshal -----------------------------
(* Three functions: long name(short, string&), void set(const long&,       *)
(* class { char; string }&, opaque) and string read(opaque&, char).        *)
EXTENDS Marshal

CONSTANTS a, b

Short == [kind |-> "plain", size |-> 2]
Long == [kind |-> "plain", size |-> 4]
WrappedChar == [kind |-> "wrapped", size |-> 1]
WrappedOdd == [kind |-> "wrapped", size |-> 5]
Str == [kind |-> "string", size |-> 0]
Opaque == [kind |-> "opaque", size |-> 0]
Arg(m, ts) == [mode |-> m, members |-> ts]

MCSignature ==
  {[result |-> <<Long>>,
    args |-> <<Arg("value", <<Short>>), Arg("reference", <<Str>>)>>],
   [result |-> <<>>,
    args |-> <<Arg("const reference", <<Long>>),
               Arg("reference", <<WrappedChar, Str>>),
               Arg("value", <<Opaque>>)>>],
   [result |-> <<Str>>,
    args |-> <<Arg("reference", <<Opaque>>),
               Arg("value", <<WrappedOdd>>)>>]}
=============================================================================
