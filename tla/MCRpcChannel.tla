---------------------------- MODULE MCRpcChannel ----------------------------
(* RpcChannel over a file system that holds one value: Read returns it,      *)
(* Write, which is not idempotent, extends it, Create fails once it exists. *)
EXTENDS RpcChannel

CONSTANTS c1, c2, a, b, empty, ok, exists

Read     == [op |-> "Read"]
Append1  == [op |-> "Write"]
Create   == [op |-> "Create"]
Truncate == [op |-> "Truncate"]

MCVfs == {empty, a, b}
MCValue == MCVfs \union {ok, exists}

MCAnswer(r, s) ==
    CASE r.op = "Read" -> s
      [] r.op = "Create" -> IF s = empty THEN ok ELSE exists
      [] OTHER -> ok

MCEffect(r, s) ==
    CASE r.op = "Write" -> IF s = empty THEN a ELSE b
      [] r.op = "Create" /\ s = empty -> a
      [] r.op = "Truncate" -> empty
      [] OTHER -> s

\* Truncate stands for the request whose path is not UTF-8.
MCRequest == {Read, Append1, Create, Truncate}
MCUnencodable == {Truncate}
ReadWrite == {Read, Append1}
Nothing == {}

\* Reading the value b overflows a frame.
MCOversize == {[op |-> "Read", val |-> b]}

Callers2 == {c1, c2}
===============================================================================
