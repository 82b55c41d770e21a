---------------------------- MODULE MCAgentFuse ----------------------------
(* Instances of AgentFuse over small directories.                             *)
EXTENDS AgentFuse

AB == {"a", "b"}
B  == {"b"}
ListingAB == <<"b", "a">>
ListingB  == <<"b">>

\* An empty file, and next to it a directory where the paths may be that deep.
FsFlat == [p \in {<<>>, <<"b">>} |-> IF p = <<>> THEN Dir ELSE File(<<>>, {})]
FsDeep == [p \in {<<>>, <<"a">>, <<"b">>} |-> IF p = <<"b">> THEN File(<<>>, {}) ELSE Dir]

\* A file of two blocks.
FsLong == [p \in {<<>>, <<"b">>} |-> IF p = <<>> THEN Dir ELSE File(<<1, 1>>, {})]
===============================================================================
