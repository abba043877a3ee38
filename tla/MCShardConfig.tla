--------------------------- MODULE MCShardConfig ---------------------------
(***************************************************************************)
(* ShardConfig for TLC: the last two groups have a server in common.       *)
(***************************************************************************)
EXTENDS ShardConfig

ServerNames == [g \in Gids |-> {g} \cup IF g = Cardinality(Gids) THEN {g - 1} ELSE {}]
=============================================================================
