----------------------------- MODULE ShardConfig -----------------------------
(***************************************************************************)
(* A configuration of the sharded key/value service: which replica group   *)
(* serves which shard (shardkv1/shardcfg/shardcfg.go).  JoinBalance and    *)
(* LeaveBalance change the set of groups and then rebalance the shards;    *)
(* each iteration of Rebalance's loops is a step here.                     *)
(***************************************************************************)
EXTENDS Integers, Sequences, FiniteSets

CONSTANTS
  NShards,   \* 12 in the code
  Gids,      \* identifiers of groups, none of them 0
  Servers,   \* [Gids -> set of names of servers]
  MaxNum,    \* bound on the number of configurations
  MaxBatch   \* bound on the groups of one call

\* analyze and CheckConfig take 257 shards to be more than any group has.
ASSUME ShardConfigAssumption ==
  /\ NShards \in 1..256 /\ MaxNum \in Nat /\ MaxBatch \in Nat
  /\ Gids \subseteq Nat \ {0} /\ IsFiniteSet(Gids)

VARIABLES
  Num, Shards, Groups,   \* ShardConfig; Groups as the set of its keys
  pc,       \* "idle", in Rebalance ("assign" or "move"), or "fatal"
  next,     \* the shard that the loop over the unassigned shards looks at
  ok,       \* what the last call returned
  before    \* history: Shards before the call

configVars == <<Num, Shards, Groups>>
vars == <<configVars, pc, next, ok, before>>

Tshid == 0 .. NShards - 1

TypeOK ==
  /\ Num \in 0..MaxNum /\ Shards \in [Tshid -> Gids \cup {0}] /\ Groups \subseteq Gids
  /\ pc \in {"idle", "assign", "move", "fatal"} /\ next \in 0..NShards
  /\ ok \in BOOLEAN /\ before \in [Tshid -> Gids \cup {0}]

\* MakeShardConfig.
Init ==
  /\ Num = 0 /\ Shards = [s \in Tshid |-> 0] /\ Groups = {}
  /\ pc = "idle" /\ next = 0 /\ ok = TRUE /\ before = Shards

(***************************************************************************)
(* analyze: the groups with the most and with the fewest shards; the       *)
(* smaller identifier where there is a tie.                                *)
(***************************************************************************)
Count(g) == Cardinality({s \in Tshid : Shards[s] = g})
Most(g) == g \in Groups /\ \A h \in Groups : Count(h) < Count(g) \/ (Count(h) = Count(g) /\ g <= h)
Least(g) == g \in Groups /\ \A h \in Groups : Count(h) > Count(g) \/ (Count(h) = Count(g) /\ g <= h)

(***************************************************************************)
(* Join and Leave.                                                         *)
(***************************************************************************)
\* The call returns b; Rebalance follows if that is TRUE.
Accept(b) ==
  /\ ok' = b /\ before' = Shards /\ next' = 0 /\ UNCHANGED Shards
  /\ pc' = IF b THEN "assign" ELSE "idle"
  /\ Num' = IF b THEN Num + 1 ELSE Num

Fatal == pc' = "fatal" /\ UNCHANGED <<configVars, next, ok, before>>

\* A server of the batch is already in another group, or twice in the batch.
Shared(batch) ==
  \E g \in batch, h \in Groups \cup batch : g # h /\ Servers[g] \cap Servers[h] # {}

\* The batch is a map, taken in any order: a group that is there already makes
\* Join return, and those that came before it stay.
JoinBalance(batch) ==
  /\ pc = "idle" /\ Num < MaxNum
  /\ \/ batch = {} /\ Fatal
     \/ /\ batch # {} /\ batch \cap Groups = {} /\ ~Shared(batch)
        /\ Groups' = Groups \cup batch /\ Accept(TRUE)
     \/ /\ batch \cap Groups = {} /\ Shared(batch)
        /\ Fatal
     \/ /\ batch \cap Groups # {}
        /\ \E first \in SUBSET (batch \ Groups) :
             IF Shared(first) THEN Fatal ELSE Groups' = Groups \cup first /\ Accept(FALSE)

\* The first gid that is not, or no longer, in the configuration ends Leave;
\* those before it are gone.
LeaveBalance(gids) ==
  /\ pc = "idle" /\ Num < MaxNum
  /\ LET bad == {i \in DOMAIN gids : gids[i] \notin Groups \/ \E j \in 1..i - 1 : gids[j] = gids[i]}
         gone(n) == {gids[i] : i \in 1..n}
     IN \/ gids = <<>> /\ Fatal
        \/ /\ gids # <<>> /\ bad = {}
           /\ Groups' = Groups \ gone(Len(gids)) /\ Accept(TRUE)
        \/ \E i \in bad : /\ \A j \in bad : i <= j
                          /\ Groups' = Groups \ gone(i - 1) /\ Accept(FALSE)

(***************************************************************************)
(* Rebalance.                                                              *)
(***************************************************************************)
NoGroups ==
  /\ pc = "assign" /\ Groups = {}
  /\ Shards' = [s \in Tshid |-> 0] /\ pc' = "idle"
  /\ UNCHANGED <<Num, Groups, next, ok, before>>

\* Mutant: a shard counts as unassigned only if it never had a group.
AssignZero ==
  /\ pc = "assign" /\ Groups # {}
  /\ IF next = NShards
       THEN pc' = "move" /\ UNCHANGED <<Shards, next>>
       ELSE /\ \/ Shards[next] # 0 /\ UNCHANGED Shards
               \/ /\ Shards[next] = 0
                  /\ \E g \in Groups : Least(g) /\ Shards' = [Shards EXCEPT ![next] = g]
            /\ next' = next + 1 /\ UNCHANGED pc
  /\ UNCHANGED <<Num, Groups, ok, before>>

\* Mutant: every shard is assigned anew.
AssignAll ==
  /\ pc = "assign" /\ Groups # {}
  /\ IF next = NShards
       THEN pc' = "move" /\ UNCHANGED <<Shards, next>>
       ELSE /\ \E g \in Groups : Least(g) /\ Shards' = [Shards EXCEPT ![next] = g]
            /\ next' = next + 1 /\ UNCHANGED pc
  /\ UNCHANGED <<Num, Groups, ok, before>>

\* A shard whose group is not in the configuration goes to the least loaded.
Assign ==
  /\ pc = "assign" /\ Groups # {}
  /\ IF next = NShards
       THEN pc' = "move" /\ UNCHANGED <<Shards, next>>
       ELSE /\ \/ Shards[next] \in Groups /\ UNCHANGED Shards
               \/ /\ Shards[next] \notin Groups
                  /\ \E g \in Groups : Least(g) /\ Shards' = [Shards EXCEPT ![next] = g]
            /\ next' = next + 1 /\ UNCHANGED pc
  /\ UNCHANGED <<Num, Groups, ok, before>>

FirstOf(g) == CHOOSE s \in Tshid : Shards[s] = g /\ \A t \in Tshid : Shards[t] = g => s <= t

\* Mutant: one shard of difference is too much.
EvenStrict(mg, lg) == Count(mg) < Count(lg) + 1

Even(mg, lg) == Count(mg) < Count(lg) + 2

\* One shard moves from the most to the least loaded, until the load is even.
Move ==
  /\ pc = "move"
  /\ \E mg, lg \in Groups :
       /\ Most(mg) /\ Least(lg)
       /\ \/ Even(mg, lg) /\ pc' = "idle" /\ UNCHANGED Shards
          \/ ~Even(mg, lg) /\ Shards' = [Shards EXCEPT ![FirstOf(mg)] = lg] /\ UNCHANGED pc
  /\ UNCHANGED <<Num, Groups, next, ok, before>>

Rebalance == NoGroups \/ Assign \/ Move

Next ==
  \/ Rebalance
  \/ \E batch \in SUBSET Gids : Cardinality(batch) <= MaxBatch /\ JoinBalance(batch)
  \/ \E gids \in UNION {[1..n -> Gids] : n \in 0..MaxBatch} : LeaveBalance(gids)

Spec == Init /\ [][Next]_vars
FairSpec == Spec /\ WF_vars(Rebalance)
-----------------------------------------------------------------------------
Balanced(f, gs) ==
  \A g, h \in gs : Cardinality({s \in Tshid : f[s] = g}) <= Cardinality({s \in Tshid : f[s] = h}) + 1

\* CheckConfig accepts every configuration a call has returned true for, also
\* after calls that were refused half way: each shard belongs to a group of the
\* configuration and no group has two more than another (shardcfg.go:238-279).
ConfigChecks ==
  (pc = "idle" /\ ok) =>
    /\ Groups # {} => \A s \in Tshid : Shards[s] \in Groups
    /\ Groups = {} => \A s \in Tshid : Shards[s] = 0
    /\ Balanced(Shards, Groups)

\* IsMember, which looks at the shards, agrees with the set of groups as long as
\* there are shards enough (test.go:124-128 takes it for membership).
IsMember(g) == \E s \in Tshid : Shards[s] = g
MembersServe ==
  (pc = "idle" /\ ok /\ Cardinality(Groups) <= NShards) =>
    \A g \in Gids : IsMember(g) <=> g \in Groups

\* Rebalancing moves as few shards as any balanced assignment to the same groups
\* would (shardcfg.go:120-154).
Moved(f) == Cardinality({s \in Tshid : f[s] # before[s]})
FewestMoves ==
  (pc = "idle" /\ ok /\ Groups # {}) =>
    \A f \in [Tshid -> Groups] : Balanced(f, Groups) => Moved(Shards) <= Moved(f)

\* Rebalance returns: its second loop has no bound of its own (shardcfg.go:141).
RebalanceEnds == pc \in {"assign", "move"} ~> pc = "idle"
=============================================================================
