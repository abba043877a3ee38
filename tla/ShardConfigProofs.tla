-------------------------- MODULE ShardConfigProofs --------------------------
(***************************************************************************)
(* Every configuration that JoinBalance or LeaveBalance has returned true  *)
(* for is well formed, for up to 256 shards and any number of groups.      *)
(***************************************************************************)
EXTENDS ShardConfig, FiniteSetTheorems, TLAPS

USE ShardConfigAssumption

\* What the loops of Rebalance have achieved so far.
Progress ==
  /\ (pc = "assign" /\ Groups # {}) => \A s \in Tshid : s < next => Shards[s] \in Groups
  /\ pc = "move" => Groups # {} /\ \A s \in Tshid : Shards[s] \in Groups

Inv == TypeOK /\ Progress /\ ConfigChecks

LEMMA TshidFinite == IsFiniteSet(Tshid) /\ Cardinality(Tshid) = NShards
<1>1. IsFiniteSet(Tshid)
  BY FS_Interval, NShards - 1 \in Int DEF Tshid
<1>2. Cardinality(Tshid) = NShards
  BY FS_Interval, NShards - 1 \in Int DEF Tshid
<1> QED BY <1>1, <1>2

\* The number of a group's shards is a number.
LEMMA CountNat ==
  ASSUME NEW f, NEW g
  PROVE  /\ IsFiniteSet({s \in Tshid : f[s] = g})
         /\ Cardinality({s \in Tshid : f[s] = g}) \in Nat
<1>1. {s \in Tshid : f[s] = g} \in SUBSET Tshid
  OBVIOUS
<1>2. IsFiniteSet({s \in Tshid : f[s] = g})
  BY <1>1, TshidFinite, FS_Subset
<1> QED BY <1>2, FS_CardinalityType

\* When the most and the least loaded groups are even, so are all.
LEMMA EvenBalanced ==
  ASSUME NEW mg \in Groups, NEW lg \in Groups, Most(mg), Least(lg), Even(mg, lg)
  PROVE  Balanced(Shards, Groups)
<1> SUFFICES ASSUME NEW g \in Groups, NEW h \in Groups
             PROVE  Count(g) <= Count(h) + 1
  BY DEF Balanced, Count
<1>1. Count(g) \in Nat /\ Count(h) \in Nat /\ Count(mg) \in Nat /\ Count(lg) \in Nat
  BY CountNat DEF Count
<1>2. Count(g) <= Count(mg)
  BY <1>1 DEF Most
<1>3. Count(lg) <= Count(h)
  BY <1>1 DEF Least
<1> HIDE DEF Count
<1> QED BY <1>1, <1>2, <1>3 DEF Even

LEMMA InitInv == Init => Inv
<1> SUFFICES ASSUME Init PROVE Inv
  OBVIOUS
<1>1. TypeOK
  BY DEF Init, TypeOK
<1>2. Progress
  BY DEF Init, Progress
<1>3. ConfigChecks
  BY DEF Init, ConfigChecks, Balanced
<1> QED BY <1>1, <1>2, <1>3 DEF Inv

\* Join and Leave keep the shards, so Rebalance starts with its first loop.
LEMMA AcceptInv ==
  ASSUME TypeOK, NEW b \in BOOLEAN, Accept(b), Groups' \subseteq Gids, Num < MaxNum
  PROVE  Inv'
<1>1. TypeOK'
  BY DEF TypeOK, Accept
<1>2. Progress'
  BY DEF Progress, Accept, TypeOK, Tshid
<1>3. ConfigChecks'
  BY DEF ConfigChecks, Accept
<1> QED BY <1>1, <1>2, <1>3 DEF Inv

LEMMA FatalInv ==
  ASSUME TypeOK, Fatal
  PROVE  Inv'
BY DEF Inv, TypeOK, Fatal, configVars, Progress, ConfigChecks

LEMMA JoinInv ==
  ASSUME Inv, NEW batch \in SUBSET Gids, JoinBalance(batch)
  PROVE  Inv'
<1>1. TypeOK
  BY DEF Inv
<1>2. Groups \subseteq Gids
  BY <1>1 DEF TypeOK
<1>3. CASE Fatal
  BY <1>1, <1>3, FatalInv
<1>4. CASE \E b \in BOOLEAN : Accept(b) /\ Groups' \subseteq Gids /\ Num < MaxNum
  BY <1>1, <1>4, AcceptInv
<1>5. Fatal \/ \E b \in BOOLEAN : Accept(b) /\ Groups' \subseteq Gids /\ Num < MaxNum
  BY <1>2, Zenon DEF JoinBalance
<1> QED BY <1>3, <1>4, <1>5

LEMMA LeaveInv ==
  ASSUME Inv, NEW gids, LeaveBalance(gids)
  PROVE  Inv'
<1>1. TypeOK
  BY DEF Inv
<1>2. Groups \subseteq Gids
  BY <1>1 DEF TypeOK
<1>3. CASE Fatal
  BY <1>1, <1>3, FatalInv
<1>4. CASE \E b \in BOOLEAN : Accept(b) /\ Groups' \subseteq Gids /\ Num < MaxNum
  BY <1>1, <1>4, AcceptInv
<1>5. Fatal \/ \E b \in BOOLEAN : Accept(b) /\ Groups' \subseteq Gids /\ Num < MaxNum
  BY <1>2, Zenon DEF LeaveBalance
<1> QED BY <1>3, <1>4, <1>5

LEMMA RebalanceInv ==
  ASSUME Inv, Rebalance
  PROVE  Inv'
<1>1. CASE NoGroups
  <2>1. TypeOK'
    BY <1>1 DEF Inv, TypeOK, NoGroups
  <2>2. Progress'
    BY <1>1 DEF Progress, NoGroups
  <2>3. ConfigChecks'
    BY <1>1 DEF ConfigChecks, NoGroups, Balanced
  <2> QED BY <2>1, <2>2, <2>3 DEF Inv
<1>2. CASE Assign
  <2>1. CASE next = NShards
    <3>1. TypeOK'
      BY <1>2, <2>1 DEF Inv, TypeOK, Assign
    <3>2. Progress'
      BY <1>2, <2>1 DEF Inv, TypeOK, Progress, Assign, Tshid
    <3>3. ConfigChecks'
      BY <1>2, <2>1 DEF ConfigChecks, Assign
    <3> QED BY <3>1, <3>2, <3>3 DEF Inv
  <2>2. CASE next # NShards
    <3>1. next \in Tshid
      BY <2>2 DEF Inv, TypeOK, Tshid
    <3>2. PICK g \in Gids \cup {0} : Shards' = [Shards EXCEPT ![next] = g] /\ g \in Groups
      <4>1. CASE Shards[next] \in Groups
        BY <1>2, <2>2, <3>1, <4>1 DEF Assign, Inv, TypeOK
      <4>2. CASE Shards[next] \notin Groups
        BY <1>2, <2>2, <3>1, <4>2 DEF Assign, Inv, TypeOK
      <4> QED BY <4>1, <4>2
    <3>3. pc = "assign" /\ pc' = pc /\ next' = next + 1
            /\ UNCHANGED <<Num, Groups, ok, before>> /\ Groups # {}
      BY <1>2, <2>2 DEF Assign
    <3>4. TypeOK'
      BY <3>1, <3>2, <3>3 DEF Inv, TypeOK, Tshid
    <3>5. Progress'
      BY <3>1, <3>2, <3>3 DEF Inv, TypeOK, Progress, Tshid
    <3>6. ConfigChecks'
      BY <3>3 DEF ConfigChecks
    <3> QED BY <3>4, <3>5, <3>6 DEF Inv
  <2> QED BY <2>1, <2>2
<1>3. CASE Move
  <2>1. PICK mg, lg \in Groups :
          /\ Most(mg) /\ Least(lg)
          /\ \/ Even(mg, lg) /\ pc' = "idle" /\ UNCHANGED Shards
             \/ ~Even(mg, lg) /\ Shards' = [Shards EXCEPT ![FirstOf(mg)] = lg] /\ UNCHANGED pc
    BY <1>3 DEF Move
  <2>2. pc = "move" /\ UNCHANGED <<Num, Groups, next, ok, before>>
    BY <1>3 DEF Move
  <2>3. \A s \in Tshid : Shards'[s] \in Groups
    BY <2>1, <2>2 DEF Inv, Progress, TypeOK
  <2>4. TypeOK'
    BY <2>1, <2>2 DEF Inv, TypeOK
  <2>5. Progress'
    BY <2>1, <2>2, <2>3 DEF Inv, Progress
  <2>6. ConfigChecks'
    <3>1. CASE Even(mg, lg) /\ pc' = "idle" /\ UNCHANGED Shards
      <4>1. Balanced(Shards, Groups)
        BY <2>1, <3>1, EvenBalanced
      <4>2. Balanced(Shards, Groups)'
        BY <4>1, <2>2, <3>1 DEF Balanced
      <4> QED BY <4>2, <2>2, <2>3 DEF ConfigChecks, Inv, Progress
    <3>2. CASE UNCHANGED pc
      BY <2>2, <3>2 DEF ConfigChecks
    <3> QED BY <2>1, <3>1, <3>2
  <2> QED BY <2>4, <2>5, <2>6 DEF Inv
<1> QED BY <1>1, <1>2, <1>3 DEF Rebalance

LEMMA NextInv == Inv /\ [Next]_vars => Inv'
<1> SUFFICES ASSUME Inv, [Next]_vars PROVE Inv'
  OBVIOUS
<1>1. CASE UNCHANGED vars
  BY <1>1 DEF Inv, TypeOK, Progress, ConfigChecks, Balanced, vars, configVars
<1>2. CASE Next
  BY <1>2, RebalanceInv, JoinInv, LeaveInv DEF Next
<1> QED BY <1>1, <1>2

\* CheckConfig accepts every configuration for which JoinBalance or LeaveBalance
\* returned true, whatever calls were made and refused before
\* (shardcfg.go:122-279).
THEOREM ConfigChecksAlways == Spec => []ConfigChecks
<1>1. Inv => ConfigChecks
  BY DEF Inv
<1> QED BY InitInv, NextInv, <1>1, PTL DEF Spec

\* Shards that are spread evenly over no more groups than there are shards leave
\* no group without one.
LEMMA EvenReachesAll ==
  ASSUME TypeOK, ConfigChecks, pc = "idle", ok, Cardinality(Groups) <= NShards,
         NEW g \in Groups
  PROVE  IsMember(g)
<1> SUFFICES ASSUME ~IsMember(g) PROVE FALSE
  OBVIOUS
<1>1. IsFiniteSet(Groups) /\ Cardinality(Groups) \in Nat
  BY FS_Subset, FS_CardinalityType DEF TypeOK
<1>2. Cardinality(Groups \ {g}) = Cardinality(Groups) - 1 /\ IsFiniteSet(Groups \ {g})
  BY <1>1, FS_RemoveElement
<1>3. Shards \in [Tshid -> Groups \ {g}]
  BY DEF TypeOK, ConfigChecks, IsMember
<1>4. PICK s, t \in Tshid : s # t /\ Shards[s] = Shards[t]
  BY <1>1, <1>2, <1>3, TshidFinite, FS_PigeonHole
<1> DEFINE h == Shards[s]
           S == {x \in Tshid : Shards[x] = h}
<1>5. h \in Groups
  BY <1>3, <1>4
<1>6. Cardinality({x \in Tshid : Shards[x] = g}) = 0
  <2>1. {x \in Tshid : Shards[x] = g} = {}
    BY DEF IsMember
  <2> QED BY <2>1, FS_EmptySet
<1>7. Cardinality(S) <= 1
  <2>1. Cardinality(S) <= Cardinality({x \in Tshid : Shards[x] = g}) + 1
    BY <1>5, Zenon DEF ConfigChecks, Balanced
  <2> QED BY <2>1, <1>6
<1>8. {s, t} \subseteq S
  BY <1>4
<1>9. Cardinality({s, t}) = 2
  <2>1. IsFiniteSet({s}) /\ Cardinality({s}) = 1
    BY FS_Singleton
  <2>2. Cardinality({s} \cup {t}) = 2
    <3>1. t \notin {s}
      BY <1>4
    <3>2. Cardinality({s} \cup {t}) = IF t \in {s} THEN Cardinality({s}) ELSE Cardinality({s}) + 1
      BY <2>1, FS_AddElement, Zenon
    <3> QED BY <2>1, <3>1, <3>2
  <2>3. {s, t} = {s} \cup {t}
    OBVIOUS
  <2> QED BY <2>2, <2>3
<1>10. IsFiniteSet(S) /\ Cardinality(S) \in Nat
  BY CountNat
<1> HIDE DEF S
<1>11. Cardinality({s, t}) <= Cardinality(S)
  BY <1>8, <1>10, FS_Subset
<1> QED BY <1>7, <1>9, <1>10, <1>11

\* IsMember says who is in the configuration, for any number of shards that is
\* not smaller than the number of groups (shardcfg.go:229-236).
THEOREM MembersServeAlways == Spec => []MembersServe
<1>1. Inv => MembersServe
  <2> SUFFICES ASSUME Inv, pc = "idle", ok, Cardinality(Groups) <= NShards, NEW g \in Gids
               PROVE  IsMember(g) <=> g \in Groups
    BY DEF MembersServe
  <2>1. ASSUME g \in Groups PROVE IsMember(g)
    BY <2>1, EvenReachesAll DEF Inv
  <2>2. ASSUME IsMember(g) PROVE g \in Groups
    BY <2>2 DEF Inv, ConfigChecks, IsMember, TypeOK
  <2> QED BY <2>1, <2>2
<1> QED BY InitInv, NextInv, <1>1, PTL DEF Spec
=============================================================================
