------------------------------- MODULE MCKVTest -------------------------------
EXTENDS KVTest

CONSTANTS c1, c2, c3

TwoRounds == <<<<c1, c2>>, <<c3>>>>

EntryLists == Seq([id : Clients, n : Nat])
NoEntries == << >>
=============================================================================
