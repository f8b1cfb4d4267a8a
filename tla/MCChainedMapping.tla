---------------------------- MODULE MCChainedMapping --------------------------
(* Instances of ChainedMapping for TLC. *)
EXTENDS ChainedMapping

CONSTANTS t1, t2, s1

(* Two threads of one process, and another process with a secondary *)
ThreadModes == [t \in Threads |-> IF t = s1 THEN "secondary" ELSE "write"]

(* Keys with the prefix <<1>> and one beside it *)
SomeKeys == {<<1>>, <<1, 2>>, <<2>>}

(* A prefix as long as the extractor's, and a longer one *)
SomePrefixes == {<<1>>, <<1, 2>>}

(* A database with a key beside the prefix, and a full one *)
SomeDatabases ==
  { [k \in SomeKeys |-> IF k \in present THEN "v" ELSE Absent] :
      present \in {{<<2>>}, SomeKeys} }

(* A second mapping that holds one of the keys *)
OneKey == [k \in SomeKeys |-> IF k = <<1>> THEN "w" ELSE Absent]

UserSymmetry == Permutations(CacheUsers)
=============================================================================
