--------------------------- MODULE MCParallelCache ---------------------------
(* Instances of ParallelCache for TLC. *)
EXTENDS ParallelCache, TLC

CONSTANTS w1, w2

(* def f(x) *)
OneParameter ==
  [params |-> <<"x">>, default |-> [x |-> Empty], cache_args |-> <<"x">>]

ForA == [x |-> "a"]
ForB == [x |-> "b"]

(* The arguments for which f may raise *)
OnlyA == {ForA}
OnlyB == {ForB}
Nothing == {}

(* f("a") and f(x="a") *)
SomeForms == { [args |-> <<"a">>, kwargs |-> <<>>],
               [args |-> <<>>, kwargs |-> <<[name |-> "x", value |-> "a"]>>] }

Batch(op, mode, inputs, ignore, bound) ==
  [op |-> op, mode |-> mode, inputs |-> inputs, ignore |-> ignore, bound |-> bound]

(* Pools of processes and of threads, sequential loops, two tasks of one key, *)
(* a cache that is pickled with the tasks                                     *)
AllBatches ==
  { Batch("map", "processes", <<"a", "b">>, FALSE, FALSE),
    Batch("map", "processes", <<"b", "b">>, TRUE, TRUE),
    Batch("foreach", "processes", <<>>, FALSE, FALSE),
    Batch("map", "threads", <<"b", "a">>, FALSE, FALSE),
    Batch("foreach", "sequential", <<"b", "a">>, TRUE, FALSE) }

(* One thread pool *)
ThreadBatches ==
  { Batch("map", "threads", <<"a", "b">>, TRUE, FALSE) }

(* One argument, for which the function may raise *)
OneBatch == { Batch("map", "processes", <<"a">>, FALSE, TRUE) }

NoRows == [k \in {} |-> None]

NewDatabase == { [compress |-> {}, store |-> NoRows] }

(* A new database; one that was filled without compression; compressed keys *)
AllPrograms == NewDatabase \cup
  { [compress |-> {"value"},
     store |-> KeyOf[[args |-> <<"a">>, kwargs |-> <<>>]] :> [val |-> ForA, codec |-> "pickle"]],
    [compress |-> {"key"}, store |-> NoRows] }
=============================================================================
