----------------------------- MODULE MCSqliteDict -----------------------------
(* Instances of SqliteDict for TLC. *)
EXTENDS SqliteDict, TLC

CONSTANTS p1, p2, v1, bad, data, other

(* SqliteDict(path, ..) in every process *)
OneTable == [p \in Procs |-> [multiple |-> FALSE, tables |-> <<data>>]]

(* SqliteDict.multiple(path, data, other) in every process *)
TwoTables == [p \in Procs |-> [multiple |-> TRUE, tables |-> <<data, other>>]]

(* def f(x, y="d", z="d"), cache_args=["x", "y"] *)
SomeFn == [params |-> <<"x", "y", "z">>, cache_args |-> <<"x", "y">>,
           default |-> [x |-> Empty, y |-> "d", z |-> "d"]]

Form(args, kwargs) == [args |-> args, kwargs |-> kwargs]
Kw(n, v) == [name |-> n, value |-> v]

(* f("a"), f("a", z="e"), f(y="e", x="a"), f("a", x="e") and f(y="e"): the first two *)
(* share a key, the fourth, which f does not take, has the same, the last has none.  *)
SomeForms ==
  { Form(<<"a">>, <<>>), Form(<<"a">>, <<Kw("z", "e")>>),
    Form(<<>>, <<Kw("y", "e"), Kw("x", "a")>>),
    Form(<<"a">>, <<Kw("x", "e")>>), Form(<<>>, <<Kw("y", "e")>>) }

SomeKeys == { [x |-> "a", y |-> "d"], [x |-> "a", y |-> "e"] }

OneKey == { [x |-> "a", y |-> "d"] }

(* Two items; one of two that cannot be serialized *)
SomeBatches ==
  { [k \in SomeKeys |-> v1], [k \in SomeKeys |-> IF k.y = "d" THEN v1 ELSE bad] }
=============================================================================
