------------------------------ MODULE MCLoader ------------------------------
(* Instances of Loader for TLC. *)
EXTENDS Loader

J(type, n) == [type |-> type, n |-> n]
Line(k, v) == [key |-> k, val |-> v]
File(lines, tail) == [opens |-> TRUE, lines |-> lines, tail |-> tail]
Format(t, sorted, nt) == [record_type |-> t, is_sorted |-> sorted, number_type |-> nt]

S(n) == J("string", n)
I(n) == J("integer", n)

(* Two files that share a key, one out of order, one with a key twice *)
Low == File(<<Line(S(1), S(1)), Line(S(2), S(1))>>, "end")
High == File(<<Line(S(3), S(2)), Line(S(2), S(2))>>, "end")
Twice == File(<<Line(S(1), S(1)), Line(S(1), S(2))>>, "end")
Nothing == File(<<>>, "end")
OneColumn == File(<<Line(S(1), J("missing", 0))>>, "end")
Cut(tail) == File(<<Line(S(1), S(1))>>, tail)
NotThere == [opens |-> FALSE, lines |-> <<Line(S(1), S(1))>>, tail |-> "end"]

(* Numbers at the ends of the ranges, for values and as keys; the bytes of 16, 2 *)
(* and 1 ascend, those of 1, 2 and 16 do not                                     *)
Numbers == File(<<Line(I(1), I(-8)), Line(I(16), I(7)), Line(I(2), I(8))>>, "end")
InBytes == File(<<Line(I(16), I(1)), Line(I(2), I(1)), Line(I(1), I(1)), Line(I(-1), I(1))>>, "end")
Naturals4 == File(<<Line(S(1), I(15)), Line(S(2), I(16)), Line(S(3), I(128))>>, "end")
Negative == File(<<Line(S(1), I(-1))>>, "end")
Floats == File(<<Line(S(1), I(4)), Line(S(2), I(7)), Line(S(3), J("float", 35)), Line(S(4), I(32))>>, "end")
Mixed == File(<<Line(S(1), J("bool", 1)), Line(S(2), J("null", 0)),
                Line(S(3), J("object", 1)), Line(S(4), J("float", 1))>>, "end")
NoKey == File(<<Line(J("missing", 0), S(1))>>, "end")

LoadTo(files, format, create) ==
  [api |-> "load", files |-> files, format |-> format, create |-> create]
Load(files, format) == LoadTo(files, format, TRUE)
IngestCall(files) ==
  [api |-> "ingest", files |-> files, format |-> Format("bin_kv", TRUE, "none"), create |-> FALSE]

SomeCalls ==
  { Load(<<>>, Format("tabsep", FALSE, "none")),
    Load(<<Low, High>>, Format("tabsep", FALSE, "none")),
    Load(<<High, Low>>, Format("tabsep", FALSE, "none")),
    Load(<<High>>, Format("tabsep", TRUE, "none")),
    LoadTo(<<Low>>, Format("tabsep", TRUE, "none"), FALSE),
    Load(<<Low, OneColumn>>, Format("tabsep", FALSE, "none")),
    Load(<<Low, Twice>>, Format("tabsep", FALSE, "none")),
    Load(<<Low, NotThere>>, Format("tabsep", FALSE, "none")),
    Load(<<Nothing, Low>>, Format("tabsep", FALSE, "none")),
    Load(<<Nothing, Nothing>>, Format("tabsep", FALSE, "none")),
    IngestCall(<<Low>>), IngestCall(<<Low, Nothing>>) }
  \cup { Load(<<Cut(t)>>, Format("bin_kv", TRUE, "none")) : t \in Tails }
  \cup { Load(<<Numbers>>, Format("ndjson", FALSE, nt)) : nt \in {"none", "i32", "i64", "f64"} }
  \cup { Load(<<Naturals4>>, Format("tuple2", TRUE, nt)) : nt \in {"u32", "u64", "i64"} }
  \cup { Load(<<Negative>>, Format("tuple2", TRUE, nt)) : nt \in {"u32", "f32"} }
  \cup { Load(<<Floats>>, Format("tuple2", TRUE, nt)) : nt \in {"f32", "f64"} }
  \cup { Load(<<Numbers>>, Format("ndjson", TRUE, "i64")),
         Load(<<InBytes>>, Format("ndjson", TRUE, "i64")),
         Load(<<Mixed>>, Format("ndjson", FALSE, "f32")),
         Load(<<Mixed>>, Format("tuple2", TRUE, "i32")),
         Load(<<NoKey>>, Format("ndjson", FALSE, "none")) }
=============================================================================
