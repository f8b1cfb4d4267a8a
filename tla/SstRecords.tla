----------------------------- MODULE SstRecords -----------------------------
(***************************************************************************)
(* What build_sst_file makes of an input file (src/src/rocksdb/loader.rs): *)
(* the key and the value of each line or binary record, as bytes, and the  *)
(* pairs an SST file holds.                                                *)
(*                                                                         *)
(* A JSON value is [type, n]; n tells apart the values of one type, and is *)
(* the number itself for a number (of some power of two, for a float, as   *)
(* the unit).  "missing" is an attribute that is not there, "garbled" what *)
(* cannot be parsed.  Bytes are [as, n]: an encoding and what was encoded; *)
(* text 0 is the text of no bytes.                                         *)
(***************************************************************************)
EXTENDS Integers, Sequences

CONSTANTS
  Byte,     \* 2^8: the values of a byte; an i32 has four of them, an i64 eight
  Half,     \* 2^31: the signed encodings of 32 bits are those of -Half..(Half - 1)
  Full,     \* 2^63
  Exact32,  \* 2^24: the integers up to it are floats of 32 bits
  Exact64,  \* 2^53: the integers up to it are floats of 64 bits
  Powers    \* the powers of two up to Full

ASSUME WidthsAssumption ==
  /\ Powers \subseteq Nat \ {0}
  /\ \A u \in Powers : u = 1 \/ \E w \in Powers : u = 2 * w
  /\ {Byte, Half, Full, Exact32, Exact64} \subseteq Powers
  /\ \A i \in 0..7 : Byte ^ i \in Powers
  /\ Byte ^ 4 = 2 * Half /\ Byte ^ 8 = 2 * Full /\ Exact32 <= Exact64
  /\ \A a \in 1..(4 * Full), p \in {Exact32, Exact64} :
       a > p => \E u \in Powers : u <= a /\ a <= p * u

(* serde_json takes an integer that neither an i64 nor a u64 holds for a float. *)
Json == [type : {"string", "bool", "null", "object", "missing", "garbled"}, n : Int]
          \cup [type : {"integer"}, n : (-Full)..(2 * Full - 1)]
          \cup [type : {"float"}, n : (-(2 * Full))..(2 * Full)]

Formats == [record_type : {"bin_kv", "tabsep", "ndjson", "tuple2"}, is_sorted : BOOLEAN,
            number_type : {"none", "f32", "f64", "i32", "i64", "u32", "u64"}]

Failed == [failed |-> TRUE]

Encodings == {"text", "byte", "json", "f32", "f64", "i32", "i64", "u32", "u64"}

Bytes(as, n) == [as |-> as, n |-> n]

(* as i32 and as u32: the cast wraps. *)
Signed(n) == ((n + Half) % (2 * Half)) - Half
Unsigned(n) == n % (2 * Half)

(* as_i64 and as_u64 of serde_json: None for what does not fit *)
AsI64(j) == j.type = "integer" /\ j.n < Full
AsU64(j) == j.type = "integer" /\ j.n >= 0

(* as f32 and as f64: the nearest float, of two the one with the even mantissa. *)
(* About a, the floats that p belongs to are the multiples of a power of two.   *)
Spacing(a, p) ==
  CHOOSE u \in Powers : /\ u <= a /\ a <= p * u
                        /\ \A w \in Powers : w <= a /\ a <= p * w => u <= w

Rounded(n, p) ==
  LET a == IF n < 0 THEN -n ELSE n
      u == Spacing(a, p)
      up == 2 * (a % u) > u \/ (2 * (a % u) = u /\ (a \div u) % 2 = 1)
      m == (a \div u + IF up THEN 1 ELSE 0) * u
  IN IF a <= p THEN n ELSE IF n < 0 THEN -m ELSE m

F64(n) == Rounded(n, Exact64)
F32(n) == Rounded(F64(n), Exact32)

(* A number is cast to number_type; unwrap panics on what as_i64 or as_u64 does *)
(* not give.                                                                    *)
NumberBytes(j, nt) ==
  CASE nt = "f32" -> Bytes(nt, F32(j.n))
    [] nt = "f64" -> Bytes(nt, F64(j.n))
    [] nt = "i32" /\ AsI64(j) -> Bytes(nt, Signed(j.n))
    [] nt = "i64" /\ AsI64(j) -> Bytes(nt, j.n)
    [] nt = "u32" /\ AsU64(j) -> Bytes(nt, Unsigned(j.n))
    [] nt = "u64" /\ AsU64(j) -> Bytes(nt, j.n)
    [] OTHER -> Failed

ValueBytes(j, nt) ==
  CASE j.type = "string" -> Bytes("text", j.n)
    [] j.type = "bool"   -> Bytes("byte", j.n)
    [] j.type = "null"   -> Bytes("text", 0)
    [] j.type = "object" -> Bytes("json", j.n)
    [] j.type \in {"integer", "float"} -> NumberBytes(j, nt)
    [] OTHER -> Failed

(* extract_key: a string, or an integer as the 8 bytes of an i64 *)
KeyBytes(j) ==
  CASE j.type = "string" -> Bytes("text", j.n)
    [] j.type = "integer" /\ AsI64(j) -> Bytes("i64", j.n)
    [] OTHER -> Failed

(* The order of the bytes of a key.  Those of an integer come with the least *)
(* significant first.  The keys of one sorted file are of one type.          *)
ByteOf(n, i) == (n \div Byte ^ i) % Byte

Below(k, h) ==
  IF k.as = "text" THEN k.n < h.n
  ELSE \E i \in 0..7 : /\ ByteOf(k.n, i) < ByteOf(h.n, i)
                       /\ \A j \in 0..(i - 1) : ByteOf(k.n, j) = ByteOf(h.n, j)

(* One record of each format: the key and the value, or Failed *)
Record(k, v) == IF Failed \in {k, v} THEN Failed ELSE [key |-> k, val |-> v]

BinRecord(line) == Record(Bytes("text", line.key.n), Bytes("text", line.val.n))

(* A line of one column only has no value. *)
TabRecord(line) ==
  IF line.val.type = "missing" THEN Failed
  ELSE Record(Bytes("text", line.key.n), Bytes("text", line.val.n))

(* Without an attribute for the value, the value is the line itself. *)
NdRecord(line, nt) ==
  Record(KeyBytes(line.key),
         IF line.val.type = "object" THEN Bytes("json", line.val.n)
         ELSE ValueBytes(line.val, nt))

TupleRecord(line, nt) == Record(KeyBytes(line.key), ValueBytes(line.val, nt))

RecordOf(line, format) ==
  CASE format.record_type = "bin_kv" -> BinRecord(line)
    [] format.record_type = "tabsep" -> TabRecord(line)
    [] format.record_type = "ndjson" -> NdRecord(line, format.number_type)
    [] OTHER -> TupleRecord(line, format.number_type)

(* How a file may end.  read_binary_format takes a header that is cut short *)
(* for the end of the file, which is fine before a key and an error before  *)
(* a value; a body that is cut short is an error.  "unreadable": the reader *)
(* fails before the end, in any format.                                     *)
Tails == {"end", "key_header", "key_body", "value_header", "value_body", "unreadable"}

EndsWell(tail) == tail \in {"end", "key_header"}

(* SstFileWriter::put refuses a key that is not above those before it: what is *)
(* sorted first is refused if two records have one key.                        *)
Ascending(kvs) ==
  \A i, j \in DOMAIN kvs : i < j => Below(kvs[i].key, kvs[j].key)

Distinct(kvs) ==
  \A i, j \in DOMAIN kvs : i # j => kvs[i].key # kvs[j].key

(* The pairs of the SST file, or Failed *)
Build(file, format) ==
  LET kvs == [i \in DOMAIN file.lines |-> RecordOf(file.lines[i], format)]
      pairs == {kvs[i] : i \in DOMAIN kvs}
  IN IF /\ EndsWell(file.tail) /\ Failed \notin pairs
        /\ IF format.is_sorted THEN Ascending(kvs) ELSE Distinct(kvs)
     THEN pairs
     ELSE {Failed}
=============================================================================
