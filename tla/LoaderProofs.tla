----------------------------- MODULE LoaderProofs -----------------------------
(***************************************************************************)
(* Proofs about Loader, for every set of calls with files of every format, *)
(* all widths of the integers and all bounds.                              *)
(***************************************************************************)
EXTENDS Loader, Least, SequenceTheorems, TLAPS

-----------------------------------------------------------------------------
(* The inductive invariant *)

(* A builder ends as the records of its file tell. *)
Builders ==
  \A i \in DOMAIN build :
    /\ build[i] = "failed" =>
         Unbuildable(call.files[i], call.format) \/ why = "broken"
    /\ build[i] = "built" => Sst(i) # {} /\ Sst(i) # {Failed}
    /\ build[i] = "empty" => Sst(i) = {} /\ call.files[i].lines = <<>>

AllBuilt == \A i \in DOMAIN build : build[i] \in {"built", "empty"}

(* The database b with the first n files over it: the last file that has a key *)
(* says its value.                                                             *)
Upto(n) == {i \in Built : i <= n}

Lasts(k, n) ==
  {i \in Upto(n) : k \in DOMAIN Content(i)
                     /\ \A h \in Upto(n) : h > i => k \notin DOMAIN Content(h)}

Merged(b, n) ==
  [k \in DOMAIN b \cup UNION {DOMAIN Content(i) : i \in Upto(n)} |->
     IF Lasts(k, n) = {} THEN b[k] ELSE Content(CHOOSE i \in Lasts(k, n) : TRUE)[k]]

Loaded == AllBuilt /\ db = Merged(before, Len(call.files))

(* What the call has done to the database so far *)
Progress ==
  /\ phase # "idle" => call \in Calls /\ result = "none"
  /\ phase \in {"opening", "ingesting", "moving", "cleaning"} => AllBuilt
  /\ phase \in {"building", "opening", "ingesting"} => db = before
  /\ phase \in {"moving", "cleaning"} => Loaded
  /\ db = before \/ (Loaded /\ call \in Calls)
  /\ result = "ok" =>
       /\ phase = "idle" /\ call \in Calls /\ Loaded
       /\ call.api = "load" => ~dir /\ temp = {}

(* What is in _temporary *)
Temporary ==
  /\ phase # "idle" /\ call.api = "load" => dir
  /\ phase # "idle" => \A i \in temp :
       i \in leftover \/ (i \in DOMAIN build /\ build[i] \in {"writing", "built", "failed"})
  /\ phase # "idle" /\ call.api = "load" => \A i \in DOMAIN build : build[i] = "empty" => i \notin temp
  /\ phase = "cleaning" /\ call.api = "load" => temp \cap Built = {}
  /\ phase # "idle" /\ call.api # "load" => temp = leftover

(* The database is a function; its keys and values are bytes. *)
IsDatabase(f) ==
  /\ f = [k \in DOMAIN f |-> f[k]]
  /\ \A k \in DOMAIN f : {k, f[k]} \subseteq [as : Encodings, n : Int]

IInv ==
  /\ TypeOK /\ IsDatabase(db) /\ IsDatabase(before)
  /\ Builders /\ Progress /\ Temporary /\ ErrorsAreExplained

-----------------------------------------------------------------------------
(* Records and the lines they are made of *)

(* A line as the formats have it: those of bytes hold bytes only. *)
IsLine(l, f) ==
  /\ l.key \in Json /\ l.val \in Json
  /\ f.record_type \in {"bin_kv", "tabsep"} =>
       l.key.type = "string" /\ l.val.type \in {"string", "missing"}
  /\ f.record_type = "bin_kv" => l.val.type = "string"

AreBytes(b) == b \in [as : Encodings, n : Int]

LEMMA BytesAre ==
  ASSUME NEW as \in Encodings, NEW n \in Int
  PROVE  AreBytes(Bytes(as, n)) /\ Bytes(as, n).as = as /\ Bytes(as, n).n = n
BY DEF AreBytes, Bytes

LEMMA FailedIsNoBytes == ~AreBytes(Failed) /\ \A k, v : Failed # [key |-> k, val |-> v]
BY DEF AreBytes, Failed

LEMMA Widths ==
  /\ Powers \subseteq Nat \ {0}
  /\ {Byte, Half, Full, Exact32, Exact64} \subseteq Nat \ {0} /\ 2 * Half \in Nat \ {0}
  /\ \A i \in 0..7 : Byte ^ i \in Nat \ {0}
  /\ Exact32 <= Exact64
  /\ \A a \in 1..(4 * Full), p \in {Exact32, Exact64} :
       a > p => \E u \in Powers : u <= a /\ a <= p * u
<1>1. /\ Powers \subseteq Nat \ {0}
      /\ {Byte, Half, Full, Exact32, Exact64} \subseteq Powers
      /\ \A i \in 0..7 : Byte ^ i \in Powers
  BY WidthsAssumption DEF WidthsAssumption
<1>2. Half \in Nat \ {0} /\ 2 * Half \in Nat \ {0}
  <2>1. Half \in Powers
    BY <1>1
  <2>2. Half \in Nat \ {0}
    BY <1>1, <2>1
  <2> QED
    BY <2>2
<1>3. Exact32 <= Exact64
  BY WidthsAssumption DEF WidthsAssumption
<1>4. \A a \in 1..(4 * Full), p \in {Exact32, Exact64} :
        a > p => \E u \in Powers : u <= a /\ a <= p * u
  BY WidthsAssumption DEF WidthsAssumption
<1> QED
  BY <1>1, <1>2, <1>3, <1>4

LEMMA Jsons ==
  ASSUME NEW j \in Json
  PROVE  /\ j = [type |-> j.type, n |-> j.n] /\ j.n \in Int
         /\ j.type = "integer" => j.n \in (-Full)..(2 * Full - 1)
         /\ j.type \in {"integer", "float"} => j.n \in (-(2 * Full))..(2 * Full)
         /\ j.type \in {"string", "integer", "float", "bool", "null", "object", "missing",
                        "garbled"}
BY Widths DEF Json

(* Division by a number that is not known *)
LEMMA Division ==
  ASSUME NEW m \in Nat \ {0}, NEW n \in Int
  PROVE  n \div m \in Int /\ n % m = n - (n \div m) * m
BY Z3

LEMMA Quotients ==
  ASSUME NEW u \in Nat \ {0}, NEW a \in Nat
  PROVE  a \div u \in Nat /\ (a \div u) * u <= a
OBVIOUS

LEMMA Multiples ==
  ASSUME NEW m \in Nat \ {0}, NEW q \in Int
  PROVE  (m * q) % m = 0
OBVIOUS

LEMMA Wraps ==
  ASSUME NEW m \in Nat \ {0}, NEW n \in Int
  PROVE  /\ n % m \in 0..(m - 1) /\ (n \in 0..(m - 1) => n % m = n)
         /\ ((n % m) - n) % m = 0
<1>1. n % m \in 0..(m - 1) /\ (n \in 0..(m - 1) => n % m = n)
  OBVIOUS
<1>2. PICK q \in Int : n % m = n - q * m
  BY Division
<1>3. PICK p \in Int : p = -q
  OBVIOUS
<1>4. (n % m) - n = m * p
  BY <1>1, <1>2, <1>3
<1> QED
  BY <1>1, <1>4, Multiples

(* The casts to 32 bits keep the low bits, all of what fits. *)
LEMMA Casts ==
  ASSUME NEW n \in Int
  PROVE  /\ Signed(n) \in (-Half)..(Half - 1)
         /\ -Half <= n /\ n < Half => Signed(n) = n
         /\ (Signed(n) - n) % (2 * Half) = 0
         /\ Unsigned(n) \in 0..(2 * Half - 1)
         /\ 0 <= n /\ n < 2 * Half => Unsigned(n) = n
         /\ (Unsigned(n) - n) % (2 * Half) = 0
<1>1. Half \in Nat \ {0}
  BY Widths
<1>2. PICK m \in Nat \ {0} : m = 2 * Half
  BY Widths
<1>3. /\ Unsigned(n) \in 0..(m - 1)
      /\ n \in 0..(m - 1) => Unsigned(n) = n
      /\ (Unsigned(n) - n) % m = 0
  BY <1>2, Wraps DEF Unsigned
<1>4. PICK s \in Int : s = n + Half
  BY <1>1
<1>5. PICK r : r = s % m
  OBVIOUS
<1>6. r \in 0..(m - 1) /\ (s \in 0..(m - 1) => r = s) /\ (r - s) % m = 0
  BY <1>5, Wraps
<1>7. Signed(n) = r - Half
  BY <1>2, <1>4, <1>5 DEF Signed
<1>8. Signed(n) \in (-Half)..(Half - 1)
  BY <1>1, <1>2, <1>6, <1>7
<1>9. -Half <= n /\ n < Half => Signed(n) = n
  BY <1>1, <1>2, <1>4, <1>6, <1>7
<1>10. Signed(n) - n = r - s
  BY <1>1, <1>4, <1>6, <1>7
<1>11. (Signed(n) - n) % m = 0
  BY <1>6, <1>10
<1>12. 0 <= n /\ n < m => n \in 0..(m - 1)
  BY <1>2
<1> QED
  BY <1>2, <1>3, <1>8, <1>9, <1>11, <1>12

(* The casts to floats: a number, the same up to p *)
LEMMA Spacings ==
  ASSUME NEW p \in {Exact32, Exact64}, NEW a \in 1..(4 * Full), a > p
  PROVE  Spacing(a, p) \in Nat \ {0} /\ Spacing(a, p) <= a
<1> DEFINE S == {u \in Powers : u <= a /\ a <= p * u}
<1>1. S \subseteq Nat /\ S # {}
  BY Widths
<1>2. PICK u \in S : \A w \in S : u <= w
  BY <1>1, LeastNat
<1>3. \E v \in Powers : /\ v <= a /\ a <= p * v
                        /\ \A w \in Powers : w <= a /\ a <= p * w => v <= w
  BY <1>2
<1>4. Spacing(a, p) \in Powers /\ Spacing(a, p) <= a
  BY <1>3 DEF Spacing
<1> QED
  BY <1>4, Widths

LEMMA Rounds ==
  ASSUME NEW p \in {Exact32, Exact64}, NEW n \in Int, -(4 * Full) <= n, n <= 4 * Full
  PROVE  /\ Rounded(n, p) \in Int
         /\ -p <= n /\ n <= p => Rounded(n, p) = n
         /\ -(2 * Full) <= n /\ n <= 2 * Full =>
              -(4 * Full) <= Rounded(n, p) /\ Rounded(n, p) <= 4 * Full
<1>1. Full \in Nat \ {0} /\ p \in Nat \ {0}
  BY Widths
<1>2. PICK a \in Nat : a = IF n < 0 THEN -n ELSE n
  OBVIOUS
<1>3. CASE a <= p
  <2>1. Rounded(n, p) = n
    BY <1>2, <1>3 DEF Rounded
  <2> QED
    BY <1>1, <2>1
<1>4. CASE a > p
  <2>1. a \in 1..(4 * Full)
    BY <1>1, <1>2, <1>4
  <2>2. PICK u : u = Spacing(a, p)
    OBVIOUS
  <2>3. u \in Nat \ {0} /\ u <= a
    BY <1>4, <2>1, <2>2, Spacings
  <2>4. PICK q : q = a \div u
    OBVIOUS
  <2>5. q \in Nat /\ q * u <= a
    BY <2>3, <2>4, Quotients
  <2>6. PICK x \in {0, 1} : Rounded(n, p) = IF n < 0 THEN -((q + x) * u) ELSE (q + x) * u
    BY <1>2, <1>4, <1>1, <2>2, <2>4 DEF Rounded
  <2>8. PICK m : m = (q + x) * u
    OBVIOUS
  <2>7. m \in 0..(2 * a)
    <3>1. CASE x = 0
      BY <2>3, <2>5, <2>8, <3>1
    <3>2. CASE x = 1
      <4>1. (q + 1) * u = q * u + u
        BY <2>3, <2>5
      <4> QED
        BY <2>3, <2>5, <2>8, <3>2, <4>1
    <3> QED
      BY <2>6, <3>1, <3>2
  <2> QED
    BY <1>1, <1>2, <1>4, <2>6, <2>7, <2>8
<1> QED
  BY <1>1, <1>2, <1>3, <1>4

LEMMA FloatCasts ==
  ASSUME NEW n \in Int, -(2 * Full) <= n, n <= 2 * Full
  PROVE  /\ F64(n) \in Int /\ (-Exact64 <= n /\ n <= Exact64 => F64(n) = n)
         /\ F32(n) \in Int
         /\ -Exact32 <= n /\ n <= Exact32 => F32(n) = n
<1>1. {Full, Exact32, Exact64} \subseteq Nat \ {0} /\ Exact32 <= Exact64
  BY Widths
<1>2. /\ F64(n) \in Int /\ (-Exact64 <= n /\ n <= Exact64 => F64(n) = n)
      /\ -(4 * Full) <= F64(n) /\ F64(n) <= 4 * Full
  BY <1>1, Rounds DEF F64
<1>3. PICK m \in Int : m = F64(n)
  BY <1>2
<1>4. Rounded(m, Exact32) \in Int /\ (-Exact32 <= m /\ m <= Exact32 => Rounded(m, Exact32) = m)
  BY <1>1, <1>2, <1>3, Rounds
<1> QED
  BY <1>1, <1>2, <1>3, <1>4 DEF F32

(* The bytes of a key tell the key. *)
LEMMA KeyBytesTell ==
  ASSUME NEW j \in Json, KeyBytes(j) # Failed
  PROVE  /\ AreBytes(KeyBytes(j)) /\ KeyBytes(j).n = j.n
         /\ KeyBytes(j).as \in {"text", "i64"}
         /\ KeyBytes(j).as = "text" <=> j.type = "string"
         /\ KeyBytes(j).as = "i64" <=> j.type = "integer"
<1>1. j.n \in Int
  BY Jsons
<1>2. CASE j.type = "string"
  <2>1. KeyBytes(j) = Bytes("text", j.n)
    BY <1>2 DEF KeyBytes
  <2> QED
    BY <1>1, <1>2, <2>1, BytesAre DEF Encodings
<1>3. CASE j.type = "integer"
  <2>1. KeyBytes(j) = Bytes("i64", j.n)
    BY <1>3 DEF KeyBytes
  <2> QED
    BY <1>1, <1>3, <2>1, BytesAre DEF Encodings
<1>4. j.type \in {"string", "integer"}
  BY DEF KeyBytes
<1> QED
  BY <1>2, <1>3, <1>4

LEMMA NumbersStand ==
  ASSUME NEW j \in Json, NEW nt \in {"none", "f32", "f64", "i32", "i64", "u32", "u64"},
         j.type \in {"integer", "float"}, NumberBytes(j, nt) # Failed
  PROVE  AreBytes(NumberBytes(j, nt)) /\ StandsFor(NumberBytes(j, nt), j, nt)
<1>1. /\ j.n \in Int /\ (j.type = "integer" => j.n \in (-Full)..(2 * Full - 1))
      /\ -(2 * Full) <= j.n /\ j.n <= 2 * Full
  BY Jsons, Widths
<1>2. nt # "none"
  BY DEF NumberBytes
<1>3. CASE nt \in {"f32", "f64"}
  <2>1. PICK v \in Int : /\ NumberBytes(j, nt) = Bytes(nt, v)
                         /\ Fits(j.n, nt) => v = j.n
    BY <1>1, <1>3, FloatCasts DEF NumberBytes, Fits
  <2> QED
    BY <1>3, <2>1, BytesAre DEF Encodings, StandsFor
<1>4. CASE nt = "i32"
  <2>1. AsI64(j)
    BY <1>4 DEF NumberBytes
  <2>2. NumberBytes(j, nt) = Bytes(nt, Signed(j.n)) /\ j.type = "integer"
    BY <1>4, <2>1 DEF NumberBytes, AsI64
  <2>3. PICK v \in Int : /\ v = Signed(j.n) /\ -Half <= v /\ v < Half
                         /\ -Half <= j.n /\ j.n < Half => v = j.n
                         /\ (v - j.n) % (2 * Half) = 0
    <3>1. Half \in Nat
      BY Widths
    <3>2. PICK m \in Int : m = j.n
      BY <1>1
    <3>3. Signed(m) \in Int /\ -Half <= Signed(m) /\ Signed(m) < Half
      BY <3>1, Casts
    <3> QED
      BY <3>2, <3>3, Casts
  <2>4. Fits(v, nt) /\ (Fits(j.n, nt) => v = j.n)
    BY <1>4, <2>3 DEF Fits
  <2> QED
    BY <1>4, <2>2, <2>3, <2>4, BytesAre DEF Encodings, StandsFor
<1>5. CASE nt = "u32"
  <2>1. AsU64(j)
    BY <1>5 DEF NumberBytes
  <2>2. NumberBytes(j, nt) = Bytes(nt, Unsigned(j.n)) /\ j.type = "integer"
    BY <1>5, <2>1 DEF NumberBytes, AsU64
  <2>3. PICK v \in Int : /\ v = Unsigned(j.n) /\ 0 <= v /\ v < 2 * Half
                         /\ 0 <= j.n /\ j.n < 2 * Half => v = j.n
                         /\ (v - j.n) % (2 * Half) = 0
    <3>1. Half \in Nat
      BY Widths
    <3>2. PICK m \in Int : m = j.n
      BY <1>1
    <3>3. Unsigned(m) \in Int /\ 0 <= Unsigned(m) /\ Unsigned(m) < 2 * Half
      BY <3>1, Casts
    <3> QED
      BY <3>2, <3>3, Casts
  <2>4. Fits(v, nt) /\ (Fits(j.n, nt) => v = j.n)
    BY <1>5, <2>3 DEF Fits
  <2> QED
    BY <1>5, <2>2, <2>3, <2>4, BytesAre DEF Encodings, StandsFor
<1>6. CASE nt \in {"i64", "u64"}
  <2>1. NumberBytes(j, nt) = Bytes(nt, j.n)
    BY <1>6 DEF NumberBytes
  <2> QED
    BY <1>1, <1>6, <2>1, BytesAre DEF Encodings, StandsFor
<1> QED
  BY <1>2, <1>3, <1>4, <1>5, <1>6

LEMMA ValuesStand ==
  ASSUME NEW j \in Json, NEW nt \in {"none", "f32", "f64", "i32", "i64", "u32", "u64"},
         ValueBytes(j, nt) # Failed
  PROVE  AreBytes(ValueBytes(j, nt)) /\ StandsFor(ValueBytes(j, nt), j, nt)
<1>1. j.n \in Int /\ 0 \in Int
  BY Jsons
<1>2. CASE j.type = "null"
  <2>1. ValueBytes(j, nt) = Bytes("text", 0)
    BY <1>2 DEF ValueBytes
  <2> QED
    BY <1>1, <1>2, <2>1, BytesAre DEF Encodings, StandsFor
<1>3. CASE j.type \in {"string", "bool", "object"}
  <2>1. PICK as \in {"text", "byte", "json"} : ValueBytes(j, nt) = Bytes(as, j.n)
    BY <1>3 DEF ValueBytes
  <2>2. AreBytes(Bytes(as, j.n)) /\ Bytes(as, j.n).n = j.n
    <3>1. as \in Encodings
      BY DEF Encodings
    <3> QED
      BY <1>1, <3>1, BytesAre
  <2>3. StandsFor(Bytes(as, j.n), j, nt)
    BY <1>3, <2>2 DEF StandsFor
  <2> QED
    BY <2>1, <2>2, <2>3
<1>4. CASE j.type \in {"integer", "float"}
  <2>1. ValueBytes(j, nt) = NumberBytes(j, nt)
    BY <1>4 DEF ValueBytes
  <2> QED
    BY <1>4, <2>1, NumbersStand
<1>5. j.type \in {"null", "string", "bool", "object", "integer", "float"}
  BY DEF ValueBytes
<1> QED
  BY <1>2, <1>3, <1>4, <1>5

(* The text of a record of bytes *)
LEMMA TextStands ==
  ASSUME NEW j \in Json, j.type = "string", NEW nt
  PROVE  /\ AreBytes(Bytes("text", j.n)) /\ StandsFor(Bytes("text", j.n), j, nt)
         /\ Bytes("text", j.n).as = "text" /\ Bytes("text", j.n).n = j.n
<1>1. j.n \in Int
  BY Jsons
<1> QED
  BY <1>1, BytesAre DEF Encodings, StandsFor

(* A record stands for its line, and its key tells the line's. *)
TellsKey(k, j) ==
  /\ k.n = j.n /\ k.as \in {"text", "i64"}
  /\ k.as = "text" <=> j.type = "string"
  /\ k.as = "i64" <=> j.type = "integer"

LEMMA RecordsStand ==
  ASSUME NEW f \in Formats, NEW l, IsLine(l, f), RecordOf(l, f) # Failed
  PROVE  \E k, v : /\ RecordOf(l, f) = [key |-> k, val |-> v]
                   /\ AreBytes(k) /\ AreBytes(v) /\ k = KeyBytes(l.key)
                   /\ TellsKey(k, l.key) /\ StandsFor(v, l.val, f.number_type)
<1>1. /\ f.record_type \in {"bin_kv", "tabsep", "ndjson", "tuple2"}
      /\ f.number_type \in {"none", "f32", "f64", "i32", "i64", "u32", "u64"}
  BY DEF Formats
<1>2. l.key \in Json /\ l.val \in Json
  BY DEF IsLine
<1>3. CASE f.record_type \in {"bin_kv", "tabsep"}
  <2>1. l.key.type = "string"
    BY <1>3 DEF IsLine
  <2>2. l.val.type = "string"
    BY <1>3 DEF IsLine, RecordOf, TabRecord
  <2>3. RecordOf(l, f) = Record(Bytes("text", l.key.n), Bytes("text", l.val.n))
    BY <1>3, <2>2 DEF RecordOf, TabRecord, BinRecord
  <2>4. PICK k, v : k = Bytes("text", l.key.n) /\ v = Bytes("text", l.val.n)
    OBVIOUS
  <2>5. /\ AreBytes(k) /\ AreBytes(v) /\ StandsFor(v, l.val, f.number_type)
        /\ TellsKey(k, l.key)
    BY <1>2, <2>1, <2>2, <2>4, TextStands DEF TellsKey
  <2>6. RecordOf(l, f) = [key |-> k, val |-> v]
    BY <2>3, <2>4, <2>5, FailedIsNoBytes DEF Record
  <2>7. k = KeyBytes(l.key)
    BY <2>1, <2>4 DEF KeyBytes
  <2> QED
    BY <2>5, <2>6, <2>7
<1>4. CASE f.record_type \in {"ndjson", "tuple2"}
  <2>1. PICK k, v : /\ k = KeyBytes(l.key) /\ v = ValueBytes(l.val, f.number_type)
                    /\ RecordOf(l, f) = Record(k, v)
    <3>1. CASE f.record_type = "ndjson"
      <4>1. ValueBytes(l.val, f.number_type) =
              IF l.val.type = "object" THEN Bytes("json", l.val.n)
              ELSE ValueBytes(l.val, f.number_type)
        BY DEF ValueBytes
      <4> QED
        BY <3>1, <4>1 DEF RecordOf, NdRecord
    <3>2. CASE f.record_type = "tuple2"
      BY <3>2 DEF RecordOf, TupleRecord
    <3> QED
      BY <1>4, <3>1, <3>2
  <2>2. k # Failed /\ v # Failed /\ RecordOf(l, f) = [key |-> k, val |-> v]
    BY <2>1 DEF Record
  <2>3. AreBytes(k) /\ TellsKey(k, l.key)
    BY <1>2, <2>1, <2>2, KeyBytesTell DEF TellsKey
  <2>4. AreBytes(v) /\ StandsFor(v, l.val, f.number_type)
    BY <1>1, <1>2, <2>1, <2>2, ValuesStand
  <2> QED
    BY <2>1, <2>2, <2>3, <2>4
<1> QED
  BY <1>1, <1>3, <1>4

(* A line that the format takes has a record. *)
LEMMA NumbersTaken ==
  ASSUME NEW j \in Json, NEW nt \in {"none", "f32", "f64", "i32", "i64", "u32", "u64"},
         <<j.type, j.n>> \in Takes(nt)
  PROVE  j.type \in {"integer", "float"} /\ NumberBytes(j, nt) # Failed
<1>1. Full \in Nat \ {0}
  BY Widths
<1>2. nt # "none"
  BY DEF Takes
<1>3. CASE nt \in {"f32", "f64"}
  BY <1>3, FailedIsNoBytes DEF Takes, NumberBytes, Bytes, Failed
<1>4. CASE nt \in {"i32", "i64"}
  <2>1. j.type = "integer" /\ AsI64(j)
    BY <1>1, <1>4 DEF Takes, AsI64
  <2> QED
    BY <1>4, <2>1 DEF NumberBytes, Bytes, Failed
<1>5. CASE nt \in {"u32", "u64"}
  <2>1. j.type = "integer" /\ AsU64(j)
    BY <1>1, <1>5 DEF Takes, AsU64
  <2> QED
    BY <1>5, <2>1 DEF NumberBytes, Bytes, Failed
<1> QED
  BY <1>2, <1>3, <1>4, <1>5

LEMMA StorableHasRecord ==
  ASSUME NEW f \in Formats, NEW l, IsLine(l, f), Storable(l, f)
  PROVE  RecordOf(l, f) # Failed
<1>1. /\ f.record_type \in {"bin_kv", "tabsep", "ndjson", "tuple2"}
      /\ f.number_type \in {"none", "f32", "f64", "i32", "i64", "u32", "u64"}
  BY DEF Formats
<1>2. l.key \in Json /\ l.val \in Json
  BY DEF IsLine
<1>3. \A as, n : Bytes(as, n) # Failed
  BY DEF Bytes, Failed
<1>4. \A k, v : k # Failed /\ v # Failed => Record(k, v) # Failed
  BY FailedIsNoBytes DEF Record
<1>5. CASE f.record_type = "bin_kv"
  BY <1>3, <1>4, <1>5 DEF RecordOf, BinRecord
<1>6. CASE f.record_type = "tabsep"
  BY <1>3, <1>4, <1>6 DEF RecordOf, TabRecord, Storable
<1>7. CASE f.record_type \in {"ndjson", "tuple2"}
  <2>1. /\ l.key.type = "string" \/ <<l.key.type, l.key.n>> \in Takes("i64")
        /\ \/ l.val.type \in {"string", "bool", "null", "object"}
           \/ <<l.val.type, l.val.n>> \in Takes(f.number_type)
    BY <1>7 DEF Storable
  <2>2. KeyBytes(l.key) # Failed
    <3>1. CASE l.key.type = "string"
      BY <1>3, <3>1 DEF KeyBytes
    <3>2. CASE <<l.key.type, l.key.n>> \in Takes("i64")
      <4>1. l.key.type = "integer" /\ AsI64(l.key)
        BY <3>2, Widths DEF Takes, AsI64
      <4> QED
        BY <1>3, <4>1 DEF KeyBytes
    <3> QED
      BY <2>1, <3>1, <3>2
  <2>3. ValueBytes(l.val, f.number_type) # Failed
    <3>1. CASE l.val.type \in {"string", "bool", "null", "object"}
      BY <1>3, <3>1 DEF ValueBytes
    <3>2. CASE <<l.val.type, l.val.n>> \in Takes(f.number_type)
      <4>1. /\ l.val.type \in {"integer", "float"}
            /\ NumberBytes(l.val, f.number_type) # Failed
        BY <1>1, <1>2, <3>2, NumbersTaken
      <4> QED
        BY <4>1 DEF ValueBytes
    <3> QED
      BY <2>1, <3>1, <3>2
  <2>4. CASE f.record_type = "ndjson"
    BY <1>3, <1>4, <2>2, <2>3, <2>4 DEF RecordOf, NdRecord
  <2>5. CASE f.record_type = "tuple2"
    BY <1>4, <2>2, <2>3, <2>5 DEF RecordOf, TupleRecord
  <2> QED
    BY <1>7, <2>4, <2>5
<1> QED
  BY <1>1, <1>5, <1>6, <1>7

(* The keys of two lines are one if their bytes are. *)
LEMMA KeysTold ==
  ASSUME NEW k, NEW j \in Json, NEW h \in Json, TellsKey(k, j), TellsKey(k, h)
  PROVE  j = h
<1>1. j = [type |-> j.type, n |-> j.n] /\ h = [type |-> h.type, n |-> h.n]
  BY Jsons
<1>2. j.n = h.n /\ j.type = h.type
  BY DEF TellsKey
<1> QED
  BY <1>1, <1>2

(* The SST file of an input file: one pair for each line, one for each key. *)
LinesOf(file) == {file.lines[j] : j \in DOMAIN file.lines}

LEMMA CallsAreCalls ==
  ASSUME NEW c \in Calls
  PROVE  /\ c.format \in Formats /\ c.api \in {"load", "ingest"}
         /\ c.api = "ingest" => Len(c.files) > 0
         /\ Len(c.files) \in Nat /\ DOMAIN c.files = 1..Len(c.files)
         /\ Len(c.files) = 0 => c.files = <<>>
         /\ \A i \in DOMAIN c.files :
              /\ DOMAIN c.files[i].lines \subseteq Int
              /\ DOMAIN c.files[i].lines = {} => c.files[i].lines = <<>>
              /\ \A l \in LinesOf(c.files[i]) : IsLine(l, c.format)
<1>1. /\ c.format \in Formats /\ c.api \in {"load", "ingest"}
      /\ c.api = "ingest" => Len(c.files) > 0
  BY CallsAssumption DEF CallsAssumption
<1>2. c.files \in Seq({c.files[i] : i \in DOMAIN c.files})
  BY CallsAssumption DEF CallsAssumption
<1>3. /\ Len(c.files) \in Nat /\ DOMAIN c.files = 1..Len(c.files)
      /\ Len(c.files) = 0 => c.files = <<>>
  BY <1>2, EmptySeq
<1>4. \A i \in DOMAIN c.files : \A l \in LinesOf(c.files[i]) : IsLine(l, c.format)
  BY CallsAssumption DEF CallsAssumption, LinesOf, IsLine
<1>5. ASSUME NEW i \in DOMAIN c.files
      PROVE  /\ DOMAIN c.files[i].lines \subseteq Int
             /\ DOMAIN c.files[i].lines = {} => c.files[i].lines = <<>>
  <2>1. c.files[i].lines \in Seq({c.files[i].lines[j] : j \in DOMAIN c.files[i].lines})
    BY CallsAssumption DEF CallsAssumption
  <2>2. PICK ls : ls = c.files[i].lines
    OBVIOUS
  <2>3. ls \in Seq({ls[j] : j \in DOMAIN ls})
    BY <2>1, <2>2
  <2>4. DOMAIN ls = 1..Len(ls) /\ Len(ls) \in Nat /\ (Len(ls) = 0 => ls = <<>>)
    BY <2>3, EmptySeq
  <2>5. DOMAIN ls = {} => Len(ls) = 0
    BY <2>4
  <2>6. DOMAIN ls \subseteq Int /\ (DOMAIN ls = {} => ls = <<>>)
    BY <2>4, <2>5
  <2> QED
    BY <2>2, <2>6
<1> QED
  BY <1>1, <1>3, <1>4, <1>5

LEMMA NotBelowItself ==
  ASSUME NEW k, AreBytes(k)
  PROVE  ~Below(k, k)
<1>1. k.n \in Int
  BY DEF AreBytes
<1>2. ASSUME NEW i \in 0..7
      PROVE  ByteOf(k.n, i) \in Int
  <2>1. PICK m \in Nat \ {0} : m = Byte ^ i
    BY Widths
  <2>2. k.n \div m \in Int
    BY <1>1, Division
  <2>3. Byte \in Nat \ {0}
    BY Widths
  <2> QED
    BY <2>1, <2>2, <2>3, Wraps DEF ByteOf
<1> QED
  BY <1>1, <1>2 DEF Below

LEMMA BuildsPairs ==
  ASSUME NEW file, DOMAIN file.lines \subseteq Int,
         NEW f \in Formats, \A l \in LinesOf(file) : IsLine(l, f),
         Build(file, f) # {Failed}
  PROVE  /\ Build(file, f) = {RecordOf(l, f) : l \in LinesOf(file)}
         /\ \A l \in LinesOf(file) : RecordOf(l, f) # Failed
         /\ \A r, q \in Build(file, f) : r.key = q.key => r = q
<1> DEFINE kvs == [i \in DOMAIN file.lines |-> RecordOf(file.lines[i], f)]
           pairs == {kvs[i] : i \in DOMAIN kvs}
<1>1. Failed \notin pairs /\ Build(file, f) = pairs /\ (Ascending(kvs) \/ Distinct(kvs))
  BY DEF Build
<1>2. pairs = {RecordOf(l, f) : l \in LinesOf(file)}
  BY DEF LinesOf
<1>3. ASSUME NEW r \in pairs, NEW q \in pairs, r.key = q.key
      PROVE  r = q
  <2>1. PICK i, j \in DOMAIN file.lines : r = kvs[i] /\ q = kvs[j]
    OBVIOUS
  <2>2. CASE Distinct(kvs)
    BY <1>3, <2>1, <2>2 DEF Distinct
  <2>3. CASE Ascending(kvs)
    <3>1. RecordOf(file.lines[i], f) # Failed
      BY <1>1
    <3>2. AreBytes(r.key)
      BY <2>1, <3>1, RecordsStand DEF LinesOf
    <3>3. ~Below(r.key, r.key)
      BY <3>2, NotBelowItself
    <3>4. ~(i < j) /\ ~(j < i)
      BY <1>3, <2>1, <2>3, <3>3 DEF Ascending
    <3> QED
      BY <2>1, <3>4
  <2> QED
    BY <1>1, <2>2, <2>3
<1> QED
  BY <1>1, <1>2, <1>3

(* A file without an SST file, and one whose SST file is empty *)
LEMMA BuildFails ==
  ASSUME NEW c \in Calls, NEW i \in DOMAIN c.files, Build(c.files[i], c.format) = {Failed}
  PROVE  Unbuildable(c.files[i], c.format)
<1>1. PICK file, f : file = c.files[i] /\ f = c.format
  OBVIOUS
<1>2. /\ f \in Formats /\ DOMAIN file.lines \subseteq Int
      /\ \A j \in DOMAIN file.lines : IsLine(file.lines[j], f)
  BY <1>1, CallsAreCalls DEF LinesOf
<1> DEFINE kvs == [j \in DOMAIN file.lines |-> RecordOf(file.lines[j], f)]
           pairs == {kvs[j] : j \in DOMAIN kvs}
<1>3. \/ ~EndsWell(file.tail) \/ Failed \in pairs
      \/ f.is_sorted /\ ~Ascending(kvs)
      \/ ~f.is_sorted /\ ~Distinct(kvs)
  <2>1. Build(file, f) = IF /\ EndsWell(file.tail) /\ Failed \notin pairs
                            /\ IF f.is_sorted THEN Ascending(kvs) ELSE Distinct(kvs)
                         THEN pairs ELSE {Failed}
    BY DEF Build
  <2>2. Build(file, f) = {Failed}
    BY <1>1
  <2> QED
    BY <2>1, <2>2
<1>4. CASE ~EndsWell(file.tail)
  BY <1>1, <1>4 DEF EndsWell, Unbuildable
<1>5. CASE Failed \in pairs
  <2>1. PICK j \in DOMAIN file.lines : RecordOf(file.lines[j], f) = Failed
    BY <1>5
  <2>2. ~Storable(file.lines[j], f)
    BY <1>2, <2>1, StorableHasRecord
  <2> QED
    BY <1>1, <2>1, <2>2 DEF Unbuildable
<1>6. CASE Failed \notin pairs
  <2>1. ASSUME NEW j \in DOMAIN file.lines
        PROVE  /\ kvs[j].key = KeyBytes(file.lines[j].key)
               /\ TellsKey(kvs[j].key, file.lines[j].key) /\ file.lines[j].key \in Json
    <3>1. kvs[j] # Failed /\ kvs[j] = RecordOf(file.lines[j], f)
      BY <1>6
    <3>2. IsLine(file.lines[j], f)
      BY <1>2
    <3>3. PICK k, v : /\ RecordOf(file.lines[j], f) = [key |-> k, val |-> v]
                      /\ k = KeyBytes(file.lines[j].key) /\ TellsKey(k, file.lines[j].key)
      BY <1>2, <3>1, <3>2, RecordsStand
    <3>4. kvs[j].key = k
      BY <3>1, <3>3
    <3> QED
      BY <3>2, <3>3, <3>4 DEF IsLine
  <2> HIDE DEF kvs
  <2>2. CASE f.is_sorted /\ ~Ascending(kvs)
    <3>1. PICK j, h \in DOMAIN file.lines : j < h /\ ~Below(kvs[j].key, kvs[h].key)
      BY <2>2 DEF Ascending, kvs
    <3>2. ~Below(KeyBytes(file.lines[j].key), KeyBytes(file.lines[h].key))
      BY <2>1, <3>1
    <3> QED
      BY <1>1, <2>2, <3>1, <3>2 DEF Unbuildable
  <2>3. CASE ~Distinct(kvs)
    <3>1. PICK j, h \in DOMAIN file.lines : j # h /\ kvs[j].key = kvs[h].key
      BY <2>3 DEF Distinct, kvs
    <3>2. file.lines[j].key = file.lines[h].key
      BY <2>1, <3>1, KeysTold
    <3>3. j < h \/ h < j
      BY <1>2, <3>1
    <3> QED
      BY <1>1, <3>1, <3>2, <3>3 DEF Unbuildable
  <2>4. CASE ~EndsWell(file.tail)
    BY <1>4, <2>4
  <2> QED
    BY <1>3, <1>6, <2>2, <2>3, <2>4
<1> QED
  BY <1>5, <1>6

LEMMA BuildEmpty ==
  ASSUME NEW c \in Calls, NEW i \in DOMAIN c.files, Build(c.files[i], c.format) = {}
  PROVE  c.files[i].lines = <<>>
<1>1. DOMAIN c.files[i].lines = {}
  BY DEF Build
<1> QED
  BY <1>1, CallsAreCalls

LEMMA ContentsStand ==
  ASSUME call \in Calls, NEW i \in DOMAIN call.files, Sst(i) # {Failed}
  PROVE  /\ \A k \in DOMAIN Content(i) : AreBytes(k) /\ AreBytes(Content(i)[k])
         /\ \A k \in DOMAIN Content(i) : \E l \in Lines(i) : TellsKey(k, l.key)
         /\ \A l \in Lines(i) : \E k \in DOMAIN Content(i) :
              TellsKey(k, l.key) /\ StandsFor(Content(i)[k], l.val, call.format.number_type)
<1>1. /\ call.format \in Formats
      /\ DOMAIN call.files[i].lines \subseteq Int
      /\ \A l \in Lines(i) : IsLine(l, call.format)
  BY CallsAreCalls DEF Lines, LinesOf
<1>2. /\ Sst(i) = {RecordOf(l, call.format) : l \in Lines(i)}
      /\ \A l \in Lines(i) : RecordOf(l, call.format) # Failed
      /\ \A r, q \in Sst(i) : r.key = q.key => r = q
  BY <1>1, BuildsPairs DEF Sst, Lines, LinesOf
<1>3. DOMAIN Content(i) = {r.key : r \in Sst(i)}
  BY DEF Content
<1>4. ASSUME NEW r \in Sst(i)
      PROVE  r.key \in DOMAIN Content(i) /\ Content(i)[r.key] = r.val
  <2>1. Content(i)[r.key] = (CHOOSE q \in Sst(i) : q.key = r.key).val
    BY DEF Content
  <2>2. (CHOOSE q \in Sst(i) : q.key = r.key) = r
    BY <1>2
  <2> QED
    BY <1>3, <2>1, <2>2
<1>5. ASSUME NEW l \in Lines(i)
      PROVE  \E k, v : /\ RecordOf(l, call.format) = [key |-> k, val |-> v]
                       /\ AreBytes(k) /\ AreBytes(v)
                       /\ TellsKey(k, l.key) /\ StandsFor(v, l.val, call.format.number_type)
  BY <1>1, <1>2, RecordsStand
<1>6. ASSUME NEW l \in Lines(i)
      PROVE  \E k \in DOMAIN Content(i) :
               /\ k = RecordOf(l, call.format).key /\ AreBytes(k) /\ AreBytes(Content(i)[k])
               /\ TellsKey(k, l.key) /\ StandsFor(Content(i)[k], l.val, call.format.number_type)
  <2>1. PICK k, v : /\ RecordOf(l, call.format) = [key |-> k, val |-> v]
                    /\ AreBytes(k) /\ AreBytes(v)
                    /\ TellsKey(k, l.key) /\ StandsFor(v, l.val, call.format.number_type)
    BY <1>5
  <2>2. PICK r \in Sst(i) : r = RecordOf(l, call.format)
    BY <1>2
  <2>3. r.key = k /\ r.val = v
    BY <2>1, <2>2
  <2> QED
    BY <1>4, <2>1, <2>2, <2>3
<1>7. ASSUME NEW k \in DOMAIN Content(i)
      PROVE  AreBytes(k) /\ AreBytes(Content(i)[k]) /\ \E l \in Lines(i) : TellsKey(k, l.key)
  <2>1. PICK l \in Lines(i) : k = RecordOf(l, call.format).key
    BY <1>2, <1>3
  <2> QED
    BY <1>6, <2>1
<1> QED
  BY <1>6, <1>7

-----------------------------------------------------------------------------
(* One file over another *)

LEMMA MergedNone ==
  ASSUME NEW b, b = [k \in DOMAIN b |-> b[k]], Built \subseteq Nat \ {0}
  PROVE  Merged(b, 0) = b
<1>1. Upto(0) = {}
  BY DEF Upto
<1>2. \A k : Lasts(k, 0) = {}
  BY <1>1 DEF Lasts
<1> QED
  BY <1>1, <1>2 DEF Merged

LEMMA MergedStep ==
  ASSUME NEW b, NEW n \in Nat \ {0}, Built \subseteq Nat \ {0}
  PROVE  Merged(b, n) = IF n \in Built THEN Over(Merged(b, n - 1), Content(n)) ELSE Merged(b, n - 1)
<1>1. Upto(n) = Upto(n - 1) \cup (IF n \in Built THEN {n} ELSE {})
  <2>1. \A i \in Built : i <= n <=> (i <= n - 1 \/ i = n)
    OBVIOUS
  <2> QED
    BY <2>1 DEF Upto
<1>2. \A i \in Upto(n - 1) : i \in Nat /\ i < n
  BY DEF Upto
<1>3. CASE n \notin Built
  <2>1. Upto(n) = Upto(n - 1)
    BY <1>1, <1>3
  <2>2. \A k : Lasts(k, n) = Lasts(k, n - 1)
    BY <2>1 DEF Lasts
  <2>3. PICK f, g : f = Merged(b, n) /\ g = Merged(b, n - 1)
    OBVIOUS
  <2>4. DOMAIN f = DOMAIN g
    BY <2>1, <2>3 DEF Merged
  <2>5. ASSUME NEW k \in DOMAIN f
        PROVE  f[k] = g[k]
    <3>1. /\ f[k] = IF Lasts(k, n) = {} THEN b[k] ELSE Content(CHOOSE i \in Lasts(k, n) : TRUE)[k]
          /\ g[k] = IF Lasts(k, n - 1) = {} THEN b[k]
                    ELSE Content(CHOOSE i \in Lasts(k, n - 1) : TRUE)[k]
      BY <2>3, <2>4 DEF Merged
    <3>2. Lasts(k, n) = Lasts(k, n - 1)
      BY <2>2
    <3> QED
      BY <3>1, <3>2
  <2>6. f = [k \in DOMAIN f |-> f[k]] /\ g = [k \in DOMAIN g |-> g[k]]
    BY <2>3 DEF Merged
  <2>7. f = g
    BY <2>4, <2>5, <2>6
  <2> QED
    BY <1>3, <2>3, <2>7
<1>4. CASE n \in Built
  <2>1. Upto(n) = Upto(n - 1) \cup {n}
    BY <1>1, <1>4
  <2>2. ASSUME NEW k, k \in DOMAIN Content(n)
        PROVE  Lasts(k, n) = {n}
    BY <1>2, <2>1, <2>2 DEF Lasts
  <2>3. ASSUME NEW k, k \notin DOMAIN Content(n)
        PROVE  Lasts(k, n) = Lasts(k, n - 1)
    BY <2>1, <2>3 DEF Lasts
  <2>4. PICK f, g : f = Merged(b, n) /\ g = Merged(b, n - 1)
    OBVIOUS
  <2> DEFINE Keys == DOMAIN b \cup UNION {DOMAIN Content(i) : i \in Upto(n - 1)}
  <2>5. DOMAIN g = Keys
    BY <2>4 DEF Merged
  <2>6. DOMAIN f = Keys \cup DOMAIN Content(n)
    BY <2>1, <2>4 DEF Merged
  <2>7. ASSUME NEW k \in DOMAIN f
        PROVE  f[k] = IF k \in DOMAIN Content(n) THEN Content(n)[k] ELSE g[k]
    <3>1. f[k] = IF Lasts(k, n) = {} THEN b[k] ELSE Content(CHOOSE i \in Lasts(k, n) : TRUE)[k]
      BY <2>4 DEF Merged
    <3>2. CASE k \in DOMAIN Content(n)
      <4>1. Lasts(k, n) = {n}
        BY <2>2, <3>2
      <4>2. (CHOOSE i \in Lasts(k, n) : TRUE) = n
        BY <4>1
      <4> QED
        BY <3>1, <3>2, <4>1, <4>2
    <3>3. CASE k \notin DOMAIN Content(n)
      <4>1. Lasts(k, n) = Lasts(k, n - 1)
        BY <2>3, <3>3
      <4>2. g[k] = IF Lasts(k, n - 1) = {} THEN b[k]
                   ELSE Content(CHOOSE i \in Lasts(k, n - 1) : TRUE)[k]
        BY <2>4, <2>5, <2>6, <3>3 DEF Merged
      <4> QED
        BY <3>1, <3>3, <4>1, <4>2
    <3> QED
      BY <3>2, <3>3
  <2>8. f = [k \in DOMAIN f |-> f[k]]
    BY <2>4 DEF Merged
  <2>9. f = Over(g, Content(n))
    BY <2>5, <2>6, <2>7, <2>8 DEF Over
  <2> QED
    BY <1>4, <2>4, <2>9
<1> QED
  BY <1>3, <1>4

(* Ingesting the files one after the other comes to the last file for each key. *)
LEMMA IngestedIsMerged ==
  ASSUME call \in Calls, IsDatabase(db), Built \subseteq Nat \ {0}
  PROVE  Ingested = Merged(db, Len(call.files))
<1> DEFINE N == Len(call.files)
           F(f) == [n \in 0..N |-> IF n = 0 THEN db
                                   ELSE IF n \in Built THEN Over(f[n - 1], Content(n)) ELSE f[n - 1]]
           upto == CHOOSE f : f = F(f)
           g == [n \in 0..N |-> Merged(db, n)]
<1>1. N \in Nat
  BY CallsAreCalls
<1>2. Ingested = upto[N]
  BY DEF Ingested
<1>3. g = F(g)
  <2>1. ASSUME NEW n \in 0..N
        PROVE  g[n] = IF n = 0 THEN db
                      ELSE IF n \in Built THEN Over(g[n - 1], Content(n)) ELSE g[n - 1]
    <3>1. CASE n = 0
      BY <3>1, MergedNone DEF IsDatabase
    <3>2. CASE n # 0
      <4>1. n \in Nat \ {0} /\ n - 1 \in 0..N
        BY <1>1, <3>2
      <4> QED
        BY <3>2, <4>1, MergedStep
    <3> QED
      BY <3>1, <3>2
  <2> QED
    BY <2>1
<1>4. upto = F(upto)
  BY <1>3
<1>5. \A n \in 0..N : upto[n] = g[n]
  <2> DEFINE T == {n \in 0..N : upto[n] # g[n]}
  <2>1. T \subseteq Nat
    OBVIOUS
  <2>2. CASE T # {}
    <3>1. PICK n \in T : \A m \in T : n <= m
      BY <2>1, <2>2, LeastNat
    <3> HIDE DEF upto, g
    <3>2. /\ upto[n] = IF n = 0 THEN db
                       ELSE IF n \in Built THEN Over(upto[n - 1], Content(n)) ELSE upto[n - 1]
          /\ g[n] = IF n = 0 THEN db
                    ELSE IF n \in Built THEN Over(g[n - 1], Content(n)) ELSE g[n - 1]
      BY <1>3, <1>4
    <3>3. n # 0
      BY <3>2
    <3>4. n - 1 \in 0..N /\ n - 1 < n
      BY <1>1, <3>3
    <3>5. upto[n - 1] = g[n - 1]
      BY <3>1, <3>4
    <3> QED
      BY <3>2, <3>5
  <2> QED
    BY <2>2
<1>6. g[N] = Merged(db, N)
  BY <1>1
<1> HIDE DEF upto, g
<1> QED
  BY <1>1, <1>2, <1>5, <1>6

(* The files keep the database one of bytes. *)
LEMMA MergedIsDatabase ==
  ASSUME call \in Calls, IsDatabase(db), Built \subseteq DOMAIN call.files, Builders,
         NEW n \in 0..Len(call.files)
  PROVE  IsDatabase(Merged(db, n))
<1>1. Len(call.files) \in Nat /\ DOMAIN call.files = 1..Len(call.files)
  BY CallsAreCalls
<1>2. Built \subseteq Nat \ {0}
  BY <1>1
<1> DEFINE T == {m \in 0..Len(call.files) : ~IsDatabase(Merged(db, m))}
<1>3. CASE T # {}
  <2>1. T \subseteq Nat
    BY <1>1
  <2>2. PICK m \in T : \A h \in T : m <= h
    BY <1>3, <2>1, LeastNat
  <2>3. CASE m = 0
    <3>1. Merged(db, 0) = db
      BY <1>2, MergedNone DEF IsDatabase
    <3> QED
      BY <2>2, <2>3, <3>1
  <2>4. CASE m # 0
    <3>1. m \in Nat \ {0} /\ m - 1 \in 0..Len(call.files) /\ m - 1 < m
      BY <1>1, <2>4
    <3>2. IsDatabase(Merged(db, m - 1))
      BY <2>2, <3>1
    <3>3. PICK b : b = Merged(db, m - 1)
      OBVIOUS
    <3>4. CASE m \in Built
      <4>1. m \in DOMAIN call.files /\ Sst(m) # {Failed}
        BY <3>4 DEF Built, Builders
      <4>2. \A k \in DOMAIN Content(m) : AreBytes(k) /\ AreBytes(Content(m)[k])
        BY <4>1, ContentsStand
      <4>3. Merged(db, m) = Over(b, Content(m))
        BY <1>2, <3>1, <3>3, <3>4, MergedStep
      <4>4. IsDatabase(Over(b, Content(m)))
        BY <3>2, <3>3, <4>2 DEF IsDatabase, AreBytes, Over
      <4> QED
        BY <2>2, <4>3, <4>4
    <3>5. CASE m \notin Built
      <4>1. Merged(db, m) = Merged(db, m - 1)
        BY <1>2, <3>1, <3>5, MergedStep
      <4> QED
        BY <2>2, <3>2, <4>1
    <3> QED
      BY <3>4, <3>5
  <2> QED
    BY <2>3, <2>4
<1> QED
  BY <1>3

-----------------------------------------------------------------------------
(* The steps *)

LEMMA InvInit ==
  ASSUME Init
  PROVE  IInv
<1>1. call = NoCall /\ build = <<>> /\ db = <<>> /\ before = <<>> /\ temp = {} /\ leftover = {}
      /\ phase = "idle" /\ result = "none" /\ calls = 0 /\ kills = 0 /\ faults = 0 /\ why = "none"
  BY DEF Init
<1>2. DOMAIN build = {} /\ DOMAIN db = {} /\ call.files = <<>>
  BY <1>1 DEF NoCall
<1>3. MaxCalls \in Nat /\ MaxKills \in Nat /\ MaxFaults \in Nat
  BY BoundsAssumption DEF BoundsAssumption
<1>4. build \in [DOMAIN call.files -> {"todo", "writing", "built", "empty", "failed"}]
  BY <1>1, <1>2
<1>5. {dir, present, busy} \subseteq BOOLEAN /\ (busy => present)
  BY DEF Init
<1>6. calls \in 0..MaxCalls /\ kills \in 0..MaxKills /\ faults \in 0..MaxFaults
  BY <1>1, <1>3
<1>7. TypeOK
  BY <1>1, <1>2, <1>4, <1>5, <1>6 DEF TypeOK
<1>8. IsDatabase(db) /\ IsDatabase(before)
  <2>1. \A f : f = <<>> => IsDatabase(f)
    BY DEF IsDatabase
  <2> QED
    BY <1>1, <2>1
<1>9. Builders
  BY <1>2 DEF Builders
<1>10. Progress /\ Temporary /\ ErrorsAreExplained
  BY <1>1 DEF Progress, Temporary, ErrorsAreExplained
<1> QED
  BY <1>7, <1>8, <1>9, <1>10 DEF IInv

LEMMA Faults ==
  ASSUME IInv, Breaks
  PROVE  faults' \in 0..MaxFaults /\ why' = "broken"
BY BoundsAssumption DEF BoundsAssumption, Breaks, IInv, TypeOK

LEMMA LoadedKept ==
  ASSUME UNCHANGED <<call, build, before, db>>
  PROVE  /\ Loaded' = Loaded /\ AllBuilt' = AllBuilt /\ Built' = Built
         /\ Builders /\ (why' \in {why, "broken"} \/ AllBuilt) => Builders'
         /\ \A i : Sst(i)' = Sst(i)
<1>1. \A i : Sst(i)' = Sst(i)
  BY DEF Sst
<1>2. \A i : Content(i)' = Content(i)
  BY DEF Sst, Content
<1>3. Built' = Built
  BY DEF Built
<1>4. \A k, n : Lasts(k, n)' = Lasts(k, n)
  BY DEF Lasts, Upto, Built, Content, Sst
<1>5. AllBuilt' = AllBuilt
  BY DEF AllBuilt
<1>6. Loaded' = Loaded
  BY DEF Loaded, AllBuilt, Merged, Lasts, Upto, Built, Content, Sst
<1>7. ASSUME Builders, why' \in {why, "broken"} \/ AllBuilt
      PROVE  Builders'
  BY <1>7 DEF Builders, Sst, AllBuilt
<1> QED
  BY <1>1, <1>3, <1>5, <1>6, <1>7

LEMMA BeginInv ==
  ASSUME IInv, NEW c \in Calls, Begin(c)
  PROVE  IInv'
<1>1. /\ phase = "idle" /\ calls < MaxCalls /\ calls' = calls + 1 /\ call' = c
      /\ before' = db /\ leftover' = temp /\ UNCHANGED <<temp, db, present, busy, kills>>
      /\ build' = [i \in DOMAIN c.files |-> "todo"]
  BY DEF Begin, dbVars
<1>2. \/ phase' = "idle" /\ result' = "error" /\ dir' = dir /\ Len(c.files) = 0
      \/ phase' = "idle" /\ result' = "error" /\ dir' = dir /\ why' = "broken"
      \/ phase' = "building" /\ result' = "none" /\ dir' = (dir \/ c.api = "load")
  BY DEF Begin, Return, Breaks
<1>3. /\ c.api \in {"load", "ingest"}
      /\ Len(c.files) = 0 => c.files = <<>>
  BY CallsAreCalls
<1>4. faults' \in 0..MaxFaults /\ why' \in {"none", "broken"}
  BY Faults DEF Begin, IInv, TypeOK
<1>5. dir' \in BOOLEAN
  BY <1>2 DEF IInv, TypeOK
<1>6. calls' \in 0..MaxCalls
  BY <1>1, BoundsAssumption DEF IInv, TypeOK, BoundsAssumption
<1>7. build' \in [DOMAIN call'.files -> {"todo", "writing", "built", "empty", "failed"}]
  BY <1>1
<1>8. TypeOK'
  BY <1>1, <1>2, <1>4, <1>5, <1>6, <1>7 DEF IInv, TypeOK
<1>9. IsDatabase(db)' /\ IsDatabase(before)'
  BY <1>1 DEF IInv, IsDatabase
<1>10. \A i \in DOMAIN build' : build'[i] = "todo"
  BY <1>1
<1>11. Builders'
  BY <1>10 DEF Builders
<1>12. Progress'
  BY <1>1, <1>2 DEF Progress
<1>13. Temporary'
  BY <1>1, <1>2, <1>10 DEF Temporary
<1>14. ErrorsAreExplained'
  BY <1>1, <1>2, <1>3 DEF ErrorsAreExplained
<1> QED
  BY <1>8, <1>9, <1>11, <1>12, <1>13, <1>14 DEF IInv

LEMMA StartInv ==
  ASSUME IInv, NEW i \in DOMAIN build, StartSst(i)
  PROVE  IInv'
<1>1. /\ phase = "building"
      /\ UNCHANGED <<phase, call, dir, db, present, busy, result, calls, kills, before, leftover>>
  BY DEF StartSst, callVars, dbVars
<1>2. \/ /\ build' = [build EXCEPT ![i] = "writing"]
         /\ temp' = (IF call.api = "load" THEN temp \cup {i} ELSE temp)
         /\ UNCHANGED <<faults, why>>
      \/ /\ build' = [build EXCEPT ![i] = "failed"] /\ temp' = temp
         /\ ~call.files[i].opens /\ UNCHANGED <<faults, why>>
      \/ /\ build' = [build EXCEPT ![i] = "failed"] /\ temp' = temp
         /\ Breaks
  BY DEF StartSst, faultVars
<1>3. call \in Calls /\ result = "none" /\ db = before
  BY <1>1 DEF IInv, Progress
<1>4. DOMAIN build = DOMAIN call.files /\ DOMAIN call.files \subseteq Nat \ {0}
  BY <1>3, CallsAreCalls DEF IInv, TypeOK
<1>5. call.api = "load" => dir
  BY <1>1 DEF IInv, Temporary
<1>6. PICK b \in {"writing", "failed"} :
        /\ build' = [build EXCEPT ![i] = b]
        /\ temp' = temp \/ (call.api = "load" /\ temp' = temp \cup {i})
        /\ b = "failed" => ~call.files[i].opens \/ why' = "broken"
  BY <1>2 DEF Breaks
<1>7. DOMAIN build' = DOMAIN build /\ build'[i] = b
      /\ \A j \in DOMAIN build : j # i => build'[j] = build[j]
  BY <1>6
<1>8. faults' \in 0..MaxFaults /\ why' \in {why, "broken"}
  BY <1>2, Faults DEF IInv, TypeOK
<1>9. build' \in [DOMAIN call.files -> {"todo", "writing", "built", "empty", "failed"}]
  BY <1>4, <1>6 DEF IInv, TypeOK
<1>10. temp' \subseteq Nat \ {0} /\ (temp' # {} => dir)
  BY <1>4, <1>5, <1>6 DEF IInv, TypeOK
<1>11. why' \in {"none", "locked", "missing", "broken"}
  BY <1>8 DEF IInv, TypeOK
<1>12. TypeOK'
  BY <1>1, <1>8, <1>9, <1>10, <1>11 DEF IInv, TypeOK
<1>13. IsDatabase(db)' /\ IsDatabase(before)'
  BY <1>1 DEF IInv, IsDatabase
<1>14. Builders'
  <2>1. \A j : Sst(j)' = Sst(j)
    BY <1>1 DEF Sst
  <2>2. b = "failed" => Unbuildable(call.files[i], call.format) \/ why' = "broken"
    BY <1>6 DEF Unbuildable
  <2> QED
    BY <1>1, <1>6, <1>7, <1>8, <2>1, <2>2 DEF IInv, Builders
<1>15. Progress'
  BY <1>1, <1>3 DEF Progress
<1>16. Temporary'
  BY <1>1, <1>2, <1>5, <1>7 DEF IInv, Temporary
<1>17. ErrorsAreExplained'
  BY <1>1, <1>3 DEF ErrorsAreExplained
<1> QED
  BY <1>12, <1>13, <1>14, <1>15, <1>16, <1>17 DEF IInv

LEMMA FinishInv ==
  ASSUME IInv, NEW i \in DOMAIN build, FinishSst(i)
  PROVE  IInv'
<1>1. /\ phase = "building"
      /\ UNCHANGED <<phase, call, dir, db, present, busy, result, calls, kills, before, leftover>>
  BY DEF FinishSst, callVars, dbVars
<1>2. \/ /\ build' = [build EXCEPT ![i] = Outcome(i)]
         /\ temp' = (IF call.api = "load" /\ Sst(i) = {} THEN temp \ {i} ELSE temp)
         /\ UNCHANGED <<faults, why>>
      \/ Breaks /\ build' = [build EXCEPT ![i] = "failed"] /\ temp' = temp
  BY DEF FinishSst, faultVars
<1>3. call \in Calls /\ result = "none" /\ db = before /\ DOMAIN build = DOMAIN call.files
  BY <1>1 DEF IInv, Progress, TypeOK
<1>4. PICK b \in {"failed", "empty", "built"} :
        /\ build' = [build EXCEPT ![i] = b]
        /\ b = "failed" => Sst(i) = {Failed} \/ why' = "broken"
        /\ b = "built" => Sst(i) # {} /\ Sst(i) # {Failed}
        /\ b = "empty" => Sst(i) = {} /\ (call.api = "load" => temp' = temp \ {i})
        /\ temp' \subseteq temp
  BY <1>2 DEF Breaks, Outcome
<1>5. DOMAIN build' = DOMAIN build /\ build'[i] = b
      /\ \A j \in DOMAIN build : j # i => build'[j] = build[j]
  BY <1>4
<1>6. faults' \in 0..MaxFaults /\ why' \in {why, "broken"}
  BY <1>2, Faults DEF IInv, TypeOK
<1>7. TypeOK'
  <2>1. build' \in [DOMAIN call.files -> {"todo", "writing", "built", "empty", "failed"}]
    BY <1>3, <1>4 DEF IInv, TypeOK
  <2>2. temp' \subseteq Nat \ {0} /\ (temp' # {} => dir)
    BY <1>4 DEF IInv, TypeOK
  <2>3. why' \in {"none", "locked", "missing", "broken"}
    BY <1>6 DEF IInv, TypeOK
  <2> QED
    BY <1>1, <1>6, <2>1, <2>2, <2>3 DEF IInv, TypeOK
<1>8. IsDatabase(db)' /\ IsDatabase(before)'
  BY <1>1 DEF IInv, IsDatabase
<1>9. Builders'
  <2>1. \A j : Sst(j)' = Sst(j)
    BY <1>1 DEF Sst
  <2>2. Sst(i) = {Failed} => Unbuildable(call.files[i], call.format)
    BY <1>3, BuildFails DEF Sst
  <2>3. Sst(i) = {} => call.files[i].lines = <<>>
    BY <1>3, BuildEmpty DEF Sst
  <2> QED
    BY <1>1, <1>4, <1>5, <1>6, <2>1, <2>2, <2>3 DEF IInv, Builders
<1>10. Progress'
  BY <1>1, <1>3 DEF Progress
<1>11. Temporary'
  BY <1>1, <1>2, <1>4, <1>5 DEF IInv, Temporary
<1>12. ErrorsAreExplained'
  BY <1>1, <1>3 DEF ErrorsAreExplained
<1> QED
  BY <1>7, <1>8, <1>9, <1>10, <1>11, <1>12 DEF IInv

(* The steps of a call that leave the builders and the database alone, and those *)
(* of others                                                                     *)
LEMMA QuietInv ==
  ASSUME IInv, Collect \/ OpenDb \/ Unlink \/ Clean \/ Killed \/ OtherOpens \/ OtherCloses
               \/ UNCHANGED vars
  PROVE  /\ UNCHANGED <<call, build, db, calls, before, leftover>>
         /\ IsDatabase(db)' /\ IsDatabase(before)' /\ Builders'
         /\ Loaded' = Loaded /\ AllBuilt' = AllBuilt /\ Built' = Built
         /\ \A i : Sst(i)' = Sst(i)
         /\ TypeOK'
<1> USE DEF Collect, OpenDb, Unlink, Clean, Killed, OtherOpens, OtherCloses, vars, Return,
            callVars, dirVars, dbVars, faultVars
<1>1. UNCHANGED <<call, build, db, calls, before, leftover>>
  OBVIOUS
<1>2. \/ faults' = faults /\ why' = why
      \/ Breaks
      \/ faults' = faults /\ phase = "opening" /\ why' \in {"locked", "missing"}
  OBVIOUS
<1>3. result' \in {"none", "ok", "error", "killed"}
  BY DEF IInv, TypeOK
<1>4. phase' \in {"idle", "building", "opening", "ingesting", "moving", "cleaning"}
  BY DEF IInv, TypeOK
<1>5. temp' \subseteq temp
  OBVIOUS
<1>6. dir' \in BOOLEAN /\ (temp' # {} => dir')
  <2>1. CASE dir' = dir
    BY <1>5, <2>1 DEF IInv, TypeOK
  <2>2. CASE Clean
    BY <2>2 DEF IInv, TypeOK
  <2> QED
    BY <2>1, <2>2
<1>7. kills' \in 0..MaxKills
  BY BoundsAssumption DEF BoundsAssumption, IInv, TypeOK
<1>8. /\ present' \in {present, TRUE} /\ busy' \in {busy, TRUE, FALSE}
      /\ busy' = TRUE => present' = TRUE \/ (busy' = busy /\ present' = present)
  OBVIOUS
<1> HIDE DEF Collect, OpenDb, Unlink, Clean, Killed, OtherOpens, OtherCloses, vars, Return,
             callVars, dirVars, dbVars, faultVars
<1>9. {present', busy'} \subseteq BOOLEAN /\ (busy' => present')
  <2>1. present \in BOOLEAN /\ busy \in BOOLEAN /\ (busy => present)
    BY DEF IInv, TypeOK
  <2> QED
    BY <1>8, <2>1
<1>10. faults' \in 0..MaxFaults /\ why' \in {"none", "locked", "missing", "broken"}
  BY <1>2, Faults DEF IInv, TypeOK
<1>11. phase = "opening" => AllBuilt
  BY DEF IInv, Progress
<1>12. why' \in {why, "broken"} \/ AllBuilt
  BY <1>2, <1>11 DEF Breaks
<1>13. /\ Loaded' = Loaded /\ AllBuilt' = AllBuilt /\ Built' = Built /\ Builders'
       /\ \A i : Sst(i)' = Sst(i)
  BY <1>1, <1>12, LoadedKept DEF IInv
<1>14. IsDatabase(db)' /\ IsDatabase(before)'
  BY <1>1 DEF IInv, IsDatabase
<1>15. TypeOK'
  BY <1>1, <1>3, <1>4, <1>5, <1>6, <1>7, <1>9, <1>10 DEF IInv, TypeOK
<1> QED
  BY <1>1, <1>13, <1>14, <1>15

LEMMA CollectInv ==
  ASSUME IInv, Collect
  PROVE  IInv'
<1>1. phase = "building" /\ UNCHANGED <<dir, temp, why>>
  BY DEF Collect, dirVars, faultVars
<1>2. call \in Calls /\ result = "none" /\ db = before
  BY <1>1 DEF IInv, Progress
<1>3. DOMAIN build = DOMAIN call.files
  BY DEF IInv, TypeOK
<1>4. /\ IsDatabase(db)' /\ IsDatabase(before)' /\ Builders' /\ TypeOK'
      /\ Loaded' = Loaded /\ AllBuilt' = AllBuilt /\ Built' = Built
      /\ UNCHANGED <<call, build, db, calls, before, leftover>>
  BY QuietInv
<1>5. \/ phase' = "idle" /\ result' = "error"
           /\ \/ \E i \in DOMAIN build : build[i] = "failed"
              \/ \A i \in DOMAIN build : build[i] = "empty"
      \/ phase' = "opening" /\ result' = result /\ AllBuilt
  BY DEF Collect, Return, AllBuilt, Built
<1>6. Progress'
  BY <1>1, <1>2, <1>4, <1>5 DEF Progress
<1>7. Temporary'
  BY <1>1, <1>4, <1>5 DEF IInv, Temporary
<1>8. ErrorsAreExplained'
  <2>1. CASE \E i \in DOMAIN build : build[i] = "failed"
    BY <1>1, <1>2, <1>3, <1>4, <2>1 DEF IInv, Builders, ErrorsAreExplained
  <2>2. CASE \A i \in DOMAIN build : build[i] = "empty"
    BY <1>1, <1>2, <1>3, <1>4, <2>2 DEF IInv, Builders, ErrorsAreExplained
  <2> QED
    BY <1>2, <1>5, <2>1, <2>2 DEF ErrorsAreExplained
<1> QED
  BY <1>4, <1>6, <1>7, <1>8 DEF IInv

LEMMA OpenInv ==
  ASSUME IInv, OpenDb
  PROVE  IInv'
<1>1. phase = "opening" /\ UNCHANGED <<dir, temp>>
  BY DEF OpenDb, dirVars
<1>2. call \in Calls /\ result = "none" /\ db = before /\ AllBuilt
  BY <1>1 DEF IInv, Progress
<1>3. /\ IsDatabase(db)' /\ IsDatabase(before)' /\ Builders' /\ TypeOK'
      /\ Loaded' = Loaded /\ AllBuilt' = AllBuilt /\ Built' = Built
      /\ UNCHANGED <<call, build, db, calls, before, leftover>>
  BY QuietInv
<1>4. \/ phase' = "idle" /\ result' = "error" /\ why' # "none"
      \/ phase' = "ingesting" /\ result' = result
  BY DEF OpenDb, Return, Breaks
<1>5. Progress'
  BY <1>1, <1>2, <1>3, <1>4 DEF Progress
<1>6. Temporary'
  BY <1>1, <1>3, <1>4 DEF IInv, Temporary
<1>7. ErrorsAreExplained'
  BY <1>2, <1>3, <1>4 DEF ErrorsAreExplained
<1> QED
  BY <1>3, <1>5, <1>6, <1>7 DEF IInv

LEMMA IngestInv ==
  ASSUME IInv, Ingest
  PROVE  IInv'
<1>1. /\ phase = "ingesting"
      /\ UNCHANGED <<call, build, dir, temp, present, busy, calls, kills, before, leftover>>
  BY DEF Ingest, callVars, dirVars
<1>2. call \in Calls /\ result = "none" /\ db = before /\ AllBuilt
  BY <1>1 DEF IInv, Progress
<1>3. DOMAIN build = DOMAIN call.files /\ Built \subseteq DOMAIN call.files
  BY DEF IInv, TypeOK, Built
<1>4. Len(call.files) \in Nat /\ DOMAIN call.files = 1..Len(call.files)
  BY <1>2, CallsAreCalls
<1>5. CASE phase' = "moving" /\ db' = Ingested /\ UNCHANGED <<result, faults, why>>
  <2>1. Built \subseteq Nat \ {0}
    BY <1>3, <1>4
  <2>2. PICK d : d = Merged(before, Len(call.files))
    OBVIOUS
  <2>3. db' = d
    BY <1>2, <1>5, <2>1, <2>2, IngestedIsMerged DEF IInv
  <2>4. IsDatabase(d)
    BY <1>2, <1>3, <1>4, <2>2, MergedIsDatabase DEF IInv
  <2>5. IsDatabase(db)' /\ IsDatabase(before)'
    <3>1. IsDatabase(before)'
      BY <1>1 DEF IInv, IsDatabase
    <3> QED
      BY <2>3, <2>4, <3>1 DEF IsDatabase
  <2>6. TypeOK'
    BY <1>1, <1>5, <2>3, <2>4 DEF IInv, TypeOK, IsDatabase
  <2>7. Builders'
    BY <1>1, <1>5 DEF IInv, Builders, Sst
  <2>8. Loaded'
    <3>1. d = Merged(before, Len(call.files))'
      BY <1>1, <2>2 DEF Merged, Lasts, Upto, Built, Content, Sst
    <3>2. AllBuilt'
      BY <1>1, <1>2 DEF AllBuilt
    <3> QED
      BY <2>3, <3>1, <3>2 DEF Loaded
  <2>9. Progress'
    BY <1>1, <1>2, <1>5, <2>8 DEF Progress, Loaded
  <2>10. Temporary'
    BY <1>1, <1>5 DEF IInv, Temporary
  <2>11. ErrorsAreExplained'
    BY <1>2, <1>5 DEF ErrorsAreExplained
  <2> QED
    BY <2>5, <2>6, <2>7, <2>9, <2>10, <2>11 DEF IInv
<1>6. CASE phase' = "idle" /\ result' = "error" /\ db' = db
  <2>1. \/ call.api = "ingest" /\ Built # DOMAIN build /\ UNCHANGED <<faults, why>>
        \/ Breaks
    <3>1. call.api \in {"load", "ingest"}
      BY <1>2, CallsAreCalls
    <3> QED
      BY <1>1, <1>6, <3>1 DEF Ingest, faultVars
  <2>2. faults' \in 0..MaxFaults /\ why' \in {why, "broken"}
    BY <2>1, Faults DEF IInv, TypeOK
  <2>3. /\ Builders' /\ AllBuilt' = AllBuilt /\ Loaded' = Loaded /\ Built' = Built
    BY <1>1, <1>6, <2>2, LoadedKept DEF IInv
  <2>4. TypeOK'
    BY <1>1, <1>6, <2>2 DEF IInv, TypeOK
  <2>5. IsDatabase(db)' /\ IsDatabase(before)'
    BY <1>1, <1>6 DEF IInv, IsDatabase
  <2>6. Progress' /\ Temporary'
    BY <1>1, <1>2, <1>6 DEF Progress, Temporary
  <2>7. ErrorsAreExplained'
    <3>1. CASE Breaks
      BY <1>1, <1>2, <1>6, <3>1, Faults DEF ErrorsAreExplained
    <3>2. CASE call.api = "ingest" /\ Built # DOMAIN build
      <4>1. PICK i \in DOMAIN build : build[i] # "built"
        BY <3>2 DEF Built
      <4>2. build[i] = "empty"
        BY <1>2, <4>1 DEF AllBuilt
      <4>3. call.files[i].lines = <<>>
        BY <4>2 DEF IInv, Builders
      <4> QED
        BY <1>1, <1>2, <1>3, <1>6, <3>2, <4>3 DEF ErrorsAreExplained
    <3> QED
      BY <2>1, <3>1, <3>2
  <2> QED
    BY <2>3, <2>4, <2>5, <2>6, <2>7 DEF IInv
<1> QED
  BY <1>5, <1>6 DEF Ingest, Return, faultVars

LEMMA UnlinkInv ==
  ASSUME IInv, Unlink
  PROVE  IInv'
<1>1. /\ phase = "moving" /\ phase' = "cleaning" /\ UNCHANGED <<dir, result>>
      /\ temp' = (IF call.api = "load" THEN temp \ Built ELSE temp)
  BY DEF Unlink
<1>2. call \in Calls /\ result = "none" /\ AllBuilt /\ Loaded
  BY <1>1 DEF IInv, Progress
<1>3. /\ IsDatabase(db)' /\ IsDatabase(before)' /\ Builders' /\ TypeOK'
      /\ Loaded' = Loaded /\ AllBuilt' = AllBuilt /\ Built' = Built
      /\ UNCHANGED <<call, build, db, calls, before, leftover>>
  BY QuietInv
<1>4. Progress'
  BY <1>1, <1>2, <1>3 DEF Progress
<1>5. Temporary'
  BY <1>1, <1>3 DEF IInv, Temporary
<1>6. ErrorsAreExplained'
  BY <1>1, <1>2 DEF ErrorsAreExplained
<1> QED
  BY <1>3, <1>4, <1>5, <1>6 DEF IInv

(* What is left in the directory is of an earlier call. *)
LEMMA CleanInv ==
  ASSUME IInv, Clean
  PROVE  IInv'
<1>1. phase = "cleaning" /\ phase' = "idle" /\ temp' = temp
  BY DEF Clean, Return
<1>2. call \in Calls /\ AllBuilt /\ Loaded
  BY <1>1 DEF IInv, Progress
<1>3. /\ IsDatabase(db)' /\ IsDatabase(before)' /\ Builders' /\ TypeOK'
      /\ Loaded' = Loaded /\ AllBuilt' = AllBuilt /\ Built' = Built
      /\ UNCHANGED <<call, build, db, calls, before, leftover>>
  BY QuietInv
<1>4. \/ result' = "error" /\ call.api = "load" /\ (temp # {} \/ why' = "broken")
      \/ result' = "ok" /\ (call.api = "load" => temp = {} /\ ~dir')
  BY DEF Clean, Return, Breaks
<1>5. Progress'
  BY <1>1, <1>2, <1>3, <1>4 DEF Progress
<1>6. Temporary'
  BY <1>1 DEF Temporary
<1>7. ErrorsAreExplained'
  <2>1. CASE result' = "error" /\ temp # {}
    <3>1. PICK i \in temp : TRUE
      BY <2>1
    <3>2. i \notin Built /\ call.api = "load"
      BY <1>1, <1>4, <2>1 DEF IInv, Temporary
    <3>3. i \in leftover
      BY <1>1, <1>2, <3>2 DEF IInv, Temporary, AllBuilt, Built
    <3> QED
      BY <1>3, <3>2, <3>3 DEF ErrorsAreExplained
  <2> QED
    BY <1>3, <1>4, <2>1 DEF ErrorsAreExplained
<1> QED
  BY <1>3, <1>5, <1>6, <1>7 DEF IInv

(* A kill, or another process *)
LEMMA OutsideInv ==
  ASSUME IInv, Killed \/ OtherOpens \/ OtherCloses \/ UNCHANGED vars
  PROVE  IInv'
<1>1. UNCHANGED <<dir, temp, why>>
  BY DEF Killed, OtherOpens, OtherCloses, vars, dirVars, faultVars
<1>2. UNCHANGED <<phase, result>> \/ (phase' = "idle" /\ result' = "killed")
  BY DEF Killed, Return, OtherOpens, OtherCloses, vars
<1>3. /\ IsDatabase(db)' /\ IsDatabase(before)' /\ Builders' /\ TypeOK'
      /\ Loaded' = Loaded /\ AllBuilt' = AllBuilt /\ Built' = Built
      /\ UNCHANGED <<call, build, db, calls, before, leftover>>
  BY QuietInv
<1>4. Progress'
  BY <1>1, <1>2, <1>3 DEF IInv, Progress
<1>5. Temporary'
  BY <1>1, <1>2, <1>3 DEF IInv, Temporary
<1>6. ErrorsAreExplained'
  BY <1>1, <1>2, <1>3 DEF IInv, ErrorsAreExplained
<1> QED
  BY <1>3, <1>4, <1>5, <1>6 DEF IInv

LEMMA InvNext ==
  ASSUME IInv, [Next]_vars
  PROVE  IInv'
<1>1. CASE \E c \in Calls : Begin(c)
  BY <1>1, BeginInv
<1>2. CASE \E i \in DOMAIN build : StartSst(i) \/ FinishSst(i)
  BY <1>2, StartInv, FinishInv
<1>3. CASE Collect \/ OpenDb \/ Ingest \/ Unlink \/ Clean
  BY <1>3, CollectInv, OpenInv, IngestInv, UnlinkInv, CleanInv
<1>4. CASE Killed \/ OtherOpens \/ OtherCloses \/ UNCHANGED vars
  BY <1>4, OutsideInv
<1> QED
  BY <1>1, <1>2, <1>3, <1>4 DEF Next

THEOREM Invariance == Spec => []IInv
BY InvInit, InvNext, PTL DEF Spec

-----------------------------------------------------------------------------
(* The theorems *)

(* Every variable is what its declaration says. *)
THEOREM LoaderTypes == Spec => []TypeOK
<1>1. IInv => TypeOK
  BY DEF IInv
<1> QED
  BY <1>1, Invariance, PTL

(* load and ingest_sst_files: the database is what it was or has all files. *)
THEOREM LoadsWholly == Spec => []NeverPartly
<1>1. IInv => NeverPartly
  <2> SUFFICES ASSUME IInv, db # before
               PROVE  NeverPartly
    BY DEF NeverPartly
  <2>1. Loaded /\ call \in Calls
    BY DEF IInv, Progress
  <2>2. DOMAIN build = DOMAIN call.files
    BY DEF IInv, TypeOK
  <2>3. Built = Upto(Len(call.files))
    BY <2>1, <2>2, CallsAreCalls DEF Built, Upto
  <2>4. db = [k \in DOMAIN before \cup UNION {DOMAIN Content(i) : i \in Built} |->
                IF Lasts(k, Len(call.files)) = {} THEN before[k]
                ELSE Content(CHOOSE i \in Lasts(k, Len(call.files)) : TRUE)[k]]
    BY <2>1, <2>3 DEF Loaded, Merged
  <2>5. \A k : Lasts(k, Len(call.files)) =
          {i \in Built : k \in DOMAIN Content(i)
                           /\ \A h \in Built : h > i => k \notin DOMAIN Content(h)}
    BY <2>3 DEF Lasts
  <2>6. db = [k \in DOMAIN before \cup UNION {DOMAIN Content(i) : i \in Built} |->
                LET last == {i \in Built : k \in DOMAIN Content(i)
                               /\ \A h \in Built : h > i => k \notin DOMAIN Content(h)}
                IN IF last = {} THEN before[k] ELSE Content(CHOOSE i \in last : TRUE)[k]]
    BY <2>4, <2>5
  <2> QED
    BY <2>1, <2>2, <2>6 DEF NeverPartly, Loaded, AllBuilt
<1> QED
  BY <1>1, Invariance, PTL

(* Every error that load and ingest_sst_files raise has one of the reasons a *)
(* caller can see.                                                           *)
THEOREM ErrorsHaveReasons == Spec => []ErrorsAreExplained
<1>1. IInv => ErrorsAreExplained
  BY DEF IInv
<1> QED
  BY <1>1, Invariance, PTL

LEMMA LoadedIsExact ==
  ASSUME IInv
  PROVE  LoadedExactly
<1> SUFFICES ASSUME result = "ok"
             PROVE  LoadedExactly
  BY DEF LoadedExactly
<1>1. /\ call \in Calls /\ Loaded
      /\ call.api = "load" => ~dir /\ temp = {}
  BY DEF IInv, Progress
<1>2. /\ DOMAIN build = DOMAIN call.files
      /\ Len(call.files) \in Nat /\ DOMAIN call.files = 1..Len(call.files)
  BY <1>1, CallsAreCalls DEF IInv, TypeOK
<1>3. \A i \in DOMAIN call.files : Sst(i) # {Failed} /\ (i \notin Built => Sst(i) = {})
  <2>1. \A i \in DOMAIN call.files : build[i] = "built" \/ build[i] = "empty"
    BY <1>1, <1>2 DEF Loaded, AllBuilt
  <2> QED
    BY <1>2, <2>1 DEF IInv, Builders, Built
<1>4. Built = Upto(Len(call.files)) /\ Built \subseteq DOMAIN call.files
  BY <1>2 DEF Upto, Built
<1>5. ASSUME NEW i \in DOMAIN call.files
      PROVE  /\ \A l \in Lines(i) : l.key \in Json
             /\ \A k \in DOMAIN Content(i) : \E l \in Lines(i) : TellsKey(k, l.key)
             /\ \A l \in Lines(i) : \E k \in DOMAIN Content(i) :
                  TellsKey(k, l.key) /\ StandsFor(Content(i)[k], l.val, call.format.number_type)
  <2>1. \A l \in Lines(i) : IsLine(l, call.format)
    BY <1>1, CallsAreCalls DEF Lines, LinesOf
  <2>2. \A l \in Lines(i) : l.key \in Json
    BY <2>1 DEF IsLine
  <2> QED
    BY <1>1, <1>3, <2>2, ContentsStand
<1>6. /\ DOMAIN db = DOMAIN before \cup UNION {DOMAIN Content(i) : i \in Built}
      /\ \A k \in DOMAIN db :
           LET last == Lasts(k, Len(call.files)) IN
           db[k] = IF last = {} THEN before[k] ELSE Content(CHOOSE i \in last : TRUE)[k]
  BY <1>1, <1>4 DEF Loaded, Merged
<1>7. ASSUME NEW i \in DOMAIN call.files, NEW l \in Lines(i),
             \A h \in DOMAIN call.files : h > i => \A m \in Lines(h) : m.key # l.key
      PROVE  \E k \in DOMAIN db : SameKey(l, k)
                                    /\ StandsFor(db[k], l.val, call.format.number_type)
  <2>1. PICK k \in DOMAIN Content(i) :
          TellsKey(k, l.key) /\ StandsFor(Content(i)[k], l.val, call.format.number_type)
    BY <1>5
  <2>2. i \in Built
    <3>1. Sst(i) # {}
      BY <2>1 DEF Content
    <3> QED
      BY <1>3, <3>1
  <2>3. ASSUME NEW h \in Built, h > i, k \in DOMAIN Content(h)
        PROVE  FALSE
    <3>1. h \in DOMAIN call.files
      BY <1>4
    <3>2. PICK m \in Lines(h) : TellsKey(k, m.key)
      BY <1>5, <2>3, <3>1
    <3>3. m.key = l.key
      BY <1>5, <2>1, <3>1, <3>2, KeysTold
    <3> QED
      BY <1>7, <2>3, <3>1, <3>3
  <2>4. Lasts(k, Len(call.files)) = {i}
    <3>1. i \in Lasts(k, Len(call.files))
      BY <1>4, <2>1, <2>2, <2>3 DEF Lasts
    <3>2. ASSUME NEW h \in Lasts(k, Len(call.files)), h # i
          PROVE  FALSE
      <4>1. /\ h \in Built /\ k \in DOMAIN Content(h)
            /\ ~(i > h)
        BY <1>4, <2>1, <2>2 DEF Lasts
      <4>2. h > i
        BY <1>2, <1>4, <3>2, <4>1
      <4> QED
        BY <2>3, <4>1, <4>2
    <3> QED
      BY <3>1, <3>2
  <2>5. k \in DOMAIN db
    BY <1>6, <2>1, <2>2
  <2>6. db[k] = Content(i)[k]
    BY <1>6, <2>4, <2>5
  <2>7. SameKey(l, k)
    BY <2>1 DEF SameKey, TellsKey
  <2> QED
    BY <2>1, <2>5, <2>6, <2>7
<1>8. ASSUME NEW k \in DOMAIN db
      PROVE  \/ k \in DOMAIN before /\ db[k] = before[k]
             \/ \E i \in DOMAIN call.files : \E l \in Lines(i) : SameKey(l, k)
  <2>1. CASE \E i \in Built : k \in DOMAIN Content(i)
    <3>1. PICK i \in Built : k \in DOMAIN Content(i)
      BY <2>1
    <3>2. i \in DOMAIN call.files
      BY <1>4
    <3>3. PICK l \in Lines(i) : TellsKey(k, l.key)
      BY <1>5, <3>1, <3>2
    <3> QED
      BY <3>2, <3>3 DEF SameKey, TellsKey
  <2>2. CASE \A i \in Built : k \notin DOMAIN Content(i)
    <3>1. Lasts(k, Len(call.files)) = {}
      BY <1>4, <2>2 DEF Lasts
    <3> QED
      BY <1>6, <2>2, <3>1
  <2> QED
    BY <2>1, <2>2
<1> QED
  BY <1>1, <1>7, <1>8 DEF LoadedExactly

(* load: after a load that returned, each key of the files has the value of the *)
(* last file that names it, every other key is what it was, and the temporary   *)
(* directory is gone.                                                           *)
THEOREM LoadsExactly == Spec => []LoadedExactly
BY LoadedIsExact, Invariance, PTL
=============================================================================
