----------------------------- MODULE SqliteProofs -----------------------------
(***************************************************************************)
(* Proofs about SqliteDict, for every set of processes, tables, keys and   *)
(* values, every memoized function and all bounds.                         *)
(***************************************************************************)
EXTENDS SqliteDict, MemoKeysProofs

-----------------------------------------------------------------------------
(* The types of the operations and of the iterators *)

Rows == [Keys -> Values \cup {Absent}]
Writes == UNION {[S -> Values \cup {Absent}] : S \in SUBSET Keys}

(* The arguments some call was given, or Absent *)
Gots == {Given[c] : c \in DOMAIN Given} \cup {Absent}

Ops == [kind : {"none", "write", "memo"}, table : Tables, key : Keys \cup {Absent},
        writes : Writes, call : Forms \cup {NoCall}, got : Gots]

Cursors == [open : BOOLEAN, table : Tables, start : Rows, left : SUBSET Keys,
            seen : SUBSET (Keys \X Values), wrote : BOOLEAN]

(* The table a process creates next is one of those it opens. *)
Creating == \A p \in Procs : pc[p] = "creating" => todo[p] \in 1..Len(Opens[p].tables)

FileTypes ==
  /\ file \in BOOLEAN /\ marker \in BOOLEAN
  /\ tables \in SUBSET Tables
  /\ rows \in [Tables -> Rows]
  /\ writer \in Procs \cup {Nobody}

ProcTypes ==
  /\ pc \in [Procs -> {"off", "ready"} \cup Opening \cup Calling]
  /\ todo \in [Procs -> Nat \ {0}]
  /\ op \in [Procs -> Ops]
  /\ cursor \in [Procs -> Cursors]

CountTypes == starts \in 0..MaxStarts /\ calls \in 0..MaxCalls /\ kills \in 0..MaxKills

HistoryTypes ==
  /\ landed \in [Procs -> SUBSET Keys]
  /\ outcome \in [Procs -> {"none", "returned", "raised"}]
  /\ delivered \in SUBSET Keys
  /\ sure \in SUBSET Procs
  /\ origin \in [Keys -> Gots]

Types == FileTypes /\ ProcTypes /\ CountTypes /\ HistoryTypes

(* The process inside a transaction holds the lock. *)
Lock == \A p \in Procs : writer = p <=> pc[p] \in {"reserved", "pending"}

(* Inside of a call *)
Called ==
  \A p \in Procs :
    /\ pc[p] \in Calling => op[p].kind # "none"
    /\ pc[p] \in {"lookup", "compute", "recall"} => op[p].kind = "memo"
    /\ op[p].kind = "memo" =>
         /\ op[p].table = Memo
         /\ op[p].call \in DOMAIN KeyOf /\ op[p].key = KeyOf[op[p].call]
    /\ op[p].kind = "memo" /\ pc[p] \in {"dml", "reserved", "pending"} =>
         /\ \E v \in Values : op[p].writes = Only(op[p].key, v)
         /\ op[p].call \in DOMAIN Given /\ op[p].got = Given[op[p].call]
    /\ op[p].kind = "write" => op[p].got = Absent

TypesInv == Types /\ Lock /\ Creating /\ Called

(* Before a call ends nothing of it has landed and it has no outcome. *)
WholeInv ==
  /\ WritesAreWhole
  /\ \A p \in Procs : pc[p] \in Calling => landed[p] = {} /\ outcome[p] = "none"

(* A value that was delivered is in the table, and a call that began after it *)
(* was finds it there.                                                        *)
MemoInv ==
  /\ NeverRecomputed
  /\ \A k \in delivered : rows[Memo][k] # Absent
  /\ \A p \in sure : pc[p] = "lookup" => op[p].key \in delivered

(* g is what some call with the key k was given. *)
GivenUnder(k, g) ==
  \E c \in DOMAIN KeyOf : c \in DOMAIN Given /\ KeyOf[c] = k /\ Given[c] = g

(* Every row of cache_fn was computed for a call that has its key, and so was what *)
(* a call has got.                                                                 *)
OriginInv ==
  /\ \A k \in Keys : origin[k] # Absent => GivenUnder(k, origin[k])
  /\ \A p \in Procs : op[p].kind = "memo" /\ op[p].got # Absent =>
       GivenUnder(op[p].key, op[p].got)

Held(r) == {k \in Keys : r[k] # Absent}

(* The table of an open iterator stays as it was, but for what its own process *)
(* writes.                                                                     *)
IteratorInv ==
  /\ IteratorsSeeOneState
  /\ \A p \in Procs : ~cursor[p].wrote =>
       /\ cursor[p].left \subseteq Held(cursor[p].start)
       /\ cursor[p].open => cursor[p].start = rows[cursor[p].table]

(* Every process opens the same tables with SqliteDict(path, ..). *)
OpensAlike ==
  \A p, q \in Procs : ~Opens[p].multiple /\ Opens[p].tables = Opens[q].tables

Exist(p, n) == \A i \in 1..n : Opens[p].tables[i] \in tables

(* Who does not create a table finds it created. *)
OpenedInv ==
  \A p \in Procs :
    /\ marker => Exist(p, Len(Opens[p].tables))
    /\ pc[p] \notin {"off", "connect_init", "creating"} => Exist(p, Len(Opens[p].tables))
    /\ pc[p] = "creating" => Exist(p, todo[p] - 1)
-----------------------------------------------------------------------------
(* The steps there are *)

(* Every write is one of a function from keys to values. *)
LEMMA OnlyTyped ==
  ASSUME NEW k \in Keys, NEW v \in Values \cup {Absent}
  PROVE  Only(k, v) \in Writes /\ DOMAIN Only(k, v) = {k}
<1>1. {k} \in SUBSET Keys
  OBVIOUS
<1>2. Only(k, v) \in [{k} -> Values \cup {Absent}]
  BY DEF Only
<1> QED BY <1>1, <1>2 DEF Writes, Only

LEMMA WritesTyped ==
  ASSUME NEW p \in Procs, NEW t \in Tables
  PROVE  /\ \A k \in Keys : DelItem(p, t, k) => \E w \in Writes : Write(p, t, w)
         /\ \A k \in Keys, v \in Values :
              SetItem(p, t, k, v) => \E w \in Writes : Write(p, t, w)
         /\ \A b \in Batches : BatchInsert(p, t, b) => \E w \in Writes : Write(p, t, w)
         /\ Clear(p, t) => \E w \in Writes : Write(p, t, w)
<1>1. \A k \in Keys : Only(k, Absent) \in Writes
  BY OnlyTyped
<1>2. \A k \in Keys, v \in Values : Only(k, v) \in Writes
  BY OnlyTyped
<1>3. ASSUME NEW b \in Batches
      PROVE  b \in Writes
  <2>1. PICK S \in SUBSET Keys : b \in [S -> Values]
    BY BatchesAssumption
  <2>2. b \in [S -> Values \cup {Absent}]
    BY <2>1
  <2> QED BY <2>2 DEF Writes
<1>4. [k \in Keys |-> Absent] \in Writes
  <2>1. [k \in Keys |-> Absent] \in [Keys -> Values \cup {Absent}]
    OBVIOUS
  <2> QED BY <2>1 DEF Writes
<1>5. ASSUME NEW k \in Keys, DelItem(p, t, k)
      PROVE  \E w \in Writes : Write(p, t, w)
  BY <1>1, <1>5 DEF DelItem
<1>6. ASSUME NEW k \in Keys, NEW v \in Values, SetItem(p, t, k, v)
      PROVE  \E w \in Writes : Write(p, t, w)
  BY <1>2, <1>6 DEF SetItem
<1>7. ASSUME NEW b \in Batches, BatchInsert(p, t, b)
      PROVE  \E w \in Writes : Write(p, t, w)
  BY <1>3, <1>7 DEF BatchInsert
<1>8. ASSUME Clear(p, t)
      PROVE  \E w \in Writes : Write(p, t, w)
  BY <1>4, <1>8 DEF Clear
<1> QED BY <1>5, <1>6, <1>7, <1>8

(* The steps of p, the writes as one *)
Steps(p) ==
  \/ Start(p) \/ Connect(p) \/ Create(p) \/ Touch(p)
  \/ \E t \in Tables, w \in Writes : Write(p, t, w)
  \/ Dml(p) \/ Pend(p) \/ Commit(p)
  \/ \E c \in Forms : MemoCall(p, c)
  \/ Lookup(p) \/ Compute(p) \/ Recall(p) \/ Locked(p)
  \/ \E t \in Tables : Iterate(p, t)
  \/ Step(p) \/ Drop(p) \/ Killed(p)

LEMMA OpensTyped ==
  ASSUME NEW p \in Procs
  PROVE  /\ Len(Opens[p].tables) \in Nat \ {0}
         /\ DOMAIN Opens[p].tables = 1..Len(Opens[p].tables)
         /\ \A i \in 1..Len(Opens[p].tables) : Opens[p].tables[i] \in Tables
<1>1. Opens[p].tables \in Seq(Tables) /\ Opens[p].tables # <<>>
  BY OpensAssumption
<1> QED BY <1>1

LEMMA NextSteps == Next => \E p \in Procs : Steps(p)
<1> SUFFICES ASSUME NEW p \in Procs,
                    Asks(p) \/ Runs(p) \/ Step(p) \/ Drop(p) \/ Killed(p)
             PROVE  Steps(p)
  BY DEF Next
<1>1. CASE Runs(p) \/ Step(p) \/ Drop(p) \/ Killed(p)
  BY <1>1 DEF Runs, Steps
<1>2. CASE Asks(p)
  <2>1. CASE Start(p) \/ \E c \in Forms : MemoCall(p, c)
    BY <2>1 DEF Steps
  <2>2. ASSUME NEW i \in DOMAIN Opens[p].tables, NEW t, t = Opens[p].tables[i],
               \/ \E k \in Keys : DelItem(p, t, k) \/ \E v \in Values : SetItem(p, t, k, v)
               \/ \E b \in Batches : BatchInsert(p, t, b)
               \/ Clear(p, t) \/ Iterate(p, t)
        PROVE  Steps(p)
    <3>1. t \in Tables
      BY <2>2, OpensTyped
    <3>2. CASE Iterate(p, t)
      BY <3>1, <3>2 DEF Steps
    <3>3. CASE ~Iterate(p, t)
      <4>1. \E w \in Writes : Write(p, t, w)
        BY <2>2, <3>1, <3>3, WritesTyped
      <4> QED BY <3>1, <4>1 DEF Steps
    <3> QED BY <3>2, <3>3
  <2> QED BY <1>2, <2>1, <2>2 DEF Asks
<1> QED BY <1>1, <1>2

-----------------------------------------------------------------------------
(* Types *)

LEMMA NamesTyped ==
  /\ NoWrites \in Writes /\ DOMAIN NoWrites = {}
  /\ NoOp \in Ops /\ NoCursor \in Cursors
  /\ Memo \in Tables /\ Absent \in Gots
  /\ \A c \in DOMAIN KeyOf : c \in Forms /\ KeyOf[c] \in Keys
<1>1. NoWrites \in [{} -> Values \cup {Absent}] /\ DOMAIN NoWrites = {}
  BY DEF NoWrites
<1>2. NoWrites \in Writes
  BY <1>1 DEF Writes
<1>3. Memo \in Tables
  BY NamesAssumption
<1>4. NoOp \in Ops
  BY <1>2, <1>3 DEF NoOp, Op, Ops, Gots
<1>5. NoCursor \in Cursors
  BY <1>3 DEF NoCursor, Cursor, Cursors, Rows
<1>6. \A c \in DOMAIN KeyOf : c \in Forms /\ KeyOf[c] \in Keys
  BY FormsAssumption DEF KeyOf
<1> QED BY <1>1, <1>2, <1>3, <1>4, <1>5, <1>6 DEF Gots

LEMMA TypesInit == Init => TypesInv
<1> SUFFICES ASSUME Init PROVE TypesInv
  OBVIOUS
<1>1. NoOp.kind = "none" /\ NoOp \in Ops /\ NoCursor \in Cursors /\ Absent \in Gots
  BY NamesTyped DEF NoOp, Op
<1>2. 0 \in 0..MaxStarts /\ 0 \in 0..MaxCalls /\ 0 \in 0..MaxKills
  BY BoundsAssumption
<1>3. [k \in Keys |-> Absent] \in Rows
  BY DEF Rows
<1>4. rows \in [Tables -> Rows] /\ origin \in [Keys -> Gots]
  BY <1>1, <1>3 DEF Init
<1>5. FileTypes /\ CountTypes
  BY <1>2, <1>4 DEF Init, FileTypes, CountTypes
<1>6. ProcTypes
  BY <1>1 DEF Init, ProcTypes
<1>7. HistoryTypes
  BY <1>4 DEF Init, HistoryTypes
<1>8. Lock /\ Creating /\ Called
  BY <1>1, NamesAssumption DEF Init, Lock, Creating, Called, Calling
<1> QED BY <1>5, <1>6, <1>7, <1>8 DEF TypesInv, Types

(* The rows after a write, and what it may do to an iterator of its process *)
LEMMA OverTyped ==
  ASSUME NEW r \in Rows, NEW w \in Writes
  PROVE  Over(r, w) \in Rows /\ DOMAIN w \in SUBSET Keys
<1>1. PICK S \in SUBSET Keys : w \in [S -> Values \cup {Absent}]
  BY DEF Writes
<1> QED BY <1>1 DEF Over, Rows

LEMMA RevisedTyped ==
  ASSUME NEW c \in Cursors, NEW t \in Tables, NEW r \in Rows, NEW d \in Revised(c, t, r)
  PROVE  /\ d \in Cursors
         /\ (d = c /\ ~(c.open /\ c.table = t)) \/ d.wrote
<1>1. CASE c.open /\ c.table = t
  <2>1. PICK l : /\ l \in {c.left, {k \in Keys : r[k] # Absent} \ {s[1] : s \in c.seen}}
                 /\ d = Cursor(TRUE, t, c.start, l, c.seen, TRUE)
    BY <1>1 DEF Revised
  <2>2. l \in SUBSET Keys
    BY <2>1 DEF Cursors
  <2> QED BY <2>1, <2>2 DEF Cursor, Cursors
<1>2. CASE ~(c.open /\ c.table = t)
  BY <1>2 DEF Revised
<1> QED BY <1>1, <1>2

LEMMA TypesStart ==
  ASSUME TypesInv, NEW p \in Procs, Start(p)
  PROVE  TypesInv'
<1> USE DEF TypesInv, Types, fileVars, procVars, countVars, historyVars, Goto
<1>1. FileTypes' /\ CountTypes'
  BY BoundsAssumption DEF Start, FileTypes, CountTypes
<1>2. ProcTypes'
  BY BoundsAssumption DEF Start, ProcTypes, FileTypes, Opening, Calling
<1>3. HistoryTypes'
  BY BoundsAssumption DEF Start, HistoryTypes
<1>4. Lock' /\ Creating'
  BY BoundsAssumption DEF Start, Lock, Creating, FileTypes, ProcTypes, Opening, Calling
<1>5. Called'
  BY BoundsAssumption DEF Start, Called, ProcTypes, Calling
<1> QED BY <1>1, <1>2, <1>3, <1>4, <1>5

LEMMA TypesConnect ==
  ASSUME TypesInv, NEW p \in Procs, Connect(p)
  PROVE  TypesInv'
<1> USE DEF TypesInv, Types, fileVars, procVars, countVars, historyVars, Goto
<1>1. FileTypes' /\ CountTypes'
  BY OpensTyped DEF Connect, FileTypes, CountTypes
<1>2. ProcTypes'
  BY OpensTyped DEF Connect, ProcTypes, FileTypes, Opening, Calling
<1>3. HistoryTypes'
  BY OpensTyped DEF Connect, HistoryTypes
<1>4. Lock' /\ Creating'
  BY OpensTyped DEF Connect, Lock, Creating, FileTypes, ProcTypes, Opening, Calling
<1>5. Called'
  BY OpensTyped DEF Connect, Called, ProcTypes, Calling
<1> QED BY <1>1, <1>2, <1>3, <1>4, <1>5

LEMMA TypesCreate ==
  ASSUME TypesInv, NEW p \in Procs, Create(p)
  PROVE  TypesInv'
<1> USE DEF TypesInv, Types, fileVars, procVars, countVars, historyVars, Goto
<1>1. Opens[p].tables[todo[p]] \in Tables
  BY OpensTyped DEF Create, Creating
<1>2. pc' \in [Procs -> {"off", "ready"} \cup Opening \cup Calling]
  BY DEF Create, Created, ProcTypes, Opening
<1>3. todo' \in [Procs -> Nat \ {0}]
  BY DEF Create, Created, ProcTypes
<1>4. Creating'
  <2>1. todo[p] \in 1..Len(Opens[p].tables) /\ Len(Opens[p].tables) \in Nat
    BY OpensTyped DEF Create, Creating
  <2>2. pc'[p] = "creating" => todo[p] < Len(Opens[p].tables) /\ todo'[p] = todo[p] + 1
    BY <1>2, <1>3 DEF Create, Created, ProcTypes
  <2>3. \A q \in Procs \ {p} : pc'[q] = pc[q] /\ todo'[q] = todo[q]
    BY DEF Create, Created, ProcTypes
  <2> QED BY <2>1, <2>2, <2>3 DEF Creating
<1>5. FileTypes' /\ CountTypes'
  BY <1>1, <1>2, <1>3, <1>4, OpensTyped DEF Create, Created, FileTypes, CountTypes
<1>6. ProcTypes'
  BY <1>1, <1>2, <1>3, <1>4, OpensTyped DEF Create, Created, ProcTypes, FileTypes, Opening, Calling
<1>7. HistoryTypes'
  BY <1>1, <1>2, <1>3, <1>4, OpensTyped DEF Create, Created, HistoryTypes
<1>8. Lock' /\ Creating'
  BY <1>1, <1>2, <1>3, <1>4, OpensTyped DEF Create, Created, Lock, Creating, FileTypes, ProcTypes, Opening, Calling
<1>9. Called'
  BY <1>1, <1>2, <1>3, <1>4, OpensTyped DEF Create, Created, Called, ProcTypes, Calling
<1> QED BY <1>5, <1>6, <1>7, <1>8, <1>9

LEMMA TypesTouch ==
  ASSUME TypesInv, NEW p \in Procs, Touch(p)
  PROVE  TypesInv'
<1> USE DEF TypesInv, Types, fileVars, procVars, countVars, historyVars, Goto
<1>1. FileTypes' /\ CountTypes'
  BY DEF Touch, FileTypes, CountTypes
<1>2. ProcTypes'
  BY DEF Touch, ProcTypes, FileTypes, Opening, Calling
<1>3. HistoryTypes'
  BY DEF Touch, HistoryTypes
<1>4. Lock' /\ Creating'
  BY DEF Touch, Lock, Creating, FileTypes, ProcTypes, Opening, Calling
<1>5. Called'
  BY DEF Touch, Called, ProcTypes, Calling
<1> QED BY <1>1, <1>2, <1>3, <1>4, <1>5

LEMMA TypesWrite ==
  ASSUME TypesInv, NEW p \in Procs, NEW t \in Tables, NEW w \in Writes, Write(p, t, w)
  PROVE  TypesInv'
<1> USE DEF TypesInv, Types, fileVars, procVars, countVars, historyVars, Goto
<1>1. Op("write", t, Absent, w, NoCall, Absent) \in Ops
  BY NamesTyped DEF Op, Ops
<1>2. NoOp \in Ops /\ NoOp.kind = "none"
  BY NamesTyped DEF NoOp, Op
<1>3. FileTypes' /\ CountTypes'
  BY <1>1, <1>2, BoundsAssumption DEF Write, Begin, Fails, Ends, Op, FileTypes, CountTypes
<1>4. ProcTypes'
  BY <1>1, <1>2, BoundsAssumption DEF Write, Begin, Fails, Ends, Op, ProcTypes, FileTypes, Opening, Calling
<1>5. HistoryTypes'
  BY <1>1, <1>2, BoundsAssumption DEF Write, Begin, Fails, Ends, Op, HistoryTypes
<1>6. Lock' /\ Creating'
  BY <1>1, <1>2, BoundsAssumption DEF Write, Begin, Fails, Ends, Op, Lock, Creating, FileTypes, ProcTypes, Opening, Calling
<1>7. Called'
  BY <1>1, <1>2, BoundsAssumption DEF Write, Begin, Fails, Ends, Op, Called, ProcTypes, Calling
<1> QED BY <1>3, <1>4, <1>5, <1>6, <1>7

LEMMA TypesDml ==
  ASSUME TypesInv, NEW p \in Procs, Dml(p)
  PROVE  TypesInv'
<1> USE DEF TypesInv, Types, fileVars, procVars, countVars, historyVars, Goto
<1>1. NoOp \in Ops /\ NoOp.kind = "none"
  BY NamesTyped DEF NoOp, Op
<1>2. FileTypes' /\ CountTypes'
  BY <1>1, NamesAssumption DEF Dml, Raises, Ends, FileTypes, CountTypes
<1>3. ProcTypes'
  BY <1>1, NamesAssumption DEF Dml, Raises, Ends, ProcTypes, FileTypes, Opening, Calling
<1>4. HistoryTypes'
  BY <1>1, NamesAssumption DEF Dml, Raises, Ends, HistoryTypes
<1>5. Lock' /\ Creating'
  BY <1>1, NamesAssumption DEF Dml, Raises, Ends, Lock, Creating, FileTypes, ProcTypes, Opening, Calling
<1>6. Called'
  BY <1>1, NamesAssumption DEF Dml, Raises, Ends, Called, ProcTypes, Calling
<1> QED BY <1>2, <1>3, <1>4, <1>5, <1>6

LEMMA TypesPend ==
  ASSUME TypesInv, NEW p \in Procs, Pend(p)
  PROVE  TypesInv'
<1> USE DEF TypesInv, Types, fileVars, procVars, countVars, historyVars, Goto
<1>1. FileTypes' /\ CountTypes'
  BY DEF Pend, FileTypes, CountTypes
<1>2. ProcTypes'
  BY DEF Pend, ProcTypes, FileTypes, Opening, Calling
<1>3. HistoryTypes'
  BY DEF Pend, HistoryTypes
<1>4. Lock' /\ Creating'
  BY DEF Pend, Lock, Creating, FileTypes, ProcTypes, Opening, Calling
<1>5. Called'
  BY DEF Pend, Called, ProcTypes, Calling
<1> QED BY <1>1, <1>2, <1>3, <1>4, <1>5

LEMMA TypesMemoCall ==
  ASSUME TypesInv, NEW p \in Procs, NEW c \in Forms, MemoCall(p, c)
  PROVE  TypesInv'
<1> USE DEF TypesInv, Types, fileVars, procVars, countVars, historyVars, Goto
<1>1. c \in DOMAIN KeyOf => Op("memo", Memo, KeyOf[c], NoWrites, c, Absent) \in Ops
  BY NamesTyped DEF Op, Ops
<1>2. NoOp \in Ops /\ NoOp.kind = "none"
  BY NamesTyped DEF NoOp, Op
<1>3. FileTypes' /\ CountTypes'
  BY <1>1, <1>2, BoundsAssumption DEF MemoCall, Begin, Fails, Ends, Op, FileTypes, CountTypes
<1>4. ProcTypes'
  BY <1>1, <1>2, BoundsAssumption DEF MemoCall, Begin, Fails, Ends, Op, ProcTypes, FileTypes, Opening, Calling
<1>5. HistoryTypes'
  BY <1>1, <1>2, BoundsAssumption DEF MemoCall, Begin, Fails, Ends, Op, HistoryTypes
<1>6. Lock' /\ Creating'
  BY <1>1, <1>2, BoundsAssumption DEF MemoCall, Begin, Fails, Ends, Op, Lock, Creating, FileTypes, ProcTypes, Opening, Calling
<1>7. Called'
  BY <1>1, <1>2, BoundsAssumption DEF MemoCall, Begin, Fails, Ends, Op, Called, ProcTypes, Calling
<1> QED BY <1>3, <1>4, <1>5, <1>6, <1>7

LEMMA TypesLookup ==
  ASSUME TypesInv, NEW p \in Procs, Lookup(p)
  PROVE  TypesInv'
<1> USE DEF TypesInv, Types, fileVars, procVars, countVars, historyVars, Goto
<1>1. NoOp \in Ops /\ NoOp.kind = "none"
  BY NamesTyped DEF NoOp, Op
<1>2. FileTypes' /\ CountTypes'
  BY <1>1 DEF Lookup, Raises, Ends, FileTypes, CountTypes
<1>3. ProcTypes'
  BY <1>1 DEF Lookup, Raises, Ends, ProcTypes, FileTypes, Opening, Calling
<1>4. HistoryTypes'
  BY <1>1 DEF Lookup, Raises, Ends, HistoryTypes
<1>5. Lock' /\ Creating'
  BY <1>1 DEF Lookup, Raises, Ends, Lock, Creating, FileTypes, ProcTypes, Opening, Calling
<1>6. Called'
  BY <1>1 DEF Lookup, Raises, Ends, Called, ProcTypes, Calling
<1> QED BY <1>2, <1>3, <1>4, <1>5, <1>6

LEMMA TypesDrop ==
  ASSUME TypesInv, NEW p \in Procs, Drop(p)
  PROVE  TypesInv'
<1> USE DEF TypesInv, Types, fileVars, procVars, countVars, historyVars, Goto
<1>1. FileTypes' /\ CountTypes'
  BY NamesTyped DEF Drop, FileTypes, CountTypes
<1>2. ProcTypes'
  BY NamesTyped DEF Drop, ProcTypes, FileTypes, Opening, Calling
<1>3. HistoryTypes'
  BY NamesTyped DEF Drop, HistoryTypes
<1>4. Lock' /\ Creating'
  BY NamesTyped DEF Drop, Lock, Creating, FileTypes, ProcTypes, Opening, Calling
<1>5. Called'
  BY NamesTyped DEF Drop, Called, ProcTypes, Calling
<1> QED BY <1>1, <1>2, <1>3, <1>4, <1>5

LEMMA TypesKilled ==
  ASSUME TypesInv, NEW p \in Procs, Killed(p)
  PROVE  TypesInv'
<1> USE DEF TypesInv, Types, fileVars, procVars, countVars, historyVars, Goto
<1>1. FileTypes' /\ CountTypes'
  BY NamesTyped, BoundsAssumption, NamesAssumption DEF Killed, FileTypes, CountTypes
<1>2. ProcTypes'
  BY NamesTyped, BoundsAssumption, NamesAssumption DEF Killed, ProcTypes, FileTypes, Opening, Calling
<1>3. HistoryTypes'
  BY NamesTyped, BoundsAssumption, NamesAssumption DEF Killed, HistoryTypes
<1>4. Lock' /\ Creating'
  BY NamesTyped, BoundsAssumption, NamesAssumption DEF Killed, Lock, Creating, FileTypes, ProcTypes, Opening, Calling
<1>5. Called'
  BY NamesTyped, BoundsAssumption, NamesAssumption DEF Killed, Called, ProcTypes, Calling
<1> QED BY <1>1, <1>2, <1>3, <1>4, <1>5

LEMMA TypesLocked ==
  ASSUME TypesInv, NEW p \in Procs, Locked(p)
  PROVE  TypesInv'
<1> USE DEF TypesInv, Types, fileVars, procVars, countVars, historyVars, Goto
<1>1. NoOp \in Ops /\ NoOp.kind = "none"
  BY NamesTyped DEF NoOp, Op
<1>2. FileTypes' /\ CountTypes'
  BY <1>1, NamesAssumption DEF Locked, Raises, Ends, FileTypes, CountTypes
<1>3. ProcTypes'
  BY <1>1, NamesAssumption DEF Locked, Raises, Ends, ProcTypes, FileTypes, Opening, Calling
<1>4. HistoryTypes'
  BY <1>1, NamesAssumption DEF Locked, Raises, Ends, HistoryTypes
<1>5. Lock' /\ Creating'
  BY <1>1, NamesAssumption DEF Locked, Raises, Ends, Lock, Creating, FileTypes, ProcTypes, Opening, Calling
<1>6. Called'
  BY <1>1, NamesAssumption DEF Locked, Raises, Ends, Called, ProcTypes, Calling
<1> QED BY <1>2, <1>3, <1>4, <1>5, <1>6

LEMMA TypesCompute ==
  ASSUME TypesInv, NEW p \in Procs, Compute(p)
  PROVE  TypesInv'
<1> USE DEF TypesInv, Types, fileVars, procVars, countVars, historyVars, Goto
<1>1. NoOp \in Ops /\ NoOp.kind = "none"
  BY NamesTyped DEF NoOp, Op
<1>2. op[p].kind = "memo" /\ op[p].call \in DOMAIN KeyOf /\ op[p].key = KeyOf[op[p].call]
  BY DEF Compute, Called
<1>3. op[p].key \in Keys /\ op[p].call \in Forms
  BY <1>2, NamesTyped
<1>4. ASSUME NEW v \in Values \ Unserializable, op[p].call \in DOMAIN Given,
             op' = [op EXCEPT ![p] = Op("memo", Memo, op[p].key, Only(op[p].key, v),
                                        op[p].call, Given[op[p].call])]
      PROVE  /\ op' \in [Procs -> Ops]
             /\ op'[p].kind = "memo" /\ op'[p].table = Memo
             /\ op'[p].call = op[p].call /\ op'[p].key = op[p].key
             /\ op'[p].writes = Only(op[p].key, v) /\ op'[p].got = Given[op[p].call]
             /\ \A q \in Procs \ {p} : op'[q] = op[q]
  <2>1. Only(op[p].key, v) \in Writes /\ Given[op[p].call] \in Gots
    BY <1>3, <1>4, OnlyTyped DEF Gots
  <2>2. Op("memo", Memo, op[p].key, Only(op[p].key, v), op[p].call, Given[op[p].call]) \in Ops
    BY <1>3, <2>1, NamesTyped DEF Op, Ops
  <2> QED BY <1>4, <2>2 DEF Op, ProcTypes
<1>5. FileTypes' /\ CountTypes'
  BY <1>1, <1>2, <1>3, <1>4 DEF Compute, Raises, Ends, FileTypes, CountTypes
<1>6. ProcTypes'
  BY <1>1, <1>2, <1>3, <1>4 DEF Compute, Raises, Ends, ProcTypes, FileTypes, Opening, Calling
<1>7. HistoryTypes'
  BY <1>1, <1>2, <1>3, <1>4 DEF Compute, Raises, Ends, HistoryTypes
<1>8. Lock' /\ Creating'
  BY <1>1, <1>2, <1>3, <1>4 DEF Compute, Raises, Ends, Lock, Creating, FileTypes, ProcTypes, Opening, Calling
<1>9. Called'
  BY <1>1, <1>2, <1>3, <1>4 DEF Compute, Raises, Ends, Called, ProcTypes, Calling
<1> QED BY <1>5, <1>6, <1>7, <1>8, <1>9

LEMMA TypesRecall ==
  ASSUME TypesInv, NEW p \in Procs, Recall(p)
  PROVE  TypesInv'
<1> USE DEF TypesInv, Types, fileVars, procVars, countVars, historyVars, Goto
<1>1. NoOp \in Ops /\ NoOp.kind = "none"
  BY NamesTyped DEF NoOp, Op
<1>2. op[p].kind = "memo" /\ op[p].call \in DOMAIN KeyOf /\ op[p].key = KeyOf[op[p].call]
  BY DEF Recall, Called
<1>3. op[p].key \in Keys /\ op[p].call \in Forms
  BY <1>2, NamesTyped
<1>4. Op("memo", Memo, op[p].key, NoWrites, op[p].call, origin[op[p].key]) \in Ops
  BY <1>3, NamesTyped DEF Op, Ops, HistoryTypes
<1>5. LET o == Op("memo", Memo, op[p].key, NoWrites, op[p].call, origin[op[p].key]) IN
       o.kind = "memo" /\ o.table = Memo /\ o.call = op[p].call /\ o.key = op[p].key
  BY DEF Op
<1>6. FileTypes' /\ CountTypes'
  BY <1>1, <1>2, <1>3, <1>4, <1>5 DEF Recall, Raises, Ends, FileTypes, CountTypes
<1>7. ProcTypes'
  BY <1>1, <1>2, <1>3, <1>4, <1>5 DEF Recall, Raises, Ends, ProcTypes, FileTypes, Opening, Calling
<1>8. HistoryTypes'
  BY <1>1, <1>2, <1>3, <1>4, <1>5 DEF Recall, Raises, Ends, HistoryTypes
<1>9. Lock' /\ Creating'
  BY <1>1, <1>2, <1>3, <1>4, <1>5 DEF Recall, Raises, Ends, Lock, Creating, FileTypes, ProcTypes, Opening, Calling
<1>10. Called'
  BY <1>1, <1>2, <1>3, <1>4, <1>5 DEF Recall, Raises, Ends, Called, ProcTypes, Calling
<1> QED BY <1>6, <1>7, <1>8, <1>9, <1>10

LEMMA TypesCommit ==
  ASSUME TypesInv, NEW p \in Procs, Commit(p)
  PROVE  TypesInv'
<1> USE DEF TypesInv, Types, fileVars, procVars, countVars, historyVars, Goto
<1>1. op[p] \in Ops /\ op[p].table \in Tables /\ op[p].writes \in Writes /\ op[p].got \in Gots
  BY DEF ProcTypes, Ops
<1>2. DOMAIN op[p].writes \in SUBSET Keys /\ Over(rows[op[p].table], op[p].writes) \in Rows
  BY <1>1, OverTyped DEF FileTypes
<1>3. FileTypes'
  BY <1>1, <1>2 DEF Commit, FileTypes
<1>4. cursor' \in [Procs -> Cursors]
  BY <1>1, <1>2, RevisedTyped DEF Commit, ProcTypes
<1>5. origin' \in [Keys -> Gots]
  BY <1>1 DEF Commit, Originates, HistoryTypes
<1>6. delivered' \in SUBSET Keys /\ sure' \in SUBSET Procs
  <2>1. op[p].kind = "memo" => op[p].key \in Keys
    BY NamesTyped DEF Called
  <2> QED BY <2>1 DEF Commit, Redelivered, HistoryTypes
<1>7. FileTypes' /\ CountTypes'
  BY <1>1, <1>2, <1>3, <1>4, <1>5, <1>6, NamesAssumption DEF Commit, Ends, FileTypes, CountTypes
<1>8. ProcTypes'
  BY <1>1, <1>2, <1>3, <1>4, <1>5, <1>6, NamesAssumption DEF Commit, Ends, ProcTypes, FileTypes, Opening, Calling
<1>9. HistoryTypes'
  BY <1>1, <1>2, <1>3, <1>4, <1>5, <1>6, NamesAssumption DEF Commit, Ends, HistoryTypes
<1>10. Lock' /\ Creating'
  BY <1>1, <1>2, <1>3, <1>4, <1>5, <1>6, NamesAssumption DEF Commit, Ends, Lock, Creating, FileTypes, ProcTypes, Opening, Calling
<1>11. Called'
  BY <1>1, <1>2, <1>3, <1>4, <1>5, <1>6, NamesAssumption DEF Commit, Ends, Called, ProcTypes, Calling
<1> QED BY <1>7, <1>8, <1>9, <1>10, <1>11

LEMMA TypesIterate ==
  ASSUME TypesInv, NEW p \in Procs, NEW t \in Tables, Iterate(p, t)
  PROVE  TypesInv'
<1> USE DEF TypesInv, Types, fileVars, procVars, countVars, historyVars, Goto
<1>1. Cursor(Held(rows[t]) # {}, t, rows[t], Held(rows[t]), {}, FALSE) \in Cursors
  BY DEF Cursor, Cursors, Held, FileTypes
<1>2. FileTypes' /\ CountTypes'
  BY <1>1, BoundsAssumption DEF Iterate, FileTypes, CountTypes
<1>3. ProcTypes'
  BY <1>1, BoundsAssumption DEF Iterate, Held, ProcTypes, FileTypes, Opening, Calling
<1>4. HistoryTypes'
  BY <1>1, BoundsAssumption DEF Iterate, HistoryTypes
<1>5. Lock' /\ Creating'
  BY <1>1, BoundsAssumption DEF Iterate, Lock, Creating, FileTypes, ProcTypes, Opening, Calling
<1>6. Called'
  BY <1>1, BoundsAssumption DEF Iterate, Called, ProcTypes, Calling
<1> QED BY <1>2, <1>3, <1>4, <1>5, <1>6

LEMMA TypesStep ==
  ASSUME TypesInv, NEW p \in Procs, Step(p)
  PROVE  TypesInv'
<1> USE DEF TypesInv, Types, fileVars, procVars, countVars, historyVars, Goto
<1>1. cursor' \in [Procs -> Cursors]
  <2> DEFINE c == cursor[p]
  <2>1. c \in Cursors /\ rows[c.table] \in Rows
    BY DEF ProcTypes, Cursors, FileTypes
  <2>2. \A l \in SUBSET Keys, n \in SUBSET (Keys \X Values) :
         Cursor(l # {}, c.table, c.start, l, n, c.wrote) \in Cursors
    BY <2>1 DEF Cursor, Cursors
  <2>3. CASE c.left = {} /\ cursor' = [cursor EXCEPT ![p] = Cursor({} # {}, c.table, c.start, {}, c.seen, c.wrote)]
    <3>1. {} \in SUBSET Keys /\ c.seen \in SUBSET (Keys \X Values)
      BY <2>1 DEF Cursors
    <3>2. Cursor({} # {}, c.table, c.start, {}, c.seen, c.wrote) \in Cursors
      BY <2>2, <3>1
    <3> HIDE DEF c
    <3> QED BY <2>3, <3>2 DEF ProcTypes
  <2>4. ASSUME NEW k \in c.left, NEW n, n \in {{}, {<<k, rows[c.table][k]>>}},
               rows[c.table][k] = Absent => n = {},
               cursor' = [cursor EXCEPT ![p] =
                 Cursor(c.left \ {k} # {}, c.table, c.start, c.left \ {k}, c.seen \cup n, c.wrote)]
        PROVE  cursor' \in [Procs -> Cursors]
    <3>1. n \in SUBSET (Keys \X Values) /\ c.left \ {k} \in SUBSET Keys /\ c.seen \in SUBSET (Keys \X Values)
      BY <2>1, <2>4 DEF Cursors, Rows
    <3> QED BY <2>2, <2>4, <3>1 DEF ProcTypes
  <2> QED BY <2>3, <2>4 DEF Step
<1>2. FileTypes' /\ CountTypes'
  BY <1>1 DEF Step, FileTypes, CountTypes
<1>3. ProcTypes'
  BY <1>1 DEF Step, ProcTypes, FileTypes, Opening, Calling
<1>4. HistoryTypes'
  BY <1>1 DEF Step, HistoryTypes
<1>5. Lock' /\ Creating'
  BY <1>1 DEF Step, Lock, Creating, FileTypes, ProcTypes, Opening, Calling
<1>6. Called'
  BY <1>1 DEF Step, Called, ProcTypes, Calling
<1> QED BY <1>2, <1>3, <1>4, <1>5, <1>6

LEMMA TypesNext == TypesInv /\ [Next]_vars => TypesInv'
<1>1. ASSUME TypesInv, NEW p \in Procs, Steps(p)
      PROVE  TypesInv'
  BY <1>1, TypesStart, TypesConnect, TypesCreate, TypesTouch, TypesWrite, TypesDml, TypesPend,
     TypesCommit, TypesMemoCall, TypesLookup, TypesCompute, TypesRecall, TypesLocked,
     TypesIterate, TypesStep, TypesDrop, TypesKilled DEF Steps
<1>2. ASSUME TypesInv, UNCHANGED vars
      PROVE  TypesInv'
  BY <1>2 DEF TypesInv, Types, FileTypes, ProcTypes, CountTypes, HistoryTypes, Lock, Creating,
              Called, vars, fileVars, procVars, countVars, historyVars
<1> QED BY <1>1, <1>2, NextSteps

-----------------------------------------------------------------------------
(* Writes *)

LEMMA WholeInit == Init => WholeInv
  BY NamesTyped DEF Init, WholeInv, WritesAreWhole, Calling, NoOp, Op

LEMMA WholeStep ==
  ASSUME TypesInv, WholeInv, NEW p \in Procs, Steps(p)
  PROVE  WholeInv'
<1> USE DEF fileVars, procVars, countVars, historyVars, Goto
<1>1. /\ landed \in [Procs -> SUBSET Keys] /\ op \in [Procs -> Ops]
      /\ pc \in [Procs -> {"off", "ready"} \cup Opening \cup Calling]
      /\ outcome \in [Procs -> {"none", "returned", "raised"}]
  BY DEF TypesInv, Types, ProcTypes, HistoryTypes
<1>2. DOMAIN NoOp.writes = {} /\ DOMAIN NoWrites = {}
  BY NamesTyped DEF NoOp, Op
(* Outside of calls *)
<1>3. CASE /\ UNCHANGED <<landed, outcome, op>>
           /\ \E s : pc' = [pc EXCEPT ![p] = s] /\ s \notin Calling
  BY <1>1, <1>3 DEF WholeInv, WritesAreWhole
<1>4. CASE \E s : /\ pc' = [pc EXCEPT ![p] = s] /\ pc[p] \in Calling
                  /\ UNCHANGED <<landed, outcome, op>>
  BY <1>1, <1>4 DEF WholeInv, WritesAreWhole
(* Where a call begins *)
<1>5. ASSUME NEW o, NEW s, NEW how, Begin(p, o, s), how = "none" \/ (o = NoOp /\ s = "ready"),
             outcome' = [outcome EXCEPT ![p] = how]
      PROVE  WholeInv'
  BY <1>1, <1>2, <1>5 DEF Begin, Calling, Goto, WholeInv, WritesAreWhole
(* Where it raises *)
<1>6. CASE Raises(p) /\ pc[p] \in Calling /\ UNCHANGED landed
  BY <1>1, <1>2, <1>6 DEF Raises, Ends, WholeInv, WritesAreWhole, Calling
<1>7. CASE Start(p) \/ Connect(p) \/ Touch(p)
  BY <1>3, <1>7 DEF Start, Connect, Touch, Calling
<1>8. CASE Create(p)
  <2>1. \E s \in {"off", "creating", "ready", "touching"} : pc' = [pc EXCEPT ![p] = s]
    BY <1>8 DEF Create, Created
  <2>2. UNCHANGED <<landed, outcome, op>>
    BY <1>8 DEF Create, Created
  <2> QED BY <1>3, <2>1, <2>2 DEF Calling
<1>9. CASE Drop(p) \/ Killed(p) \/ Step(p) \/ \E t \in Tables : Iterate(p, t)
  BY <1>1, <1>3, <1>9 DEF Drop, Killed, Step, Iterate, Calling, WholeInv, WritesAreWhole
<1>10. ASSUME NEW t \in Tables, NEW w \in Writes, Write(p, t, w)
       PROVE  WholeInv'
  BY <1>5, <1>10 DEF Write, Fails
<1>11. ASSUME NEW c \in Forms, MemoCall(p, c)
       PROVE  WholeInv'
  BY <1>5, <1>11 DEF MemoCall, Fails
<1>12. CASE Dml(p)
  BY <1>4, <1>6, <1>12 DEF Dml, Calling
<1>13. CASE Pend(p)
  BY <1>4, <1>13 DEF Pend, Calling
<1>14. CASE Lookup(p)
  BY <1>4, <1>6, <1>14 DEF Lookup, Calling
<1>15. CASE Locked(p)
  BY <1>3, <1>6, <1>15 DEF Locked, Calling
<1>16. CASE Compute(p)
  <2>1. CASE Raises(p)
    BY <1>6, <1>16, <2>1 DEF Compute, Calling
  <2>2. CASE ~Raises(p)
    BY <1>1, <1>16, <2>2 DEF Compute, Calling, WholeInv, WritesAreWhole
  <2> QED BY <2>1, <2>2
<1>17. CASE Recall(p)
  <2>1. CASE Raises(p)
    BY <1>6, <1>17, <2>1 DEF Recall, Calling
  <2>2. CASE ~Raises(p)
    <3>1. /\ op'[p].writes = NoWrites /\ landed[p] = {}
          /\ \A q \in Procs \ {p} : op'[q] = op[q]
      BY <1>1, <1>17, <2>2 DEF Recall, Op, Calling, WholeInv
    <3>2. pc' = [pc EXCEPT ![p] = "ready"] /\ outcome' = [outcome EXCEPT ![p] = "returned"]
          /\ UNCHANGED landed
      BY <1>17, <2>2 DEF Recall, Ends
    <3> QED BY <1>1, <1>2, <3>1, <3>2 DEF Calling, WholeInv, WritesAreWhole
  <2> QED BY <2>1, <2>2
<1>18. CASE Commit(p)
  <2>1. \A k \in DOMAIN op[p].writes : rows'[op[p].table][k] = op[p].writes[k]
    <3>1. op[p].writes \in Writes /\ op[p].table \in Tables /\ rows \in [Tables -> Rows]
      BY <1>1 DEF Ops, TypesInv, Types, FileTypes
    <3>2. DOMAIN op[p].writes \subseteq Keys
      BY <3>1 DEF Writes
    <3>3. rows'[op[p].table] = Over(rows[op[p].table], op[p].writes)
      BY <1>18, <3>1 DEF Commit
    <3> QED BY <3>2, <3>3 DEF Over
  <2>2. landed' = [landed EXCEPT ![p] = DOMAIN op[p].writes]
    BY <1>18, <2>1 DEF Commit
  <2> QED BY <1>1, <1>18, <2>2 DEF Commit, Ends, Calling, WholeInv, WritesAreWhole
<1> QED BY <1>7, <1>8, <1>9, <1>10, <1>11, <1>12, <1>13, <1>14, <1>15, <1>16, <1>17, <1>18
        DEF Steps

LEMMA WholeNext == TypesInv /\ WholeInv /\ [Next]_vars => WholeInv'
<1>1. ASSUME WholeInv, UNCHANGED vars
      PROVE  WholeInv'
  BY <1>1 DEF WholeInv, WritesAreWhole, vars, procVars, historyVars
<1> QED BY <1>1, WholeStep, NextSteps

(* Types and the lock: the process inside a transaction is the one that holds it. *)
THEOREM TypeCorrect == Spec => []TypeOK
<1>1. TypesInv /\ WholeInv => TypeOK
  <2> SUFFICES ASSUME TypesInv, WholeInv PROVE TypeOK
    OBVIOUS
  <2> USE DEF TypesInv, Types
  <2>1. /\ {file, marker} \subseteq BOOLEAN /\ tables \subseteq Tables
        /\ rows \in [Tables -> [Keys -> Values \cup {Absent}]]
        /\ writer \in Procs \cup {Nobody}
    BY DEF FileTypes, Rows
  <2>2. /\ pc \in [Procs -> {"off", "ready"} \cup Opening \cup Calling]
        /\ todo \in [Procs -> Nat \ {0}]
    BY DEF ProcTypes
  <2>3. \A p \in Procs : writer = p <=> pc[p] \in {"reserved", "pending"}
    BY DEF Lock
  <2>4. ASSUME NEW p \in Procs
        PROVE  /\ op[p].kind \in {"none", "write", "memo"}
               /\ cursor[p].left \subseteq Keys /\ cursor[p].seen \subseteq Keys \X Values
               /\ landed[p] \subseteq DOMAIN op[p].writes
    BY DEF ProcTypes, Ops, Cursors, WholeInv, WritesAreWhole
  <2>5. /\ starts \in 0..MaxStarts /\ calls \in 0..MaxCalls /\ kills \in 0..MaxKills
        /\ outcome \in [Procs -> {"none", "returned", "raised"}]
        /\ delivered \subseteq Keys /\ sure \subseteq Procs /\ DOMAIN origin = Keys
    BY DEF CountTypes, HistoryTypes
  <2> QED BY <2>1, <2>2, <2>3, <2>4, <2>5 DEF TypeOK
<1> QED BY <1>1, TypesInit, TypesNext, WholeInit, WholeNext, PTL DEF Spec

(* A write happens as a whole or not at all. *)
THEOREM WritesWholeCorrect == Spec => []WritesAreWhole
<1>1. WholeInv => WritesAreWhole
  BY DEF WholeInv
<1> QED BY <1>1, TypesInit, TypesNext, WholeInit, WholeNext, PTL DEF Spec

-----------------------------------------------------------------------------
(* Memoized calls *)

LEMMA MemoInit == Init => MemoInv
  BY DEF Init, MemoInv, NeverRecomputed

(* A commit deletes what it deletes of the delivered keys, too. *)
LEMMA MemoCommit ==
  ASSUME TypesInv, MemoInv, NEW p \in Procs, Commit(p)
  PROVE  MemoInv'
<1> DEFINE w == op[p].writes
           gone == {k \in DOMAIN w : w[k] = Absent}
<1>1. /\ rows \in [Tables -> Rows] /\ pc \in [Procs -> {"off", "ready"} \cup Opening \cup Calling]
      /\ delivered \in SUBSET Keys /\ sure \in SUBSET Procs
      /\ op[p].table \in Tables /\ Memo \in Tables
  BY NamesTyped DEF TypesInv, Types, FileTypes, ProcTypes, HistoryTypes, Ops
<1>2. pc' = [pc EXCEPT ![p] = "ready"] /\ UNCHANGED op
  BY DEF Commit, Ends, Goto
<1>3. /\ delivered' = (IF op[p].table = Memo THEN delivered \ gone ELSE delivered)
                         \cup (IF op[p].kind = "memo" THEN {op[p].key} ELSE {})
      /\ sure' = {q \in sure : ~(op[p].table = Memo /\ op[q].key \in gone)}
  BY DEF Commit, Redelivered
<1>4. \A k \in Keys : rows'[Memo][k] =
        IF op[p].table = Memo /\ k \in DOMAIN w THEN w[k] ELSE rows[Memo][k]
  BY <1>1 DEF Commit, Over, Rows
<1>5. op[p].kind = "memo" =>
        /\ op[p].table = Memo /\ op[p].key \in Keys
        /\ op[p].key \in DOMAIN w /\ w[op[p].key] # Absent
  BY NamesTyped, NamesAssumption DEF Commit, TypesInv, Called, Only
<1> HIDE DEF w, gone
<1>6. NeverRecomputed'
  BY <1>1, <1>2, <1>3 DEF MemoInv, NeverRecomputed
<1>7. ASSUME NEW k \in delivered'
      PROVE  rows'[Memo][k] # Absent
  <2>1. CASE op[p].kind = "memo" /\ k = op[p].key
    BY <1>4, <1>5, <2>1
  <2>2. CASE ~(op[p].kind = "memo" /\ k = op[p].key)
    <3>1. k \in delivered /\ (op[p].table = Memo => k \notin gone)
      BY <1>3, <1>7, <2>2
    <3>2. k \in Keys /\ rows[Memo][k] # Absent
      BY <1>1, <3>1 DEF MemoInv
    <3> QED BY <1>4, <3>1, <3>2 DEF gone
  <2> QED BY <2>1, <2>2
<1>8. ASSUME NEW q \in sure', pc'[q] = "lookup"
      PROVE  op'[q].key \in delivered'
  <2>1. q \in sure /\ pc[q] = "lookup" /\ op'[q] = op[q]
    BY <1>1, <1>2, <1>3, <1>8
  <2>2. op[q].key \in delivered /\ (op[p].table = Memo => op[q].key \notin gone)
    BY <1>3, <1>8, <2>1 DEF MemoInv
  <2> QED BY <1>3, <2>1, <2>2
<1> QED BY <1>6, <1>7, <1>8 DEF MemoInv

LEMMA MemoStep ==
  ASSUME TypesInv, MemoInv, NEW p \in Procs, Steps(p)
  PROVE  MemoInv'
<1> USE DEF fileVars, procVars, countVars, historyVars, Goto
<1>1. /\ pc \in [Procs -> {"off", "ready"} \cup Opening \cup Calling]
      /\ op \in [Procs -> Ops] /\ delivered \in SUBSET Keys /\ sure \in SUBSET Procs
  BY DEF TypesInv, Types, ProcTypes, HistoryTypes
(* Nothing is delivered, and no call begins. *)
<1>2. CASE /\ UNCHANGED <<rows, delivered>> /\ sure' \subseteq sure
           /\ \A q \in Procs \ {p} : pc'[q] = pc[q] /\ op'[q] = op[q]
           /\ pc'[p] \notin {"lookup", "compute"}
  BY <1>1, <1>2 DEF MemoInv, NeverRecomputed
<1>3. CASE Start(p) \/ Connect(p) \/ Touch(p) \/ Dml(p) \/ Pend(p) \/ Killed(p)
  BY <1>1, <1>2, <1>3 DEF Start, Connect, Touch, Dml, Pend, Killed, Raises, Ends
<1>4. CASE Create(p) \/ Locked(p)
  BY <1>1, <1>2, <1>4 DEF Create, Created, Locked, Raises, Ends
<1>5. CASE Drop(p) \/ Step(p) \/ \E t \in Tables : Iterate(p, t)
  BY <1>1, <1>5 DEF Drop, Step, Iterate, MemoInv, NeverRecomputed
<1>6. ASSUME NEW t \in Tables, NEW w \in Writes, Write(p, t, w)
      PROVE  MemoInv'
  BY <1>1, <1>2, <1>6 DEF Write, Begin, Fails
<1>7. ASSUME NEW c \in Forms, MemoCall(p, c)
      PROVE  MemoInv'
  <2>1. CASE c \notin DOMAIN KeyOf
    BY <1>1, <1>2, <1>7, <2>1 DEF MemoCall, Begin, Fails
  <2>2. CASE c \in DOMAIN KeyOf
    BY <1>1, <1>7, <2>2 DEF MemoCall, Begin, Op, MemoInv, NeverRecomputed
  <2> QED BY <2>1, <2>2
<1>8. CASE Lookup(p)
  <2>1. p \in sure => rows[Memo][op[p].key] # Absent
    BY <1>8 DEF Lookup, MemoInv
  <2> QED BY <1>1, <1>2, <1>8, <2>1 DEF Lookup, Raises, Ends, MemoInv, NeverRecomputed
<1>9. CASE Compute(p)
  BY <1>1, <1>2, <1>9 DEF Compute, Raises, Ends
<1>10. CASE Recall(p)
  BY <1>1, <1>2, <1>10 DEF Recall, Raises, Ends, MemoInv, NeverRecomputed
<1> QED BY <1>3, <1>4, <1>5, <1>6, <1>7, <1>8, <1>9, <1>10, MemoCommit DEF Steps

LEMMA MemoNext == TypesInv /\ MemoInv /\ [Next]_vars => MemoInv'
<1>1. ASSUME MemoInv, UNCHANGED vars
      PROVE  MemoInv'
  BY <1>1 DEF MemoInv, NeverRecomputed, vars, fileVars, procVars, historyVars
<1> QED BY <1>1, MemoStep, NextSteps

(* No call computes what an earlier one has returned for its key. *)
THEOREM NeverRecomputedCorrect == Spec => []NeverRecomputed
<1>1. MemoInv => NeverRecomputed
  BY DEF MemoInv
<1> QED BY <1>1, TypesInit, TypesNext, MemoInit, MemoNext, PTL DEF Spec

-----------------------------------------------------------------------------
(* What the rows of cache_fn were computed for *)

LEMMA OriginInit == Init => OriginInv
  BY DEF Init, OriginInv, NoOp, Op

LEMMA OriginStep ==
  ASSUME TypesInv, OriginInv, NEW p \in Procs, Steps(p)
  PROVE  OriginInv'
<1> USE DEF fileVars, procVars, countVars, historyVars, Goto
<1>1. op \in [Procs -> Ops] /\ origin \in [Keys -> Gots]
  BY DEF TypesInv, Types, ProcTypes, HistoryTypes
<1>2. NoOp.kind = "none"
  BY DEF NoOp, Op
(* No call gets an answer. *)
<1>3. CASE UNCHANGED <<op, origin>>
  BY <1>3 DEF OriginInv
<1>4. ASSUME NEW o, op' = [op EXCEPT ![p] = o], UNCHANGED origin,
             o.kind # "memo" \/ o.got = Absent \/ GivenUnder(o.key, o.got)
      PROVE  OriginInv'
  BY <1>1, <1>4 DEF OriginInv
<1>5. CASE Raises(p) /\ UNCHANGED origin
  BY <1>2, <1>4, <1>5 DEF Raises
<1>6. CASE Start(p) \/ Connect(p) \/ Create(p) \/ Touch(p) \/ Pend(p) \/ Killed(p)
  BY <1>3, <1>6 DEF Start, Connect, Create, Touch, Pend, Killed
<1>7. CASE Drop(p) \/ Step(p) \/ \E t \in Tables : Iterate(p, t)
  BY <1>3, <1>7 DEF Drop, Step, Iterate
<1>8. CASE Dml(p) \/ Lookup(p) \/ Locked(p)
  BY <1>3, <1>5, <1>8 DEF Dml, Lookup, Locked
<1>9. ASSUME NEW t \in Tables, NEW w \in Writes, Write(p, t, w)
      PROVE  OriginInv'
  BY <1>2, <1>4, <1>9 DEF Write, Begin, Fails, Op
<1>10. ASSUME NEW c \in Forms, MemoCall(p, c)
       PROVE  OriginInv'
  BY <1>2, <1>4, <1>10 DEF MemoCall, Begin, Fails, Op
<1>11. CASE Compute(p)
  <2>1. op[p].call \in DOMAIN KeyOf /\ op[p].key = KeyOf[op[p].call]
    BY <1>11 DEF Compute, TypesInv, Called
  <2>2. op[p].call \in DOMAIN Given => GivenUnder(op[p].key, Given[op[p].call])
    BY <2>1 DEF GivenUnder
  <2>3. \/ Raises(p)
        \/ \E v \in Values : LET o == Op("memo", Memo, op[p].key, Only(op[p].key, v),
                                         op[p].call, Given[op[p].call])
             IN op[p].call \in DOMAIN Given /\ op' = [op EXCEPT ![p] = o]
    BY <1>11 DEF Compute
  <2>4. UNCHANGED origin
    BY <1>11 DEF Compute
  <2>5. ASSUME NEW v, op[p].call \in DOMAIN Given,
               op' = [op EXCEPT ![p] = Op("memo", Memo, op[p].key, Only(op[p].key, v),
                                          op[p].call, Given[op[p].call])]
        PROVE  OriginInv'
    BY <1>4, <2>2, <2>4, <2>5 DEF Op
  <2> QED BY <1>5, <2>3, <2>4, <2>5
<1>12. CASE Recall(p)
  <2>1. op[p].key \in Keys
    BY <1>12, NamesTyped DEF Recall, TypesInv, Called
  <2>2. origin[op[p].key] # Absent => GivenUnder(op[p].key, origin[op[p].key])
    BY <2>1 DEF OriginInv
  <2> QED BY <1>4, <1>5, <1>12, <2>2 DEF Recall, Op
<1>13. CASE Commit(p)
  <2>1. op[p].kind = "memo" =>
          /\ DOMAIN op[p].writes = {op[p].key}
          /\ GivenUnder(op[p].key, op[p].got)
    BY <1>13 DEF Commit, TypesInv, Called, Only, GivenUnder
  <2>2. op[p].kind # "memo" => op[p].got = Absent
    BY <1>1, <1>13 DEF Commit, TypesInv, Called, Calling, Ops
  <2>3. UNCHANGED op /\ origin' = [k \in Keys |->
          IF op[p].table = Memo /\ k \in DOMAIN op[p].writes THEN op[p].got ELSE origin[k]]
    BY <1>13 DEF Commit, Originates
  <2>4. ASSUME NEW k \in Keys, origin'[k] # Absent
        PROVE  GivenUnder(k, origin'[k])
    BY <2>1, <2>2, <2>3, <2>4 DEF OriginInv
  <2> QED BY <2>3, <2>4 DEF OriginInv
<1> QED BY <1>6, <1>7, <1>8, <1>9, <1>10, <1>11, <1>12, <1>13 DEF Steps

LEMMA OriginNext == TypesInv /\ OriginInv /\ [Next]_vars => OriginInv'
<1>1. ASSUME OriginInv, UNCHANGED vars
      PROVE  OriginInv'
  BY <1>1 DEF OriginInv, vars, procVars, historyVars
<1> QED BY <1>1, OriginStep, NextSteps

(* The function's signature lists a parameter once, its decorator names only    *)
(* parameters, and no caller gives a keyword twice.                             *)
PlainFunction ==
  /\ IsFunction(Fn) /\ Elements(Fn.cache_args) \subseteq Params(Fn)
  /\ \A c \in Forms : IsCall(c)

(* Calls with one key have the same selected arguments. *)
LEMMA GivenSelected ==
  ASSUME PlainFunction,
         NEW c \in DOMAIN KeyOf, c \in DOMAIN Given,
         NEW d \in DOMAIN KeyOf, d \in DOMAIN Given, KeyOf[c] = KeyOf[d]
  PROVE  Selected(Fn, Given[c]) = Selected(Fn, Given[d])
<1>1. /\ c \in Forms /\ d \in Forms /\ ~KeyRaises(Fn, c)
      /\ KeyOf[c] = DefaultKey(Fn, c) /\ KeyOf[d] = DefaultKey(Fn, d)
  BY DEF KeyOf
<1>2. /\ Accepts(Fn, c) /\ Given[c] = Arguments(Fn, c)
      /\ Accepts(Fn, d) /\ Given[d] = Arguments(Fn, d)
  BY DEF Given
<1>3. IsFunction(Fn) /\ IsCall(c) /\ IsCall(d)
  BY <1>1 DEF PlainFunction
<1>4. Binds(Fn, c, Given[c]) /\ Binds(Fn, d, Given[d])
  BY <1>2, <1>3, ArgumentsBind
<1>5. KeyNames(Fn) \subseteq Params(Fn)
  BY <1>1 DEF KeyRaises
<1>6. \A n \in KeyNames(Fn) : Given[c][n] = Given[d][n]
  <2>1. DefaultKey(Fn, c) = DefaultKey(Fn, d)
    BY <1>1
  <2>2. PICK g, h : g = Given[c] /\ h = Given[d]
    OBVIOUS
  <2>3. Binds(Fn, c, g) /\ Binds(Fn, d, h)
    BY <1>4, <2>2
  <2>4. DefaultKey(Fn, c) = [n \in KeyNames(Fn) |-> g[n]]
    BY <1>2, <1>3, <1>5, <2>3, KeyIsSelection
  <2>5. DefaultKey(Fn, d) = [n \in KeyNames(Fn) |-> h[n]]
    BY <1>2, <1>3, <1>5, <2>3, KeyIsSelection
  <2>6. ASSUME NEW n \in KeyNames(Fn)
        PROVE  g[n] = h[n]
    <3>1. [m \in KeyNames(Fn) |-> g[m]][n] = [m \in KeyNames(Fn) |-> h[m]][n]
      BY <2>1, <2>4, <2>5
    <3> QED BY <3>1
  <2> QED BY <2>2, <2>6
<1>7. Elements(Fn.cache_args) \subseteq KeyNames(Fn)
  BY DEF KeyNames, PlainFunction
<1> QED BY <1>6, <1>7 DEF Selected

(* Whatever forms calls are written in, one the function takes gets a value computed *)
(* for its own selected arguments.                                                   *)
THEOREM AnswersOwnCallCorrect ==
  ASSUME PlainFunction
  PROVE  Spec => []AnswersOwnCall
<1>1. TypesInv /\ OriginInv => AnswersOwnCall
  <2> SUFFICES ASSUME TypesInv, OriginInv, NEW p \in Procs,
                      op[p].kind = "memo", op[p].got # Absent, op[p].call \in DOMAIN Given
               PROVE  Selected(Fn, op[p].got) = Selected(Fn, Given[op[p].call])
    BY DEF AnswersOwnCall
  <2>1. op[p].call \in DOMAIN KeyOf /\ op[p].key = KeyOf[op[p].call]
    BY DEF TypesInv, Called
  <2>2. PICK c \in DOMAIN KeyOf : /\ c \in DOMAIN Given
                                  /\ KeyOf[c] = op[p].key /\ Given[c] = op[p].got
    BY DEF OriginInv, GivenUnder
  <2> QED BY <2>1, <2>2, GivenSelected
<1> QED BY <1>1, TypesInit, TypesNext, OriginInit, OriginNext, PTL DEF Spec

-----------------------------------------------------------------------------
(* Iterators *)

LEMMA IteratorsInit == Init => IteratorInv
  BY DEF Init, IteratorInv, IteratorsSeeOneState, NoCursor, Cursor

(* A commit waits for the iterators of other processes, and marks its own. *)
LEMMA IteratorsCommit ==
  ASSUME TypesInv, IteratorInv, NEW p \in Procs, Commit(p)
  PROVE  IteratorInv'
<1>1. /\ rows \in [Tables -> Rows] /\ cursor \in [Procs -> Cursors]
      /\ op[p].table \in Tables /\ op[p].writes \in Writes
  BY DEF TypesInv, Types, FileTypes, ProcTypes, Ops
<1>2. ASSUME NEW q \in Procs, ~cursor'[q].wrote
      PROVE  /\ cursor'[q] = cursor[q]
             /\ cursor[q].open => rows'[cursor[q].table] = rows[cursor[q].table]
  <2>1. CASE q # p
    <3>1. ~cursor[q].open
      BY <2>1 DEF Commit, OthersRead, Reading
    <3> QED BY <1>1, <2>1, <3>1 DEF Commit
  <2>2. CASE q = p
    <3>1. Over(rows[op[p].table], op[p].writes) \in Rows
      BY <1>1, OverTyped
    <3>2. cursor'[p] \in Revised(cursor[p], op[p].table, Over(rows[op[p].table], op[p].writes))
      BY <1>1 DEF Commit
    <3>3. cursor'[p] = cursor[p] /\ ~(cursor[p].open /\ cursor[p].table = op[p].table)
      BY <1>1, <1>2, <2>2, <3>1, <3>2, RevisedTyped
    <3> QED BY <1>1, <2>2, <3>3 DEF Commit
  <2> QED BY <2>1, <2>2
<1> QED BY <1>2 DEF IteratorInv, IteratorsSeeOneState

LEMMA IteratorsStep ==
  ASSUME TypesInv, IteratorInv, NEW p \in Procs, Steps(p)
  PROVE  IteratorInv'
<1> USE DEF fileVars, procVars, countVars, historyVars
<1>1. rows \in [Tables -> Rows] /\ cursor \in [Procs -> Cursors]
  BY DEF TypesInv, Types, FileTypes, ProcTypes
<1>2. CASE UNCHANGED <<rows, cursor>>
  BY <1>2 DEF IteratorInv, IteratorsSeeOneState
(* An iterator of p that shows one state *)
<1>3. ASSUME NEW c, UNCHANGED rows, cursor' = [cursor EXCEPT ![p] = c],
             ~c.wrote => /\ c.seen \cup {<<k, c.start[k]>> : k \in c.left}
                               = {<<k, c.start[k]>> : k \in Held(c.start)}
                         /\ c.left \subseteq Held(c.start)
                         /\ c.open => c.start = rows[c.table]
      PROVE  IteratorInv'
  BY <1>1, <1>3 DEF IteratorInv, IteratorsSeeOneState, Held
<1>4. CASE Start(p) \/ Connect(p) \/ Create(p) \/ Touch(p) \/ Dml(p) \/ Pend(p)
  BY <1>2, <1>4 DEF Start, Connect, Create, Touch, Dml, Pend
<1>5. CASE \/ \E t \in Tables, w \in Writes : Write(p, t, w)
           \/ \E c \in Forms : MemoCall(p, c)
  BY <1>2, <1>5 DEF Write, MemoCall
<1>6. CASE Lookup(p) \/ Compute(p) \/ Recall(p) \/ Locked(p)
  BY <1>2, <1>6 DEF Lookup, Compute, Recall, Locked
<1>7. CASE Drop(p) \/ Killed(p)
  <2>1. PICK c : c = NoCursor
    OBVIOUS
  <2>2. c.left = {} /\ c.seen = {} /\ ~c.open /\ Held(c.start) = {}
    BY <2>1 DEF NoCursor, Cursor, Held
  <2>3. UNCHANGED rows /\ cursor' = [cursor EXCEPT ![p] = c]
    BY <1>7, <2>1 DEF Drop, Killed
  <2> QED BY <1>3, <2>2, <2>3
<1>8. ASSUME NEW t \in Tables, Iterate(p, t)
      PROVE  IteratorInv'
  <2>1. PICK c : c = Cursor(Held(rows[t]) # {}, t, rows[t], Held(rows[t]), {}, FALSE)
    OBVIOUS
  <2>2. /\ c.table = t /\ c.start = rows[t] /\ c.left = Held(c.start) /\ c.seen = {}
    BY <2>1 DEF Cursor
  <2>3. UNCHANGED rows /\ cursor' = [cursor EXCEPT ![p] = c]
    BY <1>8, <2>1 DEF Iterate, Held
  <2> QED BY <1>3, <2>2, <2>3
<1>9. CASE Step(p)
  <2> DEFINE c == cursor[p]
  <2>1. c \in Cursors /\ c.open
    BY <1>1, <1>9 DEF Step
  <2>2. ~c.wrote => /\ c.seen \cup {<<k, c.start[k]>> : k \in c.left}
                          = {<<k, c.start[k]>> : k \in Held(c.start)}
                    /\ c.left \subseteq Held(c.start) /\ c.start = rows[c.table]
    BY <2>1 DEF IteratorInv, IteratorsSeeOneState, Held
  <2>3. UNCHANGED rows
    BY <1>9 DEF Step
  <2>4. CASE /\ c.left = {}
             /\ cursor' = [cursor EXCEPT ![p] = Cursor({} # {}, c.table, c.start, {}, c.seen, c.wrote)]
    BY <1>3, <2>2, <2>3, <2>4 DEF Cursor
  <2>5. ASSUME NEW k \in c.left, NEW n,
               n = IF rows[c.table][k] = Absent THEN {} ELSE {<<k, rows[c.table][k]>>},
               cursor' = [cursor EXCEPT ![p] =
                 Cursor(c.left \ {k} # {}, c.table, c.start, c.left \ {k}, c.seen \cup n, c.wrote)]
        PROVE  IteratorInv'
    <3>1. ~c.wrote => n = {<<k, c.start[k]>>}
      BY <2>2, <2>5 DEF Held
    <3>2. {<<x, c.start[x]>> : x \in c.left}
            = {<<x, c.start[x]>> : x \in c.left \ {k}} \cup {<<k, c.start[k]>>}
      BY <2>5
    <3> QED BY <1>3, <2>2, <2>3, <2>5, <3>1, <3>2 DEF Cursor
  <2> QED BY <1>9, <2>4, <2>5 DEF Step
<1> QED BY <1>4, <1>5, <1>6, <1>7, <1>8, <1>9, IteratorsCommit DEF Steps

LEMMA IteratorsNext == TypesInv /\ IteratorInv /\ [Next]_vars => IteratorInv'
<1>1. ASSUME IteratorInv, UNCHANGED vars
      PROVE  IteratorInv'
  BY <1>1 DEF IteratorInv, IteratorsSeeOneState, vars, fileVars, procVars
<1> QED BY <1>1, IteratorsStep, NextSteps

(* An iterator runs through one state of its table. *)
THEOREM IteratorsCorrect == Spec => []IteratorsSeeOneState
<1>1. IteratorInv => IteratorsSeeOneState
  BY DEF IteratorInv
<1> QED BY <1>1, TypesInit, TypesNext, IteratorsInit, IteratorsNext, PTL DEF Spec

-----------------------------------------------------------------------------
(* Opening *)

LEMMA OpenedInit == Init => OpenedInv
  BY DEF Init, OpenedInv

LEMMA OpenedStep ==
  ASSUME TypesInv, OpenedInv, OpensAlike, NEW p \in Procs, Steps(p)
  PROVE  OpenedInv'
<1> USE DEF fileVars, procVars, countVars, historyVars, Goto
<1>1. pc \in [Procs -> {"off", "ready"} \cup Opening \cup Calling] /\ todo \in [Procs -> Nat \ {0}]
  BY DEF TypesInv, Types, ProcTypes
<1>2. CASE /\ UNCHANGED <<marker, tables>>
           /\ \A q \in Procs \ {p} : pc'[q] = pc[q] /\ todo'[q] = todo[q]
           /\ \/ pc'[p] \in {"off", "connect_init"}
              \/ /\ pc'[p] \notin {"connect", "creating"}
                 /\ pc[p] \notin {"off", "connect_init", "creating"}
              \/ pc'[p] = pc[p] /\ todo'[p] = todo[p]
  BY <1>1, <1>2 DEF OpenedInv, Exist
<1>3. CASE Start(p)
  BY <1>1, <1>3 DEF Start, NeedInit, OpensAlike, OpenedInv, Exist
<1>4. CASE Connect(p)
  <2>1. UNCHANGED <<marker, tables>> /\ todo'[p] = 1
    BY <1>1, <1>4 DEF Connect
  <2>2. Exist(p, 0)'
    BY DEF Exist
  <2> QED BY <1>1, <1>4, <2>1, <2>2 DEF Connect, OpenedInv, Exist
<1>5. CASE Create(p)
  <2>1. PICK n, i : n = Len(Opens[p].tables) /\ i = todo[p]
    OBVIOUS
  <2>2. i \in 1..n /\ n \in Nat /\ i \in Nat
    BY <1>1, <1>5, <2>1, OpensTyped DEF Create, TypesInv, Creating
  <2>3. Exist(p, i - 1) /\ tables \subseteq tables' /\ UNCHANGED marker
    BY <1>5, <2>1 DEF Create, OpenedInv
  <2>4. \/ pc'[p] = "off"
        \/ /\ Opens[p].tables[i] \in tables' /\ todo'[p] = i + 1
           /\ pc'[p] = IF i < n THEN "creating" ELSE "touching"
    BY <1>1, <1>5, <2>1 DEF Create, Created, OpensAlike
  <2>5. ASSUME Opens[p].tables[i] \in tables', NEW j \in 1..i
        PROVE  Opens[p].tables[j] \in tables'
    <3>1. j = i \/ j \in 1..i - 1
      BY <2>2, <2>5
    <3> QED BY <2>3, <2>5, <3>1 DEF Exist
  <2>6. \A q \in Procs \ {p} : pc'[q] = pc[q] /\ todo'[q] = todo[q]
    BY <1>1, <1>5 DEF Create, Created
  <2>7. ASSUME NEW q \in Procs, marker' \/ pc'[q] \notin {"off", "connect_init", "creating"},
               NEW j \in 1..Len(Opens[q].tables)
        PROVE  Opens[q].tables[j] \in tables'
    <3>1. CASE marker'
      BY <2>3, <2>7, <3>1 DEF OpenedInv, Exist
    <3>2. CASE ~marker' /\ q # p
      BY <2>3, <2>6, <2>7, <3>2 DEF OpenedInv, Exist
    <3>3. CASE ~marker' /\ q = p
      <4>1. Opens[p].tables[i] \in tables' /\ ~(i < n)
        BY <2>4, <2>7, <3>3
      <4>2. i = n
        BY <2>2, <4>1
      <4> QED BY <2>1, <2>5, <2>7, <3>3, <4>1, <4>2
    <3> QED BY <3>1, <3>2, <3>3
  <2>8. ASSUME NEW q \in Procs, pc'[q] = "creating", NEW j \in 1..todo'[q] - 1
        PROVE  Opens[q].tables[j] \in tables'
    <3>1. CASE q # p
      BY <2>3, <2>6, <2>8, <3>1 DEF OpenedInv, Exist
    <3>2. CASE q = p
      <4>1. Opens[p].tables[i] \in tables' /\ todo'[p] = i + 1
        BY <2>4, <2>8, <3>2
      <4>2. j \in 1..i
        BY <2>2, <2>8, <3>2, <4>1
      <4> QED BY <2>5, <3>2, <4>1, <4>2
    <3> QED BY <3>1, <3>2
  <2> QED BY <2>7, <2>8 DEF OpenedInv, Exist
<1>6. CASE Touch(p)
  <2>1. Exist(p, Len(Opens[p].tables))
    BY <1>6 DEF Touch, OpenedInv
  <2>2. \A q \in Procs : Exist(q, Len(Opens[q].tables))
    BY <2>1 DEF OpensAlike, Exist
  <2> QED BY <1>1, <1>6, <2>2 DEF Touch, OpenedInv, Exist
<1>7. CASE Killed(p)
  BY <1>1, <1>2, <1>7 DEF Killed
<1>8. CASE Drop(p) \/ Step(p) \/ \E t \in Tables : Iterate(p, t)
  BY <1>1, <1>2, <1>8 DEF Drop, Step, Iterate
<1>9. CASE \/ \E t \in Tables, w \in Writes : Write(p, t, w)
           \/ \E c \in Forms : MemoCall(p, c)
  BY <1>1, <1>2, <1>9 DEF Write, MemoCall, Begin, Fails
<1>10. CASE Dml(p) \/ Pend(p) \/ Commit(p) \/ Lookup(p)
  BY <1>1, <1>2, <1>10 DEF Dml, Pend, Commit, Lookup, Raises, Ends
<1>11. CASE Compute(p) \/ Recall(p)
  BY <1>1, <1>2, <1>11 DEF Compute, Recall, Raises, Ends
<1>12. CASE Locked(p)
  BY <1>1, <1>2, <1>12 DEF Locked, Raises, Ends
<1> QED BY <1>3, <1>4, <1>5, <1>6, <1>7, <1>8, <1>9, <1>10, <1>11, <1>12 DEF Steps

LEMMA OpenedNext == ASSUME OpensAlike PROVE TypesInv /\ OpenedInv /\ [Next]_vars => OpenedInv'
<1>1. ASSUME OpenedInv, UNCHANGED vars
      PROVE  OpenedInv'
  BY <1>1 DEF OpenedInv, Exist, vars, fileVars, procVars
<1> QED BY <1>1, OpenedStep, NextSteps

(* With the marker, a process that has opened the file finds its tables, as long *)
(* as all of them open the same ones.                                            *)
THEOREM OpenedTablesCorrect ==
  ASSUME OpensAlike
  PROVE  Spec => []OpenedTablesExist
<1>1. TypesInv /\ OpenedInv => OpenedTablesExist
  BY OpensTyped DEF OpenedInv, OpenedTablesExist, Exist, Opening
<1> QED BY <1>1, TypesInit, TypesNext, OpenedInit, OpenedNext, PTL DEF Spec
=============================================================================
