------------------------------ MODULE RocksDBDict ------------------------------
(***************************************************************************)
(* RocksDBDict (src/src/rocksdb/dict.rs): threads that use a database      *)
(* through a handle opened for writing, as a secondary or read-only.  An   *)
(* operation holds Python's lock from its start to its end but for the     *)
(* calls of the user's ser_value, deser_key and deser_value, in which      *)
(* other threads run and which may raise.                                  *)
(*                                                                         *)
(* RocksDB is external: a write takes effect at once, a value that is read *)
(* stays pinned, an iterator runs in the order of the keys over the        *)
(* database as it was when the iterator was made.  A key is its bytes.     *)
(***************************************************************************)
EXTENDS Naturals, SequencesExt

CONSTANTS
  Threads,
  Keys,      \* sequences of bytes
  Values,
  Absent,    \* no value
  Mode,      \* Mode[t]: the handle of thread t: "write", "secondary" or "readonly"
  Soughts,   \* the arguments of seek_keys and seek_items
  Filled,    \* the databases that earlier programs may have left
  Extracted, \* options.prefix_extractor: the bytes of the prefix of a key; 0 without one
  MaxCalls   \* bound: calls made

ASSUME KeysAssumption == Keys \subseteq Seq(Nat)
ASSUME ValuesAssumption == Absent \notin Values /\ "raised" \notin Values \cup {Absent}
ASSUME ModeAssumption == Mode \in [Threads -> {"write", "secondary", "readonly"}]
ASSUME FilledAssumption == Filled \subseteq [Keys -> Values \cup {Absent}]
ASSUME PrefixAssumption ==
  Soughts \subseteq Seq(Nat) /\ Extracted \in Nat /\ \A p \in Soughts : Len(p) >= Extracted
ASSUME CallsAssumption == MaxCalls \in Nat

VARIABLES
  db,      \* the database: Absent where it holds no value
  view,    \* view[t]: what t's handle sees of it, if it is not opened for writing
  pc,      \* the callback each thread is in, or "idle"
  call,    \* the operation it is in or was in last, or NoCall
  outcome, \* how that ended: a value, Absent or "raised"
  it,      \* the thread's iterator, or NoIterator
  calls,
  changed  \* history: the thread's operation has changed the database

dictVars == <<db, view, pc, call, outcome, it, calls, changed>>

NoCall == [key |-> <<>>, val |-> Absent]

(* An iterator that has yielded nothing: the prefix it was asked for, whether it runs *)
(* over everything, the database it runs over and the keys that are left.             *)
Iterator(prefix, raw, snap, left) ==
  [prefix |-> prefix, raw |-> raw, snap |-> snap, left |-> left, seen |-> <<>>, lost |-> {}]

NoIterator == Iterator(<<>>, TRUE, [k \in Keys |-> Absent], {})

DictInit ==
  /\ db \in Filled
  /\ view = [t \in Threads |-> db]
  /\ pc = [t \in Threads |-> "idle"]
  /\ call = [t \in Threads |-> NoCall]
  /\ outcome = [t \in Threads |-> Absent]
  /\ it = [t \in Threads |-> NoIterator]
  /\ calls = 0
  /\ changed = [t \in Threads |-> FALSE]

Seen(t) == IF Mode[t] = "write" THEN db ELSE view[t]

-----------------------------------------------------------------------------
(* The steps an operation is made of *)

Starts(t, k, v) ==
  /\ pc[t] = "idle" /\ calls < MaxCalls
  /\ calls' = calls + 1
  /\ call' = [call EXCEPT ![t] = [key |-> k, val |-> v]]
  /\ changed' = [changed EXCEPT ![t] = FALSE]

(* Goes into a callback. *)
Calls(t, callback) ==
  /\ pc' = [pc EXCEPT ![t] = callback]
  /\ outcome' = [outcome EXCEPT ![t] = Absent]

Ends(t, v) ==
  /\ pc' = [pc EXCEPT ![t] = "idle"]
  /\ outcome' = [outcome EXCEPT ![t] = v]

Store(t, k, v) ==
  /\ db' = [db EXCEPT ![k] = v]
  /\ changed' = [changed EXCEPT ![t] = TRUE]

(* __getitem__ and get: the value is pinned and deserialized. *)
GetItem(t, k) ==
  /\ Starts(t, k, Seen(t)[k])
  /\ IF Seen(t)[k] = Absent THEN Ends(t, Absent) ELSE Calls(t, "deserializing")
  /\ UNCHANGED <<db, view, it>>

GotItem(t) ==
  /\ pc[t] = "deserializing"
  /\ Ends(t, call[t].val) \/ Ends(t, "raised")
  /\ UNCHANGED <<db, view, call, it, calls, changed>>

(* __setitem__: ser_value, then put, which only a handle opened for writing does *)
SetItem(t, k, v) ==
  /\ Starts(t, k, v)
  /\ Calls(t, "serializing")
  /\ UNCHANGED <<db, view, it>>

DoneSetItem(t) ==
  /\ pc[t] = "serializing"
  /\ \/ /\ Mode[t] = "write"
        /\ Store(t, call[t].key, call[t].val)
        /\ Ends(t, call[t].val)
     \/ Ends(t, "raised") /\ UNCHANGED <<db, changed>>
  /\ UNCHANGED <<view, call, it, calls>>

(* __delitem__ and _put have no callback. *)
Write(t, k, v) ==
  /\ pc[t] = "idle" /\ calls < MaxCalls
  /\ calls' = calls + 1
  /\ call' = [call EXCEPT ![t] = [key |-> k, val |-> v]]
  /\ IF Mode[t] = "write"
     THEN Store(t, k, v) /\ Ends(t, v)
     ELSE Ends(t, "raised") /\ changed' = [changed EXCEPT ![t] = FALSE] /\ UNCHANGED db
  /\ UNCHANGED <<view, it>>

(* Mutant: pop deletes before it deserializes. *)
PopDeletesFirst(t, k) ==
  /\ pc[t] = "idle" /\ calls < MaxCalls
  /\ calls' = calls + 1
  /\ call' = [call EXCEPT ![t] = [key |-> k, val |-> Seen(t)[k]]]
  /\ IF Seen(t)[k] # Absent /\ Mode[t] = "write"
     THEN Store(t, k, Absent) /\ Calls(t, "deserializing")
     ELSE Ends(t, Absent) /\ changed' = [changed EXCEPT ![t] = FALSE] /\ UNCHANGED db
  /\ UNCHANGED <<view, it>>

(* pop: what is there when deser_value has returned is deleted. *)
Pop(t, k) ==
  /\ Starts(t, k, Seen(t)[k])
  /\ IF Seen(t)[k] = Absent THEN Ends(t, Absent) ELSE Calls(t, "popping")
  /\ UNCHANGED <<db, view, it>>

DonePop(t) ==
  /\ pc[t] = "popping"
  /\ \/ /\ Mode[t] = "write"
        /\ Store(t, call[t].key, Absent)
        /\ Ends(t, call[t].val)
     \/ Ends(t, "raised") /\ UNCHANGED <<db, changed>>
  /\ UNCHANGED <<view, call, it, calls>>

(* try_catch_up_with_primary: an error but for a secondary *)
CatchUp(t) ==
  /\ Mode[t] = "secondary" /\ pc[t] = "idle"
  /\ view[t] # db
  /\ view' = [view EXCEPT ![t] = db]
  /\ UNCHANGED <<db, pc, call, outcome, it, calls, changed>>

-----------------------------------------------------------------------------
(* Iterators *)

(* The order of the bytes *)
Below(a, b) ==
  \/ IsStrictPrefix(a, b)
  \/ \E n \in 1..Len(a) :
       /\ n <= Len(b) /\ SubSeq(a, 1, n - 1) = SubSeq(b, 1, n - 1)
       /\ a[n] < b[n]

Present(m) == {k \in Keys : m[k] # Absent}

(* __iter__, keys, values and items *)
Iterate(t) ==
  /\ Starts(t, <<>>, Absent)
  /\ it' = [it EXCEPT ![t] = Iterator(<<>>, TRUE, Seen(t), Present(Seen(t)))]
  /\ UNCHANGED <<db, view, pc, outcome>>

(* Mutant: the iterator does not stop where the prefix ends. *)
SoughtToTheEnd(m, prefix) == {k \in Present(m) : k = prefix \/ Below(prefix, k)}

(* prefix_iterator: from the first key that is not below the prefix on, as long as  *)
(* the extractor finds the same prefix in the key; to the end without an extractor. *)
Sought(m, prefix) ==
  {k \in Present(m) :
     /\ k = prefix \/ Below(prefix, k)
     /\ IsPrefix(SubSeq(prefix, 1, Extracted), k)}

(* seek_keys and seek_items *)
Seek(t, prefix) ==
  /\ Starts(t, <<>>, Absent)
  /\ it' = [it EXCEPT ![t] = Iterator(prefix, FALSE, Seen(t), Sought(Seen(t), prefix))]
  /\ UNCHANGED <<db, view, pc, outcome>>

(* The iterator leaves a key behind, yielded or not. *)
Past(i, k, yielded) ==
  [prefix |-> i.prefix, raw |-> i.raw, snap |-> i.snap, left |-> i.left \ {k},
   seen |-> IF yielded THEN Append(i.seen, k) ELSE i.seen,
   lost |-> IF yielded THEN i.lost ELSE i.lost \cup {k}]

(* It moves past the least key that is left. *)
Moves(t, yielded) ==
  \E k \in it[t].left :
    /\ \A x \in it[t].left \ {k} : Below(k, x)
    /\ it' = [it EXCEPT ![t] = Past(it[t], k, yielded)]

(* Mutant: the raw iterators, too, advance before they deserialize. *)
NextAdvancesFirst(t) ==
  /\ pc[t] = "idle" /\ it[t].raw
  /\ \E yielded \in BOOLEAN : Moves(t, yielded)
  /\ UNCHANGED <<db, view, pc, call, outcome, calls, changed>>

(* __next__ of the raw iterators: a pair that cannot be deserialized stays next.  *)
(* Nothing of this shows but in the iterator, which one thread at a time may use. *)
NextRaw(t) ==
  /\ pc[t] = "idle" /\ it[t].raw
  /\ Moves(t, TRUE)
  /\ UNCHANGED <<db, view, pc, call, outcome, calls, changed>>

(* __next__ of the prefix iterators, which have advanced when they deserialize *)
NextPrefix(t) ==
  /\ pc[t] = "idle" /\ ~it[t].raw
  /\ \E yielded \in BOOLEAN : Moves(t, yielded)
  /\ UNCHANGED <<db, view, pc, call, outcome, calls, changed>>

-----------------------------------------------------------------------------
DictRuns(t) == GotItem(t) \/ DoneSetItem(t) \/ DonePop(t)

DictAsks(t) ==
  \/ \E k \in Keys :
       \/ GetItem(t, k) \/ Pop(t, k) \/ Write(t, k, Absent)
       \/ \E v \in Values : SetItem(t, k, v) \/ Write(t, k, v)
  \/ Iterate(t) \/ NextRaw(t) \/ NextPrefix(t) \/ CatchUp(t)
  \/ \E p \in Soughts : Seek(t, p)
-----------------------------------------------------------------------------
Databases == [Keys -> Values \cup {Absent}]
Iterators == [prefix : Soughts \cup {<<>>}, raw : BOOLEAN, snap : Databases,
              left : SUBSET Keys, seen : Seq(Keys), lost : SUBSET Keys]

DictTypeOK ==
  /\ db \in Databases
  /\ view \in [Threads -> Databases]
  /\ pc \in [Threads -> {"idle", "deserializing", "serializing", "popping"}]
  /\ call \in [Threads -> [key : Keys \cup {<<>>}, val : Values \cup {Absent}]]
  /\ outcome \in [Threads -> Values \cup {Absent, "raised"}]
  /\ it \in [Threads -> Iterators]
  /\ calls \in 0..MaxCalls
  /\ changed \in [Threads -> BOOLEAN]

(* An operation that raised has changed nothing: a set whose value cannot be  *)
(* serialized, a pop whose value cannot be deserialized, a write to a handle  *)
(* that is not open for writing.                                              *)
FailedCallsChangeNothing ==
  \A t \in Threads : pc[t] = "idle" /\ outcome[t] = "raised" => ~changed[t]

(* What an iterator has yielded is in the order of the bytes and below all that is left. *)
InOrder(i) ==
  /\ \A m, n \in 1..Len(i.seen) : m < n => Below(i.seen[m], i.seen[n])
  /\ \A k \in ToSet(i.seen), x \in i.left : Below(k, x)

(* Whatever threads write meanwhile and however often a deserializer raises,  *)
(* a raw iterator yields the keys there were when it was made, each once and  *)
(* in order.                                                                  *)
RawIteratorsAreSnapshots ==
  \A t \in Threads : it[t].raw =>
    InOrder(it[t]) /\ ToSet(it[t].seen) \cup it[t].left = Present(it[t].snap)

(* With an extractor as long as the prefix, an iterator over a prefix yields    *)
(* the keys of its moment that begin with it, in order, and no other; those it  *)
(* leaves out are those whose deserializer raised.                              *)
PrefixIteratorsMatch ==
  \A t \in Threads : LET i == it[t] IN
    ~i.raw /\ Len(i.prefix) = Extracted =>
      /\ InOrder(i)
      /\ {k \in Present(i.snap) : IsPrefix(i.prefix, k)} = ToSet(i.seen) \cup i.left \cup i.lost
=============================================================================
