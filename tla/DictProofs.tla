------------------------------ MODULE DictProofs ------------------------------
(***************************************************************************)
(* Proofs about RocksDBDict, CacheDict and ChainedMapping, for every set   *)
(* of threads, keys, values and prefixes, all handles and every bound.     *)
(***************************************************************************)
EXTENDS ChainedMapping, Least, SequenceTheorems, FiniteSetTheorems, TLAPS

Assumptions ==
  /\ KeysAssumption /\ ValuesAssumption /\ ModeAssumption /\ FilledAssumption
  /\ PrefixAssumption /\ CallsAssumption /\ UsersAssumption /\ SecondAssumption

LEMMA Assumed == Assumptions
BY KeysAssumption, ValuesAssumption, ModeAssumption, FilledAssumption,
   PrefixAssumption, CallsAssumption, UsersAssumption, SecondAssumption
DEF Assumptions

-----------------------------------------------------------------------------
(* The types of the mapping *)

DictMoves(t) == DictRuns(t) \/ DictAsks(t)

(* What a thread sees is a database. *)
LEMMA SeenType ==
  ASSUME DictTypeOK, NEW t \in Threads
  PROVE  Seen(t) \in Databases
BY DEF DictTypeOK, Seen

LEMMA StartsType ==
  ASSUME DictTypeOK, NEW t \in Threads, NEW k \in Keys \cup {<<>>},
         NEW v \in Values \cup {Absent}, Starts(t, k, v)
  PROVE  /\ call' \in [Threads -> [key : Keys \cup {<<>>}, val : Values \cup {Absent}]]
         /\ calls' \in 0..MaxCalls
         /\ changed' \in [Threads -> BOOLEAN]
<1>1. PICK c : c = [key |-> k, val |-> v]
  OBVIOUS
<1>2. c \in [key : Keys \cup {<<>>}, val : Values \cup {Absent}]
  BY <1>1
<1>3. call' = [call EXCEPT ![t] = c]
  BY <1>1 DEF Starts
<1>4. call' \in [Threads -> [key : Keys \cup {<<>>}, val : Values \cup {Absent}]]
  BY <1>2, <1>3 DEF DictTypeOK
<1>5. calls' \in 0..MaxCalls
  BY CallsAssumption DEF Starts, DictTypeOK, CallsAssumption
<1>6. changed' \in [Threads -> BOOLEAN]
  BY DEF Starts, DictTypeOK
<1> QED
  BY <1>4, <1>5, <1>6

LEMMA EndsType ==
  ASSUME DictTypeOK, NEW t \in Threads, NEW v \in Values \cup {Absent, "raised"}, Ends(t, v)
  PROVE  /\ pc' \in [Threads -> {"idle", "deserializing", "serializing", "popping"}]
         /\ outcome' \in [Threads -> Values \cup {Absent, "raised"}]
BY DEF DictTypeOK, Ends

LEMMA CallsType ==
  ASSUME DictTypeOK, NEW t \in Threads,
         NEW c \in {"deserializing", "serializing", "popping"}, Calls(t, c)
  PROVE  /\ pc' \in [Threads -> {"idle", "deserializing", "serializing", "popping"}]
         /\ outcome' \in [Threads -> Values \cup {Absent, "raised"}]
BY DEF DictTypeOK, Calls

LEMMA StoreType ==
  ASSUME DictTypeOK, NEW t \in Threads, NEW k, NEW v \in Values \cup {Absent}, Store(t, k, v)
  PROVE  db' \in Databases /\ changed' \in [Threads -> BOOLEAN]
BY DEF DictTypeOK, Store, Databases

(* An iterator that is made *)
LEMMA IteratorType ==
  ASSUME NEW p \in Soughts \cup {<<>>}, NEW raw \in BOOLEAN, NEW m \in Databases,
         NEW left \in SUBSET Keys
  PROVE  Iterator(p, raw, m, left) \in Iterators
BY DEF Iterator, Iterators

(* An iterator that moves *)
LEMMA PastType ==
  ASSUME NEW i \in Iterators, NEW k \in i.left, NEW yielded \in BOOLEAN
  PROVE  Past(i, k, yielded) \in Iterators
<1>1. k \in Keys
  BY DEF Iterators
<1>2. Append(i.seen, k) \in Seq(Keys)
  BY <1>1 DEF Iterators
<1> QED
  BY <1>1, <1>2 DEF Past, Iterators

LEMMA MovesType ==
  ASSUME DictTypeOK, NEW t \in Threads, NEW yielded \in BOOLEAN, Moves(t, yielded)
  PROVE  it' \in [Threads -> Iterators]
<1>1. PICK k \in it[t].left : it' = [it EXCEPT ![t] = Past(it[t], k, yielded)]
  BY DEF Moves
<1>2. it[t] \in Iterators
  BY DEF DictTypeOK
<1>3. Past(it[t], k, yielded) \in Iterators
  BY <1>2, PastType
<1> QED
  BY <1>1, <1>3 DEF DictTypeOK

LEMMA DictMovesType ==
  ASSUME DictTypeOK, NEW t \in Threads, DictMoves(t)
  PROVE  DictTypeOK'
<1> USE DEF Databases
<1>a. Seen(t) \in Databases
  BY SeenType
<1>c. call[t].key \in Keys \cup {<<>>} /\ call[t].val \in Values \cup {Absent}
  BY DEF DictTypeOK
<1>g. CASE \E k \in Keys : GetItem(t, k) \/ Pop(t, k)
  <2>1. PICK k \in Keys : GetItem(t, k) \/ Pop(t, k)
    BY <1>g
  <2>2. Seen(t)[k] \in Values \cup {Absent}
    BY <1>a
  <2>3. Starts(t, k, Seen(t)[k]) /\ UNCHANGED <<db, view, it>>
    BY <2>1 DEF GetItem, Pop
  <2>4. \/ Ends(t, Absent)
        \/ Calls(t, "deserializing")
        \/ Calls(t, "popping")
    BY <2>1 DEF GetItem, Pop
  <2>5. /\ pc' \in [Threads -> {"idle", "deserializing", "serializing", "popping"}]
        /\ outcome' \in [Threads -> Values \cup {Absent, "raised"}]
    BY <2>4, EndsType, CallsType
  <2>6. /\ call' \in [Threads -> [key : Keys \cup {<<>>}, val : Values \cup {Absent}]]
        /\ calls' \in 0..MaxCalls
        /\ changed' \in [Threads -> BOOLEAN]
    BY <2>2, <2>3, StartsType
  <2> QED
    BY <2>3, <2>5, <2>6 DEF DictTypeOK
<1>r. CASE GotItem(t)
  <2>1. \/ Ends(t, call[t].val)
        \/ Ends(t, "raised")
    BY <1>r DEF GotItem
  <2>2. /\ pc' \in [Threads -> {"idle", "deserializing", "serializing", "popping"}]
        /\ outcome' \in [Threads -> Values \cup {Absent, "raised"}]
    BY <2>1, <1>c, EndsType
  <2> QED
    BY <2>2, <1>r DEF GotItem, DictTypeOK
<1>s. CASE \E k \in Keys, v \in Values : SetItem(t, k, v)
  <2>1. PICK k \in Keys, v \in Values : SetItem(t, k, v)
    BY <1>s
  <2>2. /\ pc' \in [Threads -> {"idle", "deserializing", "serializing", "popping"}]
        /\ outcome' \in [Threads -> Values \cup {Absent, "raised"}]
    BY <2>1, CallsType DEF SetItem
  <2>3. /\ call' \in [Threads -> [key : Keys \cup {<<>>}, val : Values \cup {Absent}]]
        /\ calls' \in 0..MaxCalls
        /\ changed' \in [Threads -> BOOLEAN]
    BY <2>1, StartsType DEF SetItem
  <2> QED
    BY <2>1, <2>2, <2>3 DEF SetItem, DictTypeOK
<1>d. CASE DoneSetItem(t) \/ DonePop(t)
  <2>1. /\ \/ \E v \in {call[t].val, Absent} :
                Store(t, call[t].key, v) /\ Ends(t, call[t].val)
           \/ Ends(t, "raised") /\ UNCHANGED <<db, changed>>
        /\ UNCHANGED <<view, call, it, calls>>
    BY <1>d DEF DoneSetItem, DonePop
  <2>2. /\ pc' \in [Threads -> {"idle", "deserializing", "serializing", "popping"}]
        /\ outcome' \in [Threads -> Values \cup {Absent, "raised"}]
    BY <2>1, <1>c, EndsType
  <2>3. db' \in Databases /\ changed' \in [Threads -> BOOLEAN]
    BY <2>1, <1>c, StoreType DEF DictTypeOK
  <2> QED
    BY <2>1, <2>2, <2>3 DEF DictTypeOK
<1>w. CASE \E k \in Keys, v \in Values \cup {Absent} : Write(t, k, v)
  <2>1. PICK k \in Keys, v \in Values \cup {Absent} : Write(t, k, v)
    BY <1>w
  <2>2. \/ Ends(t, v)
        \/ Ends(t, "raised")
    BY <2>1 DEF Write
  <2>3. /\ pc' \in [Threads -> {"idle", "deserializing", "serializing", "popping"}]
        /\ outcome' \in [Threads -> Values \cup {Absent, "raised"}]
    BY <2>2, EndsType
  <2>4. \/ Store(t, k, v)
        \/ changed' = [changed EXCEPT ![t] = FALSE] /\ UNCHANGED db
    BY <2>1 DEF Write
  <2>5. db' \in Databases /\ changed' \in [Threads -> BOOLEAN]
    BY <2>4, StoreType DEF DictTypeOK
  <2>6. PICK c : c = [key |-> k, val |-> v]
    OBVIOUS
  <2>7. c \in [key : Keys \cup {<<>>}, val : Values \cup {Absent}]
    BY <2>6
  <2>8. call' = [call EXCEPT ![t] = c] /\ UNCHANGED <<view, it>>
    BY <2>1, <2>6 DEF Write
  <2>9. calls' \in 0..MaxCalls
    BY <2>1, CallsAssumption DEF Write, DictTypeOK, CallsAssumption
  <2> QED
    BY <2>3, <2>5, <2>7, <2>8, <2>9 DEF DictTypeOK
<1>u. CASE CatchUp(t)
  BY <1>u DEF CatchUp, DictTypeOK
<1>i. CASE \/ Iterate(t)
           \/ \E p \in Soughts : Seek(t, p)
  <2>a. ASSUME Iterate(t) PROVE it' \in [Threads -> Iterators]
    <3>1. Iterator(<<>>, TRUE, Seen(t), Present(Seen(t))) \in Iterators
      BY <1>a, IteratorType DEF Present
    <3> QED
      BY <2>a, <3>1 DEF Iterate, DictTypeOK
  <2>b. ASSUME \E p \in Soughts : Seek(t, p) PROVE it' \in [Threads -> Iterators]
    <3>1. PICK p \in Soughts : Seek(t, p)
      BY <2>b
    <3>2. Iterator(p, FALSE, Seen(t), Sought(Seen(t), p)) \in Iterators
      BY <1>a, IteratorType DEF Present, Sought
    <3> QED
      BY <3>1, <3>2 DEF Seek, DictTypeOK
  <2>1. Starts(t, <<>>, Absent) /\ UNCHANGED <<db, view, pc, outcome>>
    BY <1>i DEF Iterate, Seek
  <2>2. it' \in [Threads -> Iterators]
    BY <1>i, <2>a, <2>b
  <2>3. /\ call' \in [Threads -> [key : Keys \cup {<<>>}, val : Values \cup {Absent}]]
        /\ calls' \in 0..MaxCalls
        /\ changed' \in [Threads -> BOOLEAN]
    BY <2>1, StartsType
  <2> QED
    BY <2>1, <2>2, <2>3 DEF DictTypeOK
<1>n. CASE NextRaw(t) \/ NextPrefix(t)
  <2>1. /\ \E yielded \in BOOLEAN : Moves(t, yielded)
        /\ UNCHANGED <<db, view, pc, call, outcome, calls, changed>>
    BY <1>n DEF NextRaw, NextPrefix
  <2>2. it' \in [Threads -> Iterators]
    BY <2>1, MovesType
  <2> QED
    BY <2>1, <2>2 DEF DictTypeOK
<1> QED
  BY <1>g, <1>r, <1>s, <1>d, <1>w, <1>u, <1>i, <1>n DEF DictMoves, DictRuns, DictAsks

-----------------------------------------------------------------------------
(* Where the threads stand in the methods of a CacheDict and of a ChainedMapping *)

(* Only users of the CacheDict are inside one of its methods, with a key they gave it. *)
Called(t) == cpc[t] # "idle" => t \in CacheUsers /\ call[t].key \in Keys

(* The methods whose read of the mapping runs or has just ended, and the others *)
Standing(t) ==
  /\ cpc[t] \in {"filling", "first"} => pc[t] \in {"idle", "deserializing"}
  /\ cpc[t] \in {"chaining", "second", "uncaching", "deleting"} => pc[t] = "idle"

(* While nobody changes the key, what the mapping was found to hold is what it holds. *)
Current(t) ==
  ~dirty[t] =>
    /\ cpc[t] \in {"filling", "first"} =>
         /\ pc[t] = "idle" => outcome[t] \in {"raised", db[call[t].key]}
         /\ pc[t] # "idle" => call[t].val = db[call[t].key]
    /\ cpc[t] \in {"chaining", "first"} => db[call[t].key] # Absent
    /\ cpc[t] = "second" => db[call[t].key] = Absent

Sound(t) == Called(t) /\ Standing(t) /\ Current(t)

(* The keys of the cache are keys, and what it holds is up to date but for those *)
(* that were overwritten.                                                        *)
IInv ==
  /\ TypeOK
  /\ \A t \in Threads : Sound(t)
  /\ CacheHoldsWhatWasRead

(* An operation that goes on has not changed anything, nor has one that raised. *)
Harmless(t) == pc[t] # "idle" \/ outcome[t] = "raised" => ~changed[t]

(* What an iterator has yielded, what is left and what it has lost *)
Accounts(i) ==
  /\ InOrder(i)
  /\ i.raw => ToSet(i.seen) \cup i.left = Present(i.snap)
  /\ ~i.raw /\ Len(i.prefix) = Extracted =>
       {k \in Present(i.snap) : IsPrefix(i.prefix, k)} = ToSet(i.seen) \cup i.left \cup i.lost

-----------------------------------------------------------------------------
(* What the steps of the mapping leave alone *)

(* A step of one thread is none of another's. *)
LEMMA DictMovesOthers ==
  ASSUME DictTypeOK, NEW t \in Threads, DictMoves(t), NEW u \in Threads, u # t
  PROVE  /\ pc'[u] = pc[u] /\ call'[u] = call[u] /\ outcome'[u] = outcome[u]
         /\ it'[u] = it[u] /\ changed'[u] = changed[u]
<1>1. CASE DictRuns(t)
  BY <1>1 DEF DictTypeOK, DictRuns, GotItem, DoneSetItem, DonePop, Ends, Store
<1>2. CASE \E k \in Keys : GetItem(t, k) \/ Pop(t, k) \/ \E v \in Values : SetItem(t, k, v)
  BY <1>2 DEF DictTypeOK, GetItem, Pop, SetItem, Starts, Calls, Ends
<1>3. CASE \E k \in Keys, v \in Values \cup {Absent} : Write(t, k, v)
  BY <1>3 DEF DictTypeOK, Write, Store, Ends
<1>4. CASE \/ Iterate(t) \/ NextRaw(t) \/ NextPrefix(t) \/ CatchUp(t)
           \/ \E p \in Soughts : Seek(t, p)
  BY <1>4 DEF DictTypeOK, Iterate, NextRaw, NextPrefix, CatchUp, Seek, Starts, Moves
<1> QED
  BY <1>1, <1>2, <1>3, <1>4 DEF DictMoves, DictAsks

(* A thread that runs on ends its operation, in which it may change the database; *)
(* one that asks for something was idle.                                          *)
LEMMA DictAsksIdle ==
  ASSUME NEW t \in Threads, DictAsks(t)
  PROVE  pc[t] = "idle"
BY DEF DictAsks, GetItem, Pop, Write, SetItem, Iterate, Seek, NextRaw, NextPrefix,
       CatchUp, Starts

(* An operation that goes on or raised has changed nothing: only Store changes, and *)
(* what stores ends with a value.                                                   *)
LEMMA DictMovesHarmless ==
  ASSUME DictTypeOK, NEW t \in Threads, DictMoves(t), Harmless(t)
  PROVE  Harmless(t)'
<1>v. call[t].val \in Values \cup {Absent}
  BY DEF DictTypeOK
<1>r. "raised" \notin Values \cup {Absent}
  BY ValuesAssumption DEF ValuesAssumption
<1>1. CASE GotItem(t) 
  BY <1>1 DEF GotItem, Harmless, DictTypeOK
<1>2. CASE DoneSetItem(t) \/ DonePop(t)
  <2>1. \/ Ends(t, call[t].val)
        \/ Ends(t, "raised") /\ UNCHANGED changed
    BY <1>2 DEF DoneSetItem, DonePop
  <2>2. pc[t] # "idle"
    BY <1>2 DEF DoneSetItem, DonePop
  <2> QED
    BY <2>1, <2>2, <1>v, <1>r DEF Ends, Harmless, DictTypeOK
<1>3. CASE \E k \in Keys : GetItem(t, k) \/ Pop(t, k) \/ \E v \in Values : SetItem(t, k, v)
  <2>1. changed'[t] = FALSE
    BY <1>3 DEF GetItem, Pop, SetItem, Starts, DictTypeOK
  <2> QED
    BY <2>1 DEF Harmless
<1>4. CASE \E k \in Keys, v \in Values \cup {Absent} : Write(t, k, v)
  <2>1. \/ \E v \in Values \cup {Absent} : Ends(t, v)
        \/ changed'[t] = FALSE
    BY <1>4 DEF Write, DictTypeOK
  <2> QED
    BY <2>1, <1>r DEF Ends, Harmless, DictTypeOK
<1>5. CASE Iterate(t) \/ \E p \in Soughts : Seek(t, p)
  <2>1. changed'[t] = FALSE
    BY <1>5 DEF Iterate, Seek, Starts, DictTypeOK
  <2> QED
    BY <2>1 DEF Harmless
<1>6. CASE NextRaw(t) \/ NextPrefix(t) \/ CatchUp(t)
  BY <1>6 DEF NextRaw, NextPrefix, CatchUp, Harmless
<1> QED
  BY <1>1, <1>2, <1>3, <1>4, <1>5, <1>6 DEF DictMoves, DictRuns, DictAsks

-----------------------------------------------------------------------------
(* Iterators *)

LEMMA ToSetAppend ==
  ASSUME NEW S, NEW s \in Seq(S), NEW k \in S
  PROVE  ToSet(Append(s, k)) = ToSet(s) \cup {k}
<1>1. Append(s, k) \in Seq(S) /\ Len(Append(s, k)) = Len(s) + 1
  OBVIOUS
<1>2. \A n \in 1..Len(s) : Append(s, k)[n] = s[n]
  OBVIOUS
<1>3. Append(s, k)[Len(s) + 1] = k
  OBVIOUS
<1>4. DOMAIN Append(s, k) = 1..(Len(s) + 1) /\ DOMAIN s = 1..Len(s) /\ Len(s) \in Nat
  BY <1>1
<1>5. 1..(Len(s) + 1) = 1..Len(s) \cup {Len(s) + 1}
  BY <1>4
<1> QED
  BY <1>2, <1>3, <1>4, <1>5 DEF ToSet

(* An iterator that has yielded nothing is in order. *)
LEMMA IteratorInOrder ==
  ASSUME NEW p, NEW raw, NEW m, NEW left
  PROVE  InOrder(Iterator(p, raw, m, left)) /\ ToSet(Iterator(p, raw, m, left).seen) = {}
<1>1. ToSet(<<>>) = {}
  BY DEF ToSet
<1>2. Iterator(p, raw, m, left).seen = <<>>
  BY DEF Iterator
<1>3. 1..Len(<<>>) = {}
  OBVIOUS
<1> QED
  BY <1>1, <1>2, <1>3 DEF InOrder

(* Yielding the least of what is left keeps the order. *)
LEMMA PastInOrder ==
  ASSUME NEW i \in Iterators, InOrder(i), NEW k \in i.left, NEW yielded \in BOOLEAN,
         \A x \in i.left \ {k} : Below(k, x)
  PROVE  InOrder(Past(i, k, yielded))
<1>1. /\ Past(i, k, yielded).left = i.left \ {k}
      /\ Past(i, k, yielded).seen = IF yielded THEN Append(i.seen, k) ELSE i.seen
  BY DEF Past
<1>2. CASE ~yielded
  BY <1>1, <1>2 DEF InOrder
<1>3. CASE yielded
  <2>1. i.seen \in Seq(Keys) /\ k \in Keys
    BY DEF Iterators
  <2> DEFINE s == Append(i.seen, k)
  <2>2. /\ Len(s) = Len(i.seen) + 1 /\ Len(i.seen) \in Nat
        /\ \A n \in 1..Len(i.seen) : s[n] = i.seen[n]
        /\ s[Len(s)] = k
    BY <2>1
  <2>3. \A n \in 1..Len(i.seen) : Below(i.seen[n], k)
    <3>1. \A n \in 1..Len(i.seen) : i.seen[n] \in ToSet(i.seen)
      BY <2>1 DEF ToSet
    <3> QED
      BY <3>1 DEF InOrder
  <2>4. ASSUME NEW m \in 1..Len(s), NEW n \in 1..Len(s), m < n
        PROVE  Below(s[m], s[n])
    <3>1. m \in 1..Len(i.seen)
      BY <2>2, <2>4
    <3>2. CASE n = Len(s)
      BY <2>2, <2>3, <3>1, <3>2
    <3>3. CASE n # Len(s)
      <4>1. n \in 1..Len(i.seen)
        BY <2>2, <3>3
      <4> QED
        BY <2>2, <2>4, <3>1, <4>1 DEF InOrder
    <3> QED
      BY <3>2, <3>3
  <2>5. ToSet(s) = ToSet(i.seen) \cup {k}
    BY <2>1, ToSetAppend
  <2>6. \A y \in ToSet(s), x \in i.left \ {k} : Below(y, x)
    BY <2>5 DEF InOrder
  <2> HIDE DEF s
  <2>7. Past(i, k, yielded).seen = s
    BY <1>1, <1>3 DEF s
  <2> QED
    BY <1>1, <2>4, <2>6, <2>7 DEF InOrder
<1> QED
  BY <1>2, <1>3

(* A raw iterator yields what it passes; a prefix iterator yields it or loses it. *)
LEMMA PastAccounts ==
  ASSUME NEW i \in Iterators, Accounts(i), NEW k \in i.left, NEW yielded \in BOOLEAN,
         i.raw => yielded,
         \A x \in i.left \ {k} : Below(k, x)
  PROVE  Accounts(Past(i, k, yielded))
<1>1. PICK j : j = Past(i, k, yielded)
  OBVIOUS
<1>2. /\ j.prefix = i.prefix /\ j.raw = i.raw /\ j.snap = i.snap
      /\ j.left = i.left \ {k}
      /\ yielded => j.seen = Append(i.seen, k) /\ j.lost = i.lost
      /\ ~yielded => j.seen = i.seen /\ j.lost = i.lost \cup {k}
  BY <1>1 DEF Past
<1>3. InOrder(j)
  BY <1>1, PastInOrder DEF Accounts
<1>4. i.seen \in Seq(Keys) /\ k \in Keys
  BY DEF Iterators
<1>5. yielded => ToSet(j.seen) = ToSet(i.seen) \cup {k}
  <2>1. ToSet(Append(i.seen, k)) = ToSet(i.seen) \cup {k}
    BY <1>4, ToSetAppend
  <2> QED
    BY <1>2, <2>1
<1>6. /\ i.raw => ToSet(j.seen) \cup j.left = ToSet(i.seen) \cup i.left
      /\ ToSet(j.seen) \cup j.left \cup j.lost = ToSet(i.seen) \cup i.left \cup i.lost
  BY <1>2, <1>5
<1>7. Accounts(j)
  BY <1>2, <1>3, <1>6 DEF Accounts
<1> QED
  BY <1>1, <1>7

(* The keys sought with a prefix as long as the extractor's begin with it. *)
LEMMA SoughtMatches ==
  ASSUME NEW m, NEW p \in Soughts, Len(p) = Extracted
  PROVE  Sought(m, p) = {k \in Present(m) : IsPrefix(p, k)}
<1>1. p \in Seq(Nat)
  BY PrefixAssumption DEF PrefixAssumption
<1>2. SubSeq(p, 1, Extracted) = p
  BY <1>1, SubSeqFull
<1>3. \A k : IsPrefix(p, k) => k = p \/ Below(p, k)
  BY DEF Below, IsStrictPrefix
<1> QED
  BY <1>2, <1>3 DEF Sought

LEMMA DictMovesAccounts ==
  ASSUME DictTypeOK, NEW t \in Threads, DictMoves(t), Accounts(it[t])
  PROVE  Accounts(it'[t])
<1>1. CASE \/ DictRuns(t) \/ CatchUp(t)
           \/ \E k \in Keys : GetItem(t, k) \/ Pop(t, k) \/ \E v \in Values : SetItem(t, k, v)
           \/ \E k \in Keys, v \in Values \cup {Absent} : Write(t, k, v)
  <2>1. it' = it
    BY <1>1 DEF DictRuns, GotItem, DoneSetItem, DonePop, CatchUp, GetItem, Pop, SetItem, Write
  <2> QED
    BY <2>1
<1>2. CASE Iterate(t)
  <2>1. PICK i : i = Iterator(<<>>, TRUE, Seen(t), Present(Seen(t)))
    OBVIOUS
  <2>2. it'[t] = i
    BY <1>2, <2>1 DEF Iterate, DictTypeOK
  <2>3. i.raw = TRUE /\ i.snap = Seen(t) /\ i.left = Present(Seen(t))
    BY <2>1 DEF Iterator
  <2>4. InOrder(i) /\ ToSet(i.seen) = {}
    BY <2>1, IteratorInOrder
  <2> QED
    BY <2>2, <2>3, <2>4 DEF Accounts
<1>3. CASE \E p \in Soughts : Seek(t, p)
  <2>0. PICK p \in Soughts : Seek(t, p)
    BY <1>3
  <2>1. PICK i : i = Iterator(p, FALSE, Seen(t), Sought(Seen(t), p))
    OBVIOUS
  <2>2. it'[t] = i
    BY <2>0, <2>1 DEF Seek, DictTypeOK
  <2>3. i.raw = FALSE /\ i.prefix = p /\ i.snap = Seen(t) /\ i.lost = {}
        /\ i.left = Sought(Seen(t), p)
    BY <2>1 DEF Iterator
  <2>4. InOrder(i) /\ ToSet(i.seen) = {}
    BY <2>1, IteratorInOrder
  <2>5. Len(i.prefix) = Extracted => i.left = {k \in Present(i.snap) : IsPrefix(i.prefix, k)}
    BY <2>3, SoughtMatches
  <2> QED
    BY <2>2, <2>3, <2>4, <2>5 DEF Accounts
<1>4. CASE NextRaw(t) \/ NextPrefix(t)
  <2>1. PICK yielded \in BOOLEAN :
          /\ Moves(t, yielded)
          /\ it[t].raw => yielded
    BY <1>4 DEF NextRaw, NextPrefix
  <2>2. PICK k \in it[t].left :
          /\ \A x \in it[t].left \ {k} : Below(k, x)
          /\ it' = [it EXCEPT ![t] = Past(it[t], k, yielded)]
    BY <2>1 DEF Moves
  <2>3. it[t] \in Iterators /\ it'[t] = Past(it[t], k, yielded)
    BY <2>2 DEF DictTypeOK
  <2> QED
    BY <2>1, <2>2, <2>3, PastAccounts
<1> QED
  BY <1>1, <1>2, <1>3, <1>4 DEF DictMoves, DictAsks

-----------------------------------------------------------------------------
(* The steps of the whole, in the three parts they fall into *)

(* A step of the mapping on its own *)
Mapping(t) ==
  /\ DictRuns(t) \/ (cpc[t] = "idle" /\ DictAsks(t))
  /\ Tracks
  /\ UNCHANGED <<cache, cpc>>

(* A step of a method that moves the mapping, too *)
Through(t) ==
  \/ Delete(t) \/ ChainFirst(t)
  \/ \E k \in Keys : Miss(t, k) \/ \E v \in Values : CacheSet(t, k, v)

(* A step of a method that does not *)
Beside(t) ==
  \/ Fill(t) \/ Uncache(t) \/ ChainEnds(t)
  \/ \E k \in Keys : CacheDelete(t, k) \/ ChainGet(t, k) \/ \E v \in Values : UpdateCache(t, k, v)

LEMMA NextSteps ==
  ASSUME Next
  PROVE  \/ \E t \in Threads : Mapping(t)
         \/ \E t \in CacheUsers : Through(t) \/ Beside(t)
BY DEF Next, CacheNext, CacheSteps, Mapping, Through, Beside

LEMMA Users == \A t \in CacheUsers : t \in Threads /\ Mode[t] = "write" /\ Seen(t) = db
BY UsersAssumption DEF UsersAssumption, Seen

(* What moves the mapping moves it as a thread would that uses it directly. *)
LEMMA ThroughMoves ==
  ASSUME NEW t \in CacheUsers, Through(t), Called(t)
  PROVE  DictMoves(t)
<1>1. CASE Delete(t)
  <2>1. call[t].key \in Keys
    BY <1>1 DEF Delete, Called
  <2> QED
    BY <1>1, <2>1 DEF Delete, DictMoves, DictAsks
<1>2. CASE ChainFirst(t)
  <2>1. call[t].key \in Keys
    BY <1>2 DEF ChainFirst, Called
  <2> QED
    BY <1>2, <2>1 DEF ChainFirst, DictMoves, DictAsks
<1>3. CASE \E k \in Keys : Miss(t, k) \/ \E v \in Values : CacheSet(t, k, v)
  BY <1>3 DEF Miss, CacheSet, DictMoves, DictAsks
<1> QED
  BY <1>1, <1>2, <1>3 DEF Through

(* What is beside it changes nothing of the mapping but the arguments of calls. *)
LEMMA BesideStays ==
  ASSUME TypeOK, NEW t \in CacheUsers, Beside(t)
  PROVE  /\ UNCHANGED <<db, view, pc, outcome, it, changed>>
         /\ calls' \in 0..MaxCalls
         /\ \/ call' = call
            \/ \E k \in Keys : call' = [call EXCEPT ![t] = [key |-> k, val |-> Absent]]
<1>1. CASE Fill(t) \/ Uncache(t) \/ ChainEnds(t)
  BY <1>1 DEF Fill, Uncache, ChainEnds, dictVars, TypeOK, DictTypeOK
<1>2. CASE \E k \in Keys : CacheDelete(t, k)
  BY <1>2 DEF CacheDelete, TypeOK, DictTypeOK
<1>3. CASE \E k \in Keys : ChainGet(t, k)
  <2>1. calls' \in {calls, calls + 1} /\ calls < MaxCalls
    BY <1>3 DEF ChainGet
  <2>2. calls \in 0..MaxCalls /\ MaxCalls \in Nat
    BY CallsAssumption DEF TypeOK, DictTypeOK, CallsAssumption
  <2>3. calls' \in 0..MaxCalls
    BY <2>1, <2>2
  <2> QED
    BY <1>3, <2>3 DEF ChainGet
<1>4. CASE \E k \in Keys, v \in Values : UpdateCache(t, k, v)
  BY <1>4, CallsAssumption DEF UpdateCache, TypeOK, DictTypeOK, CallsAssumption
<1> QED
  BY <1>1, <1>2, <1>3, <1>4 DEF Beside

-----------------------------------------------------------------------------
(* Types *)

LEMMA TypeInit ==
  ASSUME Init
  PROVE  TypeOK
<1>1. db \in Databases
  BY FilledAssumption DEF Init, DictInit, FilledAssumption, Databases
<1>2. NoCall \in [key : Keys \cup {<<>>}, val : Values \cup {Absent}]
  BY DEF NoCall
<1>3. [k \in Keys |-> Absent] \in Databases
  BY DEF Databases
<1>4. NoIterator \in Iterators
  BY <1>3, IteratorType DEF NoIterator
<1>5. DictTypeOK
  BY <1>1, <1>2, <1>4, CallsAssumption DEF Init, DictInit, DictTypeOK, CallsAssumption
<1> QED
  BY <1>5 DEF Init, TypeOK

LEMMA TypeNext ==
  ASSUME TypeOK, \A t \in Threads : Called(t), [Next]_vars
  PROVE  TypeOK'
<1>1. CASE \E t \in Threads : Mapping(t)
  <2>1. PICK t \in Threads : Mapping(t)
    BY <1>1
  <2>2. DictTypeOK'
    BY <2>1, DictMovesType DEF Mapping, DictMoves, TypeOK
  <2>3. overwritten' \subseteq Keys /\ dirty' \in [Threads -> BOOLEAN]
    BY <2>1 DEF Mapping, Tracks, TypeOK
  <2> QED
    BY <2>1, <2>2, <2>3 DEF Mapping, TypeOK
<1>2. CASE \E t \in CacheUsers : Through(t)
  <2>1. PICK t \in CacheUsers : Through(t)
    BY <1>2
  <2>2. t \in Threads /\ DictMoves(t)
    BY <2>1, Users, ThroughMoves
  <2>3. DictTypeOK'
    BY <2>2, DictMovesType DEF TypeOK
  <2>4. overwritten' \subseteq Keys /\ dirty' \in [Threads -> BOOLEAN]
    BY <2>1 DEF Through, Delete, ChainFirst, Miss, CacheSet, Tracks, TypeOK, cacheVars
  <2>5. cpc' \in [Threads -> {"idle", "filling", "uncaching", "deleting",
                             "chaining", "first", "second"}]
    BY <2>1 DEF Through, Delete, ChainFirst, Miss, CacheSet, TypeOK, cacheVars
  <2>6. cache' = cache
    BY <2>1 DEF Through, Delete, ChainFirst, Miss, CacheSet, cacheVars
  <2> QED
    BY <2>3, <2>4, <2>5, <2>6 DEF TypeOK
<1>3. CASE \E t \in CacheUsers : Beside(t)
  <2>1. PICK t \in CacheUsers : Beside(t)
    BY <1>3
  <2>2. t \in Threads
    BY Users
  <2>3. /\ UNCHANGED <<db, view, pc, outcome, it, changed>>
        /\ calls' \in 0..MaxCalls
        /\ \/ call' = call
           \/ \E k \in Keys : call' = [call EXCEPT ![t] = [key |-> k, val |-> Absent]]
    BY <2>1, BesideStays
  <2>4. call' \in [Threads -> [key : Keys \cup {<<>>}, val : Values \cup {Absent}]]
    <3>1. CASE \E k \in Keys : call' = [call EXCEPT ![t] = [key |-> k, val |-> Absent]]
      <4>1. PICK k \in Keys : call' = [call EXCEPT ![t] = [key |-> k, val |-> Absent]]
        BY <3>1
      <4>2. PICK c : c = [key |-> k, val |-> Absent]
        OBVIOUS
      <4>3. c \in [key : Keys \cup {<<>>}, val : Values \cup {Absent}]
        BY <4>2
      <4> QED
        BY <4>1, <4>2, <4>3 DEF TypeOK, DictTypeOK
    <3> QED
      BY <2>3, <3>1 DEF TypeOK, DictTypeOK
  <2>5. DictTypeOK'
    BY <2>3, <2>4 DEF TypeOK, DictTypeOK
  <2>6. overwritten' \subseteq Keys /\ dirty' \in [Threads -> BOOLEAN]
    <3>1. CASE Fill(t)
      BY <2>2, <3>1 DEF Fill, Called, TypeOK
    <3> QED
      BY <2>1, <3>1 DEF Beside, Uncache, ChainEnds, CacheDelete, ChainGet, UpdateCache, TypeOK
  <2>7. cpc' \in [Threads -> {"idle", "filling", "uncaching", "deleting",
                             "chaining", "first", "second"}]
    BY <2>1 DEF Beside, Fill, Uncache, ChainEnds, CacheDelete, ChainGet, UpdateCache, TypeOK
  <2>8. DOMAIN cache' \subseteq Keys /\ \A k \in DOMAIN cache' : cache'[k] \in Values
    <3>1. CASE Fill(t)
      <4>1. call[t].key \in Keys
        BY <2>2, <3>1 DEF Fill, Called
      <4> QED
        BY <3>1, <4>1 DEF Fill, Put, TypeOK
    <3>2. CASE Uncache(t)
      BY <3>2 DEF Uncache, Without, TypeOK
    <3>3. CASE \E k \in Keys, v \in Values : UpdateCache(t, k, v)
      BY <3>3 DEF UpdateCache, Put, TypeOK
    <3> QED
      BY <2>1, <3>1, <3>2, <3>3 DEF Beside, ChainEnds, CacheDelete, ChainGet, TypeOK
  <2> QED
    BY <2>5, <2>6, <2>7, <2>8 DEF TypeOK
<1>4. CASE UNCHANGED vars
  BY <1>4 DEF vars, dictVars, cacheVars, TypeOK, DictTypeOK
<1> QED
  BY <1>1, <1>2, <1>3, <1>4, NextSteps

-----------------------------------------------------------------------------
(* What the methods rely on *)

LEMMA IdleSound ==
  ASSUME NEW u \in Threads, cpc'[u] = "idle"
  PROVE  Sound(u)'
BY DEF Sound, Called, Standing, Current

(* A thread that does not move is as sound as before, unless its key was changed *)
(* and that not noted.                                                           *)
LEMMA Quiet ==
  ASSUME NEW u \in Threads, Sound(u),
         cpc'[u] = cpc[u], pc'[u] = pc[u], call'[u] = call[u], outcome'[u] = outcome[u],
         cpc[u] # "idle" /\ ~dirty'[u] =>
           ~dirty[u] /\ db'[call[u].key] = db[call[u].key]
  PROVE  Sound(u)'
<1>1. Called(u)' /\ Standing(u)'
  BY DEF Sound, Called, Standing
<1>2. CASE cpc[u] = "idle"
  BY <1>2, IdleSound
<1>3. CASE cpc[u] # "idle"
  BY <1>1, <1>3 DEF Sound, Current
<1> QED
  BY <1>2, <1>3

(* A change of a thread's key is noted. *)
LEMMA TracksNotes ==
  ASSUME TypeOK, Tracks, NEW u \in Threads, call'[u] = call[u], call[u].key \in Keys, ~dirty'[u]
  PROVE  ~dirty[u] /\ db'[call[u].key] = db[call[u].key]
BY DEF Tracks, TypeOK

(* A step of the mapping by one thread, as the others see it *)
LEMMA OthersSound ==
  ASSUME TypeOK, NEW t \in Threads, DictMoves(t), Tracks \/ UNCHANGED db,
         NEW u \in Threads, u # t, Sound(u), cpc'[u] = cpc[u], 
         ~Tracks => dirty'[u] = dirty[u]
  PROVE  Sound(u)'
<1>1. pc'[u] = pc[u] /\ call'[u] = call[u] /\ outcome'[u] = outcome[u]
  BY DictMovesOthers DEF TypeOK
<1>2. ASSUME cpc[u] # "idle", ~dirty'[u]
      PROVE  ~dirty[u] /\ db'[call[u].key] = db[call[u].key]
  <2>1. call[u].key \in Keys
    BY <1>2 DEF Sound, Called
  <2>2. CASE Tracks
    BY <1>1, <1>2, <2>1, <2>2, TracksNotes
  <2>3. CASE ~Tracks
    BY <1>2, <2>3
  <2> QED
    BY <2>2, <2>3
<1> QED
  BY <1>1, <1>2, Quiet

LEMMA MappingSound ==
  ASSUME TypeOK, NEW t \in Threads, Mapping(t), NEW u \in Threads, Sound(u)
  PROVE  Sound(u)'
<1>1. CASE cpc[u] = "idle"
  BY <1>1, IdleSound DEF Mapping
<1>2. CASE u # t
  BY <1>2, OthersSound DEF Mapping, DictMoves
<1>3. CASE u = t /\ cpc[t] # "idle"
  <2>1. DictRuns(t) /\ Tracks /\ cpc' = cpc
    BY <1>3 DEF Mapping
  <2>2. pc[t] \in {"deserializing", "serializing", "popping"}
    BY <2>1 DEF DictRuns, GotItem, DoneSetItem, DonePop
  <2>3. pc[t] = "deserializing" /\ cpc[t] \in {"filling", "first"}
    BY <1>3, <2>2 DEF Sound, Standing, TypeOK
  <2>4. GotItem(t)
    BY <2>1, <2>3 DEF DictRuns, DoneSetItem, DonePop
  <2>5. /\ pc'[t] = "idle" /\ outcome'[t] \in {call[t].val, "raised"}
        /\ call' = call /\ db' = db
    BY <2>4 DEF GotItem, Ends, TypeOK, DictTypeOK
  <2>6. call[t].key \in Keys /\ t \in CacheUsers
    BY <1>3 DEF Sound, Called
  <2>7. ~dirty'[t] => ~dirty[t]
    BY <2>1, <2>5, <2>6, TracksNotes
  <2>8. Called(t)' /\ Standing(t)'
    BY <2>1, <2>3, <2>5, <2>6 DEF Called, Standing
  <2>9. Current(t)'
    BY <1>3, <2>1, <2>3, <2>5, <2>7 DEF Sound, Current
  <2> QED
    BY <1>3, <2>8, <2>9 DEF Sound
<1> QED
  BY <1>1, <1>2, <1>3

LEMMA ThroughSound ==
  ASSUME TypeOK, NEW t \in CacheUsers, Through(t), \A u \in Threads : Sound(u),
         NEW u \in Threads
  PROVE  Sound(u)'
<1>a. t \in Threads /\ Seen(t) = db
  BY Users
<1>b. DictMoves(t)
  BY <1>a, ThroughMoves DEF Sound
<1>1. CASE u # t
  <2>1. cpc'[u] = cpc[u]
    BY <1>1 DEF Through, Delete, ChainFirst, Miss, CacheSet, TypeOK, cacheVars
  <2>2. \/ Tracks
        \/ UNCHANGED db /\ dirty'[u] = dirty[u]
    BY <1>1 DEF Through, Delete, ChainFirst, Miss, CacheSet, GetItem, SetItem, TypeOK, cacheVars
  <2> QED
    BY <1>1, <1>a, <1>b, <2>1, <2>2, OthersSound
<1>2. CASE u = t
  <2>1. CASE Delete(t) \/ \E k \in Keys, v \in Values : CacheSet(t, k, v)
    <3>1. cpc'[t] = "idle"
      BY <2>1, <1>a DEF Delete, CacheSet, cacheVars, TypeOK
    <3> QED
      BY <1>2, <3>1, IdleSound
  <2>2. CASE \E k \in Keys : Miss(t, k)
    <3>1. PICK k \in Keys : Miss(t, k)
      BY <2>2
    <3>2. PICK c : c = [key |-> k, val |-> db[k]]
      OBVIOUS
    <3>3. c.key = k /\ c.val = db[k]
      BY <3>2
    <3>4. /\ call'[t] = c /\ db' = db /\ cpc'[t] = "filling"
          /\ IF db[k] = Absent THEN Ends(t, Absent) ELSE Calls(t, "deserializing")
      BY <3>1, <3>2, <1>a DEF Miss, GetItem, Starts, TypeOK, DictTypeOK
    <3>5. \/ pc'[t] = "idle" /\ outcome'[t] = db[k]
          \/ pc'[t] = "deserializing"
      BY <3>4, <1>a DEF Ends, Calls, TypeOK, DictTypeOK
    <3> QED
      BY <1>2, <3>3, <3>4, <3>5 DEF Sound, Called, Standing, Current
  <2>3. CASE ChainFirst(t)
    <3>1. PICK k : k = call[t].key
      OBVIOUS
    <3>2. PICK c : c = [key |-> k, val |-> db[k]]
      OBVIOUS
    <3>3. c.key = k /\ c.val = db[k]
      BY <3>2
    <3>4. /\ call'[t] = c /\ db' = db /\ cpc'[t] = "first" /\ cpc[t] = "chaining"
          /\ IF db[k] = Absent THEN Ends(t, Absent) ELSE Calls(t, "deserializing")
          /\ dirty' = dirty
      BY <2>3, <3>1, <3>2, <1>a DEF ChainFirst, GetItem, Starts, TypeOK, DictTypeOK
    <3>5. \/ pc'[t] = "idle" /\ outcome'[t] = db[k]
          \/ pc'[t] = "deserializing"
      BY <3>4, <1>a DEF Ends, Calls, TypeOK, DictTypeOK
    <3>6. k \in Keys /\ (~dirty[t] => db[k] # Absent)
      BY <3>1, <3>4, <1>2 DEF Sound, Called, Current
    <3> QED
      BY <1>2, <3>3, <3>4, <3>5, <3>6 DEF Sound, Called, Standing, Current
  <2> QED
    BY <2>1, <2>2, <2>3 DEF Through
<1> QED
  BY <1>1, <1>2

LEMMA BesideSound ==
  ASSUME TypeOK, NEW t \in CacheUsers, Beside(t), NEW u \in Threads, Sound(u)
  PROVE  Sound(u)'
<1>a. t \in Threads /\ Seen(t) = db
  BY Users
<1>b. UNCHANGED <<db, pc, outcome>>
  BY BesideStays
<1>1. CASE u # t \/ \E k \in Keys, v \in Values : UpdateCache(t, k, v)
  <2>1. cpc'[u] = cpc[u] /\ call'[u] = call[u] /\ dirty'[u] = dirty[u]
    BY <1>1, <1>a DEF Beside, Fill, Uncache, ChainEnds, CacheDelete, ChainGet, UpdateCache,
                TypeOK, DictTypeOK, dictVars
  <2> QED
    BY <1>b, <2>1, Quiet
<1>2. CASE u = t /\ (Fill(t) \/ ChainEnds(t))
  <2>1. cpc'[t] = "idle"
    BY <1>2, <1>a DEF Fill, ChainEnds, TypeOK
  <2> QED
    BY <1>2, <2>1, IdleSound
<1>3. CASE u = t /\ Uncache(t)
  <2>1. /\ cpc[t] = "uncaching" /\ cpc'[t] \in {"deleting", "idle"}
        /\ call' = call
    BY <1>3, <1>a DEF Uncache, TypeOK, dictVars
  <2> QED
    BY <1>3, <1>b, <2>1 DEF Sound, Called, Standing, Current
<1>4. CASE u = t /\ \E k \in Keys : CacheDelete(t, k) \/ ChainGet(t, k)
  <2>1. PICK k \in Keys : CacheDelete(t, k) \/ ChainGet(t, k)
    BY <1>4
  <2>2. PICK c : c = [key |-> k, val |-> Absent]
    OBVIOUS
  <2>3. c.key = k
    BY <2>2
  <2>4. call'[t] = c /\ pc[t] = "idle"
    BY <2>1, <2>2, <1>a DEF CacheDelete, ChainGet, TypeOK, DictTypeOK
  <2>5. \/ cpc'[t] = "uncaching"
        \/ cpc'[t] = "second" /\ db[k] = Absent
        \/ cpc'[t] = "chaining" /\ db[k] # Absent
    BY <2>1, <1>a DEF CacheDelete, ChainGet, TypeOK
  <2> QED
    BY <1>4, <1>b, <2>3, <2>4, <2>5 DEF Sound, Called, Standing, Current
<1> QED
  BY <1>1, <1>2, <1>3, <1>4 DEF Beside

-----------------------------------------------------------------------------
(* The cache *)

LEMMA MappingCache ==
  ASSUME TypeOK, CacheHoldsWhatWasRead, Tracks, cache' = cache
  PROVE  CacheHoldsWhatWasRead'
<1>1. /\ overwritten \subseteq overwritten'
      /\ \A k \in Keys : k \notin overwritten' => db'[k] = db[k]
  BY DEF Tracks
<1> QED
  BY <1>1 DEF CacheHoldsWhatWasRead, TypeOK

LEMMA ThroughCache ==
  ASSUME TypeOK, CacheHoldsWhatWasRead, NEW t \in CacheUsers, Through(t)
  PROVE  CacheHoldsWhatWasRead'
<1>1. CASE Delete(t)
  BY <1>1, MappingCache DEF Delete
<1>2. CASE ChainFirst(t) \/ \E k \in Keys : Miss(t, k) \/ \E v \in Values : CacheSet(t, k, v)
  <2>1. UNCHANGED <<db, cache, overwritten>>
    BY <1>2 DEF ChainFirst, Miss, CacheSet, GetItem, SetItem, cacheVars
  <2> QED
    BY <2>1 DEF CacheHoldsWhatWasRead
<1> QED
  BY <1>1, <1>2 DEF Through

(* What is filled in was read, and the key noted if it was changed since. *)
LEMMA BesideCache ==
  ASSUME TypeOK, CacheHoldsWhatWasRead, NEW t \in CacheUsers, Beside(t), Sound(t)
  PROVE  CacheHoldsWhatWasRead'
<1>b. db' = db
  BY BesideStays
<1>1. CASE Fill(t)
  <2>1. CASE outcome[t] \in Values
    <3>1. PICK k : k = call[t].key
      OBVIOUS
    <3>2. /\ cpc[t] = "filling" /\ pc[t] = "idle"
          /\ cache' = [x \in DOMAIN cache \cup {k} |-> IF x = k THEN outcome[t] ELSE cache[x]]
          /\ overwritten' = IF dirty[t] THEN overwritten \cup {k} ELSE overwritten \ {k}
      BY <1>1, <2>1, <3>1 DEF Fill, Put
    <3>3. outcome[t] # "raised"
      BY <2>1, ValuesAssumption DEF ValuesAssumption
    <3>4. ~dirty[t] => outcome[t] = db[k]
      BY <3>1, <3>2, <3>3 DEF Sound, Current
    <3> QED
      BY <1>b, <3>2, <3>4 DEF CacheHoldsWhatWasRead
  <2>2. CASE outcome[t] \notin Values
    BY <1>1, <1>b, <2>2 DEF Fill, CacheHoldsWhatWasRead
  <2> QED
    BY <2>1, <2>2
<1>2. CASE Uncache(t)
  BY <1>2, <1>b DEF Uncache, Without, CacheHoldsWhatWasRead
<1>3. CASE \E k \in Keys, v \in Values : UpdateCache(t, k, v)
  BY <1>3, <1>b DEF UpdateCache, Put, CacheHoldsWhatWasRead
<1>4. CASE ChainEnds(t) \/ \E k \in Keys : CacheDelete(t, k) \/ ChainGet(t, k)
  <2>1. UNCHANGED <<cache, overwritten>>
    BY <1>4 DEF ChainEnds, CacheDelete, ChainGet
  <2> QED
    BY <1>b, <2>1 DEF CacheHoldsWhatWasRead
<1> QED
  BY <1>1, <1>2, <1>3, <1>4 DEF Beside

LEMMA IInvInit ==
  ASSUME Init
  PROVE  IInv
<1>1. \A t \in Threads : Sound(t)
  BY DEF Init, Sound, Called, Standing, Current
<1>2. CacheHoldsWhatWasRead
  BY DEF Init, CacheHoldsWhatWasRead
<1> QED
  BY <1>1, <1>2, TypeInit DEF IInv

LEMMA IInvNext ==
  ASSUME IInv, [Next]_vars
  PROVE  IInv'
<1>t. TypeOK'
  BY TypeNext DEF IInv, Sound
<1>1. CASE \E t \in Threads : Mapping(t)
  <2>1. PICK t \in Threads : Mapping(t)
    BY <1>1
  <2>2. \A u \in Threads : Sound(u)'
    BY <2>1, MappingSound DEF IInv
  <2>3. CacheHoldsWhatWasRead'
    BY <2>1, MappingCache DEF IInv, Mapping
  <2> QED
    BY <1>t, <2>2, <2>3 DEF IInv
<1>2. CASE \E t \in CacheUsers : Through(t)
  <2>1. PICK t \in CacheUsers : Through(t)
    BY <1>2
  <2>2. \A u \in Threads : Sound(u)'
    BY <2>1, ThroughSound DEF IInv
  <2>3. CacheHoldsWhatWasRead'
    BY <2>1, ThroughCache DEF IInv
  <2> QED
    BY <1>t, <2>2, <2>3 DEF IInv
<1>3. CASE \E t \in CacheUsers : Beside(t)
  <2>1. PICK t \in CacheUsers : Beside(t)
    BY <1>3
  <2>2. \A u \in Threads : Sound(u)'
    BY <2>1, BesideSound DEF IInv
  <2>3. Sound(t)
    BY <2>1, Users DEF IInv
  <2>4. CacheHoldsWhatWasRead'
    BY <2>1, <2>3, BesideCache DEF IInv
  <2> QED
    BY <1>t, <2>2, <2>4 DEF IInv
<1>4. CASE UNCHANGED vars
  <2>1. \A u \in Threads : Sound(u)'
    BY <1>4, Quiet DEF IInv, vars, dictVars, cacheVars
  <2>2. CacheHoldsWhatWasRead'
    BY <1>4 DEF IInv, vars, dictVars, cacheVars, CacheHoldsWhatWasRead
  <2> QED
    BY <1>t, <2>1, <2>2 DEF IInv
<1> QED
  BY <1>1, <1>2, <1>3, <1>4, NextSteps

LEMMA IInvHolds == Spec => []IInv
BY IInvInit, IInvNext, PTL DEF Spec

-----------------------------------------------------------------------------
(* Operations and iterators, whatever the methods over the mapping do *)

DInv == \A t \in Threads : Harmless(t) /\ Accounts(it[t])

LEMMA DInvInit ==
  ASSUME Init
  PROVE  DInv
<1>1. "raised" # Absent
  BY ValuesAssumption DEF ValuesAssumption
<1>2. \A t \in Threads : Harmless(t)
  BY <1>1 DEF Init, DictInit, Harmless
<1>3. PICK i : i = NoIterator
  OBVIOUS
<1>4. /\ InOrder(i) /\ ToSet(i.seen) = {} /\ i.left = {} /\ i.raw = TRUE
      /\ i.snap = [k \in Keys |-> Absent]
  BY <1>3, IteratorInOrder DEF NoIterator, Iterator
<1>5. Present(i.snap) = {}
  BY <1>4 DEF Present
<1>6. Accounts(i)
  BY <1>4, <1>5 DEF Accounts
<1>7. \A t \in Threads : it[t] = i
  BY <1>3 DEF Init, DictInit
<1> QED
  BY <1>2, <1>6, <1>7 DEF DInv

(* A step moves the mapping for one thread or leaves operations and iterators alone. *)
LEMMA NextMoves ==
  ASSUME IInv, [Next]_vars
  PROVE  \/ \E t \in Threads : DictMoves(t)
         \/ UNCHANGED <<pc, outcome, it, changed>>
<1>1. CASE \E t \in Threads : Mapping(t)
  BY <1>1 DEF Mapping, DictMoves
<1>2. CASE \E t \in CacheUsers : Through(t)
  BY <1>2, Users, ThroughMoves DEF IInv, Sound
<1>3. CASE \E t \in CacheUsers : Beside(t)
  BY <1>3, BesideStays DEF IInv
<1>4. CASE UNCHANGED vars
  BY <1>4 DEF vars, dictVars
<1> QED
  BY <1>1, <1>2, <1>3, <1>4, NextSteps

LEMMA DInvNext ==
  ASSUME IInv, DInv, [Next]_vars
  PROVE  DInv'
<1>1. CASE \E t \in Threads : DictMoves(t)
  <2>1. PICK t \in Threads : DictMoves(t)
    BY <1>1
  <2>2. DictTypeOK
    BY DEF IInv, TypeOK
  <2>3. ASSUME NEW u \in Threads
        PROVE  Harmless(u)' /\ Accounts(it'[u])
    <3>1. CASE u = t
      BY <2>1, <2>2, <3>1, DictMovesHarmless, DictMovesAccounts DEF DInv
    <3>2. CASE u # t
      <4>1. pc'[u] = pc[u] /\ outcome'[u] = outcome[u] /\ it'[u] = it[u] /\ changed'[u] = changed[u]
        BY <2>1, <2>2, <3>2, DictMovesOthers
      <4> QED
        BY <4>1 DEF DInv, Harmless
    <3> QED
      BY <3>1, <3>2
  <2> QED
    BY <2>3 DEF DInv
<1>2. CASE UNCHANGED <<pc, outcome, it, changed>>
  BY <1>2 DEF DInv, Harmless
<1> QED
  BY <1>1, <1>2, NextMoves

LEMMA DInvHolds == Spec => []DInv
<1>1. Init => DInv
  BY DInvInit
<1>2. IInv /\ DInv /\ [Next]_vars => DInv'
  BY DInvNext
<1> QED
  BY <1>1, <1>2, IInvHolds, PTL DEF Spec

-----------------------------------------------------------------------------
(* Every variable of a mapping, of a cache over it and of a chain is what its *)
(* declaration says.                                                          *)
THEOREM DictTypes == Spec => []TypeOK
BY IInvHolds, PTL DEF IInv

(* An operation that raised has changed nothing, whatever the other threads did *)
(* while its serializer or deserializer ran (impl_set, impl_pop).               *)
THEOREM FailuresAreHarmless == Spec => []FailedCallsChangeNothing
<1>1. DInv => FailedCallsChangeNothing
  BY DEF DInv, Harmless, FailedCallsChangeNothing
<1> QED
  BY <1>1, DInvHolds, PTL

(* keys, values and items yield what there was when they were called, in order, *)
(* although other threads write meanwhile and deserializers raise.              *)
THEOREM RawIterators == Spec => []RawIteratorsAreSnapshots
<1>1. DInv => RawIteratorsAreSnapshots
  BY DEF DInv, Accounts, RawIteratorsAreSnapshots
<1> QED
  BY <1>1, DInvHolds, PTL

(* seek_keys and seek_items with a prefix as long as the extractor's yield the keys *)
(* that begin with it, but for those whose deserializer raised.                     *)
THEOREM PrefixIterators == Spec => []PrefixIteratorsMatch
<1>1. DInv => PrefixIteratorsMatch
  BY DEF DInv, Accounts, PrefixIteratorsMatch
<1> QED
  BY <1>1, DInvHolds, PTL

(* What a CacheDict holds differs from the mapping only where that was written *)
(* since the read that filled it, or update_cache said so.                     *)
THEOREM CacheIsRead == Spec => []CacheHoldsWhatWasRead
BY IInvHolds, PTL DEF IInv

(* A get of a ChainedMapping whose key nobody changes finds it where it is. *)
THEOREM ChainIsSearched == Spec => []ChainFinds
<1>1. IInv => ChainFinds
  <2> SUFFICES ASSUME IInv, NEW t \in CacheUsers,
                      cpc[t] \in {"first", "second"}, pc[t] = "idle", ~dirty[t]
               PROVE  ChainAnswer(t) \in {"raised", IF db[call[t].key] # Absent
                                                   THEN db[call[t].key]
                                                   ELSE Second[call[t].key]}
    BY DEF ChainFinds
  <2>1. Current(t)
    BY Users DEF IInv, Sound
  <2> QED
    BY <2>1 DEF Current, ChainAnswer
<1> QED
  BY <1>1, IInvHolds, PTL

-----------------------------------------------------------------------------
(* The order of the bytes *)

(* a and b first differ at n: a ends there, or has the lesser byte. *)
Splits(a, b, n) ==
  /\ n \in 1..Len(b) /\ n <= Len(a) + 1
  /\ \A i \in 1..(n - 1) : a[i] = b[i]
  /\ n <= Len(a) => a[n] < b[n]

LEMMA SubSeqAgree ==
  ASSUME NEW a \in Seq(Nat), NEW b \in Seq(Nat), NEW n \in Nat, n <= Len(a), n <= Len(b)
  PROVE  SubSeq(a, 1, n) = SubSeq(b, 1, n) <=> \A i \in 1..n : a[i] = b[i]
<1>1. /\ SubSeq(a, 1, n) \in Seq(Nat) /\ Len(SubSeq(a, 1, n)) = n
      /\ \A i \in 1..n : SubSeq(a, 1, n)[i] = a[i]
  <2>1. \A i \in 1..n : a[i] \in Nat
    OBVIOUS
  <2> QED
    BY <2>1, SubSeqProperties
<1>2. /\ SubSeq(b, 1, n) \in Seq(Nat) /\ Len(SubSeq(b, 1, n)) = n
      /\ \A i \in 1..n : SubSeq(b, 1, n)[i] = b[i]
  <2>1. \A i \in 1..n : b[i] \in Nat
    OBVIOUS
  <2> QED
    BY <2>1, SubSeqProperties
<1>3. ASSUME \A i \in 1..n : a[i] = b[i]
      PROVE  SubSeq(a, 1, n) = SubSeq(b, 1, n)
  <2>1. \A i \in 1..Len(SubSeq(a, 1, n)) : SubSeq(a, 1, n)[i] = SubSeq(b, 1, n)[i]
    BY <1>1, <1>2, <1>3
  <2> QED
    BY <1>1, <1>2, <2>1, SeqEqual
<1> QED
  BY <1>1, <1>2, <1>3

LEMMA PrefixAgrees ==
  ASSUME NEW a \in Seq(Nat), NEW b \in Seq(Nat)
  PROVE  IsPrefix(a, b) <=> Len(a) <= Len(b) /\ \A i \in 1..Len(a) : a[i] = b[i]
<1>1. Len(a) \in Nat /\ Len(a) <= Len(a)
  OBVIOUS
<1> QED
  BY <1>1, SubSeqAgree DEF IsPrefix

LEMMA BelowSplits ==
  ASSUME NEW a \in Seq(Nat), NEW b \in Seq(Nat)
  PROVE  Below(a, b) <=> \E n \in Nat : Splits(a, b, n)
<1>l. Len(a) \in Nat /\ Len(b) \in Nat
  OBVIOUS
<1>1. ASSUME IsStrictPrefix(a, b)
      PROVE  Splits(a, b, Len(a) + 1)
  <2>1. Len(a) <= Len(b) /\ a # b /\ \A i \in 1..Len(a) : a[i] = b[i]
    BY <1>1, PrefixAgrees DEF IsStrictPrefix
  <2>2. Len(a) # Len(b)
    BY <2>1, SeqEqual
  <2> QED
    BY <1>l, <2>1, <2>2 DEF Splits
<1>2. ASSUME NEW n \in 1..Len(a), n <= Len(b),
             SubSeq(a, 1, n - 1) = SubSeq(b, 1, n - 1), a[n] < b[n]
      PROVE  Splits(a, b, n)
  <2>1. n - 1 \in Nat /\ n - 1 <= Len(a) /\ n - 1 <= Len(b)
    BY <1>l, <1>2
  <2>2. \A i \in 1..(n - 1) : a[i] = b[i]
    BY <1>2, <2>1, SubSeqAgree
  <2> QED
    BY <1>l, <1>2, <2>2 DEF Splits
<1>3. ASSUME NEW n \in Nat, Splits(a, b, n)
      PROVE  Below(a, b)
  <2>1. CASE n <= Len(a)
    <3>1. n - 1 \in Nat /\ n - 1 <= Len(a) /\ n - 1 <= Len(b) /\ n \in 1..Len(a) /\ n <= Len(b)
      BY <1>l, <1>3, <2>1 DEF Splits
    <3>2. SubSeq(a, 1, n - 1) = SubSeq(b, 1, n - 1) /\ a[n] < b[n]
      BY <1>3, <2>1, <3>1, SubSeqAgree DEF Splits
    <3> QED
      BY <3>1, <3>2 DEF Below
  <2>2. CASE ~(n <= Len(a))
    <3>1. n = Len(a) + 1 /\ Len(a) <= Len(b) /\ Len(a) # Len(b)
      BY <1>l, <1>3, <2>2 DEF Splits
    <3>2. IsPrefix(a, b) /\ a # b
      BY <1>3, <3>1, PrefixAgrees DEF Splits
    <3> QED
      BY <3>2 DEF Below, IsStrictPrefix
  <2> QED
    BY <2>1, <2>2
<1>4. ASSUME Below(a, b)
      PROVE  \E n \in Nat : Splits(a, b, n)
  <2>1. CASE IsStrictPrefix(a, b)
    BY <1>1, <1>l, <2>1
  <2>2. CASE \E n \in 1..Len(a) :
               /\ n <= Len(b) /\ SubSeq(a, 1, n - 1) = SubSeq(b, 1, n - 1)
               /\ a[n] < b[n]
    BY <1>2, <2>2
  <2> QED
    BY <1>4, <2>1, <2>2 DEF Below
<1> QED
  BY <1>3, <1>4

LEMMA BelowIrreflexive ==
  ASSUME NEW a \in Seq(Nat)
  PROVE  ~Below(a, a)
<1>1. \A n \in 1..Len(a) : ~(a[n] < a[n])
  OBVIOUS
<1> QED
  BY <1>1 DEF Below, IsStrictPrefix

LEMMA BelowTransitive ==
  ASSUME NEW a \in Seq(Nat), NEW b \in Seq(Nat), NEW c \in Seq(Nat), Below(a, b), Below(b, c)
  PROVE  Below(a, c)
<1>l. Len(a) \in Nat /\ Len(b) \in Nat /\ Len(c) \in Nat
  OBVIOUS
<1>v. /\ \A i \in 1..Len(a) : a[i] \in Nat
      /\ \A i \in 1..Len(b) : b[i] \in Nat
      /\ \A i \in 1..Len(c) : c[i] \in Nat
  OBVIOUS
<1>1. PICK n \in Nat : Splits(a, b, n)
  BY BelowSplits
<1>2. PICK m \in Nat : Splits(b, c, m)
  BY BelowSplits
<1>3. n \in 1..Len(b) /\ n <= Len(a) + 1 /\ m \in 1..Len(c) /\ m <= Len(b) + 1
  BY <1>1, <1>2 DEF Splits
<1>4. /\ \A i \in 1..(n - 1) : a[i] = b[i]
      /\ \A i \in 1..(m - 1) : b[i] = c[i]
      /\ n <= Len(a) => a[n] < b[n]
      /\ m <= Len(b) => b[m] < c[m]
  BY <1>1, <1>2 DEF Splits
<1>5. CASE n < m
  <2>1. n \in 1..(m - 1) /\ n \in 1..Len(c)
    BY <1>l, <1>3, <1>5
  <2>2. \A i \in 1..(n - 1) : i \in 1..(m - 1)
    BY <1>3, <1>5
  <2>3. Splits(a, c, n)
    BY <1>3, <1>4, <2>1, <2>2 DEF Splits
  <2> QED
    BY <2>3, BelowSplits
<1>6. CASE m <= n
  <2>1. m <= Len(b) /\ m <= Len(a) + 1 /\ b[m] < c[m] /\ m \in 1..Len(b)
    BY <1>l, <1>3, <1>4, <1>6
  <2>2. \A i \in 1..(m - 1) : i \in 1..(n - 1)
    BY <1>3, <1>6
  <2>3. m <= Len(a) => a[m] <= b[m] /\ m \in 1..Len(a)
    <3>1. CASE m = n
      <4>1. m <= Len(a) => a[m] < b[m] /\ m \in 1..Len(a)
        BY <1>l, <1>3, <1>4, <3>1
      <4>2. m \in 1..Len(a) => a[m] \in Nat
        BY <1>v
      <4>3. b[m] \in Nat
        BY <1>v, <2>1
      <4> QED
        BY <4>1, <4>2, <4>3
    <3>2. CASE m # n
      <4>1. m \in 1..(n - 1)
        BY <1>3, <1>6, <3>2
      <4>2. a[m] = b[m]
        BY <1>4, <4>1
      <4> QED
        BY <1>l, <1>v, <1>3, <2>1, <4>2
    <3> QED
      BY <3>1, <3>2
  <2>4. m <= Len(a) => a[m] < c[m]
    <3>1. m \in 1..Len(a) => a[m] \in Nat
      BY <1>v
    <3>2. b[m] \in Nat /\ c[m] \in Nat
      BY <1>v, <1>3, <2>1
    <3> QED
      BY <2>1, <2>3, <3>1, <3>2
  <2>5. Splits(a, c, m)
    BY <1>3, <1>4, <2>1, <2>2, <2>4 DEF Splits
  <2> QED
    BY <2>5, BelowSplits
<1> QED
  BY <1>5, <1>6

LEMMA BelowTotal ==
  ASSUME NEW a \in Seq(Nat), NEW b \in Seq(Nat), a # b
  PROVE  Below(a, b) \/ Below(b, a)
<1>l. Len(a) \in Nat /\ Len(b) \in Nat
  OBVIOUS
<1>v. /\ \A i \in 1..Len(a) : a[i] \in Nat
      /\ \A i \in 1..Len(b) : b[i] \in Nat
  OBVIOUS
<1> DEFINE T == {n \in Nat : n \in 1..Len(a) /\ n \in 1..Len(b) /\ a[n] # b[n]}
<1>1. CASE T = {}
  <2>1. \A i \in 1..Len(a) : i \in 1..Len(b) => a[i] = b[i]
    BY <1>1
  <2>2. CASE Len(a) <= Len(b)
    <3>1. IsPrefix(a, b)
      BY <1>l, <2>1, <2>2, PrefixAgrees
    <3> QED
      BY <3>1 DEF Below, IsStrictPrefix
  <2>3. CASE Len(b) <= Len(a)
    <3>1. IsPrefix(b, a)
      BY <1>l, <2>1, <2>3, PrefixAgrees
    <3> QED
      BY <3>1 DEF Below, IsStrictPrefix
  <2> QED
    BY <1>l, <2>2, <2>3
<1>2. CASE T # {}
  <2>1. PICK n \in T : \A m \in T : n <= m
    BY <1>2, LeastNat
  <2>2. /\ n \in Nat /\ n \in 1..Len(a) /\ n \in 1..Len(b)
        /\ a[n] # b[n] /\ a[n] \in Nat /\ b[n] \in Nat
    BY <2>1, <1>v
  <2>3. ASSUME NEW i \in 1..(n - 1) PROVE a[i] = b[i]
    <3>1. i \in Nat /\ i < n /\ i \in 1..Len(a) /\ i \in 1..Len(b)
      BY <1>l, <2>2
    <3>2. i \notin T
      BY <2>1, <2>2, <3>1
    <3> QED
      BY <3>1, <3>2
  <2>4. Splits(a, b, n) \/ Splits(b, a, n)
    BY <1>l, <2>2, <2>3 DEF Splits
  <2> QED
    BY <2>2, <2>4, BelowSplits
<1> QED
  BY <1>1, <1>2

Least(k, L) == \A x \in L \ {k} : Below(k, x)

LEMMA LeastKey ==
  ASSUME NEW S \in SUBSET Seq(Nat), IsFiniteSet(S), S # {}
  PROVE  \E k \in S : Least(k, S)
<1> DEFINE T == {L \in FiniteSubsetsOf(S) : L # {} /\ ~\E k \in L : Least(k, L)}
<1>1. SUFFICES T = {}
  <2>1. S \in FiniteSubsetsOf(S)
    BY DEF FiniteSubsetsOf
  <2> QED
    BY <1>1, <2>1
<1>2. SUFFICES ASSUME T # {} PROVE FALSE
  OBVIOUS
<1>3. PICK L \in T : \A M \in T : <<M, L>> \notin StrictSubsetOrdering(S)
  BY <1>2, FS_StrictSubsetOrderingWellFounded, WFMin
<1>4. /\ L \in SUBSET S /\ IsFiniteSet(L) /\ L # {} /\ ~\E k \in L : Least(k, L)
      /\ L \in SUBSET Seq(Nat)
  BY <1>3 DEF FiniteSubsetsOf
<1>5. PICK x \in L : TRUE
  BY <1>4
<1> DEFINE M == L \ {x}
<1>6. M \in SUBSET S /\ IsFiniteSet(M) /\ M \subseteq L /\ M # L
  BY <1>4, <1>5, FS_RemoveElement
<1>7. <<M, L>> \in StrictSubsetOrdering(S)
  BY <1>4, <1>6 DEF StrictSubsetOrdering
<1>8. M \in FiniteSubsetsOf(S)
  BY <1>6 DEF FiniteSubsetsOf
<1>9. CASE M = {}
  <2>1. Least(x, L)
    BY <1>9 DEF Least
  <2> QED
    BY <1>4, <1>5, <2>1
<1>10. CASE M # {}
  <2>1. PICK k \in M : Least(k, M)
    BY <1>3, <1>7, <1>8, <1>10
  <2>2. k \in Seq(Nat) /\ x \in Seq(Nat) /\ k # x /\ k \in L
    BY <1>4, <1>5, <2>1
  <2>3. CASE Below(k, x)
    <3>1. Least(k, L)
      BY <2>1, <2>3 DEF Least
    <3> QED
      BY <1>4, <2>2, <3>1
  <2>4. CASE Below(x, k)
    <3>1. \A y \in M : Below(x, y)
      BY <1>4, <2>1, <2>2, <2>4, BelowTransitive DEF Least
    <3>2. Least(x, L)
      BY <3>1 DEF Least
    <3> QED
      BY <1>4, <1>5, <3>2
  <2> QED
    BY <2>2, <2>3, <2>4, BelowTotal
<1> QED
  BY <1>9, <1>10

(* An iterator that has keys left has a least one, to which it can move. *)
IteratorsMove == \A t \in Threads : it[t].left # {} => \E k \in it[t].left : Least(k, it[t].left)

(* An iterator yields no key twice. *)
YieldsOnce ==
  \A t \in Threads : LET i == it[t] IN
    /\ \A m, n \in 1..Len(i.seen) : m # n => i.seen[m] # i.seen[n]
    /\ ToSet(i.seen) \cap i.left = {}

(* The order of the bytes is strict and total: the next key of an iterator (the  *)
(* __next__ of each of the iterators) exists as long as keys are left and is the *)
(* only one that can be next.                                                    *)
THEOREM NextKeyExists ==
  ASSUME IsFiniteSet(Keys)
  PROVE  Spec => []IteratorsMove
<1>1. TypeOK => IteratorsMove
  <2> SUFFICES ASSUME TypeOK, NEW t \in Threads, it[t].left # {}
               PROVE  \E k \in it[t].left : Least(k, it[t].left)
    BY DEF IteratorsMove
  <2>1. it[t].left \in SUBSET Keys
    BY DEF TypeOK, DictTypeOK, Iterators
  <2>2. IsFiniteSet(it[t].left) /\ it[t].left \in SUBSET Seq(Nat)
    BY <2>1, FS_Subset, KeysAssumption DEF KeysAssumption
  <2> QED
    BY <2>2, LeastKey
<1> QED
  BY <1>1, DictTypes, PTL

(* No iterator, raw or over a prefix, yields a key twice, whatever was written while *)
(* it ran.                                                                          *)
THEOREM KeysComeOnce == Spec => []YieldsOnce
<1>1. TypeOK /\ DInv => YieldsOnce
  <2> SUFFICES ASSUME TypeOK, DInv, NEW t \in Threads, NEW i, i = it[t]
               PROVE  /\ \A m, n \in 1..Len(i.seen) : m # n => i.seen[m] # i.seen[n]
                      /\ ToSet(i.seen) \cap i.left = {}
    BY DEF YieldsOnce
  <2>1. i \in Iterators /\ InOrder(i)
    BY DEF TypeOK, DictTypeOK, DInv, Accounts
  <2>2. i.seen \in Seq(Keys) /\ Len(i.seen) \in Nat
    BY <2>1 DEF Iterators
  <2>3. \A k \in Keys : ~Below(k, k)
    BY BelowIrreflexive, KeysAssumption DEF KeysAssumption
  <2>4. \A m \in 1..Len(i.seen) : i.seen[m] \in Keys
    BY <2>2
  <2>5. ASSUME NEW m \in 1..Len(i.seen), NEW n \in 1..Len(i.seen), m # n
        PROVE  i.seen[m] # i.seen[n]
    <3>1. m < n \/ n < m
      BY <2>2, <2>5
    <3> QED
      BY <2>1, <2>3, <2>4, <3>1 DEF InOrder
  <2>6. ToSet(i.seen) \cap i.left = {}
    <3>1. i.left \subseteq Keys
      BY <2>1 DEF Iterators
    <3> QED
      BY <2>1, <2>3, <3>1 DEF InOrder
  <2> QED
    BY <2>5, <2>6
<1> QED
  BY <1>1, DictTypes, DInvHolds, PTL
=============================================================================
