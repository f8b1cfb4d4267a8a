------------------------------ MODULE SqliteDict ------------------------------
(***************************************************************************)
(* Mappings kept in the tables of an SQLite file that several processes    *)
(* share (src/hugedict/sqlite.py): opening, with the marker file of        *)
(* SqliteDict.__init__ or without it (SqliteDict.multiple); the writes,    *)
(* each a transaction; iterators, whose statement stays open between two   *)
(* steps; and the memoized functions of cache_fn.                          *)
(*                                                                         *)
(* SQLite is external, with its rollback journal: a writer takes the       *)
(* RESERVED lock with its first statement and commits, behind a PENDING    *)
(* lock that keeps new readers out, when no other process has a statement  *)
(* open; a process that waits too long for a lock gets an exception; a     *)
(* transaction whose process dies is rolled back.  A read of one row takes *)
(* effect at one moment.                                                   *)
(***************************************************************************)
EXTENDS MemoKeys, FiniteSets

CONSTANTS
  Procs,          \* processes
  Keys, Values,   \* keys and values of the mappings
  Unserializable, \* the values ser_value raises on
  Absent,         \* no value
  Nobody,         \* no process
  Tables,         \* the tables there may be
  Opens,          \* Opens[p]: how p opens the file: [multiple, tables]
  Memo,           \* the table of cache_fn
  Fn,             \* the function it memoizes
  Forms,          \* the calls of that function
  Batches,        \* the arguments of batch_insert, as functions from keys to values
  MaxStarts,      \* bound: processes started
  MaxCalls,       \* bound: calls made
  MaxKills        \* bound: processes killed

ASSUME NamesAssumption ==
  /\ Absent \notin Keys \cup Values /\ Nobody \notin Procs
  /\ Unserializable \subseteq Values /\ Memo \in Tables
ASSUME OpensAssumption ==
  Opens \in [Procs -> [multiple : BOOLEAN, tables : Seq(Tables) \ {<<>>}]]
ASSUME BatchesAssumption == Batches \subseteq UNION {[S -> Values] : S \in SUBSET Keys}
ASSUME FormsAssumption == \A c \in Forms : KeyRaises(Fn, c) \/ DefaultKey(Fn, c) \in Keys
ASSUME BoundsAssumption == {MaxStarts, MaxCalls, MaxKills} \subseteq Nat

VARIABLES
  file,      \* the database file exists
  marker,    \* the marker file "<name>.inited" exists
  tables,    \* the tables that were created
  rows,      \* their committed rows
  writer,    \* the process that holds the RESERVED lock, or Nobody
  pc,        \* where each process stands
  todo,      \* the table a process creates next
  op,        \* the process's current call, or its last unless that raised, or NoOp
  cursor,    \* the process's current or last iterator, or NoCursor
  starts, calls, kills,
  landed,    \* history: the keys whose rows the call has committed
  outcome,   \* history: how the call ended, or "none"
  delivered, \* history: keys whose memoized value some caller has, not deleted since
  sure,      \* history: the processes whose key was delivered when their call began
  origin     \* history: the arguments each row was computed for, or Absent

fileVars == <<file, marker, tables, rows, writer>>
procVars == <<pc, todo, op, cursor>>
countVars == <<starts, calls, kills>>
historyVars == <<landed, outcome, delivered, sure, origin>>
vars == <<fileVars, procVars, countVars, historyVars>>

NoWrites == [k \in {} |-> Absent]
NoCall == [args |-> <<>>, kwargs |-> <<>>]

(* `call` and `got` are those of a memoized call: what the caller wrote and, history, *)
(* the arguments its result was computed for.                                         *)
Op(kind, t, k, w, c, g) ==
  [kind |-> kind, table |-> t, key |-> k, writes |-> w, call |-> c, got |-> g]

NoOp == Op("none", Memo, Absent, NoWrites, NoCall, Absent)

(* `left`: the keys of the rows to come; `seen`: the rows it has yielded; `start`: *)
(* history, the rows when it was made; `wrote`: its own process has changed them.  *)
Cursor(open, t, s, l, n, w) ==
  [open |-> open, table |-> t, start |-> s, left |-> l, seen |-> n, wrote |-> w]

NoCursor == Cursor(FALSE, Memo, [k \in Keys |-> Absent], {}, {}, FALSE)

Init ==
  /\ file = FALSE /\ marker = FALSE /\ tables = {}
  /\ rows = [t \in Tables |-> [k \in Keys |-> Absent]]
  /\ writer = Nobody
  /\ pc = [p \in Procs |-> "off"]
  /\ todo = [p \in Procs |-> 1]
  /\ op = [p \in Procs |-> NoOp]
  /\ cursor = [p \in Procs |-> NoCursor]
  /\ starts = 0 /\ calls = 0 /\ kills = 0
  /\ landed = [p \in Procs |-> {}]
  /\ outcome = [p \in Procs |-> "none"]
  /\ delivered = {}
  /\ sure = {}
  /\ origin = [k \in Keys |-> Absent]

Goto(p, s) == pc' = [pc EXCEPT ![p] = s]

(* Of the calls: those with a key, those the function takes *)
KeyOf == [c \in {f \in Forms : ~KeyRaises(Fn, f)} |-> DefaultKey(Fn, c)]
Given == [c \in {f \in Forms : Accepts(Fn, f)} |-> Arguments(Fn, c)]

-----------------------------------------------------------------------------
(* The locks of SQLite *)

Reading(p) == cursor[p].open

OthersRead(p) == \E q \in Procs \ {p} : Reading(q)

(* A writer that waits for the readers keeps new ones out. *)
ReadersKeptOut(p) == \E q \in Procs \ {p} : pc[q] = "pending"

-----------------------------------------------------------------------------
(* Opening *)

(* Mutant: the file stands for its tables, as in multiple. *)
NeedInitByFile(p) == ~file

(* The marker tells __init__ that the table is there; multiple goes by the file. *)
NeedInit(p) == IF Opens[p].multiple THEN ~file ELSE ~marker

Start(p) ==
  /\ pc[p] = "off" /\ starts < MaxStarts
  /\ starts' = starts + 1
  /\ Goto(p, IF NeedInit(p) THEN "connect_init" ELSE "connect")
  /\ UNCHANGED <<fileVars, todo, op, cursor, calls, kills, historyVars>>

(* sqlite3.connect makes the file. *)
Connect(p) ==
  /\ pc[p] \in {"connect", "connect_init"}
  /\ file' = TRUE
  /\ todo' = [todo EXCEPT ![p] = 1]
  /\ Goto(p, IF pc[p] = "connect_init" THEN "creating" ELSE "ready")
  /\ UNCHANGED <<marker, tables, rows, writer, op, cursor, countVars, historyVars>>

Created(p) ==
  /\ todo' = [todo EXCEPT ![p] = @ + 1]
  /\ Goto(p, IF todo[p] < Len(Opens[p].tables) THEN "creating"
             ELSE IF Opens[p].multiple THEN "ready" ELSE "touching")

(* CREATE TABLE, with IF NOT EXISTS in __init__ only.  Each statement commits by *)
(* itself.                                                                       *)
Create(p) ==
  LET t == Opens[p].tables[todo[p]] IN
  /\ pc[p] = "creating"
  /\ \/ t \notin tables /\ writer = Nobody /\ ~OthersRead(p)
        /\ tables' = tables \cup {t} /\ Created(p)
     \/ t \in tables /\ ~Opens[p].multiple /\ UNCHANGED tables /\ Created(p)
     \/ t \in tables /\ Opens[p].multiple /\ UNCHANGED <<tables, todo>> /\ Goto(p, "off")
  /\ UNCHANGED <<file, marker, rows, writer, op, cursor, countVars, historyVars>>

Touch(p) ==
  /\ pc[p] = "touching"
  /\ marker' = TRUE
  /\ Goto(p, "ready")
  /\ UNCHANGED <<file, tables, rows, writer, todo, op, cursor, countVars, historyVars>>

-----------------------------------------------------------------------------
(* Calls *)

Begin(p, o, s) ==
  /\ pc[p] = "ready" /\ calls < MaxCalls
  /\ calls' = calls + 1
  /\ op' = [op EXCEPT ![p] = o]
  /\ landed' = [landed EXCEPT ![p] = {}]
  /\ Goto(p, s)

(* The end of p's call, which leaves the locks alone. *)
Ends(p, how) ==
  /\ Goto(p, "ready")
  /\ outcome' = [outcome EXCEPT ![p] = how]

(* The end of a call that raises *)
Raises(p) ==
  /\ Ends(p, "raised")
  /\ op' = [op EXCEPT ![p] = NoOp]

Serializable(w) == \A k \in DOMAIN w : w[k] \notin Unserializable

(* A call that raises before its first statement *)
Fails(p) ==
  /\ Begin(p, NoOp, "ready")
  /\ outcome' = [outcome EXCEPT ![p] = "raised"]
  /\ sure' = sure \ {p}

(* __setitem__, __delitem__, clear and batch_insert call ser_value before the first *)
(* statement.                                                                       *)
Write(p, t, w) ==
  /\ \/ ~Serializable(w) /\ Fails(p)
     \/ /\ Serializable(w)
        /\ Begin(p, Op("write", t, Absent, w, NoCall, Absent), "dml")
        /\ outcome' = [outcome EXCEPT ![p] = "none"]
        /\ sure' = sure \ {p}
  /\ UNCHANGED <<fileVars, todo, cursor, starts, kills, delivered, origin>>

Only(k, v) == [x \in {k} |-> v]

SetItem(p, t, k, v) == Write(p, t, Only(k, v))
DelItem(p, t, k) == Write(p, t, Only(k, Absent))
Clear(p, t) == Write(p, t, [k \in Keys |-> Absent])
BatchInsert(p, t, b) == Write(p, t, b)

(* The first statement of the transaction, which takes the lock *)
Dml(p) ==
  /\ pc[p] = "dml"
  /\ IF op[p].table \in tables
     THEN /\ writer = Nobody
          /\ writer' = p
          /\ Goto(p, "reserved")
          /\ UNCHANGED <<outcome, op>>
     ELSE Raises(p) /\ UNCHANGED writer
  /\ UNCHANGED <<file, marker, tables, rows, todo, cursor, countVars, landed,
                 delivered, sure, origin>>

(* Mutant: the statement is run outside of `with self.db`. *)
PendNever(p) ==
  /\ pc[p] = "reserved"
  /\ Ends(p, "returned")
  /\ UNCHANGED <<fileVars, todo, op, cursor, countVars, landed, delivered, sure,
                 origin>>

(* The end of `with self.db`: commit *)
Pend(p) ==
  /\ pc[p] = "reserved"
  /\ Goto(p, "pending")
  /\ UNCHANGED <<fileVars, todo, op, cursor, countVars, historyVars>>

Over(r, w) == [k \in Keys |-> IF k \in DOMAIN w THEN w[k] ELSE r[k]]

(* Whether an iterator of the same process sees the change is undefined. *)
Revised(c, t, r) ==
  IF c.open /\ c.table = t
  THEN LET keys == {k \in Keys : r[k] # Absent} \ {s[1] : s \in c.seen}
       IN {Cursor(TRUE, t, c.start, l, c.seen, TRUE) : l \in {c.left, keys}}
  ELSE {c}

(* The rows of keys, written by p, were computed for what its call was given. *)
Originates(p, keys) ==
  origin' = [k \in Keys |-> IF op[p].table = Memo /\ k \in keys THEN op[p].got ELSE origin[k]]

(* What cache_fn has stored has been delivered; what is deleted has not. *)
Redelivered(p) ==
  LET gone == {k \in DOMAIN op[p].writes : op[p].writes[k] = Absent} IN
  /\ delivered' = (IF op[p].table = Memo THEN delivered \ gone ELSE delivered)
                    \cup (IF op[p].kind = "memo" THEN {op[p].key} ELSE {})
  /\ sure' = {q \in sure : ~(op[p].table = Memo /\ op[q].key \in gone)}

(* Mutant: batch_insert commits each item. *)
CommitOneByOne(p) ==
  /\ pc[p] = "pending" /\ ~OthersRead(p)
  /\ \E k \in DOMAIN op[p].writes \ landed[p] :
       LET r == [rows[op[p].table] EXCEPT ![k] = op[p].writes[k]] IN
       /\ rows' = [rows EXCEPT ![op[p].table] = r]
       /\ \E c \in Revised(cursor[p], op[p].table, r) : cursor' = [cursor EXCEPT ![p] = c]
       /\ landed' = [landed EXCEPT ![p] = @ \cup {k}]
       /\ Originates(p, {k})
       /\ IF landed[p] \cup {k} = DOMAIN op[p].writes
          THEN Ends(p, "returned") ELSE Goto(p, "dml") /\ UNCHANGED outcome
  /\ writer' = Nobody
  /\ Redelivered(p)
  /\ UNCHANGED <<file, marker, tables, todo, op, countVars>>

Commit(p) ==
  /\ pc[p] = "pending" /\ ~OthersRead(p)
  /\ LET r == Over(rows[op[p].table], op[p].writes) IN
     /\ rows' = [rows EXCEPT ![op[p].table] = r]
     /\ \E c \in Revised(cursor[p], op[p].table, r) : cursor' = [cursor EXCEPT ![p] = c]
  /\ landed' = [landed EXCEPT ![p] =
       {k \in DOMAIN op[p].writes : rows'[op[p].table][k] = op[p].writes[k]}]
  /\ Originates(p, DOMAIN op[p].writes)
  /\ Ends(p, "returned")
  /\ writer' = Nobody
  /\ Redelivered(p)
  /\ UNCHANGED <<file, marker, tables, todo, op, countVars>>

(* A function of cache_fn is called; keyfn may raise. *)
MemoCall(p, c) ==
  /\ \/ c \notin DOMAIN KeyOf /\ Fails(p)
     \/ /\ c \in DOMAIN KeyOf
        /\ Begin(p, Op("memo", Memo, KeyOf[c], NoWrites, c, Absent), "lookup")
        /\ outcome' = [outcome EXCEPT ![p] = "none"]
        /\ sure' = IF KeyOf[c] \in delivered THEN sure \cup {p} ELSE sure \ {p}
  /\ UNCHANGED <<fileVars, todo, cursor, starts, kills, delivered, origin>>

(* key not in sqlitedict *)
Lookup(p) ==
  /\ pc[p] = "lookup" /\ ~ReadersKeptOut(p)
  /\ IF Memo \notin tables THEN Raises(p)
     ELSE /\ Goto(p, IF rows[Memo][op[p].key] = Absent THEN "compute" ELSE "recall")
          /\ UNCHANGED <<outcome, op>>
  /\ UNCHANGED <<fileVars, todo, cursor, countVars, landed, delivered, sure,
                 origin>>

(* Mutant: the output is returned before it is stored. *)
ComputeUnstored(p) ==
  /\ pc[p] = "compute"
  /\ Ends(p, "returned")
  /\ delivered' = delivered \cup {op[p].key}
  /\ UNCHANGED <<fileVars, todo, op, cursor, countVars, landed, sure, origin>>

(* output = func(..), which may raise, as it does on arguments it does not take, and *)
(* ser(output), which may raise too                                                  *)
Compute(p) ==
  /\ pc[p] = "compute"
  /\ \/ \E v \in Values \ Unserializable :
          /\ op[p].call \in DOMAIN Given
          /\ op' = [op EXCEPT ![p] =
               Op("memo", Memo, op[p].key, Only(op[p].key, v), op[p].call, Given[op[p].call])]
          /\ Goto(p, "dml")
          /\ UNCHANGED outcome
     \/ Raises(p)
  /\ UNCHANGED <<fileVars, todo, cursor, countVars, landed, delivered, sure, origin>>

(* Mutant: a key that is gone is waited for. *)
RecallWaits(p) ==
  /\ pc[p] = "recall" /\ ~ReadersKeptOut(p)
  /\ rows[Memo][op[p].key] # Absent
  /\ Ends(p, "returned")
  /\ delivered' = delivered \cup {op[p].key}
  /\ UNCHANGED <<fileVars, todo, op, cursor, countVars, landed, sure, origin>>

(* output = deser(sqlitedict[key]): a KeyError when the key was deleted meanwhile *)
Recall(p) ==
  /\ pc[p] = "recall" /\ ~ReadersKeptOut(p)
  /\ IF rows[Memo][op[p].key] = Absent
     THEN Raises(p) /\ UNCHANGED delivered
     ELSE /\ Ends(p, "returned")
          /\ op' = [op EXCEPT ![p] =
               Op("memo", Memo, op[p].key, NoWrites, op[p].call, origin[op[p].key])]
          /\ delivered' = delivered \cup {op[p].key}
  /\ UNCHANGED <<fileVars, todo, cursor, countVars, landed, sure, origin>>

(* OperationalError "database is locked", after the timeout or at once where SQLite *)
(* sees that waiting is in vain; `with self.db` rolls back.                         *)
Locked(p) ==
  /\ \/ pc[p] \in {"dml", "creating"} /\ writer \notin {p, Nobody}
     \/ pc[p] \in {"pending", "creating"} /\ OthersRead(p)
     \/ pc[p] \in {"lookup", "recall"} /\ ReadersKeptOut(p)
  /\ IF pc[p] = "creating" THEN Goto(p, "off") /\ UNCHANGED <<outcome, op>> ELSE Raises(p)
  /\ writer' = IF writer = p THEN Nobody ELSE writer
  /\ UNCHANGED <<file, marker, tables, rows, todo, cursor, countVars, landed,
                 delivered, sure, origin>>

-----------------------------------------------------------------------------
(* keys, values, items and __iter__: the statement begins with the call, not with *)
(* the first step of the iterator.                                                *)
Iterate(p, t) ==
  /\ pc[p] = "ready" /\ ~Reading(p) /\ calls < MaxCalls
  /\ t \in tables /\ ~ReadersKeptOut(p)
  /\ calls' = calls + 1
  /\ LET present == {k \in Keys : rows[t][k] # Absent} IN
     cursor' = [cursor EXCEPT ![p] =
       Cursor(present # {}, t, rows[t], present, {}, FALSE)]
  /\ UNCHANGED <<fileVars, pc, todo, op, starts, kills, historyVars>>

(* Mutant: every step is a query of its own. *)
StepByQuery(p) ==
  LET c == cursor[p]
      row(k) == IF rows[c.table][k] = Absent THEN {} ELSE {<<k, rows[c.table][k]>>}
  IN
  /\ pc[p] = "ready"
  /\ \E k \in c.left : cursor' = [cursor EXCEPT ![p] =
       Cursor(FALSE, c.table, c.start, c.left \ {k}, c.seen \cup row(k), c.wrote)]
  /\ UNCHANGED <<fileVars, pc, todo, op, countVars, historyVars>>

(* A step of the iterator; with the last row the statement is closed. *)
Step(p) ==
  LET c == cursor[p]
      row(k) == IF rows[c.table][k] = Absent THEN {} ELSE {<<k, rows[c.table][k]>>}
      after(l, n) == Cursor(l # {}, c.table, c.start, l, n, c.wrote)
  IN
  /\ pc[p] = "ready" /\ c.open
  /\ \/ c.left = {} /\ cursor' = [cursor EXCEPT ![p] = after({}, c.seen)]
     \/ \E k \in c.left : cursor' = [cursor EXCEPT ![p] = after(c.left \ {k}, c.seen \cup row(k))]
  /\ UNCHANGED <<fileVars, pc, todo, op, countVars, historyVars>>

(* The iterator is thrown away before its end. *)
Drop(p) ==
  /\ pc[p] = "ready" /\ cursor[p].open
  /\ cursor' = [cursor EXCEPT ![p] = NoCursor]
  /\ UNCHANGED <<fileVars, pc, todo, op, countVars, historyVars>>

Killed(p) ==
  /\ pc[p] # "off" /\ kills < MaxKills
  /\ kills' = kills + 1
  /\ Goto(p, "off")
  /\ cursor' = [cursor EXCEPT ![p] = NoCursor]
  /\ writer' = IF writer = p THEN Nobody ELSE writer
  /\ UNCHANGED <<file, marker, tables, rows, todo, op, starts, calls, historyVars>>

-----------------------------------------------------------------------------
(* What a process does without being asked *)
Runs(p) ==
  \/ Connect(p) \/ Create(p) \/ Touch(p)
  \/ Dml(p) \/ Pend(p) \/ Commit(p)
  \/ Lookup(p) \/ Compute(p) \/ Recall(p) \/ Locked(p)

Asks(p) ==
  \/ Start(p)
  \/ \E t \in {Opens[p].tables[i] : i \in DOMAIN Opens[p].tables} :
       \/ \E k \in Keys : DelItem(p, t, k) \/ \E v \in Values : SetItem(p, t, k, v)
       \/ \E b \in Batches : BatchInsert(p, t, b)
       \/ Clear(p, t) \/ Iterate(p, t)
  \/ \E c \in Forms : MemoCall(p, c)

Next == \E p \in Procs : Asks(p) \/ Runs(p) \/ Step(p) \/ Drop(p) \/ Killed(p)

Spec == Init /\ [][Next]_vars

(* A call that has begun goes on; nobody makes a process go on with an iterator. *)
Fairness == \A p \in Procs : WF_vars(Runs(p))

FairSpec == Spec /\ Fairness
-----------------------------------------------------------------------------
Opening == {"connect", "connect_init", "creating", "touching"}
Calling == {"dml", "reserved", "pending", "lookup", "compute", "recall"}

(* Types: every variable is what its declaration says; the lock is held by *)
(* the one process that is inside a transaction.                           *)
TypeOK ==
  /\ {file, marker} \subseteq BOOLEAN
  /\ tables \subseteq Tables
  /\ rows \in [Tables -> [Keys -> Values \cup {Absent}]]
  /\ pc \in [Procs -> {"off", "ready"} \cup Opening \cup Calling]
  /\ \A p \in Procs : writer = p <=> pc[p] \in {"reserved", "pending"}
  /\ writer \in Procs \cup {Nobody}
  /\ todo \in [Procs -> Nat \ {0}]
  /\ \A p \in Procs :
       /\ op[p].kind \in {"none", "write", "memo"}
       /\ cursor[p].left \subseteq Keys /\ cursor[p].seen \subseteq Keys \X Values
       /\ landed[p] \subseteq DOMAIN op[p].writes
  /\ starts \in 0..MaxStarts /\ calls \in 0..MaxCalls /\ kills \in 0..MaxKills
  /\ outcome \in [Procs -> {"none", "returned", "raised"}]
  /\ delivered \subseteq Keys
  /\ sure \subseteq Procs
  /\ DOMAIN origin = Keys

(* A process that has opened the file finds its tables, whoever opened it   *)
(* at the same time and wherever an earlier process died: the class "offers *)
(* concurrency read-write operators".                                       *)
OpenedTablesExist ==
  \A p \in Procs : pc[p] \notin {"off"} \cup Opening =>
    \A i \in DOMAIN Opens[p].tables : Opens[p].tables[i] \in tables

(* A write, also one of many items, happens as a whole or not at all: none of *)
(* it when the call raised (the value cannot be serialized, the database is   *)
(* locked), all of it when the call returned, one or the other when its       *)
(* process died in it.                                                        *)
WritesAreWhole ==
  \A p \in Procs :
    /\ landed[p] \in {{}, DOMAIN op[p].writes}
    /\ outcome[p] = "raised" => landed[p] = {}
    /\ outcome[p] = "returned" => landed[p] = DOMAIN op[p].writes

(* As long as its own process does not write to the table, an iterator runs *)
(* through one state of it: what it has yielded and what it will yield make *)
(* up the rows there were when it was made, whatever other processes try.   *)
IteratorsSeeOneState ==
  \A p \in Procs : LET c == cursor[p] IN ~c.wrote =>
    c.seen \cup {<<k, c.start[k]>> : k \in c.left}
      = {<<k, c.start[k]>> : k \in {x \in Keys : c.start[x] # Absent}}

(* A memoized function is not called for arguments whose value an earlier *)
(* call has returned, in whatever process, unless it was deleted since.   *)
NeverRecomputed == \A p \in Procs : pc[p] = "compute" => p \notin sure

(* A memoized call that the function takes gets a value that was computed for  *)
(* the same selected arguments, positional, by keyword or by default: in       *)
(* whatever process, and although calls the function does not take, for which  *)
(* keyfn finds keys, too, come between.                                        *)
AnswersOwnCall ==
  \A p \in Procs : LET o == op[p] IN
    /\ o.kind = "memo" /\ outcome[p] = "returned" /\ o.got # Absent
    /\ o.call \in DOMAIN Given
    => Selected(Fn, o.got) = Selected(Fn, Given[o.call])

(* Opening and every call end, with a value or an exception, although another *)
(* process may keep an iterator for ever and two may wait for each other.     *)
CallsEnd == \A p \in Procs : []<>(pc[p] \in {"off", "ready"})
=============================================================================
