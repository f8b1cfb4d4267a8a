---------------------------- MODULE ParallelCache ----------------------------
(***************************************************************************)
(* Functions whose results are kept in RocksDB and shared by the workers   *)
(* of a pool (src/hugedict/parallel.py): LazyDBCacheFn.run, called by the  *)
(* parent, by the threads of a ThreadPool or by the processes of a Pool;   *)
(* Parallel.map and foreach, which close the parent's handle, start a      *)
(* primary for a pool of processes and stop it afterwards; and the lock    *)
(* RocksDB takes on a database that is open for writing.                   *)
(*                                                                         *)
(* There is one cache: the caches of a Parallel object have databases of   *)
(* their own.  A call to a SecondaryDB takes effect at one moment, which   *)
(* is what module MRSW shows of it.  The arguments the function is called  *)
(* with stand for the value it returns.  The processes of a pool and the   *)
(* primaries may die; the parent does not.                                 *)
(*                                                                         *)
(* Processes are forked.  A thread of an earlier map that raised may open  *)
(* the cache of the parent until the fork, and the process gets a copy of  *)
(* what was opened: of a database, whose lock stays with the parent, or of *)
(* the socket of a secondary, which nobody answers in the copy.            *)
(***************************************************************************)
EXTENDS MemoKeys, FiniteSets

CONSTANTS
  Main,      \* the parent's main thread
  Workers,   \* the threads or processes of the pool
  Fn,        \* the cached function
  Fallible,  \* the arguments for which it may raise
  Forms,     \* the calls the parent makes itself
  Batches,   \* the calls to map and foreach
  Programs,  \* the flags of cache_func, and what earlier programs left in the database
  OwnSocket, \* no url is given: the cache makes a socket file of its own
  None,      \* the result of a task whose error is ignored
  Raised,    \* the exception of a run, in the place of its result
  MaxDials,  \* bound: DIAL_MAX_RETRIES
  MaxMaps,   \* bound: calls to map and foreach
  MaxCalls,  \* bound: calls the parent makes between two maps
  MaxDeaths  \* bound: processes killed

Actors == Workers \cup {Main}

Modes == {"sequential", "threads", "processes"}

ASSUME ActorsAssumption == Main \notin Workers

(* ParallelFnWrapper: an item is spread over the parameters if there are several. *)
(* A sequential foreach does without the wrapper.                                 *)
Spread(b) == Len(Fn.params) > 1 /\ ~(b.op = "foreach" /\ b.mode = "sequential")

CallOf(b, item) == [args |-> IF Spread(b) THEN item ELSE <<item>>, kwargs |-> <<>>]

Calls == Forms \cup UNION { {CallOf(b, b.inputs[i]) : i \in DOMAIN b.inputs} : b \in Batches }

KeyOf == [c \in Calls |-> CacheKey("fn_name", c)]

(* The values of the function *)
ValueOf == [c \in {d \in Calls : Accepts(Fn, d)} |-> Arguments(Fn, c)]
Values == {ValueOf[c] : c \in DOMAIN ValueOf}

ASSUME FormsAssumption == \A c \in Forms : c = [args |-> c.args, kwargs |-> c.kwargs]
ASSUME BatchesAssumption == \A b \in Batches :
  /\ DOMAIN b = {"op", "mode", "inputs", "ignore", "bound"}
  /\ b.op \in {"map", "foreach"} /\ b.mode \in Modes
  /\ b.ignore \in BOOLEAN /\ b.bound \in BOOLEAN
  /\ Len(b.inputs) \in Nat /\ DOMAIN b.inputs = 1..Len(b.inputs)
ASSUME ProgramsAssumption == \A g \in Programs :
  /\ g.compress \subseteq {"key", "value"}
  /\ \A k \in DOMAIN g.store : \E c \in DOMAIN ValueOf :
       k = KeyOf[c] /\ g.store[k] \in [val : {ValueOf[c]}, codec : {"pickle", "zstd"}]
ASSUME FlagsAssumption == OwnSocket \in BOOLEAN
ASSUME NoneAssumption == None \notin Values \cup Calls /\ Raised \notin Values
ASSUME BoundsAssumption == {MaxDials, MaxMaps, MaxCalls, MaxDeaths} \subseteq Nat

VARIABLES
  phase,       \* where map stands in the parent; "idle" outside of it
  batch,       \* the call to map or foreach the parent is in, or NoBatch
  next,        \* the next input to hand out
  results,     \* what the tasks returned, in the order it arrived
  failed,      \* the exception of a task has reached the parent
  handle,      \* cache.db of each actor's cache object
  is_mrsw,     \* the parent's cache.is_mrsw
  socket_file, \* the parent's cache.socket_file is not None
  step,        \* where each actor stands in LazyDBCacheFn.run
  task,        \* the task of each actor, or NoTask
  dials,       \* refused attempts of each actor's dial
  primaries,   \* the primary processes that were started, in that order
  endpoint,    \* the primary whose socket is at the cache's url, or 0
  store,       \* the database: values under their keys
  compress,    \* the flags of cache_func
  copied,      \* history: a process was forked with a copy of an open database
  lost,        \* what the map has lost by the death or the fork of processes
  deaths,      \* processes killed so far
  maps,        \* calls to map so far
  direct,      \* calls of the function by the parent so far
  raised,      \* history: some map or foreach has raised
  refused,     \* history: whose open the lock has refused
  asserted,    \* history: the assertions of the module that have failed
  delivered,   \* history: the keys for which some caller has got the value
  out          \* history: the outcome of the last map, or NoOutcome

mapVars == <<phase, batch, next, results, failed, lost, maps, direct>>
cacheVars == <<handle, is_mrsw, socket_file>>
actorVars == <<step, task, dials>>
dbVars == <<primaries, endpoint, store, compress, copied, deaths>>
historyVars == <<raised, refused, asserted, delivered, out>>
vars == <<mapVars, cacheVars, actorVars, dbVars, historyVars>>

(* `bound`: the function is the cached one itself, whose cache is pickled with *)
(* every task; otherwise a process uses the cache that it was forked with.     *)
NoBatch ==
  [op |-> "none", mode |-> "none", inputs |-> <<>>, ignore |-> FALSE, bound |-> FALSE]
NoTask == [idx |-> 0, call |-> None, shared |-> TRUE, sure |-> FALSE]
NoOutcome == [op |-> "none"]

(* `shared`: the actor uses the parent's cache object; `sure`: history, the *)
(* key's value had been delivered to some caller when the task began.       *)
Tasks == [idx : Nat, call : Calls, shared : BOOLEAN, sure : BOOLEAN]

Init ==
  /\ phase = "idle"
  /\ batch = NoBatch
  /\ next = 1
  /\ results = <<>>
  /\ failed = FALSE
  /\ handle = [a \in Actors |-> "none"]
  /\ is_mrsw = FALSE
  /\ socket_file = OwnSocket
  /\ step = [a \in Actors |-> "idle"]
  /\ task = [a \in Actors |-> NoTask]
  /\ dials = [a \in Actors |-> 0]
  /\ primaries = <<>>
  /\ endpoint = 0
  /\ \E g \in Programs : store = g.store /\ compress = g.compress
  /\ copied = FALSE
  /\ lost = {}
  /\ deaths = 0
  /\ maps = 0
  /\ direct = 0
  /\ raised = FALSE
  /\ refused = {}
  /\ asserted = {}
  /\ delivered = {}
  /\ out = NoOutcome

(* The lock of RocksDB: a database is open for writing once, copies aside. *)
Locked ==
  \/ \E a \in Actors : handle[a] = "direct"
  \/ \E i \in DOMAIN primaries : primaries[i] \in {"serving", "closing"}

Listens == endpoint # 0 /\ primaries[endpoint] = "serving"

-----------------------------------------------------------------------------
(* The primary processes, as their parent and the pool see them *)

(* DB::open, then listen: nobody can tell them apart.  A database that is *)
(* locked ends the process with an error.                                 *)
PrimaryOpens(i) ==
  /\ primaries[i] = "launched"
  /\ primaries' = [primaries EXCEPT ![i] = IF Locked THEN "error" ELSE "serving"]
  /\ endpoint' = IF Locked THEN endpoint ELSE i
  /\ refused' = IF Locked THEN refused \cup {"primary"} ELSE refused
  /\ UNCHANGED <<mapVars, cacheVars, actorVars, store, compress, copied, deaths, raised,
                 asserted, delivered, out>>

PrimaryExits(i) ==
  /\ primaries[i] = "closing"
  /\ primaries' = [primaries EXCEPT ![i] = "exited"]
  /\ UNCHANGED <<mapVars, cacheVars, actorVars, endpoint, store, compress, copied, deaths,
                 historyVars>>

(* A primary is killed.  What it has stored stays, and the file of its      *)
(* socket; its lock goes with it.  A secondary waits until a primary        *)
(* listens at the url again.  The map has lost the primary that it started, *)
(* or the one that serves it: an earlier map that raised may have left its  *)
(* own at the url.                                                          *)
PrimaryDies(i) ==
  /\ primaries[i] \in {"launched", "serving", "closing"} /\ deaths < MaxDeaths
  /\ primaries' = [primaries EXCEPT ![i] = "killed"]
  /\ deaths' = deaths + 1
  /\ lost' = IF i \in {endpoint, Len(primaries)} THEN lost \cup {"primary"} ELSE lost
  /\ UNCHANGED <<phase, batch, next, results, failed, maps, direct, cacheVars, actorVars,
                 endpoint, store, compress, copied, historyVars>>

-----------------------------------------------------------------------------
(* LazyDBCacheFn.run.  The threads of a pool share the cache object of the *)
(* parent; a process has its own, a copy.                                  *)

Self(a) == IF task[a].shared THEN Main ELSE a

SetHandle(a, h) == handle' = [handle EXCEPT ![Self(a)] = h]

Goto(a, s) == step' = [step EXCEPT ![a] = s]

(* ParallelFnWrapper.run and run_no_return: the result of a task or its      *)
(* exception arrive at the parent.  Nobody waits for those of a task without *)
(* an index.  A sequential map does not pass ignore_error on.                *)
Ignores == batch.ignore /\ batch.mode # "sequential"

Arrives(a, v) ==
  IF v = Raised /\ ~Ignores
  THEN failed' = TRUE /\ UNCHANGED results
  ELSE /\ results' = Append(results,
            [idx |-> task[a].idx,
             val |-> IF v = Raised \/ batch.op = "foreach" THEN None ELSE v])
       /\ UNCHANGED failed

(* The end of a run *)
Ends(a, v) ==
  /\ IF task[a].idx = 0 THEN UNCHANGED <<results, failed>> ELSE Arrives(a, v)
  /\ Goto(a, "idle")
  /\ task' = [task EXCEPT ![a] = NoTask]
  /\ delivered' = IF v = Raised THEN delivered ELSE delivered \cup {KeyOf[task[a].call]}
  /\ UNCHANGED <<phase, batch, next, lost, maps, direct>>

(* Goes on with the run at step s. *)
Continues(a, s) ==
  /\ Goto(a, s)
  /\ UNCHANGED <<mapVars, task, delivered>>

(* key = self.key(..); if self.db is None *)
Test(a) ==
  /\ step[a] = "test"
  /\ IF CacheKeyRaises(compress, task[a].call)
     THEN Ends(a, Raised)
     ELSE Continues(a, IF handle[Self(a)] # "none" THEN "contains"
                       ELSE IF is_mrsw THEN "dial" ELSE "open")
  /\ UNCHANGED <<cacheVars, dials, dbVars, raised, refused, asserted, out>>

(* self.db = RocksDBDict(..), which fails when the database is locked *)
OpenDirect(a) ==
  /\ step[a] = "open"
  /\ IF Locked
     THEN /\ refused' = refused \cup {IF a = Main THEN "parent" ELSE "worker"}
          /\ Ends(a, Raised)
          /\ UNCHANGED handle
     ELSE /\ SetHandle(a, "direct")
          /\ Continues(a, "contains")
          /\ UNCHANGED refused
  /\ UNCHANGED <<is_mrsw, socket_file, dials, dbVars, raised, asserted, out>>

(* self.db = SecondaryDB(..), which retries while nobody listens *)
OpenSecondary(a) ==
  /\ step[a] = "dial" /\ Listens
  /\ SetHandle(a, "secondary")
  /\ Continues(a, "contains")
  /\ dials' = [dials EXCEPT ![a] = 0]
  /\ UNCHANGED <<is_mrsw, socket_file, dbVars, raised, refused, asserted, out>>

DialRefused(a) ==
  /\ step[a] = "dial" /\ ~Listens
  /\ IF dials[a] + 1 < MaxDials
     THEN dials' = [dials EXCEPT ![a] = @ + 1] /\ Continues(a, "dial")
     ELSE dials' = [dials EXCEPT ![a] = 0] /\ Ends(a, Raised)
  /\ UNCHANGED <<cacheVars, dbVars, raised, refused, asserted, out>>

(* self.db as it is now.  A secondary knows what it found when it was opened  *)
(* and waits for its primary for the rest; a copy of its socket waits in vain. *)
Answers(a) ==
  \/ handle[Self(a)] \notin {"secondary", "socket"}
  \/ handle[Self(a)] = "secondary" /\ Listens
  \/ step[a] # "store" /\ KeyOf[task[a].call] \in DOMAIN store

(* None is no mapping, and what is done with it raises. *)
Lost(a) == handle[Self(a)] = "none"

(* A copy of an open database has lost its threads and shares its files. *)
HasCopy(a) == handle[Self(a)] = "copy"

(* key not in self.db *)
Contains(a) ==
  /\ step[a] = "contains" /\ Answers(a)
  /\ \/ (Lost(a) \/ HasCopy(a)) /\ Ends(a, Raised)
     \/ ~Lost(a) /\ KeyOf[task[a].call] \in DOMAIN store /\ Continues(a, "read")
     \/ /\ ~Lost(a) /\ (KeyOf[task[a].call] \notin DOMAIN store \/ HasCopy(a))
        /\ Continues(a, "compute")
  /\ UNCHANGED <<cacheVars, dials, dbVars, raised, refused, asserted, out>>

(* output = self.fn(..) *)
Compute(a) ==
  LET c == task[a].call IN
  /\ step[a] = "compute"
  /\ \/ c \in DOMAIN ValueOf /\ Continues(a, "store")
     \/ (c \in DOMAIN ValueOf => ValueOf[c] \in Fallible) /\ Ends(a, Raised)
  /\ UNCHANGED <<cacheVars, dials, dbVars, raised, refused, asserted, out>>

(* Mutant: the output is returned and not stored. *)
StoreNothing(a) ==
  /\ step[a] = "store" /\ Answers(a)
  /\ Ends(a, IF Lost(a) THEN Raised ELSE ValueOf[task[a].call])
  /\ UNCHANGED <<cacheVars, dials, dbVars, raised, refused, asserted, out>>

(* What CompressValue says of the bytes of a value *)
Codec == IF "value" \in compress THEN "zstd" ELSE "pickle"

Stored(k, v) ==
  [x \in DOMAIN store \cup {k} |-> IF x = k THEN [val |-> v, codec |-> Codec] ELSE store[x]]

(* self.db[key] = output; return output.  What a copy of the database writes *)
(* goes to the log that it shares with the parent: it may be missing when    *)
(* the log is read, and so may be other rows.                                *)
Store(a) ==
  LET c == task[a].call
      new == Stored(KeyOf[c], ValueOf[c])
  IN
  /\ step[a] = "store" /\ Answers(a)
  /\ \/ (Lost(a) \/ HasCopy(a)) /\ Ends(a, Raised) /\ UNCHANGED store
     \/ ~Lost(a) /\ ~HasCopy(a) /\ Ends(a, ValueOf[c]) /\ store' = new
     \/ /\ HasCopy(a) /\ Ends(a, ValueOf[c])
        /\ \E rows \in SUBSET DOMAIN new : store' = [k \in rows |-> new[k]]
  /\ UNCHANGED <<cacheVars, dials, primaries, endpoint, compress, copied, deaths, raised,
                 refused, asserted, out>>

(* return self.db[key]: neither decoder takes what the other's encoder made *)
Read(a) ==
  LET k == KeyOf[task[a].call] IN
  /\ step[a] = "read" /\ Answers(a)
  /\ \/ Ends(a, IF ~Lost(a) /\ k \in DOMAIN store /\ store[k].codec = Codec
                THEN store[k].val ELSE Raised)
     \/ HasCopy(a) /\ Ends(a, Raised)
  /\ UNCHANGED <<cacheVars, dials, dbVars, raised, refused, asserted, out>>

-----------------------------------------------------------------------------
(* The parent: Parallel.map, foreach and the calls between them *)

Begins(a, i, c, shared) ==
  /\ task' = [task EXCEPT ![a] = [idx |-> i, call |-> c, shared |-> shared,
                                  sure |-> KeyOf[c] \in delivered]]
  /\ Goto(a, "test")
  /\ UNCHANGED dials

(* The parent calls the function itself. *)
Call(c) ==
  /\ phase = "idle" /\ step[Main] = "idle" /\ direct < MaxCalls
  /\ direct' = direct + 1
  /\ Begins(Main, 0, c, TRUE)
  /\ UNCHANGED <<phase, batch, next, results, failed, lost, maps, cacheVars, dbVars,
                 historyVars>>

CloseParent == handle' = [handle EXCEPT ![Main] = "none"]

(* Mutant: init_cache does not close the handle of the parent. *)
InitCacheOpen(b) ==
  /\ phase = "idle" /\ step[Main] = "idle" /\ maps < MaxMaps
  /\ maps' = maps + 1
  /\ phase' = IF b.mode = "processes" THEN "switching" ELSE "pool"
  /\ batch' = b
  /\ next' = 1
  /\ results' = <<>>
  /\ failed' = FALSE
  /\ lost' = {}
  /\ out' = NoOutcome
  /\ UNCHANGED <<direct, cacheVars, actorVars, dbVars, raised, refused, asserted,
                 delivered>>

(* map and foreach begin by closing the handle of the parent. *)
InitCache(b) ==
  /\ phase = "idle" /\ step[Main] = "idle" /\ maps < MaxMaps
  /\ maps' = maps + 1
  /\ phase' = IF b.mode = "processes" THEN "switching" ELSE "pool"
  /\ batch' = b
  /\ next' = 1
  /\ results' = <<>>
  /\ failed' = FALSE
  /\ lost' = {}
  /\ CloseParent
  /\ out' = NoOutcome
  /\ UNCHANGED <<direct, is_mrsw, socket_file, actorVars, dbVars, raised, refused,
                 asserted, delivered>>

(* The exception leaves map through the finally of init_cache only: what is *)
(* after the yield of switch_mrsw_cache is skipped.                         *)
Raises ==
  /\ phase' = "idle"
  /\ batch' = NoBatch
  /\ results' = <<>>
  /\ failed' = FALSE
  /\ raised' = TRUE
  /\ UNCHANGED <<next, lost, maps, direct, out>>

(* cleanup unlinks a socket file that is there, of a primary that lives or    *)
(* was killed; nobody reaches its listener any more, and the cache does not  *)
(* unlink a second one.                                                      *)
Cleanup ==
  LET stale == socket_file /\ endpoint # 0 IN
  /\ socket_file' = (socket_file /\ ~stale)
  /\ endpoint' = IF stale THEN 0 ELSE endpoint

(* start_primary: the process is launched, not waited for. *)
StartPrimary ==
  /\ phase = "switching"
  /\ IF handle[Main] # "none"
     THEN /\ asserted' = asserted \cup {"closed"}
          /\ Raises
          /\ CloseParent
          /\ UNCHANGED <<is_mrsw, socket_file, primaries, endpoint>>
     ELSE /\ is_mrsw' = TRUE
          /\ Cleanup
          /\ primaries' = Append(primaries, "launched")
          /\ phase' = "forking"
          /\ UNCHANGED <<batch, next, results, failed, lost, maps, direct, handle, raised,
                         asserted, out>>
  /\ UNCHANGED <<actorVars, store, compress, copied, deaths, refused, delivered>>

(* The cache of a process: that of the parent when it is forked, without the *)
(* lock of a database that is open; a cache that comes with a task is new.   *)
Inherited ==
  CASE batch.bound -> "none"
    [] ~batch.bound /\ handle[Main] = "direct" -> "copy"
    [] ~batch.bound /\ handle[Main] = "secondary" -> "socket"
    [] OTHER -> "none"

(* Processes that are forked now; with a copy, they may wait for ever. *)
Forked(new) ==
  /\ handle' = [a \in Actors |-> IF a \in new THEN Inherited ELSE handle[a]]
  /\ copied' = (copied \/ (new # {} /\ Inherited = "copy"))

Unusable(new) == IF new = {} \/ Inherited = "none" THEN {} ELSE {"handle"}

(* The processes of the pool are forked one after the other: a thread of an *)
(* earlier map may open the parent's cache when some of them are.           *)
Fork ==
  /\ phase = "forking"
  /\ phase' = "pool"
  /\ \E late \in SUBSET Workers : Forked(late) /\ lost' = lost \cup Unusable(late)
  /\ UNCHANGED <<batch, next, results, failed, maps, direct, is_mrsw, socket_file,
                 actorVars, primaries, endpoint, store, compress, deaths, historyVars>>

(* A task goes to the main thread or to a free worker; the cache object of *)
(* a process comes new with each task or stays from the one before.        *)
Runners == IF batch.mode = "sequential" THEN {Main} ELSE Workers

Take(a) ==
  /\ phase = "pool" /\ a \in Runners /\ step[a] = "idle"
  /\ next <= Len(batch.inputs)
  /\ batch.mode = "sequential" => ~failed
  /\ "queue" \notin lost
  /\ next' = next + 1
  /\ Begins(a, next, CallOf(batch, batch.inputs[next]), batch.mode # "processes")
  /\ handle' = IF batch.mode = "processes" /\ batch.bound
               THEN [handle EXCEPT ![a] = "none"] ELSE handle
  /\ UNCHANGED <<phase, batch, results, failed, lost, maps, direct, is_mrsw, socket_file,
                 dbVars, historyVars>>

(* A cache that a thread of an earlier map has opened cannot be pickled with  *)
(* a task: the exception reaches the parent whatever ignore_error says, and   *)
(* the inputs that are left are not handed out.                               *)
PickleFails ==
  /\ phase = "pool" /\ batch.mode = "processes" /\ batch.bound
  /\ handle[Main] # "none" /\ next <= Len(batch.inputs)
  /\ next' = Len(batch.inputs) + 1
  /\ failed' = TRUE
  /\ UNCHANGED <<phase, batch, results, lost, maps, direct, cacheVars, actorVars, dbVars,
                 historyVars>>

(* A process of the pool is killed.  The pool forks a new one in its place; *)
(* the task is gone, and so may be the lock with which the processes take   *)
(* their tasks by turns.                                                    *)
WorkerDies(a) ==
  /\ phase = "pool" /\ batch.mode = "processes" /\ a \in Workers
  /\ deaths < MaxDeaths
  /\ deaths' = deaths + 1
  /\ \E gone \in {{}, {"queue"}, {"task"}} :
       /\ IF gone = {"task"} THEN step[a] # "idle" /\ ~task[a].shared ELSE step[a] = "idle"
       /\ lost' = lost \cup gone \cup Unusable({a})
  /\ Forked({a})
  /\ step' = [step EXCEPT ![a] = "idle"]
  /\ task' = [task EXCEPT ![a] = NoTask]
  /\ dials' = [dials EXCEPT ![a] = 0]
  /\ UNCHANGED <<phase, batch, next, results, failed, maps, direct, is_mrsw, socket_file,
                 primaries, endpoint, store, compress, historyVars>>

(* The end of a pool, and of map unless there is a primary to stop.         *)
(* Processes are terminated; a thread cannot be, it goes on with its task   *)
(* and nobody waits for the result.                                         *)
Terminated(a) == batch.mode = "processes" /\ a \in Workers /\ ~task[a].shared

Orphan(t) == [idx |-> 0, call |-> t.call, shared |-> t.shared, sure |-> t.sure]

(* Mutant: the task of a process that is terminated stays behind. *)
PoolEndsUnclean ==
  /\ step' = [a \in Actors |-> IF Terminated(a) THEN "idle" ELSE step[a]]
  /\ task' = [a \in Actors |-> Orphan(task[a])]
  /\ dials' = [a \in Actors |-> IF Terminated(a) THEN 0 ELSE dials[a]]
  /\ handle' = [a \in Actors |->
       IF a = Main /\ phase' # "idle" THEN handle[a] ELSE "none"]

PoolEnds ==
  /\ step' = [a \in Actors |-> IF Terminated(a) THEN "idle" ELSE step[a]]
  /\ task' = [a \in Actors |-> IF Terminated(a) \/ step[a] = "idle" THEN NoTask
                               ELSE Orphan(task[a])]
  /\ dials' = [a \in Actors |-> IF Terminated(a) THEN 0 ELSE dials[a]]
  /\ handle' = [a \in Actors |->
       IF a = Main /\ phase' # "idle" THEN handle[a] ELSE "none"]

MapRaises ==
  /\ phase = "pool" /\ failed
  /\ Raises
  /\ PoolEnds
  /\ UNCHANGED <<is_mrsw, socket_file, dbVars, refused, asserted, delivered>>

(* Mutant: the results are not sorted. *)
InOrderOfArrival(rs) == [i \in 1..Len(rs) |-> rs[i].val]

(* results.sort(key=itemgetter(0)), then [v for i, v in results] *)
InOrder(rs) ==
  [i \in 1..Len(rs) |-> (CHOOSE r \in {rs[j] : j \in 1..Len(rs)} : r.idx = i).val]

Returns ==
  /\ phase' = "idle"
  /\ batch' = NoBatch
  /\ results' = <<>>
  /\ out' = [op |-> batch.op, mode |-> batch.mode, inputs |-> batch.inputs, ignore |-> Ignores,
             res |-> IF batch.op = "map" THEN InOrder(results) ELSE <<>>]
  /\ UNCHANGED <<next, failed, lost, maps, direct, raised>>

(* All results are there. *)
Collect ==
  /\ phase = "pool" /\ ~failed /\ Len(results) = Len(batch.inputs)
  /\ IF batch.mode = "processes"
     THEN /\ phase' = "stopping"
          /\ is_mrsw' = FALSE
          /\ UNCHANGED <<batch, next, results, failed, lost, maps, direct, raised, out>>
     ELSE Returns /\ UNCHANGED is_mrsw
  /\ PoolEnds
  /\ UNCHANGED <<socket_file, dbVars, refused, asserted, delivered>>

(* stop_primary_db reaches whoever listens at the url. *)
StopPrimary ==
  /\ phase = "stopping" /\ Listens
  /\ primaries' = [primaries EXCEPT ![endpoint] = "closing"]
  /\ endpoint' = 0
  /\ phase' = "waiting"
  /\ dials' = [dials EXCEPT ![Main] = 0]
  /\ UNCHANGED <<batch, next, results, failed, lost, maps, direct, cacheVars, step, task,
                 store, compress, copied, deaths, historyVars>>

StopRefused ==
  /\ phase = "stopping" /\ ~Listens
  /\ IF dials[Main] + 1 < MaxDials
     THEN /\ dials' = [dials EXCEPT ![Main] = @ + 1]
          /\ UNCHANGED <<mapVars, handle, raised, out>>
     ELSE /\ dials' = [dials EXCEPT ![Main] = 0]
          /\ Raises
          /\ CloseParent
  /\ UNCHANGED <<is_mrsw, socket_file, step, task, dbVars, refused, asserted, delivered>>

(* Mutant: map does not wait for the primary to exit. *)
WaitSkipped ==
  /\ phase = "waiting"
  /\ CloseParent
  /\ Cleanup
  /\ Returns
  /\ UNCHANGED <<is_mrsw, actorVars, primaries, store, compress, copied, deaths, refused,
                 asserted, delivered>>

(* Mutant: primary.wait() has no timeout. *)
WaitForever ==
  /\ phase = "waiting"
  /\ CloseParent
  /\ \/ /\ primaries[Len(primaries)] = "exited"
        /\ Cleanup
        /\ Returns
        /\ UNCHANGED asserted
     \/ /\ primaries[Len(primaries)] \in {"error", "killed"}
        /\ asserted' = asserted \cup {"returncode"}
        /\ Raises
        /\ UNCHANGED <<socket_file, endpoint>>
  /\ UNCHANGED <<is_mrsw, actorVars, primaries, store, compress, copied, deaths, refused,
                 delivered>>

(* primary.wait(30); assert primary.returncode == 0; cleanup; return.  The *)
(* wait runs into its timeout when the primary was not told to stop.       *)
Wait ==
  /\ phase = "waiting"
  /\ CloseParent
  /\ \/ /\ primaries[Len(primaries)] = "exited"
        /\ Cleanup
        /\ Returns
        /\ UNCHANGED asserted
     \/ /\ primaries[Len(primaries)] \in {"error", "killed"}
        /\ asserted' = asserted \cup {"returncode"}
        /\ Raises
        /\ UNCHANGED <<socket_file, endpoint>>
     \/ /\ primaries[Len(primaries)] = "serving"
        /\ Raises
        /\ UNCHANGED <<asserted, socket_file, endpoint>>
  /\ UNCHANGED <<is_mrsw, actorVars, primaries, store, compress, copied, deaths, refused,
                 delivered>>

-----------------------------------------------------------------------------
Run(a) ==
  Test(a) \/ OpenDirect(a) \/ OpenSecondary(a) \/ DialRefused(a) \/ Contains(a)
    \/ Compute(a) \/ Store(a) \/ Read(a)

Parent ==
  StartPrimary \/ Fork \/ MapRaises \/ Collect \/ StopPrimary \/ StopRefused \/ Wait

Next ==
  \/ \E i \in DOMAIN primaries : PrimaryOpens(i) \/ PrimaryExits(i) \/ PrimaryDies(i)
  \/ \E a \in Actors : Run(a) \/ Take(a) \/ WorkerDies(a)
  \/ \E c \in Forms : Call(c)
  \/ \E b \in Batches : InitCache(b)
  \/ PickleFails
  \/ Parent

Spec == Init /\ [][Next]_vars

(* Processes and threads that can go on do; nothing makes the parent call. *)
Fairness ==
  /\ \A i \in 1..MaxMaps :
       WF_vars(i \in DOMAIN primaries /\ (PrimaryOpens(i) \/ PrimaryExits(i)))
  /\ \A a \in Actors : WF_vars(Run(a) \/ Take(a))
  /\ WF_vars(Parent)

FairSpec == Spec /\ Fairness
-----------------------------------------------------------------------------
(* Types: every variable is what its declaration says. *)
TypeOK ==
  /\ phase \in {"idle", "switching", "forking", "pool", "stopping", "waiting"}
  /\ batch \in Batches \cup {NoBatch}
  /\ phase = "idle" <=> batch = NoBatch
  /\ next \in Nat \ {0}
  /\ results \in Seq([idx : Nat \ {0}, val : Values \cup {None}])
  /\ failed \in BOOLEAN
  /\ handle \in [Actors -> {"none", "direct", "secondary", "copy", "socket"}]
  /\ is_mrsw \in BOOLEAN
  /\ socket_file \in BOOLEAN
  /\ step \in [Actors -> {"idle", "test", "open", "dial", "contains", "compute",
                          "store", "read"}]
  /\ task \in [Actors -> Tasks \cup {NoTask}]
  /\ \A a \in Actors : step[a] = "idle" <=> task[a] = NoTask
  /\ dials \in [Actors -> Nat]
  /\ primaries \in Seq({"launched", "serving", "closing", "exited", "error", "killed"})
  /\ endpoint \in 0..Len(primaries)
  /\ \A k \in DOMAIN store : store[k].val \in Values /\ store[k].codec \in {"pickle", "zstd"}
  /\ compress \subseteq {"key", "value"}
  /\ copied \in BOOLEAN
  /\ lost \subseteq {"task", "queue", "primary", "handle"} /\ deaths \in 0..MaxDeaths
  /\ maps \in 0..MaxMaps /\ direct \in 0..MaxCalls
  /\ raised \in BOOLEAN
  /\ refused \subseteq {"parent", "worker", "primary"}
  /\ asserted \subseteq {"closed", "returncode"}
  /\ delivered \subseteq {KeyOf[c] : c \in Calls}

(* A map returns the value of each input at the place of that input, in     *)
(* whatever order the workers finished, and none that is missing, whatever  *)
(* died meanwhile; None stands only for an input whose error was to be      *)
(* ignored, and the value of every other input is in the database when map  *)
(* returns.                                                                 *)
ResultsAligned ==
  out # NoOutcome /\ out.op = "map" =>
    /\ Len(out.res) = Len(out.inputs)
    /\ \A i \in DOMAIN out.inputs : LET c == CallOf(out, out.inputs[i]) IN
         \/ /\ c \in DOMAIN ValueOf /\ out.res[i] = ValueOf[c]
            /\ KeyOf[c] \in DOMAIN store /\ store[KeyOf[c]].val = ValueOf[c]
         \/ out.res[i] = None /\ out.ignore

(* The function is not called again for a call that is written like one that *)
(* has already returned its value, to whatever process, thread or map, and   *)
(* although workers and primaries died meanwhile.  Only when a process was   *)
(* forked with a copy of the open database may values be lost or computed    *)
(* again, and that takes an earlier map that raised.                         *)
NeverRecomputed ==
  /\ copied => raised
  /\ ~copied => \A a \in Actors : step[a] = "compute" => ~task[a].sure

(* As long as no map has raised, the database changes hands between the    *)
(* parent and the primaries without one of them being refused by the lock, *)
(* and the two assertions of start_primary and switch_mrsw_cache hold.     *)
(* (The threads of a pool may refuse each other: ThreadsShareOneHandle.)   *)
(* Only the exit code of a primary that was killed fails an assertion.     *)
HandsOver == [][~raised /\ "primary" \notin lost => refused' \subseteq {"worker"} /\ asserted' = {}]_vars

(* As long as no map has raised, the parent finds the cache between two   *)
(* maps as it left it: no primary lives on, nobody listens at the url,    *)
(* and a call of the function opens the database directly.                *)
HandedBack ==
  phase = "idle" /\ ~raised =>
    /\ \A i \in DOMAIN primaries : primaries[i] = "exited"
    /\ endpoint = 0
    /\ ~is_mrsw /\ handle[Main] # "secondary"

(* Every map and foreach ends: no pool waits for a primary that will not  *)
(* serve it, and no stop for one that will not exit, even after another   *)
(* map has raised and left its primary behind.  Only the death of its     *)
(* primary, that of a worker with its task or the lock of the queue, or   *)
(* the fork of one with what a thread of a map that raised has opened,    *)
(* may keep a map for ever, and none but the map it happened to.          *)
MapsEnd == phase # "idle" ~> phase = "idle" \/ lost # {}

(* Every primary that is waited for has returned 0, as switch_mrsw_cache *)
(* asserts.                                                              *)
ReturnCodesAreZero == "returncode" \notin asserted

(* A thread pool does not break the database, as map and foreach comment: no *)
(* thread's open is refused.                                                 *)
ThreadsShareOneHandle == "worker" \notin refused
=============================================================================
