# hugedict in TLA+

hugedict offers dictionaries that live on disk (RocksDB, SQLite) and are shared
by the threads and processes of a Python program.  These modules model how it
coordinates them: the TLC configurations check the models on small instances, and
the `*Proofs` modules prove, for every size, the safety properties the passing
runs check.

Paths below are relative to the repository (`src/...` is the Rust crate,
`hugedict/...` the Python package).

## Inventory

| Component | State it keeps | Operations | Hard because |
|---|---|---|---|
| MRSW service, `src/rocksdb/mrsw.rs` | the primary's database and its request in progress; each client's snapshot, socket and outstanding request | `primary_db`, `SecondaryDB` get/contains/put, `stop_primary_db`, `dial` | requests are resent, replies lost, the primary killed, stopped and started again; snapshots grow old |
| Parallel and LazyDBCacheFn, `hugedict/parallel.py` | the cache handle of each thread or process, `is_mrsw`, the primary process, the pool | `Parallel.map`, `foreach`, `LazyDBCacheFn.run`, start and stop of the primary | one database lock passes from the parent to a primary and back; tasks raise; workers and primaries die; results come in any order; threads share a handle |
| Loader, `src/rocksdb/loader.rs` | `_temporary` and its SST files, the database | `load`, `build_sst_file`, `ingest_sst_files` | builders run in parallel, any of them may fail, the process may be killed between any two steps |
| SqliteDict, `hugedict/sqlite.py` | the file, the marker file, the tables, open cursors | opening, the writes, the iterators, `cache_fn` | processes open one file at once; iterators hold locks; calls time out; one call may be written in several forms, and badly |
| RocksDBDict and its iterators, `src/rocksdb/dict.rs` | a handle (writing, secondary, read-only), iterators | get, set, delete, pop, iterate, seek, catch up | the user's (de)serializers run other threads in the middle of an operation, and raise |
| CacheDict, `hugedict/cachedict.py` | a dictionary over a mapping | get, set, delete, `update_cache` | reads fill the cache in two steps, writes go past it |
| ChainedMapping, `hugedict/chained_mapping.py` | none of its own | get | other threads change the first mapping between its two steps |
| options, registration, helpers | none that changes | | not modelled, see below |

How they interact: `LazyDBCacheFn.run` opens a `RocksDBDict` in the parent and in
threads, or a `SecondaryDB` in the processes of a pool; `Parallel` closes the
parent's handle, runs `primary_db` in a process of its own and stops it with
`stop_primary_db`.  The lock RocksDB puts on a database that is open for writing
is shared by the parent, the primary and `load`.  `CacheDict` calls the mapping
it wraps, `ChainedMapping` the two it was given; `SqliteDict.cache_fn` is a second
memoizer, on SQLite.  Both memoizers make a key of what the caller wrote.

What makes each correct, in a line:

* MRSW: every call takes effect between its start and its end, a key once seen
  stays found, no client confuses replies, calls return while a primary serves.
* Parallel: results stand where their inputs stood, what was delivered is never
  computed again, the lock is never wanted by two sides, every map ends unless a
  process it needs dies.  After a map that raised the last three are weaker.
* Loader: all files or none, later over earlier, every error has a visible cause.
* SqliteDict: an opened mapping has its table, writes are whole if they return and
  undone if they raise, iterators see one state, calls end, a memoized call gets what was computed for its arguments.
* RocksDBDict and CacheDict: a call that raised changed nothing, iterators are
  snapshots, the cache holds what was read.
* ChainedMapping: a get finds what either mapping holds.

`PROJECT.json` lists the hazards, each at its line, with the properties aimed at it.

## Modules

| Module | Models | Composes |
|---|---|---|
| `MapService` | the abstract specification: one mapping whose calls take effect at a moment between their start and their end, keys never lost once known | |
| `MRSW` | `mrsw.rs`: the primary's loop, clients, stoppers, nng's REQ/REP sockets | refines `MapService` |
| `MRSWInvariant` | the inductive invariants of `MRSW` | extends `MRSW` |
| `MRSWProofs` | theorems and proofs | extends `MRSWInvariant` |
| `MemoKeys` | pure: what Python makes of a call's arguments, and the keys of both memoizers | |
| `MemoKeysProofs` | theorems about `MemoKeys` | extends `MemoKeys` |
| `ParallelCache` | `parallel.py` | extends `MemoKeys`; uses of `MRSW` what it promises: atomic calls |
| `ParallelProofs` | invariant, theorems and proofs | extends `ParallelCache` |
| `SstRecords` | pure: the pairs an input file becomes | |
| `Loader` | `load`, ingestion | extends `SstRecords` |
| `LoaderProofs` | invariant, theorems and proofs, also about `SstRecords` | extends `Loader` and `Least` |
| `SqliteDict` | `sqlite.py` | extends `MemoKeys` |
| `SqliteProofs` | invariants, theorems and proofs | extends `SqliteDict` and `MemoKeysProofs` |
| `RocksDBDict` | `dict.rs` with its iterators | |
| `CacheDict` | `cachedict.py` over a `RocksDBDict` | extends `RocksDBDict` |
| `ChainedMapping` | `chained_mapping.py` over that `RocksDBDict` and a second mapping | extends `CacheDict`, and is what the run checks |
| `DictProofs` | invariants, theorems and proofs about the three mappings | extends `ChainedMapping` and `Least` |
| `Least` | a lemma: a nonempty set of naturals has a least member | |
| `MC*` | the instances the configurations use | |

A definition with the comment "Mutant:" is a bug someone could have written in
the definition that follows it; no specification uses it.  Each property is
tested by putting one of them in place and seeing the property fail.

### State and actions against the code

**MRSW.**  `primary` is the program counter of `primary_db`: `Open` and `Listen`
(`DB::open` before `socket.listen`), `Recv`, `Apply` (the `match` on the
request), `Reply`, and for Stop `ReplyStop` and `Close`.  `OperationFails` is the
`?` behind `db.put`, `get` and so on, which leaves the function without an
answer.  A client dials (`Dial`, `DialRefused`), opens its snapshot
(`OpenSecondary`), and answers from the snapshot (`AnswerLocally`) or asks
(`AskPrimary`, `Put`, `Receive`).  `pipe`, `replies` and `link` are nng's, from
its documented behaviour: a REQ socket resends after a timeout and a reconnect,
and takes only the reply that carries the id of its outstanding request; pipes
die with a process; a reply to a dead pipe is dropped.  `asked`, `during`,
`known`, `sure` and `answer` are history.

**ParallelCache.**  `phase` is where `map` stands in the parent: closing the
handles, starting the primary, forking, the pool, stopping and waiting.  `step[a]` is
where a thread or process stands in `LazyDBCacheFn.run`: the test of `self.db`,
the open, contains, compute, store or read.  `Self(a)` says whose cache object
it uses: threads share the parent's, processes have a copy.  `primaries` are the
processes started, in order, `endpoint` the one whose socket is at the url; the file
of a socket stays when its primary is killed, until `Cleanup` unlinks it.  `Spread` and
`CallOf` are `ParallelFnWrapper`: an item is spread over the parameters if there
are several (a sequential `foreach` does without the wrapper and passes the item
whole).  The key is what the caller wrote, so `f("a")` and `f(x="a")` have two:
`NeverRecomputed` is about calls that are written alike.  `store` keeps with each
value the codec that `cache_func`'s flags chose (`Codec`); `Programs` are the
flags of this program and what an earlier one, with other flags, left.  With
`CompressKey` the key function takes one argument where `run` passes three
(`parallel.py:110-114`, `:363`, `misc.py:126`), so every call raises
(`CacheKeyRaises`).  `PrimaryDies` and `WorkerDies` kill a process at any moment:
the pool replaces a worker, but its task is gone, and so may be the lock of the
task queue; `lost` says what the map in progress has lost.

A process is forked (`Fork`, and `WorkerDies` for the one that takes a dead one's
place), and its cache is a copy of the parent's (`Inherited`), `self.db` included.
In order that is None, since `start_primary` has asserted it.  But a thread of an
earlier map that raised may be past the test of `self.db` and open the cache after
the assertion, before some of the processes are forked (`late`) or all of them.
They then have a copy of a database (`"copy"`), whose lock is the parent's and whose
threads did not come along, so that any call may raise, miss a key, or lose rows of
the log it shares (`HasCopy`; `copied` says that it happened), or of a socket
(`"socket"`), to which no answer comes.  A `bound` batch is one whose function is the
cached one itself: its cache is pickled with each task and comes with `self.db` None,
and cannot be pickled once a thread has opened it (`PickleFails`).

Assumed: one cache
per `Parallel`; a call to a `SecondaryDB` is one step (what `MRSW` and its
refinement show); `DB::open` and `listen` are one step; a primary told to stop
answers and exits within the 30 seconds of `primary.wait(30)`; the parent lives.
The threads of a pool whose map raised go on, as they do in Python.  A copy that
waits for ever counts as lost (`"handle"`), like a task or the queue.

**MemoKeys.**  A call is `args` and `kwargs`.  `Accepts` and `Binds` are Python's
rules, external; `Out`, `Get`, `KeyNames` and `DefaultKey` are `default_keyfn`,
which also finds keys for calls the function does not take: superfluous or
repeated arguments are passed over.  `Opaque` is what orjson cannot serialize,
the default of a parameter without one among it, which is how a missing argument
makes `default_keyfn` raise.

**Loader.**  `phase` walks through `load`; `build[i]` is the builder of file
`i`, any number of which may be at work.  `SstRecords` translates the `match`
over record types: what is text, what is a number of which width, what is an
error, in which order the bytes of integer keys sort (`Below`: the least significant
of eight bytes comes first), what a truncated binary file means.  A JSON value is a type and a
number.  `Build` gives the pairs of a file as a set: `build_sst_file` sorts them,
or checks that they are sorted, only because the writer of SST files takes keys in
order, and what is left of that is which files it refuses (`Ascending`, `Distinct`:
a file out of order that claims to be sorted, and two records of one key).  The
widths of the numbers are the constants `Byte` (2^8), `Half` (2^31), `Full` (2^63),
`Exact32` (2^24) and `Exact64` (2^53).  The casts `Signed` and `Unsigned` wrap; `F64` and
`F32` round to the nearest float, of two the even one (a JSON number is an f64 before it
is an f32).  A float is an integer here, in a unit of some power of two, and finite.
An attribute path is looked up in one step.
`present` and `create` say whether there is a database and whether the options make one;
`opens` whether an input file can be opened.  `Breaks` is any other failure of the file
system or of RocksDB, in whatever asks something of them: making the directory, an SST
file, opening, ingesting, removing the directory.  `ingest_sst_files` fails on the name
of a file that was removed because nothing was put into it.
`Killed` may hit any phase; `OtherOpens` and `OtherCloses` are another process with the lock.

**SqliteDict.**  `pc[p]` goes through opening (`connect`, `creating`, `touching`)
and the calls (`dml`, `reserved`, `pending` for a write; `lookup`, `compute`,
`recall` for `cache_fn`).  A memoized call is one of `Forms`, its key `KeyOf` it,
the arguments the function gets `Given`.  SQLite is external and has its rollback journal: a
writer is RESERVED from its first statement, PENDING at its commit, which waits
for the readers; a wait ends in `Locked`, the exception of the timeout, and
`with self.db` rolls back, also after a commit that failed (Python 3.10 and
later).  What an iterator sees of the writes of its own connection SQLite leaves
undefined: `Revised` picks.  `landed`, `outcome`, `delivered`, `sure`, `origin`
(the arguments each row was computed for) and `op[p].got` are history.

**RocksDBDict, CacheDict.**  A pyo3 method holds Python's lock but for the calls
of `ser_value`, `deser_value` and `deser_key`: `pc[t]` is the callback thread
`t` is in, and other threads move only there.  A get is `GetItem`, `GotItem`; a
set `SetItem`, `DoneSetItem`; a pop `Pop`, `DonePop`; a delete one step
(`Write`).  Iterators carry the snapshot they were made of (`snap`), what they
have still to yield (`left`, a set: the next key is the least of it by `Below`), what
they have yielded, in that order, and what they left out.  A key is a sequence of bytes, in
the bytewise order, because prefixes matter.  `CacheDict` is Python, so a thread
may be preempted between any two of its steps: `Miss` and `Fill` are the two
halves of line 26, `CacheDelete`, `Uncache`, `Delete` the three of `__delitem__`.
Between the last two another thread may read the key into the cache again, which
then outlives the deletion; `CacheHoldsWhatWasRead` counts it as overwritten.
`ChainedMapping` asks and reads its first mapping in two steps, `ChainGet` and
`ChainFirst`; the second one, `Second`, nobody writes.

## Runs

| Run | Shows | Bounds |
|---|---|---|
| `mrsw_memo` | the inductive invariant `Inv`; `AnswersFresh`, `KnownKeysAreFound`, `LatePutsAreHarmless`; `ImplementsMapService` | two clients, one key, one value, kills and failing operations, one resend, two starts |
| `mrsw_overwrite` | with overwritten values: `PrimaryAnswersFresh`, `KnownKeysAreFound` | two clients, two values |
| `mrsw_live` | `FailsOnlyDialing`, `CallsReturn`, `DialsEnd` | a client and a stopper, all faults, two starts |
| `mrsw_stale` | finding: `AnswersFresh` fails when values are overwritten | |
| `mrsw_error` | finding: `ErrorsAreReported` fails | |
| `parallel_pools` | `ResultsAligned`, `NeverRecomputed`, `HandedBack`, `HandsOver`, `MapsEnd` | two workers, two values, one that may raise, five kinds of batch of at most two inputs, two maps, a direct call in two forms, three sets of flags and databases, one death |
| `parallel_orphan` | finding: `ReturnCodesAreZero` fails | two maps over one key |
| `parallel_race` | finding: `ThreadsShareOneHandle` fails | one map over two threads |
| `loader` | `LoadedExactly`, `NeverPartly`, `ErrorsAreExplained` | 34 calls (files of at most four lines), two calls one after the other, one kill, one fault |
| `sqlite` | `OpenedTablesExist`, `WritesAreWhole`, `IteratorsSeeOneState`, `NeverRecomputed`, `AnswersOwnCall`, `CallsEnd` | two processes, two keys, calls in five forms, a value that cannot be serialized, three calls, three starts, one kill |
| `sqlite_multiple` | finding: `OpenedTablesExist` fails for `SqliteDict.multiple` | two processes |
| `dict` | `FailedCallsChangeNothing`, `RawIteratorsAreSnapshots`, `PrefixIteratorsMatch`, `CacheHoldsWhatWasRead`, `ChainFinds` | two threads with one handle, one cache and one chain, a secondary, three keys, two databases to begin with, three calls |

Why the bounds are enough.  In `mrsw_memo` one resend and two starts give the
late second copy of a put, the reply that crosses a restart, and the request
that dies with the primary; a third client would add only another bystander, and
the theorems cover every number.  In `parallel_pools` two maps suffice for what
one map leaves to the next (a primary that lingers, threads that linger, a
handle that is open), and two tasks of one key over two workers for a key that is
computed twice; one value may raise, in a pool of threads too, whose other thread
opens the cache during the next map's fork; one death strikes any worker or primary,
also one that an earlier map left behind, in any of its steps.  In `loader` a second call meets whatever the
first left; two files are enough to be out of order, to share a key and for one
to fail.  The widths are small: a byte has one bit, an i32 four, an i64 eight, a float two
or five bits of mantissa, with values at both ends of each range, halfway between two
floats, and keys whose bytes sort otherwise than their numbers.  One fault strikes any
operation.  In `sqlite` three starts allow one process to die in
opening and return, three calls one iterator, one writer and one memoized call at
once.  The function has a parameter without and one with a default that are
selected and one that is not; of its five forms two share a row, one is refused
by the function but has the key of another, and one has no key.  In `dict` three calls are one iterator, one set and one pop in each
other's callbacks, and the three keys are two of one prefix and one beside it.
`MaxCalls`, `MaxStarts`, `MaxKills`, `MaxFaults`, `MaxDeaths`, `MaxMaps` and `MaxResends` are bounds of the
models only; `MaxDials` is `DIAL_MAX_RETRIES`, made small.  Runs have
`CHECK_DEADLOCK FALSE` where all calls the bounds allow may have been made.

`mrsw_memo` and `mrsw_overwrite` differ by what clients write.  `LazyDBCacheFn`
stores the pickled result of a function of the key: one value per key, never of
no bytes.  With it everything holds.  When values are overwritten, a snapshot is
out of date, and only the answers of the primary are fresh.

### Findings

* `mrsw_stale`: a key of a client's snapshot is answered from the snapshot, which
  nothing refreshes; an overwrite by another client is not seen
  (`tests/python/rocksdb/test_mrsw.py:46` says it would be).
* `mrsw_error`: a failing operation makes `primary_db` return without an answer;
  the client waits for ever (`RepMsg::Error`, which `mrsw.rs:256` expects, is
  never sent).
* `parallel_orphan`: `switch_mrsw_cache` has no `finally`; after a map that raised
  its primary keeps the lock, and the next map fails an assertion.
* `parallel_race`: two threads of a pool may both find `self.db` None; the lock
  refuses the second (`parallel.py:168` says the pool is safe thanks to the GIL).
* `sqlite_multiple`: `multiple` takes the file for its tables.

Not findings, since no text of the repository says otherwise, but good to know:
`CompressKey` makes every call raise; a database filled without `CompressValue`
cannot be read with it; `cache_fn` answers a call that the function does not take
if the key of a good call is found for it; `load` reports an error for data it has
loaded when `_temporary` is not empty; a `ChainedMapping` lists a key that both of
its mappings hold twice, and its get raises KeyError when the key leaves the first
mapping at the wrong moment.

### Fairness

`MRSW!Fairness`: the loop of `primary_db` goes on, each pipe is served in turn
(strong fairness of `Recv(p)`: a REP socket takes its pipes by turns), `dial`
retries, nng's threads deliver and reconnect.  Nobody is obliged to call, to
start or to stop a primary; `CallsReturn` therefore assumes a primary in
service from some time on.  The resend timer is not fair: the properties do not
rest on it.  `ParallelCache`: tasks that have begun, the pool, the parent inside
`map` and a primary that was launched or told to stop go on; the parent need not
call again, and nobody is obliged to die.  It is weak fairness of each primary, of each
thread or process of the pool, and of the parent.  `MapsEnd` exempts a map that has lost
its primary, a task, the queue or the use of a handle (`lost`): those the code does wait
for without a timeout.  `SqliteDict`: a call that was begun goes on, a wait for a lock ends
by the lock or by its timeout; nobody is obliged to go on with an iterator.  All
but the strong fairness of `Recv` is weak fairness of threads the operating
system schedules.

## Proofs

`MRSWProofs` proves, with TLAPS, for every set of clients, stoppers, keys and
values, and for all bounds:

* `TypeCorrect`: `Spec => []TypeOK`, from the assumptions on the constants alone;
* `InvCorrect`: `Spec => []Inv`;
* `AnswersFreshCorrect`, `KnownKeysCorrect`, `FailsOnlyDialingCorrect`,
  `LatePutsCorrect`: the properties of the runs;
* `Refinement`: `Spec => Service!Spec`, that `MRSW` implements `MapService`.

All but the first assume `NeverEmpty` (no value of no bytes), and `InvCorrect`,
`AnswersFreshCorrect`, `LatePutsCorrect` and `Refinement` also `WriteOnce` (clients put
at most one value at a key).  Both hold for the results `LazyDBCacheFn`
stores: the pickle of what a function returned for the key.  Without `NeverEmpty`
a get of a value of no bytes through the primary raises KeyError though contains
says true (`mrsw.rs:260`).  Without `WriteOnce`, `mrsw_stale` is a counterexample to
freshness; what remains of the protocol then is proved from `NeverEmpty` alone, by
the second invariant `OverwriteInv`:

* `PrimaryAnswersCorrect`: the answers that come from the primary are fresh;
* `KnownKeysCorrect` and `FailsOnlyDialingCorrect`, of the list above.

Why an invariant.  None of the properties is inductive: whether a reply answers
its call rightly depends on the request that made it, which may have been sent
twice, be half served, or have outlived the process that sent it.  `Inv` says, in
named parts: a message on the wire, in the primary or on its way back belongs to
a peer's call now or to an earlier one (its id is not above `calls`); a reply or
job with the id of the current call is of its kind, about its key, and its body
is a value the key had `during` the call; what is in a snapshot or in the
database was asked for by some client; a key that is `known` is in the database
(so a database never loses one); the outstanding call of a waiting client and
the history kept with it agree; and a put on the wire whose caller is alive and
out of the call has been carried out (`Settled`), which is why its second copy
changes nothing.  Each action changes few of these, and the proof
that a step preserves them has a step per action.  `mrsw_memo` checks `Inv` as an
invariant with TLC.  `OverwriteInv` leaves out what needs `WriteOnce` (`PutsInv`,
`AnswersInv`) and says of an answer instead: it is fresh unless the snapshot gave it,
it is not "missing" if the key was known, and only a client that has opened its
snapshot has one; TLC checked it on the instance of `mrsw_overwrite`.

`MemoKeysProofs` proves of every function, with any number of parameters:

* `KeyIsSelection`: the key that `default_keyfn` makes of a call the function takes
  is the selection of the arguments Python binds (`GetFindsKeyword` and
  `OutIsBinding` are its lemmas: `zip` and `kwargs.get` find what the binding says);
* `SameKeySameArguments`: so two such calls share a row if and only if their
  selected arguments are the same.

`SqliteProofs` proves, for every set of processes, tables, keys and values, every
memoized function and all bounds, the six invariants of the run `sqlite`:

* `TypeCorrect`: `Spec => []TypeOK`, whose hard part is the lock.  `TypesInv` adds
  to the types that a process in a call has an operation of that kind, and that
  a memoized call inside its transaction writes its own key, computed for what it
  was given (`Called`).
* `WritesWholeCorrect`: nothing of a call has landed while it is under way, and how it
  ends says whether all of it has (`WholeInv`).
* `NeverRecomputedCorrect`: a delivered key has a row, and a call that began after
  the delivery keeps it delivered until it has looked it up: only a commit
  deletes a row, and takes the key out of `delivered` and of `sure` in the same
  step (`MemoInv`).
* `AnswersOwnCallCorrect`: every row was computed for some call that has its key
  (`OriginInv`), and `SameKeySameArguments` does the rest.  It assumes
  `PlainFunction`: no parameter twice, `cache_args` names parameters only, no
  keyword twice in a call.
* `IteratorsCorrect`: an open iterator's table is as it was when it was made, since
  a commit waits for the statements of other processes (`IteratorInv`).
* `OpenedTablesCorrect`: who is not creating tables finds all of them, and so does
  everybody once the marker is there (`OpenedInv`).  It assumes `OpensAlike`: all
  processes open the same tables, with the marker.  Without the marker
  `sqlite_multiple` is a counterexample; a second `table_name` under one marker is
  never created.

The invariants were checked by TLC on the instance of `sqlite` before they were
proved.  Each is preserved by every step: `NextSteps` turns `Next` into the list of
the actions, and each proof has a case per action or per group of actions that
disturb the same part of it.

`ParallelProofs` proves, for every number of workers, every function and its
values, every list of maps and foreachs, every database that earlier programs may
have left and all bounds:

* `ParallelTypes`: `Spec => []TypeOK`.
* `MapsAreAligned`: `ResultsAligned`.  An input is handed out once: it is in exactly
  one task or has exactly one result (`Tasked`, `Resulted`), so when there are as many
  results as inputs every input has one.  This is the pigeonhole principle, `AllThere`,
  from the library's facts about cardinality.  A result is the value of its call, and
  that is in the database (`Answer`), or None where errors are ignored.  A copy of the
  database may not keep what it returned, but who has one belongs to a map whose primary
  the parent's lock keeps out (`Copies`, `Exclusive`), and that map raises (`Unkept`).
* `NothingIsRecomputed`: who begins a call after its key was delivered finds it in the
  database, which loses no key (`Delivered`) unless a process was forked with a copy of
  it, and that is so only after a map that raised (`copied => raised`).
* `CacheIsHandedBack` and the action property `DatabaseChangesHands`: as long as no map
  has raised (`Calm`), only the runners of the map in progress are inside `run`
  (`Runs`), the handles are of the kind that goes with the phase (`Handles`), and all
  primaries but the last have exited (`Primaries`).  So who opens the database finds
  its lock free, unless it is a thread of a pool, and no process is forked while the
  parent has the cache open.  When a map ends, `NoneAtWork`, which
  follows from the counting above, says that nobody is left behind.

The restriction to maps that have not raised is the code's: `parallel_orphan` is what
happens afterwards.  TLC checked the invariant, `IInv`, on the instance of
`parallel_pools`.

`LoaderProofs` proves, for every file in every format, every database, every width
of the numbers and all bounds:

* `LoaderTypes`: `Spec => []TypeOK`.
* `LoadsWholly`: `NeverPartly`.  `Progress` says phase by phase what the call has done
  to the database: nothing before the ingestion, everything after it.  `Ingested` is a
  recursive function that lays one file after the other over the database;
  `IngestedIsMerged` shows that its value is the database in which the last file that
  has a key says its value.  There is no induction for an operator here, so that proof
  takes the least number of files for which it is wrong (`LeastNat`) and shows with
  `MergedStep` that the number before it is wrong, too.
* `LoadsExactly`: `LoadedExactly`, from the same and from facts about the
  conversions: `RecordsStand` and `BuildsPairs` (a pair of a file stands for a line of
  it, and each line has its pair), for each of the formats.  The bytes are exactly the
  number when it fits (`Fits`); of one that does not, an i32 or u32 keeps the low 32 bits,
  and of a float that was rounded nothing is claimed.
* `ErrorsHaveReasons`: `ErrorsAreExplained`.  The reasons are stated of the input
  (`Unbuildable`, by `Storable` and `Takes`: which lines a format takes) and of the
  surroundings (`why`), not by what `Build` returns.  It needs to know which SST files
  are in `_temporary` (`Temporary`): those an earlier call left, and those of builders
  that have not found their file empty.

`DictProofs` proves, for every set of threads, keys and values, every kind of handle,
every database to begin with and all bounds:

* `DictTypes`: the types of the three modules.
* `FailuresAreHarmless`: `FailedCallsChangeNothing`, since an operation that is in a
  callback has not changed anything yet (`Harmless`).
* `RawIterators`, `PrefixIterators`: the two iterator invariants (`Accounts`).  A step
  takes the least key that is left, which is above what was yielded and below what
  remains; the rest are facts about the order of the bytes, that it is irreflexive,
  transitive and total.
* `NextKeyExists`: an iterator over a finite database that has keys left has a least
  one, so a `__next__` is never stuck; `KeysComeOnce`: no iterator yields a key twice.
* `CacheIsRead`: `CacheHoldsWhatWasRead`, and `ChainIsSearched`: `ChainFinds`.  Both
  rest on `Current`: while nobody changes the key, what the first half of a method has
  found in the mapping is what its second half finds there.

TLC checked these invariants on the instances of `loader` and `dict` first.  For
`Loader` the attempt to prove one found a gap in it: `Temporary` did not say that
an ingestion of the caller's own files leaves `_temporary` alone, which
`ErrorsAreExplained` needs in the last step.

Only model-checked: liveness (`CallsReturn`, `DialsEnd`, `MapsEnd`, `CallsEnd`), which
rests on fairness.  Every invariant and action property that a passing run checks is
proved.  The theorems are about the models: what RocksDB, SQLite, nng and
`multiprocessing` do is assumed, as described above.  The assumptions on the
constants are named in the modules that declare them, and TLC evaluates them on
every run: calls and batches are well formed, a marker value (`Absent`, `None`,
`"raised"`) is no value, what earlier programs left was made by these programs.

## Not modelled

* `src/rocksdb/options.rs`, registration and glue (`lib.rs`, `python.rs`,
  `container.rs`, `error.rs`, `macros.rs`, `funcs/`), `misc.py`, `types.py`,
  `prelude.py`: settings, conversions and re-exports without state.
* RocksDB, nng, SQLite, `multiprocessing`: external, modelled by what the code
  relies on.
* In the modelled parts: compaction, progress bars, logging, key functions of the
  caller's, the start methods other than fork (the module says that spawn does not
  work), pickling a decorated function itself, whatever nng does of its own when a
  process that has used it forks, several caches of one `Parallel`, damage that keeps a
  database from being opened again, the copy `CacheDict.cache()` makes, a deleted database file whose marker stays,
  two functions of one name that share `/tmp/<name>.sqlite` (`sqlite.py:270`),
  SQLite's WAL mode, and the order in which SQLite runs through a table (`keys()`
  may come from the index and `values()` from the table).
* Plain reads, `len` and `contains` of the mappings change nothing and are left out
  where no property needs them.

## Plan

Done, in this order: `MRSW` with `MapService` and the proofs, `ParallelCache`,
`Loader`, `SqliteDict`, `RocksDBDict`, `CacheDict`; then `MemoKeys`, the death of
workers and primaries in `ParallelCache`, `ChainedMapping`, the proofs about
`MemoKeys` and `SqliteDict`; then those about the mappings, `ParallelCache`, `Loader`
and `MRSW` with overwritten values.  To come:

1. An abstract memoizer (a table of results, each computed at most once after it was
   delivered) that `SqliteDict` implements, as `MRSW` implements `MapService`.
2. `ParallelCache`: what holds after a map has raised, for the next but one map.
3. `Loader`: the path lookup of `itemgetter.rs`.
4. `RocksDBDict`: two `CacheDict`s (`cache()`).  `SqliteDict`: two functions of
   `cache_fn` over one file; deletion of the file.
