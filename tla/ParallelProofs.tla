---------------------------- MODULE ParallelProofs ----------------------------
(***************************************************************************)
(* Proofs about ParallelCache, for every number of workers, every cached   *)
(* function, every calls to map and foreach, every database that earlier   *)
(* programs may have left, and all bounds.                                 *)
(***************************************************************************)
EXTENDS ParallelCache, SequenceTheorems, FiniteSetTheorems, TLAPS

-----------------------------------------------------------------------------
(* The inductive invariant *)

(* The database holds nothing but values of the function, under the keys of calls. *)
StoreHoldsValues ==
  \A k \in DOMAIN store : \E c \in DOMAIN ValueOf : k = KeyOf[c] /\ store[k].val = ValueOf[c]

(* What was delivered is in the database, and what is computed was not when its  *)
(* task began, unless a process was forked with a copy of the open database.     *)
Delivered ==
  /\ \A a \in Actors : step[a] = "store" => task[a].call \in DOMAIN ValueOf
  /\ ~copied =>
       /\ delivered \subseteq DOMAIN store
       /\ \A a \in Actors :
            /\ task[a].sure => KeyOf[task[a].call] \in DOMAIN store
            /\ step[a] = "compute" => ~task[a].sure

(* Copies of the open database are in pools of processes whose parent has it open, *)
CopiesHeld ==
  \A a \in Actors : handle[a] = "copy" =>
    /\ a # Main /\ copied /\ phase = "pool" /\ batch.mode = "processes"
    /\ handle[Main] = "direct"

(* and no primary has it open then. *)
Exclusive ==
  \A a \in Actors : handle[a] = "direct" =>
    \A i \in DOMAIN primaries : primaries[i] \notin {"serving", "closing"}

Copies ==
  /\ CopiesHeld /\ Exclusive
  /\ phase # "idle" => out = NoOutcome
  /\ phase \in {"switching", "forking"} => batch.mode = "processes"

(* The map will raise, for its primary does not serve: what its tasks return need *)
(* not stay in the database.                                                      *)
Unkept ==
  phase \in {"pool", "stopping"} /\ batch.mode = "processes" /\ handle[Main] = "direct"

(* The result of an input: the value of its call, which is in the database, or None *)
(* for an error that is ignored.                                                    *)
Answer(i, v) ==
  LET c == CallOf(batch, batch.inputs[i]) IN
  \/ c \in DOMAIN ValueOf /\ v = ValueOf[c] /\ (KeyOf[c] \in DOMAIN store \/ Unkept)
  \/ v = None /\ Ignores

(* Every input is handed out once: it is in a task or has its result. *)
Tasked ==
  \A a \in Actors : task[a].idx # 0 =>
    /\ phase = "pool"
    /\ task[a].idx \in 1..(next - 1)
    /\ task[a].call = CallOf(batch, batch.inputs[task[a].idx])
    /\ \A b \in Actors : b # a => task[b].idx # task[a].idx
    /\ \A j \in DOMAIN results : results[j].idx # task[a].idx

Resulted ==
  \A j \in DOMAIN results :
    /\ results[j].idx \in 1..(next - 1)
    /\ \A h \in DOMAIN results : h # j => results[h].idx # results[j].idx
    /\ batch.op = "map" => Answer(results[j].idx, results[j].val)

Counted ==
  /\ phase # "idle" => next - 1 <= Len(batch.inputs)
  /\ phase \in {"idle", "switching", "forking"} => results = <<>>
  /\ phase \in {"stopping", "waiting"} => Len(results) = Len(batch.inputs)

(* A pool of processes is at work, or was and its primary is not stopped yet. *)
Pooling == phase = "pool" /\ batch.mode = "processes"

(* As long as no map has raised: who runs, *)
Runs ==
  \A a \in Actors : step[a] # "idle" =>
    /\ task[a].shared = ~Pooling
    /\ \/ phase = "idle" /\ a = Main /\ task[a].idx = 0
       \/ phase = "pool" /\ a \in Runners /\ task[a].idx # 0
    /\ step[a] = "open" => ~Pooling
    /\ step[a] = "dial" => Pooling

(* who has the database open, *)
Handles ==
  /\ Pooling => handle[Main] = "none" /\ \A a \in Workers : handle[a] \in {"none", "secondary"}
  /\ ~Pooling => handle[Main] \in {"none", "direct"} /\ \A a \in Workers : handle[a] = "none"
  /\ phase \in {"switching", "forking", "stopping", "waiting"} =>
       handle[Main] = "none" /\ batch.mode = "processes"
  /\ is_mrsw <=> Pooling \/ phase = "forking"

(* and where the primaries stand. *)
Primaries ==
  LET n == Len(primaries) IN
  /\ \A i \in 1..(n - 1) : primaries[i] = "exited"
  /\ Pooling \/ phase \in {"forking", "stopping", "waiting"} => n # 0
  /\ Pooling \/ phase \in {"forking", "stopping"} =>
       \/ primaries[n] = "launched" /\ endpoint = 0
       \/ primaries[n] = "serving" /\ endpoint = n
       \/ primaries[n] = "killed" /\ endpoint \in {0, n} /\ "primary" \in lost
  /\ phase = "waiting" =>
       /\ endpoint = 0
       /\ \/ primaries[n] \in {"closing", "exited"}
          \/ primaries[n] = "killed" /\ "primary" \in lost
  /\ ~Pooling /\ phase \notin {"forking", "stopping", "waiting"} =>
       endpoint = 0 /\ \A i \in DOMAIN primaries : primaries[i] = "exited"

(* Single-threaded use of the parent's handle *)
MainOpens == step[Main] = "open" => handle[Main] = "none"

InTurn ==
  /\ Runs /\ Handles /\ Primaries /\ MainOpens
  /\ refused \subseteq {"worker"} /\ asserted = {} /\ ~copied

Calm == ~raised => InTurn

IInv ==
  /\ TypeOK /\ StoreHoldsValues /\ Copies /\ Delivered
  /\ Tasked /\ Resulted /\ Counted /\ ResultsAligned
  /\ Calm

-----------------------------------------------------------------------------
(* Calls and their keys *)

(* A call is what the caller wrote. *)
LEMMA CallsAreRecords ==
  \A c \in Calls : c = [args |-> c.args, kwargs |-> c.kwargs]
BY FormsAssumption DEF FormsAssumption, Calls, CallOf

(* Calls that are written alike, and no others, have one key. *)
LEMMA KeysTell ==
  ASSUME NEW c \in Calls, NEW d \in Calls, KeyOf[c] = KeyOf[d]
  PROVE  c = d
<1>1. c = [args |-> c.args, kwargs |-> c.kwargs] /\ d = [args |-> d.args, kwargs |-> d.kwargs]
  BY CallsAreRecords
<1>2. <<"fn_name", c.args, c.kwargs>> = <<"fn_name", d.args, d.kwargs>>
  BY DEF KeyOf, CacheKey
<1>3. c.args = d.args /\ c.kwargs = d.kwargs
  BY ONLY <1>2
<1> QED
  BY <1>1, <1>3

LEMMA ValuesAreOfCalls ==
  /\ \A c \in DOMAIN ValueOf : c \in Calls /\ ValueOf[c] \in Values
  /\ \A v \in Values : v # None /\ v # Raised
BY NoneAssumption DEF NoneAssumption, ValueOf, Values

(* What the database holds under the key of a call is the value of the call. *)
LEMMA StoreHoldsValueOf ==
  ASSUME StoreHoldsValues, NEW c \in Calls, KeyOf[c] \in DOMAIN store
  PROVE  c \in DOMAIN ValueOf /\ store[KeyOf[c]].val = ValueOf[c]
<1>1. PICK d \in DOMAIN ValueOf : KeyOf[c] = KeyOf[d] /\ store[KeyOf[c]].val = ValueOf[d]
  BY DEF StoreHoldsValues
<1>2. c = d
  BY <1>1, ValuesAreOfCalls, KeysTell
<1> QED
  BY <1>1, <1>2

LEMMA InputsAreCalls ==
  ASSUME NEW b \in Batches, NEW i \in 1..Len(b.inputs)
  PROVE  CallOf(b, b.inputs[i]) \in Calls
<1>1. DOMAIN b.inputs = 1..Len(b.inputs)
  BY BatchesAssumption DEF BatchesAssumption
<1> QED
  BY <1>1 DEF Calls

LEMMA NoBatchIsNone == NoBatch \notin Batches
BY BatchesAssumption DEF BatchesAssumption, NoBatch

LEMMA TasksAreTasks ==
  \A t \in Tasks : t # NoTask /\ t.idx \in Nat /\ t.call \in Calls
BY NoneAssumption DEF NoneAssumption, Tasks, NoTask

LEMMA MainIsNoWorker == Main \in Actors /\ Main \notin Workers /\ \A a \in Workers : a \in Actors
BY ActorsAssumption DEF ActorsAssumption, Actors

-----------------------------------------------------------------------------
(* What a step of a run does *)

(* It ends with a value that is in the database, or with an exception. *)
EndsWell(a, v) ==
  /\ Ends(a, v)
  /\ v # Raised =>
       LET c == task[a].call IN
       c \in DOMAIN ValueOf /\ v = ValueOf[c] /\ (KeyOf[c] \in DOMAIN store' \/ HasCopy(a))

(* It goes on; it comes to compute only what is not in the database. *)
GoesOn(a, s) ==
  /\ Continues(a, s)
  /\ s = "compute" => KeyOf[task[a].call] \notin DOMAIN store \/ HasCopy(a)
  /\ s = "store" => task[a].call \in DOMAIN ValueOf
  /\ store' = store

(* What it does to the database, *)
Keeps(a) ==
  LET c == task[a].call
      new == Stored(KeyOf[c], ValueOf[c])
  IN
  \/ store' = store
  \/ c \in DOMAIN ValueOf /\ store' = new
  \/ /\ c \in DOMAIN ValueOf /\ HasCopy(a) /\ handle' = handle
     /\ \E rows \in SUBSET DOMAIN new : store' = [k \in rows |-> new[k]]

(* and to the handle of its cache. *)
Opens(a) ==
  \/ handle' = handle
  \/ SetHandle(a, "direct") /\ ~Locked
  \/ SetHandle(a, "secondary") /\ Listens

HandleKinds == {"none", "direct", "secondary", "copy", "socket"}

RunSteps == {"test", "open", "dial", "contains", "compute", "store", "read"}

RunFrame ==
  UNCHANGED <<phase, batch, next, lost, maps, direct, is_mrsw, socket_file, primaries,
              endpoint, compress, copied, deaths, raised, asserted, out>>

LEMMA RunningTask ==
  ASSUME TypeOK, NEW a \in Actors, step[a] # "idle"
  PROVE  /\ task[a] \in Tasks /\ task[a].idx \in Nat /\ task[a].call \in Calls
         /\ Self(a) \in Actors
BY MainIsNoWorker, TasksAreTasks DEF TypeOK, Self

LEMMA RunShape ==
  ASSUME TypeOK, StoreHoldsValues, Delivered, NEW a \in Actors, Run(a)
  PROVE  /\ step[a] # "idle"
         /\ \/ \E v : EndsWell(a, v)
            \/ \E s \in RunSteps : GoesOn(a, s)
         /\ Keeps(a) /\ Opens(a)
         /\ dials' \in [Actors -> Nat]
         /\ refused' \subseteq refused \cup {"parent", "worker"}
         /\ RunFrame
<1>0. dials \in [Actors -> Nat]
  BY DEF TypeOK
<1>1. CASE Test(a)
  <2>1. step[a] # "idle" /\ UNCHANGED <<store, handle, dials, refused>> /\ RunFrame
    BY <1>1 DEF Test, RunFrame, cacheVars, dbVars, mapVars, Ends, Continues
  <2>2. \/ Ends(a, Raised)
        \/ \E s \in {"contains", "dial", "open"} : Continues(a, s)
    BY <1>1 DEF Test
  <2>3. \/ \E v : EndsWell(a, v)
        \/ \E s \in RunSteps : GoesOn(a, s)
    BY <2>1, <2>2 DEF EndsWell, GoesOn, RunSteps
  <2> QED
    BY <1>0, <2>1, <2>3 DEF Keeps, Opens
<1>2. CASE OpenDirect(a)
  <2>1. /\ step[a] # "idle" /\ UNCHANGED <<store, dials>> /\ RunFrame
        /\ handle' = handle \/ (SetHandle(a, "direct") /\ ~Locked)
        /\ refused' \subseteq refused \cup {"parent", "worker"}
    BY <1>2 DEF OpenDirect, RunFrame, cacheVars, dbVars, mapVars, Ends, Continues
  <2>2. \/ Ends(a, Raised)
        \/ Continues(a, "contains")
    BY <1>2 DEF OpenDirect
  <2>3. \/ \E v : EndsWell(a, v)
        \/ \E s \in RunSteps : GoesOn(a, s)
    BY <2>1, <2>2 DEF EndsWell, GoesOn, RunSteps
  <2> QED
    BY <1>0, <2>1, <2>3 DEF Keeps, Opens
<1>3. CASE OpenSecondary(a)
  <2>1. /\ step[a] # "idle" /\ UNCHANGED <<store, refused>> /\ RunFrame
        /\ SetHandle(a, "secondary") /\ Listens /\ dials' = [dials EXCEPT ![a] = 0]
        /\ Continues(a, "contains")
    BY <1>3 DEF OpenSecondary, RunFrame, cacheVars, dbVars, mapVars, Continues
  <2>3. \E s \in RunSteps : GoesOn(a, s)
    BY <2>1 DEF GoesOn, RunSteps
  <2> QED
    BY <1>0, <2>1, <2>3 DEF Keeps, Opens
<1>4. CASE DialRefused(a)
  <2>1. /\ step[a] # "idle" /\ UNCHANGED <<store, handle, refused>> /\ RunFrame
    BY <1>4 DEF DialRefused, RunFrame, cacheVars, dbVars, mapVars, Ends, Continues
  <2>2. dials' \in [Actors -> Nat]
    BY <1>0, <1>4 DEF DialRefused
  <2>3. \/ Ends(a, Raised)
        \/ Continues(a, "dial")
    BY <1>4 DEF DialRefused
  <2>4. \/ \E v : EndsWell(a, v)
        \/ \E s \in RunSteps : GoesOn(a, s)
    BY <2>1, <2>3 DEF EndsWell, GoesOn, RunSteps
  <2> QED
    BY <2>1, <2>2, <2>4 DEF Keeps, Opens
<1>5. CASE Contains(a)
  <2>1. step[a] # "idle" /\ UNCHANGED <<store, handle, dials, refused>> /\ RunFrame
    BY <1>5 DEF Contains, RunFrame, cacheVars, dbVars, mapVars, Ends, Continues
  <2>2. \/ Ends(a, Raised)
        \/ Continues(a, "read")
        \/ /\ Continues(a, "compute")
           /\ KeyOf[task[a].call] \notin DOMAIN store \/ HasCopy(a)
    BY <1>5 DEF Contains
  <2>3. \/ \E v : EndsWell(a, v)
        \/ \E s \in RunSteps : GoesOn(a, s)
    BY <2>1, <2>2 DEF EndsWell, GoesOn, RunSteps
  <2> QED
    BY <1>0, <2>1, <2>3 DEF Keeps, Opens
<1>6. CASE Compute(a)
  <2>1. step[a] # "idle" /\ UNCHANGED <<store, handle, dials, refused>> /\ RunFrame
    BY <1>6 DEF Compute, RunFrame, cacheVars, dbVars, mapVars, Ends, Continues
  <2>2. \/ Ends(a, Raised)
        \/ Continues(a, "store") /\ task[a].call \in DOMAIN ValueOf
    BY <1>6 DEF Compute
  <2>3. \/ \E v : EndsWell(a, v)
        \/ \E s \in RunSteps : GoesOn(a, s)
    BY <2>1, <2>2 DEF EndsWell, GoesOn, RunSteps
  <2> QED
    BY <1>0, <2>1, <2>3 DEF Keeps, Opens
<1>7. CASE Store(a)
  <2>1. step[a] = "store" /\ UNCHANGED <<handle, dials, refused>> /\ RunFrame
    BY <1>7 DEF Store, RunFrame, cacheVars, dbVars, mapVars, Ends
  <2>2. task[a].call \in DOMAIN ValueOf
    BY <2>1 DEF Delivered
  <2>a. PICK c, new : c = task[a].call /\ new = Stored(KeyOf[c], ValueOf[c])
    OBVIOUS
  <2>3. \/ Ends(a, Raised) /\ store' = store
        \/ Ends(a, ValueOf[c]) /\ store' = new
        \/ /\ HasCopy(a) /\ Ends(a, ValueOf[c])
           /\ \E rows \in SUBSET DOMAIN new : store' = [k \in rows |-> new[k]]
    BY <1>7, <2>a DEF Store
  <2>4. KeyOf[c] \in DOMAIN new
    BY <2>a DEF Stored
  <2>5. \E v : EndsWell(a, v)
    BY <2>2, <2>3, <2>4, <2>a DEF EndsWell
  <2>6. Keeps(a)
    BY <2>1, <2>2, <2>3, <2>a DEF Keeps
  <2> QED
    BY <1>0, <2>1, <2>5, <2>6 DEF Opens
<1>8. CASE Read(a)
  <2>1. step[a] # "idle" /\ UNCHANGED <<store, handle, dials, refused>> /\ RunFrame
    BY <1>8 DEF Read, RunFrame, cacheVars, dbVars, mapVars, Ends
  <2>2. task[a].call \in Calls
    BY <2>1, RunningTask
  <2>3. \/ Ends(a, Raised)
        \/ /\ Ends(a, store[KeyOf[task[a].call]].val)
           /\ KeyOf[task[a].call] \in DOMAIN store
    BY <1>8 DEF Read
  <2>4. \E v : EndsWell(a, v)
    BY <2>1, <2>2, <2>3, StoreHoldsValueOf DEF EndsWell
  <2> QED
    BY <1>0, <2>1, <2>4 DEF Keeps, Opens
<1> QED
  BY <1>1, <1>2, <1>3, <1>4, <1>5, <1>6, <1>7, <1>8 DEF Run

-----------------------------------------------------------------------------
(* Types *)

LEMMA TypeInit ==
  ASSUME Init
  PROVE  TypeOK
<1>1. PICK g \in Programs : store = g.store /\ compress = g.compress
  BY DEF Init
<1>2. /\ compress \subseteq {"key", "value"}
      /\ \A k \in DOMAIN store : \E c \in DOMAIN ValueOf :
           store[k] \in [val : {ValueOf[c]}, codec : {"pickle", "zstd"}]
  BY <1>1, ProgramsAssumption DEF ProgramsAssumption
<1>3. \A k \in DOMAIN store : store[k].val \in Values /\ store[k].codec \in {"pickle", "zstd"}
  BY <1>2, ValuesAreOfCalls
<1>4. {MaxDials, MaxMaps, MaxCalls, MaxDeaths} \subseteq Nat /\ OwnSocket \in BOOLEAN
  BY BoundsAssumption, FlagsAssumption DEF BoundsAssumption, FlagsAssumption
<1>5. /\ results \in Seq([idx : Nat \ {0}, val : Values \cup {None}])
      /\ primaries \in Seq({"launched", "serving", "closing", "exited", "error", "killed"})
  BY DEF Init
<1>6. \A a \in Actors : step[a] = "idle" <=> task[a] = NoTask
  BY DEF Init
<1>7. /\ step \in [Actors -> {"idle", "test", "open", "dial", "contains", "compute",
                             "store", "read"}]
      /\ task \in [Actors -> Tasks \cup {NoTask}]
      /\ dials \in [Actors -> Nat]
      /\ handle \in [Actors -> HandleKinds]
  BY DEF Init, HandleKinds
<1>8. /\ phase = "idle" /\ batch = NoBatch /\ next = 1 /\ ~failed /\ ~is_mrsw /\ ~raised /\ ~copied
      /\ socket_file \in BOOLEAN /\ endpoint = 0
      /\ lost = {} /\ refused = {} /\ asserted = {} /\ delivered = {}
      /\ deaths \in 0..MaxDeaths /\ maps \in 0..MaxMaps /\ direct \in 0..MaxCalls
  BY <1>4 DEF Init
<1>9. failed \in BOOLEAN /\ is_mrsw \in BOOLEAN /\ raised \in BOOLEAN /\ copied \in BOOLEAN
  BY DEF Init
<1>10. endpoint \in 0..Len(primaries)
  <2>1. primaries = <<>>
    BY DEF Init
  <2> QED
    BY <1>8, <2>1
<1> QED
  BY <1>2, <1>3, <1>5, <1>6, <1>7, <1>8, <1>9, <1>10 DEF TypeOK, HandleKinds

(* The tasks and the steps of a run *)
LEMMA EndsTypes ==
  ASSUME TypeOK, NEW a \in Actors, step[a] # "idle", NEW v, Ends(a, v),
         v # Raised => v \in Values
  PROVE  /\ results' \in Seq([idx : Nat \ {0}, val : Values \cup {None}])
         /\ failed' \in BOOLEAN
         /\ step' \in [Actors -> {"idle"} \cup RunSteps]
         /\ task' \in [Actors -> Tasks \cup {NoTask}]
         /\ \A b \in Actors : step'[b] = "idle" <=> task'[b] = NoTask
         /\ delivered' \subseteq {KeyOf[c] : c \in Calls}
<1>1. task[a].idx \in Nat /\ task[a].call \in Calls
  BY RunningTask
<1>2. step' = [step EXCEPT ![a] = "idle"] /\ task' = [task EXCEPT ![a] = NoTask]
  BY DEF Ends, Goto
<1>3. /\ step' \in [Actors -> {"idle"} \cup RunSteps]
      /\ task' \in [Actors -> Tasks \cup {NoTask}]
      /\ \A b \in Actors : step'[b] = "idle" <=> task'[b] = NoTask
  BY <1>2 DEF TypeOK, RunSteps
<1>4. delivered' \subseteq {KeyOf[c] : c \in Calls}
  BY <1>1 DEF Ends, TypeOK
<1>5. CASE UNCHANGED <<results, failed>>
  BY <1>3, <1>4, <1>5 DEF TypeOK
<1>6. CASE task[a].idx # 0 /\ Arrives(a, v)
  <2>1. CASE failed' = TRUE /\ UNCHANGED results
    BY <1>3, <1>4, <2>1 DEF TypeOK
  <2>2. CASE ~(failed' = TRUE /\ UNCHANGED results)
    <3>1. PICK r : r = [idx |-> task[a].idx,
                        val |-> IF v = Raised \/ batch.op = "foreach" THEN None ELSE v]
      OBVIOUS
    <3>2. r \in [idx : Nat \ {0}, val : Values \cup {None}]
      BY <1>1, <1>6, <3>1
    <3>3. results' = Append(results, r) /\ UNCHANGED failed
      BY <1>6, <2>2, <3>1 DEF Arrives
    <3> QED
      BY <1>3, <1>4, <3>2, <3>3 DEF TypeOK
  <2> QED
    BY <2>1, <2>2
<1> QED
  BY <1>5, <1>6 DEF Ends

LEMMA RunTypes ==
  ASSUME TypeOK, StoreHoldsValues, Delivered, NEW a \in Actors, Run(a)
  PROVE  TypeOK'
<1>1. /\ step[a] # "idle"
      /\ \/ \E v : EndsWell(a, v)
         \/ \E s \in RunSteps : GoesOn(a, s)
      /\ Keeps(a) /\ Opens(a)
      /\ dials' \in [Actors -> Nat]
      /\ refused' \subseteq refused \cup {"parent", "worker"}
      /\ RunFrame
  BY RunShape
<1>2. task[a] \in Tasks /\ Self(a) \in Actors
  BY <1>1, RunningTask
<1>3. /\ results' \in Seq([idx : Nat \ {0}, val : Values \cup {None}])
      /\ failed' \in BOOLEAN
      /\ step' \in [Actors -> {"idle"} \cup RunSteps]
      /\ task' \in [Actors -> Tasks \cup {NoTask}]
      /\ \A b \in Actors : step'[b] = "idle" <=> task'[b] = NoTask
      /\ delivered' \subseteq {KeyOf[c] : c \in Calls}
  <2>1. CASE \E v : EndsWell(a, v)
    BY <1>1, <2>1, EndsTypes, ValuesAreOfCalls DEF EndsWell
  <2>2. CASE \E s \in RunSteps : GoesOn(a, s)
    <3>1. PICK s \in RunSteps : step' = [step EXCEPT ![a] = s] /\ UNCHANGED <<mapVars, task, delivered>>
      BY <2>2 DEF GoesOn, Continues, Goto
    <3>2. s # "idle"
      BY DEF RunSteps
    <3> QED
      BY <1>1, <3>1, <3>2 DEF TypeOK, RunSteps, mapVars
  <2> QED
    BY <1>1, <2>1, <2>2
<1>4. handle' \in [Actors -> HandleKinds]
  BY <1>1, <1>2 DEF TypeOK, Opens, SetHandle, HandleKinds
<1>5. \A k \in DOMAIN store' : store'[k].val \in Values /\ store'[k].codec \in {"pickle", "zstd"}
  <2>1. CASE store' = store
    BY <2>1 DEF TypeOK
  <2>2. CASE store' # store
    <3>1. PICK c, new : c = task[a].call /\ new = Stored(KeyOf[c], ValueOf[c])
      OBVIOUS
    <3>2. c \in DOMAIN ValueOf
      BY <1>1, <2>2, <3>1 DEF Keeps
    <3>3. \A k \in DOMAIN new : new[k].val \in Values /\ new[k].codec \in {"pickle", "zstd"}
      BY <3>1, <3>2, ValuesAreOfCalls DEF TypeOK, Stored, Codec
    <3>4. store' = new \/ \E rows \in SUBSET DOMAIN new : store' = [k \in rows |-> new[k]]
      BY <1>1, <2>2, <3>1 DEF Keeps
    <3> QED
      BY <3>3, <3>4
  <2> QED
    BY <2>1, <2>2
<1>6. refused' \subseteq {"parent", "worker", "primary"}
  BY <1>1 DEF TypeOK
<1> QED
  BY <1>1, <1>3, <1>4, <1>5, <1>6 DEF TypeOK, RunFrame, RunSteps, HandleKinds

LEMMA PrimaryTypes ==
  ASSUME TypeOK, NEW i \in DOMAIN primaries, PrimaryOpens(i) \/ PrimaryExits(i) \/ PrimaryDies(i)
  PROVE  TypeOK'
<1> DEFINE Standings == {"launched", "serving", "closing", "exited", "error", "killed"}
<1>1. primaries \in Seq(Standings) /\ i \in 1..Len(primaries) /\ i \in Nat
  BY DEF TypeOK
<1>2. \E p \in Standings : primaries' = [primaries EXCEPT ![i] = p]
  BY DEF PrimaryOpens, PrimaryExits, PrimaryDies
<1>3. primaries' \in Seq(Standings)
  BY <1>1, <1>2, ExceptSeq
<1>4. endpoint' \in 0..Len(primaries')
  <2>1. Len(primaries') = Len(primaries)
    BY <1>1, <1>2
  <2>2. endpoint' = i \/ endpoint' = endpoint
    BY DEF PrimaryOpens, PrimaryExits, PrimaryDies
  <2> QED
    BY <1>1, <2>1, <2>2 DEF TypeOK
<1>5. refused' \subseteq {"parent", "worker", "primary"} /\ lost' \subseteq {"task", "queue", "primary", "handle"}
  BY DEF PrimaryOpens, PrimaryExits, PrimaryDies, TypeOK, mapVars, historyVars
<1>6. deaths' \in 0..MaxDeaths
  BY BoundsAssumption DEF PrimaryOpens, PrimaryExits, PrimaryDies, TypeOK, dbVars, BoundsAssumption
<1>7. /\ UNCHANGED <<phase, batch, next, results, failed, maps, direct>>
      /\ UNCHANGED <<handle, is_mrsw, socket_file, step, task, dials>>
      /\ UNCHANGED <<store, compress, copied, raised, asserted, delivered>>
  BY DEF PrimaryOpens, PrimaryExits, PrimaryDies, mapVars, cacheVars, actorVars, historyVars
<1> QED
  BY <1>3, <1>4, <1>5, <1>6, <1>7 DEF TypeOK

(* A task that begins *)
LEMMA BeginsTypes ==
  ASSUME TypeOK, NEW a \in Actors, NEW i \in Nat, NEW c \in Calls, NEW shared \in BOOLEAN,
         Begins(a, i, c, shared)
  PROVE  /\ step' \in [Actors -> {"idle"} \cup RunSteps]
         /\ task' \in [Actors -> Tasks \cup {NoTask}]
         /\ \A b \in Actors : step'[b] = "idle" <=> task'[b] = NoTask
         /\ dials' = dials
<1>1. PICK t : t = [idx |-> i, call |-> c, shared |-> shared, sure |-> KeyOf[c] \in delivered]
  OBVIOUS
<1>2. t \in Tasks /\ t # NoTask
  <2>1. t \in Tasks
    BY <1>1 DEF Tasks
  <2> QED
    BY <2>1, TasksAreTasks
<1>3. step' = [step EXCEPT ![a] = "test"] /\ task' = [task EXCEPT ![a] = t] /\ dials' = dials
  BY <1>1 DEF Begins, Goto
<1> QED
  BY <1>2, <1>3 DEF TypeOK, RunSteps

LEMMA CallTypes ==
  ASSUME TypeOK, NEW c \in Forms, Call(c)
  PROVE  TypeOK'
<1>1. c \in Calls
  BY DEF Calls
<1>2. Begins(Main, 0, c, TRUE)
  BY DEF Call
<1>3. /\ step' \in [Actors -> {"idle"} \cup RunSteps]
      /\ task' \in [Actors -> Tasks \cup {NoTask}]
      /\ \A b \in Actors : step'[b] = "idle" <=> task'[b] = NoTask
      /\ dials' = dials
  BY <1>1, <1>2, MainIsNoWorker, BeginsTypes
<1>4. direct' \in 0..MaxCalls
  BY BoundsAssumption DEF BoundsAssumption, Call, TypeOK
<1> QED
  BY <1>3, <1>4 DEF Call, TypeOK, RunSteps, cacheVars, dbVars, historyVars

LEMMA TakeTypes ==
  ASSUME TypeOK, NEW a \in Actors, Take(a)
  PROVE  TypeOK'
<1>1. batch \in Batches
  BY DEF TypeOK, Take
<1>2. next \in 1..Len(batch.inputs) /\ next \in Nat
  BY <1>1, BatchesAssumption DEF BatchesAssumption, TypeOK, Take
<1>3. CallOf(batch, batch.inputs[next]) \in Calls
  BY <1>1, <1>2, InputsAreCalls
<1>4. Begins(a, next, CallOf(batch, batch.inputs[next]), batch.mode # "processes")
  BY DEF Take
<1>5. /\ step' \in [Actors -> {"idle"} \cup RunSteps]
      /\ task' \in [Actors -> Tasks \cup {NoTask}]
      /\ \A b \in Actors : step'[b] = "idle" <=> task'[b] = NoTask
      /\ dials' = dials
  BY <1>2, <1>3, <1>4, BeginsTypes
<1>6. next' \in Nat \ {0}
  BY <1>2 DEF Take
<1>7. handle' \in [Actors -> HandleKinds]
  BY DEF Take, TypeOK, HandleKinds
<1> QED
  BY <1>5, <1>6, <1>7 DEF Take, TypeOK, RunSteps, HandleKinds, dbVars, historyVars

LEMMA PickleFailsTypes ==
  ASSUME TypeOK, PickleFails
  PROVE  TypeOK'
<1>1. next' \in Nat \ {0} /\ failed' \in BOOLEAN
  <2>1. batch \in Batches
    BY DEF TypeOK, PickleFails
  <2>2. Len(batch.inputs) \in Nat
    BY <2>1, BatchesAssumption DEF BatchesAssumption
  <2> QED
    BY <2>2 DEF PickleFails
<1> QED
  BY <1>1 DEF PickleFails, TypeOK, cacheVars, actorVars, dbVars, historyVars

LEMMA ForkedTypes ==
  ASSUME TypeOK, NEW new, Forked(new)
  PROVE  handle' \in [Actors -> HandleKinds] /\ copied' \in BOOLEAN
<1>1. Inherited \in HandleKinds
  BY DEF Inherited, HandleKinds
<1>2. handle' \in [Actors -> HandleKinds]
  BY <1>1 DEF Forked, TypeOK, HandleKinds
<1>3. copied' \in BOOLEAN
  BY DEF Forked
<1> QED
  BY <1>2, <1>3

LEMMA ForkTypes ==
  ASSUME TypeOK, Fork
  PROVE  TypeOK'
<1>1. PICK late \in SUBSET Workers : Forked(late) /\ lost' = lost \cup Unusable(late)
  BY DEF Fork
<1>2. handle' \in [Actors -> HandleKinds] /\ copied' \in BOOLEAN
  BY <1>1, ForkedTypes
<1>3. lost' \subseteq {"task", "queue", "primary", "handle"}
  BY <1>1 DEF Unusable, TypeOK
<1>4. batch # NoBatch /\ phase' = "pool"
  BY DEF Fork, TypeOK
<1> QED
  BY <1>2, <1>3, <1>4 DEF Fork, TypeOK, HandleKinds, actorVars, historyVars

LEMMA WorkerDiesTypes ==
  ASSUME TypeOK, NEW a \in Actors, WorkerDies(a)
  PROVE  TypeOK'
<1>1. /\ step' = [step EXCEPT ![a] = "idle"] /\ task' = [task EXCEPT ![a] = NoTask]
      /\ dials' = [dials EXCEPT ![a] = 0] /\ Forked({a})
  BY DEF WorkerDies
<1>2. deaths' \in 0..MaxDeaths
  BY BoundsAssumption DEF BoundsAssumption, WorkerDies, TypeOK
<1>3. lost' \subseteq {"task", "queue", "primary", "handle"}
  BY DEF WorkerDies, TypeOK, Unusable
<1>4. \A b \in Actors : step'[b] = "idle" <=> task'[b] = NoTask
  BY <1>1 DEF TypeOK
<1>5. handle' \in [Actors -> HandleKinds] /\ copied' \in BOOLEAN
  BY <1>1, ForkedTypes
<1>6. /\ task' \in [Actors -> Tasks \cup {NoTask}] /\ dials' \in [Actors -> Nat]
      /\ step' \in [Actors -> {"idle", "test", "open", "dial", "contains", "compute", "store",
                              "read"}]
  BY <1>1 DEF TypeOK
<1>7. UNCHANGED <<phase, batch, next, results, failed, maps, direct, is_mrsw, socket_file, primaries,
                  endpoint, store, compress, raised, refused, asserted, delivered, out>>
  BY DEF WorkerDies, historyVars
<1> QED
  BY <1>2, <1>3, <1>4, <1>5, <1>6, <1>7 DEF TypeOK, HandleKinds

LEMMA InitCacheTypes ==
  ASSUME TypeOK, NEW b \in Batches, InitCache(b)
  PROVE  TypeOK'
<1>1. b # NoBatch /\ batch' = b /\ phase' \in {"switching", "pool"}
  BY NoBatchIsNone DEF InitCache
<1>2. maps' \in 0..MaxMaps
  BY BoundsAssumption DEF BoundsAssumption, InitCache, TypeOK
<1>3. handle' \in [Actors -> HandleKinds]
  BY DEF InitCache, CloseParent, TypeOK, HandleKinds
<1>4. next' \in Nat \ {0} /\ failed' \in BOOLEAN /\ lost' \subseteq {"task", "queue", "primary", "handle"}
  <2>1. next' = 1 /\ failed' = FALSE /\ lost' = {}
    BY DEF InitCache
  <2>2. failed' \in BOOLEAN
    BY <2>1, Zenon
  <2>3. next' \in Nat \ {0}
    BY <2>1
  <2>4. lost' \subseteq {"task", "queue", "primary", "handle"}
    BY <2>1
  <2> QED
    BY <2>2, <2>3, <2>4
<1>5. results' \in Seq([idx : Nat \ {0}, val : Values \cup {None}])
  <2>1. results' = <<>>
    BY DEF InitCache
  <2> QED
    BY <2>1
<1>6. /\ UNCHANGED <<direct, is_mrsw, socket_file, step, task, dials, primaries, endpoint>>
      /\ UNCHANGED <<store, compress, copied, deaths, raised, refused, asserted, delivered>>
  BY DEF InitCache, actorVars, dbVars
<1> QED
  BY <1>1, <1>2, <1>3, <1>4, <1>5, <1>6 DEF TypeOK, HandleKinds

(* The end of a map in the parent, with an exception or not *)
LEMMA ReturnTypes ==
  ASSUME TypeOK, Raises \/ Returns
  PROVE  /\ phase' = "idle" /\ batch' = NoBatch
         /\ results' \in Seq([idx : Nat \ {0}, val : Values \cup {None}])
         /\ failed' \in BOOLEAN /\ raised' \in BOOLEAN
         /\ UNCHANGED <<next, lost, maps, direct>>
<1>1. results' = <<>> /\ failed' \in {FALSE, failed} /\ raised' \in {TRUE, raised}
  BY DEF Raises, Returns
<1>2. results' \in Seq([idx : Nat \ {0}, val : Values \cup {None}])
  BY <1>1
<1> QED
  BY <1>1, <1>2 DEF Raises, Returns, TypeOK

LEMMA CleanupTypes ==
  ASSUME TypeOK, Cleanup
  PROVE  socket_file' \in BOOLEAN /\ endpoint' \in {0, endpoint}
BY DEF Cleanup, TypeOK

LEMMA PoolEndsTypes ==
  ASSUME TypeOK, PoolEnds
  PROVE  /\ step' \in [Actors -> {"idle"} \cup RunSteps]
         /\ task' \in [Actors -> Tasks \cup {NoTask}]
         /\ \A b \in Actors : step'[b] = "idle" <=> task'[b] = NoTask
         /\ dials' \in [Actors -> Nat]
         /\ handle' \in [Actors -> HandleKinds]
<1>1. ASSUME NEW b \in Actors
      PROVE  /\ step'[b] \in {"idle"} \cup RunSteps
             /\ task'[b] \in Tasks \cup {NoTask}
             /\ step'[b] = "idle" <=> task'[b] = NoTask
  <2>1. step'[b] = IF Terminated(b) THEN "idle" ELSE step[b]
    BY DEF PoolEnds
  <2>2. task'[b] = IF Terminated(b) \/ step[b] = "idle" THEN NoTask ELSE Orphan(task[b])
    BY DEF PoolEnds
  <2>3. step[b] \in {"idle"} \cup RunSteps
    BY DEF TypeOK, RunSteps
  <2>4. CASE Terminated(b) \/ step[b] = "idle"
    BY <2>1, <2>2, <2>3, <2>4
  <2>5. CASE ~(Terminated(b) \/ step[b] = "idle")
    <3>1. Orphan(task[b]) \in Tasks
      BY <2>5, RunningTask DEF Orphan, Tasks
    <3>2. Orphan(task[b]) # NoTask
      BY <3>1, TasksAreTasks
    <3> QED
      BY <2>1, <2>2, <2>3, <2>5, <3>1, <3>2
  <2> QED
    BY <2>4, <2>5
<1>2. /\ step' \in [Actors -> {"idle"} \cup RunSteps]
      /\ task' \in [Actors -> Tasks \cup {NoTask}]
  BY <1>1 DEF PoolEnds
<1>3. dials' \in [Actors -> Nat] /\ handle' \in [Actors -> HandleKinds]
  BY DEF PoolEnds, TypeOK, HandleKinds
<1> QED
  BY <1>1, <1>2, <1>3

LEMMA StartPrimaryTypes ==
  ASSUME TypeOK, StartPrimary
  PROVE  TypeOK'
<1>1. UNCHANGED <<actorVars, store, compress, copied, deaths, refused, delivered>>
  BY DEF StartPrimary
<1>2. CASE handle[Main] # "none"
  <2>1. /\ Raises /\ CloseParent /\ asserted' = asserted \cup {"closed"}
        /\ UNCHANGED <<is_mrsw, socket_file, primaries, endpoint>>
    BY <1>2 DEF StartPrimary
  <2>2. handle' \in [Actors -> HandleKinds]
    BY <2>1 DEF CloseParent, TypeOK, HandleKinds
  <2> QED
    BY <1>1, <2>1, <2>2, ReturnTypes DEF TypeOK, HandleKinds, actorVars
<1>3. CASE handle[Main] = "none"
  <2>1. /\ Cleanup /\ primaries' = Append(primaries, "launched") /\ phase' = "forking"
        /\ is_mrsw' = TRUE
        /\ UNCHANGED <<batch, next, results, failed, lost, maps, direct, handle, raised,
                       asserted>>
    BY <1>3 DEF StartPrimary
  <2>2. primaries' \in Seq({"launched", "serving", "closing", "exited", "error", "killed"})
    BY <2>1 DEF TypeOK
  <2>3. phase # "idle"
    BY DEF StartPrimary
  <2>4. endpoint' \in 0..Len(primaries')
    <3>1. Len(primaries') = Len(primaries) + 1 /\ Len(primaries) \in Nat
      BY <2>1 DEF TypeOK
    <3>2. endpoint' \in {0, endpoint}
      BY <2>1, CleanupTypes
    <3> QED
      BY <3>1, <3>2 DEF TypeOK
  <2> QED
    BY <1>1, <2>1, <2>2, <2>3, <2>4, CleanupTypes DEF TypeOK, actorVars
<1> QED
  BY <1>2, <1>3

LEMMA PoolTypes ==
  ASSUME TypeOK, MapRaises \/ Collect
  PROVE  TypeOK'
<1>1. /\ UNCHANGED <<socket_file, dbVars, refused, asserted, delivered>>
      /\ PoolEnds
  BY DEF MapRaises, Collect
<1>2. \/ Raises \/ Returns
      \/ phase' = "stopping" /\ UNCHANGED <<batch, next, results, failed, lost, maps, direct, raised>>
  BY DEF MapRaises, Collect
<1>3. is_mrsw' \in BOOLEAN
  BY DEF MapRaises, Collect, TypeOK
<1>4. batch # NoBatch
  BY DEF MapRaises, Collect, TypeOK
<1>5. CASE Raises \/ Returns
  BY <1>1, <1>3, <1>5, PoolEndsTypes, ReturnTypes DEF TypeOK, dbVars, RunSteps, HandleKinds
<1>6. CASE phase' = "stopping" /\ UNCHANGED <<batch, next, results, failed, lost, maps, direct, raised>>
  BY <1>1, <1>3, <1>4, <1>6, PoolEndsTypes DEF TypeOK, dbVars, RunSteps, HandleKinds
<1> QED
  BY <1>2, <1>5, <1>6

LEMMA StopPrimaryTypes ==
  ASSUME TypeOK, StopPrimary
  PROVE  TypeOK'
<1> DEFINE Standings == {"launched", "serving", "closing", "exited", "error", "killed"}
<1>1. primaries' \in Seq(Standings)
  <2>1. primaries' = [primaries EXCEPT ![endpoint] = "closing"] /\ primaries \in Seq(Standings)
    BY DEF StopPrimary, TypeOK
  <2>2. CASE endpoint \in 1..Len(primaries)
    BY <2>1, <2>2, ExceptSeq
  <2>3. CASE endpoint \notin 1..Len(primaries)
    <3>1. DOMAIN primaries = 1..Len(primaries)
      BY <2>1
    <3>2. primaries' = primaries
      BY <2>1, <2>3, <3>1
    <3> QED
      BY <2>1, <3>2
  <2> QED
    BY <2>2, <2>3
<1>2. dials' \in [Actors -> Nat]
  BY DEF StopPrimary, TypeOK
<1>3. batch # NoBatch /\ phase' = "waiting"
  BY DEF StopPrimary, TypeOK
<1>4. endpoint' \in 0..Len(primaries')
  <2>1. endpoint' = 0 /\ Len(primaries') \in Nat
    BY <1>1 DEF StopPrimary
  <2> QED
    BY <2>1
<1> QED
  BY <1>1, <1>2, <1>3, <1>4 DEF StopPrimary, TypeOK, cacheVars, historyVars

LEMMA StopRefusedTypes ==
  ASSUME TypeOK, StopRefused
  PROVE  TypeOK'
<1>1. dials' \in [Actors -> Nat]
  BY DEF StopRefused, TypeOK
<1>2. handle' \in [Actors -> HandleKinds]
  BY DEF StopRefused, CloseParent, TypeOK, HandleKinds
<1>3. UNCHANGED <<is_mrsw, socket_file, step, task, dbVars, refused, asserted, delivered>>
  BY DEF StopRefused
<1>4. CASE Raises
  BY <1>1, <1>2, <1>3, <1>4, ReturnTypes DEF TypeOK, HandleKinds, dbVars
<1>5. CASE UNCHANGED <<mapVars, raised>>
  BY <1>1, <1>2, <1>3, <1>5 DEF TypeOK, HandleKinds, dbVars, mapVars
<1> QED
  BY <1>4, <1>5 DEF StopRefused

LEMMA WaitTypes ==
  ASSUME TypeOK, Wait
  PROVE  TypeOK'
<1>1. UNCHANGED <<is_mrsw, actorVars, primaries, store, compress, copied, deaths, refused, delivered>>
  BY DEF Wait
<1>2. handle' \in [Actors -> HandleKinds]
  BY DEF Wait, CloseParent, TypeOK, HandleKinds
<1>3. Raises \/ Returns
  BY DEF Wait
<1>4. asserted' \subseteq {"closed", "returncode"}
  BY DEF Wait, TypeOK
<1>5. socket_file' \in BOOLEAN /\ endpoint' \in {0, endpoint}
  BY CleanupTypes DEF Wait, TypeOK
<1>6. endpoint' \in 0..Len(primaries')
  <2>1. Len(primaries) \in Nat
    BY DEF TypeOK
  <2> QED
    BY <1>1, <1>5, <2>1 DEF TypeOK
<1> QED
  BY <1>1, <1>2, <1>3, <1>4, <1>5, <1>6, ReturnTypes DEF TypeOK, HandleKinds, actorVars

LEMMA TypeNext ==
  ASSUME TypeOK, StoreHoldsValues, Delivered, [Next]_vars
  PROVE  TypeOK'
<1>1. CASE \E i \in DOMAIN primaries : PrimaryOpens(i) \/ PrimaryExits(i) \/ PrimaryDies(i)
  BY <1>1, PrimaryTypes
<1>2. CASE \E a \in Actors : Run(a) \/ Take(a) \/ WorkerDies(a)
  BY <1>2, RunTypes, TakeTypes, WorkerDiesTypes
<1>3. CASE \E c \in Forms : Call(c)
  BY <1>3, CallTypes
<1>4. CASE (\E b \in Batches : InitCache(b)) \/ PickleFails
  BY <1>4, InitCacheTypes, PickleFailsTypes
<1>5. CASE Parent
  BY <1>5, StartPrimaryTypes, ForkTypes, PoolTypes, StopPrimaryTypes, StopRefusedTypes, WaitTypes DEF Parent
<1>6. CASE UNCHANGED vars
  BY <1>6 DEF vars, mapVars, cacheVars, actorVars, dbVars, historyVars, TypeOK
<1> QED
  BY <1>1, <1>2, <1>3, <1>4, <1>5, <1>6 DEF Next

-----------------------------------------------------------------------------
(* The database *)

LEMMA StoreInit ==
  ASSUME Init
  PROVE  StoreHoldsValues
<1>1. PICK g \in Programs : store = g.store
  BY DEF Init
<1>2. \A k \in DOMAIN store : \E c \in DOMAIN ValueOf :
        k = KeyOf[c] /\ store[k] \in [val : {ValueOf[c]}, codec : {"pickle", "zstd"}]
  BY <1>1, ProgramsAssumption DEF ProgramsAssumption
<1> QED
  BY <1>2 DEF StoreHoldsValues

(* Only a run stores. *)
LEMMA StoreSteps ==
  ASSUME [Next]_vars
  PROVE  store' = store \/ \E a \in Actors : Run(a)
BY DEF Next, Parent, PrimaryOpens, PrimaryExits, PrimaryDies, Take, PickleFails, WorkerDies, Call,
       InitCache, StartPrimary, Fork, MapRaises, Collect, StopPrimary, StopRefused, Wait, dbVars, vars

(* Only a copy loses rows. *)
LEMMA RunKeeps ==
  ASSUME TypeOK, StoreHoldsValues, Delivered, Copies, NEW a \in Actors, Run(a)
  PROVE  /\ StoreHoldsValues'
         /\ DOMAIN store \subseteq DOMAIN store' \/ (HasCopy(a) /\ handle' = handle)
<1>1. PICK c, new : c = task[a].call /\ new = Stored(KeyOf[c], ValueOf[c])
  OBVIOUS
<1>2. Keeps(a)
  BY RunShape
<1>3. CASE store' = store
  BY <1>3 DEF StoreHoldsValues
<1>4. CASE store' # store
  <2>1. c \in DOMAIN ValueOf
    BY <1>1, <1>2, <1>4 DEF Keeps
  <2>2. /\ \A k \in DOMAIN new : \E d \in DOMAIN ValueOf : k = KeyOf[d] /\ new[k].val = ValueOf[d]
        /\ DOMAIN store \subseteq DOMAIN new
    BY <1>1, <2>1 DEF Stored, StoreHoldsValues
  <2>3. \/ store' = new
        \/ /\ HasCopy(a) /\ handle' = handle
           /\ \E rows \in SUBSET DOMAIN new : store' = [k \in rows |-> new[k]]
    BY <1>1, <1>2, <1>4 DEF Keeps
  <2>4. CASE store' = new
    BY <2>2, <2>4 DEF StoreHoldsValues
  <2>5. CASE store' # new
    <3>1. PICK rows \in SUBSET DOMAIN new : store' = [k \in rows |-> new[k]]
      BY <2>3, <2>5
    <3> QED
      BY <2>2, <2>3, <2>5, <3>1 DEF StoreHoldsValues
  <2> QED
    BY <2>4, <2>5
<1> QED
  BY <1>3, <1>4

(* What is in the database stays there, but for copies of it. *)
LEMMA StoreNext ==
  ASSUME TypeOK, StoreHoldsValues, Delivered, Copies, [Next]_vars
  PROVE  /\ StoreHoldsValues'
         /\ \/ DOMAIN store \subseteq DOMAIN store'
            \/ copied /\ Unkept /\ Unkept' /\ phase = "pool" /\ out' = out
<1>1. CASE store' = store
  BY <1>1 DEF StoreHoldsValues
<1>2. CASE \E a \in Actors : Run(a)
  <2>1. PICK a \in Actors : Run(a)
    BY <1>2
  <2>2. step[a] # "idle" /\ RunFrame
    BY <2>1, RunShape
  <2>3. Self(a) \in Actors
    BY <2>2, RunningTask
  <2>4. HasCopy(a) /\ handle' = handle => copied /\ Unkept /\ Unkept' /\ phase = "pool" /\ out' = out
    BY <2>2, <2>3 DEF HasCopy, Copies, CopiesHeld, Unkept, RunFrame
  <2> QED
    BY <2>1, <2>4, RunKeeps
<1> QED
  BY <1>1, <1>2, StoreSteps

-----------------------------------------------------------------------------
(* Copies of the open database *)

LEMMA NoCopy ==
  ASSUME TypeOK, Copies, ~copied, NEW a \in Actors, step[a] # "idle"
  PROVE  ~HasCopy(a)
<1>1. Self(a) \in Actors
  BY RunningTask
<1> QED
  BY <1>1 DEF Copies, CopiesHeld, HasCopy

(* While somebody has the database open, no primary listens. *)
LEMMA DirectAlone ==
  ASSUME TypeOK, Exclusive, NEW b \in Actors, handle[b] = "direct"
  PROVE  Locked /\ ~Listens
<1>1. Locked
  BY DEF Locked
<1>2. ~Listens
  <2>1. SUFFICES ASSUME endpoint # 0
        PROVE  endpoint \in DOMAIN primaries
    BY DEF Exclusive, Listens
  <2>2. endpoint \in 0..Len(primaries) /\ DOMAIN primaries = 1..Len(primaries) /\ Len(primaries) \in Nat
    BY DEF TypeOK
  <2> QED
    BY <2>1, <2>2
<1> QED
  BY <1>1, <1>2

LEMMA CopiesRun ==
  ASSUME TypeOK, StoreHoldsValues, Delivered, Copies, NEW a \in Actors, Run(a)
  PROVE  Copies' /\ (handle[Main] = "direct" => handle'[Main] = "direct")
<1>1. step[a] # "idle" /\ RunFrame /\ Opens(a)
  BY RunShape
<1>2. Self(a) \in Actors
  BY <1>1, RunningTask
<1>3. handle[Main] = "direct" => handle'[Main] = "direct"
  BY <1>1, <1>2, DirectAlone, MainIsNoWorker DEF Opens, SetHandle, TypeOK, Copies
<1>4. \A b \in Actors : handle'[b] = "copy" => handle[b] = "copy"
  BY <1>1, <1>2 DEF Opens, SetHandle, TypeOK
<1>5. CopiesHeld'
  BY <1>1, <1>3, <1>4 DEF CopiesHeld, Copies, RunFrame
<1>6. Exclusive'
  <2>1. CASE ~Locked
    BY <1>1, <2>1 DEF Exclusive, Locked, RunFrame
  <2>2. CASE Locked
    <3>1. \A b \in Actors : handle'[b] = "direct" => handle[b] = "direct"
      BY <1>1, <1>2, <2>2 DEF Opens, SetHandle, TypeOK
    <3> QED
      BY <1>1, <3>1 DEF Exclusive, Copies, RunFrame
  <2> QED
    BY <2>1, <2>2
<1> QED
  BY <1>1, <1>3, <1>5, <1>6 DEF Copies, RunFrame

(* A process that is forked has a copy only if its parent has the database open. *)
LEMMA CopiesForked ==
  ASSUME TypeOK, Copies, NEW new \in SUBSET Workers, Forked(new),
         phase = "forking" \/ (phase = "pool" /\ batch.mode = "processes"),
         phase' = "pool", UNCHANGED <<batch, primaries, out>>
  PROVE  Copies' /\ handle'[Main] = handle[Main]
<1>1. \A b \in Actors : handle'[b] = IF b \in new THEN Inherited ELSE handle[b]
  BY DEF Forked
<1>2. handle'[Main] = handle[Main]
  BY <1>1, MainIsNoWorker
<1>3. Inherited # "direct" /\ (Inherited = "copy" => handle[Main] = "direct")
  BY DEF Inherited
<1>4. ASSUME NEW b \in Actors, handle'[b] = "copy"
      PROVE  /\ b # Main /\ copied' /\ phase' = "pool" /\ batch'.mode = "processes"
             /\ handle'[Main] = "direct"
  <2>a. batch.mode = "processes"
    BY DEF Copies
  <2>1. CASE b \in new
    <3>1. b # Main /\ Inherited = "copy"
      BY <1>1, <1>4, <2>1, MainIsNoWorker
    <3>2. copied'
      BY <2>1, <3>1 DEF Forked
    <3> QED
      BY <1>2, <1>3, <2>a, <3>1, <3>2
  <2>2. CASE b \notin new
    <3>1. /\ b # Main /\ copied /\ handle[Main] = "direct"
      BY <1>1, <1>4, <2>2 DEF Copies, CopiesHeld
    <3>2. copied'
      BY <3>1 DEF Forked
    <3> QED
      BY <1>2, <2>a, <3>1, <3>2
  <2> QED
    BY <2>1, <2>2
<1>5. CopiesHeld'
  BY <1>4 DEF CopiesHeld
<1>6. Exclusive'
  BY <1>1, <1>3 DEF Copies, Exclusive
<1>7. out' = NoOutcome
  BY DEF Copies
<1> QED
  BY <1>2, <1>5, <1>6, <1>7 DEF Copies

(* Steps after which the parent alone may have the database open *)
LEMMA CopiesKept ==
  ASSUME TypeOK, Copies,
         \A b \in Actors :
           \/ handle'[b] = "none"
           \/ handle'[b] = handle[b] /\ (handle[b] = "copy" => UNCHANGED <<phase, batch, copied>>
                                                              /\ handle'[Main] = handle[Main]),
         \/ primaries' = primaries
         \/ \A b \in Actors : handle[b] = "direct" =>
              \A i \in DOMAIN primaries' : primaries'[i] \notin {"serving", "closing"},
         phase' # "idle" => out' = NoOutcome,
         phase' \in {"switching", "forking"} => batch'.mode = "processes"
  PROVE  Copies'
<1>1. CopiesHeld'
  BY DEF Copies, CopiesHeld
<1>2. Exclusive'
  BY DEF Copies, Exclusive
<1> QED
  BY <1>1, <1>2 DEF Copies

LEMMA CopiesPrimary ==
  ASSUME TypeOK, Copies, NEW i \in DOMAIN primaries,
         PrimaryOpens(i) \/ PrimaryExits(i) \/ PrimaryDies(i)
  PROVE  Copies'
<1>1. UNCHANGED <<phase, batch, copied, handle, out>>
  BY DEF PrimaryOpens, PrimaryExits, PrimaryDies, mapVars, cacheVars, historyVars
<1>2. ASSUME NEW b \in Actors, handle[b] = "direct", NEW j \in DOMAIN primaries'
      PROVE  primaries'[j] \notin {"serving", "closing"}
  <2>1. Locked /\ \A k \in DOMAIN primaries : primaries[k] \notin {"serving", "closing"}
    BY <1>2, DirectAlone DEF Copies, Exclusive
  <2>2. \E p \in {"error", "exited", "killed"} : primaries' = [primaries EXCEPT ![i] = p]
    BY <2>1 DEF PrimaryOpens, PrimaryExits, PrimaryDies
  <2> QED
    BY <2>1, <2>2
<1> QED
  BY <1>1, <1>2, CopiesKept DEF Copies

LEMMA CopiesParent ==
  ASSUME TypeOK, Copies, StartPrimary \/ MapRaises \/ Collect \/ StopPrimary \/ StopRefused \/ Wait
  PROVE  Copies'
<1>1. CASE StartPrimary
  <2>1. /\ phase = "switching" /\ UNCHANGED copied
        /\ \/ phase' = "idle" /\ CloseParent /\ primaries' = primaries
           \/ /\ phase' = "forking" /\ handle' = handle /\ UNCHANGED <<batch, out>>
              /\ primaries' = Append(primaries, "launched")
    BY <1>1 DEF StartPrimary, Raises
  <2>2. \A b \in Actors : handle[b] # "copy"
    BY <2>1 DEF Copies, CopiesHeld
  <2>3. CASE phase' = "idle" /\ CloseParent /\ primaries' = primaries
    <3>1. \A b \in Actors : handle'[b] = "none" \/ handle'[b] = handle[b]
      BY <2>3 DEF CloseParent, TypeOK
    <3> QED
      BY <2>2, <2>3, <3>1, CopiesKept
  <2>4. CASE /\ phase' = "forking" /\ handle' = handle /\ UNCHANGED <<batch, out>>
             /\ primaries' = Append(primaries, "launched")
    <3>1. /\ DOMAIN primaries = 1..Len(primaries) /\ Len(primaries) \in Nat
          /\ DOMAIN primaries' = 1..(Len(primaries) + 1)
          /\ primaries'[Len(primaries) + 1] = "launched"
          /\ \A j \in DOMAIN primaries : primaries'[j] = primaries[j]
      BY <2>4 DEF TypeOK
    <3>2. \A j \in DOMAIN primaries' : primaries'[j] = "launched"
                                      \/ (j \in DOMAIN primaries /\ primaries'[j] = primaries[j])
      BY <3>1
    <3>3. \A b \in Actors : handle[b] = "direct" =>
            \A j \in DOMAIN primaries' : primaries'[j] \notin {"serving", "closing"}
      BY <3>2 DEF Copies, Exclusive
    <3>4. out' = NoOutcome /\ batch'.mode = "processes"
      BY <2>1, <2>4 DEF Copies
    <3> QED
      BY <2>2, <2>4, <3>3, <3>4, CopiesKept
  <2> QED
    BY <2>1, <2>3, <2>4
<1>2. CASE MapRaises \/ Collect
  <2>1. /\ phase = "pool" /\ PoolEnds /\ primaries' = primaries
        /\ phase' = "idle" \/ (phase' = "stopping" /\ out' = out)
    BY <1>2 DEF MapRaises, Collect, Raises, Returns, dbVars
  <2>2. \A b \in Actors : handle'[b] = "none" \/ (b = Main /\ handle'[b] = handle[b])
    BY <2>1 DEF PoolEnds
  <2>3. handle[Main] # "copy"
    BY MainIsNoWorker DEF Copies, CopiesHeld
  <2>4. phase' # "idle" => out' = NoOutcome
    BY <2>1 DEF Copies
  <2>5. phase' \notin {"switching", "forking"}
    BY <2>1
  <2> QED
    BY <2>1, <2>2, <2>3, <2>4, <2>5, CopiesKept
<1>3. CASE StopPrimary
  <2>1. /\ phase = "stopping" /\ phase' = "waiting" /\ UNCHANGED <<handle, batch, out>> /\ Listens
    BY <1>3 DEF StopPrimary, cacheVars, historyVars
  <2>2. \A b \in Actors : handle[b] \notin {"copy", "direct"}
    BY <2>1, DirectAlone DEF Copies, CopiesHeld
  <2>3. out' = NoOutcome
    BY <2>1 DEF Copies
  <2> QED
    BY <2>1, <2>2, <2>3, CopiesKept
<1>4. CASE StopRefused \/ Wait
  <2>1. /\ phase \in {"stopping", "waiting"} /\ primaries' = primaries
        /\ \/ phase' = "idle" /\ CloseParent
           \/ phase' = phase /\ handle' = handle /\ out' = out
    BY <1>4 DEF StopRefused, Wait, Raises, Returns, mapVars, dbVars
  <2>2. \A b \in Actors : handle[b] # "copy"
    BY <2>1 DEF Copies, CopiesHeld
  <2>3. \A b \in Actors : handle'[b] = "none" \/ handle'[b] = handle[b]
    BY <2>1 DEF CloseParent, TypeOK
  <2>4. phase' # "idle" => out' = NoOutcome
    BY <2>1 DEF Copies
  <2>5. phase' \notin {"switching", "forking"}
    BY <2>1
  <2> QED
    BY <2>1, <2>2, <2>3, <2>4, <2>5, CopiesKept
<1> QED
  BY <1>1, <1>2, <1>3, <1>4

LEMMA CopiesNext ==
  ASSUME TypeOK, StoreHoldsValues, Delivered, Copies, [Next]_vars
  PROVE  Copies'
<1>1. CASE \E i \in DOMAIN primaries : PrimaryOpens(i) \/ PrimaryExits(i) \/ PrimaryDies(i)
  BY <1>1, CopiesPrimary
<1>2. CASE \E a \in Actors : Run(a)
  BY <1>2, CopiesRun
<1>3. CASE \E a \in Actors : WorkerDies(a)
  <2>1. PICK a \in Actors : WorkerDies(a)
    BY <1>3
  <2>2. /\ {a} \in SUBSET Workers /\ Forked({a}) /\ phase = "pool" /\ batch.mode = "processes"
        /\ phase' = "pool" /\ UNCHANGED <<batch, primaries, out>>
    BY <2>1 DEF WorkerDies, historyVars
  <2> QED
    BY <2>2, CopiesForked
<1>4. CASE Fork
  <2>1. PICK late \in SUBSET Workers : Forked(late)
    BY <1>4 DEF Fork
  <2>2. phase = "forking" /\ phase' = "pool" /\ UNCHANGED <<batch, primaries, out>>
    BY <1>4 DEF Fork, historyVars
  <2> QED
    BY <2>1, <2>2, CopiesForked
<1>5. CASE \E a \in Actors : Take(a)
  <2>1. PICK a \in Actors : Take(a)
    BY <1>5
  <2>2. /\ UNCHANGED <<phase, batch, copied, primaries, out>>
        /\ handle' = handle \/ (batch.mode = "processes" /\ handle' = [handle EXCEPT ![a] = "none"])
        /\ a \in Runners /\ phase = "pool"
    BY <2>1 DEF Take, dbVars, historyVars
  <2>3. handle'[Main] = handle[Main]
    BY <2>2, MainIsNoWorker DEF Runners, TypeOK
  <2>4. \A b \in Actors : handle'[b] = "none" \/ handle'[b] = handle[b]
    BY <2>2 DEF TypeOK
  <2> QED
    BY <2>2, <2>3, <2>4, CopiesKept DEF Copies
<1>6. CASE (\E c \in Forms : Call(c)) \/ PickleFails \/ UNCHANGED vars
  <2>1. UNCHANGED <<phase, batch, copied, handle, primaries, out>>
    BY <1>6 DEF Call, PickleFails, cacheVars, dbVars, historyVars, mapVars, vars
  <2> QED
    BY <2>1, CopiesKept DEF Copies
<1>7. CASE \E b \in Batches : InitCache(b)
  <2>1. PICK b \in Batches : InitCache(b)
    BY <1>7
  <2>2. /\ phase = "idle" /\ CloseParent /\ primaries' = primaries /\ out' = NoOutcome
        /\ phase' \in {"switching", "forking"} => batch'.mode = "processes"
    BY <2>1 DEF InitCache, dbVars
  <2>3. \A a \in Actors : handle[a] # "copy" /\ (handle'[a] = "none" \/ handle'[a] = handle[a])
    BY <2>2 DEF Copies, CopiesHeld, CloseParent, TypeOK
  <2> QED
    BY <2>2, <2>3, CopiesKept
<1>8. CASE StartPrimary \/ MapRaises \/ Collect \/ StopPrimary \/ StopRefused \/ Wait
  BY <1>8, CopiesParent
<1> QED
  BY <1>1, <1>2, <1>3, <1>4, <1>5, <1>6, <1>7, <1>8 DEF Next, Parent

-----------------------------------------------------------------------------
(* What was delivered *)

LEMMA DeliveredRun ==
  ASSUME TypeOK, StoreHoldsValues, Delivered, Copies, NEW a \in Actors, Run(a)
  PROVE  Delivered'
<1>1. \A b \in Actors : b # a => step'[b] = step[b] /\ task'[b] = task[b]
  <2>1. \/ \E v : EndsWell(a, v)
        \/ \E s \in RunSteps : GoesOn(a, s)
    BY RunShape
  <2> QED
    BY <2>1 DEF EndsWell, Ends, GoesOn, Continues, Goto, TypeOK
<1>2. copied' = copied /\ (~copied => ~HasCopy(a) /\ DOMAIN store \subseteq DOMAIN store')
  BY RunShape, NoCopy, RunKeeps DEF RunFrame
<1>3. CASE \E v : EndsWell(a, v)
  <2>1. PICK v : EndsWell(a, v)
    BY <1>3
  <2>2. step'[a] = "idle" /\ task'[a] = NoTask
    BY <2>1 DEF EndsWell, Ends, Goto, TypeOK
  <2>3. ~copied => delivered' \subseteq DOMAIN store'
    BY <1>2, <2>1 DEF EndsWell, Ends, Delivered
  <2>4. ~NoTask.sure
    BY DEF NoTask
  <2> QED
    BY <1>1, <1>2, <2>2, <2>3, <2>4 DEF Delivered
<1>4. CASE \E s \in RunSteps : GoesOn(a, s)
  <2>1. PICK s \in RunSteps : GoesOn(a, s)
    BY <1>4
  <2>2. step'[a] = s /\ task' = task /\ delivered' = delivered
    BY <2>1 DEF GoesOn, Continues, Goto, TypeOK
  <2> QED
    BY <1>1, <1>2, <2>1, <2>2 DEF Delivered, GoesOn
<1> QED
  BY <1>3, <1>4, RunShape

(* A task that begins is sure if its value was delivered. *)
LEMMA DeliveredBegins ==
  ASSUME TypeOK, Delivered, UNCHANGED <<store, delivered, copied>>,
         NEW a \in Actors, NEW i, NEW c, NEW shared, Begins(a, i, c, shared)
  PROVE  Delivered'
<1>1. PICK t : t = [idx |-> i, call |-> c, shared |-> shared, sure |-> KeyOf[c] \in delivered]
  OBVIOUS
<1>2. t.call = c /\ t.sure = (KeyOf[c] \in delivered)
  BY <1>1
<1>3. step' = [step EXCEPT ![a] = "test"] /\ task' = [task EXCEPT ![a] = t]
  BY <1>1 DEF Begins, Goto
<1>4. step'[a] = "test" /\ task'[a] = t
  BY <1>3 DEF TypeOK
<1>5. \A b \in Actors : b # a => step'[b] = step[b] /\ task'[b] = task[b]
  BY <1>3 DEF TypeOK
<1>6. ~copied /\ t.sure => KeyOf[t.call] \in DOMAIN store
  BY <1>2 DEF Delivered
<1> QED
  BY <1>4, <1>5, <1>6 DEF Delivered

(* Tasks that end early or lose their index *)
LEMMA DeliveredEnds ==
  ASSUME TypeOK, Delivered, UNCHANGED <<store, delivered>>, copied => copied',
         \A a \in Actors :
           /\ step'[a] \in {"idle", step[a]}
           /\ task'[a] \in {NoTask, Orphan(task[a]), task[a]}
           /\ step'[a] # "idle" => task'[a] # NoTask
  PROVE  Delivered'
<1>1. ASSUME NEW a \in Actors
      PROVE  /\ task'[a].sure => task[a].sure /\ task'[a].call = task[a].call
             /\ step'[a] # "idle" => step'[a] = step[a] /\ task'[a].sure = task[a].sure
                                      /\ task'[a].call = task[a].call
  <2>1. /\ ~NoTask.sure
        /\ Orphan(task[a]).sure = task[a].sure /\ Orphan(task[a]).call = task[a].call
    BY DEF NoTask, Orphan
  <2> QED
    BY <2>1
<1> QED
  BY <1>1 DEF Delivered

LEMMA PoolEndsTasks ==
  ASSUME TypeOK, PoolEnds, NEW a \in Actors
  PROVE  /\ step'[a] \in {"idle", step[a]}
         /\ task'[a] \in {NoTask, Orphan(task[a])}
         /\ step'[a] # "idle" => task'[a] # NoTask
<1>1. /\ step'[a] = IF Terminated(a) THEN "idle" ELSE step[a]
      /\ task'[a] = IF Terminated(a) \/ step[a] = "idle" THEN NoTask ELSE Orphan(task[a])
  BY DEF PoolEnds
<1>2. step'[a] = "idle" <=> task'[a] = NoTask
  BY PoolEndsTypes
<1> QED
  BY <1>1, <1>2

LEMMA DeliveredNext ==
  ASSUME TypeOK, StoreHoldsValues, Delivered, Copies, [Next]_vars
  PROVE  Delivered'
<1>1. CASE \E a \in Actors : Run(a)
  BY <1>1, DeliveredRun
<1>2. CASE \E a \in Actors : Take(a)
  <2>1. PICK a \in Actors : Take(a)
    BY <1>2
  <2> QED
    BY <2>1, DeliveredBegins DEF Take, dbVars, historyVars
<1>3. CASE \E c \in Forms : Call(c)
  BY <1>3, MainIsNoWorker, DeliveredBegins DEF Call, dbVars, historyVars
<1>4. CASE \E a \in Actors : WorkerDies(a)
  <2>1. PICK a \in Actors : WorkerDies(a)
    BY <1>4
  <2>2. /\ step' = [step EXCEPT ![a] = "idle"] /\ task' = [task EXCEPT ![a] = NoTask]
        /\ UNCHANGED <<store, delivered>> /\ (copied => copied')
    BY <2>1 DEF WorkerDies, Forked, historyVars
  <2>3. \A b \in Actors :
           /\ step'[b] \in {"idle", step[b]}
           /\ task'[b] \in {NoTask, Orphan(task[b]), task[b]}
           /\ step'[b] # "idle" => task'[b] # NoTask
    BY <2>2 DEF TypeOK
  <2> QED
    BY <2>2, <2>3, DeliveredEnds
<1>5. CASE MapRaises \/ Collect
  <2>1. PoolEnds /\ UNCHANGED <<store, delivered, copied>>
    BY <1>5 DEF MapRaises, Collect, dbVars
  <2> QED
    BY <2>1, PoolEndsTasks, DeliveredEnds
<1>6. CASE \/ \E i \in DOMAIN primaries : PrimaryOpens(i) \/ PrimaryExits(i) \/ PrimaryDies(i)
           \/ \E b \in Batches : InitCache(b)
           \/ StartPrimary \/ Fork \/ StopPrimary \/ StopRefused \/ Wait
           \/ PickleFails \/ UNCHANGED vars
  <2>1. UNCHANGED <<step, task, store, delivered>>
    BY <1>6 DEF PrimaryOpens, PrimaryExits, PrimaryDies, InitCache, StartPrimary, Fork, StopPrimary,
                StopRefused, Wait, PickleFails, actorVars, dbVars, historyVars, vars
  <2>2. copied' = copied \/ Fork
    BY <1>6 DEF PrimaryOpens, PrimaryExits, PrimaryDies, InitCache, StartPrimary, StopPrimary,
                StopRefused, Wait, PickleFails, dbVars, vars
  <2>3. Fork => (copied => copied')
    BY DEF Fork, Forked
  <2> QED
    BY <2>1, <2>2, <2>3 DEF Delivered
<1> QED
  BY <1>1, <1>2, <1>3, <1>4, <1>5, <1>6 DEF Next, Parent

-----------------------------------------------------------------------------
(* The results and the inputs *)

Align == Tasked /\ Resulted /\ Counted

LEMMA AlignInit ==
  ASSUME Init
  PROVE  Align
<1>1. \A a \in Actors : task[a].idx = 0
  BY DEF Init, NoTask
<1>2. results = <<>> /\ phase = "idle"
  BY DEF Init
<1>3. DOMAIN results = {}
  BY <1>2
<1> QED
  BY <1>1, <1>2, <1>3 DEF Align, Tasked, Resulted, Counted

LEMMA InputsAreCounted ==
  ASSUME TypeOK
  PROVE  Len(batch.inputs) \in Nat /\ next \in Nat \ {0}
<1>1. Len(NoBatch.inputs) = 0
  BY DEF NoBatch
<1> QED
  BY <1>1, BatchesAssumption DEF BatchesAssumption, TypeOK

(* The database grows, or the map will raise. *)
Kept == Unkept' \/ (~Unkept /\ DOMAIN store \subseteq DOMAIN store')

(* The parent of a pool of processes closes the database in no step but the last. *)
LEMMA KeptNext ==
  ASSUME TypeOK, StoreHoldsValues, Delivered, Copies, [Next]_vars,
         phase # "idle" => phase' # "idle"
  PROVE  Kept
<1>1. CASE ~Unkept
  BY <1>1, StoreNext DEF Kept
<1> SUFFICES ASSUME Unkept
             PROVE  Unkept'
  BY <1>1 DEF Kept
<1>2. phase \in {"pool", "stopping"} /\ batch.mode = "processes" /\ handle[Main] = "direct"
  BY DEF Unkept
<1>3. CASE \E a \in Actors : Run(a)
  BY <1>2, <1>3, CopiesRun, RunShape DEF Unkept, RunFrame
<1>4. CASE \E a \in Actors : Take(a)
  <2>1. PICK a \in Actors : Take(a)
    BY <1>4
  <2>2. /\ UNCHANGED <<phase, batch>> /\ a # Main
        /\ handle' = handle \/ handle' = [handle EXCEPT ![a] = "none"]
    BY <1>2, <2>1, MainIsNoWorker DEF Take, Runners
  <2>3. handle'[Main] = handle[Main]
    BY <2>2, MainIsNoWorker DEF TypeOK
  <2> QED
    BY <1>2, <2>2, <2>3 DEF Unkept
<1>5. CASE \E a \in Actors : WorkerDies(a)
  <2>1. PICK a \in Actors : WorkerDies(a)
    BY <1>5
  <2>2. a # Main /\ Forked({a}) /\ UNCHANGED <<phase, batch>>
    BY <2>1, MainIsNoWorker DEF WorkerDies
  <2>3. handle'[Main] = handle[Main]
    BY <2>2, MainIsNoWorker DEF Forked
  <2> QED
    BY <1>2, <2>2, <2>3 DEF Unkept
<1>6. CASE Collect
  <2>1. phase' = "stopping" /\ UNCHANGED batch /\ PoolEnds
    BY <1>2, <1>6 DEF Collect
  <2>2. handle'[Main] = handle[Main]
    BY <2>1, MainIsNoWorker DEF PoolEnds
  <2> QED
    BY <1>2, <2>1, <2>2 DEF Unkept
<1>7. CASE \/ \E i \in DOMAIN primaries : PrimaryOpens(i) \/ PrimaryExits(i) \/ PrimaryDies(i)
           \/ PickleFails \/ StopRefused \/ UNCHANGED vars
  <2>1. UNCHANGED <<phase, batch, handle>>
    BY <1>2, <1>7 DEF PrimaryOpens, PrimaryExits, PrimaryDies, PickleFails, StopRefused, Raises,
                      mapVars, cacheVars, vars
  <2> QED
    BY <1>2, <2>1 DEF Unkept
<1>8. ~StopPrimary
  BY <1>2, DirectAlone, MainIsNoWorker DEF StopPrimary, Copies
<1>9. /\ ~(\E c \in Forms : Call(c)) /\ ~(\E b \in Batches : InitCache(b))
      /\ ~StartPrimary /\ ~Fork /\ ~MapRaises /\ ~Wait
  BY <1>2 DEF Call, InitCache, StartPrimary, Fork, MapRaises, Raises, Wait
<1> QED
  BY <1>3, <1>4, <1>5, <1>6, <1>7, <1>8, <1>9 DEF Next, Parent

(* The answer to an input stays one. *)
LEMMA AnswerKept ==
  ASSUME NEW i, NEW v, Answer(i, v), batch' = batch, Kept
  PROVE  Answer(i, v)'
BY DEF Answer, Ignores, Kept

(* Steps that hand out no input, unless they give up what is left, and bring no result *)
LEMMA AlignKept ==
  ASSUME TypeOK, Align, Kept, UNCHANGED <<batch, results>>,
         next' = next \/ (next <= Len(batch.inputs) /\ next' = Len(batch.inputs) + 1),
         \/ phase' = phase
         \/ phase = "switching" /\ phase' = "forking"
         \/ phase = "forking" /\ phase' = "pool"
         \/ phase = "stopping" /\ phase' = "waiting",
         \A a \in Actors :
           \/ task'[a].idx = 0
           \/ task'[a].idx = task[a].idx /\ task'[a].call = task[a].call
  PROVE  Align'
<1>1. /\ phase # "idle" => next' - 1 <= Len(batch.inputs)
      /\ \A i \in 1..(next - 1) : i \in 1..(next' - 1)
  BY InputsAreCounted DEF Align, Counted
<1>2. Tasked'
  <2> SUFFICES ASSUME NEW a \in Actors, task'[a].idx # 0
               PROVE  /\ phase' = "pool"
                      /\ task'[a].idx \in 1..(next' - 1)
                      /\ task'[a].call = CallOf(batch, batch.inputs[task'[a].idx])
                      /\ \A b \in Actors : b # a => task'[b].idx # task'[a].idx
                      /\ \A j \in DOMAIN results : results[j].idx # task'[a].idx
    BY DEF Tasked
  <2>1. task'[a].idx = task[a].idx /\ task'[a].call = task[a].call /\ task[a].idx # 0
    OBVIOUS
  <2>2. phase = "pool" /\ phase' = "pool"
    BY <2>1 DEF Align, Tasked
  <2>3. \A b \in Actors : b # a => task'[b].idx # task'[a].idx
    BY <2>1 DEF Align, Tasked
  <2>4. task'[a].idx \in 1..(next' - 1)
    BY <1>1, <2>1 DEF Align, Tasked
  <2> QED
    BY <2>1, <2>2, <2>3, <2>4 DEF Align, Tasked
<1>3. Resulted'
  <2>1. \A j \in DOMAIN results : results[j].idx \in 1..(next' - 1)
    BY <1>1 DEF Align, Resulted
  <2> QED
    BY <2>1, AnswerKept DEF Align, Resulted
<1>4. Counted'
  BY <1>1 DEF Align, Counted
<1> QED
  BY <1>2, <1>3, <1>4 DEF Align

(* Nothing is handed out, and there is no result. *)
LEMMA AlignEmpty ==
  ASSUME results' = <<>>, \A a \in Actors : task'[a].idx = 0,
         phase' \in {"idle", "switching", "pool"},
         phase' # "idle" => next' - 1 <= Len(batch'.inputs)
  PROVE  Align'
<1>1. DOMAIN results' = {}
  OBVIOUS
<1> QED
  BY <1>1 DEF Align, Tasked, Resulted, Counted

(* Outside of a pool there are no tasks of a map. *)
LEMMA NoTasksOutside ==
  ASSUME Tasked, phase # "pool", NEW a \in Actors
  PROVE  task[a].idx = 0
BY DEF Tasked

LEMMA PoolEndsIdx ==
  ASSUME TypeOK, PoolEnds, NEW a \in Actors
  PROVE  task'[a].idx = 0
<1>1. task'[a] \in {NoTask, Orphan(task[a])}
  BY PoolEndsTasks
<1>2. NoTask.idx = 0 /\ Orphan(task[a]).idx = 0
  BY DEF NoTask, Orphan
<1> QED
  BY <1>1, <1>2

LEMMA NoTaskIdx == NoTask.idx = 0
BY DEF NoTask

(* A result that arrives *)
LEMMA AlignArrives ==
  ASSUME TypeOK, Copies, Align, Kept, NEW a \in Actors, step[a] # "idle", NEW v, EndsWell(a, v),
         task[a].idx # 0, ~(v = Raised /\ ~Ignores), RunFrame
  PROVE  Align'
<1>a. PICK i : i = task[a].idx
  OBVIOUS
<1>b. PICK r : r = [idx |-> i, val |-> IF v = Raised \/ batch.op = "foreach" THEN None ELSE v]
  OBVIOUS
<1>1. r.idx = i /\ (batch.op = "map" => r.val = IF v = Raised THEN None ELSE v)
  BY <1>b
<1>2. results' = Append(results, r)
  BY <1>a, <1>b DEF EndsWell, Ends, Arrives
<1>3. UNCHANGED <<phase, batch, next>>
  BY DEF RunFrame
<1>4. phase = "pool" /\ i \in 1..(next - 1)
  BY <1>a DEF Align, Tasked
<1>5. task'[a].idx = 0 /\ \A b \in Actors : b # a => task'[b] = task[b]
  BY NoTaskIdx DEF EndsWell, Ends, TypeOK
<1>6. batch.op = "map" => Answer(i, r.val)'
  <2>1. task[a].call = CallOf(batch, batch.inputs[i])
    BY <1>a DEF Align, Tasked
  <2>2. HasCopy(a) => Unkept'
    <3>1. Self(a) \in Actors
      BY RunningTask
    <3>2. HasCopy(a) => Unkept
      BY <3>1 DEF HasCopy, Copies, CopiesHeld, Unkept
    <3> QED
      BY <3>2 DEF Kept
  <2> QED
    BY <1>1, <1>3, <2>1, <2>2 DEF Answer, EndsWell, Ignores
<1>7. /\ Len(results') = Len(results) + 1 /\ Len(results) \in Nat
      /\ DOMAIN results' = 1..(Len(results) + 1) /\ DOMAIN results = 1..Len(results)
      /\ results'[Len(results) + 1] = r
      /\ \A j \in 1..Len(results) : results'[j] = results[j]
  <2>1. results \in Seq([idx : Nat \ {0}, val : Values \cup {None}])
    BY DEF TypeOK
  <2> QED
    BY <1>2, <2>1
<1>8. \A j \in DOMAIN results' : results'[j] = r \/ (j \in DOMAIN results /\ results'[j] = results[j])
  BY <1>7
<1>9. \A j \in DOMAIN results : results[j].idx # i
  BY <1>a DEF Align, Tasked
<1>10. Tasked'
  <2> SUFFICES ASSUME NEW b \in Actors, task'[b].idx # 0
               PROVE  /\ phase' = "pool"
                      /\ task'[b].idx \in 1..(next' - 1)
                      /\ task'[b].call = CallOf(batch, batch.inputs[task'[b].idx])
                      /\ \A c \in Actors : c # b => task'[c].idx # task'[b].idx
                      /\ \A j \in DOMAIN results' : results'[j].idx # task'[b].idx
    BY <1>3 DEF Tasked
  <2>1. b # a /\ task'[b] = task[b]
    BY <1>5
  <2>2. task[b].idx # i
    BY <1>a, <2>1 DEF Align, Tasked
  <2>3. \A j \in DOMAIN results' : results'[j].idx # task'[b].idx
    BY <1>1, <1>8, <2>1, <2>2 DEF Align, Tasked
  <2>4. \A c \in Actors : c # b => task'[c].idx # task'[b].idx
    BY <1>5, <2>1 DEF Align, Tasked
  <2> QED
    BY <1>3, <1>4, <2>1, <2>3, <2>4 DEF Align, Tasked
<1>11. Resulted'
  <2> SUFFICES ASSUME NEW j \in DOMAIN results'
               PROVE  /\ results'[j].idx \in 1..(next - 1)
                      /\ \A h \in DOMAIN results' : h # j => results'[h].idx # results'[j].idx
                      /\ batch.op = "map" => Answer(results[j].idx, results[j].val)'
    BY <1>3 DEF Resulted
  <2>1. CASE j \in DOMAIN results
    <3>1. results'[j] = results[j]
      BY <1>7, <2>1
    <3>2. ASSUME NEW h \in DOMAIN results', h # j
          PROVE  results'[h].idx # results'[j].idx
      <4>1. CASE h \in DOMAIN results
        <5>1. results'[h] = results[h]
          BY <1>7, <4>1
        <5> QED
          BY <2>1, <3>1, <3>2, <4>1, <5>1 DEF Align, Resulted
      <4>2. CASE h \notin DOMAIN results
        <5>1. results'[h] = r
          BY <1>8, <4>2
        <5> QED
          BY <1>1, <1>9, <2>1, <3>1, <5>1
      <4> QED
        BY <4>1, <4>2
    <3>3. batch.op = "map" => Answer(results[j].idx, results[j].val)
      BY <2>1 DEF Align, Resulted
    <3> QED
      BY <1>3, <2>1, <3>1, <3>2, <3>3, AnswerKept DEF Align, Resulted
  <2>2. CASE j \notin DOMAIN results
    <3>1. results'[j] = r /\ j = Len(results) + 1
      BY <1>7, <1>8, <2>2
    <3>2. ASSUME NEW h \in DOMAIN results', h # j
          PROVE  results'[h].idx # results'[j].idx
      <4>1. h \in DOMAIN results /\ results'[h] = results[h]
        BY <1>7, <3>1, <3>2
      <4> QED
        BY <1>1, <1>9, <3>1, <4>1
    <3> QED
      BY <1>1, <1>3, <1>4, <1>6, <3>1, <3>2
  <2> QED
    BY <2>1, <2>2
<1>12. Counted'
  BY <1>3, <1>4 DEF Align, Counted
<1> QED
  BY <1>10, <1>11, <1>12 DEF Align

LEMMA AlignRun ==
  ASSUME TypeOK, StoreHoldsValues, Delivered, Copies, Align, Kept, NEW a \in Actors, Run(a)
  PROVE  Align'
<1>1. RunFrame /\ step[a] # "idle"
  BY RunShape
<1>2. CASE \E s \in RunSteps : GoesOn(a, s)
  <2>1. UNCHANGED <<phase, batch, next, results, task>>
    BY <1>2 DEF GoesOn, Continues, mapVars
  <2> QED
    BY <2>1, AlignKept
<1>3. CASE \E v : EndsWell(a, v)
  <2>1. PICK v : EndsWell(a, v)
    BY <1>3
  <2>2. CASE task[a].idx # 0 /\ ~(v = Raised /\ ~Ignores)
    BY <1>1, <2>1, <2>2, AlignArrives
  <2>3. CASE task[a].idx = 0 \/ (v = Raised /\ ~Ignores)
    <3>1. results' = results
      BY <2>1, <2>3 DEF EndsWell, Ends, Arrives
    <3>2. task' = [task EXCEPT ![a] = NoTask]
      BY <2>1 DEF EndsWell, Ends
    <3>3. \A b \in Actors : task'[b].idx = 0 \/ task'[b] = task[b]
      BY <3>2, NoTaskIdx DEF TypeOK
    <3> QED
      BY <1>1, <3>1, <3>3, AlignKept DEF RunFrame
  <2> QED
    BY <2>2, <2>3
<1> QED
  BY <1>2, <1>3, RunShape

(* The next input is handed out; the indexes before it are not used again. *)
LEMMA AlignTake ==
  ASSUME TypeOK, Align, Kept, NEW a \in Actors, Take(a)
  PROVE  Align'
<1>a. PICK n : n = next
  OBVIOUS
<1>b. PICK t : t = [idx |-> n, call |-> CallOf(batch, batch.inputs[n]),
                    shared |-> (batch.mode # "processes"),
                    sure |-> KeyOf[CallOf(batch, batch.inputs[n])] \in delivered]
  OBVIOUS
<1>1. t.idx = n /\ t.call = CallOf(batch, batch.inputs[n])
  BY <1>b
<1>2. task' = [task EXCEPT ![a] = t]
  BY <1>a, <1>b DEF Take, Begins
<1>3. task'[a] = t /\ \A b \in Actors : b # a => task'[b] = task[b]
  BY <1>2 DEF TypeOK
<1>4. /\ UNCHANGED <<phase, batch, results, store>>
      /\ phase = "pool" /\ next' = n + 1 /\ n <= Len(batch.inputs)
  BY <1>a DEF Take, dbVars
<1>5. n \in Nat \ {0}
  BY <1>a DEF TypeOK
<1>6. /\ \A b \in Actors : task[b].idx # 0 => task[b].idx \in 1..(n - 1)
      /\ \A j \in DOMAIN results : results[j].idx \in 1..(n - 1)
  BY <1>a DEF Align, Tasked, Resulted
<1>7. Tasked'
  <2> SUFFICES ASSUME NEW b \in Actors, task'[b].idx # 0
               PROVE  /\ phase' = "pool"
                      /\ task'[b].idx \in 1..(next' - 1)
                      /\ task'[b].call = CallOf(batch, batch.inputs[task'[b].idx])
                      /\ \A c \in Actors : c # b => task'[c].idx # task'[b].idx
                      /\ \A j \in DOMAIN results : results[j].idx # task'[b].idx
    BY <1>4 DEF Tasked
  <2>1. CASE b = a
    <3>1. \A c \in Actors : c # a => task'[c].idx # n
      BY <1>3, <1>5, <1>6
    <3>2. n \in 1..(next' - 1)
      BY <1>4, <1>5
    <3> QED
      BY <1>1, <1>3, <1>4, <1>5, <1>6, <2>1, <3>1, <3>2
  <2>2. CASE b # a
    <3>1. task'[b] = task[b] /\ task[b].idx \in 1..(n - 1)
      BY <1>3, <1>6, <2>2
    <3>2. task[b].idx \in 1..(next' - 1) /\ task[b].idx # n
      BY <1>4, <1>5, <3>1
    <3>3. \A c \in Actors : c # b => task'[c].idx # task'[b].idx
      BY <1>1, <1>3, <3>1, <3>2 DEF Align, Tasked
    <3> QED
      BY <1>4, <3>1, <3>2, <3>3 DEF Align, Tasked
  <2> QED
    BY <2>1, <2>2
<1>8. Resulted'
  <2>1. \A j \in DOMAIN results : results[j].idx \in 1..(next' - 1)
    BY <1>4, <1>5, <1>6
  <2>2. ASSUME NEW j \in DOMAIN results, batch.op = "map"
        PROVE  Answer(results[j].idx, results[j].val)'
    <3>1. PICK i, v : i = results[j].idx /\ v = results[j].val
      OBVIOUS
    <3>2. Answer(i, v)
      BY <2>2, <3>1 DEF Align, Resulted
    <3>3. Answer(i, v)'
      BY <1>4, <3>2, AnswerKept
    <3> QED
      BY <1>4, <3>1, <3>3
  <2> QED
    BY <1>4, <2>1, <2>2 DEF Align, Resulted
<1>9. Counted'
  BY <1>4, <1>5 DEF Align, Counted
<1> QED
  BY <1>7, <1>8, <1>9 DEF Align

LEMMA AlignRaises ==
  ASSUME Raises \/ Returns, \A a \in Actors : task'[a].idx = 0
  PROVE  Align'
BY AlignEmpty DEF Raises, Returns

LEMMA AlignCollect ==
  ASSUME TypeOK, Align, phase' # "idle" => Kept, Collect
  PROVE  Align'
<1>1. \A a \in Actors : task'[a].idx = 0
  BY PoolEndsIdx DEF Collect
<1>2. CASE Returns
  BY <1>1, <1>2, AlignRaises
<1>3. CASE phase' = "stopping" /\ UNCHANGED <<batch, next, results, store>>
  <2>1. Tasked'
    BY <1>1 DEF Tasked
  <2>2. ASSUME NEW j \in DOMAIN results, batch.op = "map"
        PROVE  Answer(results[j].idx, results[j].val)'
    <3>1. PICK i, v : i = results[j].idx /\ v = results[j].val
      OBVIOUS
    <3>2. Answer(i, v)
      BY <2>2, <3>1 DEF Align, Resulted
    <3>3. Answer(i, v)'
      BY <1>3, <3>2, AnswerKept
    <3> QED
      BY <1>3, <3>1, <3>3
  <2>3. Resulted'
    BY <1>3, <2>2 DEF Align, Resulted
  <2>4. Counted'
    BY <1>3 DEF Align, Counted, Collect
  <2> QED
    BY <2>1, <2>3, <2>4 DEF Align
<1> QED
  BY <1>2, <1>3 DEF Collect, dbVars

LEMMA AlignNext ==
  ASSUME TypeOK, StoreHoldsValues, Delivered, Copies, Align, [Next]_vars
  PROVE  Align'
<1>0. (phase # "idle" => phase' # "idle") => Kept
  BY KeptNext
<1>1. CASE \E a \in Actors : Run(a) \/ Take(a)
  <2>1. phase' = phase
    BY <1>1, RunShape DEF RunFrame, Take
  <2> QED
    BY <1>0, <1>1, <2>1, AlignRun, AlignTake
<1>2. CASE \/ \E i \in DOMAIN primaries : PrimaryOpens(i) \/ PrimaryExits(i) \/ PrimaryDies(i)
           \/ Fork \/ StopPrimary \/ PickleFails
           \/ UNCHANGED vars
  <2>1. /\ UNCHANGED <<batch, results, task>>
        /\ next' = next \/ (next <= Len(batch.inputs) /\ next' = Len(batch.inputs) + 1)
    BY <1>2 DEF PrimaryOpens, PrimaryExits, PrimaryDies, Fork, StopPrimary, PickleFails, mapVars,
                actorVars, vars
  <2>2. \/ phase' = phase
        \/ phase = "forking" /\ phase' = "pool"
        \/ phase = "stopping" /\ phase' = "waiting"
    BY <1>2 DEF PrimaryOpens, PrimaryExits, PrimaryDies, Fork, StopPrimary, PickleFails, mapVars, vars
  <2> QED
    BY <1>0, <2>1, <2>2, AlignKept
<1>3. CASE \E a \in Actors : WorkerDies(a)
  <2>1. PICK a \in Actors : WorkerDies(a)
    BY <1>3
  <2>2. task' = [task EXCEPT ![a] = NoTask] /\ UNCHANGED <<phase, batch, next, results>>
    BY <2>1 DEF WorkerDies
  <2>3. \A b \in Actors : task'[b].idx = 0 \/ task'[b] = task[b]
    BY <2>2, NoTaskIdx DEF TypeOK
  <2> QED
    BY <1>0, <2>2, <2>3, AlignKept
<1>4. CASE \E c \in Forms : Call(c)
  <2>1. PICK c \in Forms : Call(c)
    BY <1>4
  <2>2. UNCHANGED <<phase, batch, next, results>>
    BY <2>1 DEF Call
  <2>3. PICK t : t = [idx |-> 0, call |-> c, shared |-> TRUE, sure |-> KeyOf[c] \in delivered]
    OBVIOUS
  <2>4. task' = [task EXCEPT ![Main] = t] /\ t.idx = 0
    BY <2>1, <2>3 DEF Call, Begins
  <2>5. \A b \in Actors : task'[b].idx = 0 \/ task'[b] = task[b]
    BY <2>4 DEF TypeOK
  <2> QED
    BY <1>0, <2>2, <2>5, AlignKept
<1>5. CASE \E b \in Batches : InitCache(b)
  <2>1. PICK b \in Batches : InitCache(b)
    BY <1>5
  <2>2. /\ results' = <<>> /\ phase' \in {"switching", "pool"} /\ batch' = b /\ next' = 1
        /\ task' = task /\ phase # "pool"
    BY <2>1 DEF InitCache, actorVars
  <2>3. Len(b.inputs) \in Nat
    BY BatchesAssumption DEF BatchesAssumption
  <2>4. next' - 1 <= Len(batch'.inputs)
    BY <2>2, <2>3
  <2>5. \A a \in Actors : task'[a].idx = 0
    BY <2>2, NoTasksOutside DEF Align
  <2> QED
    BY <2>2, <2>4, <2>5, AlignEmpty
<1>6. CASE StartPrimary \/ StopRefused \/ Wait
  <2>1. task' = task /\ phase # "pool"
    BY <1>6 DEF StartPrimary, StopRefused, Wait, actorVars
  <2>2. \A a \in Actors : task'[a].idx = 0
    BY <2>1, NoTasksOutside DEF Align
  <2>3. CASE Raises \/ Returns
    BY <2>2, <2>3, AlignRaises
  <2>4. CASE /\ UNCHANGED <<batch, next, results>>
             /\ phase' = phase \/ (phase = "switching" /\ phase' = "forking")
    BY <1>0, <2>1, <2>4, AlignKept
  <2>5. \/ Raises \/ Returns
        \/ /\ UNCHANGED <<batch, next, results>>
           /\ phase' = phase \/ (phase = "switching" /\ phase' = "forking")
    BY <1>6 DEF StartPrimary, StopRefused, Wait, mapVars
  <2> QED
    BY <2>3, <2>4, <2>5
<1>7. CASE MapRaises
  <2>1. Raises /\ PoolEnds
    BY <1>7 DEF MapRaises
  <2> QED
    BY <2>1, PoolEndsIdx, AlignRaises
<1>8. CASE Collect
  BY <1>0, <1>8, AlignCollect
<1> QED
  BY <1>1, <1>2, <1>3, <1>4, <1>5, <1>6, <1>7, <1>8 DEF Next, Parent

(* When as many results are there as inputs, every input has its result. *)
LEMMA AllThere ==
  ASSUME TypeOK, Align, phase # "idle", Len(results) = Len(batch.inputs),
         NEW i \in 1..Len(batch.inputs)
  PROVE  \E j \in DOMAIN results : results[j].idx = i
<1> DEFINE N == Len(results)
           f == [j \in 1..N |-> results[j].idx]
           Rest == (1..N) \ {i}
<1>1. N \in Nat /\ DOMAIN results = 1..N /\ i \in 1..N
  <2>1. results \in Seq([idx : Nat \ {0}, val : Values \cup {None}])
    BY DEF TypeOK
  <2>2. Len(results) \in Nat /\ DOMAIN results = 1..Len(results)
    BY <2>1
  <2> QED
    BY <2>2
<1>2. next - 1 <= N /\ next \in Nat
  BY DEF Align, Counted, TypeOK
<1>3. \A j \in 1..N : results[j].idx \in 1..N
  BY <1>1, <1>2 DEF Align, Resulted
<1>4. \A j, h \in 1..N : j # h => results[j].idx # results[h].idx
  BY <1>1 DEF Align, Resulted
<1>5. IsFiniteSet(1..N) /\ Cardinality(1..N) = N
  BY <1>1, FS_Interval
<1>6. IsFiniteSet(Rest) /\ Cardinality(Rest) = N - 1
  <2> HIDE DEF N
  <2>1. IsFiniteSet(Rest) /\ Cardinality(Rest) = IF i \in 1..N THEN Cardinality(1..N) - 1
                                                ELSE Cardinality(1..N)
    BY <1>5, FS_RemoveElement
  <2> QED
    BY <1>1, <1>5, <2>1
<1> SUFFICES ASSUME \A j \in 1..N : results[j].idx # i
             PROVE  FALSE
  BY <1>1
<1>7. f \in [1..N -> Rest]
  BY <1>3
<1>8. Cardinality(Rest) < Cardinality(1..N)
  BY <1>1, <1>5, <1>6
<1> HIDE DEF f, Rest
<1>9. \E x, y \in 1..N : x # y /\ f[x] = f[y]
  BY <1>5, <1>6, <1>7, <1>8, FS_PigeonHole
<1> QED
  BY <1>4, <1>9 DEF f

(* Then no task of the map is left. *)
LEMMA NoneAtWork ==
  ASSUME TypeOK, Align, phase # "idle", Len(results) = Len(batch.inputs), NEW a \in Actors
  PROVE  task[a].idx = 0
<1>1. CASE task[a].idx # 0
  <2>1. task[a].idx \in 1..(next - 1) /\ next - 1 <= Len(batch.inputs)
    BY <1>1 DEF Align, Tasked, Counted
  <2>2. Len(batch.inputs) \in Nat /\ next \in Nat
    <3>1. results \in Seq([idx : Nat \ {0}, val : Values \cup {None}])
      BY DEF TypeOK
    <3>2. Len(results) \in Nat
      BY <3>1
    <3> QED
      BY <3>2 DEF TypeOK
  <2>3. task[a].idx \in 1..Len(batch.inputs)
    BY <2>1, <2>2
  <2>4. \E j \in DOMAIN results : results[j].idx = task[a].idx
    BY <2>3, AllThere
  <2> QED
    BY <1>1, <2>4 DEF Align, Tasked
<1> QED
  BY <1>1

-----------------------------------------------------------------------------
(* What map returns *)

(* Sorted by their indexes, the results stand at the places of their inputs. *)
LEMMA SortedAnswers ==
  ASSUME TypeOK, Align, phase # "idle", Len(results) = Len(batch.inputs), batch.op = "map"
  PROVE  /\ Len(InOrder(results)) = Len(batch.inputs)
         /\ \A i \in 1..Len(batch.inputs) : Answer(i, InOrder(results)[i])
<1>1. results \in Seq([idx : Nat \ {0}, val : Values \cup {None}])
  BY DEF TypeOK
<1>2. Len(results) \in Nat /\ DOMAIN results = 1..Len(results)
  BY <1>1
<1>3. Len(InOrder(results)) = Len(batch.inputs)
  BY <1>2 DEF InOrder
<1>4. ASSUME NEW i \in 1..Len(batch.inputs)
      PROVE  Answer(i, InOrder(results)[i])
  <2> DEFINE Rs == {results[j] : j \in 1..Len(results)}
             r == CHOOSE x \in Rs : x.idx = i
  <2>1. \E j \in DOMAIN results : results[j].idx = i
    BY AllThere
  <2>2. r \in Rs /\ r.idx = i
    BY <1>2, <2>1
  <2>3. InOrder(results)[i] = r.val
    BY DEF InOrder
  <2> HIDE DEF r
  <2>4. PICK j \in DOMAIN results : r = results[j]
    BY <1>2, <2>2
  <2>5. Answer(results[j].idx, results[j].val)
    BY <2>4 DEF Align, Resulted
  <2> QED
    BY <2>2, <2>3, <2>4, <2>5
<1> QED
  BY <1>3, <1>4

(* The call of an input is told by the outcome as by the batch. *)
LEMMA SameCall ==
  ASSUME NEW b, NEW o, o.op = b.op, o.mode = b.mode, NEW x
  PROVE  CallOf(o, x) = CallOf(b, x)
BY DEF CallOf, Spread

LEMMA AlignedReturns ==
  ASSUME TypeOK, StoreHoldsValues, Align, Returns, UNCHANGED store,
         phase # "idle", ~Unkept, Len(results) = Len(batch.inputs)
  PROVE  ResultsAligned'
<1>1. PICK o : o = [op |-> batch.op, mode |-> batch.mode, inputs |-> batch.inputs, ignore |-> Ignores,
                    res |-> IF batch.op = "map" THEN InOrder(results) ELSE <<>>]
  OBVIOUS
<1>2. /\ o.op = batch.op /\ o.mode = batch.mode /\ o.inputs = batch.inputs /\ o.ignore = Ignores
      /\ batch.op = "map" => o.res = InOrder(results)
  BY <1>1
<1>3. out' = o
  BY <1>1 DEF Returns
<1> SUFFICES ASSUME batch.op = "map"
             PROVE  /\ Len(o.res) = Len(o.inputs)
                    /\ \A i \in DOMAIN o.inputs : LET c == CallOf(o, o.inputs[i]) IN
                         \/ /\ c \in DOMAIN ValueOf /\ o.res[i] = ValueOf[c]
                            /\ KeyOf[c] \in DOMAIN store /\ store[KeyOf[c]].val = ValueOf[c]
                         \/ o.res[i] = None /\ o.ignore
  BY <1>2, <1>3 DEF ResultsAligned
<1>4. batch \in Batches
  BY DEF TypeOK
<1>5. DOMAIN batch.inputs = 1..Len(batch.inputs)
  BY <1>4, BatchesAssumption DEF BatchesAssumption
<1>6. Len(o.res) = Len(o.inputs)
  BY <1>2, SortedAnswers
<1>7. ASSUME NEW i \in DOMAIN o.inputs
      PROVE  LET c == CallOf(o, o.inputs[i]) IN
             \/ /\ c \in DOMAIN ValueOf /\ o.res[i] = ValueOf[c]
                /\ KeyOf[c] \in DOMAIN store /\ store[KeyOf[c]].val = ValueOf[c]
             \/ o.res[i] = None /\ o.ignore
  <2>1. i \in 1..Len(batch.inputs)
    BY <1>2, <1>5
  <2>2. Answer(i, o.res[i])
    BY <1>2, <2>1, SortedAnswers
  <2>3. PICK c : c = CallOf(batch, batch.inputs[i])
    OBVIOUS
  <2>4. c = CallOf(o, o.inputs[i]) /\ c \in Calls
    BY <1>2, <1>4, <2>1, <2>3, SameCall, InputsAreCalls
  <2>5. \/ c \in DOMAIN ValueOf /\ o.res[i] = ValueOf[c] /\ KeyOf[c] \in DOMAIN store
        \/ o.res[i] = None /\ Ignores
    BY <2>2, <2>3 DEF Answer
  <2> QED
    BY <1>2, <2>4, <2>5, StoreHoldsValueOf
<1> QED
  BY <1>6, <1>7

(* What map has returned stays true of the database. *)
LEMMA AlignedKept ==
  ASSUME StoreHoldsValues', DOMAIN store \subseteq DOMAIN store', ResultsAligned, out' = out,
         \A c \in DOMAIN ValueOf : KeyOf[c] \in DOMAIN store' => store'[KeyOf[c]].val = ValueOf[c]
  PROVE  ResultsAligned'
<1>1. PICK o : o = out
  OBVIOUS
<1>2. o # NoOutcome /\ o.op = "map" =>
    /\ Len(o.res) = Len(o.inputs)
    /\ \A i \in DOMAIN o.inputs : LET c == CallOf(o, o.inputs[i]) IN
         \/ /\ c \in DOMAIN ValueOf /\ o.res[i] = ValueOf[c]
            /\ KeyOf[c] \in DOMAIN store /\ store[KeyOf[c]].val = ValueOf[c]
         \/ o.res[i] = None /\ o.ignore
  BY <1>1 DEF ResultsAligned
<1>3. out' = o
  BY <1>1
<1> QED
  BY <1>2, <1>3 DEF ResultsAligned

LEMMA AlignedNext ==
  ASSUME TypeOK, StoreHoldsValues, Delivered, Copies, Align, ResultsAligned, [Next]_vars
  PROVE  ResultsAligned'
<1>1. /\ StoreHoldsValues'
      /\ DOMAIN store \subseteq DOMAIN store' \/ out = NoOutcome
  BY StoreNext DEF Copies
<1>2. CASE out' = out
  <2>1. ASSUME NEW c \in DOMAIN ValueOf, KeyOf[c] \in DOMAIN store'
        PROVE  store'[KeyOf[c]].val = ValueOf[c]
    <3>1. PICK d \in DOMAIN ValueOf : KeyOf[c] = KeyOf[d] /\ store'[KeyOf[c]].val = ValueOf[d]
      BY <1>1, <2>1 DEF StoreHoldsValues
    <3>2. c = d
      BY <3>1, ValuesAreOfCalls, KeysTell
    <3> QED
      BY <3>1, <3>2
  <2>2. CASE out = NoOutcome
    BY <1>2, <2>2 DEF ResultsAligned
  <2> QED
    BY <1>1, <1>2, <2>1, <2>2, AlignedKept
<1>3. CASE \E b \in Batches : InitCache(b)
  <2>1. out' = NoOutcome
    BY <1>3 DEF InitCache
  <2> QED
    BY <2>1 DEF ResultsAligned
<1>4. CASE Collect /\ Returns
  BY <1>4, AlignedReturns DEF Collect, Returns, Unkept, dbVars
<1>5. CASE Wait /\ Returns
  BY <1>5, AlignedReturns DEF Wait, Align, Counted, Unkept
<1>6. \/ out' = out
      \/ \E b \in Batches : InitCache(b)
      \/ Collect /\ Returns
      \/ Wait /\ Returns
  <2>1. CASE \E a \in Actors : Run(a)
    BY <2>1, RunShape DEF RunFrame
  <2>2. CASE \/ \E i \in DOMAIN primaries : PrimaryOpens(i) \/ PrimaryExits(i) \/ PrimaryDies(i)
             \/ \E a \in Actors : Take(a) \/ WorkerDies(a)
             \/ \E c \in Forms : Call(c)
             \/ PickleFails \/ UNCHANGED vars
    BY <2>2 DEF PrimaryOpens, PrimaryExits, PrimaryDies, Take, WorkerDies, Call, PickleFails,
                historyVars, vars
  <2>3. CASE Parent
    BY <2>3 DEF Parent, StartPrimary, Fork, MapRaises, Raises, Collect, StopPrimary, StopRefused, Wait,
                historyVars
  <2> QED
    BY <2>1, <2>2, <2>3 DEF Next
<1> QED
  BY <1>2, <1>3, <1>4, <1>5, <1>6

-----------------------------------------------------------------------------
(* The database changes hands *)

LEMMA RunnersAreActors ==
  /\ \A a \in Actors : a = Main \/ a \in Workers
  /\ Runners \subseteq Actors
  /\ Pooling => Runners = Workers
  /\ Main \in Runners => Runners = {Main}
  /\ phase # "pool" => ~Pooling
BY MainIsNoWorker DEF Actors, Runners, Pooling

(* The cache object an actor uses: that of the parent unless the pool is one of processes. *)
LEMMA SelfInTurn ==
  ASSUME TypeOK, Runs, NEW a \in Actors, step[a] # "idle"
  PROVE  /\ phase \in {"idle", "pool"}
         /\ Pooling => Self(a) = a /\ a \in Workers /\ a # Main
         /\ ~Pooling => Self(a) = Main
         /\ a # Main => step[Main] = "idle"
<1>1. /\ task[a].shared = ~Pooling
      /\ \/ phase = "idle" /\ a = Main /\ task[a].idx = 0
         \/ phase = "pool" /\ a \in Runners /\ task[a].idx # 0
  BY DEF Runs
<1>2. a # Main => Main \notin Runners /\ phase = "pool"
  BY <1>1, RunnersAreActors
<1>3. a # Main => step[Main] = "idle"
  BY <1>2, MainIsNoWorker DEF Runs
<1>4. Pooling => a \in Workers /\ a # Main
  BY <1>1, RunnersAreActors, MainIsNoWorker
<1>5. (Pooling => Self(a) = a) /\ (~Pooling => Self(a) = Main)
  BY <1>1 DEF Self
<1> QED
  BY <1>1, <1>3, <1>4, <1>5

(* Nobody has the database open when a primary or the parent opens it. *)
LEMMA NotLocked ==
  ASSUME TypeOK, Handles, handle[Main] = "none",
         \A i \in DOMAIN primaries : primaries[i] \notin {"serving", "closing"}
  PROVE  ~Locked
<1>1. \A a \in Actors : handle[a] # "direct"
  BY RunnersAreActors DEF Handles
<1> QED
  BY <1>1 DEF Locked

LEMMA RunsKept ==
  ASSUME TypeOK, Runs, NEW a \in Actors, step[a] # "idle", NEW s,
         step' = [step EXCEPT ![a] = s], s # "idle" => task' = task,
         \A b \in Actors : b # a => task'[b] = task[b],
         UNCHANGED <<phase, batch>>, s = "open" => ~Pooling, s = "dial" => Pooling
  PROVE  Runs'
<1>1. step'[a] = s /\ \A b \in Actors : b # a => step'[b] = step[b]
  BY DEF TypeOK
<1>2. Pooling' = Pooling /\ Runners' = Runners
  BY DEF Pooling, Runners
<1>3. ASSUME NEW b \in Actors, step'[b] # "idle"
      PROVE  /\ task'[b] = task[b] /\ step[b] # "idle"
             /\ step'[b] = "open" => ~Pooling
             /\ step'[b] = "dial" => Pooling
  BY <1>1, <1>3 DEF Runs
<1> QED
  BY <1>2, <1>3 DEF Runs

LEMMA TurnRun ==
  ASSUME TypeOK, StoreHoldsValues, Delivered, InTurn, NEW a \in Actors, Run(a)
  PROVE  InTurn'
<1>1. /\ step[a] # "idle" /\ RunFrame
      /\ handle' = handle \/ SetHandle(a, "direct") \/ SetHandle(a, "secondary")
  BY RunShape DEF Opens
<1>2. /\ phase \in {"idle", "pool"}
      /\ Pooling => Self(a) = a /\ a \in Workers /\ a # Main
      /\ ~Pooling => Self(a) = Main
      /\ a # Main => step[Main] = "idle"
  BY <1>1, SelfInTurn DEF InTurn
<1>3. PICK s : /\ step' = [step EXCEPT ![a] = s] /\ (s # "idle" => task' = task)
               /\ \A b \in Actors : b # a => task'[b] = task[b]
  <2>1. CASE \E v : EndsWell(a, v)
    BY <2>1 DEF EndsWell, Ends, Goto, TypeOK
  <2>2. CASE \E s \in RunSteps : GoesOn(a, s)
    BY <2>2 DEF GoesOn, Continues, Goto
  <2> QED
    BY <2>1, <2>2, RunShape
<1>4. step'[a] = s
  BY <1>3 DEF TypeOK
<1>5. /\ s = "open" => ~is_mrsw /\ handle[Self(a)] = "none" /\ handle' = handle
      /\ s = "dial" => is_mrsw \/ step[a] = "dial"
  <2>1. CASE Test(a)
    BY <1>4, <2>1 DEF Test, Ends, Continues, Goto, TypeOK, cacheVars
  <2>2. CASE DialRefused(a)
    BY <1>4, <2>2 DEF DialRefused, Ends, Continues, Goto, TypeOK
  <2>3. CASE OpenDirect(a) \/ OpenSecondary(a) \/ Contains(a) \/ Compute(a) \/ Store(a) \/ Read(a)
    BY <1>4, <2>3 DEF OpenDirect, OpenSecondary, Contains, Compute, Store, Read, Ends, Continues,
                      Goto, TypeOK
  <2> QED
    BY <2>1, <2>2, <2>3 DEF Run
<1>6. /\ s = "open" => ~Pooling
      /\ s = "dial" => Pooling
  BY <1>1, <1>5 DEF InTurn, Handles, Runs
<1>7. Runs'
  BY <1>1, <1>3, <1>6, RunsKept DEF InTurn, RunFrame
<1>8. step[a] = "open" /\ a = Main => ~Locked
  <2> SUFFICES ASSUME step[a] = "open", a = Main
               PROVE  ~Locked
    OBVIOUS
  <2>1. ~Pooling /\ handle[Main] = "none"
    BY DEF InTurn, Runs, MainOpens
  <2>2. \A i \in DOMAIN primaries : primaries[i] = "exited"
    BY <1>2, <2>1 DEF InTurn, Primaries
  <2> QED
    BY <2>1, <2>2, NotLocked DEF InTurn
<1>9. refused' \subseteq {"worker"}
  <2>1. CASE OpenDirect(a)
    BY <1>8, <2>1 DEF OpenDirect, InTurn
  <2>2. CASE Test(a) \/ OpenSecondary(a) \/ DialRefused(a) \/ Contains(a) \/ Compute(a) \/ Store(a)
             \/ Read(a)
    BY <2>2 DEF Test, OpenSecondary, DialRefused, Contains, Compute, Store, Read, InTurn
  <2> QED
    BY <2>1, <2>2 DEF Run
<1>10. \/ handle' = handle
       \/ Pooling /\ handle' = [handle EXCEPT ![a] = "secondary"]
       \/ ~Pooling /\ handle' = [handle EXCEPT ![Main] = "direct"] /\ s # "open"
  <2>1. CASE OpenDirect(a)
    <3>1. ~Pooling
      BY <2>1 DEF OpenDirect, InTurn, Runs
    <3>2. handle' = handle \/ handle' = [handle EXCEPT ![Main] = "direct"]
      BY <1>2, <2>1, <3>1 DEF OpenDirect, SetHandle
    <3>3. s # "open"
      BY <1>4, <2>1 DEF OpenDirect, Ends, Continues, Goto, TypeOK
    <3> QED
      BY <3>1, <3>2, <3>3
  <2>2. CASE OpenSecondary(a)
    <3>1. Pooling
      BY <2>2 DEF OpenSecondary, InTurn, Runs
    <3> QED
      BY <1>2, <2>2, <3>1 DEF OpenSecondary, SetHandle
  <2>3. CASE Test(a) \/ DialRefused(a) \/ Contains(a) \/ Compute(a) \/ Store(a) \/ Read(a)
    BY <2>3 DEF Test, DialRefused, Contains, Compute, Store, Read, cacheVars
  <2> QED
    BY <2>1, <2>2, <2>3 DEF Run
<1>11. UNCHANGED <<phase, batch, is_mrsw, primaries, endpoint, copied, lost, asserted>>
  BY <1>1 DEF RunFrame
<1>12. Handles'
  <2>1. Pooling' = Pooling
    BY <1>11 DEF Pooling
  <2>2. is_mrsw' <=> Pooling' \/ phase' = "forking"
    BY <1>11, <2>1 DEF InTurn, Handles
  <2>3. CASE handle' = handle
    BY <1>11, <2>1, <2>2, <2>3 DEF InTurn, Handles
  <2>4. CASE Pooling /\ handle' = [handle EXCEPT ![a] = "secondary"]
    <3>1. \A b \in Actors : handle'[b] = IF b = a THEN "secondary" ELSE handle[b]
      BY <2>4 DEF TypeOK
    <3>2. a # Main
      BY <1>2, <2>4
    <3> QED
      BY <1>2, <1>11, <2>1, <2>2, <2>4, <3>1, <3>2, MainIsNoWorker DEF InTurn, Handles
  <2>5. CASE ~Pooling /\ handle' = [handle EXCEPT ![Main] = "direct"]
    <3>1. \A b \in Actors : handle'[b] = IF b = Main THEN "direct" ELSE handle[b]
      BY <2>5 DEF TypeOK
    <3> QED
      BY <1>2, <1>11, <2>1, <2>2, <2>5, <3>1, MainIsNoWorker DEF InTurn, Handles
  <2> QED
    BY <1>10, <2>3, <2>4, <2>5
<1>13. Primaries'
  BY <1>11 DEF InTurn, Primaries, Pooling
<1>14. MainOpens'
  <2>1. CASE a = Main
    <3>1. s = "open" => handle'[Main] = "none"
      BY <1>2, <1>5, <1>6, <2>1
    <3> QED
      BY <1>4, <2>1, <3>1 DEF MainOpens
  <2>2. CASE a # Main
    <3>1. step'[Main] = "idle"
      BY <1>2, <1>3, <2>2, MainIsNoWorker DEF TypeOK
    <3> QED
      BY <3>1 DEF MainOpens
  <2> QED
    BY <2>1, <2>2
<1> QED
  BY <1>7, <1>9, <1>11, <1>12, <1>13, <1>14 DEF InTurn

(* Steps that leave the map and the actors alone *)
LEMMA TurnActors ==
  ASSUME Runs, MainOpens, UNCHANGED <<phase, batch, step, task>>, handle' = handle
  PROVE  Runs' /\ MainOpens'
<1>1. Pooling' = Pooling /\ Runners' = Runners
  BY DEF Pooling, Runners
<1> QED
  BY <1>1 DEF Runs, MainOpens

(* A primary that is not exited is the last one. *)
LEMMA LastPrimary ==
  ASSUME TypeOK, Primaries, NEW i \in DOMAIN primaries, primaries[i] # "exited"
  PROVE  /\ i = Len(primaries) /\ i # 0 /\ i \in Nat
         /\ Pooling \/ phase \in {"forking", "stopping", "waiting"}
<1>1. DOMAIN primaries = 1..Len(primaries) /\ Len(primaries) \in Nat
  BY DEF TypeOK
<1>2. i = Len(primaries) /\ i # 0 /\ i \in Nat
  BY <1>1 DEF Primaries
<1> QED
  BY <1>2 DEF Primaries

LEMMA TurnPrimary ==
  ASSUME TypeOK, InTurn, NEW i \in DOMAIN primaries,
         PrimaryOpens(i) \/ PrimaryExits(i) \/ PrimaryDies(i)
  PROVE  InTurn'
<1>1. primaries[i] # "exited"
  BY DEF PrimaryOpens, PrimaryExits, PrimaryDies
<1>2. /\ i = Len(primaries) /\ i # 0 /\ i \in Nat
      /\ Pooling \/ phase \in {"forking", "stopping", "waiting"}
  BY <1>1, LastPrimary DEF InTurn
<1>3. /\ UNCHANGED <<phase, batch, step, task, handle, is_mrsw, copied, asserted>>
      /\ \E p : primaries' = [primaries EXCEPT ![i] = p]
  BY DEF PrimaryOpens, PrimaryExits, PrimaryDies, mapVars, cacheVars, actorVars, historyVars
<1>4. Pooling' = Pooling
  BY <1>3 DEF Pooling
<1>5. DOMAIN primaries = 1..Len(primaries) /\ Len(primaries) \in Nat
  BY DEF TypeOK
<1>6. PICK p : primaries' = [primaries EXCEPT ![i] = p]
  BY <1>3
<1>7. /\ Len(primaries') = Len(primaries) /\ primaries'[i] = p
      /\ \A j \in 1..(i - 1) : primaries'[j] = primaries[j]
  BY <1>2, <1>5, <1>6 DEF TypeOK
<1>8. \A j \in 1..(i - 1) : primaries'[j] = "exited"
  BY <1>2, <1>7 DEF InTurn, Primaries
<1>9. Runs' /\ MainOpens'
  BY <1>3, TurnActors DEF InTurn
<1>10. Handles'
  BY <1>3, <1>4 DEF InTurn, Handles
<1>11. CASE PrimaryOpens(i)
  <2>1. primaries[i] = "launched"
    BY <1>11 DEF PrimaryOpens
  <2>2. Pooling \/ phase \in {"forking", "stopping"}
    BY <1>2, <2>1 DEF InTurn, Primaries
  <2>3. handle[Main] = "none"
    BY <2>2 DEF InTurn, Handles
  <2>4. \A j \in DOMAIN primaries : primaries[j] \notin {"serving", "closing"}
    BY <1>2, <1>5, <2>1 DEF InTurn, Primaries
  <2>5. ~Locked
    BY <2>3, <2>4, NotLocked DEF InTurn
  <2>6. primaries'[i] = "serving" /\ endpoint' = i /\ refused' = refused
    BY <1>5, <2>5, <1>11 DEF PrimaryOpens
  <2>7. phase # "waiting"
    BY <2>2, RunnersAreActors DEF Pooling
  <2>8. Primaries'
    BY <1>2, <1>3, <1>4, <1>7, <1>8, <2>2, <2>6, <2>7 DEF Primaries
  <2> QED
    BY <1>3, <1>9, <1>10, <2>6, <2>8 DEF InTurn
<1>12. CASE PrimaryExits(i)
  <2>1. primaries[i] = "closing" /\ primaries' = [primaries EXCEPT ![i] = "exited"]
        /\ endpoint' = endpoint /\ refused' = refused
    BY <1>12 DEF PrimaryExits, historyVars
  <2>2. phase = "waiting" /\ ~Pooling
    BY <1>2, <2>1 DEF InTurn, Primaries, Pooling
  <2>3. primaries'[i] = "exited"
    BY <1>5, <2>1
  <2>4. endpoint = 0
    BY <2>2 DEF InTurn, Primaries
  <2>5. Primaries'
    BY <1>2, <1>3, <1>4, <1>7, <1>8, <2>1, <2>2, <2>3, <2>4 DEF Primaries
  <2> QED
    BY <1>3, <1>9, <1>10, <2>1, <2>5 DEF InTurn
<1>13. CASE PrimaryDies(i)
  <2>1. /\ primaries' = [primaries EXCEPT ![i] = "killed"] /\ refused' = refused
        /\ endpoint' = endpoint /\ lost' = lost \cup {"primary"}
    BY <1>2, <1>13 DEF PrimaryDies, historyVars
  <2>2. primaries'[i] = "killed"
    BY <1>5, <2>1
  <2>3. /\ endpoint' \in {0, i}
        /\ phase = "waiting" => endpoint' = 0
    BY <1>2, <2>1 DEF InTurn, Primaries
  <2>4. Primaries'
    BY <1>2, <1>3, <1>4, <1>7, <1>8, <2>1, <2>2, <2>3 DEF Primaries, Pooling
  <2> QED
    BY <1>3, <1>9, <1>10, <2>1, <2>4 DEF InTurn
<1> QED
  BY <1>11, <1>12, <1>13

LEMMA TurnTake ==
  ASSUME TypeOK, InTurn, NEW a \in Actors, Take(a)
  PROVE  InTurn'
<1>a. PICK t : t = [idx |-> next, call |-> CallOf(batch, batch.inputs[next]),
                    shared |-> (batch.mode # "processes"),
                    sure |-> KeyOf[CallOf(batch, batch.inputs[next])] \in delivered]
  OBVIOUS
<1>1. t.idx = next /\ t.shared = (batch.mode # "processes")
  BY <1>a
<1>2. task' = [task EXCEPT ![a] = t] /\ step' = [step EXCEPT ![a] = "test"]
  BY <1>a DEF Take, Begins, Goto
<1>3. /\ task'[a] = t /\ step'[a] = "test"
      /\ \A b \in Actors : b # a => task'[b] = task[b] /\ step'[b] = step[b]
  BY <1>2 DEF TypeOK
<1>4. /\ UNCHANGED <<phase, batch, is_mrsw, primaries, endpoint, copied, lost, refused, asserted>>
      /\ phase = "pool" /\ a \in Runners /\ next # 0
      /\ handle' = handle \/ (Pooling /\ handle' = [handle EXCEPT ![a] = "none"])
  BY DEF Take, dbVars, historyVars, TypeOK, Pooling
<1>5. Pooling' = Pooling /\ Runners' = Runners
  BY <1>4 DEF Pooling, Runners
<1>6. t.shared = ~Pooling
  BY <1>1, <1>4 DEF Pooling
<1>7. Runs'
  BY <1>1, <1>3, <1>4, <1>5, <1>6 DEF InTurn, Runs
<1>8. Handles'
  <2>1. CASE handle' = handle
    BY <1>4, <1>5, <2>1 DEF InTurn, Handles
  <2>2. CASE Pooling /\ handle' = [handle EXCEPT ![a] = "none"]
    <3>1. \A b \in Actors : handle'[b] = handle[b] \/ handle'[b] = "none"
      BY <2>2 DEF TypeOK
    <3> QED
      BY <1>4, <1>5, <2>2, <3>1, MainIsNoWorker DEF InTurn, Handles
  <2> QED
    BY <1>4, <2>1, <2>2
<1>9. Primaries'
  BY <1>4, <1>5 DEF InTurn, Primaries
<1>10. MainOpens'
  BY <1>3, <1>4, MainIsNoWorker DEF InTurn, MainOpens, TypeOK
<1> QED
  BY <1>4, <1>7, <1>8, <1>9, <1>10 DEF InTurn

(* Until a map raises, the parent has nothing open that a process could inherit. *)
LEMMA ForkedAlike ==
  ASSUME TypeOK, ~copied, handle[Main] = "none", NEW new \in SUBSET Workers, Forked(new)
  PROVE  /\ \A b \in Actors : handle'[b] = IF b \in new THEN "none" ELSE handle[b]
         /\ copied' = copied
<1>1. Inherited = "none"
  BY DEF Inherited
<1>2. \A b \in Actors : handle'[b] = IF b \in new THEN "none" ELSE handle[b]
  BY <1>1 DEF Forked
<1>3. copied' = copied
  <2>1. ~copied'
    BY <1>1 DEF Forked
  <2>2. copied' \in BOOLEAN
    BY DEF Forked
  <2> QED
    BY <2>1, <2>2 DEF TypeOK
<1> QED
  BY <1>2, <1>3

LEMMA TurnWorkerDies ==
  ASSUME TypeOK, InTurn, NEW a \in Actors, WorkerDies(a)
  PROVE  InTurn'
<1>1. /\ step' = [step EXCEPT ![a] = "idle"] /\ task' = [task EXCEPT ![a] = NoTask]
      /\ Forked({a})
      /\ UNCHANGED <<phase, batch, is_mrsw, primaries, endpoint, refused, asserted>>
      /\ lost \subseteq lost' /\ a \in Workers /\ Pooling
  BY DEF WorkerDies, historyVars, Pooling
<1>2. /\ step'[a] = "idle"
      /\ \A b \in Actors : b # a => task'[b] = task[b] /\ step'[b] = step[b]
  BY <1>1 DEF TypeOK
<1>3. Pooling' = Pooling /\ Runners' = Runners
  BY <1>1 DEF Pooling, Runners
<1>4. Runs'
  BY <1>1, <1>2, <1>3 DEF InTurn, Runs
<1>5. Handles' /\ copied' = copied /\ handle'[Main] = handle[Main]
  <2>1. handle[Main] = "none"
    BY <1>1 DEF InTurn, Handles
  <2>2. /\ \A b \in Actors : handle'[b] = IF b = a THEN "none" ELSE handle[b]
        /\ copied' = copied
    BY <1>1, <2>1, ForkedAlike DEF InTurn
  <2> QED
    BY <1>1, <1>3, <2>1, <2>2, MainIsNoWorker DEF InTurn, Handles
<1>6. Primaries'
  BY <1>1, <1>3 DEF InTurn, Primaries
<1>7. MainOpens'
  BY <1>1, <1>2, <1>5, MainIsNoWorker DEF InTurn, MainOpens
<1> QED
  BY <1>1, <1>4, <1>5, <1>6, <1>7 DEF InTurn

LEMMA TurnCall ==
  ASSUME TypeOK, InTurn, NEW c \in Forms, Call(c)
  PROVE  InTurn'
<1>a. PICK t : t = [idx |-> 0, call |-> c, shared |-> TRUE, sure |-> KeyOf[c] \in delivered]
  OBVIOUS
<1>1. t.idx = 0 /\ t.shared = TRUE
  BY <1>a
<1>2. task' = [task EXCEPT ![Main] = t] /\ step' = [step EXCEPT ![Main] = "test"]
  BY <1>a DEF Call, Begins, Goto
<1>3. /\ task'[Main] = t /\ step'[Main] = "test"
      /\ \A b \in Actors : b # Main => task'[b] = task[b] /\ step'[b] = step[b]
  BY <1>2, MainIsNoWorker DEF TypeOK
<1>4. /\ UNCHANGED <<phase, batch, handle, is_mrsw, primaries, endpoint, copied, lost, refused,
                  asserted>>
      /\ phase = "idle"
  BY DEF Call, cacheVars, dbVars, historyVars
<1>5. Pooling' = Pooling /\ Runners' = Runners /\ ~Pooling
  BY <1>4 DEF Pooling, Runners
<1>6. Runs'
  BY <1>1, <1>3, <1>4, <1>5 DEF InTurn, Runs
<1>7. Handles'
  BY <1>4, <1>5 DEF InTurn, Handles
<1>8. Primaries'
  BY <1>4, <1>5 DEF InTurn, Primaries
<1> QED
  BY <1>3, <1>4, <1>6, <1>7, <1>8 DEF InTurn, MainOpens

LEMMA TurnPickleFails ==
  ASSUME InTurn
  PROVE  ~PickleFails
BY DEF PickleFails, InTurn, Handles, Pooling

LEMMA TurnInitCache ==
  ASSUME TypeOK, InTurn, NEW b \in Batches, InitCache(b)
  PROVE  InTurn'
<1>1. /\ handle' = [handle EXCEPT ![Main] = "none"] /\ phase = "idle" /\ step[Main] = "idle"
      /\ batch' = b /\ phase' = IF b.mode = "processes" THEN "switching" ELSE "pool"
      /\ UNCHANGED <<step, task, is_mrsw, primaries, endpoint, copied, refused, asserted>>
  BY DEF InitCache, CloseParent, actorVars, dbVars
<1>2. ~Pooling /\ ~Pooling'
  BY <1>1 DEF Pooling
<1>3. \A a \in Actors : step[a] = "idle"
  BY <1>1 DEF InTurn, Runs
<1>4. Runs' /\ MainOpens'
  BY <1>1, <1>3, MainIsNoWorker DEF Runs, MainOpens
<1>5. Handles'
  BY <1>1, <1>2, MainIsNoWorker DEF InTurn, Handles, TypeOK
<1>6. Primaries'
  BY <1>1, <1>2 DEF InTurn, Primaries
<1> QED
  BY <1>1, <1>4, <1>5, <1>6 DEF InTurn

(* start_primary finds the parent's handle closed. *)
LEMMA TurnStartPrimary ==
  ASSUME TypeOK, InTurn, StartPrimary
  PROVE  InTurn'
<1>1. phase = "switching" /\ ~Pooling
  BY DEF StartPrimary, Pooling
<1>2. handle[Main] = "none" /\ batch.mode = "processes" /\ \A a \in Workers : handle[a] = "none"
  BY <1>1 DEF InTurn, Handles
<1>3. /\ is_mrsw' = TRUE /\ Cleanup /\ primaries' = Append(primaries, "launched") /\ phase' = "forking"
      /\ UNCHANGED <<batch, handle, step, task, copied, lost, refused, asserted>>
  BY <1>2 DEF StartPrimary, actorVars
<1>4. ~Pooling'
  BY <1>2, <1>3 DEF Pooling
<1>5. endpoint = 0 /\ \A i \in DOMAIN primaries : primaries[i] = "exited"
  BY <1>1 DEF InTurn, Primaries
<1>6. endpoint' = 0
  BY <1>3, <1>5 DEF Cleanup
<1>7. \A a \in Actors : step[a] = "idle"
  BY <1>1 DEF InTurn, Runs
<1>8. Runs' /\ MainOpens'
  BY <1>3, <1>7, MainIsNoWorker DEF Runs, MainOpens
<1>9. Handles'
  BY <1>2, <1>3, <1>4 DEF Handles
<1>10. Primaries'
  <2>1. Len(primaries) \in Nat /\ DOMAIN primaries = 1..Len(primaries)
    BY DEF TypeOK
  <2>2. /\ Len(primaries') = Len(primaries) + 1
        /\ primaries'[Len(primaries) + 1] = "launched"
        /\ \A i \in 1..Len(primaries) : primaries'[i] = primaries[i]
    BY <1>3 DEF TypeOK
  <2>3. \A i \in 1..(Len(primaries') - 1) : primaries'[i] = "exited"
    BY <1>5, <2>1, <2>2
  <2> QED
    BY <1>3, <1>4, <1>6, <2>1, <2>2, <2>3 DEF Primaries
<1> QED
  BY <1>3, <1>8, <1>9, <1>10 DEF InTurn

LEMMA TurnFork ==
  ASSUME TypeOK, InTurn, Fork
  PROVE  InTurn'
<1>1. PICK late \in SUBSET Workers : Forked(late) /\ lost' = lost \cup Unusable(late)
  BY DEF Fork
<1>2. /\ phase = "forking" /\ phase' = "pool"
      /\ UNCHANGED <<batch, step, task, is_mrsw, primaries, endpoint, refused, asserted>>
  BY DEF Fork, actorVars, historyVars
<1>3. ~Pooling
  BY <1>2 DEF Pooling
<1>4. handle[Main] = "none" /\ batch.mode = "processes" /\ \A a \in Workers : handle[a] = "none"
  BY <1>2, <1>3 DEF InTurn, Handles
<1>5. Pooling'
  BY <1>2, <1>4 DEF Pooling
<1>6. (\A a \in Actors : handle'[a] = "none") /\ copied' = copied
  BY <1>1, <1>4, ForkedAlike, RunnersAreActors DEF InTurn
<1>7. \A a \in Actors : step[a] = "idle"
  BY <1>2 DEF InTurn, Runs
<1>8. Runs' /\ MainOpens'
  BY <1>2, <1>7, MainIsNoWorker DEF Runs, MainOpens
<1>9. Handles'
  BY <1>2, <1>5, <1>6, MainIsNoWorker DEF InTurn, Handles
<1>10. Primaries'
  BY <1>1, <1>2, <1>5 DEF InTurn, Primaries
<1> QED
  BY <1>2, <1>6, <1>8, <1>9, <1>10 DEF InTurn

(* Every actor is idle when the pool is done. *)
LEMMA TurnCollect ==
  ASSUME TypeOK, Align, InTurn, Collect
  PROVE  InTurn'
<1>1. phase = "pool" /\ Len(results) = Len(batch.inputs) /\ PoolEnds
  BY DEF Collect
<1>2. \A a \in Actors : task[a].idx = 0
  BY <1>1, NoneAtWork
<1>3. \A a \in Actors : step[a] = "idle"
  BY <1>1, <1>2 DEF InTurn, Runs
<1>4. \A a \in Actors : step'[a] = "idle"
  BY <1>1, <1>3 DEF PoolEnds
<1>5. Runs' /\ MainOpens'
  BY <1>4, MainIsNoWorker DEF Runs, MainOpens
<1>6. UNCHANGED <<primaries, endpoint, copied, lost, refused, asserted>>
  BY DEF Collect, Returns, dbVars
<1>7. \A a \in Workers : handle'[a] = "none"
  BY <1>1, MainIsNoWorker DEF PoolEnds
<1>8. CASE batch.mode = "processes"
  <2>1. Pooling
    BY <1>1, <1>8 DEF Pooling
  <2>2. phase' = "stopping" /\ is_mrsw' = FALSE /\ batch' = batch
    BY <1>8 DEF Collect
  <2>3. ~Pooling'
    BY <2>2 DEF Pooling
  <2>4. handle'[Main] = "none"
    BY <1>1, <2>1, MainIsNoWorker DEF InTurn, Handles, PoolEnds
  <2>5. Handles'
    BY <1>7, <1>8, <2>2, <2>3, <2>4 DEF Handles
  <2>6. Primaries'
    BY <1>6, <2>1, <2>2, <2>3 DEF InTurn, Primaries
  <2> QED
    BY <1>5, <1>6, <2>5, <2>6 DEF InTurn
<1>9. CASE batch.mode # "processes"
  <2>1. phase' = "idle" /\ is_mrsw' = is_mrsw /\ ~Pooling
    BY <1>9 DEF Collect, Returns, Pooling
  <2>2. ~Pooling'
    BY <2>1 DEF Pooling
  <2>3. handle'[Main] = "none"
    BY <1>1, <2>1, MainIsNoWorker DEF PoolEnds
  <2>4. Handles'
    BY <1>1, <1>7, <2>1, <2>2, <2>3 DEF InTurn, Handles
  <2>5. Primaries'
    BY <1>1, <1>6, <2>1, <2>2 DEF InTurn, Primaries
  <2> QED
    BY <1>5, <1>6, <2>4, <2>5 DEF InTurn
<1> QED
  BY <1>8, <1>9

LEMMA TurnStopPrimary ==
  ASSUME TypeOK, InTurn, StopPrimary
  PROVE  InTurn'
<1>1. /\ phase = "stopping" /\ Listens /\ phase' = "waiting" /\ endpoint' = 0
      /\ primaries' = [primaries EXCEPT ![endpoint] = "closing"]
      /\ UNCHANGED <<batch, handle, is_mrsw, step, task, copied, lost, refused, asserted>>
  BY DEF StopPrimary, cacheVars, historyVars
<1>2. ~Pooling /\ ~Pooling'
  BY <1>1 DEF Pooling
<1>3. \A a \in Actors : step[a] = "idle"
  BY <1>1 DEF InTurn, Runs
<1>4. Runs' /\ MainOpens'
  BY <1>1, <1>3, MainIsNoWorker DEF Runs, MainOpens
<1>5. Handles'
  BY <1>1, <1>2 DEF InTurn, Handles
<1>6. Primaries'
  <2>1. Len(primaries) \in Nat /\ DOMAIN primaries = 1..Len(primaries)
    BY DEF TypeOK
  <2>2. endpoint = Len(primaries) /\ Len(primaries) # 0
    BY <1>1 DEF InTurn, Primaries, Listens
  <2>3. /\ Len(primaries') = Len(primaries)
        /\ primaries'[Len(primaries)] = "closing"
        /\ \A i \in 1..(Len(primaries) - 1) : primaries'[i] = primaries[i]
    <3>1. primaries' = [primaries EXCEPT ![Len(primaries)] = "closing"]
      BY <1>1, <2>2
    <3>2. Len(primaries') = Len(primaries)
      BY <2>1, <3>1 DEF TypeOK
    <3>3. PICK n : n = Len(primaries)
      OBVIOUS
    <3>4. n \in DOMAIN primaries /\ n \in Nat
      BY <2>1, <2>2, <3>3
    <3>5. /\ primaries'[n] = "closing"
          /\ \A i \in DOMAIN primaries : i # n => primaries'[i] = primaries[i]
      BY <3>1, <3>3, <3>4
    <3>6. \A i \in 1..(n - 1) : i \in DOMAIN primaries /\ i # n
      <4>1. DOMAIN primaries = 1..n /\ n \in Nat
        BY <2>1, <3>3
      <4>2. \A i \in 1..(n - 1) : i \in 1..n /\ i # n
        BY <4>1
      <4> QED
        BY <4>1, <4>2
    <3> QED
      BY <3>2, <3>3, <3>5, <3>6
  <2>4. \A i \in 1..(Len(primaries) - 1) : primaries[i] = "exited"
    BY DEF InTurn, Primaries
  <2> QED
    BY <1>1, <1>2, <2>2, <2>3, <2>4 DEF Primaries
<1> QED
  BY <1>1, <1>4, <1>5, <1>6 DEF InTurn

LEMMA TurnWait ==
  ASSUME TypeOK, InTurn, Wait, ~raised'
  PROVE  InTurn'
<1>1. phase = "waiting" /\ CloseParent /\ primaries[Len(primaries)] = "exited" /\ Cleanup /\ Returns
      /\ UNCHANGED <<is_mrsw, step, task, primaries, copied, refused, asserted>>
  BY DEF Wait, Raises, actorVars
<1>2. /\ phase' = "idle" /\ lost' = lost /\ ~Pooling /\ ~Pooling'
      /\ handle' = [handle EXCEPT ![Main] = "none"]
  BY <1>1 DEF Returns, Pooling, CloseParent
<1>3. \A a \in Actors : step[a] = "idle"
  BY <1>1 DEF InTurn, Runs
<1>4. Runs' /\ MainOpens'
  BY <1>1, <1>3, MainIsNoWorker DEF Runs, MainOpens
<1>5. Handles'
  BY <1>1, <1>2, MainIsNoWorker DEF InTurn, Handles, TypeOK
<1>6. endpoint' = 0
  BY <1>1 DEF InTurn, Primaries, Cleanup
<1>7. \A i \in DOMAIN primaries : primaries[i] = "exited"
  BY <1>1, LastPrimary DEF InTurn
<1>8. Primaries'
  BY <1>1, <1>2, <1>6, <1>7 DEF InTurn, Primaries
<1> QED
  BY <1>1, <1>4, <1>5, <1>6, <1>8 DEF InTurn

LEMMA TurnInit ==
  ASSUME Init
  PROVE  InTurn
<1>1. /\ \A a \in Actors : step[a] = "idle" /\ handle[a] = "none"
      /\ phase = "idle" /\ ~is_mrsw /\ endpoint = 0 /\ primaries = <<>>
      /\ refused = {} /\ asserted = {} /\ ~copied
  BY DEF Init
<1>2. ~Pooling
  BY <1>1 DEF Pooling
<1>3. Len(primaries) = 0 /\ DOMAIN primaries = {}
  BY <1>1
<1> QED
  BY <1>1, <1>2, <1>3, MainIsNoWorker DEF InTurn, Runs, Handles, Primaries, MainOpens

LEMMA CalmNext ==
  ASSUME TypeOK, StoreHoldsValues, Delivered, Align, Calm, [Next]_vars
  PROVE  Calm'
<1> SUFFICES ASSUME ~raised'
             PROVE  InTurn'
  BY DEF Calm
<1>0. ~raised
  <2>1. CASE \E a \in Actors : Run(a)
    BY <2>1, RunShape DEF RunFrame
  <2>2. CASE \/ \E i \in DOMAIN primaries : PrimaryOpens(i) \/ PrimaryExits(i) \/ PrimaryDies(i)
             \/ \E a \in Actors : Take(a) \/ WorkerDies(a)
             \/ \E c \in Forms : Call(c)
             \/ \E b \in Batches : InitCache(b)
             \/ PickleFails \/ UNCHANGED vars
    BY <2>2 DEF PrimaryOpens, PrimaryExits, PrimaryDies, Take, WorkerDies, Call, InitCache,
                PickleFails, historyVars, vars
  <2>3. CASE Parent
    BY <2>3 DEF Parent, StartPrimary, Fork, MapRaises, Raises, Collect, Returns, StopPrimary,
                StopRefused, Wait, historyVars
  <2> QED
    BY <2>1, <2>2, <2>3 DEF Next
<1>1. InTurn
  BY <1>0 DEF Calm
<1>2. CASE \E i \in DOMAIN primaries : PrimaryOpens(i) \/ PrimaryExits(i) \/ PrimaryDies(i)
  BY <1>1, <1>2, TurnPrimary
<1>3. CASE \E a \in Actors : Run(a) \/ Take(a) \/ WorkerDies(a)
  BY <1>1, <1>3, TurnRun, TurnTake, TurnWorkerDies
<1>4. CASE \E c \in Forms : Call(c)
  BY <1>1, <1>4, TurnCall
<1>5. CASE \E b \in Batches : InitCache(b)
  BY <1>1, <1>5, TurnInitCache
<1>6. CASE StartPrimary \/ Fork
  BY <1>1, <1>6, TurnStartPrimary, TurnFork
<1>7. CASE Collect
  BY <1>1, <1>7, TurnCollect
<1>8. CASE StopPrimary
  BY <1>1, <1>8, TurnStopPrimary
<1>9. CASE Wait
  BY <1>1, <1>9, TurnWait
<1>10. CASE StopRefused \/ UNCHANGED vars
  <2>1. UNCHANGED <<phase, batch, handle, is_mrsw, step, task, primaries, endpoint, copied, lost,
                    refused, asserted>>
    BY <1>10 DEF StopRefused, Raises, mapVars, cacheVars, actorVars, dbVars, historyVars, vars
  <2>2. Pooling' = Pooling
    BY <2>1 DEF Pooling
  <2>3. Runs' /\ MainOpens'
    BY <1>1, <2>1, TurnActors DEF InTurn
  <2>4. Handles' /\ Primaries'
    BY <1>1, <2>1, <2>2 DEF InTurn, Handles, Primaries
  <2> QED
    BY <1>1, <2>1, <2>3, <2>4 DEF InTurn
<1>11. ~MapRaises /\ ~PickleFails
  BY <1>1, TurnPickleFails DEF MapRaises, Raises
<1> QED
  BY <1>2, <1>3, <1>4, <1>5, <1>6, <1>7, <1>8, <1>9, <1>10, <1>11 DEF Next, Parent

-----------------------------------------------------------------------------
(* The theorems *)

LEMMA InvInit ==
  ASSUME Init
  PROVE  IInv
<1>1. TypeOK /\ StoreHoldsValues /\ Align
  BY TypeInit, StoreInit, AlignInit
<1>2. Copies
  <2>1. phase = "idle" /\ \A a \in Actors : handle[a] = "none"
    BY DEF Init
  <2> QED
    BY <2>1 DEF Copies, CopiesHeld, Exclusive
<1>3. Delivered
  <2>1. \A a \in Actors : ~task[a].sure /\ step[a] = "idle"
    BY DEF Init, NoTask
  <2>2. delivered = {}
    BY DEF Init
  <2> QED
    BY <2>1, <2>2 DEF Delivered
<1>4. ResultsAligned
  BY DEF Init, ResultsAligned
<1>5. Calm
  BY TurnInit DEF Calm
<1> QED
  BY <1>1, <1>2, <1>3, <1>4, <1>5 DEF IInv, Align

LEMMA InvNext ==
  ASSUME IInv, [Next]_vars
  PROVE  IInv'
<1>1. TypeOK /\ StoreHoldsValues /\ Copies /\ Delivered /\ Align /\ ResultsAligned /\ Calm
  BY DEF IInv, Align
<1>2. TypeOK' /\ StoreHoldsValues' /\ Copies' /\ Delivered'
  BY <1>1, TypeNext, StoreNext, CopiesNext, DeliveredNext
<1>3. Align'
  BY <1>1, AlignNext
<1>4. ResultsAligned' /\ Calm'
  BY <1>1, AlignedNext, CalmNext
<1> QED
  BY <1>2, <1>3, <1>4 DEF IInv, Align

THEOREM Invariance == Spec => []IInv
BY InvInit, InvNext, PTL DEF Spec

(* Every variable is what its declaration says. *)
THEOREM ParallelTypes == Spec => []TypeOK
<1>1. IInv => TypeOK
  BY DEF IInv
<1> QED
  BY <1>1, Invariance, PTL

(* Parallel.map: each value stands at the place of its input, none is missing, *)
(* and it is in the database, however the workers finished and whatever died.  *)
THEOREM MapsAreAligned == Spec => []ResultsAligned
<1>1. IInv => ResultsAligned
  BY DEF IInv
<1> QED
  BY <1>1, Invariance, PTL

(* LazyDBCacheFn.run: a value that some caller has got is never computed again, *)
(* unless a process was forked with a copy of the open database (parallel.py:   *)
(* 194, 344), and none is before a map raises.                                  *)
THEOREM NothingIsRecomputed == Spec => []NeverRecomputed
<1>1. IInv => NeverRecomputed
  <2> SUFFICES ASSUME IInv
               PROVE  NeverRecomputed
    OBVIOUS
  <2>1. copied => raised
    BY DEF IInv, Calm, InTurn
  <2>2. ~copied => \A a \in Actors : step[a] = "compute" => ~task[a].sure
    BY DEF IInv, Delivered
  <2> QED
    BY <2>1, <2>2 DEF NeverRecomputed
<1> QED
  BY <1>1, Invariance, PTL

(* switch_mrsw_cache: until a map raises, the parent finds the cache between *)
(* two maps as it left it.                                                   *)
THEOREM CacheIsHandedBack == Spec => []HandedBack
<1>1. IInv => HandedBack
  <2> SUFFICES ASSUME IInv, phase = "idle", ~raised
               PROVE  /\ \A i \in DOMAIN primaries : primaries[i] = "exited"
                      /\ endpoint = 0
                      /\ ~is_mrsw /\ handle[Main] # "secondary"
    BY DEF HandedBack
  <2>1. InTurn /\ ~Pooling
    BY DEF IInv, Calm, Pooling
  <2> QED
    BY <2>1 DEF InTurn, Handles, Primaries
<1> QED
  BY <1>1, Invariance, PTL

LEMMA TurnHandsOver ==
  ASSUME IInv, [Next]_vars, ~raised, "primary" \notin lost
  PROVE  refused' \subseteq {"worker"} /\ asserted' = {}
<1>1. InTurn
  BY DEF IInv, Calm
<1>2. CASE ~raised'
  BY <1>2, InvNext DEF IInv, Calm, InTurn
<1>3. CASE raised'
  <2>1. \/ MapRaises \/ StopRefused \/ StartPrimary
        \/ Wait /\ Raises
    <3>1. CASE \E a \in Actors : Run(a)
      BY <1>3, <3>1, RunShape DEF RunFrame, IInv
    <3>2. ~ \/ \E i \in DOMAIN primaries : PrimaryOpens(i) \/ PrimaryExits(i) \/ PrimaryDies(i)
            \/ \E a \in Actors : Take(a) \/ WorkerDies(a)
            \/ \E c \in Forms : Call(c)
            \/ \E b \in Batches : InitCache(b)
            \/ PickleFails \/ UNCHANGED vars
      BY <1>3 DEF PrimaryOpens, PrimaryExits, PrimaryDies, Take, WorkerDies, Call, InitCache,
                  PickleFails, historyVars, vars
    <3>3. CASE Parent
      BY <1>3, <3>3 DEF Parent, Fork, Collect, Returns, StopPrimary, Wait, historyVars
    <3> QED
      BY <3>1, <3>2, <3>3 DEF Next
  <2>2. CASE MapRaises \/ StopRefused
    BY <1>1, <2>2 DEF MapRaises, StopRefused, InTurn
  <2>3. CASE StartPrimary
    <3>1. handle[Main] = "none"
      BY <1>1, <2>3 DEF StartPrimary, InTurn, Handles
    <3> QED
      BY <1>1, <2>3, <3>1 DEF StartPrimary, InTurn
  <2>4. CASE Wait /\ Raises
    <3>1. primaries[Len(primaries)] \notin {"error", "killed"}
      BY <1>1, <2>4 DEF Wait, InTurn, Primaries
    <3> QED
      BY <1>1, <2>4, <3>1 DEF Wait, InTurn
  <2> QED
    BY <2>1, <2>2, <2>3, <2>4
<1> QED
  BY <1>2, <1>3

(* start_primary, switch_mrsw_cache and the lock of RocksDB: until a map raises *)
(* or its primary is killed, no step is refused the database or fails an        *)
(* assertion.                                                                   *)
THEOREM DatabaseChangesHands == Spec => HandsOver
<1>1. IInv /\ [Next]_vars =>
        [~raised /\ "primary" \notin lost => refused' \subseteq {"worker"} /\ asserted' = {}]_vars
  BY TurnHandsOver
<1> QED
  BY <1>1, Invariance, PTL DEF Spec, HandsOver
=============================================================================
