------------------------------- MODULE Loader -------------------------------
(***************************************************************************)
(* Loading files into RocksDB (src/src/rocksdb/loader.rs): load builds one *)
(* SST file per input file in parallel, in a directory _temporary beside   *)
(* the database, opens the database, ingests the SST files and removes the *)
(* directory; build_sst_file and ingest_sst_files do the same from Python  *)
(* with files of the caller's.  The process may be killed at any point,    *)
(* another process may have the database open, and what the file system or *)
(* RocksDB is asked for may fail.                                          *)
(*                                                                         *)
(* RocksDB is external: ingestion commits all files or none, a later file  *)
(* covers the keys of an earlier one, and with move_files the SST files    *)
(* are unlinked after the commit.                                          *)
(***************************************************************************)
EXTENDS SstRecords, FiniteSets

CONSTANTS
  Calls,      \* the calls: [api, files, format, create]
  MaxCalls,   \* bound: calls
  MaxKills,   \* bound: times the process is killed
  MaxFaults   \* bound: operations of the file system or of RocksDB that fail

(* A file: whether it can be opened, its lines and how it ends.  `create`: the *)
(* options say create_if_missing.  build_sst_file gets its pairs from a        *)
(* function of the caller's.                                                   *)
ASSUME CallsAssumption ==
  \A c \in Calls :
    /\ c.api \in {"load", "ingest"}
    /\ c.format \in Formats /\ c.create \in BOOLEAN
    /\ c.files \in Seq({c.files[i] : i \in DOMAIN c.files})
    /\ c.api = "ingest" => c.format.record_type = "bin_kv" /\ c.format.is_sorted /\ Len(c.files) > 0
    /\ \A i \in DOMAIN c.files :
         /\ c.files[i].opens \in BOOLEAN /\ c.files[i].tail \in Tails
         /\ c.format.record_type # "bin_kv" \/ c.api = "ingest" =>
              c.files[i].tail \in {"end", "unreadable"}
         /\ c.files[i].lines \in Seq({c.files[i].lines[j] : j \in DOMAIN c.files[i].lines})
         /\ \A l \in {c.files[i].lines[j] : j \in DOMAIN c.files[i].lines} :
              /\ {l.key, l.val} \subseteq Json
              /\ c.format.record_type \in {"bin_kv", "tabsep"} =>
                   l.key.type = "string" /\ l.val.type \in {"string", "missing"}
              /\ c.format.record_type = "bin_kv" => l.val.type = "string"

ASSUME BoundsAssumption == {MaxCalls, MaxKills, MaxFaults} \subseteq Nat

VARIABLES
  phase,    \* where the call stands; "idle" outside of one
  call,     \* the current or last call, or NoCall
  build,    \* build[i]: where the builder of file i stands
  dir,      \* _temporary exists
  temp,     \* the SST files there, by index: complete or not
  db,       \* the database: bytes to bytes
  present,  \* there is a database at the path
  busy,     \* another process has the database open
  result,   \* the result of the last call
  calls,    \* calls made
  kills,    \* times the process was killed
  faults,   \* operations that have failed
  before,   \* history: the database when the call began
  leftover, \* history: the SST files that were there when the call began
  why       \* history: what the call was refused by its surroundings, or "none"

callVars == <<call, calls, before, leftover>>
dirVars == <<dir, temp>>
dbVars == <<db, present, busy>>
faultVars == <<faults, why>>
vars == <<phase, result, build, kills, callVars, dirVars, dbVars, faultVars>>

NoCall == [api |-> "none", files |-> <<>>]

Init ==
  /\ phase = "idle"
  /\ call = NoCall
  /\ build = <<>>
  /\ dir = FALSE
  /\ temp = {}
  /\ db = <<>>
  /\ present \in BOOLEAN
  /\ busy = FALSE
  /\ result = "none"
  /\ calls = 0
  /\ kills = 0
  /\ faults = 0
  /\ before = <<>>
  /\ leftover = {}
  /\ why = "none"

-----------------------------------------------------------------------------
Sst(i) == Build(call.files[i], call.format)

Content(i) ==
  [k \in {r.key : r \in Sst(i)} |-> (CHOOSE r \in Sst(i) : r.key = k).val]

Over(f, g) == [k \in DOMAIN f \cup DOMAIN g |-> IF k \in DOMAIN g THEN g[k] ELSE f[k]]

Return(r) ==
  /\ phase' = "idle"
  /\ result' = r

(* An operation of the file system or of RocksDB fails: no space, no permission, *)
(* a database that is corrupt or was made with other options, ...                *)
Breaks ==
  /\ faults < MaxFaults
  /\ faults' = faults + 1
  /\ why' = "broken"

(* No file at all is an error; otherwise the directory is made if need be. *)
Begin(c) ==
  /\ phase = "idle" /\ calls < MaxCalls
  /\ calls' = calls + 1
  /\ call' = c
  /\ build' = [i \in DOMAIN c.files |-> "todo"]
  /\ before' = db
  /\ leftover' = temp
  /\ \/ /\ Len(c.files) = 0
        /\ Return("error")
        /\ why' = "none" /\ UNCHANGED <<dir, faults>>
     \/ /\ Len(c.files) > 0
        /\ phase' = "building" /\ result' = "none"
        /\ dir' = (dir \/ c.api = "load")
        /\ why' = "none" /\ UNCHANGED faults
     \/ /\ Len(c.files) > 0 /\ c.api = "load"
        /\ Breaks /\ Return("error")
        /\ UNCHANGED dir
  /\ UNCHANGED <<temp, dbVars, kills>>

(* The input file is opened, then writer.open makes the SST file, or truncates *)
(* the one of an earlier call.  (The files that build_sst_file makes are the   *)
(* caller's, not in _temporary.)                                               *)
StartSst(i) ==
  /\ phase = "building" /\ build[i] = "todo"
  /\ \/ /\ call.files[i].opens
        /\ build' = [build EXCEPT ![i] = "writing"]
        /\ temp' = IF call.api = "load" THEN temp \cup {i} ELSE temp
        /\ UNCHANGED faultVars
     \/ /\ build' = [build EXCEPT ![i] = "failed"]
        /\ \/ ~call.files[i].opens /\ UNCHANGED faultVars
           \/ Breaks
        /\ UNCHANGED temp
  /\ UNCHANGED <<phase, result, kills, callVars, dir, dbVars>>

Outcome(i) == IF Sst(i) = {Failed} THEN "failed" ELSE IF Sst(i) = {} THEN "empty" ELSE "built"

(* Mutant: a file without records stays. *)
FinishSstKeepsEmpty(i) ==
  /\ phase = "building" /\ build[i] = "writing"
  /\ build' = [build EXCEPT ![i] = Outcome(i)]
  /\ UNCHANGED <<phase, result, kills, callVars, dirVars, dbVars, faultVars>>

(* A file without records is removed; an error, also one of the writer, leaves *)
(* what was written.                                                           *)
FinishSst(i) ==
  /\ phase = "building" /\ build[i] = "writing"
  /\ \/ /\ build' = [build EXCEPT ![i] = Outcome(i)]
        /\ temp' = IF call.api = "load" /\ Sst(i) = {} THEN temp \ {i} ELSE temp
        /\ UNCHANGED faultVars
     \/ /\ Breaks
        /\ build' = [build EXCEPT ![i] = "failed"]
        /\ UNCHANGED temp
  /\ UNCHANGED <<phase, result, kills, callVars, dir, dbVars>>

Built == {i \in DOMAIN build : build[i] = "built"}

(* Mutant: the files whose builders failed are left out. *)
CollectTheOthers ==
  /\ phase = "building"
  /\ \A i \in DOMAIN build : build[i] \in {"built", "empty", "failed"}
  /\ IF Built # {} THEN phase' = "opening" /\ UNCHANGED result ELSE Return("error")
  /\ UNCHANGED <<build, kills, callVars, dirVars, dbVars, faultVars>>

(* The parallel iterator is collected: builders that have begun come to their   *)
(* end, and after an error the others need not begin.  Without an SST file load *)
(* returns an error; ingest_sst_files does not know what was built.             *)
Collect ==
  /\ phase = "building"
  /\ \A i \in DOMAIN build : build[i] # "writing"
  /\ \/ /\ \E i \in DOMAIN build : build[i] = "failed"
        /\ Return("error")
     \/ /\ \A i \in DOMAIN build : build[i] \in {"built", "empty"}
        /\ IF Built # {} \/ call.api = "ingest"
           THEN phase' = "opening" /\ UNCHANGED result
           ELSE Return("error")
  /\ UNCHANGED <<build, kills, callVars, dirVars, dbVars, faultVars>>

(* DB::open: the database is locked, or missing and not to be created, or it *)
(* cannot be opened for another reason.                                      *)
OpenDb ==
  LET missing == ~present /\ ~call.create IN
  /\ phase = "opening"
  /\ \/ /\ ~busy /\ ~missing
        /\ phase' = "ingesting" /\ present' = TRUE
        /\ UNCHANGED <<result, faultVars>>
     \/ /\ Return("error")
        /\ \/ busy /\ why' = "locked" /\ UNCHANGED faults
           \/ missing /\ why' = "missing" /\ UNCHANGED faults
           \/ Breaks
        /\ UNCHANGED present
  /\ UNCHANGED <<build, kills, callVars, dirVars, db, busy>>

(* Mutant: the SST files are ingested in the opposite order. *)
IngestedBackwards ==
  LET upto[n \in 0..Len(call.files)] ==
        IF n = 0 THEN db
        ELSE IF n \in Built THEN Over(Content(n), upto[n - 1]) ELSE upto[n - 1]
  IN upto[Len(call.files)]

(* Each SST file over those before it, in the order of the input files *)
Ingested ==
  LET upto[n \in 0..Len(call.files)] ==
        IF n = 0 THEN db
        ELSE IF n \in Built THEN Over(upto[n - 1], Content(n)) ELSE upto[n - 1]
  IN upto[Len(call.files)]

(* load names the files it has built.  The caller of ingest_sst_files names all, *)
(* also one that was removed because nothing was put into it.                    *)
Ingest ==
  LET there == call.api = "load" \/ Built = DOMAIN build IN
  /\ phase = "ingesting"
  /\ \/ /\ there
        /\ phase' = "moving" /\ db' = Ingested
        /\ UNCHANGED <<result, faultVars>>
     \/ /\ Return("error")
        /\ \/ ~there /\ UNCHANGED faultVars
           \/ Breaks
        /\ UNCHANGED db
  /\ UNCHANGED <<build, kills, callVars, dirVars, present, busy>>

Unlink ==
  /\ phase = "moving"
  /\ phase' = "cleaning"
  /\ temp' = IF call.api = "load" THEN temp \ Built ELSE temp
  /\ UNCHANGED <<result, build, kills, callVars, dir, dbVars, faultVars>>

(* Mutant: the directory is not looked into. *)
CleanAnyway ==
  /\ phase = "cleaning"
  /\ Return("ok")
  /\ dir' = (dir /\ call.api # "load")
  /\ UNCHANGED <<build, kills, callVars, temp, dbVars, faultVars>>

(* remove_dir fails on a directory that is not empty, or otherwise: load then *)
(* reports an error for data it has loaded.  ingest_sst_files has none.       *)
Clean ==
  /\ phase = "cleaning"
  /\ \/ /\ call.api = "load" => temp = {}
        /\ Return("ok")
        /\ dir' = (dir /\ call.api # "load")
        /\ UNCHANGED faultVars
     \/ /\ call.api = "load"
        /\ Return("error")
        /\ \/ temp # {} /\ UNCHANGED faultVars
           \/ Breaks
        /\ UNCHANGED dir
  /\ UNCHANGED <<build, kills, callVars, temp, dbVars>>

(* The process is killed; the files stay. *)
Killed ==
  /\ phase # "idle" /\ kills < MaxKills
  /\ kills' = kills + 1
  /\ Return("killed")
  /\ UNCHANGED <<build, callVars, dirVars, dbVars, faultVars>>

(* Another process opens or closes the database. *)
OtherOpens ==
  /\ ~busy /\ phase \in {"idle", "building", "opening"}
  /\ busy' = TRUE /\ present' = TRUE
  /\ UNCHANGED <<phase, result, build, kills, callVars, dirVars, db, faultVars>>

OtherCloses ==
  /\ busy
  /\ busy' = FALSE
  /\ UNCHANGED <<phase, result, build, kills, callVars, dirVars, db, present, faultVars>>

Next ==
  \/ \E c \in Calls : Begin(c)
  \/ \E i \in DOMAIN build : StartSst(i) \/ FinishSst(i)
  \/ Collect \/ OpenDb \/ Ingest \/ Unlink \/ Clean
  \/ Killed \/ OtherOpens \/ OtherCloses

Spec == Init /\ [][Next]_vars
-----------------------------------------------------------------------------
(* Types: every variable is what its declaration says. *)
TypeOK ==
  /\ phase \in {"idle", "building", "opening", "ingesting", "moving", "cleaning"}
  /\ call \in Calls \cup {NoCall}
  /\ build \in [DOMAIN call.files -> {"todo", "writing", "built", "empty", "failed"}]
  /\ temp \subseteq Nat \ {0} /\ (temp # {} => dir)
  /\ {dir, present, busy} \subseteq BOOLEAN /\ (busy => present)
  /\ result \in {"none", "ok", "error", "killed"}
  /\ calls \in 0..MaxCalls /\ kills \in 0..MaxKills /\ faults \in 0..MaxFaults
  /\ why \in {"none", "locked", "missing", "broken"}
  /\ \A k \in DOMAIN db : {k, db[k]} \subseteq [as : Encodings, n : Int]

(* The bytes b stand for the value j of a line.  They do exactly when a number   *)
(* fits its number_type; of an integer that does not fit, an i32 or u32 keeps    *)
(* the low 32 bits, and a float, of which nothing is said here, is a near one.   *)
Fits(n, nt) ==
  CASE nt = "i32" -> -Half <= n /\ n < Half
    [] nt = "u32" -> 0 <= n /\ n < 2 * Half
    [] nt = "f32" -> -Exact32 <= n /\ n <= Exact32
    [] nt = "f64" -> -Exact64 <= n /\ n <= Exact64
    [] OTHER -> TRUE

StandsFor(b, j, nt) ==
  CASE j.type = "null" -> b = Bytes("text", 0)
    [] j.type \in {"integer", "float"} ->
         /\ Fits(j.n, nt) => b.n = j.n
         /\ nt \in {"i32", "u32"} => Fits(b.n, nt) /\ (b.n - j.n) % (2 * Half) = 0
    [] OTHER -> b.n = j.n

Lines(i) == {call.files[i].lines[j] : j \in DOMAIN call.files[i].lines}

SameKey(l, k) == k.n = l.key.n /\ k.as = IF l.key.type = "string" THEN "text" ELSE "i64"

(* After a load that returned, each key of the files has the value of the last *)
(* file that names it, whatever the order in which the builders finished and   *)
(* whatever an earlier call left in the directory; every other key is what it  *)
(* was; and nothing is left in the directory.                                  *)
LoadedExactly ==
  result = "ok" =>
    /\ \A i \in DOMAIN call.files : \A l \in Lines(i) :
         (\A h \in DOMAIN call.files : h > i => \A m \in Lines(h) : m.key # l.key)
           => \E k \in DOMAIN db : SameKey(l, k)
                                     /\ StandsFor(db[k], l.val, call.format.number_type)
    /\ \A k \in DOMAIN db :
         \/ k \in DOMAIN before /\ db[k] = before[k]
         \/ \E i \in DOMAIN call.files : \E l \in Lines(i) : SameKey(l, k)
    /\ call.api = "load" => ~dir /\ temp = {}

(* The database is never partly loaded: during a call, after an error and      *)
(* after a kill it is what it was before, or all files that have records are   *)
(* in it.                                                                      *)
NeverPartly ==
  \/ db = before
  \/ /\ \A i \in DOMAIN call.files : build[i] \in {"built", "empty"}
     /\ db = [k \in DOMAIN before \cup UNION {DOMAIN Content(i) : i \in Built} |->
                LET last == {i \in Built : k \in DOMAIN Content(i)
                               /\ \A h \in Built : h > i => k \notin DOMAIN Content(h)}
                IN IF last = {} THEN before[k] ELSE Content(CHOOSE i \in last : TRUE)[k]]

(* The numbers number_type takes, of those JSON has *)
Takes(nt) ==
  CASE nt \in {"i32", "i64"} -> {"integer"} \X ((-Full)..(Full - 1))
    [] nt \in {"u32", "u64"} -> {"integer"} \X (0..(2 * Full - 1))
    [] nt \in {"f32", "f64"} -> {"integer", "float"} \X ((-(2 * Full))..(2 * Full))
    [] OTHER -> {}

(* A line that the format f takes *)
Storable(l, f) ==
  CASE f.record_type = "bin_kv" -> TRUE
    [] f.record_type = "tabsep" -> l.val.type # "missing"
    [] OTHER -> /\ l.key.type = "string" \/ <<l.key.type, l.key.n>> \in Takes("i64")
                /\ \/ l.val.type \in {"string", "bool", "null", "object"}
                   \/ <<l.val.type, l.val.n>> \in Takes(f.number_type)

(* A file no SST file can be made of: it cannot be read to its end, breaks off *)
(* inside a record, has a line that the format does not take or a key twice,   *)
(* or is said to be sorted and has not its keys in the order of their bytes.   *)
Unbuildable(file, f) ==
  \/ ~file.opens \/ file.tail \notin {"end", "key_header"}
  \/ \E j \in DOMAIN file.lines : ~Storable(file.lines[j], f)
  \/ \E j, h \in DOMAIN file.lines : j < h /\
       \/ file.lines[j].key = file.lines[h].key
       \/ f.is_sorted /\ ~Below(KeyBytes(file.lines[j].key), KeyBytes(file.lines[h].key))

(* A call fails only for a reason the caller can see: no file, a file of which *)
(* no SST file can be made, no record in any file, or in one that is given to  *)
(* ingest_sst_files, a database that is open elsewhere or missing, a fault of  *)
(* the file system or of RocksDB; or, with the data loaded, an SST file of an  *)
(* earlier call that failed or was killed or a fault when the directory is     *)
(* removed.                                                                    *)
ErrorsAreExplained ==
  result = "error" =>
    \/ /\ db = before
       /\ \/ call.files = <<>> \/ why # "none"
          \/ \E i \in DOMAIN call.files : Unbuildable(call.files[i], call.format)
          \/ \A i \in DOMAIN call.files : call.files[i].lines = <<>>
          \/ call.api = "ingest" /\ \E i \in DOMAIN call.files : call.files[i].lines = <<>>
    \/ call.api = "load" /\ (leftover \ Built # {} \/ why = "broken")
=============================================================================
