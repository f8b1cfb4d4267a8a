------------------------------- MODULE CacheDict -------------------------------
(***************************************************************************)
(* A RocksDBDict together with a CacheDict over it (src/hugedict/          *)
(* cachedict.py), used by the threads of one process: reads fill the       *)
(* cache, writes go to the mapping alone, deletions to both.  Another      *)
(* thread may run between any two steps of a CacheDict.                    *)
(***************************************************************************)
EXTENDS RocksDBDict

CONSTANT CacheUsers  \* the threads that use the CacheDict

ASSUME UsersAssumption ==
  CacheUsers \subseteq Threads /\ \A t \in CacheUsers : Mode[t] = "write"

VARIABLES
  cache,      \* the dictionary: keys to values
  cpc,        \* where each thread stands in a method of the CacheDict, or of a ChainedMapping
  overwritten,\* history: the keys changed since the read that filled the cache with them
  dirty       \* history: the key of t's __getitem__ was changed since that began

cacheVars == <<cache, cpc, overwritten, dirty>>
vars == <<dictVars, cacheVars>>

Init ==
  /\ DictInit
  /\ cache = [k \in {} |-> Absent]
  /\ cpc = [t \in Threads |-> "idle"]
  /\ overwritten = {}
  /\ dirty = [t \in Threads |-> FALSE]

Put(k, v) == [x \in DOMAIN cache \cup {k} |-> IF x = k THEN v ELSE cache[x]]
Without(k) == [x \in DOMAIN cache \ {k} |-> cache[x]]

(* History: what a step of the mapping has changed *)
Tracks ==
  LET keys == {k \in Keys : db'[k] # db[k]} IN
  /\ overwritten' = overwritten \cup keys
  /\ dirty' = [t \in Threads |-> dirty[t] \/ call'[t].key \in keys]

(* A key that is not in the cache is read from the mapping .. *)
Miss(t, k) ==
  /\ cpc[t] = "idle" /\ k \notin DOMAIN cache
  /\ GetItem(t, k)
  /\ cpc' = [cpc EXCEPT ![t] = "filling"]
  /\ dirty' = [dirty EXCEPT ![t] = FALSE]
  /\ UNCHANGED <<cache, overwritten>>

(* Mutant: that the mapping holds nothing is cached, too. *)
FillAlways(t) ==
  /\ cpc[t] = "filling" /\ pc[t] = "idle"
  /\ cpc' = [cpc EXCEPT ![t] = "idle"]
  /\ cache' = Put(call[t].key, outcome[t])
  /\ overwritten' = IF dirty[t] THEN overwritten \cup {call[t].key}
                    ELSE overwritten \ {call[t].key}
  /\ UNCHANGED <<dictVars, dirty>>

(* .. and kept, unless the mapping has raised. *)
Fill(t) ==
  /\ cpc[t] = "filling" /\ pc[t] = "idle"
  /\ cpc' = [cpc EXCEPT ![t] = "idle"]
  /\ IF outcome[t] \in Values
     THEN /\ cache' = Put(call[t].key, outcome[t])
          /\ overwritten' = IF dirty[t] THEN overwritten \cup {call[t].key}
                            ELSE overwritten \ {call[t].key}
     ELSE UNCHANGED <<cache, overwritten>>
  /\ UNCHANGED <<dictVars, dirty>>

(* Mutant: __setitem__ writes through the cache. *)
CacheSetThrough(t, k, v) ==
  /\ cpc[t] = "idle"
  /\ SetItem(t, k, v)
  /\ cache' = Put(k, v)
  /\ UNCHANGED <<cpc, overwritten, dirty>>

(* __setitem__ leaves the cache alone. *)
CacheSet(t, k, v) ==
  /\ cpc[t] = "idle"
  /\ SetItem(t, k, v)
  /\ UNCHANGED cacheVars

(* __delitem__: if key in self._cache .. *)
CacheDelete(t, k) ==
  /\ cpc[t] = "idle" /\ k \in DOMAIN cache /\ pc[t] = "idle" /\ calls < MaxCalls
  /\ cpc' = [cpc EXCEPT ![t] = "uncaching"]
  /\ call' = [call EXCEPT ![t] = [key |-> k, val |-> Absent]]
  /\ UNCHANGED <<db, view, pc, outcome, it, calls, changed, cache, overwritten, dirty>>

(* .. del self._cache[key], a KeyError when another thread was first .. *)
Uncache(t) ==
  /\ cpc[t] = "uncaching"
  /\ cpc' = [cpc EXCEPT ![t] = IF call[t].key \in DOMAIN cache THEN "deleting" ELSE "idle"]
  /\ cache' = Without(call[t].key)
  /\ UNCHANGED <<dictVars, overwritten, dirty>>

(* .. del self.mapping[key] *)
Delete(t) ==
  /\ cpc[t] = "deleting"
  /\ Write(t, call[t].key, Absent)
  /\ cpc' = [cpc EXCEPT ![t] = "idle"]
  /\ Tracks
  /\ UNCHANGED cache

(* update_cache: what is in it is the caller's word. *)
UpdateCache(t, k, v) ==
  /\ cpc[t] = "idle" /\ pc[t] = "idle" /\ calls < MaxCalls
  /\ calls' = calls + 1
  /\ cache' = Put(k, v)
  /\ overwritten' = overwritten \cup {k}
  /\ UNCHANGED <<db, view, pc, call, outcome, it, changed, cpc, dirty>>

CacheSteps(t) ==
  \/ Fill(t) \/ Uncache(t) \/ Delete(t)
  \/ \E k \in Keys :
       \/ Miss(t, k) \/ CacheDelete(t, k)
       \/ \E v \in Values : CacheSet(t, k, v) \/ UpdateCache(t, k, v)

CacheNext ==
  \/ \E t \in Threads :
       /\ DictRuns(t) \/ (cpc[t] = "idle" /\ DictAsks(t))
       /\ Tracks
       /\ UNCHANGED <<cache, cpc>>
  \/ \E t \in CacheUsers : CacheSteps(t)
-----------------------------------------------------------------------------
(* Types: every variable is what its declaration says. *)
TypeOK ==
  /\ DictTypeOK
  /\ DOMAIN cache \subseteq Keys /\ \A k \in DOMAIN cache : cache[k] \in Values
  /\ cpc \in [Threads -> {"idle", "filling", "uncaching", "deleting",
                         "chaining", "first", "second"}]
  /\ overwritten \subseteq Keys
  /\ dirty \in [Threads -> BOOLEAN]

(* A cached value differs from the mapping's only where the mapping was written *)
(* after the read that filled the cache had begun, or update_cache was called:  *)
(* never because a write failed, or because of a key that was read, deleted and *)
(* read again.                                                                  *)
CacheHoldsWhatWasRead ==
  \A k \in DOMAIN cache \ overwritten : cache[k] = db[k]
=============================================================================
