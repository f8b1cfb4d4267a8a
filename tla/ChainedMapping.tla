---------------------------- MODULE ChainedMapping ----------------------------
(***************************************************************************)
(* A ChainedMapping (src/hugedict/chained_mapping.py) whose first mapping  *)
(* is the RocksDBDict that other threads read and write, directly and      *)
(* through a CacheDict, and whose second one stays as it is.  What a get   *)
(* finds in the first mapping may be gone when it is read.                 *)
(***************************************************************************)
EXTENDS CacheDict

CONSTANT Second  \* the second mapping: Absent where it holds no value

ASSUME SecondAssumption == DOMAIN Second = Keys

(* Mutant: the second mapping is asked first. *)
ChainGetSecondFirst(t, k) ==
  /\ cpc[t] = "idle" /\ pc[t] = "idle" /\ calls < MaxCalls
  /\ cpc' = [cpc EXCEPT ![t] = IF Second[k] = Absent THEN "chaining" ELSE "second"]
  /\ calls' = IF cpc'[t] = "second" THEN calls + 1 ELSE calls
  /\ call' = [call EXCEPT ![t] = [key |-> k, val |-> Absent]]
  /\ dirty' = [dirty EXCEPT ![t] = FALSE]
  /\ UNCHANGED <<db, view, pc, outcome, it, changed, cache, overwritten>>

(* __getitem__ and get: if key in self.mapping1 .. else self.mapping2[key] *)
ChainGet(t, k) ==
  /\ cpc[t] = "idle" /\ pc[t] = "idle" /\ calls < MaxCalls
  /\ cpc' = [cpc EXCEPT ![t] = IF Seen(t)[k] = Absent THEN "second" ELSE "chaining"]
  /\ calls' = IF cpc'[t] = "second" THEN calls + 1 ELSE calls
  /\ call' = [call EXCEPT ![t] = [key |-> k, val |-> Absent]]
  /\ dirty' = [dirty EXCEPT ![t] = FALSE]
  /\ UNCHANGED <<db, view, pc, outcome, it, changed, cache, overwritten>>

(* .. return self.mapping1[key] *)
ChainFirst(t) ==
  /\ cpc[t] = "chaining"
  /\ GetItem(t, call[t].key)
  /\ cpc' = [cpc EXCEPT ![t] = "first"]
  /\ UNCHANGED <<cache, overwritten, dirty>>

(* What the get returns; Absent is its KeyError. *)
ChainAnswer(t) == IF cpc[t] = "second" THEN Second[call[t].key] ELSE outcome[t]

ChainEnds(t) ==
  /\ cpc[t] \in {"first", "second"} /\ pc[t] = "idle"
  /\ cpc' = [cpc EXCEPT ![t] = "idle"]
  /\ UNCHANGED <<dictVars, cache, overwritten, dirty>>

Next ==
  \/ CacheNext
  \/ \E t \in CacheUsers : ChainFirst(t) \/ ChainEnds(t) \/ \E k \in Keys : ChainGet(t, k)

Spec == Init /\ [][Next]_vars
-----------------------------------------------------------------------------
(* A get of a key that nobody changes while it runs has the value of the first  *)
(* mapping that holds it, and raises KeyError only if neither does.  (If the    *)
(* key leaves the first mapping between the two steps, the get raises KeyError  *)
(* although the second mapping may hold it.)                                    *)
ChainFinds == \A t \in CacheUsers :
  cpc[t] \in {"first", "second"} /\ pc[t] = "idle" /\ ~dirty[t] =>
    LET k == call[t].key IN
    ChainAnswer(t) \in {"raised", IF db[k] # Absent THEN db[k] ELSE Second[k]}
=============================================================================
