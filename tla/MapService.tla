----------------------------- MODULE MapService -----------------------------
(***************************************************************************)
(* What the multiple-reader single-writer service of hugedict promises to  *)
(* the processes that share it, seen from outside: one mapping, and calls  *)
(* that each take effect at some moment between their start and their end. *)
(* Nothing is said of messages, snapshots, retries or crashes.             *)
(***************************************************************************)
CONSTANTS
  Clients,  \* the processes that hold a SecondaryDB
  Keys,     \* the keys of the mapping
  Values,   \* the (serialized) values
  Absent    \* what a key without a value maps to; a get that answers it raises KeyError

VARIABLES
  store,    \* the mapping
  asked,    \* the <<key, value>> pairs some client has asked to store
  current,  \* current[c]: the call c is in, or Idle
  during,   \* during[c]: the values the key of c's call has had since the call began
  answer    \* answer[c]: the outcome of c's last call, or Idle

vars == <<store, asked, current, during, answer>>

Idle == [op |-> "idle"]

Calls ==
  [op : {"Get", "Contains"}, key : Keys, val : {Absent}]
    \cup [op : {"Put"}, key : Keys, val : Values]

(* The outcomes a call may have, given the values its key had meanwhile. *)
Outcomes(op, val, seen) ==
  CASE op = "Get"      -> seen
    [] op = "Contains" -> {x # Absent : x \in seen}
    [] OTHER           -> IF val \in seen THEN {TRUE} ELSE {}

Init ==
  /\ store \in [Keys -> {Absent}]
  /\ asked = {}
  /\ current = [c \in Clients |-> Idle]
  /\ during = [c \in Clients |-> {}]
  /\ answer = [c \in Clients |-> Idle]

Begin(c) ==
  /\ current[c] = Idle
  /\ \E m \in Calls :
       /\ current' = [current EXCEPT ![c] = m]
       /\ during' = [during EXCEPT ![c] = {store[m.key]}]
       /\ asked' = asked \cup (IF m.op = "Put" THEN {<<m.key, m.val>>} ELSE {})
  /\ answer' = [answer EXCEPT ![c] = Idle]
  /\ UNCHANGED store

(* A stored pair is one that was asked for; it may be stored again later. *)
Write(k, v) ==
  /\ <<k, v>> \in asked
  /\ store' = [store EXCEPT ![k] = v]
  /\ during' = [c \in Clients |->
                  IF current[c] # Idle /\ current[c].key = k
                  THEN during[c] \cup {v} ELSE during[c]]
  /\ UNCHANGED <<asked, current, answer>>

End(c) ==
  /\ current[c] # Idle
  /\ \E r \in Outcomes(current[c].op, current[c].val, during[c]) :
       answer' = [answer EXCEPT ![c] =
                    [op |-> current[c].op, key |-> current[c].key, res |-> r]]
  /\ current' = [current EXCEPT ![c] = Idle]
  /\ during' = [during EXCEPT ![c] = {}]
  /\ UNCHANGED <<store, asked>>

(* A read answered without leaving the client, at one moment. *)
Instant(c) ==
  /\ current[c] = Idle
  /\ \E op \in {"Get", "Contains"}, k \in Keys :
       \E r \in Outcomes(op, Absent, {store[k]}) :
         answer' = [answer EXCEPT ![c] = [op |-> op, key |-> k, res |-> r]]
  /\ UNCHANGED <<store, asked, current, during>>

(* The client's process ends; what it had asked for may still be stored. *)
Leave(c) ==
  /\ current' = [current EXCEPT ![c] = Idle]
  /\ during' = [during EXCEPT ![c] = {}]
  /\ UNCHANGED <<store, asked, answer>>

Next ==
  \/ \E c \in Clients : Begin(c) \/ End(c) \/ Instant(c) \/ Leave(c)
  \/ \E k \in Keys, v \in Values : Write(k, v)

Spec == Init /\ [][Next]_vars
=============================================================================
