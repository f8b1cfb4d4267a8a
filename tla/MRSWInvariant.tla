--------------------------- MODULE MRSWInvariant ---------------------------
(***************************************************************************)
(* The inductive invariants of MRSW, in named parts.  Inv is for the use   *)
(* of it in which every key is written with one value and no value is      *)
(* empty (what LazyDBCacheFn.run does: the value of a key is the result of *)
(* a function of that key), OverwriteInv for keys that are overwritten.    *)
(***************************************************************************)
EXTENDS MRSW

(* Two puts of a key write the same value. *)
WriteOnce == \A k \in Keys : \A v, w \in Writable[k] : v = w

(* No put writes the value of no bytes. *)
NeverEmpty == \A k \in Keys : Empty \notin Writable[k]

Msgs(s) == {s[i] : i \in DOMAIN s}

(* Where a peer stands agrees with the request it has outstanding. *)
PeersInv ==
  /\ \A p \in Peers :
       /\ pc[p] = "waiting" <=> call[p] # NoCall
       /\ pc[p] = "waiting" => call[p].id = calls[p]
       /\ pc[p] \in {"dialing", "connected", "failed"} => calls[p] = 0
       /\ pc[p] = "connected" => created
       /\ pc[p] = "failed" => dials[p] >= MaxDials
  /\ \A c \in Clients : pc[c] # "stopped"
  /\ \A p \in Stoppers : pc[p] # "ready" /\ call[p].op \in {"Stop", "idle"}
  /\ primary # "off" => created

(* A request of p that is still about is p's outstanding one or an older *)
(* one, and a put in it is one a client asked for.                       *)
SentBy(p, m) ==
  /\ m.id <= calls[p]
  /\ pc[p] = "waiting" /\ m.id = call[p].id => m = call[p]
  /\ m.op = "Put" => <<m.key, m.val>> \in asked

RequestsInv ==
  /\ \A p \in Peers : \A m \in Msgs(pipe[p]) : SentBy(p, m)
  /\ job # NoJob => SentBy(job.from, job.msg)
  /\ \A p \in Peers : call[p].op = "Put" => <<call[p].key, call[p].val>> \in asked
  /\ \A w \in asked : w[2] \in Writable[w[1]]

(* The body answers p's outstanding request, going by what the key held *)
(* during the call.                                                     *)
Truthful(p, body) ==
  CASE call[p].op = "Get" -> (IF body = Empty THEN Absent ELSE body) \in during[p]
    [] call[p].op = "Contains" -> body \in {x # Absent : x \in during[p]}
    [] call[p].op = "Put" -> body = TRUE /\ call[p].val \in during[p]
    [] OTHER -> body = TRUE

RepliesInv ==
  /\ \A p \in Peers : \A r \in Msgs(replies[p]) :
       /\ r.id <= calls[p]
       /\ pc[p] = "waiting" /\ r.id = call[p].id =>
            r.kind = KindOf[call[p].op] /\ Truthful(p, r.body)
  /\ primary = "replying" /\ pc[job.from] = "waiting" /\ job.msg.id = call[job.from].id =>
       Truthful(job.from, job.body)

(* The database, the snapshots and what clients were told *)
DataInv ==
  /\ \A k \in Keys : db[k] \in Writable[k] \cup {Absent}
  /\ \A c \in Clients : \A k \in Keys :
       /\ local[c][k] \in Writable[k] \cup {Absent}
       /\ local[c][k] # Absent => db[k] # Absent
  /\ \A k \in known : db[k] # Absent
  /\ \A c \in Clients : pc[c] = "waiting" =>
       /\ db[call[c].key] \in during[c]
       /\ db[call[c].key] = Absent => during[c] = {Absent}
       /\ sure[c] => Absent \notin during[c]

(* A put whose caller is out of the call (and alive) has been carried out. *)
Settled(p, m) ==
  m.op = "Put" /\ pc[p] # "gone" /\ ~(pc[p] = "waiting" /\ call[p].id = m.id) =>
    db[m.key] # Absent

PutsInv ==
  /\ \A p \in Peers : \A m \in Msgs(pipe[p]) : Settled(p, m)
  /\ job # NoJob => Settled(job.from, job.msg)

AnswersInv ==
  \A c \in Clients : answer[c] # NoCall =>
    /\ AnswerFresh(answer[c])
    /\ answer[c].op = "Put" => answer[c].res = TRUE
    /\ answer[c].sure => Absent \notin answer[c].during

Inv == TypeOK /\ PeersInv /\ RequestsInv /\ RepliesInv /\ DataInv /\ PutsInv
       /\ AnswersInv

(* What holds of the answers when values are overwritten: those of the primary *)
(* are fresh, and those of the snapshot may be old but not missing.            *)
OverwriteAnswers ==
  \A c \in Clients : answer[c] # NoCall =>
    /\ pc[c] \notin {"dialing", "connected"}
    /\ answer[c].op = "Put" \/ local[c][answer[c].key] = Absent => AnswerFresh(answer[c])
    /\ answer[c].sure => answer[c].res \notin {FALSE, Absent}

OverwriteInv ==
  TypeOK /\ PeersInv /\ RequestsInv /\ RepliesInv /\ DataInv /\ OverwriteAnswers
=============================================================================
