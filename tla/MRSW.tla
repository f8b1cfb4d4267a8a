-------------------------------- MODULE MRSW --------------------------------
(***************************************************************************)
(* Multiple readers, single writer over RocksDB (src/src/rocksdb/mrsw.rs): *)
(* one process runs primary_db and owns the database; clients hold a       *)
(* SecondaryDB, a snapshot opened read-only, and ask the primary over an   *)
(* nng REQ/REP socket for what their snapshot lacks and for every write;   *)
(* stop_primary_db asks the primary to return.                             *)
(*                                                                         *)
(* The nng library is external.  What is used of it here: a REQ socket has *)
(* one outstanding request; it takes only the reply that carries the id of *)
(* that request; it sends the request again after a timeout and whenever   *)
(* its dialer has reconnected, so a request may be served more than once;  *)
(* a REP socket serves its pipes in the order their requests arrive and    *)
(* drops the reply to a pipe that is gone; closing a socket may drop what  *)
(* it had accepted for sending.                                            *)
(***************************************************************************)
EXTENDS Naturals, Sequences

CONSTANTS
  Clients,     \* the processes that open a SecondaryDB
  Stoppers,    \* the processes that call stop_primary_db
  Keys,        \* serialized keys
  Values,      \* serialized values
  Writable,    \* Writable[k]: the values clients put at key k
  Empty,       \* the value of no bytes
  Absent,      \* no value; also the outcome of a get that raises KeyError
  Faults,      \* what may end the primary: "operation" and "kill"
  MaxDials,    \* bound: DIAL_MAX_RETRIES
  MaxCalls,    \* bound: calls a client makes
  MaxResends,  \* bound: times an nng resend timer fires
  MaxStarts    \* bound: times primary_db is started

Peers == Clients \cup Stoppers

ASSUME PeersAssumption == Clients \cap Stoppers = {}
ASSUME ValuesAssumption == Absent \notin Values \cup BOOLEAN /\ Values \cap BOOLEAN = {}
ASSUME WritableAssumption == Writable \in [Keys -> SUBSET Values]
ASSUME EmptyAssumption == Empty \in Values
ASSUME BoundsAssumption ==
  {MaxDials, MaxCalls, MaxResends, MaxStarts} \subseteq Nat

VARIABLES
  primary,   \* where primary_db stands
  starts,    \* how often it was started
  created,   \* whether the database exists on disk
  db,        \* the database: Absent where it holds no value
  job,       \* the request the primary is serving, with its sender, or NoJob
  pipe,      \* pipe[p]: requests sent by p, not yet received
  replies,   \* replies[p]: replies sent to p, not yet received
  link,      \* link[p]: p's dialer is connected
  pc,        \* where each peer stands
  dials,     \* dials[p]: refused attempts of p's dial
  local,     \* local[c]: the snapshot the client opened
  calls,     \* calls[p]: requests p has issued
  resends,   \* requests nng sent again on its timer
  call,      \* call[p]: p's outstanding request, or NoCall
  asked,     \* history: <<key, value>> pairs some client has asked to store
  during,    \* history: values the key of p's call has had since it began
  known,     \* history: keys some client was told are there
  sure,      \* history: sure[p]: the key of p's call was known when it began
  answer     \* history: the outcome of a client's last call, or NoCall

primaryVars == <<primary, starts, created, db, job>>
wireVars == <<pipe, replies, link>>
peerVars == <<pc, dials, local, calls, resends, call>>
historyVars == <<asked, during, known, sure, answer>>
vars == <<primaryVars, wireVars, peerVars, historyVars>>

NoCall == [op |-> "idle"]
NoJob == [op |-> "none"]

Serving == {"listening", "applying", "replying", "closing"}

Requests ==
  [id : Nat, op : {"Get", "Contains"}, key : Keys, val : {Absent}]
    \cup [id : Nat, op : {"Put"}, key : Keys, val : Values]
    \cup [id : Nat, op : {"Stop"}, key : {Absent}, val : {Absent}]

Jobs == [from : Peers, msg : Requests, body : Values \cup BOOLEAN]

Replies ==
  [id : Nat, kind : {"SuccessPut", "SuccessGet", "SuccessContains", "SuccessStop"},
   body : Values \cup BOOLEAN]

Answers ==
  [op : {"Get", "Contains", "Put"}, key : Keys, val : Values \cup {Absent},
   during : SUBSET (Values \cup {Absent}), sure : BOOLEAN,
   res : Values \cup {Absent} \cup BOOLEAN]

Init ==
  /\ primary = "off"
  /\ starts = 0
  /\ created = FALSE
  /\ db = [k \in Keys |-> Absent]
  /\ job = NoJob
  /\ pipe = [p \in Peers |-> <<>>]
  /\ replies = [p \in Peers |-> <<>>]
  /\ link = [p \in Peers |-> FALSE]
  /\ pc = [p \in Peers |-> "dialing"]
  /\ dials = [p \in Peers |-> 0]
  /\ local = [c \in Clients |-> [k \in Keys |-> Absent]]
  /\ calls = [p \in Peers |-> 0]
  /\ resends = 0
  /\ call = [p \in Peers |-> NoCall]
  /\ asked = {}
  /\ during = [p \in Peers |-> {}]
  /\ known = {}
  /\ sure = [p \in Peers |-> FALSE]
  /\ answer = [c \in Clients |-> NoCall]

-----------------------------------------------------------------------------
(* The primary: primary_db *)

(* DB::open comes before the socket exists. *)
Open ==
  /\ primary = "off" /\ starts < MaxStarts
  /\ primary' = "opened"
  /\ starts' = starts + 1
  /\ created' = TRUE
  /\ UNCHANGED <<db, job, wireVars, peerVars, historyVars>>

Listen ==
  /\ primary = "opened"
  /\ primary' = "listening"
  /\ UNCHANGED <<starts, created, db, job, wireVars, peerVars, historyVars>>

(* socket.recv and deserialize *)
Recv(p) ==
  /\ primary = "listening" /\ pipe[p] # <<>>
  /\ job' = [from |-> p, msg |-> Head(pipe[p]), body |-> FALSE]
  /\ pipe' = [pipe EXCEPT ![p] = Tail(@)]
  /\ primary' = "applying"
  /\ UNCHANGED <<starts, created, db, replies, link, peerVars, historyVars>>

(* Mutant: the branch for a key without a value is missing. *)
LookupUnchecked(k) == db[k]

(* The match on the request: a put writes the database, a read looks it up; *)
(* a get of a key without a value answers the value of no bytes.            *)
Lookup(k) == IF db[k] = Absent THEN Empty ELSE db[k]

(* Mutant: is_none for is_some. *)
BodyOfInverted(m) ==
  IF m.op = "Get" THEN Lookup(m.key) ELSE m.op = "Contains" => db[m.key] = Absent

BodyOf(m) ==
  IF m.op = "Get" THEN Lookup(m.key) ELSE m.op = "Contains" => db[m.key] # Absent

(* Mutant: a put is acknowledged and not written. *)
ApplyWithoutWriting ==
  /\ primary = "applying"
  /\ primary' = "replying"
  /\ job' = [from |-> job.from, msg |-> job.msg, body |-> BodyOf(job.msg)]
  /\ UNCHANGED <<starts, created, db, wireVars, peerVars, historyVars>>

Apply ==
  /\ primary = "applying"
  /\ primary' = "replying"
  /\ job' = [from |-> job.from, msg |-> job.msg, body |-> BodyOf(job.msg)]
  /\ IF job.msg.op = "Put"
     THEN /\ db' = [db EXCEPT ![job.msg.key] = job.msg.val]
          /\ during' = [p \in Peers |->
               IF call[p] # NoCall /\ call[p].key = job.msg.key
               THEN during[p] \cup {job.msg.val} ELSE during[p]]
     ELSE UNCHANGED <<db, during>>
  /\ UNCHANGED <<starts, created, wireVars, peerVars, asked, known, sure, answer>>

KindOf == [Put |-> "SuccessPut", Get |-> "SuccessGet", Contains |-> "SuccessContains",
           Stop |-> "SuccessStop"]

(* Mutant: a request other than Contains is answered as a put. *)
ReplyOfWrongKind(j) ==
  [id |-> j.msg.id, body |-> j.body,
   kind |-> IF j.msg.op = "Contains" THEN "SuccessContains" ELSE "SuccessPut"]

ReplyOf(j) == [id |-> j.msg.id, kind |-> KindOf[j.msg.op], body |-> j.body]

(* socket.send on a REP socket: the reply to a pipe that is gone is dropped. *)
Delivered == IF link[job.from]
             THEN [replies EXCEPT ![job.from] = Append(@, ReplyOf(job))]
             ELSE replies

(* Mutant: a get that finds nothing goes on with the loop. *)
ReplyOnlyFound ==
  /\ primary = "replying" /\ job.msg.op # "Stop"
  /\ primary' = "listening"
  /\ job' = NoJob
  /\ replies' = IF job.body = Empty THEN replies ELSE Delivered
  /\ UNCHANGED <<starts, created, db, pipe, link, peerVars, historyVars>>

Reply ==
  /\ primary = "replying" /\ job.msg.op # "Stop"
  /\ primary' = "listening"
  /\ job' = NoJob
  /\ replies' = Delivered
  /\ UNCHANGED <<starts, created, db, pipe, link, peerVars, historyVars>>

(* The answer to Stop goes out before the database and the socket are closed. *)
ReplyStop ==
  /\ primary = "replying" /\ job.msg.op = "Stop"
  /\ primary' = "closing"
  /\ job' = NoJob
  /\ replies' = Delivered
  /\ UNCHANGED <<starts, created, db, pipe, link, peerVars, historyVars>>

(* The primary's process is over: its pipes are gone, and with them the *)
(* requests in them and the replies to the peers in `lost`.             *)
Gone(lost) ==
  /\ primary' = "off"
  /\ job' = NoJob
  /\ pipe' = [p \in Peers |-> <<>>]
  /\ link' = [p \in Peers |-> FALSE]
  /\ replies' = [p \in Peers |-> IF p \in lost THEN <<>> ELSE replies[p]]
  /\ UNCHANGED <<starts, created, db, peerVars, historyVars>>

(* The return of primary_db drops the socket and the database. *)
Close ==
  /\ primary = "closing"
  /\ \E lost \in SUBSET Peers : Gone(lost)

(* An operation on the database returns an error, and primary_db with it: *)
(* RepMsg::Error is never sent.                                           *)
OperationFails ==
  /\ "operation" \in Faults /\ primary = "applying"
  /\ \E lost \in SUBSET Peers : Gone(lost)

(* The process is killed, or a signal makes primary_db return. *)
Killed ==
  /\ "kill" \in Faults /\ primary # "off"
  /\ \E lost \in SUBSET Peers : Gone(lost)

-----------------------------------------------------------------------------
(* The peers: dial, SecondaryDB, stop_primary_db *)

Dial(p) ==
  /\ pc[p] = "dialing" /\ primary \in Serving
  /\ pc' = [pc EXCEPT ![p] = "connected"]
  /\ link' = [link EXCEPT ![p] = TRUE]
  /\ UNCHANGED <<primaryVars, pipe, replies, dials, local, calls, resends, call,
                 historyVars>>

(* Mutant: the retries are not counted. *)
DialRefusedUncounted(p) ==
  /\ pc[p] = "dialing" /\ primary \notin Serving
  /\ UNCHANGED vars

DialRefused(p) ==
  /\ pc[p] = "dialing" /\ primary \notin Serving
  /\ dials' = [dials EXCEPT ![p] = @ + 1]
  /\ pc' = [pc EXCEPT ![p] = IF dials[p] + 1 >= MaxDials THEN "failed" ELSE @]
  /\ UNCHANGED <<primaryVars, wireVars, local, calls, resends, call, historyVars>>

(* open_as_secondary takes the database as it is now; nothing in the class *)
(* ever brings the snapshot up to date.                                    *)
OpenSecondary(c) ==
  /\ pc[c] = "connected"
  /\ pc' = [pc EXCEPT ![c] = IF created THEN "ready" ELSE "failed"]
  /\ local' = [local EXCEPT ![c] = db]
  /\ UNCHANGED <<primaryVars, wireVars, dials, calls, resends, call, historyVars>>

Request(p, op, k, v) ==
  LET m == [id |-> calls[p] + 1, op |-> op, key |-> k, val |-> v] IN
  /\ calls' = [calls EXCEPT ![p] = @ + 1]
  /\ call' = [call EXCEPT ![p] = m]
  /\ pc' = [pc EXCEPT ![p] = "waiting"]
  /\ pipe' = IF link[p] THEN [pipe EXCEPT ![p] = Append(@, m)] ELSE pipe

(* __contains__ and __getitem__ of a key the snapshot holds *)
AnswerLocally(c, op, k) ==
  /\ pc[c] = "ready" /\ calls[c] < MaxCalls
  /\ local[c][k] # Absent
  /\ calls' = [calls EXCEPT ![c] = @ + 1]
  /\ answer' = [answer EXCEPT ![c] =
       [op |-> op, key |-> k, val |-> Absent, during |-> {db[k]}, sure |-> k \in known,
        res |-> IF op = "Get" THEN local[c][k] ELSE TRUE]]
  /\ known' = known \cup {k}
  /\ UNCHANGED <<primaryVars, wireVars, pc, dials, local, resends, call, asked,
                 during, sure>>

(* History kept with a request that leaves the client *)
Begins(c, k) ==
  /\ during' = [during EXCEPT ![c] = {db[k]}]
  /\ sure' = [sure EXCEPT ![c] = k \in known]
  /\ answer' = [answer EXCEPT ![c] = NoCall]
  /\ UNCHANGED known

(* __contains__ and __getitem__ of a key the snapshot lacks *)
AskPrimary(c, op, k) ==
  /\ pc[c] = "ready" /\ calls[c] < MaxCalls
  /\ local[c][k] = Absent
  /\ Request(c, op, k, Absent)
  /\ Begins(c, k)
  /\ UNCHANGED <<primaryVars, replies, link, dials, local, resends, asked>>

(* Mutant: __setitem__ returns without waiting for the acknowledgement. *)
PutUnacknowledged(c, k, v) ==
  /\ pc[c] = "ready" /\ calls[c] < MaxCalls
  /\ LET m == [id |-> calls[c] + 1, op |-> "Put", key |-> k, val |-> v] IN
     pipe' = IF link[c] THEN [pipe EXCEPT ![c] = Append(@, m)] ELSE pipe
  /\ calls' = [calls EXCEPT ![c] = @ + 1]
  /\ asked' = asked \cup {<<k, v>>}
  /\ UNCHANGED <<primaryVars, replies, link, pc, dials, local, resends, call,
                 during, known, sure, answer>>

(* __setitem__: the snapshot is not touched *)
Put(c, k, v) ==
  /\ pc[c] = "ready" /\ calls[c] < MaxCalls
  /\ Request(c, "Put", k, v)
  /\ Begins(c, k)
  /\ asked' = asked \cup {<<k, v>>}
  /\ UNCHANGED <<primaryVars, replies, link, dials, local, resends>>

Stop(p) ==
  /\ pc[p] = "connected"
  /\ Request(p, "Stop", Absent, Absent)
  /\ UNCHANGED <<primaryVars, replies, link, dials, local, resends, historyVars>>

(* What the caller makes of the reply: empty data raises KeyError. *)
Outcome(r) == IF r.kind = "SuccessGet" /\ r.body = Empty THEN Absent ELSE r.body

(* Mutant: a reply left over from an earlier request is taken for this one's. *)
ReceiveAny(c) ==
  /\ pc[c] = "waiting" /\ replies[c] # <<>>
  /\ LET r == Head(replies[c])
         m == call[c] IN
     /\ answer' = [answer EXCEPT ![c] =
          [op |-> m.op, key |-> m.key, val |-> m.val, during |-> during[c],
           sure |-> sure[c], res |-> Outcome(r)]]
     /\ known' = IF Outcome(r) \in {FALSE, Absent} THEN known ELSE known \cup {m.key}
     /\ pc' = [pc EXCEPT ![c] = IF r.kind = KindOf[m.op] THEN "ready" ELSE "failed"]
  /\ replies' = [replies EXCEPT ![c] = Tail(@)]
  /\ call' = [call EXCEPT ![c] = NoCall]
  /\ during' = [during EXCEPT ![c] = {}]
  /\ sure' = [sure EXCEPT ![c] = FALSE]
  /\ UNCHANGED <<primaryVars, pipe, link, dials, local, calls, resends, asked>>

(* socket.recv returns the reply to the outstanding request, whose kind the *)
(* caller checks; its process then goes on.                                 *)
Receive(c) ==
  /\ pc[c] = "waiting" /\ replies[c] # <<>>
  /\ LET r == Head(replies[c])
         m == call[c] IN
     /\ r.id = m.id
     /\ answer' = [answer EXCEPT ![c] =
          [op |-> m.op, key |-> m.key, val |-> m.val, during |-> during[c],
           sure |-> sure[c], res |-> Outcome(r)]]
     /\ known' = IF Outcome(r) \in {FALSE, Absent} THEN known ELSE known \cup {m.key}
     /\ pc' = [pc EXCEPT ![c] = IF r.kind = KindOf[m.op] THEN "ready" ELSE "failed"]
  /\ replies' = [replies EXCEPT ![c] = Tail(@)]
  /\ call' = [call EXCEPT ![c] = NoCall]
  /\ during' = [during EXCEPT ![c] = {}]
  /\ sure' = [sure EXCEPT ![c] = FALSE]
  /\ UNCHANGED <<primaryVars, pipe, link, dials, local, calls, resends, asked>>

ReceiveStop(p) ==
  /\ pc[p] = "waiting" /\ replies[p] # <<>>
  /\ Head(replies[p]).id = call[p].id
  /\ pc' = [pc EXCEPT ![p] =
              IF Head(replies[p]).kind = "SuccessStop" THEN "stopped" ELSE "failed"]
  /\ replies' = [replies EXCEPT ![p] = Tail(@)]
  /\ call' = [call EXCEPT ![p] = NoCall]
  /\ UNCHANGED <<primaryVars, pipe, link, dials, local, calls, resends, historyVars>>

(* The process of a client or of a stopper is killed inside a call.  (One  *)
(* that ends between calls differs, for the others, by nothing from one    *)
(* that makes no more calls.)                                              *)
Leave(p) ==
  /\ pc[p] = "waiting"
  /\ pc' = [pc EXCEPT ![p] = "gone"]
  /\ link' = [link EXCEPT ![p] = FALSE]
  /\ pipe' = [pipe EXCEPT ![p] = <<>>]
  /\ replies' = [replies EXCEPT ![p] = <<>>]
  /\ call' = [call EXCEPT ![p] = NoCall]
  /\ during' = [during EXCEPT ![p] = {}]
  /\ sure' = [sure EXCEPT ![p] = FALSE]
  /\ UNCHANGED <<primaryVars, dials, local, calls, resends, asked, known, answer>>

-----------------------------------------------------------------------------
(* nng's REQ socket, behind the peers *)

(* A reply to an earlier request is thrown away. *)
DiscardReply(p) ==
  /\ replies[p] # <<>>
  /\ pc[p] = "waiting" => Head(replies[p]).id # call[p].id
  /\ replies' = [replies EXCEPT ![p] = Tail(@)]
  /\ UNCHANGED <<primaryVars, pipe, link, peerVars, historyVars>>

(* The resend timer *)
Resend(p) ==
  /\ pc[p] = "waiting" /\ link[p] /\ resends < MaxResends
  /\ resends' = resends + 1
  /\ pipe' = [pipe EXCEPT ![p] = Append(@, call[p])]
  /\ UNCHANGED <<primaryVars, replies, link, pc, dials, local, calls, call, historyVars>>

(* The dialer of an open socket connects again; an outstanding request is *)
(* sent again.                                                            *)
Reconnect(p) ==
  /\ pc[p] \in {"connected", "ready", "waiting"}
  /\ ~link[p] /\ primary \in Serving
  /\ link' = [link EXCEPT ![p] = TRUE]
  /\ pipe' = IF pc[p] = "waiting" THEN [pipe EXCEPT ![p] = Append(@, call[p])] ELSE pipe
  /\ UNCHANGED <<primaryVars, replies, peerVars, historyVars>>

-----------------------------------------------------------------------------
Primary == Open \/ Listen \/ (\E p \in Peers : Recv(p)) \/ Apply \/ Reply \/ ReplyStop \/ Close

Client(c) ==
  \/ OpenSecondary(c)
  \/ Receive(c)
  \/ \E k \in Keys :
       \/ \E op \in {"Get", "Contains"} : AnswerLocally(c, op, k) \/ AskPrimary(c, op, k)
       \/ \E v \in Writable[k] : Put(c, k, v)

Socket(p) == Dial(p) \/ DialRefused(p) \/ DiscardReply(p) \/ Resend(p) \/ Reconnect(p)

Next ==
  \/ Primary
  \/ OperationFails \/ Killed
  \/ \E c \in Clients : Client(c)
  \/ \E p \in Stoppers : Stop(p) \/ ReceiveStop(p)
  \/ \E p \in Peers : Socket(p) \/ Leave(p)

Spec == Init /\ [][Next]_vars

(***************************************************************************)
(* What keeps running: the loop of primary_db (a REP socket takes its      *)
(* pipes in turn, hence SF of each Recv), the retries of dial, and nng's   *)
(* threads.  Nothing makes a client call, stop the primary or start it.    *)
(***************************************************************************)
Fairness ==
  /\ WF_vars(Listen) /\ WF_vars(Apply) /\ WF_vars(Reply) /\ WF_vars(ReplyStop)
  /\ WF_vars(Close)
  /\ \A p \in Peers :
       /\ SF_vars(Recv(p))
       /\ WF_vars(Dial(p) \/ DialRefused(p))
       /\ WF_vars(DiscardReply(p))
       /\ WF_vars(Reconnect(p))
  /\ \A c \in Clients : WF_vars(OpenSecondary(c)) /\ WF_vars(Receive(c))
  /\ \A p \in Stoppers : WF_vars(ReceiveStop(p))

FairSpec == Spec /\ Fairness
-----------------------------------------------------------------------------
(* Types: every variable is what its declaration says. *)
TypeOK ==
  /\ primary \in {"off", "opened"} \cup Serving
  /\ starts \in 0..MaxStarts
  /\ created \in BOOLEAN
  /\ db \in [Keys -> Values \cup {Absent}]
  /\ job \in Jobs \cup {NoJob}
  /\ primary \in {"applying", "replying"} <=> job # NoJob
  /\ pipe \in [Peers -> Seq(Requests)]
  /\ replies \in [Peers -> Seq(Replies)]
  /\ link \in [Peers -> BOOLEAN]
  /\ pc \in [Peers -> {"dialing", "connected", "ready", "waiting", "stopped",
                       "failed", "gone"}]
  /\ dials \in [Peers -> Nat]
  /\ local \in [Clients -> [Keys -> Values \cup {Absent}]]
  /\ calls \in [Peers -> Nat]
  /\ resends \in 0..MaxResends
  /\ call \in [Peers -> Requests \cup {NoCall}]
  /\ \A p \in Peers : pc[p] = "waiting" => call[p] # NoCall
  /\ \A c \in Clients : call[c].op # "Stop"
  /\ asked \subseteq Keys \X Values
  /\ during \in [Peers -> SUBSET (Values \cup {Absent})]
  /\ known \subseteq Keys
  /\ sure \in [Peers -> BOOLEAN]
  /\ answer \in [Clients -> Answers \cup {NoCall}]

(* The branch "Invalid message. Please report the bug." is never reached:  *)
(* a client or the stopper fails only by exhausting its dial, never on the *)
(* kind of a reply and never by opening a secondary of a database that is  *)
(* not there, whatever was sent twice, lost or cut by a restart.           *)
FailsOnlyDialing ==
  \A p \in Peers : pc[p] = "failed" => dials[p] >= MaxDials /\ calls[p] = 0

AnswerFresh(a) ==
  CASE a.op = "Get"      -> a.res \in a.during
    [] a.op = "Contains" -> a.res \in {x # Absent : x \in a.during}
    [] OTHER             -> a.val \in a.during

(* A call to a SecondaryDB takes effect between its start and its end: a  *)
(* get or contains answers with a value the key had during the call, and  *)
(* an acknowledged put was written during the call.                       *)
AnswersFresh == \A c \in Clients : answer[c] # NoCall => AnswerFresh(answer[c])

(* The same of the calls that go to the primary; it does not rest on keys *)
(* being written once.                                                    *)
PrimaryAnswersFresh ==
  \A c \in Clients :
    answer[c] # NoCall /\ (answer[c].op = "Put" \/ local[c][answer[c].key] = Absent)
      => AnswerFresh(answer[c])

(* Once any client was told that a key is there (its put acknowledged, a   *)
(* get or a contains answered), no call begun later says that it is not:   *)
(* LazyDBCacheFn.run relies on it between `key not in db` and `db[key]`.   *)
KnownKeysAreFound ==
  \A c \in Clients : answer[c] # NoCall /\ answer[c].sure =>
    answer[c].res \notin {FALSE, Absent}

(* A put changes the database only while its caller is still inside the   *)
(* call (or has died in it): the second copy of a request nng sent twice, *)
(* served after the caller went on, changes nothing.                      *)
LatePutsAreHarmless ==
  [][ db' # db =>
        \/ pc[job.from] = "gone"
        \/ pc[job.from] = "waiting" /\ call[job.from].id = job.msg.id ]_vars

(* Without its history of requests, MRSW is the mapping of MapService. *)
CallAsSeen(c) ==
  IF call[c] = NoCall THEN [op |-> "idle"]
  ELSE [op |-> call[c].op, key |-> call[c].key, val |-> call[c].val]

AnswerAsSeen(c) ==
  IF answer[c] = NoCall THEN [op |-> "idle"]
  ELSE [op |-> answer[c].op, key |-> answer[c].key, res |-> answer[c].res]

Service == INSTANCE MapService WITH
  store   <- db,
  current <- [c \in Clients |-> CallAsSeen(c)],
  during  <- [c \in Clients |-> during[c]],
  answer  <- [c \in Clients |-> AnswerAsSeen(c)]

(* The protocol implements one mapping whose calls each take effect at a *)
(* moment between their start and their end.                             *)
ImplementsMapService == Service!Spec

(* Provided a primary is in service from some time on, every call returns, *)
(* also those whose request or reply an earlier primary took down with it. *)
CallsReturn ==
  <>[](primary \in Serving) =>
    \A p \in Peers : pc[p] = "waiting" ~> pc[p] # "waiting"

(* dial never hangs: it connects or gives up. *)
DialsEnd == \A p \in Peers : pc[p] = "dialing" ~> pc[p] # "dialing"

(* A client whose call cannot be served is told so: the branch "PrimaryDB *)
(* encounters an error" of every call says it would be.                   *)
ErrorsAreReported == \A c \in Clients : pc[c] = "waiting" ~> pc[c] # "waiting"
=============================================================================
