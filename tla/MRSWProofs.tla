----------------------------- MODULE MRSWProofs -----------------------------
(***************************************************************************)
(* Proofs about MRSW, for every set of clients, keys and values and for    *)
(* every bound: types, the inductive invariant of MRSWInvariant and the    *)
(* properties that follow from it.                                         *)
(***************************************************************************)
EXTENDS MRSWInvariant, SequenceTheorems, TLAPS

-----------------------------------------------------------------------------
(* Sequences of messages *)

LEMMA AppendMsgs ==
  ASSUME NEW S, NEW s \in Seq(S), NEW e \in S
  PROVE  Append(s, e) \in Seq(S) /\ Msgs(Append(s, e)) = Msgs(s) \cup {e}
<1>1. /\ Append(s, e) \in Seq(S)
      /\ Len(Append(s, e)) = Len(s) + 1
      /\ \A i \in 1..Len(s) : Append(s, e)[i] = s[i]
      /\ Append(s, e)[Len(s) + 1] = e
  BY AppendProperties
<1>2. DOMAIN s = 1..Len(s) /\ DOMAIN Append(s, e) = 1..(Len(s) + 1) /\ Len(s) \in Nat
  BY <1>1, LenProperties
<1>3. Msgs(Append(s, e)) = Msgs(s) \cup {e}
  BY <1>1, <1>2 DEF Msgs
<1> QED BY <1>1, <1>3

LEMMA HeadTailMsgs ==
  ASSUME NEW S, NEW s \in Seq(S), s # <<>>
  PROVE  /\ Head(s) \in S /\ Tail(s) \in Seq(S)
         /\ Head(s) \in Msgs(s) /\ Msgs(Tail(s)) \subseteq Msgs(s)
<1>1. Len(s) \in Nat \ {0} /\ DOMAIN s = 1..Len(s) /\ s \in [1..Len(s) -> S]
  BY LenProperties, EmptySeq
<1>2. /\ Head(s) \in S /\ Tail(s) \in Seq(S) /\ Head(s) = s[1]
      /\ Len(Tail(s)) = Len(s) - 1
      /\ \A i \in 1..Len(Tail(s)) : Tail(s)[i] = s[i + 1]
  BY HeadTailProperties
<1>3. DOMAIN Tail(s) = 1..(Len(s) - 1)
  BY <1>2, LenProperties
<1>4. Head(s) \in Msgs(s)
  BY <1>1, <1>2 DEF Msgs
<1>5. Msgs(Tail(s)) \subseteq Msgs(s)
  <2> SUFFICES ASSUME NEW i \in 1..(Len(s) - 1) PROVE Tail(s)[i] \in Msgs(s)
    BY <1>3 DEF Msgs
  <2>1. i + 1 \in DOMAIN s /\ Tail(s)[i] = s[i + 1]
    BY <1>1, <1>2
  <2> QED BY <2>1 DEF Msgs
<1> QED BY <1>2, <1>4, <1>5

LEMMA NoMsgs == Msgs(<<>>) = {}
  BY DEF Msgs

LEMMA MsgsTyped ==
  ASSUME NEW S, NEW s \in Seq(S)
  PROVE  Msgs(s) \subseteq S
  BY LenProperties DEF Msgs

-----------------------------------------------------------------------------
(* Types *)

LEMMA TypesInit == Init => TypeOK
<1> SUFFICES ASSUME Init PROVE TypeOK
  OBVIOUS
<1>1. <<>> \in Seq(Requests) /\ <<>> \in Seq(Replies)
  BY EmptySeq
<1>2. 0 \in 0..MaxStarts /\ 0 \in 0..MaxResends
  BY BoundsAssumption
<1> QED
  BY <1>1, <1>2 DEF Init, TypeOK, NoCall, NoJob, Peers, Serving

(* What the primary sends back is well typed. *)
LEMMA ReplyTyped ==
  ASSUME TypeOK, job # NoJob
  PROVE  /\ job.from \in Peers /\ job.msg \in Requests
         /\ ReplyOf(job) \in Replies
         /\ Delivered \in [Peers -> Seq(Replies)]
<1>1. job.from \in Peers /\ job.msg \in Requests /\ job.body \in Values \cup BOOLEAN
  BY DEF TypeOK, Jobs
<1>2. ReplyOf(job) \in Replies
  BY <1>1 DEF ReplyOf, Replies, Requests, KindOf
<1>3. replies[job.from] \in Seq(Replies)
  BY <1>1 DEF TypeOK
<1>4. Append(replies[job.from], ReplyOf(job)) \in Seq(Replies)
  BY <1>2, <1>3, AppendMsgs
<1>5. Delivered \in [Peers -> Seq(Replies)]
  BY <1>4 DEF Delivered, TypeOK
<1> QED BY <1>1, <1>2, <1>5

(* What sending a request leaves in the variables it changes *)
SentTyped(p) ==
  /\ calls' \in [Peers -> Nat]
  /\ pc' = [pc EXCEPT ![p] = "waiting"]
  /\ call' \in [Peers -> Requests \cup {NoCall}]
  /\ \A q \in Peers : pc'[q] = "waiting" => call'[q] # NoCall
  /\ \A q \in Clients : call'[q].op # "Stop"
  /\ pipe' \in [Peers -> Seq(Requests)]

LEMMA RequestTyped ==
  ASSUME TypeOK, NEW p \in Peers, NEW op, NEW k, NEW v,
         Request(p, op, k, v),
         \/ op \in {"Get", "Contains"} /\ k \in Keys /\ v = Absent
         \/ op = "Put" /\ k \in Keys /\ v \in Values
         \/ op = "Stop" /\ k = Absent /\ v = Absent /\ p \notin Clients
  PROVE  SentTyped(p)
<1> DEFINE m == [id |-> calls[p] + 1, op |-> op, key |-> k, val |-> v]
<1>1. calls[p] \in Nat /\ pipe[p] \in Seq(Requests)
  BY DEF TypeOK
<1>2. m \in Requests /\ m.op = op /\ op # "idle"
  BY <1>1 DEF Requests
<1>3. Append(pipe[p], m) \in Seq(Requests)
  BY <1>1, <1>2, AppendMsgs
<1> HIDE DEF m
<1>4. /\ calls' = [calls EXCEPT ![p] = @ + 1] /\ call' = [call EXCEPT ![p] = m]
      /\ pc' = [pc EXCEPT ![p] = "waiting"]
      /\ pipe' = IF link[p] THEN [pipe EXCEPT ![p] = Append(@, m)] ELSE pipe
  BY DEF Request, m
<1>5. /\ calls' \in [Peers -> Nat]
      /\ call' \in [Peers -> Requests \cup {NoCall}]
      /\ pipe' \in [Peers -> Seq(Requests)]
  BY <1>1, <1>2, <1>3, <1>4 DEF TypeOK
<1>6. /\ \A q \in Peers : pc'[q] = "waiting" => call'[q] # NoCall
      /\ \A q \in Clients : call'[q].op # "Stop"
  BY <1>2, <1>4 DEF TypeOK, NoCall, Peers
<1> QED BY <1>4, <1>5, <1>6 DEF SentTyped

LEMMA TypesNext == TypeOK /\ [Next]_vars => TypeOK'
<1> SUFFICES ASSUME TypeOK, [Next]_vars PROVE TypeOK'
  OBVIOUS
<1> USE DEF primaryVars, wireVars, peerVars, historyVars
<1>1. CASE Open
  BY <1>1, BoundsAssumption DEF TypeOK, Open, Serving
<1>2. CASE Listen
  BY <1>2 DEF TypeOK, Listen, Serving
<1>3. ASSUME NEW p \in Peers, Recv(p) PROVE TypeOK'
  <2>1. pipe[p] \in Seq(Requests) /\ pipe[p] # <<>>
    BY <1>3 DEF TypeOK, Recv
  <2>2. Head(pipe[p]) \in Requests /\ Tail(pipe[p]) \in Seq(Requests)
    BY <2>1, HeadTailMsgs
  <2>3. job' \in Jobs
    BY <2>2, <1>3 DEF Recv, Jobs
  <2>4. pipe' \in [Peers -> Seq(Requests)]
    BY <2>2, <1>3 DEF Recv, TypeOK
  <2> QED BY <2>3, <2>4, <1>3 DEF TypeOK, Recv, Serving, NoJob, Jobs
<1>4. CASE Apply
  <2>1. job \in Jobs
    BY <1>4 DEF TypeOK, Apply
  <2>2. BodyOf(job.msg) \in Values \cup BOOLEAN
    BY <2>1, EmptyAssumption DEF TypeOK, BodyOf, Lookup, Jobs, Requests
  <2>3. job' \in Jobs
    BY <2>1, <2>2, <1>4 DEF Apply, Jobs
  <2>4. job.msg.op = "Put" => job.msg.key \in Keys /\ job.msg.val \in Values
    BY <2>1 DEF Jobs, Requests
  <2>5. db' \in [Keys -> Values \cup {Absent}]
    BY <2>4, <1>4 DEF TypeOK, Apply
  <2>6. during' \in [Peers -> SUBSET (Values \cup {Absent})]
    <3>1. CASE job.msg.op = "Put"
      <4>1. \A p \in Peers : during[p] \cup {job.msg.val} \in SUBSET (Values \cup {Absent})
        BY <2>4, <3>1 DEF TypeOK
      <4> QED BY <4>1, <3>1, <1>4 DEF TypeOK, Apply
    <3>2. CASE job.msg.op # "Put"
      BY <3>2, <1>4 DEF TypeOK, Apply
    <3> QED BY <3>1, <3>2
  <2> QED BY <2>3, <2>5, <2>6, <1>4 DEF TypeOK, Apply, Serving, NoJob, Jobs
<1>5. CASE Reply
  <2>1. job # NoJob
    BY <1>5 DEF Reply, TypeOK
  <2> QED BY <2>1, ReplyTyped, <1>5 DEF TypeOK, Reply, Serving
<1>6. CASE ReplyStop
  <2>1. job # NoJob
    BY <1>6 DEF ReplyStop, TypeOK
  <2> QED BY <2>1, ReplyTyped, <1>6 DEF TypeOK, ReplyStop, Serving
<1>7. ASSUME NEW lost \in SUBSET Peers, Gone(lost) PROVE TypeOK'
  <2>1. <<>> \in Seq(Requests) /\ <<>> \in Seq(Replies)
    BY EmptySeq
  <2> QED BY <2>1, <1>7 DEF TypeOK, Gone
<1>8. ASSUME NEW p \in Peers, Dial(p) PROVE TypeOK'
  BY <1>8 DEF TypeOK, Dial
<1>9. ASSUME NEW p \in Peers, DialRefused(p) PROVE TypeOK'
  BY <1>9 DEF TypeOK, DialRefused
<1>10. ASSUME NEW c \in Clients, OpenSecondary(c) PROVE TypeOK'
  BY <1>10 DEF TypeOK, OpenSecondary, Peers
<1>11. ASSUME NEW c \in Clients, NEW op \in {"Get", "Contains"}, NEW k \in Keys,
              AnswerLocally(c, op, k)
       PROVE  TypeOK'
  <2>1. local[c][k] \in Values \cup {Absent} /\ {db[k]} \in SUBSET (Values \cup {Absent})
    BY DEF TypeOK
  <2>2. [op |-> op, key |-> k, val |-> Absent, during |-> {db[k]}, sure |-> k \in known,
         res |-> IF op = "Get" THEN local[c][k] ELSE TRUE] \in Answers
    BY <2>1 DEF Answers
  <2>3. answer' \in [Clients -> Answers \cup {NoCall}]
    BY <2>2, <1>11 DEF AnswerLocally, TypeOK
  <2>4. calls' \in [Peers -> Nat] /\ known' \subseteq Keys
    BY <1>11 DEF AnswerLocally, TypeOK, Peers
  <2> QED BY <2>3, <2>4, <1>11 DEF TypeOK, AnswerLocally
<1>12. ASSUME NEW c \in Clients, NEW op \in {"Get", "Contains"}, NEW k \in Keys,
              AskPrimary(c, op, k)
       PROVE  TypeOK'
  <2>1. Request(c, op, k, Absent) /\ c \in Peers
    BY <1>12 DEF AskPrimary, Peers
  <2>2. SentTyped(c)
    BY <2>1, RequestTyped
  <2>3. during' \in [Peers -> SUBSET (Values \cup {Absent})]
    <3>1. {db[k]} \in SUBSET (Values \cup {Absent})
      BY DEF TypeOK
    <3> QED BY <3>1, <1>12 DEF TypeOK, AskPrimary, Begins
  <2> QED BY <2>2, <2>3, <1>12 DEF TypeOK, AskPrimary, Begins, SentTyped
<1>13. ASSUME NEW c \in Clients, NEW k \in Keys, NEW v \in Writable[k], Put(c, k, v)
       PROVE  TypeOK'
  <2>1. v \in Values /\ c \in Peers /\ Request(c, "Put", k, v)
    BY <1>13, WritableAssumption DEF Put, Peers
  <2>2. SentTyped(c)
    BY <2>1, RequestTyped
  <2>3. during' \in [Peers -> SUBSET (Values \cup {Absent})]
    BY <1>13 DEF TypeOK, Put, Begins
  <2>4. asked' \subseteq Keys \X Values
    BY <2>1, <1>13 DEF TypeOK, Put
  <2> QED BY <2>2, <2>3, <2>4, <1>13 DEF TypeOK, Put, Begins, SentTyped
<1>14. ASSUME NEW p \in Stoppers, Stop(p) PROVE TypeOK'
  <2>1. Request(p, "Stop", Absent, Absent) /\ p \in Peers
    BY <1>14 DEF Stop, Peers
  <2>0. p \notin Clients
    BY PeersAssumption
  <2>2. SentTyped(p)
    BY <2>0, <2>1, RequestTyped
  <2> QED BY <2>2, <1>14 DEF TypeOK, Stop, SentTyped
<1>15. ASSUME NEW c \in Clients, Receive(c) PROVE TypeOK'
  <2>1. /\ c \in Peers /\ replies[c] \in Seq(Replies) /\ replies[c] # <<>>
        /\ Head(replies[c]) \in Replies /\ Tail(replies[c]) \in Seq(Replies)
    BY <1>15, HeadTailMsgs DEF Receive, TypeOK, Peers
  <2> DEFINE r == Head(replies[c])
             m == call[c]
             a == [op |-> m.op, key |-> m.key, val |-> m.val, during |-> during[c],
                   sure |-> sure[c], res |-> Outcome(r)]
  <2>2. /\ m \in Requests /\ m.op \in {"Get", "Contains", "Put"}
        /\ m.key \in Keys /\ m.val \in Values \cup {Absent}
    BY <2>1, <1>15 DEF Receive, TypeOK, Requests
  <2>3. Outcome(r) \in Values \cup {Absent} \cup BOOLEAN
    BY <2>1 DEF Outcome, Replies
  <2>4. a \in Answers
    BY <2>1, <2>2, <2>3 DEF Answers, TypeOK
  <2>5. /\ answer' = [answer EXCEPT ![c] = a]
        /\ known' \in SUBSET (known \cup {m.key})
        /\ \E s \in {"ready", "failed"} : pc' = [pc EXCEPT ![c] = s]
    BY <1>15 DEF Receive
  <2> HIDE DEF a, r, m
  <2>6. answer' \in [Clients -> Answers \cup {NoCall}] /\ known' \subseteq Keys
    BY <2>2, <2>4, <2>5 DEF TypeOK
  <2>7. /\ pc' \in [Peers -> {"dialing", "connected", "ready", "waiting", "stopped",
                             "failed", "gone"}]
        /\ pc'[c] # "waiting" /\ \A q \in Peers \ {c} : pc'[q] = pc[q]
    BY <2>1, <2>5 DEF TypeOK
  <2>8. /\ replies' \in [Peers -> Seq(Replies)]
        /\ call' \in [Peers -> Requests \cup {NoCall}]
        /\ \A q \in Clients : call'[q].op # "Stop"
        /\ \A q \in Peers \ {c} : call'[q] = call[q]
        /\ during' \in [Peers -> SUBSET (Values \cup {Absent})]
        /\ sure' \in [Peers -> BOOLEAN]
    BY <2>1, <1>15 DEF TypeOK, Receive, NoCall, Peers
  <2> QED BY <2>1, <2>6, <2>7, <2>8, <1>15 DEF TypeOK, Receive
<1>16. ASSUME NEW p \in Stoppers, ReceiveStop(p) PROVE TypeOK'
  <2>1. /\ p \in Peers /\ replies[p] \in Seq(Replies) /\ replies[p] # <<>>
        /\ Tail(replies[p]) \in Seq(Replies)
    BY <1>16, HeadTailMsgs DEF ReceiveStop, TypeOK, Peers
  <2> QED BY <2>1, <1>16 DEF TypeOK, ReceiveStop, NoCall
<1>17. ASSUME NEW p \in Peers, Leave(p) PROVE TypeOK'
  <2>1. <<>> \in Seq(Requests) /\ <<>> \in Seq(Replies)
    BY EmptySeq
  <2> QED BY <2>1, <1>17 DEF TypeOK, Leave, NoCall
<1>18. ASSUME NEW p \in Peers, DiscardReply(p) PROVE TypeOK'
  <2>1. /\ replies[p] \in Seq(Replies) /\ replies[p] # <<>>
        /\ Tail(replies[p]) \in Seq(Replies)
    BY <1>18, HeadTailMsgs DEF DiscardReply, TypeOK
  <2> QED BY <2>1, <1>18 DEF TypeOK, DiscardReply
<1>19. ASSUME NEW p \in Peers, Resend(p) PROVE TypeOK'
  <2>1. call[p] \in Requests /\ pipe[p] \in Seq(Requests)
    BY <1>19 DEF Resend, TypeOK
  <2>2. Append(pipe[p], call[p]) \in Seq(Requests)
    BY <2>1, AppendMsgs
  <2>3. resends' \in 0..MaxResends
    BY <1>19, BoundsAssumption DEF Resend, TypeOK
  <2> QED BY <2>2, <2>3, <1>19 DEF Resend, TypeOK
<1>20. ASSUME NEW p \in Peers, Reconnect(p) PROVE TypeOK'
  <2>1. pc[p] = "waiting" => call[p] \in Requests /\ pipe[p] \in Seq(Requests)
    BY DEF TypeOK
  <2>2. pc[p] = "waiting" => Append(pipe[p], call[p]) \in Seq(Requests)
    BY <2>1, AppendMsgs
  <2> QED BY <2>2, <1>20 DEF Reconnect, TypeOK
<1>21. CASE UNCHANGED vars
  BY <1>21 DEF TypeOK, vars
<1> QED
  BY <1>1, <1>2, <1>3, <1>4, <1>5, <1>6, <1>7, <1>8, <1>9, <1>10, <1>11, <1>12, <1>13,
     <1>14, <1>15, <1>16, <1>17, <1>18, <1>19, <1>20, <1>21
     DEF Next, Primary, Client, Socket, Close, OperationFails, Killed

(* Every variable of MRSW keeps to its type, for all clients and bounds. *)
THEOREM TypeCorrect == Spec => []TypeOK
  BY TypesInit, TypesNext, PTL DEF Spec

-----------------------------------------------------------------------------
(* The inductive invariant *)

LEMMA InvInit == Init => Inv
<1> SUFFICES ASSUME Init PROVE Inv
  OBVIOUS
<1>1. TypeOK
  BY TypesInit
<1>2. PeersInv
  BY <1>1 DEF Init, PeersInv, NoCall, Peers
<1>3. RequestsInv
  BY NoMsgs DEF Init, RequestsInv, NoCall, NoJob, Peers
<1>4. RepliesInv
  BY NoMsgs DEF Init, RepliesInv, Peers
<1>5. DataInv
  BY DEF Init, DataInv, Peers
<1>6. AnswersInv
  BY DEF Init, AnswersInv
<1>7. PutsInv
  BY NoMsgs DEF Init, PutsInv
<1> QED BY <1>1, <1>2, <1>3, <1>4, <1>5, <1>6, <1>7 DEF Inv

(* What sending a request does to its sender, and to no one else *)
Sends(p, op, k, v) ==
  /\ pc' = [pc EXCEPT ![p] = "waiting"] /\ pc'[p] = "waiting"
  /\ calls[p] \in Nat /\ calls'[p] = calls[p] + 1
  /\ call'[p] = [id |-> calls[p] + 1, op |-> op, key |-> k, val |-> v]
  /\ call'[p].op = op /\ call'[p] # NoCall
  /\ \A q \in Peers \ {p} :
       pc'[q] = pc[q] /\ calls'[q] = calls[q] /\ call'[q] = call[q]

LEMMA RequestSends ==
  ASSUME TypeOK, NEW p \in Peers, NEW op, NEW k, NEW v, Request(p, op, k, v), op # "idle"
  PROVE  Sends(p, op, k, v)
  BY DEF TypeOK, Request, NoCall, Sends

LEMMA PeersNext ==
  ASSUME TypeOK, PeersInv, RepliesInv, [Next]_vars
  PROVE  PeersInv'
<1> USE DEF primaryVars, wireVars, peerVars, historyVars
<1>1. CASE /\ UNCHANGED <<pc, call, calls, dials>>
           /\ created => created'
           /\ primary' # "off" => created'
  BY <1>1 DEF PeersInv
<1>2. ASSUME NEW p \in Peers, Dial(p) PROVE PeersInv'
  BY <1>2 DEF Dial, PeersInv, TypeOK, Serving, Peers
<1>3. ASSUME NEW p \in Peers, DialRefused(p) PROVE PeersInv'
  BY <1>3, BoundsAssumption DEF DialRefused, PeersInv, TypeOK, Peers
<1>4. ASSUME NEW c \in Clients, OpenSecondary(c) PROVE PeersInv'
  BY <1>4, PeersAssumption DEF OpenSecondary, PeersInv, TypeOK, Peers
<1>5. ASSUME NEW c \in Clients, NEW op \in {"Get", "Contains"}, NEW k \in Keys,
             AnswerLocally(c, op, k)
      PROVE  PeersInv'
  BY <1>5 DEF AnswerLocally, PeersInv, TypeOK, Peers
<1>6. ASSUME NEW p \in Peers, NEW op, NEW k, NEW v, Request(p, op, k, v),
             op # "idle", p \in Stoppers => op = "Stop",
             UNCHANGED <<primary, created, dials>>
      PROVE  PeersInv'
  <2>1. Sends(p, op, k, v)
    BY <1>6, RequestSends
  <2> QED BY <2>1, <1>6 DEF PeersInv, Peers, Sends
<1>7. ASSUME NEW c \in Clients, Receive(c) PROVE PeersInv'
  <2>1. Head(replies[c]).kind = KindOf[call[c].op]
    BY <1>7, HeadTailMsgs DEF Receive, RepliesInv, TypeOK, Peers
  <2> QED BY <2>1, <1>7, PeersAssumption DEF Receive, PeersInv, TypeOK, Peers
<1>8. ASSUME NEW p \in Stoppers, ReceiveStop(p) PROVE PeersInv'
  <2>1. Head(replies[p]).kind = KindOf[call[p].op]
    BY <1>8, HeadTailMsgs DEF ReceiveStop, RepliesInv, TypeOK, Peers
  <2>2. call[p].op = "Stop"
    BY <1>8 DEF ReceiveStop, PeersInv, TypeOK, Peers, NoCall, Requests
  <2>3. Head(replies[p]).kind = "SuccessStop"
    BY <2>1, <2>2 DEF KindOf
  <2> QED BY <2>3, <1>8, PeersAssumption DEF ReceiveStop, PeersInv, TypeOK, Peers, NoCall
<1>9. ASSUME NEW p \in Peers, Leave(p) PROVE PeersInv'
  BY <1>9 DEF Leave, PeersInv, TypeOK, Peers, NoCall
<1> QED
  BY <1>1, <1>2, <1>3, <1>4, <1>5, <1>6, <1>7, <1>8, <1>9, PeersAssumption
     DEF Next, Primary, Client, Socket, Close, OperationFails, Killed, Gone, Open, Listen,
         Recv, Apply, Reply, ReplyStop, AskPrimary, Put, Stop, DiscardReply, Resend,
         Reconnect, vars, PeersInv, Serving, Peers

(* The step is not a call that goes to the primary. *)
NoRequest ==
  /\ \A c \in Clients : \A k \in Keys :
       /\ \A op \in {"Get", "Contains"} : ~AskPrimary(c, op, k)
       /\ \A v \in Writable[k] : ~Put(c, k, v)
  /\ \A p \in Stoppers : ~Stop(p)

(* A step that sends no request: requests disappear or move on, no peer *)
(* starts to wait, the request being served is dropped or kept.         *)
Quiet ==
  /\ \A p \in Peers :
       /\ pc'[p] = "waiting" => pc[p] = "waiting" /\ call'[p] = call[p]
       /\ call'[p] \in {call[p], NoCall}
       /\ calls[p] <= calls'[p]
       /\ Msgs(pipe'[p]) \subseteq Msgs(pipe[p])
  /\ asked' = asked
  /\ job' # NoJob => job # NoJob /\ job'.from = job.from /\ job'.msg = job.msg

LEMMA QuietSteps ==
  ASSUME TypeOK, PeersInv, [Next]_vars,
         \A p \in Peers : ~Recv(p) /\ ~Resend(p) /\ ~Reconnect(p), NoRequest
  PROVE  Quiet
<1> USE DEF primaryVars, wireVars, peerVars, historyVars
<1>0. \A p \in Peers : calls[p] \in Nat
  BY DEF TypeOK
<1>1. CASE Open \/ Listen \/ Reply \/ ReplyStop
  BY <1>0, <1>1 DEF Open, Listen, Reply, ReplyStop, Quiet
<1>2. CASE Apply
  BY <1>0, <1>2 DEF Apply, Quiet, TypeOK
<1>3. ASSUME NEW lost \in SUBSET Peers, Gone(lost) PROVE Quiet
  BY <1>0, <1>3, NoMsgs DEF Gone, Quiet
<1>4. ASSUME NEW p \in Peers, Dial(p) \/ DialRefused(p) PROVE Quiet
  BY <1>0, <1>4 DEF Dial, DialRefused, Quiet, TypeOK
<1>5. ASSUME NEW c \in Clients, OpenSecondary(c) PROVE Quiet
  BY <1>0, <1>5 DEF OpenSecondary, Quiet, TypeOK, Peers
<1>6. ASSUME NEW c \in Clients, NEW op \in {"Get", "Contains"}, NEW k \in Keys,
             AnswerLocally(c, op, k)
      PROVE  Quiet
  BY <1>0, <1>6 DEF AnswerLocally, Quiet, TypeOK, Peers
<1>7. ASSUME NEW c \in Clients, Receive(c) PROVE Quiet
  <2>1. /\ \E s \in {"ready", "failed"} : pc' = [pc EXCEPT ![c] = s]
        /\ call' = [call EXCEPT ![c] = NoCall]
        /\ UNCHANGED <<calls, pipe, asked, job>>
    BY <1>7 DEF Receive
  <2> QED BY <1>0, <2>1 DEF Quiet, TypeOK, Peers
<1>8. ASSUME NEW p \in Stoppers, ReceiveStop(p) PROVE Quiet
  BY <1>0, <1>8 DEF ReceiveStop, Quiet, TypeOK, Peers
<1>9. ASSUME NEW p \in Peers, Leave(p) PROVE Quiet
  BY <1>0, <1>9, NoMsgs DEF Leave, Quiet, TypeOK, Peers
<1>10. ASSUME NEW p \in Peers, DiscardReply(p) PROVE Quiet
  BY <1>0, <1>10 DEF DiscardReply, Quiet
<1>11. CASE UNCHANGED vars
  BY <1>0, <1>11 DEF vars, Quiet
<1> QED
  BY <1>1, <1>2, <1>3, <1>4, <1>5, <1>6, <1>7, <1>8, <1>9, <1>10, <1>11
     DEF Next, Primary, Client, Socket, Close, OperationFails, Killed, NoRequest

LEMMA RequestsNext ==
  ASSUME TypeOK, PeersInv, RequestsInv, [Next]_vars
  PROVE  RequestsInv'
<1> USE DEF primaryVars, wireVars, peerVars, historyVars
<1>0. TypeOK' /\ \A p \in Peers : \A m \in Msgs(pipe[p]) : m \in Requests
  BY TypesNext, MsgsTyped DEF TypeOK
<1>1. CASE Quiet
  <2>1. ASSUME NEW p \in Peers, NEW m \in Requests, SentBy(p, m) PROVE SentBy(p, m)'
    BY <1>0, <1>1, <2>1 DEF Quiet, SentBy, TypeOK, Requests
  <2>2. \A p \in Peers : \A m \in Msgs(pipe[p])' : SentBy(p, m)'
    BY <1>0, <1>1, <2>1 DEF Quiet, RequestsInv
  <2>3. (job # NoJob => SentBy(job.from, job.msg))'
    BY <1>1, <2>1 DEF Quiet, RequestsInv, TypeOK, Jobs
  <2>4. (\A p \in Peers : call[p].op = "Put" => <<call[p].key, call[p].val>> \in asked)'
    BY <1>1 DEF Quiet, RequestsInv, NoCall
  <2> QED BY <2>2, <2>3, <2>4, <1>1 DEF Quiet, RequestsInv
<1>2. ASSUME NEW p \in Peers, Recv(p) PROVE RequestsInv'
  <2>1. pipe[p] \in Seq(Requests) /\ pipe[p] # <<>>
    BY <1>2 DEF Recv, TypeOK
  <2>2. Head(pipe[p]) \in Msgs(pipe[p]) /\ Msgs(Tail(pipe[p])) \subseteq Msgs(pipe[p])
    BY <2>1, HeadTailMsgs
  <2>3. \A q \in Peers : Msgs(pipe'[q]) \subseteq Msgs(pipe[q])
    BY <2>2, <1>2 DEF Recv, TypeOK
  <2>4. SentBy(p, Head(pipe[p]))
    BY <2>2 DEF RequestsInv
  <2> QED BY <2>3, <2>4, <1>2 DEF Recv, RequestsInv, SentBy
<1>3. ASSUME NEW p \in Peers, pc[p] = "waiting",
             pipe' = [pipe EXCEPT ![p] = Append(@, call[p])],
             UNCHANGED <<job, pc, calls, call, asked>>
      PROVE  RequestsInv'
  <2>1. pipe[p] \in Seq(Requests) /\ call[p] \in Requests
    BY <1>3 DEF TypeOK
  <2>2. Msgs(Append(pipe[p], call[p])) = Msgs(pipe[p]) \cup {call[p]}
    BY <2>1, AppendMsgs
  <2>3. SentBy(p, call[p])
    BY <1>3, <2>1 DEF SentBy, PeersInv, RequestsInv, TypeOK, Requests
  <2>4. \A q \in Peers : \A m \in Msgs(pipe'[q]) : m \in Msgs(pipe[q]) \/ (q = p /\ m = call[p])
    <3>1. pipe'[p] = Append(pipe[p], call[p]) /\ \A q \in Peers \ {p} : pipe'[q] = pipe[q]
      BY <1>3 DEF TypeOK
    <3>2. Msgs(pipe'[p]) = Msgs(pipe[p]) \cup {call[p]}
      BY <2>2, <3>1, Zenon
    <3>3. \A q \in Peers \ {p} : Msgs(pipe'[q]) = Msgs(pipe[q])
      BY <3>1, Zenon
    <3> QED BY <3>2, <3>3
  <2> QED BY <2>3, <2>4, <1>3 DEF RequestsInv, SentBy
<1>4. ASSUME NEW p \in Peers, Reconnect(p), pc[p] # "waiting" PROVE RequestsInv'
  BY <1>4 DEF Reconnect, RequestsInv, SentBy
<1>5. ASSUME NEW p \in Peers, NEW op, NEW k, NEW v, Request(p, op, k, v),
             op # "idle", op = "Put" => <<k, v>> \in asked' /\ v \in Writable[k],
             pc[p] # "waiting",
             asked \subseteq asked', \A w \in asked' : w[2] \in Writable[w[1]],
             job' = job
      PROVE  RequestsInv'
  <2>1. Sends(p, op, k, v)
    BY <1>5, RequestSends
  <2> PICK m \in Requests : m = [id |-> calls[p] + 1, op |-> op, key |-> k, val |-> v]
    BY <2>1, <1>0 DEF Sends, TypeOK
  <2>2. call'[p] = m /\ m.id = calls'[p] /\ m.op = op /\ m.key = k /\ m.val = v
    BY <2>1 DEF Sends
  <2>3. SentBy(p, m)'
    BY <2>1, <2>2, <1>5 DEF Sends, SentBy, Requests
  <2>4. ASSUME NEW q \in Peers, NEW n \in Requests, SentBy(q, n) PROVE SentBy(q, n)'
    BY <2>1, <2>4, <1>5 DEF Sends, SentBy, Requests
  <2>5. \A q \in Peers : \A n \in Msgs(pipe'[q]) : n \in Msgs(pipe[q]) \/ (q = p /\ n = m)
    <3>1. pipe' = pipe \/ pipe' = [pipe EXCEPT ![p] = Append(pipe[p], m)]
      BY <1>5 DEF Request
    <3>2. CASE pipe' = pipe
      BY <3>2
    <3>3. CASE pipe' = [pipe EXCEPT ![p] = Append(pipe[p], m)]
      <4>1. pipe'[p] = Append(pipe[p], m) /\ \A q \in Peers \ {p} : pipe'[q] = pipe[q]
        BY <3>3 DEF TypeOK
      <4>2. Msgs(Append(pipe[p], m)) = Msgs(pipe[p]) \cup {m}
        BY AppendMsgs DEF TypeOK
      <4>3. Msgs(pipe'[p]) = Msgs(pipe[p]) \cup {m}
        BY <4>1, <4>2, Zenon
      <4>4. \A q \in Peers \ {p} : Msgs(pipe'[q]) = Msgs(pipe[q])
        BY <4>1, Zenon
      <4> QED BY <4>3, <4>4
    <3> QED BY <3>1, <3>2, <3>3
  <2>6. \A q \in Peers : \A n \in Msgs(pipe[q])' : SentBy(q, n)'
    <3> SUFFICES ASSUME NEW q \in Peers, NEW n, n \in Msgs(pipe[q])' PROVE SentBy(q, n)'
      OBVIOUS
    <3>1. n \in Msgs(pipe[q]) \/ (q = p /\ n = m)
      BY <2>5
    <3> QED BY <1>0, <2>3, <2>4, <3>1 DEF RequestsInv
  <2>7. (job # NoJob => SentBy(job.from, job.msg))'
    BY <1>5, <2>4 DEF RequestsInv, TypeOK, Jobs
  <2>8. (\A q \in Peers : call[q].op = "Put" => <<call[q].key, call[q].val>> \in asked)'
    BY <1>5, <2>1, <2>2 DEF Sends, RequestsInv
  <2> QED BY <2>6, <2>7, <2>8, <1>5 DEF RequestsInv
<1>6. ASSUME NEW c \in Clients, NEW op \in {"Get", "Contains"}, NEW k \in Keys,
             AskPrimary(c, op, k)
      PROVE  RequestsInv'
  BY <1>5, <1>6 DEF AskPrimary, RequestsInv, Peers
<1>7. ASSUME NEW c \in Clients, NEW k \in Keys, NEW v \in Writable[k], Put(c, k, v)
      PROVE  RequestsInv'
  <2>1. <<k, v>>[1] = k /\ <<k, v>>[2] = v /\ asked' = asked \cup {<<k, v>>}
    BY <1>7 DEF Put
  <2>2. <<k, v>> \in asked' /\ \A w \in asked' : w[2] \in Writable[w[1]]
    BY <2>1 DEF RequestsInv
  <2>3. asked \subseteq asked' /\ job' = job /\ Request(c, "Put", k, v) /\ pc[c] # "waiting"
    BY <2>1, <1>7 DEF Put
  <2> QED BY <2>2, <2>3, <1>5 DEF Peers
<1>8. ASSUME NEW p \in Stoppers, Stop(p) PROVE RequestsInv'
  BY <1>5, <1>8 DEF Stop, RequestsInv, Peers
<1>9. ASSUME NEW p \in Peers, Resend(p) \/ Reconnect(p) PROVE RequestsInv'
  BY <1>3, <1>4, <1>9 DEF Resend, Reconnect
<1> QED
  BY <1>1, <1>2, <1>6, <1>7, <1>8, <1>9, QuietSteps DEF NoRequest

(* A step in which no peer starts to wait, and the calls go on. *)
Steady ==
  \A p \in Peers :
    /\ calls[p] <= calls'[p]
    /\ pc'[p] = "waiting" =>
         pc[p] = "waiting" /\ call'[p] = call[p] /\ during[p] \subseteq during'[p]

LEMMA TruthfulSteady ==
  ASSUME NEW p \in Peers, NEW body, Truthful(p, body),
         call'[p] = call[p], during[p] \subseteq during'[p]
  PROVE  Truthful(p, body)'
<1>1. CASE call[p].op = "Get"
  BY <1>1 DEF Truthful
<1>2. CASE call[p].op = "Contains"
  BY <1>2 DEF Truthful
<1>3. CASE call[p].op = "Put"
  BY <1>3 DEF Truthful
<1>4. CASE call[p].op \notin {"Get", "Contains", "Put"}
  BY <1>4 DEF Truthful
<1> QED BY <1>1, <1>2, <1>3, <1>4

(* What Apply does, one variable at a time *)
LEMMA ApplyEffect ==
  ASSUME TypeOK, Apply
  PROVE  /\ job \in Jobs /\ job'.from = job.from /\ job'.msg = job.msg
         /\ job'.body = BodyOf(job.msg)
         /\ UNCHANGED <<pc, calls, call, replies, local, known, sure, answer, asked>>
         /\ \A k \in Keys : db'[k] = IF job.msg.op = "Put" /\ k = job.msg.key
                                     THEN job.msg.val ELSE db[k]
         /\ \A p \in Peers : during'[p] =
              IF job.msg.op = "Put" /\ call[p] # NoCall /\ call[p].key = job.msg.key
              THEN during[p] \cup {job.msg.val} ELSE during[p]
<1> USE DEF primaryVars, wireVars, peerVars, historyVars
<1>1. job \in Jobs
  BY DEF TypeOK, Apply
<1>2. CASE job.msg.op = "Put"
  BY <1>1, <1>2 DEF Apply, TypeOK
<1>3. CASE job.msg.op # "Put"
  BY <1>1, <1>3 DEF Apply, TypeOK
<1> QED BY <1>2, <1>3

(* The body computed for a request is the truth about the call it answers. *)
LEMMA BodyTruthful ==
  ASSUME NeverEmpty, TypeOK, PeersInv, RequestsInv, DataInv, Apply,
         NEW p \in Peers, p = job.from, pc[p] = "waiting", job.msg.id = call[p].id
  PROVE  Truthful(p, job.body)'
<1>1. job # NoJob
  BY DEF Apply, TypeOK
<1>2. job.msg = call[p] /\ call[p] \in Requests
  BY <1>1 DEF RequestsInv, SentBy, TypeOK
<1>3. call'[p] = call[p] /\ job'.body = BodyOf(call[p]) /\ call[p] # NoCall
  BY <1>2, ApplyEffect DEF TypeOK
<1>4. CASE call[p].op = "Get"
  <2>1. p \in Clients /\ call[p].key \in Keys
    BY <1>2, <1>4 DEF PeersInv, Peers, Requests
  <2>2. db[call[p].key] \in during[p] /\ db[call[p].key] # Empty
    BY <2>1, EmptyAssumption, ValuesAssumption DEF DataInv, NeverEmpty
  <2>3. during'[p] = during[p]
    BY <1>2, <1>4, ApplyEffect
  <2>4. job'.body = IF db[call[p].key] = Absent THEN Empty ELSE db[call[p].key]
    BY <1>3, <1>4 DEF BodyOf, Lookup
  <2> QED BY <1>3, <1>4, <2>2, <2>3, <2>4 DEF Truthful
<1>5. CASE call[p].op = "Contains"
  <2>1. p \in Clients /\ call[p].key \in Keys
    BY <1>2, <1>5 DEF PeersInv, Peers, Requests
  <2>2. db[call[p].key] \in during[p] /\ during'[p] = during[p]
    BY <1>2, <1>5, <2>1, ApplyEffect DEF DataInv
  <2>3. job'.body = (db[call[p].key] # Absent)
    BY <1>3, <1>5 DEF BodyOf
  <2> QED BY <1>3, <1>5, <2>2, <2>3 DEF Truthful
<1>6. CASE call[p].op = "Put"
  <2>1. call[p].val \in during'[p]
    BY <1>2, <1>3, <1>6, ApplyEffect
  <2>2. job'.body = TRUE
    BY <1>3, <1>6 DEF BodyOf
  <2> QED BY <1>3, <1>6, <2>1, <2>2 DEF Truthful
<1>7. CASE call[p].op = "Stop"
  BY <1>3, <1>7 DEF Truthful, BodyOf
<1> QED BY <1>2, <1>4, <1>5, <1>6, <1>7 DEF Requests

LEMMA SteadySteps ==
  ASSUME TypeOK, [Next]_vars, NoRequest
  PROVE  Steady
<1> USE DEF primaryVars, wireVars, peerVars, historyVars
<1>0. \A p \in Peers : calls[p] \in Nat
  BY DEF TypeOK
<1>1. CASE UNCHANGED <<pc, calls, call, during>>
  BY <1>0, <1>1 DEF Steady
<1>2. CASE Apply
  <2>1. /\ UNCHANGED <<pc, calls, call>>
        /\ \A p \in Peers : during[p] \subseteq during'[p]
    BY <1>2, ApplyEffect
  <2> QED BY <1>0, <2>1 DEF Steady
<1>3. ASSUME NEW p \in Peers, Dial(p) \/ DialRefused(p) PROVE Steady
  BY <1>0, <1>3 DEF Dial, DialRefused, Steady, TypeOK
<1>4. ASSUME NEW c \in Clients, OpenSecondary(c) PROVE Steady
  BY <1>0, <1>4 DEF OpenSecondary, Steady, TypeOK, Peers
<1>5. ASSUME NEW c \in Clients, NEW op \in {"Get", "Contains"}, NEW k \in Keys,
             AnswerLocally(c, op, k)
      PROVE  Steady
  BY <1>0, <1>5 DEF AnswerLocally, Steady, TypeOK, Peers
<1>6. ASSUME NEW c \in Clients, Receive(c) PROVE Steady
  <2>1. /\ \E s \in {"ready", "failed"} : pc' = [pc EXCEPT ![c] = s]
        /\ call' = [call EXCEPT ![c] = NoCall] /\ during' = [during EXCEPT ![c] = {}]
        /\ calls' = calls
    BY <1>6 DEF Receive
  <2> QED BY <1>0, <2>1 DEF Steady, TypeOK, Peers
<1>7. ASSUME NEW p \in Stoppers, ReceiveStop(p) PROVE Steady
  BY <1>0, <1>7 DEF ReceiveStop, Steady, TypeOK, Peers
<1>8. ASSUME NEW p \in Peers, Leave(p) PROVE Steady
  BY <1>0, <1>8 DEF Leave, Steady, TypeOK, Peers
<1> QED
  BY <1>1, <1>2, <1>3, <1>4, <1>5, <1>6, <1>7, <1>8
     DEF Next, Primary, Client, Socket, Close, OperationFails, Killed, Gone, Open, Listen,
         Recv, Reply, ReplyStop, DiscardReply, Resend, Reconnect, vars, Peers, NoRequest

(* A reply that may be on its way to p *)
Credible(p, r) ==
  /\ r.id <= calls[p]
  /\ pc[p] = "waiting" /\ r.id = call[p].id =>
       r.kind = KindOf[call[p].op] /\ Truthful(p, r.body)

LEMMA CredibleSteady ==
  ASSUME TypeOK, Steady, NEW p \in Peers, NEW r \in Replies, Credible(p, r), TypeOK'
  PROVE  Credible(p, r)'
<1>1. r.id <= calls'[p]
  BY DEF Steady, Credible, TypeOK, Replies
<1>2. ASSUME pc'[p] = "waiting", r.id = call'[p].id
      PROVE  r.kind = KindOf[call'[p].op] /\ Truthful(p, r.body)'
  <2>1. pc[p] = "waiting" /\ call'[p] = call[p] /\ during[p] \subseteq during'[p]
    BY <1>2 DEF Steady
  <2>2. r.kind = KindOf[call[p].op] /\ Truthful(p, r.body)
    BY <1>2, <2>1 DEF Credible
  <2> QED BY <2>1, <2>2, TruthfulSteady
<1> QED BY <1>1, <1>2 DEF Credible

LEMMA RepliesShrink ==
  ASSUME TypeOK, [Next]_vars, NoRequest, ~Apply, ~Reply, ~ReplyStop
  PROVE  /\ \A p \in Peers : Msgs(replies'[p]) \subseteq Msgs(replies[p])
         /\ primary' = "replying" => primary = "replying" /\ job' = job
<1> USE DEF primaryVars, wireVars, peerVars, historyVars
<1>1. CASE replies' = replies /\ (UNCHANGED <<primary, job>> \/ primary' # "replying")
  BY <1>1
<1>2. ASSUME NEW p \in Peers, replies[p] # <<>>, replies' = [replies EXCEPT ![p] = Tail(@)],
             UNCHANGED <<primary, job>>
      PROVE  /\ \A q \in Peers : Msgs(replies'[q]) \subseteq Msgs(replies[q])
             /\ primary' = "replying" => primary = "replying" /\ job' = job
  <2>1. Msgs(Tail(replies[p])) \subseteq Msgs(replies[p])
    BY <1>2, HeadTailMsgs DEF TypeOK
  <2>2. replies'[p] = Tail(replies[p]) /\ \A q \in Peers \ {p} : replies'[q] = replies[q]
    BY <1>2 DEF TypeOK
  <2>3. Msgs(replies'[p]) \subseteq Msgs(replies[p])
    BY <2>1, <2>2, Zenon
  <2>4. \A q \in Peers \ {p} : Msgs(replies'[q]) = Msgs(replies[q])
    BY <2>2, Zenon
  <2> QED BY <1>2, <2>3, <2>4
<1>3. ASSUME NEW lost \in SUBSET Peers, Gone(lost)
      PROVE  /\ \A q \in Peers : Msgs(replies'[q]) \subseteq Msgs(replies[q])
             /\ primary' # "replying"
  BY <1>3, NoMsgs DEF Gone
<1>4. ASSUME NEW p \in Peers, Leave(p)
      PROVE  /\ \A q \in Peers : Msgs(replies'[q]) \subseteq Msgs(replies[q])
             /\ UNCHANGED <<primary, job>>
  BY <1>4, NoMsgs DEF Leave, TypeOK
<1>5. ASSUME NEW p \in Peers,
             \/ p \in Clients /\ Receive(p)
             \/ p \in Stoppers /\ ReceiveStop(p)
             \/ DiscardReply(p)
      PROVE  replies[p] # <<>> /\ replies' = [replies EXCEPT ![p] = Tail(@)] /\
             UNCHANGED <<primary, job>>
  BY <1>5 DEF Receive, ReceiveStop, DiscardReply
<1>6. CASE \E p \in Peers : DiscardReply(p)
  BY <1>2, <1>5, <1>6
<1>7. CASE \E p \in Clients : Receive(p)
  BY <1>2, <1>5, <1>7 DEF Peers
<1>8. CASE \E p \in Stoppers : ReceiveStop(p)
  BY <1>2, <1>5, <1>8 DEF Peers
<1> QED
  BY <1>1, <1>3, <1>4, <1>6, <1>7, <1>8
     DEF Next, Primary, Client, Socket, Close, OperationFails, Killed, NoRequest, Open,
         Listen, Recv, Dial, DialRefused, OpenSecondary, AnswerLocally, Resend, Reconnect,
         vars

LEMMA RepliesNext ==
  ASSUME NeverEmpty, TypeOK, PeersInv, RequestsInv, RepliesInv, DataInv, [Next]_vars
  PROVE  RepliesInv'
<1> USE DEF primaryVars, wireVars, peerVars, historyVars
<1>0. /\ TypeOK'
      /\ \A p \in Peers : \A r \in Msgs(replies[p]) : r \in Replies /\ Credible(p, r)
  BY TypesNext, MsgsTyped DEF TypeOK, RepliesInv, Credible
<1>1. ASSUME Steady,
             \A p \in Peers : Msgs(replies'[p]) \subseteq Msgs(replies[p]),
             primary' = "replying" => primary = "replying" /\ job' = job
      PROVE  RepliesInv'
  <2>1. \A p \in Peers : \A r \in Msgs(replies[p])' : Credible(p, r)'
    BY <1>0, <1>1, CredibleSteady
  <2>2. ASSUME primary' = "replying", pc'[job.from] = "waiting",
               job.msg.id = call'[job.from].id
        PROVE  Truthful(job.from, job.body)'
    <3>1. job \in Jobs /\ job' = job
      BY <1>1, <2>2 DEF TypeOK
    <3>2. /\ pc[job.from] = "waiting" /\ call'[job.from] = call[job.from]
          /\ during[job.from] \subseteq during'[job.from] /\ job.from \in Peers
      BY <3>1, <2>2, <1>1 DEF Steady, Jobs
    <3>3. Truthful(job.from, job.body)
      BY <3>2, <2>2, <1>1 DEF RepliesInv
    <3> PICK p \in Peers, b \in Values \cup BOOLEAN : p = job.from /\ b = job.body
      BY <3>1 DEF Jobs
    <3>4. Truthful(p, b)'
      BY <3>2, <3>3, TruthfulSteady
    <3> QED BY <3>1, <3>4
  <2> QED BY <2>1, <2>2, <1>1 DEF RepliesInv, Credible
<1>2. CASE Apply
  <2>1. Steady
    <3>1. /\ UNCHANGED <<pc, calls, call>>
          /\ \A p \in Peers : during[p] \subseteq during'[p] /\ calls[p] \in Nat
      BY <1>2, ApplyEffect DEF TypeOK
    <3> QED BY <3>1 DEF Steady
  <2>2. \A p \in Peers : \A r \in Msgs(replies[p])' : Credible(p, r)'
    BY <1>0, <1>2, <2>1, ApplyEffect, CredibleSteady
  <2>3. (pc[job.from] = "waiting" /\ job.msg.id = call[job.from].id =>
           Truthful(job.from, job.body))'
    <3> PICK p \in Peers : p = job.from
      BY <1>2, ApplyEffect DEF Jobs
    <3>1. job'.from = p /\ job'.msg = job.msg /\ pc' = pc /\ call' = call
      BY <1>2, ApplyEffect
    <3>2. pc[p] = "waiting" /\ job.msg.id = call[p].id => Truthful(p, job.body)'
      BY <1>2, BodyTruthful
    <3> QED BY <3>1, <3>2
  <2> QED BY <2>2, <2>3 DEF RepliesInv, Credible
<1>3. CASE Reply \/ ReplyStop
  <2>1. Steady /\ primary' # "replying" /\ replies' = Delivered /\ primary = "replying"
    BY <1>3 DEF Reply, ReplyStop, Steady, TypeOK
  <2>2. job # NoJob
    BY <2>1 DEF TypeOK
  <2> PICK p \in Peers, r \in Replies : p = job.from /\ r = ReplyOf(job)
    BY <2>2, ReplyTyped
  <2>3. SentBy(p, job.msg) /\ job.msg \in Requests
    BY <2>2 DEF RequestsInv, TypeOK, Jobs
  <2>4. r.id = job.msg.id /\ r.kind = KindOf[job.msg.op] /\ r.body = job.body
    BY DEF ReplyOf
  <2>5. Credible(p, r)
    BY <2>1, <2>3, <2>4 DEF Credible, SentBy, RepliesInv
  <2>6. \A q \in Peers : \A n \in Msgs(replies'[q]) : n \in Msgs(replies[q]) \/ (q = p /\ n = r)
    <3>1. CASE replies' = replies
      BY <3>1
    <3>2. CASE replies' = [replies EXCEPT ![p] = Append(replies[p], r)]
      <4>1. /\ replies'[p] = Append(replies[p], r)
            /\ \A q \in Peers \ {p} : replies'[q] = replies[q]
        BY <3>2 DEF TypeOK
      <4>2. Msgs(Append(replies[p], r)) = Msgs(replies[p]) \cup {r}
        BY AppendMsgs DEF TypeOK
      <4>3. Msgs(replies'[p]) = Msgs(replies[p]) \cup {r}
        BY <4>1, <4>2, Zenon
      <4>4. \A q \in Peers \ {p} : Msgs(replies'[q]) = Msgs(replies[q])
        BY <4>1, Zenon
      <4> QED BY <4>3, <4>4
    <3> QED BY <2>1, <3>1, <3>2 DEF Delivered
  <2>7. \A q \in Peers : \A n \in Msgs(replies[q])' : n \in Replies /\ Credible(q, n)
    BY <1>0, <2>5, <2>6
  <2>8. \A q \in Peers : \A n \in Msgs(replies[q])' : Credible(q, n)'
    BY <1>0, <2>1, <2>7, CredibleSteady
  <2> QED BY <2>1, <2>8 DEF RepliesInv, Credible
<1>4. ASSUME NEW p \in Peers, NEW op, NEW k, NEW v, Request(p, op, k, v), op # "idle",
             \A q \in Peers \ {p} : during'[q] = during[q],
             UNCHANGED <<replies, job, primary>>
      PROVE  RepliesInv'
  <2>1. Sends(p, op, k, v)
    BY <1>4, RequestSends
  <2>2. \A r \in Replies : Credible(p, r) => Credible(p, r)'
    BY <2>1 DEF Sends, Credible, Replies
  <2>3. ASSUME NEW q \in Peers \ {p}, NEW r \in Replies, Credible(q, r) PROVE Credible(q, r)'
    BY <2>1, <2>3, <1>4, TruthfulSteady DEF Sends, Credible
  <2>4. \A q \in Peers : \A r \in Msgs(replies[q])' : Credible(q, r)'
    BY <1>0, <1>4, <2>2, <2>3
  <2>5. ASSUME primary = "replying"
        PROVE  (pc[job.from] = "waiting" /\ job.msg.id = call[job.from].id =>
                  Truthful(job.from, job.body))'
    <3>1. job # NoJob /\ job \in Jobs
      BY <2>5 DEF TypeOK
    <3> PICK q \in Peers, b \in Values \cup BOOLEAN : q = job.from /\ b = job.body
      BY <3>1 DEF Jobs
    <3>2. job.msg.id \in Nat /\ job.msg.id <= calls[q]
      BY <3>1 DEF RequestsInv, SentBy, Jobs, Requests
    <3>3. CASE q = p
      <4>1. call'[p].id = calls[p] + 1 /\ calls[p] \in Nat /\ job' = job
        BY <2>1, <1>4 DEF Sends
      <4>2. job.msg.id # call'[p].id
        BY <4>1, <3>2, <3>3
      <4> QED BY <4>1, <4>2, <3>3
    <3>4. CASE q # p
      BY <3>4, <2>1, <2>5, <1>4, TruthfulSteady DEF Sends, RepliesInv
    <3> QED BY <3>3, <3>4
  <2> QED BY <2>4, <2>5, <1>4 DEF RepliesInv, Credible
<1>5. ASSUME NEW c \in Clients, NEW op \in {"Get", "Contains"}, NEW k \in Keys,
             AskPrimary(c, op, k)
      PROVE  RepliesInv'
  <2>1. /\ c \in Peers /\ Request(c, op, k, Absent) /\ UNCHANGED <<replies, job, primary>>
        /\ \A q \in Peers \ {c} : during'[q] = during[q]
    BY <1>5 DEF AskPrimary, Begins, Peers, TypeOK
  <2> QED BY <2>1, <1>4
<1>6. ASSUME NEW c \in Clients, NEW k \in Keys, NEW v \in Writable[k], Put(c, k, v)
      PROVE  RepliesInv'
  <2>1. /\ c \in Peers /\ Request(c, "Put", k, v) /\ UNCHANGED <<replies, job, primary>>
        /\ \A q \in Peers \ {c} : during'[q] = during[q]
    BY <1>6 DEF Put, Begins, Peers, TypeOK
  <2> QED BY <2>1, <1>4
<1>7. ASSUME NEW p \in Stoppers, Stop(p) PROVE RepliesInv'
  <2>1. /\ p \in Peers /\ Request(p, "Stop", Absent, Absent)
        /\ UNCHANGED <<replies, job, primary, during>>
    BY <1>7 DEF Stop, Peers
  <2> QED BY <2>1, <1>4
<1>8. CASE NoRequest
  BY <1>1, <1>2, <1>3, <1>8, SteadySteps, RepliesShrink
<1> QED BY <1>5, <1>6, <1>7, <1>8 DEF NoRequest

(* What the caller is told, when the reply is a credible one *)
LEMMA Told ==
  ASSUME TypeOK, PeersInv, RequestsInv, RepliesInv, DataInv, NEW c \in Clients, Receive(c)
  PROVE  /\ call[c] \in Requests /\ call[c].key \in Keys
         /\ AnswerFresh(answer'[c])
         /\ answer'[c].op = "Put" => answer'[c].res = TRUE
         /\ answer'[c].sure = sure[c] /\ answer'[c].during = during[c]
         /\ \A d \in Clients \ {c} : answer'[d] = answer[d]
         /\ \A k \in known' \ known : k = call[c].key /\ db[k] # Absent
<1> DEFINE r == Head(replies[c])
           m == call[c]
<1>1. /\ c \in Peers /\ pc[c] = "waiting" /\ r \in Msgs(replies[c]) /\ r.id = m.id /\ r \in Replies
  BY HeadTailMsgs DEF Receive, TypeOK, Peers
<1>2. r.kind = KindOf[m.op] /\ Truthful(c, r.body)
  BY <1>1 DEF RepliesInv
<1>3. m \in Requests /\ m.op \in {"Get", "Contains", "Put"} /\ m.key \in Keys
  BY <1>1 DEF TypeOK, Requests
<1>4. /\ answer'[c] = [op |-> m.op, key |-> m.key, val |-> m.val, during |-> during[c],
                       sure |-> sure[c], res |-> Outcome(r)]
      /\ \A d \in Clients \ {c} : answer'[d] = answer[d]
      /\ known' = IF Outcome(r) \in {FALSE, Absent} THEN known ELSE known \cup {m.key}
  BY DEF Receive, TypeOK
<1>5. /\ r.kind = "SuccessGet" <=> m.op = "Get"
      /\ Outcome(r) = IF m.op = "Get" /\ r.body = Empty THEN Absent ELSE r.body
  BY <1>2, <1>3 DEF KindOf, Outcome
<1>6. db[m.key] = Absent => during[c] = {Absent}
  BY <1>1 DEF DataInv
<1> HIDE DEF r, m
<1>7. /\ AnswerFresh(answer'[c])
      /\ m.op = "Put" => Outcome(r) = TRUE
      /\ Outcome(r) \notin {FALSE, Absent} => db[m.key] # Absent
  <2>0. answer'[c].op = m.op /\ answer'[c].res = Outcome(r) /\ answer'[c].val = m.val
        /\ answer'[c].during = during[c]
    BY <1>4
  <2>1. CASE m.op = "Get"
    <3>1. Outcome(r) \in during[c]
      BY <1>2, <1>5, <2>1 DEF Truthful, m
    <3>2. AnswerFresh(answer'[c])
      BY <2>0, <2>1, <3>1 DEF AnswerFresh
    <3> QED BY <1>6, <2>1, <3>1, <3>2
  <2>2. CASE m.op = "Contains"
    <3>1. Outcome(r) = r.body /\ r.body \in {x # Absent : x \in during[c]}
      BY <1>2, <1>5, <2>2 DEF Truthful, m
    <3>2. AnswerFresh(answer'[c])
      BY <2>0, <2>2, <3>1 DEF AnswerFresh
    <3>3. r.body \notin {FALSE, Absent} => db[m.key] # Absent
      BY <1>6, <3>1
    <3> QED BY <2>2, <3>1, <3>2, <3>3
  <2>3. CASE m.op = "Put"
    <3>1. Outcome(r) = TRUE /\ m.val \in during[c]
      BY <1>2, <1>5, <2>3 DEF Truthful, m
    <3>2. m.val # Absent
      BY <1>3, <2>3, ValuesAssumption DEF Requests
    <3>3. AnswerFresh(answer'[c])
      BY <2>0, <2>3, <3>1 DEF AnswerFresh
    <3> QED BY <1>6, <3>1, <3>2, <3>3
  <2> QED BY <1>3, <2>1, <2>2, <2>3
<1>8. \A k \in known' \ known : k = m.key /\ db[k] # Absent
  BY <1>4, <1>7
<1>9. /\ answer'[c].op = m.op /\ answer'[c].res = Outcome(r)
      /\ answer'[c].sure = sure[c] /\ answer'[c].during = during[c]
  BY <1>4
<1> QED BY <1>3, <1>4, <1>7, <1>8, <1>9 DEF m

LEMMA DataNext ==
  ASSUME TypeOK, PeersInv, RequestsInv, RepliesInv, DataInv, [Next]_vars
  PROVE  DataInv'
<1> USE DEF primaryVars, wireVars, peerVars, historyVars
<1>1. CASE Apply
  <2>1. job # NoJob /\ job \in Jobs
    BY <1>1 DEF Apply, TypeOK
  <2>2. job.msg.op = "Put" =>
          /\ job.msg.key \in Keys /\ job.msg.val \in Writable[job.msg.key]
          /\ job.msg.val # Absent
    <3>1. job.msg.op = "Put" => <<job.msg.key, job.msg.val>> \in asked
      BY <2>1 DEF RequestsInv, SentBy
    <3> QED BY <2>1, <3>1, ValuesAssumption DEF RequestsInv, Jobs, Requests
  <2>3. \A k \in Keys : db'[k] \in Writable[k] \cup {Absent} /\ (db[k] # Absent => db'[k] # Absent)
    BY <1>1, <2>2, ApplyEffect DEF DataInv
  <2>4. ASSUME NEW c \in Clients, pc'[c] = "waiting"
        PROVE  /\ db'[call'[c].key] \in during'[c]
               /\ db'[call'[c].key] = Absent => during'[c] = {Absent}
               /\ sure'[c] => Absent \notin during'[c]
    <3>1. c \in Peers /\ pc[c] = "waiting" /\ call' = call /\ sure' = sure
      BY <1>1, <2>4, ApplyEffect DEF Peers
    <3>2. call[c] # NoCall /\ call[c].key \in Keys
      BY <3>1 DEF TypeOK, Requests
    <3>3. CASE job.msg.op = "Put" /\ call[c].key = job.msg.key
      <4>1. during'[c] = during[c] \cup {job.msg.val} /\ db'[call[c].key] = job.msg.val
        BY <1>1, <3>1, <3>2, <3>3, ApplyEffect
      <4> QED BY <2>2, <3>1, <3>3, <4>1 DEF DataInv
    <3>4. CASE ~(job.msg.op = "Put" /\ call[c].key = job.msg.key)
      <4>1. during'[c] = during[c] /\ db'[call[c].key] = db[call[c].key]
        BY <1>1, <3>1, <3>2, <3>4, ApplyEffect
      <4> QED BY <3>1, <4>1 DEF DataInv
    <3> QED BY <3>3, <3>4
  <2>5. local' = local /\ known' = known
    BY <1>1, ApplyEffect
  <2>6. \A k \in known : k \in Keys
    BY DEF TypeOK
  <2> QED BY <2>3, <2>4, <2>5, <2>6 DEF DataInv
<1>2. ASSUME UNCHANGED <<db, local, known>>,
             \A c \in Clients : pc'[c] = "waiting" =>
               pc[c] = "waiting" /\ call'[c] = call[c] /\ during'[c] = during[c] /\ sure'[c] = sure[c]
      PROVE  DataInv'
  BY <1>2 DEF DataInv
<1>3. ASSUME NEW c \in Clients, OpenSecondary(c) PROVE DataInv'
  BY <1>3 DEF OpenSecondary, DataInv, TypeOK, Peers
<1>4. ASSUME NEW c \in Clients, NEW op \in {"Get", "Contains"}, NEW k \in Keys,
             AnswerLocally(c, op, k)
      PROVE  DataInv'
  BY <1>4 DEF AnswerLocally, DataInv
<1>5. ASSUME NEW c \in Clients, Receive(c) PROVE DataInv'
  <2>1. \A k \in known' : db[k] # Absent
    BY <1>5, Told DEF DataInv
  <2>2. /\ UNCHANGED <<db, local>>
        /\ pc'[c] # "waiting"
        /\ \A d \in Clients \ {c} : pc'[d] = pc[d] /\ call'[d] = call[d] /\ during'[d] = during[d]
                                   /\ sure'[d] = sure[d]
    BY <1>5 DEF Receive, TypeOK, Peers
  <2> QED BY <2>1, <2>2 DEF DataInv
<1>6. ASSUME NEW c \in Clients, NEW k \in Keys, NEW op, NEW v, Request(c, op, k, v), op # "idle",
             Begins(c, k), UNCHANGED <<db, local>>
      PROVE  DataInv'
  <2>1. Sends(c, op, k, v)
    BY <1>6, RequestSends DEF Peers
  <2>2. /\ pc'[c] = "waiting" /\ call'[c].key = k
        /\ \A d \in Clients \ {c} : pc'[d] = pc[d] /\ call'[d] = call[d]
    BY <2>1 DEF Sends, Peers
  <2>3. /\ during'[c] = {db[k]} /\ sure'[c] = (k \in known) /\ known' = known
        /\ \A d \in Clients \ {c} : during'[d] = during[d] /\ sure'[d] = sure[d]
    BY <1>6 DEF Begins, TypeOK, Peers
  <2>4. k \in known => db[k] # Absent
    BY DEF DataInv
  <2>5. \A d \in Clients \ {c} : pc'[d] = "waiting" =>
          /\ db[call'[d].key] \in during'[d]
          /\ db[call'[d].key] = Absent => during'[d] = {Absent}
          /\ sure'[d] => Absent \notin during'[d]
    BY <2>2, <2>3 DEF DataInv
  <2>6. /\ db[call'[c].key] \in during'[c]
        /\ db[call'[c].key] = Absent => during'[c] = {Absent}
        /\ sure'[c] => Absent \notin during'[c]
    BY <2>2, <2>3, <2>4
  <2> QED BY <2>3, <2>5, <2>6, <1>6 DEF DataInv
<1>7. ASSUME NEW p \in Stoppers, Stop(p) PROVE DataInv'
  <2>1. Sends(p, "Stop", Absent, Absent) /\ p \notin Clients
    BY <1>7, RequestSends, PeersAssumption DEF Stop, Peers
  <2>2. UNCHANGED <<db, local, known, during, sure>>
    BY <1>7 DEF Stop
  <2> QED BY <1>2, <2>1, <2>2 DEF Sends, Peers
<1>8. ASSUME NEW p \in Peers, Dial(p) \/ DialRefused(p) PROVE DataInv'
  BY <1>2, <1>8 DEF Dial, DialRefused, TypeOK, Peers
<1>9. ASSUME NEW p \in Stoppers, ReceiveStop(p) PROVE DataInv'
  BY <1>2, <1>9, PeersAssumption DEF ReceiveStop, TypeOK, Peers
<1>10. ASSUME NEW p \in Peers, Leave(p) PROVE DataInv'
  BY <1>2, <1>10 DEF Leave, TypeOK, Peers
<1>11. CASE UNCHANGED <<db, local, known, pc, call, during, sure>>
  BY <1>11 DEF DataInv
<1>12. ASSUME NEW c \in Clients, NEW op \in {"Get", "Contains"}, NEW k \in Keys, AskPrimary(c, op, k)
       PROVE  DataInv'
  BY <1>6, <1>12 DEF AskPrimary
<1>13. ASSUME NEW c \in Clients, NEW k \in Keys, NEW v \in Writable[k], Put(c, k, v) PROVE DataInv'
  BY <1>6, <1>13 DEF Put
<1> QED
  BY <1>1, <1>3, <1>4, <1>5, <1>7, <1>8, <1>9, <1>10, <1>11, <1>12, <1>13
     DEF Next, Primary, Client, Socket, Close, OperationFails, Killed, Gone, Open, Listen,
         Recv, Reply, ReplyStop, DiscardReply, Resend, Reconnect, vars

(* A put is carried out before its caller goes on, and values stay. *)
LEMMA ValuesStay ==
  ASSUME TypeOK, RequestsInv, [Next]_vars
  PROVE  \A k \in Keys : db[k] # Absent => db'[k] # Absent
<1> USE DEF primaryVars, wireVars, peerVars, historyVars
<1>1. CASE Apply
  <2>1. job # NoJob /\ job \in Jobs
    BY <1>1 DEF Apply, TypeOK
  <2>2. job.msg.op = "Put" => job.msg.val # Absent
    BY <2>1, ValuesAssumption DEF Jobs, Requests
  <2> QED BY <1>1, <2>2, ApplyEffect
<1>2. CASE db' = db
  BY <1>2
<1> QED
  BY <1>1, <1>2
     DEF Next, Primary, Client, Socket, Close, OperationFails, Killed, Gone, Open, Listen,
         Recv, Reply, ReplyStop, Dial, DialRefused, OpenSecondary, AnswerLocally,
         AskPrimary, Put, Receive, Stop, ReceiveStop, Leave, DiscardReply, Resend, Reconnect,
         vars

(* A caller leaves its call only by taking the reply or by being killed. *)
LEMMA CallersStay ==
  ASSUME TypeOK, [Next]_vars, NEW p \in Peers,
         ~(p \in Clients /\ Receive(p)), ~(p \in Stoppers /\ ReceiveStop(p))
  PROVE  /\ pc[p] = "gone" => pc'[p] = "gone"
         /\ pc[p] = "waiting" => pc'[p] = "gone" \/ (pc'[p] = "waiting" /\ call'[p] = call[p])
<1> USE DEF primaryVars, wireVars, peerVars, historyVars
<1> DEFINE Stays == /\ pc[p] = "gone" => pc'[p] = "gone"
                    /\ pc[p] = "waiting" =>
                         pc'[p] = "gone" \/ (pc'[p] = "waiting" /\ call'[p] = call[p])
<1>1. CASE UNCHANGED <<pc, call>>
  BY <1>1
<1>2. ASSUME NEW q \in Peers, Dial(q) \/ DialRefused(q) \/ Leave(q) PROVE Stays
  BY <1>2 DEF Dial, DialRefused, Leave, TypeOK
<1>3. ASSUME NEW c \in Clients, OpenSecondary(c) PROVE Stays
  BY <1>3 DEF OpenSecondary, TypeOK, Peers
<1>4. ASSUME NEW q \in Peers, NEW op, NEW k, NEW v, Request(q, op, k, v), op # "idle",
             pc[q] \in {"ready", "connected"}
      PROVE  Stays
  <2>1. Sends(q, op, k, v)
    BY <1>4, RequestSends
  <2> QED BY <2>1, <1>4 DEF Sends
<1>5. ASSUME NEW c \in Clients, NEW op \in {"Get", "Contains"}, NEW k \in Keys, AskPrimary(c, op, k)
      PROVE  Stays
  BY <1>4, <1>5 DEF AskPrimary, Peers
<1>6. ASSUME NEW c \in Clients, NEW k \in Keys, NEW v \in Writable[k], Put(c, k, v) PROVE Stays
  BY <1>4, <1>6 DEF Put, Peers
<1>7. ASSUME NEW q \in Stoppers, Stop(q) PROVE Stays
  BY <1>4, <1>7 DEF Stop, Peers
<1>8. ASSUME NEW c \in Clients, Receive(c) PROVE Stays
  BY <1>8 DEF Receive, TypeOK, Peers
<1>9. ASSUME NEW q \in Stoppers, ReceiveStop(q) PROVE Stays
  BY <1>9 DEF ReceiveStop, TypeOK, Peers
<1> QED
  BY <1>1, <1>2, <1>3, <1>5, <1>6, <1>7, <1>8, <1>9
     DEF Next, Primary, Client, Socket, Close, OperationFails, Killed, Gone, Open, Listen,
         Recv, Apply, Reply, ReplyStop, AnswerLocally, DiscardReply, Resend, Reconnect, vars

LEMMA PutsNext ==
  ASSUME TypeOK, PeersInv, RequestsInv, RepliesInv, DataInv, PutsInv, [Next]_vars
  PROVE  PutsInv'
<1> USE DEF primaryVars, wireVars, peerVars, historyVars
<1>0. /\ TypeOK' /\ RequestsInv' /\ PeersInv'
      /\ \A k \in Keys : db[k] # Absent => db'[k] # Absent
      /\ \A p \in Peers : \A m \in Msgs(pipe[p]) : m \in Requests /\ SentBy(p, m)
      /\ job # NoJob => SentBy(job.from, job.msg)
  BY TypesNext, PeersNext, RequestsNext, ValuesStay, MsgsTyped DEF TypeOK, RequestsInv
(* A request that was settled stays so. *)
<1>1. ASSUME NEW p \in Peers, NEW m \in Requests, SentBy(p, m), Settled(p, m)
      PROVE  Settled(p, m)'
  <2> SUFFICES ASSUME m.op = "Put", pc'[p] # "gone",
                      ~(pc'[p] = "waiting" /\ call'[p].id = m.id), db[m.key] = Absent
               PROVE  FALSE
    <3>1. m.op = "Put" => m.key \in Keys
      BY DEF Requests
    <3> QED BY <1>0, <3>1 DEF Settled
  <2>1. pc[p] = "gone" \/ (pc[p] = "waiting" /\ call[p].id = m.id /\ m = call[p])
    BY <1>1 DEF Settled, SentBy
  <2>2. CASE \E c \in Clients : c = p /\ Receive(c)
    <3>1. /\ call[p].key \in Keys /\ AnswerFresh(answer'[p]) /\ answer'[p].during = during[p]
          /\ pc[p] = "waiting"
      <4>1. p \in Clients /\ Receive(p)
        BY <2>2
      <4>2. /\ call[p].key \in Keys /\ AnswerFresh(answer'[p])
            /\ answer'[p].during = during[p]
        BY <4>1, Told
      <4> QED BY <4>1, <4>2 DEF Receive
    <3>2. answer'[p].op = call[p].op /\ answer'[p].val = call[p].val
      BY <2>2 DEF Receive, TypeOK
    <3>3. m = call[p]
      BY <2>1, <3>1
    <3>4. m.val \in during[p] /\ m.val # Absent
      BY <3>1, <3>2, <3>3, ValuesAssumption DEF AnswerFresh, Requests
    <3> QED BY <2>2, <3>1, <3>3, <3>4 DEF DataInv
  <2>3. CASE ~\E c \in Clients : c = p /\ Receive(c)
    <3>1. ~(p \in Stoppers /\ pc[p] = "waiting")
      BY <2>1 DEF PeersInv
    <3>2. ~(p \in Stoppers /\ ReceiveStop(p))
      BY <3>1 DEF ReceiveStop
    <3> QED BY <2>1, <2>3, <3>2, CallersStay
  <2> QED BY <2>2, <2>3
<1>2. ASSUME \A p \in Peers : \A m \in Msgs(pipe'[p]) :
               m \in Msgs(pipe[p]) \/ (pc'[p] = "waiting" /\ m.id = call'[p].id)
      PROVE  \A p \in Peers : \A m \in Msgs(pipe[p])' : Settled(p, m)'
  BY <1>0, <1>1, <1>2 DEF PutsInv, Settled
<1>3. ASSUME job' # NoJob => job # NoJob /\ job'.from = job.from /\ job'.msg = job.msg
      PROVE  (job # NoJob => Settled(job.from, job.msg))'
  <2> SUFFICES ASSUME job' # NoJob PROVE Settled(job.from, job.msg)'
    OBVIOUS
  <2>1. job # NoJob /\ job'.from = job.from /\ job'.msg = job.msg
    BY <1>3
  <2> PICK p \in Peers, m \in Requests : p = job.from /\ m = job.msg
    BY <2>1 DEF TypeOK, Jobs
  <2>2. Settled(p, m)'
    BY <2>1, <1>0, <1>1 DEF PutsInv
  <2> QED BY <2>1, <2>2
<1>4. CASE Quiet
  BY <1>2, <1>3, <1>4 DEF Quiet, PutsInv
<1>5. ASSUME NEW p \in Peers, Recv(p) PROVE PutsInv'
  <2>1. pipe[p] \in Seq(Requests) /\ pipe[p] # <<>>
    BY <1>5 DEF Recv, TypeOK
  <2>2. Head(pipe[p]) \in Msgs(pipe[p]) /\ Msgs(Tail(pipe[p])) \subseteq Msgs(pipe[p])
    BY <2>1, HeadTailMsgs
  <2>3. \A q \in Peers : Msgs(pipe'[q]) \subseteq Msgs(pipe[q])
    BY <2>2, <1>5 DEF Recv, TypeOK
  <2>4. job'.from = p /\ job'.msg = Head(pipe[p]) /\ UNCHANGED <<pc, call, db>>
    BY <1>5 DEF Recv
  <2> QED BY <2>2, <2>3, <2>4, <1>2 DEF PutsInv, Settled
<1>6. ASSUME NEW p \in Peers, NEW m \in Requests, pc'[p] = "waiting", m.id = call'[p].id,
             pipe' = pipe \/ pipe' = [pipe EXCEPT ![p] = Append(pipe[p], m)], job' = job
      PROVE  PutsInv'
  <2>1. CASE pipe' = pipe
    BY <1>2, <1>3, <1>6, <2>1 DEF PutsInv
  <2>2. CASE pipe' = [pipe EXCEPT ![p] = Append(pipe[p], m)]
    <3>1. pipe'[p] = Append(pipe[p], m) /\ \A q \in Peers \ {p} : pipe'[q] = pipe[q]
      BY <2>2 DEF TypeOK
    <3>2. Msgs(Append(pipe[p], m)) = Msgs(pipe[p]) \cup {m}
      BY AppendMsgs DEF TypeOK
    <3>3. Msgs(pipe'[p]) = Msgs(pipe[p]) \cup {m}
      BY <3>1, <3>2, Zenon
    <3>4. \A q \in Peers \ {p} : Msgs(pipe'[q]) = Msgs(pipe[q])
      BY <3>1, Zenon
    <3> QED BY <3>3, <3>4, <1>2, <1>3, <1>6 DEF PutsInv
  <2> QED BY <1>6, <2>1, <2>2
<1>7. ASSUME NEW p \in Peers, NEW op, NEW k, NEW v, Request(p, op, k, v), op # "idle", job' = job
      PROVE  PutsInv'
  <2>1. Sends(p, op, k, v)
    BY <1>7, RequestSends
  <2> PICK m \in Requests : m = [id |-> calls[p] + 1, op |-> op, key |-> k, val |-> v]
    BY <2>1, <1>0 DEF Sends, TypeOK
  <2>2. pipe' = pipe \/ pipe' = [pipe EXCEPT ![p] = Append(pipe[p], m)]
    BY <1>7 DEF Request
  <2>3. pc'[p] = "waiting" /\ m.id = call'[p].id
    BY <2>1 DEF Sends
  <2> QED BY <2>2, <2>3, <1>6, <1>7
<1>8. ASSUME NEW p \in Peers, Resend(p) \/ Reconnect(p) PROVE PutsInv'
  <2>1. CASE pc[p] = "waiting"
    <3> PICK m \in Requests : m = call[p]
      BY <2>1 DEF TypeOK
    <3> QED BY <1>6, <1>8, <2>1 DEF Resend, Reconnect
  <2>2. CASE pc[p] # "waiting"
    BY <1>2, <1>3, <1>8, <2>2 DEF Resend, Reconnect, PutsInv
  <2> QED BY <2>1, <2>2
<1>9. ASSUME NEW c \in Clients, NEW op \in {"Get", "Contains"}, NEW k \in Keys, AskPrimary(c, op, k)
      PROVE  PutsInv'
  BY <1>7, <1>9 DEF AskPrimary, Peers
<1>10. ASSUME NEW c \in Clients, NEW k \in Keys, NEW v \in Writable[k], Put(c, k, v) PROVE PutsInv'
  BY <1>7, <1>10 DEF Put, Peers
<1>11. ASSUME NEW p \in Stoppers, Stop(p) PROVE PutsInv'
  BY <1>7, <1>11 DEF Stop, Peers
<1> QED
  BY <1>4, <1>5, <1>8, <1>9, <1>10, <1>11, QuietSteps DEF NoRequest

LEMMA AnswersNext ==
  ASSUME WriteOnce, TypeOK, PeersInv, RequestsInv, RepliesInv, DataInv, AnswersInv, [Next]_vars
  PROVE  AnswersInv'
<1> USE DEF primaryVars, wireVars, peerVars, historyVars
<1>1. CASE answer' = answer
  BY <1>1 DEF AnswersInv, AnswerFresh
<1>2. ASSUME NEW c \in Clients, Receive(c) PROVE AnswersInv'
  <2>1. sure[c] => Absent \notin during[c]
    BY <1>2 DEF Receive, DataInv
  <2>2. /\ AnswerFresh(answer'[c])
        /\ answer'[c].op = "Put" => answer'[c].res = TRUE
        /\ answer'[c].sure => Absent \notin answer'[c].during
        /\ \A d \in Clients \ {c} : answer'[d] = answer[d]
    BY <1>2, <2>1, Told
  <2> QED BY <2>2 DEF AnswersInv, AnswerFresh
<1>3. ASSUME NEW c \in Clients, answer' = [answer EXCEPT ![c] = NoCall] PROVE AnswersInv'
  BY <1>3 DEF AnswersInv, AnswerFresh, TypeOK
<1>4. ASSUME NEW c \in Clients, NEW op \in {"Get", "Contains"}, NEW k \in Keys,
             AnswerLocally(c, op, k)
      PROVE  AnswersInv'
  <2>1. local[c][k] = db[k] /\ db[k] # Absent
    BY <1>4 DEF AnswerLocally, DataInv, WriteOnce
  <2>2. /\ answer'[c] = [op |-> op, key |-> k, val |-> Absent, during |-> {db[k]},
                         sure |-> k \in known,
                         res |-> IF op = "Get" THEN local[c][k] ELSE TRUE]
        /\ \A d \in Clients \ {c} : answer'[d] = answer[d]
    BY <1>4 DEF AnswerLocally, TypeOK
  <2>3. AnswerFresh(answer'[c]) /\ answer'[c].op # "Put" /\ Absent \notin answer'[c].during
    <3>1. CASE op = "Get"
      BY <2>1, <2>2, <3>1 DEF AnswerFresh
    <3>2. CASE op = "Contains"
      <4>1. /\ answer'[c].op = "Contains" /\ answer'[c].res = TRUE
            /\ answer'[c].during = {db[k]}
        BY <2>2, <3>2
      <4>2. TRUE \in {x # Absent : x \in answer'[c].during}
        BY <2>1, <4>1
      <4> QED BY <2>1, <4>1, <4>2 DEF AnswerFresh
    <3> QED BY <3>1, <3>2
  <2> QED BY <2>2, <2>3 DEF AnswersInv, AnswerFresh
<1> QED
  BY <1>1, <1>2, <1>3, <1>4
     DEF Next, Primary, Client, Socket, Close, OperationFails, Killed, Gone, Open, Listen,
         Recv, Apply, Reply, ReplyStop, Dial, DialRefused, OpenSecondary, AskPrimary, Put,
         Begins, Stop, ReceiveStop, Leave, DiscardReply, Resend, Reconnect, vars

(* Inv is inductive and holds throughout, in the write-once use of the service. *)
THEOREM InvCorrect ==
  ASSUME WriteOnce, NeverEmpty
  PROVE  Spec => []Inv
<1>1. Inv /\ [Next]_vars => Inv'
  BY TypesNext, PeersNext, RequestsNext, RepliesNext, DataNext, PutsNext,
     AnswersNext
     DEF Inv
<1> QED BY InvInit, <1>1, PTL DEF Spec

(* Every answer, also one given from a snapshot that is never brought up to *)
(* date, is right for some moment of the call.                              *)
THEOREM AnswersFreshCorrect ==
  ASSUME WriteOnce, NeverEmpty
  PROVE  Spec => []AnswersFresh
<1>1. Inv => AnswersFresh
  BY DEF Inv, AnswersInv, AnswersFresh
<1> QED BY InvCorrect, <1>1, PTL

(* An answer that is fresh and whose key was there throughout says so. *)
LEMMA FreshIsFound ==
  ASSUME NEW a \in Answers, AnswerFresh(a), Absent \notin a.during,
         a.op = "Put" => a.res = TRUE
  PROVE  a.res \notin {FALSE, Absent}
<1>1. CASE a.op = "Get"
  <2>1. a.res \in a.during /\ a.during \subseteq Values
    BY <1>1 DEF AnswerFresh, Answers
  <2> QED BY <2>1, ValuesAssumption
<1>2. CASE a.op = "Contains"
  <2>1. a.res \in {x # Absent : x \in a.during}
    BY <1>2 DEF AnswerFresh
  <2>2. a.res = TRUE
    BY <2>1
  <2> QED BY <2>2, ValuesAssumption
<1>3. CASE a.op = "Put"
  BY <1>3, ValuesAssumption
<1> QED BY <1>1, <1>2, <1>3 DEF Answers

LEMMA OverwriteAnswersNext ==
  ASSUME TypeOK, TypeOK', PeersInv, RequestsInv, RepliesInv, DataInv, OverwriteAnswers,
         [Next]_vars
  PROVE  OverwriteAnswers'
<1> USE DEF primaryVars, wireVars, peerVars, historyVars
<1>1. CASE answer' = answer /\ local' = local
           /\ \A c \in Clients : pc'[c] \in {"dialing", "connected"} =>
                                  pc[c] \in {"dialing", "connected"}
  BY <1>1 DEF OverwriteAnswers, AnswerFresh
<1>2. ASSUME NEW c \in Clients, Receive(c) PROVE OverwriteAnswers'
  <2>1. /\ sure[c] => Absent \notin during[c]
        /\ local' = local /\ pc'[c] \in {"ready", "failed"}
        /\ \A d \in Clients \ {c} : pc'[d] = pc[d]
    BY <1>2 DEF Receive, DataInv, TypeOK, Peers
  <2>3. /\ AnswerFresh(answer'[c])
        /\ answer'[c].op = "Put" => answer'[c].res = TRUE
        /\ answer'[c].sure => Absent \notin answer'[c].during
        /\ \A d \in Clients \ {c} : answer'[d] = answer[d]
    BY <1>2, <2>1, Told
  <2>4. answer'[c] \in Answers \cup {NoCall}
    BY DEF TypeOK
  <2>5. answer'[c] # NoCall /\ answer'[c].sure => answer'[c].res \notin {FALSE, Absent}
    BY <2>3, <2>4, FreshIsFound
  <2> QED BY <2>1, <2>3, <2>5 DEF OverwriteAnswers, AnswerFresh
<1>3. ASSUME NEW c \in Clients, answer' = [answer EXCEPT ![c] = NoCall], local' = local,
             pc' = [pc EXCEPT ![c] = "waiting"]
      PROVE  OverwriteAnswers'
  BY <1>3 DEF OverwriteAnswers, AnswerFresh, TypeOK, Peers
<1>4. ASSUME NEW c \in Clients, NEW op \in {"Get", "Contains"}, NEW k \in Keys,
             AnswerLocally(c, op, k)
      PROVE  OverwriteAnswers'
  <2>1. /\ answer'[c] = [op |-> op, key |-> k, val |-> Absent, during |-> {db[k]},
                         sure |-> k \in known,
                         res |-> IF op = "Get" THEN local[c][k] ELSE TRUE]
        /\ \A d \in Clients \ {c} : answer'[d] = answer[d]
        /\ local' = local /\ local[c][k] # Absent
        /\ pc' = pc /\ pc[c] = "ready"
    BY <1>4 DEF AnswerLocally, TypeOK
  <2>2. local[c][k] \in Values
    BY <2>1 DEF TypeOK
  <2>3. answer'[c].op # "Put" /\ answer'[c].key = k
    BY <2>1
  <2>4. answer'[c].res \notin {FALSE, Absent}
    <3>1. answer'[c].res = IF op = "Get" THEN local[c][k] ELSE TRUE
      BY <2>1
    <3>2. Absent # TRUE /\ \A v \in Values : v \notin {FALSE, Absent}
      BY ValuesAssumption
    <3>3. CASE op = "Get"
      BY <2>2, <3>1, <3>2, <3>3
    <3>4. CASE op = "Contains"
      BY <3>1, <3>2, <3>4
    <3> QED BY <3>3, <3>4
  <2> QED BY <2>1, <2>3, <2>4 DEF OverwriteAnswers, AnswerFresh
<1>5. ASSUME NEW c \in Clients, OpenSecondary(c) PROVE OverwriteAnswers'
  <2>1. /\ answer' = answer /\ pc[c] = "connected"
        /\ \A d \in Clients \ {c} : local'[d] = local[d] /\ pc'[d] = pc[d]
    BY <1>5 DEF OpenSecondary, Peers, TypeOK
  <2>2. answer[c] = NoCall
    BY <2>1 DEF OverwriteAnswers
  <2> QED BY <2>1, <2>2 DEF OverwriteAnswers, AnswerFresh
<1>6. ASSUME NEW c \in Clients, NEW k \in Keys,
             \/ \E op \in {"Get", "Contains"} : AskPrimary(c, op, k)
             \/ \E v \in Writable[k] : Put(c, k, v)
      PROVE  OverwriteAnswers'
  BY <1>3, <1>6 DEF AskPrimary, Put, Begins, Request
<1>7. ASSUME NEW p \in Stoppers, Stop(p) PROVE OverwriteAnswers'
  <2>1. /\ answer' = answer /\ local' = local
        /\ pc' = [pc EXCEPT ![p] = "waiting"]
    BY <1>7 DEF Stop, Request
  <2> QED BY <1>1, <2>1 DEF TypeOK, Peers
<1>8. CASE \/ Primary \/ OperationFails \/ Killed \/ UNCHANGED vars
           \/ \E p \in Peers : DiscardReply(p) \/ Resend(p) \/ Reconnect(p)
  <2>1. answer' = answer /\ local' = local /\ pc' = pc
    BY <1>8
       DEF Primary, Close, OperationFails, Killed, Gone, Open, Listen, Recv, Apply, Reply,
           ReplyStop, DiscardReply, Resend, Reconnect, vars
  <2> QED BY <1>1, <2>1
<1>9. ASSUME NEW p \in Peers, Dial(p) \/ DialRefused(p) \/ Leave(p)
      PROVE  OverwriteAnswers'
  <2>1. /\ answer' = answer /\ local' = local
        /\ \A q \in Peers \ {p} : pc'[q] = pc[q]
        /\ pc[p] = "dialing" \/ pc'[p] = "gone"
    <3>1. CASE Dial(p) \/ DialRefused(p)
      BY <3>1 DEF Dial, DialRefused, TypeOK
    <3>2. CASE Leave(p)
      BY <3>2 DEF Leave, TypeOK
    <3> QED BY <1>9, <3>1, <3>2
  <2> QED BY <1>1, <2>1 DEF Peers
<1>10. ASSUME NEW p \in Stoppers, ReceiveStop(p) PROVE OverwriteAnswers'
  <2>1. /\ answer' = answer /\ local' = local
        /\ \A c \in Clients : pc'[c] = pc[c]
    BY <1>10, PeersAssumption DEF ReceiveStop, TypeOK, Peers
  <2> QED BY <1>1, <2>1
<1> QED
  BY <1>2, <1>4, <1>5, <1>6, <1>7, <1>8, <1>9, <1>10 DEF Next, Client, Socket

(* OverwriteInv is inductive, too, and rests on no value being empty only. *)
THEOREM OverwriteCorrect ==
  ASSUME NeverEmpty
  PROVE  Spec => []OverwriteInv
<1>1. Init => OverwriteInv
  BY InvInit DEF Inv, Init, OverwriteInv, OverwriteAnswers
<1>2. OverwriteInv /\ [Next]_vars => OverwriteInv'
  BY TypesNext, PeersNext, RequestsNext, RepliesNext, DataNext, OverwriteAnswersNext
     DEF OverwriteInv
<1> QED BY <1>1, <1>2, PTL DEF Spec

(* Clients that overwrite each other's values still get fresh answers to the  *)
(* calls that go to the primary; only the snapshots grow old.                 *)
THEOREM PrimaryAnswersCorrect ==
  ASSUME NeverEmpty
  PROVE  Spec => []PrimaryAnswersFresh
<1>1. OverwriteInv => PrimaryAnswersFresh
  BY DEF OverwriteInv, OverwriteAnswers, PrimaryAnswersFresh
<1> QED BY OverwriteCorrect, <1>1, PTL

(* A key that some client was told is there is never reported missing by a    *)
(* call begun later, whatever was resent, lost, overwritten or cut by a       *)
(* restart.                                                                   *)
THEOREM KnownKeysCorrect ==
  ASSUME NeverEmpty
  PROVE  Spec => []KnownKeysAreFound
<1>1. OverwriteInv => KnownKeysAreFound
  BY DEF OverwriteInv, OverwriteAnswers, KnownKeysAreFound
<1> QED BY OverwriteCorrect, <1>1, PTL

(* No client ever meets a reply of the wrong kind or a missing database. *)
THEOREM FailsOnlyDialingCorrect ==
  ASSUME NeverEmpty
  PROVE  Spec => []FailsOnlyDialing
<1>1. OverwriteInv => FailsOnlyDialing
  BY DEF OverwriteInv, PeersInv, FailsOnlyDialing
<1> QED BY OverwriteCorrect, <1>1, PTL

(* The second copy of a put that nng sent twice, or that a restarted primary *)
(* is sent again, changes nothing once its caller has gone on.              *)
THEOREM LatePutsCorrect ==
  ASSUME WriteOnce, NeverEmpty
  PROVE  Spec => LatePutsAreHarmless
<1>1. ASSUME Inv, [Next]_vars, db' # db
      PROVE  \/ pc[job.from] = "gone"
             \/ pc[job.from] = "waiting" /\ call[job.from].id = job.msg.id
  <2>1. Apply /\ job.msg.op = "Put"
    BY <1>1
       DEF Next, Primary, Client, Socket, Close, OperationFails, Killed, Gone, Open, Listen,
           Recv, Apply, Reply, ReplyStop, Dial, DialRefused, OpenSecondary, AnswerLocally,
           AskPrimary, Put, Receive, Stop, ReceiveStop, Leave, DiscardReply, Resend,
           Reconnect, vars, primaryVars
  <2>2. job # NoJob /\ job \in Jobs /\ db \in [Keys -> Values \cup {Absent}]
    BY <1>1, <2>1 DEF Inv, TypeOK, Apply
  <2>3. job.msg.key \in Keys /\ job.msg.val \in Writable[job.msg.key]
    <3>1. <<job.msg.key, job.msg.val>> \in asked
      BY <1>1, <2>1, <2>2 DEF Inv, RequestsInv, SentBy
    <3> QED BY <1>1, <2>1, <2>2, <3>1 DEF Inv, RequestsInv, Jobs, Requests
  <2>4. db' = [db EXCEPT ![job.msg.key] = job.msg.val]
    BY <2>1 DEF Apply
  <2>5. db[job.msg.key] # job.msg.val
    BY <1>1, <2>2, <2>3, <2>4
  <2>6. db[job.msg.key] = Absent
    BY <1>1, <2>3, <2>5 DEF Inv, DataInv, WriteOnce
  <2> QED BY <1>1, <2>1, <2>2, <2>6 DEF Inv, PutsInv, Settled
<1> QED BY InvCorrect, <1>1, PTL DEF Spec, LatePutsAreHarmless

-----------------------------------------------------------------------------
(* MRSW implements MapService *)

LEMMA ServiceInit == Init => Service!Init
  BY DEF Init, Service!Init, Service!Idle, CallAsSeen, AnswerAsSeen, NoCall, Peers

(* Nothing a client can see changes. *)
Unseen ==
  /\ UNCHANGED <<db, asked, answer>>
  /\ \A c \in Clients : call'[c] = call[c] /\ during'[c] = during[c]

LEMMA UnseenStutters ==
  ASSUME Unseen
  PROVE  UNCHANGED Service!vars
  BY DEF Unseen, Service!vars, CallAsSeen, AnswerAsSeen

LEMMA ServiceWrite ==
  ASSUME TypeOK, RequestsInv, Apply
  PROVE  [Service!Next]_Service!vars
<1>1. job # NoJob /\ job \in Jobs
  BY DEF Apply, TypeOK
<1>2. CASE job.msg.op = "Put"
  <2>1. job.msg.key \in Keys /\ job.msg.val \in Values /\ <<job.msg.key, job.msg.val>> \in asked
    BY <1>1, <1>2 DEF RequestsInv, SentBy, Jobs, Requests
  <2> PICK k \in Keys, v \in Values : k = job.msg.key /\ v = job.msg.val
    BY <2>1
  <2>2. Service!Write(k, v)
    <3>1. db' = [db EXCEPT ![job.msg.key] = job.msg.val]
      BY <1>2 DEF Apply
    <3>2. UNCHANGED <<asked, [c \in Clients |-> CallAsSeen(c)], [c \in Clients |-> AnswerAsSeen(c)]>>
      BY ApplyEffect DEF CallAsSeen, AnswerAsSeen
    <3>3. \A c \in Clients : during'[c] =
             IF CallAsSeen(c) # [op |-> "idle"] /\ CallAsSeen(c).key = job.msg.key
             THEN during[c] \cup {job.msg.val} ELSE during[c]
      <4> SUFFICES ASSUME NEW c \in Clients
                   PROVE  during'[c] =
                            IF CallAsSeen(c) # [op |-> "idle"] /\ CallAsSeen(c).key = job.msg.key
                            THEN during[c] \cup {job.msg.val} ELSE during[c]
        OBVIOUS
      <4>1. c \in Peers /\ call[c] \in Requests \cup {NoCall}
        BY DEF Peers, TypeOK
      <4>2. CASE call[c] = NoCall
        BY <4>1, <4>2, <1>2, ApplyEffect DEF CallAsSeen
      <4>3. CASE call[c] # NoCall
        <5>1. CallAsSeen(c).op # "idle" /\ CallAsSeen(c).key = call[c].key
          BY <4>1, <4>3 DEF CallAsSeen, Requests
        <5> QED BY <4>1, <4>3, <5>1, <1>2, ApplyEffect
      <4> QED BY <4>2, <4>3
    <3> QED BY <2>1, <3>1, <3>2, <3>3 DEF Service!Write, Service!Idle
  <2> QED BY <2>1, <2>2 DEF Service!Next
<1>3. CASE job.msg.op # "Put"
  <2>1. UNCHANGED <<db, during, asked, call, answer>>
    BY <1>3 DEF Apply, peerVars
  <2> QED BY <2>1, UnseenStutters DEF Unseen
<1> QED BY <1>2, <1>3

LEMMA ServiceBegin ==
  ASSUME TypeOK, NEW c \in Clients, pc[c] = "ready", PeersInv,
         NEW op, NEW k \in Keys, NEW v,
         (op \in {"Get", "Contains"} /\ v = Absent) \/ (op = "Put" /\ v \in Values),
         Request(c, op, k, v), Begins(c, k), db' = db,
         asked' = asked \cup (IF op = "Put" THEN {<<k, v>>} ELSE {})
  PROVE  Service!Begin(c)
<1> DEFINE n == [op |-> op, key |-> k, val |-> v]
<1>1. Sends(c, op, k, v) /\ c \in Peers
  BY RequestSends DEF Peers
<1>2. n \in Service!Calls
  BY DEF Service!Calls
<1>3. call[c] = NoCall
  BY <1>1 DEF PeersInv
<1>4. [d \in Clients |-> CallAsSeen(d)]' = [[d \in Clients |-> CallAsSeen(d)] EXCEPT ![c] = n]
  <2>1. \A d \in Clients \ {c} : call'[d] = call[d]
    BY <1>1 DEF Sends, Peers
  <2>2. CallAsSeen(c)' = n
    BY <1>1 DEF Sends, CallAsSeen
  <2>3. \A d \in Clients \ {c} : CallAsSeen(d)' = CallAsSeen(d)
    BY <2>1 DEF CallAsSeen
  <2> QED BY <2>2, <2>3
<1>5. [d \in Clients |-> during[d]]' = [[d \in Clients |-> during[d]] EXCEPT ![c] = {db[k]}]
  BY <1>1 DEF Begins, TypeOK, Peers
<1>6. [d \in Clients |-> AnswerAsSeen(d)]' =
        [[d \in Clients |-> AnswerAsSeen(d)] EXCEPT ![c] = [op |-> "idle"]]
  BY DEF Begins, TypeOK, AnswerAsSeen
<1>7. CallAsSeen(c) = [op |-> "idle"]
  BY <1>3 DEF CallAsSeen
<1> QED BY <1>2, <1>4, <1>5, <1>6, <1>7 DEF Service!Begin, Service!Idle

LEMMA ServiceEnd ==
  ASSUME Inv, NEW c \in Clients, Receive(c)
  PROVE  Service!End(c)
<1> DEFINE m == call[c]
<1>0. TypeOK /\ PeersInv /\ RequestsInv /\ RepliesInv /\ DataInv
  BY DEF Inv
<1>1. /\ m \in Requests /\ m.op \in {"Get", "Contains", "Put"} /\ m # NoCall
      /\ AnswerFresh(answer'[c])
      /\ answer'[c].op = "Put" => answer'[c].res = TRUE
      /\ answer'[c].during = during[c]
      /\ \A d \in Clients \ {c} : answer'[d] = answer[d]
  BY <1>0, Told DEF Receive, TypeOK, Requests, Peers
<1>2. /\ answer'[c].op = m.op /\ answer'[c].key = m.key /\ answer'[c].val = m.val
      /\ answer'[c] # NoCall
  BY <1>0, <1>1 DEF Receive, TypeOK, NoCall
<1>3. CallAsSeen(c) = [op |-> m.op, key |-> m.key, val |-> m.val] /\ CallAsSeen(c).op # "idle"
  BY <1>1 DEF CallAsSeen
<1>4. AnswerAsSeen(c)' = [op |-> m.op, key |-> m.key, res |-> answer'[c].res]
  BY <1>2 DEF AnswerAsSeen
<1>5. answer'[c].res \in Service!Outcomes(m.op, m.val, during[c])
  <2>1. CASE m.op = "Get"
    BY <1>1, <1>2, <2>1 DEF Service!Outcomes, AnswerFresh
  <2>2. CASE m.op = "Contains"
    BY <1>1, <1>2, <2>2 DEF Service!Outcomes, AnswerFresh
  <2>3. CASE m.op = "Put"
    BY <1>1, <1>2, <2>3 DEF Service!Outcomes, AnswerFresh
  <2> QED BY <1>1, <2>1, <2>2, <2>3
<1>6. [d \in Clients |-> CallAsSeen(d)]' =
        [[d \in Clients |-> CallAsSeen(d)] EXCEPT ![c] = [op |-> "idle"]]
  <2>1. call'[c] = NoCall /\ \A d \in Clients \ {c} : call'[d] = call[d]
    BY <1>0 DEF Receive, TypeOK, Peers
  <2> QED BY <2>1 DEF CallAsSeen
<1>7. [d \in Clients |-> during[d]]' = [[d \in Clients |-> during[d]] EXCEPT ![c] = {}]
  BY <1>0 DEF Receive, TypeOK, Peers
<1>8. [d \in Clients |-> AnswerAsSeen(d)]' =
        [[d \in Clients |-> AnswerAsSeen(d)] EXCEPT ![c] =
           [op |-> m.op, key |-> m.key, res |-> answer'[c].res]]
  BY <1>1, <1>4 DEF AnswerAsSeen
<1>9. db' = db /\ asked' = asked
  BY DEF Receive, primaryVars
<1>10. [d \in Clients |-> CallAsSeen(d)][c] = CallAsSeen(c) /\ [d \in Clients |-> during[d]][c] = during[c]
  OBVIOUS
<1> HIDE DEF m
<1> PICK r \in Service!Outcomes(m.op, m.val, during[c]) : r = answer'[c].res
  BY <1>5
<1>11. CallAsSeen(c).op = m.op /\ CallAsSeen(c).key = m.key /\ CallAsSeen(c).val = m.val
       /\ CallAsSeen(c) # [op |-> "idle"]
  BY <1>3
<1>12. \E x \in Service!Outcomes(CallAsSeen(c).op, CallAsSeen(c).val, during[c]) :
          [d \in Clients |-> AnswerAsSeen(d)]' =
            [[d \in Clients |-> AnswerAsSeen(d)] EXCEPT ![c] =
               [op |-> CallAsSeen(c).op, key |-> CallAsSeen(c).key, res |-> x]]
  BY <1>8, <1>11
<1> QED
  BY <1>6, <1>7, <1>9, <1>10, <1>11, <1>12 DEF Service!End, Service!Idle

LEMMA ServiceInstant ==
  ASSUME WriteOnce, TypeOK, DataInv, NEW c \in Clients, NEW op \in {"Get", "Contains"}, NEW k \in Keys,
         AnswerLocally(c, op, k), PeersInv
  PROVE  Service!Instant(c)
<1>1. local[c][k] = db[k] /\ db[k] # Absent
  BY DEF AnswerLocally, DataInv, WriteOnce
<1>2. call[c] = NoCall
  BY DEF AnswerLocally, PeersInv, Peers
<1> DEFINE r == IF op = "Get" THEN local[c][k] ELSE TRUE
<1>3. r \in Service!Outcomes(op, Absent, {db[k]})
  <2>1. CASE op = "Get"
    BY <1>1, <2>1 DEF Service!Outcomes
  <2>2. CASE op = "Contains"
    <3>1. TRUE \in {x # Absent : x \in {db[k]}}
      BY <1>1
    <3> QED BY <2>2, <3>1 DEF Service!Outcomes
  <2> QED BY <2>1, <2>2
<1>4. [d \in Clients |-> AnswerAsSeen(d)]' =
        [[d \in Clients |-> AnswerAsSeen(d)] EXCEPT ![c] = [op |-> op, key |-> k, res |-> r]]
  <2>1. /\ answer'[c].op = op /\ answer'[c].key = k /\ answer'[c].res = r
        /\ \A d \in Clients \ {c} : answer'[d] = answer[d]
    BY DEF AnswerLocally, TypeOK
  <2>2. AnswerAsSeen(c)' = [op |-> op, key |-> k, res |-> r]
    BY <2>1 DEF AnswerAsSeen, NoCall
  <2> QED BY <2>1, <2>2 DEF AnswerAsSeen
<1>5. /\ UNCHANGED <<db, asked, [d \in Clients |-> during[d]]>>
      /\ UNCHANGED [d \in Clients |-> CallAsSeen(d)]
  BY DEF AnswerLocally, primaryVars, CallAsSeen
<1>6. CallAsSeen(c) = [op |-> "idle"]
  BY <1>2 DEF CallAsSeen
<1> HIDE DEF r
<1> QED BY <1>3, <1>4, <1>5, <1>6 DEF Service!Instant, Service!Idle

LEMMA ServiceLeave ==
  ASSUME TypeOK, NEW c \in Clients, Leave(c)
  PROVE  Service!Leave(c)
<1>1. [d \in Clients |-> CallAsSeen(d)]' =
        [[d \in Clients |-> CallAsSeen(d)] EXCEPT ![c] = [op |-> "idle"]]
  <2>1. call'[c] = NoCall /\ \A d \in Clients \ {c} : call'[d] = call[d]
    BY DEF Leave, TypeOK, Peers
  <2> QED BY <2>1 DEF CallAsSeen
<1>2. [d \in Clients |-> during[d]]' = [[d \in Clients |-> during[d]] EXCEPT ![c] = {}]
  BY DEF Leave, TypeOK, Peers
<1>3. UNCHANGED <<db, asked, [d \in Clients |-> AnswerAsSeen(d)]>>
  BY DEF Leave, primaryVars, AnswerAsSeen
<1> QED BY <1>1, <1>2, <1>3 DEF Service!Leave, Service!Idle

LEMMA ServiceNext ==
  ASSUME WriteOnce, Inv, [Next]_vars
  PROVE  [Service!Next]_Service!vars
<1> USE DEF primaryVars, wireVars, peerVars, historyVars
<1>0. TypeOK /\ PeersInv /\ RequestsInv /\ RepliesInv /\ DataInv
  BY DEF Inv
<1>1. CASE Apply
  BY <1>0, <1>1, ServiceWrite
<1>2. ASSUME NEW c \in Clients, NEW op \in {"Get", "Contains"}, NEW k \in Keys, AskPrimary(c, op, k)
      PROVE  Service!Next
  <2>1. Service!Begin(c)
    BY <1>0, <1>2, ServiceBegin DEF AskPrimary
  <2> QED BY <2>1 DEF Service!Next
<1>3. ASSUME NEW c \in Clients, NEW k \in Keys, NEW v \in Writable[k], Put(c, k, v)
      PROVE  Service!Next
  <2>1. v \in Values
    BY WritableAssumption
  <2>2. Service!Begin(c)
    BY <1>0, <1>3, <2>1, ServiceBegin DEF Put
  <2> QED BY <2>2 DEF Service!Next
<1>4. ASSUME NEW c \in Clients, Receive(c) PROVE Service!Next
  BY <1>4, ServiceEnd DEF Service!Next
<1>5. ASSUME NEW c \in Clients, NEW op \in {"Get", "Contains"}, NEW k \in Keys, AnswerLocally(c, op, k)
      PROVE  Service!Next
  BY <1>0, <1>5, ServiceInstant DEF Service!Next
<1>6. ASSUME NEW c \in Clients, Leave(c) PROVE Service!Next
  BY <1>0, <1>6, ServiceLeave DEF Service!Next
<1>7. CASE Unseen
  BY <1>7, UnseenStutters
<1>8. ASSUME NEW p \in Stoppers, Stop(p) \/ ReceiveStop(p) \/ Leave(p) PROVE Unseen
  <2>1. p \notin Clients
    BY PeersAssumption
  <2>2. CASE Stop(p)
    <3>1. Sends(p, "Stop", Absent, Absent)
      BY <1>0, <2>2, RequestSends DEF Stop, Peers
    <3> QED BY <2>1, <2>2, <3>1 DEF Stop, Sends, Unseen, Peers
  <2>3. CASE ReceiveStop(p)
    BY <1>0, <2>1, <2>3 DEF ReceiveStop, Unseen, TypeOK, Peers
  <2>4. CASE Leave(p)
    BY <1>0, <2>1, <2>4 DEF Leave, Unseen, TypeOK, Peers
  <2> QED BY <1>8, <2>2, <2>3, <2>4
<1>9. CASE UNCHANGED <<db, asked, answer, call, during>>
  BY <1>7, <1>9 DEF Unseen
<1> QED
  BY <1>1, <1>2, <1>3, <1>4, <1>5, <1>6, <1>7, <1>8, <1>9
     DEF Next, Primary, Client, Socket, Close, OperationFails, Killed, Gone, Open, Listen,
         Recv, Reply, ReplyStop, Dial, DialRefused, OpenSecondary, DiscardReply, Resend,
         Reconnect, vars, Peers

(* The whole protocol (snapshots, messages, resends, crashes and restarts)  *)
(* behaves as one mapping on which each call takes effect between its start *)
(* and its end, for any number of clients, keys and restarts.               *)
THEOREM Refinement ==
  ASSUME WriteOnce, NeverEmpty
  PROVE  Spec => ImplementsMapService
<1>1. Init => Service!Init
  BY ServiceInit
<1>2. Inv /\ [Next]_vars => [Service!Next]_Service!vars
  BY ServiceNext
<1>3. Spec => []Inv
  BY InvCorrect
<1> QED BY <1>1, <1>2, <1>3, PTL DEF Spec, ImplementsMapService, Service!Spec
=============================================================================
