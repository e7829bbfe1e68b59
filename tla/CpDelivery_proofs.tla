-------------------------- MODULE CpDelivery_proofs --------------------------
(***************************************************************************)
(* Proofs about CpProtocol that build on Understanding: every question is  *)
(* answered, a tidy user interface sees no error, and no value is lost or  *)
(* overtaken, for any set of variables and any bounds.                     *)
(***************************************************************************)
EXTENDS CpProtocol_proofs

(* Sequences of messages.                                                  *)

\* The head and the tail of a queue that is not empty.
LEMMA TailFacts ==
  ASSUME NEW q \in Seq(Message), Len(q) > 0
  PROVE  /\ Head(q) = q[1] /\ q[1] \in Message
         /\ Tail(q) \in Seq(Message) /\ Len(Tail(q)) = Len(q) - 1
         /\ \A i \in 1..(Len(q) - 1) : Tail(q)[i] = q[i + 1]
         /\ (Tail(q) = <<>>) <=> (Len(q) = 1)
<1>1. /\ Head(q) = q[1] /\ q[1] \in Message
      /\ Tail(q) \in Seq(Message) /\ Len(Tail(q)) = Len(q) - 1
      /\ \A i \in 1..(Len(q) - 1) : Tail(q)[i] = q[i + 1]
  OBVIOUS
<1>2. (Tail(q) = <<>>) <=> (Len(Tail(q)) = 0)
  BY <1>1, EmptyIffZero
<1>3. Len(q) \in Nat
  OBVIOUS
<1> DEFINE n == Len(q)
           k == Len(Tail(q))
<1> HIDE DEF n, k
<1>4. (k = 0) <=> (n = 1)
  BY <1>1, <1>3 DEF n, k
<1> QED BY <1>1, <1>2, <1>4 DEF n, k

\* Two queues end to end make one.
LEMMA JoinFacts ==
  ASSUME NEW p \in Seq(Message), NEW q \in Seq(Message)
  PROVE  /\ p \o q \in Seq(Message) /\ Len(p \o q) = Len(p) + Len(q)
         /\ \A i \in 1..Len(p) : (p \o q)[i] = p[i]
         /\ \A i \in 1..Len(q) : (p \o q)[Len(p) + i] = q[i]
  OBVIOUS

\* Sequences of the same length with the same messages are the same.
LEMMA SameSeq ==
  ASSUME NEW p \in Seq(Message), NEW q \in Seq(Message), Len(p) = Len(q),
         \A i \in 1..Len(p) : p[i] = q[i]
  PROVE  p = q
  OBVIOUS

\* A message queued at the end of the second queue is at the end of both.
LEMMA JoinAppend ==
  ASSUME NEW p \in Seq(Message), NEW q \in Seq(Message), NEW m \in Message
  PROVE  p \o Append(q, m) = Append(p \o q, m)
  OBVIOUS

\* A message taken from the first queue is taken from both.
LEMMA JoinTail ==
  ASSUME NEW p \in Seq(Message), NEW q \in Seq(Message), Len(p) > 0
  PROVE  Tail(p) \o q = Tail(p \o q) /\ (p \o q)[1] = p[1] /\ Len(p \o q) > 0
<1>1. /\ Tail(p) \in Seq(Message) /\ Len(Tail(p)) = Len(p) - 1
      /\ p \o q \in Seq(Message) /\ Len(p \o q) = Len(p) + Len(q)
  BY TailFacts, JoinFacts
<1>2. Len(p) \in Nat /\ Len(q) \in Nat
  OBVIOUS
<1>3. Len(p \o q) > 0
  BY <1>1, <1>2
<1>4. (p \o q)[1] = p[1]
  BY <1>2, JoinFacts
<1>5. Tail(p) \o q = Tail(p \o q)
  BY <1>1, <1>2, <1>3
<1> QED BY <1>3, <1>4, <1>5

\* A message that moves from the second queue to the first stays in its place.
LEMMA JoinMove ==
  ASSUME NEW p \in Seq(Message), NEW q \in Seq(Message), Len(q) > 0
  PROVE  Append(p, q[1]) \o Tail(q) = p \o q
<1> DEFINE a == Append(p, q[1])
<1>1. /\ q[1] \in Message /\ Tail(q) \in Seq(Message)
      /\ Len(Tail(q)) = Len(q) - 1
      /\ \A i \in 1..(Len(q) - 1) : Tail(q)[i] = q[i + 1]
  BY TailFacts
<1>2. /\ a \in Seq(Message) /\ Len(a) = Len(p) + 1
      /\ \A i \in 1..Len(p) : a[i] = p[i]
      /\ a[Len(p) + 1] = q[1]
  BY <1>1, AppendFacts
<1> DEFINE x == a \o Tail(q)
           y == p \o q
<1>3. Len(p) \in Nat /\ Len(q) \in Nat
  OBVIOUS
<1>4. /\ x \in Seq(Message) /\ Len(x) = Len(a) + Len(Tail(q))
      /\ \A i \in 1..Len(a) : x[i] = a[i]
      /\ \A i \in 1..Len(Tail(q)) : x[Len(a) + i] = Tail(q)[i]
  BY <1>1, <1>2, JoinFacts
<1>5. /\ y \in Seq(Message) /\ Len(y) = Len(p) + Len(q)
      /\ \A i \in 1..Len(p) : y[i] = p[i]
      /\ \A i \in 1..Len(q) : y[Len(p) + i] = q[i]
  BY JoinFacts
<1> HIDE DEF a, x, y
<1>6. ASSUME NEW i \in 1..Len(x) PROVE x[i] = y[i]
  <2>1. CASE i \in 1..Len(p)
    <3>1. i \in 1..Len(a)
      BY <1>2, <1>3, <2>1
    <3> QED BY <1>2, <1>4, <1>5, <2>1, <3>1
  <2>2. CASE i = Len(p) + 1
    <3>1. i \in 1..Len(a) /\ 1 \in 1..Len(q)
      BY <1>2, <1>3, <2>2
    <3>2. x[i] = q[1]
      BY <1>2, <1>4, <2>2, <3>1
    <3>3. y[i] = q[1]
      BY <1>5, <2>2, <3>1
    <3> QED BY <3>2, <3>3
  <2>3. CASE i > Len(p) + 1
    <3> DEFINE j == i - (Len(p) + 1)
    <3>1. j \in 1..(Len(q) - 1) /\ i = Len(a) + j /\ i = Len(p) + (j + 1)
            /\ j + 1 \in 1..Len(q) /\ j \in 1..Len(Tail(q))
      BY <1>1, <1>2, <1>3, <1>4, <2>3
    <3> HIDE DEF j
    <3>2. x[i] = q[j + 1]
      BY <1>1, <1>4, <3>1
    <3>3. y[i] = q[j + 1]
      BY <1>5, <3>1
    <3> QED BY <3>2, <3>3
  <2> QED BY <1>3, <1>4, <2>1, <2>2, <2>3
<1>7. Len(x) = Len(y)
  BY <1>1, <1>2, <1>3, <1>4, <1>5
<1> QED BY <1>4, <1>5, <1>6, <1>7, SameSeq DEF x, y

\* An empty queue adds nothing.
LEMMA JoinEmpty ==
  ASSUME NEW p \in Seq(Message)
  PROVE  p \o <<>> = p
  OBVIOUS

\* A message on its own has the type it is made with.
LEMMA MsgType ==
  ASSUME NEW t \in MessageTypes
  PROVE  Msg(t).type = t /\ Msg(t) \in Message
  BY DEF Msg, Message, Nothing, Version, NoVal

\* Two messages, one after the other.
LEMMA TwoMessages ==
  ASSUME NEW m \in Message, NEW u \in Message
  PROVE  LET s == <<m>> \o <<u>> IN Len(s) = 2 /\ s[1] = m /\ s[2] = u
<1> DEFINE a == <<m>>
           b == <<u>>
<1>1. /\ a \in Seq(Message) /\ b \in Seq(Message)
      /\ Len(a) = 1 /\ Len(b) = 1 /\ a[1] = m /\ b[1] = u
  OBVIOUS
<1> HIDE DEF a, b
<1>2. /\ Len(a \o b) = 1 + 1
      /\ \A i \in 1..1 : (a \o b)[i] = a[i]
      /\ \A i \in 1..1 : (a \o b)[1 + i] = b[i]
  BY <1>1, JoinFacts
<1>3. 1 \in 1..1 /\ 1 + 1 = 2
  OBVIOUS
<1>4. (a \o b)[1 + 1] = b[1]
  BY <1>2, <1>3
<1>5. Len(a \o b) = 2 /\ (a \o b)[1] = m /\ (a \o b)[2] = u
  BY <1>1, <1>2, <1>3, <1>4
<1> QED BY <1>5 DEF a, b

\* The view is left for another one, or for good.
LEMMA LeavingQueue ==
  ASSUME NEW t \in {"SELECT_VIEW", "DISCONNECT"}
  PROVE  LET s == <<Msg("UNSELECT_VIEW")>> \o <<Msg(t)>> IN
         Len(s) = 2 /\ s[1].type = "UNSELECT_VIEW" /\ s[2].type = t
<1> DEFINE m == Msg("UNSELECT_VIEW")
           u == Msg(t)
<1>1. /\ m.type = "UNSELECT_VIEW" /\ m \in Message
      /\ u.type = t /\ u \in Message
  BY MsgType DEF MessageTypes
<1> HIDE DEF m, u
<1>2. LET s == <<m>> \o <<u>> IN Len(s) = 2 /\ s[1] = m /\ s[2] = u
  BY <1>1, TwoMessages
<1>3. LET s == <<m>> \o <<u>> IN
      Len(s) = 2 /\ s[1].type = "UNSELECT_VIEW" /\ s[2].type = t
  BY <1>1, <1>2
<1> QED BY <1>3 DEF m, u

-----------------------------------------------------------------------------
(* What each kind of step does to the two sessions.                        *)

\* The two sides.
LEMMA SideFacts ==
  /\ "client" \in Side /\ "server" \in Side /\ "client" # "server"
  /\ Side = {"client", "server"}
  /\ Peer("client") = "server" /\ Peer("server") = "client"
  BY DEF Side, Peer

\* The queues and the wires are sequences of messages, and what is received or
\* held back is on the wire.
LEMMA QueueFacts ==
  ASSUME TypeOK, NEW s \in Side
  PROVE  /\ sendq[s] \in Seq(Message) /\ wire[s] \in Seq(Message)
         /\ Len(sendq[s]) \in Nat /\ Len(wire[s]) \in Nat
         /\ got[s] \in Nat /\ held[Peer(s)] \in Nat
         /\ got[s] + held[Peer(s)] <= Len(wire[s])
<1>1. /\ sendq[s] \in Seq(Message) /\ wire[s] \in Seq(Message)
      /\ got[s] \in Nat /\ held[Peer(s)] \in Nat
      /\ got[s] + held[Peer(s)] <= Len(wire[s])
  BY PeerFacts DEF TypeOK
<1> QED BY <1>1

\* Side s decodes a message: it is the first on its wire and one it takes.
LEMMA DecodeFacts ==
  ASSUME Understanding, NEW s \in Side, Decode(s)
  PROVE  LET q == wire[s]
             m == q[1]
         IN
         /\ phase[s] = "decode" /\ got[s] > 0 /\ Len(q) > 0
         /\ q \in Seq(Message) /\ m \in Message
         /\ Accepts(fsm[s], m.type)
         /\ IF s = "server" THEN ServerTakes(m) ELSE ClientTakes(m)
         /\ Take(s, m) /\ Step(s, m)
         /\ wire'[s] = Tail(q) /\ wire'[Peer(s)] = wire[Peer(s)]
         /\ Leads(fsm[s], m.type, fsm'[s])
         /\ state'[s] = IF Hooked(fsm[s], m.type)
                         THEN StateAfterHook(m.type) ELSE state[s]
         /\ fsm'[Peer(s)] = fsm[Peer(s)] /\ state'[Peer(s)] = state[Peer(s)]
         /\ phase'[Peer(s)] = phase[Peer(s)] /\ held' = held
         /\ error' = error
<1> DEFINE q == wire[s]
           m == q[1]
<1>1. phase[s] = "decode" /\ got[s] > 0
  BY DEF Decode
<1>2. TypeOK
  BY DEF Understanding
<1>3. q \in Seq(Message) /\ Len(q) > 0
  BY <1>1, <1>2, QueueFacts
<1>4. Head(q) = m /\ m \in Message
  BY <1>3, TailFacts
<1>5. Accepts(fsm[s], m.type)
  <2>1. CASE s = "server"
    BY <1>3, <2>1 DEF Understanding, ServerChain
  <2>2. CASE s = "client"
    BY <1>1, <1>4, <2>2, ClientExpects
  <2> QED BY <2>1, <2>2 DEF Side
<1>6. IF s = "server" THEN ServerTakes(m) ELSE ClientTakes(m)
  BY <1>4, <1>5 DEF Decode
<1>7. Take(s, m) /\ Step(s, m)
  BY <1>6 DEF ServerTakes, ClientTakes, Side
<1>8. wire'[s] = Tail(q) /\ wire'[Peer(s)] = wire[Peer(s)]
  BY <1>2, <1>7, PeerFacts DEF Take, TypeOK
<1>9. /\ Leads(fsm[s], m.type, fsm'[s])
      /\ fsm'[Peer(s)] = fsm[Peer(s)] /\ state'[Peer(s)] = state[Peer(s)]
  BY <1>2, <1>7, StepFacts, PeerFacts
<1>10. state'[s] = IF Hooked(fsm[s], m.type) THEN StateAfterHook(m.type)
                                             ELSE state[s]
  BY <1>2, <1>7 DEF Step, TypeOK
<1>11. phase'[Peer(s)] = phase[Peer(s)] /\ held' = held /\ error' = error
  <2> HIDE DEF m
  <2> QED BY <1>2, <1>6, PeerFacts, SideFacts
             DEF ServerTakes, ClientTakes, TypeOK
<1> QED BY <1>1, <1>3, <1>4, <1>5, <1>6, <1>7, <1>8, <1>9, <1>10, <1>11

\* Side s encodes a message: it is the first of its queue and one the diagram
\* lets go.
LEMMA EncodeFacts ==
  ASSUME TypeOK, NEW s \in Side, Len(sendq[s]) > 0, Encode(s, sendq[s][1])
  PROVE  LET q == sendq[s]
             m == q[1]
         IN
         /\ m \in Message /\ Step(s, m)
         /\ sendq'[s] = Tail(q) /\ sendq'[Peer(s)] = sendq[Peer(s)]
         /\ wire'[Peer(s)] = Append(wire[Peer(s)], m) /\ wire'[s] = wire[s]
         /\ held'[s] = held[s] + 1 /\ held'[Peer(s)] = held[Peer(s)]
         /\ Leads(fsm[s], m.type, fsm'[s])
         /\ state'[s] = IF Hooked(fsm[s], m.type)
                         THEN StateAfterHook(m.type) ELSE state[s]
         /\ fsm'[Peer(s)] = fsm[Peer(s)] /\ state'[Peer(s)] = state[Peer(s)]
         /\ phase' = phase /\ got' = got /\ error' = error
<1> DEFINE q == sendq[s]
           m == q[1]
<1>1. q \in Seq(Message)
  BY QueueFacts
<1>2. m \in Message
  BY <1>1, TailFacts
<1>3. Step(s, m)
  BY DEF Encode
<1>4. /\ sendq'[s] = Tail(q) /\ sendq'[Peer(s)] = sendq[Peer(s)]
      /\ wire'[Peer(s)] = Append(wire[Peer(s)], m) /\ wire'[s] = wire[s]
      /\ held'[s] = held[s] + 1 /\ held'[Peer(s)] = held[Peer(s)]
      /\ phase' = phase /\ got' = got /\ error' = error
  <2> HIDE DEF m
  <2> QED BY PeerFacts DEF Encode, TypeOK, m
<1>5. /\ Leads(fsm[s], m.type, fsm'[s])
      /\ fsm'[Peer(s)] = fsm[Peer(s)] /\ state'[Peer(s)] = state[Peer(s)]
  BY <1>3, StepFacts, PeerFacts
<1>6. state'[s] = IF Hooked(fsm[s], m.type) THEN StateAfterHook(m.type)
                                            ELSE state[s]
  BY <1>3 DEF Step, TypeOK
<1> QED BY <1>2, <1>3, <1>4, <1>5, <1>6

\* Flushing encodes the head of the queue, or the diagram refuses it.
LEMMA FlushFacts ==
  ASSUME TypeOK, NEW s \in Side, Flush(s)
  PROVE  /\ phase[s] = "flush" /\ Len(sendq[s]) > 0
         /\ \/ Encode(s, sendq[s][1]) /\ Accepts(fsm[s], sendq[s][1].type)
            \/ Close(s, "sent") /\ ~Accepts(fsm[s], sendq[s][1].type)
<1>1. sendq[s] \in Seq(Message) /\ sendq[s] # <<>>
  BY QueueFacts DEF Flush
<1>2. Len(sendq[s]) > 0
  BY <1>1, EmptyIffZero, QueueFacts
<1>3. Head(sendq[s]) = sendq[s][1]
  BY <1>1, <1>2, TailFacts
<1> QED BY <1>2, <1>3 DEF Flush

\* Side s drops its end: what it held is gone, and of what it handed over the
\* peer keeps a prefix.
LEMMA CloseFacts ==
  ASSUME TypeOK, NEW s \in Side, NEW why, Close(s, why)
  PROVE  /\ phase'[s] = "closed" /\ phase'[Peer(s)] = phase[Peer(s)]
         /\ error'[s] = why /\ error'[Peer(s)] = error[Peer(s)]
         /\ sendq'[s] = <<>> /\ sendq'[Peer(s)] = sendq[Peer(s)]
         /\ held'[s] = 0 /\ held'[Peer(s)] = held[Peer(s)]
         /\ UNCHANGED <<fsm, state, got>>
         /\ wire'[s] = wire[s]
         /\ \E k \in Nat : /\ k <= Len(wire[Peer(s)])
                           /\ wire'[Peer(s)] = SubSeq(wire[Peer(s)], 1, k)
<1> DEFINE p == Peer(s)
<1>1. p \in Side /\ p # s /\ Peer(p) = s
  BY PeerFacts
<1>2. /\ phase'[s] = "closed" /\ phase'[p] = phase[p]
      /\ error'[s] = why /\ error'[p] = error[p]
      /\ sendq'[s] = <<>> /\ sendq'[p] = sendq[p]
      /\ held'[s] = 0 /\ held'[p] = held[p]
      /\ UNCHANGED <<fsm, state, got>>
  BY <1>1 DEF Close, TypeOK
<1>3. PICK k \in got[p]..(Len(wire[p]) - held[s]) :
        wire' = [wire EXCEPT ![p] = SubSeq(@, 1, k)]
  BY DEF Close
<1>4. wire'[s] = wire[s] /\ wire'[p] = SubSeq(wire[p], 1, k)
  BY <1>1, <1>3 DEF TypeOK
<1>5. k \in Nat /\ k <= Len(wire[p])
  <2>1. got[p] \in Nat /\ held[s] \in Nat /\ Len(wire[p]) \in Nat
    BY <1>1, QueueFacts
  <2> HIDE DEF p
  <2> QED BY <1>3, <2>1
<1> QED BY <1>2, <1>4, <1>5

-----------------------------------------------------------------------------
(* Every question is answered: Answering is inductive.                     *)

\* What the last message says of the client: DISCONNECT is the last one, and
\* a server that waits for CONNECT or answers SELECT_VIEW knows where a live
\* client is.
LEMMA ServerKnows ==
  ASSUME Understanding
  PROVE  /\ \A i \in 1..Len(wire["server"]) :
              wire["server"][i].type = "DISCONNECT" => i = Len(wire["server"])
         /\ Live /\ fsm["server"] = "disconnected"
              => fsm["client"] \in {"disconnected", "connection_in_progress"}
         /\ Live /\ fsm["server"] = "view_selection_in_progress"
              => fsm["client"] \in {"disconnected", "view_selection_in_progress"}
<1> DEFINE q == wire["server"]
           n == Len(q)
<1>1. q \in Seq(Message) /\ n \in Nat /\ ((q = <<>>) <=> (n = 0))
  BY SideFacts, QueueFacts, EmptyIffZero DEF Understanding
<1>2. /\ \A i \in 1..n : q[i].type \in FromClient
      /\ n > 0 => Accepts(fsm["server"], q[1].type)
      /\ \A i \in 1..(n - 1) : Follows(q[i].type, q[i + 1].type)
  BY DEF Understanding, ServerChain
<1>3. Live => \E l \in Links : /\ l[1] = fsm["client"]
                               /\ IF n = 0 THEN l[3] = fsm["server"]
                                           ELSE l[2] = q[n].type
  BY <1>1 DEF Understanding, EndsLinked
<1> HIDE DEF q, n
<1>4. \A t, u : Follows(t, u) => t # "DISCONNECT"
  BY DEF Follows
<1>5. \A i \in 1..n : q[i].type = "DISCONNECT" => i = n
  <2> SUFFICES ASSUME NEW i \in 1..n, q[i].type = "DISCONNECT", i # n
               PROVE  FALSE
    OBVIOUS
  <2>1. i \in 1..(n - 1)
    BY <1>1
  <2> QED BY <1>2, <1>4, <2>1
<1>6. ASSUME Live, fsm["server"] = "disconnected"
      PROVE  fsm["client"] \in {"disconnected", "connection_in_progress"}
  <2>1. CASE n = 0
    BY <1>3, <1>6, <2>1 DEF Links
  <2>2. CASE n > 0
    <3>1. q[1].type = "CONNECT"
      <4>1. \E d : Leads("disconnected", q[1].type, d)
        BY <1>2, <1>6, <2>2, AcceptsLeads
      <4>2. q[1].type \in FromClient
        BY <1>1, <1>2, <2>2
      <4> QED BY <4>1, <4>2, Uses DEF FromClient
    <3>2. n > 1 => q[2].type = "DISCONNECT"
      <4>1. n > 1 => 1 \in 1..(n - 1)
        BY <1>1
      <4> QED BY <1>2, <3>1, <4>1 DEF Follows
    <3>3. n = 1 \/ n = 2
      <4>1. n > 1 => 2 \in 1..n
        BY <1>1
      <4> QED BY <1>1, <1>5, <2>2, <3>2, <4>1
    <3>4. q[n].type \in {"CONNECT", "DISCONNECT"}
      BY <3>1, <3>2, <3>3
    <3> QED BY <1>3, <1>6, <2>2, <3>4 DEF Links
  <2> QED BY <1>1, <2>1, <2>2
<1>7. ASSUME Live, fsm["server"] = "view_selection_in_progress"
      PROVE  fsm["client"] \in {"disconnected", "view_selection_in_progress"}
  <2>1. CASE n = 0
    BY <1>3, <1>7, <2>1 DEF Links
  <2>2. CASE n > 0
    <3>1. q[1].type = "DISCONNECT"
      <4>1. \E d : Leads("view_selection_in_progress", q[1].type, d)
        BY <1>2, <1>7, <2>2, AcceptsLeads
      <4>2. q[1].type \in FromClient
        BY <1>1, <1>2, <2>2
      <4> QED BY <4>1, <4>2, Uses DEF FromClient
    <3>2. 1 = n
      BY <1>1, <1>5, <2>2, <3>1
    <3> QED BY <1>3, <1>7, <2>2, <3>1, <3>2 DEF Links
  <2> QED BY <1>1, <2>1, <2>2
<1> QED BY <1>5, <1>6, <1>7 DEF q, n

\* A server that neither answers nor flushes has nothing queued.
LEMMA NothingQueued ==
  ASSUME Understanding, AnswersQueued, phase["server"] # "flush",
         state["server"] # "DISCONNECTED",
         fsm["server"] \notin
           {"connection_in_progress", "view_selection_in_progress"}
  PROVE  sendq["server"] = <<>>
<1>1. /\ sendq["server"] \in Seq(Message) /\ Len(sendq["server"]) \in Nat
      /\ (sendq["server"] = <<>>) <=> (Len(sendq["server"]) = 0)
  BY SideFacts, QueueFacts, EmptyIffZero DEF Understanding
<1>2. \A i \in 1..Len(sendq["server"]) : FALSE
  BY DEF Understanding, QueuesInOrder, AnswersQueued, FromServer
<1> QED BY <1>1, <1>2

\* The state of a session tells the state of its diagram.
LEMMA MirrorFacts ==
  ASSUME Understanding, NEW s \in Side
  PROVE  /\ Mirrors(fsm[s], state[s])
         /\ state[s] = "DISCONNECTED" => fsm[s] = "disconnected" /\ ~Fresh(s)
         /\ fsm[s] = "disconnected" /\ ~Fresh(s) => state[s] = "DISCONNECTED"
  BY DEF Understanding, StateMirrorsFsm, Mirrors, Fresh

\* What a side may say, and where that leads.
LEMMA UsesOfClient ==
  ASSUME NEW f, NEW t \in FromClient, NEW d, Leads(f, t, d)
  PROVE  \/ <<f, t, d>> \in
              {<<"disconnected", "CONNECT", "connection_in_progress">>,
               <<"connected", "SELECT_VIEW", "view_selection_in_progress">>,
               <<"view_selected", "UNSELECT_VIEW", "connected">>,
               <<"view_selected", "MODIFY_VARIABLES", "view_selected">>}
         \/ /\ t = "DISCONNECT" /\ d = "disconnected"
            /\ f \in {"connection_in_progress", "connected",
                      "view_selection_in_progress", "view_selected"}
  BY Uses DEF FromClient

LEMMA UsesOfServer ==
  ASSUME NEW f, NEW t \in FromServer, NEW d, Leads(f, t, d)
  PROVE  \/ <<f, t, d>> \in
              {<<"connection_in_progress", "PROJECT_URL", "connected">>,
               <<"view_selection_in_progress", "AVAILABLE_VARIABLES",
                 "view_selected">>}
         \/ t = "VARIABLE_VALUES" /\ d = f
  BY Uses DEF FromServer

\* The server takes a message.
LEMMA AnsweringServerTakes ==
  ASSUME Understanding, Answering, Decode("server")
  PROVE  Answering'
<1> DEFINE q == wire["server"]
           m == q[1]
           f == fsm["server"]
<1>0. /\ phase["server"] = "decode" /\ got["server"] > 0 /\ Len(q) > 0
      /\ q \in Seq(Message) /\ m \in Message
      /\ ServerTakes(m)
      /\ wire'["server"] = Tail(q) /\ wire'["client"] = wire["client"]
      /\ Leads(f, m.type, fsm'["server"])
      /\ state'["server"] = IF Hooked(f, m.type) THEN StateAfterHook(m.type)
                                                 ELSE state["server"]
      /\ fsm'["client"] = fsm["client"] /\ state'["client"] = state["client"]
      /\ phase'["client"] = phase["client"] /\ held' = held /\ error' = error
  BY SideFacts, DecodeFacts
<1>1. TypeOK /\ Len(q) \in Nat /\ got["server"] \in Nat /\ held["client"] \in Nat
        /\ got["server"] + held["client"] <= Len(q)
  BY SideFacts, QueueFacts DEF Understanding
<1>2. /\ sendq'["server"] = sendq["server"] \o Reply(m.type)
      /\ phase'["server"] = IF m.type = "SELECT_VIEW" THEN "snapshot" ELSE "decode"
  <2> HIDE DEF m
  <2> QED BY <1>0, <1>1, SideFacts DEF ServerTakes, TypeOK
<1>3. (Live' <=> Live) /\ (Fresh("client")' <=> Fresh("client"))
  BY <1>0 DEF Live, Fresh
<1>4. /\ Len(Tail(q)) = Len(q) - 1 /\ Tail(q) \in Seq(Message)
      /\ \A i \in 1..(Len(q) - 1) : Tail(q)[i] = q[i + 1]
      /\ (Tail(q) = <<>>) <=> (Len(q) = 1)
  BY <1>0, TailFacts
<1>5. m.type \in FromClient
  BY <1>0, <1>1 DEF Understanding, ServerChain
<1>6. \/ <<f, m.type, fsm'["server"]>> \in
           {<<"disconnected", "CONNECT", "connection_in_progress">>,
            <<"connected", "SELECT_VIEW", "view_selection_in_progress">>,
            <<"view_selected", "UNSELECT_VIEW", "connected">>,
            <<"view_selected", "MODIFY_VARIABLES", "view_selected">>}
      \/ m.type = "DISCONNECT" /\ fsm'["server"] = "disconnected"
  BY <1>0, <1>5, UsesOfClient
<1>7. q # <<>> /\ state["server"] # "DISCONNECTED" /\ ~(Live /\ Fresh("client"))
  <2>1. wire["server"] # <<>>
    BY <1>0, EmptyIffZero
  <2>2. ~(Live /\ Fresh("client"))
    BY <2>1 DEF Understanding, ClientEnds
  <2>3. state["server"] # "DISCONNECTED"
    BY <2>1 DEF Answering, Goodbye
  <2> QED BY <2>1, <2>2, <2>3
<1> HIDE DEF m
<1>8. m.type = "DISCONNECT" =>
        /\ Tail(q) = <<>> /\ state["client"] = "DISCONNECTED" /\ ~Live
  <2> SUFFICES ASSUME m.type = "DISCONNECT"
               PROVE  /\ Tail(q) = <<>> /\ ~Live
                      /\ state["client"] = "DISCONNECTED"
    OBVIOUS
  <2>0. 1 \in 1..Len(q)
    <3> HIDE DEF q
    <3> QED BY <1>0, <1>1
  <2>1. 1 = Len(q)
    <3>1. wire["server"][1].type = "DISCONNECT"
      BY DEF m
    <3> QED BY <2>0, <3>1, ServerKnows
  <2>2. Tail(q) = <<>>
    BY <1>4, <2>1
  <2>3. state["client"] = "DISCONNECTED"
    <3>1. Holds(q, "DISCONNECT")
      BY <2>1 DEF Holds, m
    <3> QED BY <3>1 DEF Answering, Goodbye
  <2>4. ~Live
    <3>1. Live => held["client"] > 0
      BY <2>3, MirrorFacts, SideFacts DEF Answering, Goodbye
    <3> HIDE DEF q
    <3> QED BY <1>0, <1>1, <2>1, <3>1
  <2> QED BY <2>2, <2>3, <2>4
<1>9. Goodbye'
  <2>1. Holds(Tail(q), "DISCONNECT") => Holds(q, "DISCONNECT")
    <3> SUFFICES ASSUME NEW i \in 1..Len(Tail(q)), Tail(q)[i].type = "DISCONNECT"
                 PROVE  Holds(q, "DISCONNECT")
      BY DEF Holds
    <3>1. i + 1 \in 1..Len(q) /\ Tail(q)[i] = q[i + 1]
      <4> HIDE DEF q
      <4> QED BY <1>1, <1>4
    <3> QED BY <3>1 DEF Holds
  <2>2. state'["server"] = "DISCONNECTED" => m.type = "DISCONNECT"
    BY <1>0, <1>5, <1>7 DEF StateAfterHook, FromClient
  <2> HIDE DEF q
  <2>3. Holds(wire'["server"], "DISCONNECT") => state'["client"] = "DISCONNECTED"
    BY <1>0, <2>1 DEF Answering, Goodbye, q
  <2>4. Live' /\ fsm'["client"] = "disconnected" /\ ~Fresh("client")'
          => held'["client"] > 0
    BY <1>0, <1>3 DEF Answering, Goodbye
  <2>5. state'["server"] = "DISCONNECTED" =>
          ~Live' /\ state'["client"] = "DISCONNECTED" /\ wire'["server"] = <<>>
    BY <1>0, <1>3, <1>8, <2>2
  <2> QED BY <2>3, <2>4, <2>5 DEF Goodbye, Holds
<1>10. FreshTogether'
  <2>1. phase'["server"] \notin {"absent", "register"}
    BY <1>2
  <2> QED BY <1>3, <1>7, <2>1 DEF FreshTogether
<1>11. AnswersQueued'
  <2> HIDE DEF q
  <2>0. Answering /\ AnswersQueued /\ phase["server"] # "flush"
    BY <1>0 DEF Answering
  <2>1. sendq["server"] \in Seq(Message)
    BY <1>1, SideFacts, QueueFacts
  <2>2. CASE m.type = "DISCONNECT"
    <3>1. sendq'["server"] = sendq["server"] /\ phase'["server"] = "decode"
      BY <1>2, <2>1, <2>2, JoinEmpty DEF Reply
    <3>2. state'["server"] = "DISCONNECTED"
      <4>1. f \in {"connection_in_progress", "connected",
                   "view_selection_in_progress", "view_selected"}
        BY <1>0, <1>5, <2>2, Uses
      <4>2. Hooked(f, "DISCONNECT")
        BY <4>1 DEF Hooked, HookedTransitions
      <4> QED BY <1>0, <2>2, <4>2 DEF StateAfterHook
    <3> QED BY <2>0, <3>1, <3>2 DEF AnswersQueued
  <2>3. CASE m.type # "DISCONNECT"
    <3>1. f \notin {"connection_in_progress", "view_selection_in_progress"}
      BY <1>6, <2>3
    <3>2. sendq["server"] = <<>>
      BY <1>7, <2>0, <3>1, NothingQueued
    <3>3. CASE m.type = "CONNECT"
      <4>1. sendq'["server"] = <<Msg("PROJECT_URL")>>
        BY <1>2, <3>2, <3>3 DEF Reply
      <4>2. fsm'["server"] = "connection_in_progress"
              /\ phase'["server"] = "decode"
        BY <1>2, <1>6, <3>3
      <4> QED BY <4>1, <4>2 DEF AnswersQueued, Msg
    <3>4. CASE m.type # "CONNECT"
      <4>1. sendq'["server"] = <<>>
        BY <1>2, <3>2, <3>4 DEF Reply
      <4>2. phase'["server"] = "snapshot" =>
              fsm'["server"] = "view_selection_in_progress"
        BY <1>2, <1>6
      <4> QED BY <4>1, <4>2 DEF AnswersQueued
    <3> QED BY <3>3, <3>4
  <2> QED BY <2>2, <2>3
<1>12. AnswersComing'
  <2> SUFFICES ASSUME Live', wire'["server"] = <<>>
               PROVE  /\ fsm'["client"] = "connection_in_progress"
                           => fsm'["server"] # "connected"
                      /\ fsm'["client"] = "view_selection_in_progress"
                           => fsm'["server"] # "view_selected"
    BY DEF AnswersComing
  <2>1. Len(q) = 1
    BY <1>0, <1>4
  <2>2. PICK l \in Links : l[1] = fsm["client"] /\ l[2] = q[Len(q)].type
    BY <1>3, <1>7 DEF Understanding, EndsLinked
  <2>3. l[2] = m.type
    BY <2>1, <2>2 DEF m
  <2> QED BY <1>0, <1>6, <2>2, <2>3 DEF Links
<1>13. ServerFailsOnlyAfterDisconnect'
  BY <1>0 DEF Answering, ServerFailsOnlyAfterDisconnect
<1> QED BY <1>9, <1>10, <1>11, <1>12, <1>13 DEF Answering

\* The client takes a message.
LEMMA AnsweringClientTakes ==
  ASSUME Understanding, Answering, Decode("client")
  PROVE  Answering'
<1> DEFINE q == wire["client"]
           m == q[1]
           f == fsm["client"]
<1>0. /\ phase["client"] = "decode" /\ Len(q) > 0
      /\ q \in Seq(Message) /\ m \in Message
      /\ ClientTakes(m)
      /\ wire'["client"] = Tail(q) /\ wire'["server"] = wire["server"]
      /\ Leads(f, m.type, fsm'["client"])
      /\ fsm'["server"] = fsm["server"] /\ state'["server"] = state["server"]
      /\ phase'["server"] = phase["server"] /\ held' = held /\ error' = error
  BY SideFacts, DecodeFacts
<1>1. TypeOK /\ Live /\ Len(q) \in Nat /\ q # <<>>
  BY <1>0, SideFacts, QueueFacts, EmptyIffZero DEF Understanding, Live
<1>2. /\ sendq' = sendq /\ phase' = phase
  <2> HIDE DEF m
  <2> QED BY <1>0 DEF ClientTakes
<1>3. Live'
  BY <1>1, <1>2 DEF Live
<1>4. f # "disconnected"
  BY <1>0, <1>1 DEF Understanding, ClientEnds
<1>5. m.type \in FromServer
  <2>1. 1 \in 1..Len(q)
    <3> HIDE DEF q
    <3> QED BY <1>0, <1>1
  <2> QED BY <1>1, <1>4, <2>1 DEF Understanding, ClientChain
<1>6. \/ <<f, m.type, fsm'["client"]>> \in
           {<<"connection_in_progress", "PROJECT_URL", "connected">>,
            <<"view_selection_in_progress", "AVAILABLE_VARIABLES",
              "view_selected">>}
      \/ m.type = "VARIABLE_VALUES" /\ fsm'["client"] = f
  BY <1>0, <1>5, UsesOfServer
<1>7. /\ state["client"] # "DISCONNECTED" /\ state["server"] # "DISCONNECTED"
      /\ ~Holds(wire["server"], "DISCONNECT")
      /\ fsm'["client"] # "disconnected"
  BY <1>1, <1>4, <1>6, SideFacts, MirrorFacts DEF Answering, Goodbye
<1> HIDE DEF m
<1>8. Goodbye'
  BY <1>0, <1>7 DEF Goodbye, Holds
<1>9. FreshTogether'
  BY <1>0, <1>2, <1>7 DEF Answering, FreshTogether, Fresh
<1>10. AnswersQueued'
  BY <1>0, <1>2 DEF Answering, AnswersQueued
<1>11. AnswersComing'
  <2> SUFFICES ASSUME phase'["server"] # "closed", wire'["server"] = <<>>
               PROVE  /\ fsm'["client"] = "connection_in_progress"
                           => fsm'["server"] # "connected"
                      /\ fsm'["client"] = "view_selection_in_progress"
                         /\ fsm'["server"] = "view_selected"
                         => Holds(Tail(q), "AVAILABLE_VARIABLES")
    BY <1>0 DEF AnswersComing, Holds
  <2>1. fsm'["client"] # "connection_in_progress"
    <3> SUFFICES ASSUME f = "connection_in_progress", m.type = "VARIABLE_VALUES"
                 PROVE  FALSE
      BY <1>6
    <3>1. 1 \in 1..Len(q)
      <4> HIDE DEF q
      <4> QED BY <1>0, <1>1
    <3> QED BY <1>1, <1>4, <3>1 DEF Understanding, ClientChain, m
  <2>2. ASSUME fsm'["client"] = "view_selection_in_progress",
               fsm'["server"] = "view_selected"
        PROVE  Holds(Tail(q), "AVAILABLE_VARIABLES")
    <3>1. m.type = "VARIABLE_VALUES" /\ f = "view_selection_in_progress"
      BY <1>6, <2>2
    <3>2. Holds(q, "AVAILABLE_VARIABLES")
      BY <1>0, <1>1, <2>2, <3>1 DEF Answering, AnswersComing
    <3>3. PICK i \in 1..Len(q) : q[i].type = "AVAILABLE_VARIABLES"
      BY <3>2 DEF Holds
    <3>4. i # 1
      BY <3>1, <3>3 DEF m
    <3> HIDE DEF q
    <3>5. i - 1 \in 1..(Len(q) - 1)
      BY <1>1, <3>3, <3>4
    <3>6. i - 1 \in 1..Len(Tail(q)) /\ Tail(q)[i - 1] = q[i]
      <4>1. /\ Len(Tail(q)) = Len(q) - 1
            /\ \A j \in 1..(Len(q) - 1) : Tail(q)[j] = q[j + 1]
        BY <1>0, TailFacts
      <4> QED BY <3>5, <4>1
    <3> QED BY <3>3, <3>6 DEF Holds
  <2> QED BY <2>1, <2>2
<1>12. ServerFailsOnlyAfterDisconnect'
  BY <1>0, <1>1, <1>2, <1>7 DEF Answering, ServerFailsOnlyAfterDisconnect, Live
<1> QED BY <1>8, <1>9, <1>10, <1>11, <1>12 DEF Answering

\* What a queue holds when a message is added.
LEMMA HoldsAppend ==
  ASSUME NEW q \in Seq(Message), NEW m \in Message, NEW t
  PROVE  Holds(Append(q, m), t) <=> Holds(q, t) \/ m.type = t
<1>1. /\ Len(q) \in Nat /\ Len(Append(q, m)) = Len(q) + 1
      /\ \A i \in 1..Len(q) : Append(q, m)[i] = q[i]
      /\ Append(q, m)[Len(q) + 1] = m
      /\ \A i \in 1..Len(Append(q, m)) : i \in 1..Len(q) \/ i = Len(q) + 1
  BY AppendFacts
<1> DEFINE a == Append(q, m)
           n == Len(q)
<1> HIDE DEF a, n
<1>2. (\E i \in 1..Len(a) : a[i].type = t) <=> (\E i \in 1..n : q[i].type = t) \/ m.type = t
  BY <1>1 DEF a, n
<1> QED BY <1>2 DEF Holds, a, n

\* The server sends a message.
LEMMA AnsweringServerSends ==
  ASSUME Understanding, Answering, phase["server"] = "flush",
         Len(sendq["server"]) > 0, Encode("server", sendq["server"][1])
  PROVE  Answering'
<1> DEFINE q == sendq["server"]
           m == q[1]
           f == fsm["server"]
<1>0. /\ m \in Message
      /\ sendq'["server"] = Tail(q) /\ sendq'["client"] = sendq["client"]
      /\ wire'["client"] = Append(wire["client"], m)
      /\ wire'["server"] = wire["server"]
      /\ held'["client"] = held["client"]
      /\ Leads(f, m.type, fsm'["server"])
      /\ state'["server"] = IF Hooked(f, m.type) THEN StateAfterHook(m.type)
                                                 ELSE state["server"]
      /\ fsm'["client"] = fsm["client"] /\ state'["client"] = state["client"]
      /\ phase' = phase /\ error' = error
  BY SideFacts, EncodeFacts DEF Understanding
<1>1. /\ q \in Seq(Message) /\ Len(q) \in Nat /\ Len(q) > 0 /\ wire["client"] \in Seq(Message)
  BY SideFacts, QueueFacts DEF Understanding
<1>2. (Live' <=> Live) /\ (Fresh("client")' <=> Fresh("client"))
  BY <1>0 DEF Live, Fresh
<1>3. m.type \in FromServer /\ (m.type = "VARIABLE_VALUES" => f = "view_selected")
  <2>1. 1 \in 1..Len(q)
    <3> HIDE DEF q
    <3> QED BY <1>1
  <2> QED BY <2>1 DEF Understanding, QueuesInOrder
<1>4. \/ <<f, m.type, fsm'["server"]>> \in
           {<<"connection_in_progress", "PROJECT_URL", "connected">>,
            <<"view_selection_in_progress", "AVAILABLE_VARIABLES",
              "view_selected">>}
      \/ /\ m.type = "VARIABLE_VALUES" /\ fsm'["server"] = f
         /\ f = "view_selected"
  BY <1>0, <1>3, UsesOfServer
<1> HIDE DEF m
<1>5. Goodbye'
  <2>1. state'["server"] = "DISCONNECTED" => state["server"] = "DISCONNECTED"
    BY <1>0, <1>3 DEF StateAfterHook, FromServer
  <2> QED BY <1>0, <1>2, <2>1 DEF Answering, Goodbye, Holds
<1>6. FreshTogether'
  <2>1. ~(Live /\ Fresh("client"))
    BY <1>4 DEF Understanding, ClientEnds
  <2> QED BY <1>0, <1>2, <2>1 DEF FreshTogether
<1>7. AnswersQueued'
  <2>1. ASSUME NEW i \in 1..Len(Tail(q))
        PROVE  Tail(q)[i].type \notin {"PROJECT_URL", "AVAILABLE_VARIABLES"}
    <3>1. i + 1 \in 1..Len(q) /\ i + 1 # 1 /\ Tail(q)[i] = q[i + 1]
      <4>1. /\ Len(Tail(q)) = Len(q) - 1
            /\ \A j \in 1..(Len(q) - 1) : Tail(q)[j] = q[j + 1]
        BY <1>1, TailFacts
      <4> HIDE DEF q
      <4> QED BY <1>1, <4>1
    <3> QED BY <3>1 DEF Answering, AnswersQueued
  <2> HIDE DEF q
  <2> QED BY <1>0, <2>1 DEF AnswersQueued
<1>8. AnswersComing'
  BY <1>0, <1>1, <1>2, <1>4, HoldsAppend DEF Answering, AnswersComing
<1>9. ServerFailsOnlyAfterDisconnect'
  BY <1>0 DEF Answering, ServerFailsOnlyAfterDisconnect
<1> QED BY <1>5, <1>6, <1>7, <1>8, <1>9 DEF Answering

\* The client sends a message.
LEMMA AnsweringClientSends ==
  ASSUME Understanding, Answering, phase["client"] = "flush",
         Len(sendq["client"]) > 0, Encode("client", sendq["client"][1])
  PROVE  Answering'
<1> DEFINE q == sendq["client"]
           m == q[1]
           f == fsm["client"]
<1>0. /\ m \in Message
      /\ sendq'["server"] = sendq["server"]
      /\ wire'["server"] = Append(wire["server"], m)
      /\ held'["client"] = held["client"] + 1
      /\ Leads(f, m.type, fsm'["client"])
      /\ state'["client"] = IF Hooked(f, m.type) THEN StateAfterHook(m.type)
                                                 ELSE state["client"]
      /\ fsm'["server"] = fsm["server"] /\ state'["server"] = state["server"]
      /\ phase' = phase /\ error' = error
  BY SideFacts, EncodeFacts DEF Understanding
<1>1. /\ q \in Seq(Message) /\ Len(q) \in Nat /\ Len(q) > 0 /\ wire["server"] \in Seq(Message)
      /\ held["client"] \in Nat
  BY SideFacts, QueueFacts DEF Understanding
<1>2. Live /\ Live'
  BY <1>0 DEF Live
<1>3. m.type \in FromClient /\ (m.type = "CONNECT" => Fresh("client"))
  <2>1. 1 \in 1..Len(q)
    <3> HIDE DEF q
    <3> QED BY <1>1
  <2> QED BY <1>2, <2>1 DEF Understanding, QueuesInOrder
<1>4. \/ <<f, m.type, fsm'["client"]>> \in
           {<<"disconnected", "CONNECT", "connection_in_progress">>,
            <<"connected", "SELECT_VIEW", "view_selection_in_progress">>,
            <<"view_selected", "UNSELECT_VIEW", "connected">>,
            <<"view_selected", "MODIFY_VARIABLES", "view_selected">>}
      \/ /\ m.type = "DISCONNECT" /\ fsm'["client"] = "disconnected"
         /\ f \in {"connection_in_progress", "connected",
                   "view_selection_in_progress", "view_selected"}
  BY <1>0, <1>3, UsesOfClient
<1>5. m.type = "DISCONNECT" => state'["client"] = "DISCONNECTED"
  <2>1. m.type = "DISCONNECT" => Hooked(f, m.type)
    BY <1>4 DEF Hooked, HookedTransitions
  <2> QED BY <1>0, <2>1 DEF StateAfterHook
<1>6. state["client"] # "DISCONNECTED"
  <2>1. f = "disconnected" => Fresh("client")
    BY <1>3, <1>4
  <2> QED BY <2>1, SideFacts, MirrorFacts
<1>7. state["server"] # "DISCONNECTED" /\ error["server"] # "sent"
  BY <1>2 DEF Answering, Goodbye, ServerFailsOnlyAfterDisconnect, Live
<1> HIDE DEF m
<1>8. Goodbye'
  <2>1. Holds(wire'["server"], "DISCONNECT") => state'["client"] = "DISCONNECTED"
    BY <1>0, <1>1, <1>5, <1>6, HoldsAppend DEF Answering, Goodbye
  <2>2. held'["client"] > 0
    BY <1>0, <1>1
  <2> QED BY <1>0, <1>7, <2>1, <2>2 DEF Goodbye, Holds
<1>9. FreshTogether'
  <2>1. fsm'["client"] = "disconnected" => m.type = "DISCONNECT"
    BY <1>4
  <2>2. ~Fresh("client")'
    BY <1>5, <2>1 DEF Fresh
  <2> QED BY <1>0, <2>2 DEF Answering, FreshTogether, Fresh
<1>10. AnswersQueued'
  BY <1>0 DEF Answering, AnswersQueued
<1>11. AnswersComing'
  <2>1. wire'["server"] # <<>>
    BY <1>0, <1>1
  <2> QED BY <2>1 DEF AnswersComing
<1>12. ServerFailsOnlyAfterDisconnect'
  BY <1>0, <1>7 DEF ServerFailsOnlyAfterDisconnect
<1> QED BY <1>8, <1>9, <1>10, <1>11, <1>12 DEF Answering

\* A side drops its end.
LEMMA AnsweringClose ==
  ASSUME Understanding, Answering, NEW s \in Side, NEW why, Close(s, why),
         s = "server" /\ why = "sent" => ~Live /\ state["client"] = "DISCONNECTED"
  PROVE  Answering'
<1>0. TypeOK
  BY DEF Understanding
<1>1. CASE s = "server"
  <2>1. /\ phase'["server"] = "closed" /\ phase'["client"] = phase["client"]
        /\ error'["server"] = why /\ sendq'["server"] = <<>>
        /\ held'["client"] = held["client"]
        /\ UNCHANGED <<fsm, state>> /\ wire'["server"] = wire["server"]
    BY <1>0, <1>1, SideFacts, CloseFacts
  <2>2. /\ Live' <=> Live
        /\ Fresh("client")' <=> Fresh("client")
        /\ Fresh("server")' <=> Fresh("server")
    BY <2>1 DEF Live, Fresh
  <2>3. AnswersComing' /\ AnswersQueued'
    BY <2>1 DEF AnswersComing, AnswersQueued
  <2>4. Goodbye' /\ FreshTogether'
    BY <2>1, <2>2 DEF Answering, Goodbye, FreshTogether, Holds
  <2>5. ServerFailsOnlyAfterDisconnect'
    BY <1>1, <2>1 DEF ServerFailsOnlyAfterDisconnect, Live
  <2> QED BY <2>3, <2>4, <2>5 DEF Answering
<1>2. CASE s = "client"
  <2>1. /\ phase'["client"] = "closed" /\ phase'["server"] = phase["server"]
        /\ error'["server"] = error["server"]
        /\ sendq'["server"] = sendq["server"]
        /\ UNCHANGED <<fsm, state>>
        /\ \E k \in Nat : /\ k <= Len(wire["server"])
                          /\ wire'["server"] = SubSeq(wire["server"], 1, k)
    BY <1>0, <1>2, SideFacts, CloseFacts
  <2>2. ~Live' /\ (Fresh("server")' <=> Fresh("server"))
    BY <2>1 DEF Live, Fresh
  <2>3. AnswersComing' /\ FreshTogether'
    BY <2>1, <2>2 DEF AnswersComing, Answering, FreshTogether
  <2>4. AnswersQueued'
    BY <2>1 DEF Answering, AnswersQueued
  <2>5. Goodbye'
    <3> DEFINE w == wire["server"]
    <3>1. PICK k \in Nat : k <= Len(w) /\ wire'["server"] = SubSeq(w, 1, k)
      BY <2>1
    <3>2. w \in Seq(Message) /\ Len(w) \in Nat
      BY <1>0, SideFacts, QueueFacts
    <3> HIDE DEF w
    <3>3. /\ Len(SubSeq(w, 1, k)) = k /\ \A i \in 1..k : SubSeq(w, 1, k)[i] = w[i]
          /\ w = <<>> => SubSeq(w, 1, k) = <<>>
      BY <3>1, <3>2, PrefixFacts
    <3>4. Holds(SubSeq(w, 1, k), "DISCONNECT") => Holds(w, "DISCONNECT")
      BY <3>1, <3>2, <3>3 DEF Holds
    <3>5. Goodbye
      BY DEF Answering
    <3>6. /\ Holds(w, "DISCONNECT") => state["client"] = "DISCONNECTED"
          /\ state["server"] = "DISCONNECTED" =>
               state["client"] = "DISCONNECTED" /\ w = <<>>
      BY <3>5 DEF Goodbye, w
    <3>7. /\ Holds(wire'["server"], "DISCONNECT")
               => state'["client"] = "DISCONNECTED"
          /\ state'["server"] = "DISCONNECTED" =>
               state'["client"] = "DISCONNECTED" /\ wire'["server"] = <<>>
      BY <2>1, <3>1, <3>3, <3>4, <3>6
    <3> QED BY <2>2, <3>7 DEF Goodbye, Holds
  <2>6. ServerFailsOnlyAfterDisconnect'
    BY <2>1 DEF Answering, ServerFailsOnlyAfterDisconnect
  <2> QED BY <2>3, <2>4, <2>5, <2>6 DEF Answering
<1> QED BY <1>1, <1>2 DEF Side

\* A step of the server between messages, or one of the plugin.
LEMMA AnsweringServerMoves ==
  ASSUME Answering, UNCHANGED <<fsm, state, wire, error>>,
         phase'["client"] = phase["client"], held'["client"] = held["client"],
         phase["server"] # "closed",
         AnswersQueued',
         phase'["server"] \in {"absent", "register"} =>
           phase["server"] \in {"absent", "register"} /\ sendq' = sendq
  PROVE  Answering'
<1>1. /\ Live' <=> Live
      /\ Fresh("client")' <=> Fresh("client")
      /\ Fresh("server")' <=> Fresh("server")
  BY DEF Live, Fresh
<1>2. AnswersComing' /\ Goodbye' /\ FreshTogether'
  BY <1>1 DEF Answering, AnswersComing, Goodbye, FreshTogether, Holds
<1>3. ServerFailsOnlyAfterDisconnect'
  BY DEF Answering, ServerFailsOnlyAfterDisconnect
<1> QED BY <1>2, <1>3 DEF Answering

\* What the server does between messages.
LEMMA AnsweringServerSteps ==
  ASSUME Understanding, Answering,
         \/ Accept \/ RegisterLink
         \/ \E n \in 0..Len(wire["server"]) : Recv("server", n)
         \/ SnapshotSend \/ DecodeDone("server") \/ DirtyServer
         \/ FlushDone("server")
  PROVE  Answering'
<1>0. TypeOK /\ AnswersQueued
  BY DEF Understanding, Answering
<1>1. /\ UNCHANGED <<fsm, state, wire, error>>
      /\ phase'["client"] = phase["client"] /\ held'["client"] = held["client"]
      /\ phase["server"] # "closed" /\ phase'["server"] # "snapshot"
  BY <1>0, SideFacts DEF TypeOK, Accept, RegisterLink, Recv, SnapshotSend,
     DecodeDone, DirtyServer, FlushDone
<1>2. phase'["server"] \in {"absent", "register"} =>
        phase["server"] \in {"absent", "register"} /\ sendq' = sendq
  BY <1>0, SideFacts DEF TypeOK, Accept, RegisterLink, Recv, SnapshotSend,
     DecodeDone, DirtyServer, FlushDone
<1>3. CASE sendq' = sendq
  <2>1. AnswersQueued'
    BY <1>0, <1>1, <1>3 DEF AnswersQueued
  <2> QED BY <1>1, <1>2, <2>1, AnsweringServerMoves
<1>4. CASE SnapshotSend
  <2> DEFINE m == Carrying("AVAILABLE_VARIABLES", snap, Vars)
  <2>1. sendq'["server"] = Append(sendq["server"], m)
    BY <1>0, <1>4, SideFacts DEF SnapshotSend, TypeOK
  <2>2. m.type = "AVAILABLE_VARIABLES"
    BY DEF Carrying
  <2>3. /\ sendq["server"] = <<>>
        /\ fsm["server"] = "view_selection_in_progress"
    BY <1>0, <1>4 DEF SnapshotSend, AnswersQueued
  <2> HIDE DEF m
  <2>4. sendq'["server"] = <<m>>
    BY <2>1, <2>3
  <2>5. AnswersQueued'
    BY <1>1, <2>2, <2>3, <2>4 DEF AnswersQueued
  <2> QED BY <1>1, <1>2, <2>5, AnsweringServerMoves
<1>5. CASE DirtyServer /\ sendq' # sendq
  <2> DEFINE m == Carrying("VARIABLE_VALUES", sreal, sdirty)
             q == sendq["server"]
  <2>1. sendq'["server"] = Append(q, m)
    BY <1>0, <1>5, SideFacts DEF DirtyServer, TypeOK
  <2>2. m.type = "VARIABLE_VALUES" /\ m \in Message
    <3>1. sreal \in [Vars -> Version] /\ sdirty \in SUBSET Vars
      BY <1>0 DEF TypeOK, Version
    <3> QED BY <3>1, MessageFacts DEF Carrying, MessageTypes
  <2>3. q \in Seq(Message)
    BY <1>0, SideFacts, QueueFacts
  <2> HIDE DEF m, q
  <2>4. \A i \in 1..Len(Append(q, m)) :
          \/ Append(q, m)[i].type = "VARIABLE_VALUES"
          \/ i \in 1..Len(q) /\ Append(q, m)[i] = q[i]
    BY <2>2, <2>3, AppendFacts
  <2>5. AnswersQueued'
    <3>1. \A i \in 1..Len(q) :
            /\ q[i].type = "PROJECT_URL" =>
                 /\ i = 1
                 /\ \/ fsm["server"] = "connection_in_progress"
                    \/ state["server"] = "DISCONNECTED"
            /\ q[i].type = "AVAILABLE_VARIABLES" =>
                 /\ i = 1
                 /\ \/ fsm["server"] = "view_selection_in_progress"
                    \/ state["server"] = "DISCONNECTED"
      BY <1>0 DEF AnswersQueued, q
    <3> QED BY <1>1, <2>1, <2>4, <3>1 DEF AnswersQueued
  <2> QED BY <1>1, <1>2, <2>5, AnsweringServerMoves
<1>6. SnapshotSend \/ DirtyServer \/ sendq' = sendq
  BY DEF Accept, RegisterLink, Recv, DecodeDone, FlushDone
<1> QED BY <1>3, <1>4, <1>5, <1>6

\* A step of the client between messages.
LEMMA AnsweringClientSteps ==
  ASSUME Understanding, Answering,
         \/ \E n \in 0..Len(wire["client"]) : Recv("client", n)
         \/ DecodeDone("client") \/ DirtyClient \/ FlushDone("client")
         \/ SelectView \/ Disconnect
  PROVE  Answering'
<1>0. TypeOK
  BY DEF Understanding
<1>1. /\ UNCHANGED <<fsm, state, wire, error>>
      /\ phase'["server"] = phase["server"]
      /\ sendq'["server"] = sendq["server"]
      /\ phase["client"] # "closed"
      /\ phase'["client"] # "closed" =>
           held'["client"] = held["client"] \/ ~closing
  BY <1>0, SideFacts DEF TypeOK, Recv, DecodeDone, DirtyClient, FlushDone,
     SelectView, Disconnect, Command
<1>2. Live /\ ~(state["server"] = "DISCONNECTED") /\ error["server"] # "sent"
  BY <1>1 DEF Live, Answering, Goodbye, ServerFailsOnlyAfterDisconnect
<1>3. /\ Fresh("client")' <=> Fresh("client")
      /\ Fresh("server")' <=> Fresh("server")
  BY <1>1 DEF Fresh
<1>4. fsm["client"] = "disconnected" /\ ~Fresh("client") => closing
  BY <1>2 DEF Understanding, ClientEnds
<1>5. Goodbye'
  BY <1>1, <1>2, <1>3, <1>4 DEF Answering, Goodbye, Holds, Live
<1>6. AnswersComing' /\ AnswersQueued' /\ FreshTogether'
  BY <1>1, <1>2, <1>3
     DEF Answering, AnswersComing, AnswersQueued, FreshTogether, Holds
<1>7. ServerFailsOnlyAfterDisconnect'
  BY <1>1, <1>2 DEF ServerFailsOnlyAfterDisconnect
<1> QED BY <1>5, <1>6, <1>7 DEF Answering

\* A step that touches no session.
LEMMA AnsweringFrame ==
  ASSUME Answering, UNCHANGED session
  PROVE  Answering'
  BY DEF session, Answering, AnswersComing, AnswersQueued, Goodbye,
     FreshTogether, ServerFailsOnlyAfterDisconnect, Holds, Live, Fresh

\* A connection comes up.
LEMMA AnsweringConnect ==
  ASSUME Connect
  PROVE  Answering'
<1>1. /\ fsm' = [s \in Side |-> "disconnected"]
      /\ state' = [s \in Side |-> "CONNECTION_IN_PROGRESS"]
      /\ wire' = [s \in Side |-> <<>>]
      /\ error' = [s \in Side |-> "none"]
      /\ phase'["client"] = "idle" /\ phase'["server"] = "absent"
      /\ sendq'["server"] = <<>>
  BY SideFacts DEF Connect
<1> QED BY <1>1, SideFacts
        DEF Answering, AnswersComing, AnswersQueued, Goodbye,
            FreshTogether, ServerFailsOnlyAfterDisconnect, Holds, Fresh

\* What the server's diagram refuses to let go comes too late.
LEMMA RefusedTooLate ==
  ASSUME Understanding, Answering, phase["server"] = "flush",
         Len(sendq["server"]) > 0,
         ~Accepts(fsm["server"], sendq["server"][1].type)
  PROVE  ~Live /\ state["client"] = "DISCONNECTED"
<1> DEFINE t == sendq["server"][1].type
<1>1. 1 \in 1..Len(sendq["server"])
  <2>1. Len(sendq["server"]) \in Nat
    BY SideFacts, QueueFacts DEF Understanding
  <2> QED BY <2>1
<1>2. t \in FromServer /\ (t = "VARIABLE_VALUES" => fsm["server"] = "view_selected")
  BY <1>1 DEF Understanding, QueuesInOrder
<1>3. /\ Accepts("connection_in_progress", "PROJECT_URL")
      /\ Accepts("view_selection_in_progress", "AVAILABLE_VARIABLES")
      /\ Accepts("view_selected", "VARIABLE_VALUES")
  <2>1. /\ Leads("connection_in_progress", "PROJECT_URL", "connected")
        /\ Leads("view_selection_in_progress", "AVAILABLE_VARIABLES",
                 "view_selected")
        /\ Leads("view_selected", "VARIABLE_VALUES", "view_selected")
    BY DEF Leads, Transitions, HookedTransitions
  <2> QED BY <2>1, LeadsAccepts
<1>4. state["server"] = "DISCONNECTED"
  BY <1>1, <1>2, <1>3 DEF Answering, AnswersQueued, FromServer
<1> QED BY <1>4 DEF Answering, Goodbye

\* No step leaves a question unanswered.
LEMMA AnsweringNext ==
  ASSUME Understanding, Answering, [Next]_vars
  PROVE  Answering'
<1>0. TypeOK
  BY DEF Understanding
<1>1. ASSUME NEW s \in Side, Close(s, "none") PROVE Answering'
  BY <1>1, AnsweringClose
<1>2. ASSUME Flush("server") PROVE Answering'
  BY <1>0, <1>2, SideFacts, FlushFacts, AnsweringServerSends, AnsweringClose,
     RefusedTooLate
<1>3. ASSUME Flush("client") PROVE Answering'
  BY <1>0, <1>3, SideFacts, FlushFacts, AnsweringClientSends, AnsweringClose
<1>4. ASSUME UNCHANGED session PROVE Answering'
  BY <1>4, AnsweringFrame
<1>5. CASE UNCHANGED vars
  BY <1>4, <1>5 DEF vars
<1>6. CASE ServerThread
  <2>1. CASE \/ \E v \in Vars : RegisterCopy(v) \/ SnapshotRead(v)
             \/ HandshakeTimeout \/ LostConnection("server") \/ ServerStop
    BY <1>1, <1>4, <2>1, SideFacts
       DEF RegisterCopy, SnapshotRead, HandshakeTimeout, LostConnection,
           ServerStop
  <2> QED BY <1>2, <1>6, <2>1, AnsweringServerTakes, AnsweringServerSteps
          DEF ServerThread, ServerProcess
<1>7. CASE Runtime
  <2>1. CASE \/ \E v \in Vars : Request(v)
             \/ ProjectBuilt \/ LostConnection("client")
    BY <1>1, <1>4, <2>1, SideFacts DEF Request, ProjectBuilt, LostConnection
  <2> QED BY <1>3, <1>7, <2>1, AnsweringConnect, AnsweringClientTakes,
             AnsweringClientSteps DEF Runtime, ClientProcess
<1>8. CASE PluginThread
  BY <1>4, <1>8 DEF PluginThread, Publish
<1> QED BY <1>5, <1>6, <1>7, <1>8 DEF Next

\* Nothing is asked at first.
LEMMA AnsweringInit == Init => Answering
  BY SideFacts DEF Init, Answering, AnswersComing, AnswersQueued, Goodbye,
     FreshTogether, ServerFailsOnlyAfterDisconnect, Holds, Live

\* Answering, the inductive invariant, holds of every connection.
THEOREM AnsweringHolds == Spec => []Answering
<1> QED BY UnderstandingHolds, AnsweringInit, AnsweringNext, PTL DEF Spec

\* The server fails to send only when the client has said DISCONNECT and gone:
\* no other order of messages makes lt_cp_session_process fail on the server.
THEOREM ServerFailsLate == Spec => []ServerFailsOnlyAfterDisconnect
<1>1. Answering => ServerFailsOnlyAfterDisconnect
  BY DEF Answering
<1> QED BY <1>1, AnsweringHolds, PTL

\* Two sides that are idle with nothing on the way are in the same state.
LEMMA AnsweringAgrees ==
  ASSUME Understanding, Answering
  PROVE  QuietAgreement
<1> SUFFICES ASSUME \A s \in Side :
                      phase[s] = "idle" /\ wire[s] = <<>> /\ sendq[s] = <<>>
             PROVE  /\ fsm["client"] = fsm["server"]
                    /\ state["client"] = state["server"]
  BY DEF QuietAgreement
<1>1. Live /\ phase["server"] # "closed" /\ phase["client"] = "idle"
      /\ wire["server"] = <<>> /\ wire["client"] = <<>>
  BY SideFacts DEF Live
<1>2. PICK l \in Links : l[1] = fsm["client"] /\ l[3] = fsm["server"]
  BY <1>1 DEF Understanding, EndsLinked
<1>3. ~Holds(wire["client"], "PROJECT_URL")
        /\ ~Holds(wire["client"], "AVAILABLE_VARIABLES")
  BY <1>1 DEF Holds
<1>4. fsm["client"] = fsm["server"]
  BY <1>1, <1>2, <1>3 DEF Answering, AnswersComing, Links
<1>5. fsm["client"] = "disconnected" => Fresh("client") /\ Fresh("server")
  BY <1>1 DEF Understanding, ClientEnds, Answering, FreshTogether
<1>6. Mirrors(fsm["client"], state["client"])
        /\ Mirrors(fsm["server"], state["server"])
  BY SideFacts, MirrorFacts
<1>7. fsm["client"] # "disconnected" => state["client"] = state["server"]
  BY <1>4, <1>6 DEF Mirrors
<1> QED BY <1>4, <1>5, <1>7 DEF Fresh

\* When nothing is queued or on the wire, the two diagrams and the two sessions
\* are in the same state: no answer is ever missing.
THEOREM QuietSidesAgree == Spec => []QuietAgreement
<1> QED BY UnderstandingHolds, AnsweringHolds, AnsweringAgrees, PTL

-----------------------------------------------------------------------------
(* A tidy user interface sees no error: Tidy is inductive.                 *)

\* A step that leaves the client alone.
LEMMA TidyFrame ==
  ASSUME Tidy, UNCHANGED <<runtime, cdirty>>,
         phase'["client"] = phase["client"], fsm'["client"] = fsm["client"],
         state'["client"] = state["client"], sendq'["client"] = sendq["client"],
         error'["client"] = error["client"]
  PROVE  Tidy'
  BY DEF Tidy, TidyQueue, CommandsReady, TidyNeverFails, Live, Fresh, runtime

\* No step of the server or of the plugin touches the client's session.
LEMMA TidyServer ==
  ASSUME Understanding, Tidy, ServerThread \/ PluginThread
  PROVE  Tidy'
<1>0. TypeOK
  BY DEF Understanding
<1>1. ASSUME NEW why, Close("server", why) PROVE Tidy'
  <2>1. UNCHANGED <<runtime, cdirty>>
    BY <1>1 DEF Close, client
  <2> QED BY <1>0, <1>1, <2>1, SideFacts, CloseFacts, TidyFrame
<1>2. ASSUME Decode("server") PROVE Tidy'
  <2>1. /\ phase'["client"] = phase["client"] /\ fsm'["client"] = fsm["client"]
        /\ state'["client"] = state["client"] /\ error' = error
        /\ ServerTakes(wire["server"][1])
    BY <1>2, SideFacts, DecodeFacts
  <2>2. sendq'["client"] = sendq["client"] /\ UNCHANGED <<runtime, cdirty>>
    BY <1>0, <2>1, SideFacts DEF ServerTakes, TypeOK, client
  <2> QED BY <2>1, <2>2, TidyFrame
<1>3. ASSUME Flush("server") PROVE Tidy'
  <2>1. CASE Encode("server", sendq["server"][1]) /\ Len(sendq["server"]) > 0
    <3>1. UNCHANGED <<runtime, cdirty>>
      BY <2>1 DEF Encode, client
    <3> QED BY <1>0, <2>1, <3>1, SideFacts, EncodeFacts, TidyFrame
  <2> QED BY <1>0, <1>1, <1>3, <2>1, SideFacts, FlushFacts
<1>4. ASSUME UNCHANGED <<session, runtime, cdirty>> PROVE Tidy'
  BY <1>4, TidyFrame DEF session
<1>5. CASE PluginThread
  BY <1>4, <1>5 DEF PluginThread, Publish, client
<1>6. CASE \/ \E v \in Vars : RegisterCopy(v) \/ SnapshotRead(v)
           \/ HandshakeTimeout \/ LostConnection("server") \/ ServerStop
  BY <1>1, <1>4, <1>6 DEF RegisterCopy, SnapshotRead, HandshakeTimeout,
     LostConnection, ServerStop, client
<1>7. CASE \/ Accept \/ RegisterLink
           \/ \E n \in 0..Len(wire["server"]) : Recv("server", n)
           \/ SnapshotSend \/ DecodeDone("server") \/ DirtyServer
           \/ FlushDone("server")
  <2>1. /\ UNCHANGED <<fsm, state, error, runtime, cdirty>>
        /\ phase'["client"] = phase["client"]
        /\ sendq'["client"] = sendq["client"]
    BY <1>0, <1>7, SideFacts DEF TypeOK, Accept, RegisterLink, Recv,
       SnapshotSend, DecodeDone, DirtyServer, FlushDone, client
  <2> QED BY <2>1, TidyFrame
<1> QED BY <1>2, <1>3, <1>5, <1>6, <1>7 DEF ServerThread, ServerProcess

\* The client takes a message.
LEMMA TidyTakes ==
  ASSUME Understanding, Tidy, Decode("client")
  PROVE  Tidy'
<1> DEFINE q == wire["client"]
           m == q[1]
           f == fsm["client"]
<1>0. /\ phase["client"] = "decode" /\ Len(q) > 0 /\ q \in Seq(Message)
      /\ ClientTakes(m)
      /\ Leads(f, m.type, fsm'["client"]) /\ error' = error
  BY SideFacts, DecodeFacts
<1>1. Live /\ Len(q) \in Nat /\ q # <<>>
  BY <1>0, SideFacts, QueueFacts, EmptyIffZero DEF Understanding, Live
<1>2. UNCHANGED <<sendq, phase, runtime, cdirty>>
  <2> HIDE DEF m
  <2> QED BY <1>0 DEF ClientTakes
<1>3. f # "disconnected"
  BY <1>0, <1>1 DEF Understanding, ClientEnds
<1>4. m.type \in FromServer
  <2>1. 1 \in 1..Len(q)
    <3> HIDE DEF q
    <3> QED BY <1>0, <1>1
  <2> QED BY <1>1, <1>3, <2>1 DEF Understanding, ClientChain
<1>5. <<f, fsm'["client"]>> \in
        {<<"connection_in_progress", "connected">>,
         <<"view_selection_in_progress", "view_selected">>}
      \/ fsm'["client"] = f
  BY <1>0, <1>4, UsesOfServer
<1> HIDE DEF m
<1>6. TidyQueue'
  BY <1>0, <1>2, <1>3, <1>5 DEF Tidy, TidyQueue, TidyHeads, Live, Fresh, runtime
<1>7. CommandsReady' /\ TidyNeverFails'
  BY <1>0, <1>2, <1>3, <1>5
     DEF Tidy, CommandsReady, TidyNeverFails, Live, Fresh, runtime
<1> QED BY <1>6, <1>7 DEF Tidy

\* The client sends a message.
LEMMA TidySends ==
  ASSUME Understanding, Tidy, phase["client"] = "flush",
         Len(sendq["client"]) > 0, Encode("client", sendq["client"][1])
  PROVE  Tidy'
<1> DEFINE q == sendq["client"]
           m == q[1]
           f == fsm["client"]
<1>0. /\ sendq'["client"] = Tail(q)
      /\ Leads(f, m.type, fsm'["client"])
      /\ state'["client"] = IF Hooked(f, m.type) THEN StateAfterHook(m.type)
                                                 ELSE state["client"]
      /\ phase' = phase /\ error' = error
  BY SideFacts, EncodeFacts DEF Understanding
<1>1. /\ q \in Seq(Message) /\ Len(q) \in Nat /\ Len(q) > 0
      /\ Len(Tail(q)) = Len(q) - 1
      /\ \A i \in 1..(Len(q) - 1) : Tail(q)[i] = q[i + 1]
  BY SideFacts, QueueFacts, TailFacts DEF Understanding
<1>2. UNCHANGED <<runtime, cdirty>>
  BY DEF Encode, client
<1>3. Live /\ Live'
  BY <1>0 DEF Live
<1>4. m.type \in FromClient /\ (m.type = "CONNECT" => Fresh("client"))
  <2>1. 1 \in 1..Len(q)
    <3> HIDE DEF q
    <3> QED BY <1>1
  <2> QED BY <1>3, <2>1 DEF Understanding, QueuesInOrder
<1>5. /\ m.type = "UNSELECT_VIEW" => fsm'["client"] = "connected"
      /\ fsm'["client"] = "connection_in_progress" => m.type = "CONNECT"
      /\ fsm'["client"] = "disconnected" => m.type = "DISCONNECT"
      /\ m.type = "DISCONNECT" =>
           f \in {"connection_in_progress", "connected",
                  "view_selection_in_progress", "view_selected"}
  BY <1>0, <1>4, UsesOfClient
<1>6. fsm'["client"] = "disconnected" => ~Fresh("client")'
  <2>1. m.type = "DISCONNECT" => Hooked(f, m.type)
    BY <1>5 DEF Hooked, HookedTransitions
  <2> QED BY <1>0, <1>5, <2>1 DEF StateAfterHook, Fresh
<1>7. TidyQueue'
  <2> DEFINE r == Tail(q)
             k == Len(r)
  <2>0. k \in Nat /\ k = Len(q) - 1 /\ sendq'["client"] = r
    BY <1>0, <1>1
  <2>1. ~hasty =>
          /\ Len(q) <= 2
          /\ Len(q) = 2 => /\ m.type = "UNSELECT_VIEW"
                           /\ q[2].type \in {"SELECT_VIEW", "DISCONNECT"}
    BY <1>3 DEF Tidy, TidyQueue
  <2> HIDE DEF q, m, r
  <2> SUFFICES ASSUME ~hasty, k > 0
               PROVE  /\ k = 1
                      /\ <<fsm'["client"], r[1].type>> \in TidyHeads
    BY <1>0, <1>2, <2>0, SMTT(30) DEF TidyQueue, runtime
  <2>2. Len(q) = 2 /\ k = 1
    BY <1>1, <2>0, <2>1
  <2>3. r[1] = q[2]
    <3>1. 1 \in 1..(Len(q) - 1)
      BY <2>2
    <3> QED BY <1>1, <3>1 DEF r
  <2> QED BY <1>5, <2>1, <2>2, <2>3 DEF TidyHeads
<1> HIDE DEF m
<1>8. CommandsReady'
  BY <1>0, <1>2, <1>3, <1>4, <1>5, <1>6 DEF Tidy, CommandsReady, Fresh, runtime
<1>9. TidyNeverFails'
  BY <1>0, <1>2 DEF Tidy, TidyNeverFails, runtime
<1> QED BY <1>7, <1>8, <1>9 DEF Tidy

\* The client drops its end: of what a tidy user interface queued nothing is
\* refused.
LEMMA TidyClose ==
  ASSUME Understanding, Tidy, NEW why, Close("client", why),
         why = "none" \/ hasty
  PROVE  Tidy'
<1>1. /\ phase'["client"] = "closed" /\ error'["client"] = why
      /\ UNCHANGED runtime
  BY SideFacts, CloseFacts DEF Understanding, Close
<1> QED BY <1>1
        DEF Tidy, TidyQueue, CommandsReady, TidyNeverFails, Live, runtime

\* The diagram takes what is at the head of a tidy queue.
LEMMA TidyAccepted ==
  ASSUME Tidy, ~hasty, Live, Len(sendq["client"]) > 0
  PROVE  Accepts(fsm["client"], sendq["client"][1].type)
<1>1. /\ Leads("disconnected", "CONNECT", "connection_in_progress")
      /\ Leads("connected", "SELECT_VIEW", "view_selection_in_progress")
      /\ Leads("connected", "DISCONNECT", "disconnected")
      /\ Leads("view_selection_in_progress", "DISCONNECT", "disconnected")
      /\ Leads("view_selected", "DISCONNECT", "disconnected")
      /\ Leads("view_selected", "UNSELECT_VIEW", "connected")
      /\ Leads("view_selected", "MODIFY_VARIABLES", "view_selected")
  BY DEF Leads, Transitions, HookedTransitions
<1>2. <<fsm["client"], sendq["client"][1].type>> \in TidyHeads
  BY DEF Tidy, TidyQueue
<1>3. \E d : Leads(fsm["client"], sendq["client"][1].type, d)
  BY <1>1, <1>2 DEF TidyHeads
<1> QED BY <1>3, LeadsAccepts

\* What a command finds: nothing queued, or nothing but CONNECT.
LEMMA TidyCommand ==
  ASSUME Understanding, Tidy, NEW q \in Seq(Message), Command(q)
  PROVE  /\ phase'["client"] = "decode" /\ Live
         /\ UNCHANGED <<fsm, state, error, cdirty>>
         /\ sendq'["client"] = sendq["client"] \o q
         /\ sendq["client"] \in Seq(Message)
         /\ sendq["client"] = <<>> \/ Fresh("client")
         /\ fsm["client"] = "disconnected" => Fresh("client")
<1>1. /\ phase["client"] = "idle" /\ phase'["client"] = "decode"
      /\ UNCHANGED <<fsm, state, error, cdirty>>
      /\ sendq'["client"] = sendq["client"] \o q
      /\ sendq["client"] \in Seq(Message)
  BY SideFacts DEF Command, Understanding, TypeOK, client
<1>2. Live
  BY <1>1 DEF Live
<1> QED BY <1>1, <1>2 DEF Understanding, ClientEnds, Tidy, CommandsReady

\* A view is selected.
LEMMA TidySelect ==
  ASSUME Understanding, Tidy, SelectView
  PROVE  Tidy'
<1> DEFINE U == Unselect
           q == U \o <<Msg("SELECT_VIEW")>>
           f == fsm["client"]
<1>1. q \in Seq(Message) /\ Command(q)
  BY CommandMessages DEF SelectView
<1>2. /\ phase'["client"] = "decode" /\ Live
      /\ UNCHANGED <<fsm, state, error, cdirty>>
      /\ sendq'["client"] = sendq["client"] \o q
      /\ sendq["client"] = <<>> \/ Fresh("client")
      /\ f = "disconnected" => Fresh("client")
  <2> HIDE DEF q
  <2> QED BY <1>1, TidyCommand
<1>3. /\ ready /\ ready' = ready
      /\ ~hasty' => /\ ~hasty /\ cdirty = {}
                    /\ state["client"] # "VIEW_SELECTION_IN_PROGRESS"
  BY DEF SelectView
<1>4. ~Fresh("client") /\ f # "connection_in_progress"
  BY <1>2, <1>3 DEF Tidy, CommandsReady
<1>5. sendq'["client"] = q
  <2> HIDE DEF q
  <2>1. <<>> \o q = q
    BY <1>1
  <2> QED BY <1>2, <1>4, <2>1
<1>6. Mirrors(f, state["client"])
  BY SideFacts, MirrorFacts
<1>7. ~hasty' => \/ f = "connected" /\ ~IsViewSelected(state["client"])
                 \/ f = "view_selected" /\ IsViewSelected(state["client"])
  BY <1>2, <1>3, <1>4, <1>6 DEF Mirrors, IsViewSelected
<1>8. TidyQueue'
  <2> SUFFICES ASSUME ~hasty'
               PROVE  LET s == sendq'["client"] IN
                      /\ Len(s) <= 2
                      /\ Len(s) > 0 => <<f, s[1].type>> \in TidyHeads
                      /\ Len(s) = 2 =>
                           /\ s[1].type = "UNSELECT_VIEW"
                           /\ s[2].type \in {"SELECT_VIEW", "DISCONNECT"}
                      /\ cdirty = {}
    BY <1>2 DEF TidyQueue
  <2>1. CASE f = "connected" /\ ~IsViewSelected(state["client"])
    <3>1. sendq'["client"] = <<Msg("SELECT_VIEW")>>
      BY <1>5, <2>1 DEF Unselect
    <3> QED BY <1>3, <2>1, <3>1 DEF TidyHeads, Msg
  <2>2. CASE f = "view_selected" /\ IsViewSelected(state["client"])
    <3> DEFINE s == sendq'["client"]
    <3>1. s = <<Msg("UNSELECT_VIEW")>> \o <<Msg("SELECT_VIEW")>>
      BY <1>5, <2>2 DEF Unselect
    <3>2. Len(s) = 2 /\ s[1].type = "UNSELECT_VIEW" /\ s[2].type = "SELECT_VIEW"
      BY <3>1, LeavingQueue
    <3> HIDE DEF s
    <3>3. /\ Len(s) <= 2 /\ <<f, s[1].type>> \in TidyHeads
          /\ s[1].type = "UNSELECT_VIEW"
          /\ s[2].type \in {"SELECT_VIEW", "DISCONNECT"}
      BY <2>2, <3>2 DEF TidyHeads
    <3> QED BY <1>3, <3>3 DEF s
  <2> QED BY <1>7, <2>1, <2>2
<1>9. CommandsReady'
  BY <1>2, <1>4 DEF CommandsReady, Fresh
<1>10. TidyNeverFails'
  BY <1>2, <1>3 DEF Tidy, TidyNeverFails
<1> QED BY <1>8, <1>9, <1>10 DEF Tidy

\* The user disconnects.
LEMMA TidyDisconnect ==
  ASSUME Understanding, Tidy, Disconnect
  PROVE  Tidy'
<1> DEFINE e == IF IsAlive(state["client"]) THEN <<Msg("DISCONNECT")>>
                                            ELSE <<>>
           q == Unselect \o e
           f == fsm["client"]
<1>1. q \in Seq(Message) /\ Command(q)
  BY CommandMessages DEF Disconnect
<1>2. /\ phase'["client"] = "decode" /\ Live
      /\ UNCHANGED <<fsm, state, error, cdirty>>
      /\ sendq'["client"] = sendq["client"] \o q
      /\ sendq["client"] \in Seq(Message)
      /\ sendq["client"] = <<>> \/ Fresh("client")
      /\ f = "disconnected" => Fresh("client")
  <2> HIDE DEF q
  <2> QED BY <1>1, TidyCommand
<1>3. /\ ready' = ready
      /\ ~hasty' => ~hasty /\ cdirty = {}
  BY DEF Disconnect
<1>4. Mirrors(f, state["client"])
  BY SideFacts, MirrorFacts
<1>5. CASE ~IsAlive(state["client"])
  <2>1. q = <<>>
    BY <1>5 DEF Unselect, IsAlive, IsViewSelected
  <2>2. sendq'["client"] = sendq["client"]
    <3> HIDE DEF q
    <3> QED BY <1>2, <2>1, JoinEmpty
  <2>3. TidyQueue'
    BY <1>2, <1>3, <2>2 DEF Tidy, TidyQueue, Fresh
  <2>4. CommandsReady'
    BY <1>2, <1>3 DEF Tidy, CommandsReady, Fresh, Live
  <2> QED BY <1>2, <1>3, <2>3, <2>4 DEF Tidy, TidyNeverFails
<1>6. CASE IsAlive(state["client"])
  <2>1. \/ /\ f \in {"connected", "view_selection_in_progress"}
           /\ ~IsViewSelected(state["client"])
        \/ f = "view_selected" /\ IsViewSelected(state["client"])
    BY <1>4, <1>6 DEF Mirrors, IsAlive, IsViewSelected
  <2>2. ~Fresh("client")
    BY <2>1 DEF Fresh
  <2>3. sendq'["client"] = q
    <3> HIDE DEF q
    <3>1. <<>> \o q = q
      BY <1>1
    <3> QED BY <1>2, <2>2, <3>1
  <2>4. TidyQueue'
    <3> SUFFICES ASSUME ~hasty'
                 PROVE  LET s == sendq'["client"] IN
                        /\ Len(s) <= 2
                        /\ Len(s) > 0 => <<f, s[1].type>> \in TidyHeads
                        /\ Len(s) = 2 =>
                             /\ s[1].type = "UNSELECT_VIEW"
                             /\ s[2].type \in {"SELECT_VIEW", "DISCONNECT"}
                        /\ cdirty = {}
      BY <1>2 DEF TidyQueue
    <3>1. CASE ~IsViewSelected(state["client"])
      <4>1. sendq'["client"] = <<Msg("DISCONNECT")>>
        BY <1>6, <2>3, <3>1 DEF Unselect
      <4> QED BY <1>3, <2>1, <3>1, <4>1 DEF TidyHeads, Msg
    <3>2. CASE IsViewSelected(state["client"])
      <4> DEFINE s == sendq'["client"]
      <4>1. s = <<Msg("UNSELECT_VIEW")>> \o <<Msg("DISCONNECT")>>
        BY <1>6, <2>3, <3>2 DEF Unselect
      <4>2. /\ Len(s) = 2 /\ s[1].type = "UNSELECT_VIEW"
            /\ s[2].type = "DISCONNECT"
        BY <4>1, LeavingQueue
      <4> HIDE DEF s
      <4>3. /\ Len(s) <= 2 /\ <<f, s[1].type>> \in TidyHeads
            /\ s[1].type = "UNSELECT_VIEW"
            /\ s[2].type \in {"SELECT_VIEW", "DISCONNECT"}
        BY <2>1, <3>2, <4>2 DEF TidyHeads
      <4> QED BY <1>3, <4>3 DEF s
    <3> QED BY <3>1, <3>2
  <2>5. CommandsReady'
    BY <1>2, <2>1 DEF CommandsReady, Fresh
  <2> QED BY <1>2, <1>3, <2>4, <2>5 DEF Tidy, TidyNeverFails
<1> QED BY <1>5, <1>6


\* The connection comes up with CONNECT queued.
LEMMA TidyConnect ==
  ASSUME Connect
  PROVE  Tidy'
<1> DEFINE s == sendq'["client"]
<1>1. /\ s = <<Msg("CONNECT")>> /\ phase'["client"] = "idle"
      /\ fsm'["client"] = "disconnected"
      /\ state'["client"] = "CONNECTION_IN_PROGRESS"
      /\ error'["client"] = "none" /\ ready' = FALSE
  BY SideFacts DEF Connect
<1>2. Msg("CONNECT").type = "CONNECT"
  BY MsgType DEF MessageTypes
<1>3. Len(s) = 1 /\ s[1].type = "CONNECT"
  BY <1>1, <1>2
<1> HIDE DEF s
<1>4. TidyQueue'
  <2>1. /\ Len(s) <= 2 /\ Len(s) # 2
        /\ <<fsm'["client"], s[1].type>> \in TidyHeads
    BY <1>1, <1>3 DEF TidyHeads
  <2>2. phase'["client"] \notin {"decode", "dirty"}
    BY <1>1
  <2> QED BY <2>1, <2>2 DEF TidyQueue, s
<1>5. CommandsReady' /\ TidyNeverFails'
  BY <1>1 DEF CommandsReady, TidyNeverFails, Fresh
<1> QED BY <1>4, <1>5 DEF Tidy

\* A step of the client between its queue and its diagram.
LEMMA TidyPhase ==
  ASSUME Understanding, Tidy,
         \/ \E n \in 0..Len(wire["client"]) : Recv("client", n)
         \/ DecodeDone("client") \/ FlushDone("client")
         \/ \E v \in Vars : Request(v)
  PROVE  Tidy'
<1> DEFINE q == sendq["client"]
<1>0. /\ q \in Seq(Message) /\ ((q = <<>>) <=> (Len(q) = 0))
      /\ phase'["client"] = "idle" \/ phase'["client"] # "idle"
  BY SideFacts, QueueFacts, EmptyIffZero DEF Understanding
<1> HIDE DEF q
<1>1. /\ UNCHANGED <<fsm, state, sendq, error, runtime>>
      /\ phase["client"] # "closed"
      /\ \/ phase["client"] = "idle" /\ phase'["client"] = "decode"
              /\ cdirty' = cdirty
         \/ phase["client"] = "decode" /\ phase'["client"] = "dirty"
              /\ cdirty' = cdirty
         \/ phase["client"] = "idle" /\ phase'["client"] = "idle"
         \/ phase["client"] = "flush" /\ q = <<>>
              /\ phase'["client"] \in {"closed", "idle"}
  BY SideFacts DEF Recv, DecodeDone, FlushDone, Request, session, client,
     Understanding, TypeOK, q
<1>2. TidyQueue'
  <2> SUFFICES ASSUME phase'["client"] # "closed", ~hasty
               PROVE  /\ Len(q) <= 2
                      /\ Len(q) > 0 => <<fsm["client"], q[1].type>> \in TidyHeads
                      /\ Len(q) = 2 =>
                           /\ q[1].type = "UNSELECT_VIEW"
                           /\ q[2].type \in {"SELECT_VIEW", "DISCONNECT"}
                      /\ Len(q) > 0 /\ phase'["client"] \in {"decode", "dirty"}
                           => cdirty' = {} \/ Fresh("client")
    BY <1>1 DEF TidyQueue, Live, Fresh, runtime, q
  <2>1. /\ Len(q) <= 2
        /\ Len(q) > 0 => <<fsm["client"], q[1].type>> \in TidyHeads
        /\ Len(q) = 2 => /\ q[1].type = "UNSELECT_VIEW"
                         /\ q[2].type \in {"SELECT_VIEW", "DISCONNECT"}
        /\ Len(q) > 0 /\ phase["client"] \in {"decode", "dirty"} =>
             cdirty = {} \/ Fresh("client")
    BY <1>1 DEF Tidy, TidyQueue, Live, q
  <2>2. phase["client"] = "idle" /\ Len(q) > 0 => Fresh("client")
    BY <1>0 DEF Tidy, CommandsReady, q
  <2> QED BY <1>1, <2>1, <2>2
<1>3. CommandsReady'
  BY <1>1 DEF Tidy, CommandsReady, Live, Fresh, runtime, q
<1>4. TidyNeverFails'
  BY <1>1 DEF Tidy, TidyNeverFails, runtime
<1> QED BY <1>2, <1>3, <1>4 DEF Tidy

\* The requests marked dirty are queued.
LEMMA TidyDirty ==
  ASSUME Understanding, Tidy, DirtyClient
  PROVE  Tidy'
<1> DEFINE q == sendq["client"]
           m == Carrying("MODIFY_VARIABLES", creq, cdirty)
<1>0. /\ q \in Seq(Message) /\ ((q = <<>>) <=> (Len(q) = 0)) /\ Len(q) \in Nat
  BY SideFacts, QueueFacts, EmptyIffZero DEF Understanding
<1>1. /\ UNCHANGED <<fsm, state, error, runtime>>
      /\ phase["client"] = "dirty" /\ phase'["client"] = "flush" /\ Live
  BY SideFacts DEF DirtyClient, Understanding, TypeOK, Live
<1>2. CASE UNCHANGED sendq
  <2> HIDE DEF q
  <2>1. TidyQueue'
    BY <1>1, <1>2 DEF Tidy, TidyQueue, Live, Fresh, runtime
  <2> QED BY <1>1, <1>2, <2>1
          DEF Tidy, CommandsReady, TidyNeverFails, Live, Fresh, runtime
<1>3. CASE /\ IsViewSelected(state["client"]) /\ cdirty # {}
           /\ sendq' = [sendq EXCEPT !["client"] = Append(@, m)]
  <2>1. fsm["client"] = "view_selected" /\ ~Fresh("client")
    BY <1>3, SideFacts, MirrorFacts DEF Mirrors, IsViewSelected, Fresh
  <2>2. TidyQueue'
    <3> DEFINE s == sendq'["client"]
    <3>1. s = Append(q, m)
      <4> HIDE DEF m
      <4> QED BY <1>3, SideFacts DEF Understanding, TypeOK
    <3>2. m.type = "MODIFY_VARIABLES"
      BY DEF Carrying
    <3> HIDE DEF m, s
    <3>3. ~hasty => q = <<>>
      <4> HIDE DEF q
      <4> QED BY <1>0, <1>1, <1>3, <2>1 DEF Tidy, TidyQueue, q
    <3>4. ~hasty => Len(s) = 1 /\ s[1] = m
      BY <3>1, <3>3
    <3>5. ~hasty =>
            /\ Len(s) <= 2 /\ Len(s) # 2
            /\ <<fsm["client"], s[1].type>> \in TidyHeads
      <4>1. ~hasty => s[1].type = "MODIFY_VARIABLES"
        BY <3>2, <3>4
      <4>2. ~hasty => <<fsm["client"], s[1].type>> \in TidyHeads
        BY <2>1, <4>1 DEF TidyHeads
      <4> DEFINE k == Len(s)
      <4>3. ~hasty => k = 1
        BY <3>4
      <4> HIDE DEF k
      <4>4. ~hasty => k <= 2 /\ k # 2
        BY <4>3
      <4> QED BY <4>2, <4>4 DEF k
    <3> QED BY <1>1, <3>5 DEF TidyQueue, runtime, s
  <2> HIDE DEF q, m
  <2>3. CommandsReady'
    BY <1>1 DEF Tidy, CommandsReady, Live, Fresh, runtime
  <2>4. TidyNeverFails'
    BY <1>1 DEF Tidy, TidyNeverFails, runtime
  <2> QED BY <2>2, <2>3, <2>4 DEF Tidy
<1> QED BY <1>2, <1>3 DEF DirtyClient

\* The project is there, or the runtime hangs up.
LEMMA TidyBuilt ==
  ASSUME Understanding, Tidy, ProjectBuilt
  PROVE  Tidy'
<1>1. CASE Close("client", "none")
  BY <1>1, TidyClose
<1>2. CASE UNCHANGED <<session, closing, hasty, plugin, server, client>>
  <2>1. Mirrors(fsm["client"], state["client"]) /\ IsAlive(state["client"])
    BY SideFacts, MirrorFacts DEF ProjectBuilt
  <2>2. ~Fresh("client") /\ fsm["client"] # "connection_in_progress"
    BY <2>1 DEF Mirrors, IsAlive, Fresh
  <2>3. UNCHANGED <<phase, fsm, state, sendq, error, hasty, cdirty>>
    BY <1>2 DEF session, client
  <2>4. TidyQueue'
    BY <2>3 DEF Tidy, TidyQueue, Live, Fresh
  <2> QED BY <2>2, <2>3, <2>4
          DEF Tidy, CommandsReady, TidyNeverFails, Live, Fresh
<1> QED BY <1>1, <1>2 DEF ProjectBuilt

\* Every step keeps Tidy.
LEMMA TidyNext ==
  ASSUME Understanding, Tidy, [Next]_vars
  PROVE  Tidy'
<1>1. CASE UNCHANGED vars
  BY <1>1, TidyFrame DEF vars, session, client
<1>2. CASE ServerThread \/ PluginThread
  BY <1>2, TidyServer
<1>3. CASE Flush("client")
  <2>1. /\ phase["client"] = "flush" /\ Len(sendq["client"]) > 0 /\ Live
        /\ \/ Encode("client", sendq["client"][1])
           \/ Close("client", "sent")
                /\ ~Accepts(fsm["client"], sendq["client"][1].type)
    BY <1>3, SideFacts, FlushFacts DEF Understanding, Live
  <2> QED BY <2>1, TidySends, TidyClose, TidyAccepted
<1>4. CASE Runtime /\ ~Flush("client")
  BY <1>4, TidyConnect, TidyPhase, TidyTakes, TidyDirty, TidyBuilt, TidyClose,
     TidySelect, TidyDisconnect
     DEF Runtime, ClientProcess, LostConnection
<1> QED BY <1>1, <1>2, <1>3, <1>4 DEF Next

LEMMA TidyInit == Init => Tidy
<1> SUFFICES ASSUME Init PROVE Tidy
  OBVIOUS
<1>1. phase["client"] = "closed" /\ error["client"] = "none"
  BY SideFacts DEF Init
<1> QED BY <1>1 DEF Tidy, TidyQueue, CommandsReady, TidyNeverFails, Live

\* Tidy is invariant.
THEOREM TidyHolds == Spec => []Tidy
<1> QED BY UnderstandingHolds, TidyInit, TidyNext, PTL DEF Spec

\* A user interface that waits for its requests to be flushed and for its
\* selections to be answered never sees lt_cp_session_process fail.
THEOREM TidySeesNoError == Spec => []TidyNeverFails
<1>1. Tidy => TidyNeverFails
  BY DEF Tidy
<1> QED BY <1>1, TidyHolds, PTL


-----------------------------------------------------------------------------
(* What is on its way, as one stream per direction.                        *)

\* Everything in two queues end to end is in one of them.
LEMMA JoinElem ==
  ASSUME NEW p \in Seq(Message), NEW q \in Seq(Message),
         NEW i \in 1..Len(p \o q)
  PROVE  \/ \E j \in 1..Len(p) : (p \o q)[i] = p[j]
         \/ \E j \in 1..Len(q) : (p \o q)[i] = q[j]
<1>1. /\ Len(p \o q) = Len(p) + Len(q)
      /\ \A k \in 1..Len(p) : (p \o q)[k] = p[k]
      /\ \A k \in 1..Len(q) : (p \o q)[Len(p) + k] = q[k]
  BY JoinFacts
<1>2. Len(p) \in Nat /\ Len(q) \in Nat
  OBVIOUS
<1> DEFINE r == p \o q
           n == Len(p)
           k == Len(q)
           j == i - n
<1> HIDE DEF r, n, k
<1>3. CASE i \in 1..n
  BY <1>1, <1>3 DEF r, n
<1>4. CASE ~(i \in 1..n)
  <2>1. j \in 1..k /\ n + j = i
    BY <1>1, <1>2, <1>4 DEF r, n, k
  <2> HIDE DEF j
  <2> QED BY <1>1, <2>1 DEF r, n, k
<1> QED BY <1>3, <1>4

\* Three queues end to end.
LEMMA JoinAssoc ==
  ASSUME NEW p \in Seq(Message), NEW q \in Seq(Message), NEW r \in Seq(Message)
  PROVE  p \o (q \o r) = (p \o q) \o r
  OBVIOUS

\* The messages of a stream.
LEMMA StreamFacts ==
  ASSUME TypeOK
  PROVE  /\ ToClient \in Seq(Message) /\ Len(ToClient) \in Nat
         /\ ToServer \in Seq(Message) /\ Len(ToServer) \in Nat
<1>1. \A s \in Side : wire[s] \in Seq(Message) /\ sendq[s] \in Seq(Message)
  BY QueueFacts
<1>2. ToClient \in Seq(Message) /\ ToServer \in Seq(Message)
  BY <1>1, SideFacts, JoinFacts DEF ToClient, ToServer
<1> QED BY <1>2

\* A message carries values.
LEMMA CarriedFacts ==
  ASSUME NEW q \in Seq(Message), NEW i \in 1..Len(q), NEW v \in Vars
  PROVE  q[i] \in Message /\ q[i].vals[v] \in Int
                          /\ (q[i].vals[v] # NoVal => q[i].vals[v] \in Nat)
<1>1. q[i] \in Message
  OBVIOUS
<1>2. q[i].vals[v] \in Version
  BY <1>1 DEF Message
<1> QED BY <1>1, <1>2 DEF Version, NoVal

\* What Carrying carries, and what Msg does not.
LEMMA CarryingFacts ==
  ASSUME NEW t \in MessageTypes, NEW f \in [Vars -> Version], NEW D
  PROVE  /\ Carrying(t, f, D) \in Message /\ Carrying(t, f, D).type = t
         /\ \A v \in Vars : Carrying(t, f, D).vals[v]
                              = IF v \in D THEN f[v] ELSE NoVal
         /\ Msg(t) \in Message /\ Msg(t).type = t
         /\ \A v \in Vars : Msg(t).vals[v] = NoVal
  BY DEF Carrying, Msg, Message, Nothing, Version

\* The first message of a wire is taken.
LEMMA StreamTaken ==
  ASSUME NEW w \in Seq(Message), NEW q \in Seq(Message), Len(w) > 0
  PROVE  /\ Tail(w) \o q = Tail(w \o q) /\ (w \o q)[1] = w[1]
         /\ w \o q \in Seq(Message) /\ Len(w \o q) > 0
  BY JoinTail, JoinFacts

\* A wire is cut to a prefix, and what is queued behind it is lost.
LEMMA StreamCut ==
  ASSUME NEW w \in Seq(Message), NEW q \in Seq(Message),
         NEW k \in Nat, k <= Len(w)
  PROVE  LET p == SubSeq(w, 1, k) \o <<>> IN
         /\ p \in Seq(Message) /\ Len(p) \in Nat /\ Len(p) <= Len(w \o q)
         /\ \A i \in 1..Len(p) : p[i] = (w \o q)[i]
<1> DEFINE p == SubSeq(w, 1, k)
<1>1. p \in Seq(Message) /\ Len(p) = k /\ \A i \in 1..k : p[i] = w[i]
  OBVIOUS
<1>2. p \o <<>> = p
  <2> HIDE DEF p
  <2> QED BY <1>1, JoinEmpty
<1>3. /\ Len(w \o q) = Len(w) + Len(q)
      /\ \A i \in 1..Len(w) : (w \o q)[i] = w[i]
      /\ Len(w) \in Nat /\ Len(q) \in Nat
  BY JoinFacts
<1> DEFINE r == w \o q
           n == Len(w)
<1> HIDE DEF p, r, n
<1>4. \A i \in 1..k : i \in 1..n
  BY <1>3 DEF n
<1>5. /\ p \in Seq(Message) /\ Len(p) \in Nat /\ Len(p) <= Len(r)
      /\ \A i \in 1..Len(p) : p[i] = r[i]
  BY <1>1, <1>3, <1>4 DEF r, n
<1> QED BY <1>2, <1>5 DEF p, r

-----------------------------------------------------------------------------
(* What a stream carries, when it grows, shrinks, or is cut.               *)

\* EndsIn says what Latest computes.
LEMMA EndsLatest ==
  ASSUME NEW q \in Seq(Message), NEW v \in Vars, NEW old, NEW x,
         EndsIn(q, v, old, x)
  PROVE  Latest(q, v, old) = x
<1> DEFINE C == {i \in DOMAIN q : q[i].vals[v] # NoVal}
<1>0. DOMAIN q = 1..Len(q) /\ Len(q) \in Nat
  OBVIOUS
<1>1. CASE old = x /\ \A i \in 1..Len(q) : q[i].vals[v] = NoVal
  <2>1. C = {}
    BY <1>0, <1>1
  <2> QED BY <1>1, <2>1 DEF Latest
<1>2. CASE \E i \in 1..Len(q) : /\ q[i].vals[v] = x /\ x # NoVal
                                /\ \A j \in (i + 1)..Len(q) : q[j].vals[v] = NoVal
  <2>1. PICK i \in 1..Len(q) :
          /\ q[i].vals[v] = x /\ x # NoVal
          /\ \A j \in (i + 1)..Len(q) : q[j].vals[v] = NoVal
    BY <1>2
  <2>2. i \in C /\ \A j \in C : j \in Nat /\ j <= i
    <3>1. i \in C
      BY <1>0, <2>1
    <3>2. ASSUME NEW j \in C PROVE j \in Nat /\ j <= i
      <4>1. j \in 1..Len(q) /\ q[j].vals[v] # NoVal
        BY <1>0
      <4>2. ~(j \in (i + 1)..Len(q))
        BY <2>1, <4>1
      <4> DEFINE n == Len(q)
      <4>3. n \in Nat /\ i \in 1..n /\ j \in 1..n /\ ~(j \in (i + 1)..n)
        BY <1>0, <2>1, <4>1, <4>2
      <4> HIDE DEF n, C
      <4> QED BY <4>3
    <3> QED BY <3>1, <3>2
  <2> DEFINE c == CHOOSE k \in C : \A j \in C : j <= k
  <2>3. c \in C /\ \A j \in C : j <= c
    <3> HIDE DEF C
    <3> QED BY <2>2
  <2> HIDE DEF c
  <2>4. c = i
    <3> HIDE DEF C
    <3> QED BY <1>0, <2>1, <2>2, <2>3
  <2>5. C # {}
    BY <2>2
  <2>6. Latest(q, v, old) = q[c].vals[v]
    BY <2>5 DEF Latest, c
  <2> QED BY <2>1, <2>4, <2>6
<1> QED BY <1>1, <1>2 DEF EndsIn

\* A message at the end: what it carries is the last value.
LEMMA EndsAppend ==
  ASSUME NEW q \in Seq(Message), NEW m \in Message, NEW v \in Vars,
         NEW old, NEW x,
         \/ m.vals[v] # NoVal /\ m.vals[v] = x
         \/ m.vals[v] = NoVal /\ EndsIn(q, v, old, x)
  PROVE  EndsIn(Append(q, m), v, old, x)
<1> DEFINE a == Append(q, m)
           n == Len(q)
<1>1. /\ a \in Seq(Message) /\ Len(a) = n + 1 /\ n \in Nat
      /\ \A i \in 1..n : a[i] = q[i]
      /\ a[n + 1] = m
  BY AppendFacts
<1> HIDE DEF a, n
<1>2. CASE m.vals[v] # NoVal /\ m.vals[v] = x
  <2>1. n + 1 \in 1..Len(a) /\ \A j \in ((n + 1) + 1)..Len(a) : FALSE
    BY <1>1
  <2> QED BY <1>1, <1>2, <2>1 DEF EndsIn, a
<1>3. CASE m.vals[v] = NoVal /\ EndsIn(q, v, old, x)
  <2>1. \A j \in 1..Len(a) : j \in 1..n \/ j = n + 1
    BY <1>1
  <2>2. CASE old = x /\ \A i \in 1..n : q[i].vals[v] = NoVal
    <3>1. \A j \in 1..Len(a) : a[j].vals[v] = NoVal
      BY <1>1, <1>3, <2>1, <2>2
    <3> QED BY <2>2, <3>1 DEF EndsIn, a
  <2>3. CASE \E i \in 1..n : /\ q[i].vals[v] = x /\ x # NoVal
                             /\ \A j \in (i + 1)..n : q[j].vals[v] = NoVal
    <3>1. PICK i \in 1..n : /\ q[i].vals[v] = x /\ x # NoVal
                            /\ \A j \in (i + 1)..n : q[j].vals[v] = NoVal
      BY <2>3
    <3>2. i \in 1..Len(a) /\ a[i].vals[v] = x
      BY <1>1, <3>1
    <3>3. ASSUME NEW j \in (i + 1)..Len(a) PROVE a[j].vals[v] = NoVal
      <4>1. (j \in (i + 1)..n /\ j \in 1..n) \/ j = n + 1
        BY <1>1, <3>1
      <4> QED BY <1>1, <1>3, <3>1, <4>1
    <3> QED BY <3>1, <3>2, <3>3 DEF EndsIn, a
  <2> QED BY <1>3, <2>2, <2>3 DEF EndsIn, n
<1> QED BY <1>2, <1>3 DEF a

\* A message at the head is taken: its value is the old one now.
LEMMA EndsTail ==
  ASSUME NEW q \in Seq(Message), Len(q) > 0, NEW v \in Vars,
         NEW old, NEW new, NEW x, EndsIn(q, v, old, x),
         \/ new = IF q[1].vals[v] = NoVal THEN old ELSE q[1].vals[v]
         \/ \E i \in 2..Len(q) : q[i].vals[v] # NoVal
  PROVE  EndsIn(Tail(q), v, new, x)
<1> DEFINE r == Tail(q)
           n == Len(q)
           k == Len(r)
<1>1. /\ r \in Seq(Message) /\ k = n - 1 /\ n \in Nat /\ n > 0
      /\ \A i \in 1..(n - 1) : r[i] = q[i + 1]
  BY TailFacts
<1> HIDE DEF r, n, k
<1>2. k \in Nat /\ \A i \in 1..k : i + 1 \in 1..n /\ r[i] = q[i + 1]
  BY <1>1
<1>3. CASE old = x /\ \A i \in 1..n : q[i].vals[v] = NoVal
  <2>1. \A i \in 1..k : r[i].vals[v] = NoVal
    BY <1>2, <1>3
  <2>2. new = x
    <3>1. 1 \in 1..n /\ \A i \in 2..n : i \in 1..n
      BY <1>1
    <3>2. q[1].vals[v] = NoVal /\ ~\E i \in 2..n : q[i].vals[v] # NoVal
      BY <1>3, <3>1
    <3> QED BY <1>3, <3>2 DEF n
  <2> QED BY <2>1, <2>2 DEF EndsIn, r, k
<1>4. CASE \E i \in 1..n : /\ q[i].vals[v] = x /\ x # NoVal
                           /\ \A j \in (i + 1)..n : q[j].vals[v] = NoVal
  <2>1. PICK i \in 1..n : /\ q[i].vals[v] = x /\ x # NoVal
                          /\ \A j \in (i + 1)..n : q[j].vals[v] = NoVal
    BY <1>4
  <2>2. CASE i = 1
    <3>1. \A j \in 2..n : q[j].vals[v] = NoVal
      BY <2>1, <2>2
    <3>2. new = x
      BY <2>1, <2>2, <3>1 DEF n
    <3>3. \A j \in 1..k : j + 1 \in 2..n
      BY <1>1, <1>2
    <3>4. \A j \in 1..k : r[j].vals[v] = NoVal
      BY <1>2, <3>1, <3>3
    <3> QED BY <3>2, <3>4 DEF EndsIn, r, k
  <2>3. CASE i # 1
    <3> DEFINE l == i - 1
    <3>1. l \in 1..k /\ l + 1 = i
      BY <1>1, <2>1, <2>3
    <3>2. \A j \in (l + 1)..k : j + 1 \in (i + 1)..n /\ j \in 1..k
      BY <1>1, <2>1, <2>3
    <3> HIDE DEF l
    <3>3. r[l].vals[v] = x
      BY <1>2, <2>1, <3>1
    <3>4. \A j \in (l + 1)..k : r[j].vals[v] = NoVal
      BY <1>2, <2>1, <3>2
    <3> QED BY <2>1, <3>1, <3>3, <3>4 DEF EndsIn, r, k
  <2> QED BY <2>2, <2>3
<1> QED BY <1>3, <1>4 DEF EndsIn, n, r


\* A climbing stream still climbs between wider bounds.
LEMMA ClimbsWiden ==
  ASSUME NEW q \in Seq(Message), NEW v \in Vars, NEW lo \in Int, NEW hi \in Int,
         NEW lo2 \in Int, NEW hi2 \in Int, Climbs(q, v, lo, hi),
         lo2 <= lo, hi <= hi2
  PROVE  Climbs(q, v, lo2, hi2)
<1>1. ASSUME NEW i \in 1..Len(q), q[i].vals[v] # NoVal
      PROVE  lo2 <= q[i].vals[v] /\ q[i].vals[v] <= hi2
  <2>1. q[i].vals[v] \in Int
    BY CarriedFacts
  <2>2. lo <= q[i].vals[v] /\ q[i].vals[v] <= hi
    BY <1>1 DEF Climbs
  <2> DEFINE x == q[i].vals[v]
  <2> HIDE DEF x
  <2>3. lo2 <= x /\ x <= hi2
    BY <2>1, <2>2 DEF x
  <2> QED BY <2>3 DEF x
<1> QED BY <1>1 DEF Climbs

\* A message at the end that carries the newest value, or none.
LEMMA ClimbsAppend ==
  ASSUME NEW q \in Seq(Message), NEW m \in Message, NEW v \in Vars,
         NEW lo \in Int, NEW hi \in Int, Climbs(q, v, lo, hi),
         m.vals[v] = NoVal \/ m.vals[v] = hi, lo <= hi
  PROVE  Climbs(Append(q, m), v, lo, hi)
<1> DEFINE a == Append(q, m)
           n == Len(q)
<1>1. /\ a \in Seq(Message) /\ Len(a) = n + 1 /\ n \in Nat
      /\ \A i \in 1..n : a[i] = q[i]
      /\ a[n + 1] = m
  BY AppendFacts
<1>2. \A i \in 1..Len(a) : a[i].vals[v] \in Int
  BY <1>1, CarriedFacts
<1>3. \A i \in 1..n : q[i].vals[v] # NoVal =>
        /\ lo <= q[i].vals[v] /\ q[i].vals[v] <= hi
        /\ \A j \in i..n : q[j].vals[v] # NoVal => q[i].vals[v] <= q[j].vals[v]
  BY DEF Climbs
<1> HIDE DEF a, n
<1>4. \A j \in 1..Len(a) : j \in 1..n \/ j = n + 1
  BY <1>1
<1>5. \A i \in 1..Len(a) : a[i].vals[v] # NoVal =>
        lo <= a[i].vals[v] /\ a[i].vals[v] <= hi
  BY <1>1, <1>3, <1>4
<1>6. ASSUME NEW i \in 1..Len(a), NEW j \in i..Len(a),
             a[i].vals[v] # NoVal, a[j].vals[v] # NoVal
      PROVE  a[i].vals[v] <= a[j].vals[v]
  <2>1. i \in 1..Len(a) /\ j \in 1..Len(a) /\ i <= j
    BY <1>1
  <2>2. CASE j = n + 1
    <3>1. a[j].vals[v] = hi
      BY <1>1, <1>6, <2>2
    <3> QED BY <1>5, <1>6, <3>1
  <2>3. CASE j \in 1..n
    <3>1. i \in 1..n /\ j \in i..n
      BY <1>1, <2>1, <2>3
    <3> QED BY <1>1, <1>3, <1>6, <2>3, <3>1
  <2> QED BY <1>4, <2>1, <2>2, <2>3
<1> QED BY <1>5, <1>6 DEF Climbs, a

\* A message at the head is taken: the stream climbs from its value.
LEMMA ClimbsTail ==
  ASSUME NEW q \in Seq(Message), Len(q) > 0, NEW v \in Vars,
         NEW lo \in Int, NEW hi \in Int, Climbs(q, v, lo, hi), lo <= hi,
         NEW new, new = lo \/ (new = q[1].vals[v] /\ q[1].vals[v] # NoVal)
  PROVE  Climbs(Tail(q), v, new, hi) /\ lo <= new /\ new <= hi /\ new \in Int
<1> DEFINE r == Tail(q)
           n == Len(q)
           k == Len(r)
<1>1. /\ r \in Seq(Message) /\ k = n - 1 /\ n \in Nat /\ n > 0
      /\ \A i \in 1..(n - 1) : r[i] = q[i + 1]
  BY TailFacts
<1>2. \A i \in 1..n : q[i].vals[v] \in Int
  BY CarriedFacts
<1>3. \A i \in 1..n : q[i].vals[v] # NoVal =>
        /\ lo <= q[i].vals[v] /\ q[i].vals[v] <= hi
        /\ \A j \in i..n : q[j].vals[v] # NoVal => q[i].vals[v] <= q[j].vals[v]
  BY DEF Climbs
<1> HIDE DEF r, n, k
<1>4. 1 \in 1..n /\ \A i \in 1..n : i \in 1..n
  BY <1>1
<1>5. /\ lo <= new /\ new <= hi /\ new \in Int
      /\ \A j \in 1..n : q[j].vals[v] # NoVal => new <= q[j].vals[v]
  <2>1. CASE new = lo
    BY <1>3, <2>1
  <2>2. CASE new = q[1].vals[v] /\ q[1].vals[v] # NoVal
    BY <1>2, <1>3, <1>4, <2>2
  <2> QED BY <2>1, <2>2
<1>6. \A i \in 1..k : i + 1 \in 1..n /\ r[i] = q[i + 1]
  BY <1>1
<1>7. \A i \in 1..k : r[i].vals[v] # NoVal =>
        new <= r[i].vals[v] /\ r[i].vals[v] <= hi
  BY <1>3, <1>5, <1>6
<1>8. ASSUME NEW i \in 1..k, NEW j \in i..k,
             r[i].vals[v] # NoVal, r[j].vals[v] # NoVal
      PROVE  r[i].vals[v] <= r[j].vals[v]
  <2>1. j \in 1..k /\ j + 1 \in (i + 1)..n
    BY <1>1
  <2> QED BY <1>3, <1>6, <1>8, <2>1
<1>9. Climbs(r, v, new, hi)
  BY <1>7, <1>8 DEF Climbs, k
<1> QED BY <1>5, <1>9 DEF r

\* What is left of a stream that is cut still climbs.
LEMMA ClimbsCut ==
  ASSUME NEW q \in Seq(Message), NEW p \in Seq(Message), NEW v \in Vars,
         NEW lo, NEW hi, Climbs(q, v, lo, hi),
         Len(p) \in Nat, Len(q) \in Nat, Len(p) <= Len(q),
         \A i \in 1..Len(p) : p[i] = q[i]
  PROVE  Climbs(p, v, lo, hi)
<1> DEFINE n == Len(q)
           k == Len(p)
<1>1. \A i \in 1..n : q[i].vals[v] # NoVal =>
        /\ lo <= q[i].vals[v] /\ q[i].vals[v] <= hi
        /\ \A j \in i..n : q[j].vals[v] # NoVal => q[i].vals[v] <= q[j].vals[v]
  BY DEF Climbs
<1>2. k \in Nat /\ n \in Nat /\ k <= n /\ \A i \in 1..k : p[i] = q[i]
  OBVIOUS
<1> HIDE DEF n, k
<1>3. \A i \in 1..k : /\ i \in 1..n
                      /\ \A j \in i..k : j \in i..n /\ j \in 1..k
  BY <1>2
<1>4. \A i \in 1..k : p[i].vals[v] # NoVal =>
        /\ lo <= p[i].vals[v] /\ p[i].vals[v] <= hi
        /\ \A j \in i..k : p[j].vals[v] # NoVal => p[i].vals[v] <= p[j].vals[v]
  BY <1>1, <1>2, <1>3
<1> QED BY <1>4 DEF Climbs, k

\* An empty stream.
LEMMA NothingCarried ==
  ASSUME NEW q, q = <<>>, NEW v
  PROVE  /\ \A old : EndsIn(q, v, old, old)
         /\ \A lo, hi : Climbs(q, v, lo, hi)
         /\ OnlyRequests(q) /\ WholeAnswers(q)
         /\ \A t : ~Holds(q, t)
<1>1. \A i \in 1..Len(q) : FALSE
  OBVIOUS
<1> QED BY <1>1 DEF EndsIn, Climbs, OnlyRequests, WholeAnswers, Holds

\* What every message of a stream is like, one more or fewer.
LEMMA KindsAppend ==
  ASSUME NEW q \in Seq(Message), NEW m \in Message
  PROVE  /\ OnlyRequests(q)
              /\ (\A v \in Vars :
                    m.vals[v] # NoVal => m.type = "MODIFY_VARIABLES")
              => OnlyRequests(Append(q, m))
         /\ WholeAnswers(q)
              /\ (m.type = "AVAILABLE_VARIABLES" =>
                    \A v \in Vars : m.vals[v] # NoVal)
              => WholeAnswers(Append(q, m))
<1> DEFINE a == Append(q, m)
           n == Len(q)
<1>1. /\ Len(a) = n + 1 /\ n \in Nat
      /\ \A i \in 1..n : a[i] = q[i]
      /\ a[n + 1] = m
  BY AppendFacts
<1> HIDE DEF a, n
<1>2. \A i \in 1..Len(a) : (i \in 1..n /\ a[i] = q[i]) \/ a[i] = m
  BY <1>1
<1>3. OnlyRequests(q)
        /\ (\A v \in Vars : m.vals[v] # NoVal => m.type = "MODIFY_VARIABLES")
        => OnlyRequests(a)
  BY <1>2 DEF OnlyRequests, n
<1>4. WholeAnswers(q)
        /\ (m.type = "AVAILABLE_VARIABLES" =>
              \A v \in Vars : m.vals[v] # NoVal)
        => WholeAnswers(a)
  BY <1>2 DEF WholeAnswers, n
<1> QED BY <1>3, <1>4 DEF a

LEMMA KindsTail ==
  ASSUME NEW q \in Seq(Message), Len(q) > 0
  PROVE  /\ OnlyRequests(q) => OnlyRequests(Tail(q))
         /\ WholeAnswers(q) => WholeAnswers(Tail(q))
         /\ \A t : Holds(Tail(q), t) =>
              \E i \in 2..Len(q) : q[i].type = t
<1> DEFINE r == Tail(q)
           n == Len(q)
           k == Len(r)
<1>1. /\ k = n - 1 /\ n \in Nat /\ n > 0
      /\ \A i \in 1..(n - 1) : r[i] = q[i + 1]
  BY TailFacts
<1> HIDE DEF r, n, k
<1>2. \A i \in 1..k : i + 1 \in 2..n /\ i + 1 \in 1..n /\ r[i] = q[i + 1]
  BY <1>1
<1>3. OnlyRequests(q) => OnlyRequests(r)
  BY <1>2 DEF OnlyRequests, n, k
<1>4. WholeAnswers(q) => WholeAnswers(r)
  BY <1>2 DEF WholeAnswers, n, k
<1>5. ASSUME NEW t, Holds(r, t) PROVE \E i \in 2..n : q[i].type = t
  <2>1. PICK i \in 1..k : r[i].type = t
    BY <1>5 DEF Holds, k
  <2> QED BY <1>2, <2>1
<1> QED BY <1>3, <1>4, <1>5 DEF r, n

LEMMA KindsCut ==
  ASSUME NEW q \in Seq(Message), NEW p \in Seq(Message),
         Len(p) \in Nat, Len(q) \in Nat, Len(p) <= Len(q),
         \A i \in 1..Len(p) : p[i] = q[i]
  PROVE  /\ OnlyRequests(q) => OnlyRequests(p)
         /\ WholeAnswers(q) => WholeAnswers(p)
<1> DEFINE n == Len(q)
           k == Len(p)
<1>1. k \in Nat /\ n \in Nat /\ k <= n /\ \A i \in 1..k : p[i] = q[i]
  OBVIOUS
<1> HIDE DEF n, k
<1>2. \A i \in 1..k : i \in 1..n /\ p[i] = q[i]
  BY <1>1
<1>3. OnlyRequests(q) => OnlyRequests(p)
  BY <1>2 DEF OnlyRequests, n, k
<1>4. WholeAnswers(q) => WholeAnswers(p)
  BY <1>2 DEF WholeAnswers, n, k
<1> QED BY <1>3, <1>4


\* Messages at the end that carry nothing.
LEMMA JoinSilent ==
  ASSUME NEW p \in Seq(Message), NEW q \in Seq(Message),
         \A i \in 1..Len(q) : \A v \in Vars : q[i].vals[v] = NoVal
  PROVE  /\ \A v \in Vars : \A old, x :
              EndsIn(p, v, old, x) => EndsIn(p \o q, v, old, x)
         /\ OnlyRequests(p) => OnlyRequests(p \o q)
<1> DEFINE r == p \o q
           n == Len(p)
           k == Len(q)
<1>1. /\ r \in Seq(Message) /\ Len(r) = n + k /\ n \in Nat /\ k \in Nat
      /\ \A i \in 1..n : r[i] = p[i]
      /\ \A i \in 1..Len(r) : \/ \E j \in 1..n : r[i] = p[j]
                              \/ \E j \in 1..k : r[i] = q[j]
      /\ \A i \in 1..k : r[n + i] = q[i]
  BY JoinFacts, JoinElem
<1> HIDE DEF r, n, k
<1>2. \A i \in 1..n : i \in 1..Len(r)
  BY <1>1
<1>3. OnlyRequests(p) => OnlyRequests(r)
  BY <1>1, SMTT(30) DEF OnlyRequests, n, k
<1>4. ASSUME NEW i \in 1..Len(r), ~(i \in 1..n), NEW v \in Vars
      PROVE  r[i].vals[v] = NoVal
  <2>1. PICK j \in 1..k : i = n + j
    <3>1. i - n \in 1..k /\ i = n + (i - n)
      BY <1>1, <1>4
    <3> QED BY <3>1
  <2> QED BY <1>1, <2>1 DEF k
<1>5. ASSUME NEW v \in Vars, NEW old, NEW x, EndsIn(p, v, old, x)
      PROVE  EndsIn(r, v, old, x)
  <2>1. CASE old = x /\ \A i \in 1..n : p[i].vals[v] = NoVal
    <3>1. \A i \in 1..Len(r) : r[i].vals[v] = NoVal
      BY <1>1, <1>4, <2>1
    <3> QED BY <2>1, <3>1 DEF EndsIn
  <2>2. CASE \E i \in 1..n : /\ p[i].vals[v] = x /\ x # NoVal
                             /\ \A j \in (i + 1)..n : p[j].vals[v] = NoVal
    <3>1. PICK i \in 1..n : /\ p[i].vals[v] = x /\ x # NoVal
                            /\ \A j \in (i + 1)..n : p[j].vals[v] = NoVal
      BY <2>2
    <3>2. i \in 1..Len(r) /\ r[i].vals[v] = x
      BY <1>1, <1>2, <3>1
    <3>3. ASSUME NEW j \in (i + 1)..Len(r) PROVE r[j].vals[v] = NoVal
      <4>1. j \in 1..Len(r) /\ (j \in 1..n => j \in (i + 1)..n)
        BY <1>1, <3>1
      <4> QED BY <1>1, <1>4, <3>1, <4>1
    <3> QED BY <3>1, <3>2, <3>3 DEF EndsIn
  <2> QED BY <1>5, <2>1, <2>2 DEF EndsIn, n
<1> QED BY <1>3, <1>5 DEF r

-----------------------------------------------------------------------------
(* No request is lost: RequestsOnTheWay is inductive.                      *)

\* Nothing that reopens a connection but Connect.
LEMMA StaysClosed ==
  ASSUME TypeOK, Next, ~Connect
  PROVE  \A s \in Side : phase[s] = "closed" => phase'[s] = "closed"
<1>1. ASSUME NEW s \in Side, NEW why, Close(s, why)
      PROVE  \A u \in Side : phase[u] = "closed" => phase'[u] = "closed"
  BY <1>1, CloseFacts, PeerFacts
<1>2. CASE PluginThread
  BY <1>2 DEF PluginThread, Publish, session
<1>3. ASSUME NEW s \in Side, Decode(s)
      PROVE  \A u \in Side : phase[u] = "closed" => phase'[u] = "closed"
  <2>1. phase[s] = "decode"
    BY <1>3 DEF Decode
  <2>2. CASE Close(s, "received")
    BY <1>1, <2>2
  <2>3. CASE ServerTakes(Head(wire[s])) /\ s = "server"
    BY <2>1, <2>3, SideFacts DEF ServerTakes, TypeOK
  <2>4. CASE ClientTakes(Head(wire[s]))
    BY <2>4 DEF ClientTakes
  <2> QED BY <1>3, <2>2, <2>3, <2>4 DEF Decode
<1>4. ASSUME NEW s \in Side, Flush(s)
      PROVE  \A u \in Side : phase[u] = "closed" => phase'[u] = "closed"
  BY <1>1, <1>4 DEF Flush, Encode
<1>5. CASE ServerThread
  <2>1. CASE \/ \E n \in 0..Len(wire["server"]) : Recv("server", n)
             \/ SnapshotSend \/ DecodeDone("server") \/ DirtyServer
             \/ FlushDone("server") \/ Accept \/ RegisterLink
    BY <2>1, SideFacts DEF Recv, SnapshotSend, DecodeDone, DirtyServer,
       FlushDone, Accept, RegisterLink, TypeOK
  <2>2. CASE \E v \in Vars : RegisterCopy(v) \/ SnapshotRead(v)
    BY <2>2 DEF RegisterCopy, SnapshotRead, session
  <2>3. CASE LostConnection("server") \/ ServerStop \/ HandshakeTimeout
    <3>1. CASE UNCHANGED session
      BY <3>1 DEF session
    <3> QED BY <1>1, <2>3, <3>1, SideFacts
            DEF LostConnection, ServerStop, HandshakeTimeout
  <2> QED BY <1>3, <1>4, <1>5, <2>1, <2>2, <2>3, SideFacts
          DEF ServerThread, ServerProcess
<1>6. CASE Runtime
  <2>1. CASE \/ \E n \in 0..Len(wire["client"]) : Recv("client", n)
             \/ DecodeDone("client") \/ DirtyClient \/ FlushDone("client")
    BY <2>1, SideFacts DEF Recv, DecodeDone, DirtyClient, FlushDone, TypeOK
  <2>2. CASE \E v \in Vars : Request(v)
    BY <2>2 DEF Request, session
  <2>3. CASE SelectView \/ Disconnect
    <3>1. phase["client"] = "idle"
            /\ phase' = [phase EXCEPT !["client"] = "decode"]
      BY <2>3 DEF SelectView, Disconnect, Command
    <3> QED BY <3>1, SideFacts DEF TypeOK
  <2>4. CASE LostConnection("client") \/ ProjectBuilt
    <3>1. CASE UNCHANGED session
      BY <3>1 DEF session
    <3>2. CASE Close("client", "none")
      BY <1>1, <3>2, SideFacts
    <3> QED BY <2>4, <3>1, <3>2 DEF LostConnection, ProjectBuilt, session
  <2> QED BY <1>3, <1>4, <1>6, <2>1, <2>2, <2>3, <2>4, SideFacts
          DEF Runtime, ClientProcess
<1> QED BY <1>2, <1>5, <1>6 DEF Next

\* A step that touches neither the requests nor what carries them.
LEMMA RequestsFrame ==
  ASSUME RequestsOnTheWay, ToServer' = ToServer,
         UNCHANGED <<preq, creq, cdirty>>, Open' => Open
  PROVE  RequestsOnTheWay'
<1> DEFINE q == ToServer
           r == ToServer'
<1> HIDE DEF q, r
<1>1. OnlyRequests(r)
  BY DEF RequestsOnTheWay, q, r
<1>2. OnlyRequests(ToServer)'
  BY <1>1 DEF OnlyRequests, r
<1>3. Open' => \A v \in Vars \ cdirty' :
        creq'[v] # 0 => EndsIn(r, v, preq'[v], creq'[v])
  BY DEF RequestsOnTheWay, q, r
<1> QED BY <1>2, <1>3 DEF RequestsOnTheWay, EndsIn, r


\* What has to be shown of the stream after a step.
LEMMA RequestsStep ==
  ASSUME NEW r, ToServer' = r, OnlyRequests(r),
         Open' => \A v \in Vars \ cdirty' :
           creq'[v] # 0 => EndsIn(r, v, preq'[v], creq'[v])
  PROVE  RequestsOnTheWay'
<1>1. OnlyRequests(ToServer)'
  BY DEF OnlyRequests
<1> QED BY <1>1 DEF RequestsOnTheWay, EndsIn

\* The server takes a message: requests reach the plugin.
LEMMA RequestsTaken ==
  ASSUME Understanding, RequestsOnTheWay, Decode("server"), Open' => Open
  PROVE  RequestsOnTheWay'
<1> DEFINE w == wire["server"]
           u == sendq["client"]
           q == ToServer
           m == w[1]
<1>0. /\ Len(w) > 0 /\ w \in Seq(Message) /\ m \in Message /\ ServerTakes(m)
      /\ wire'["server"] = Tail(w)
  BY SideFacts, DecodeFacts
<1>1. TypeOK /\ u \in Seq(Message) /\ q \in Seq(Message)
  BY SideFacts, QueueFacts, StreamFacts DEF Understanding
<1>2. /\ sendq'["client"] = u /\ UNCHANGED <<creq, cdirty>>
      /\ preq' = IF m.type = "MODIFY_VARIABLES" THEN Overwrite(preq, m) ELSE preq
  <2> HIDE DEF m
  <2> QED BY <1>0, <1>1, SideFacts DEF ServerTakes, TypeOK, client
<1>3. ToServer' = Tail(q) /\ q[1] = m /\ Len(q) > 0
  <2> HIDE DEF m
  <2>1. Tail(w) \o u = Tail(w \o u) /\ (w \o u)[1] = w[1] /\ Len(w \o u) > 0
    BY <1>0, <1>1, StreamTaken
  <2> QED BY <1>0, <1>2, <2>1 DEF ToServer, m
<1> HIDE DEF q, m
<1>4. OnlyRequests(q)
  BY DEF RequestsOnTheWay, q
<1>5. \A v \in Vars : preq'[v] = IF m.vals[v] = NoVal THEN preq[v] ELSE m.vals[v]
  <2>1. 1 \in 1..Len(q)
    BY <1>1, <1>3
  <2>2. \A v \in Vars : m.vals[v] # NoVal => m.type = "MODIFY_VARIABLES"
    BY <1>3, <1>4, <2>1 DEF OnlyRequests
  <2> QED BY <1>2, <2>2 DEF Overwrite
<1>6. ASSUME Open', NEW v \in Vars \ cdirty', creq'[v] # 0
      PROVE  EndsIn(Tail(q), v, preq'[v], creq'[v])
  <2>1. EndsIn(q, v, preq[v], creq[v])
    BY <1>2, <1>6 DEF RequestsOnTheWay, q
  <2> QED BY <1>1, <1>2, <1>3, <1>5, <2>1, EndsTail
<1>7. OnlyRequests(Tail(q))
  BY <1>1, <1>3, <1>4, KindsTail
<1> QED BY <1>3, <1>6, <1>7, RequestsStep

\* The client sends a message: it stays where it is in the stream.
LEMMA RequestsSent ==
  ASSUME Understanding, RequestsOnTheWay, Len(sendq["client"]) > 0,
         Encode("client", sendq["client"][1])
  PROVE  RequestsOnTheWay'
<1> DEFINE w == wire["server"]
           u == sendq["client"]
<1>1. TypeOK /\ w \in Seq(Message) /\ u \in Seq(Message)
  BY SideFacts, QueueFacts DEF Understanding
<1>2. /\ sendq'["client"] = Tail(u) /\ wire'["server"] = Append(w, u[1])
      /\ phase' = phase
  BY <1>1, SideFacts, EncodeFacts
<1>3. Append(w, u[1]) \o Tail(u) = w \o u
  BY <1>1, JoinMove
<1>4. ToServer' = ToServer
  BY <1>2, <1>3 DEF ToServer
<1>5. UNCHANGED <<preq, creq, cdirty>>
  BY DEF Encode, plugin, client
<1> QED BY <1>2, <1>4, <1>5, RequestsFrame DEF Open

\* The requests marked dirty are queued.
LEMMA RequestsQueued ==
  ASSUME Understanding, RequestsOnTheWay, DirtyClient, Open' => Open
  PROVE  RequestsOnTheWay'
<1> DEFINE w == wire["server"]
           u == sendq["client"]
           q == ToServer
           m == Carrying("MODIFY_VARIABLES", creq, cdirty)
<1>1. /\ TypeOK /\ w \in Seq(Message) /\ u \in Seq(Message)
      /\ q \in Seq(Message)
  BY SideFacts, QueueFacts, StreamFacts DEF Understanding
<1>2. UNCHANGED <<wire, preq, creq>>
  BY DEF DirtyClient, plugin
<1>3. CASE UNCHANGED <<sendq, cdirty>>
  BY <1>2, <1>3, RequestsFrame DEF ToServer
<1>4. CASE /\ sendq' = [sendq EXCEPT !["client"] = Append(@, m)]
           /\ cdirty' = {}
  <2>1. /\ m \in Message /\ m.type = "MODIFY_VARIABLES"
        /\ \A v \in Vars : m.vals[v] = IF v \in cdirty THEN creq[v] ELSE NoVal
    <3>1. creq \in [Vars -> Version]
      BY <1>1 DEF TypeOK, Version
    <3> QED BY <3>1, CarryingFacts DEF MessageTypes
  <2> HIDE DEF m
  <2>2. ToServer' = Append(q, m)
    <3>1. sendq'["client"] = Append(u, m)
      BY <1>1, <1>4, SideFacts DEF TypeOK
    <3>2. w \o Append(u, m) = Append(w \o u, m)
      BY <1>1, <2>1, JoinAppend
    <3> QED BY <1>2, <3>1, <3>2 DEF ToServer
  <2> HIDE DEF q
  <2>3. OnlyRequests(Append(q, m))
    BY <1>1, <2>1, KindsAppend DEF RequestsOnTheWay, q
  <2>4. ASSUME Open', NEW v \in Vars, creq'[v] # 0
        PROVE  EndsIn(Append(q, m), v, preq'[v], creq'[v])
    <3>1. CASE v \in cdirty
      <4>1. m.vals[v] = creq[v] /\ creq[v] # NoVal
        BY <1>1, <2>1, <3>1 DEF TypeOK, NoVal
      <4> QED BY <1>1, <1>2, <2>1, <4>1, EndsAppend
    <3>2. CASE v \notin cdirty
      <4>1. m.vals[v] = NoVal /\ EndsIn(q, v, preq[v], creq[v])
        BY <1>2, <2>1, <2>4, <3>2 DEF RequestsOnTheWay, q
      <4> QED BY <1>1, <1>2, <2>1, <4>1, EndsAppend
    <3> QED BY <3>1, <3>2
  <2> QED BY <1>4, <2>2, <2>3, <2>4, RequestsStep
<1> QED BY <1>3, <1>4 DEF DirtyClient

\* A command queues messages that carry nothing.
LEMMA RequestsCommand ==
  ASSUME Understanding, RequestsOnTheWay, SelectView \/ Disconnect, Open' => Open
  PROVE  RequestsOnTheWay'
<1>1. PICK e \in {<<>>, <<Msg("SELECT_VIEW")>>, <<Msg("DISCONNECT")>>} :
        Command(Unselect \o e)
  BY DEF SelectView, Disconnect
<1> DEFINE w == wire["server"]
           u == sendq["client"]
           c == Unselect \o e
           q == ToServer
<1>2. /\ TypeOK /\ w \in Seq(Message) /\ u \in Seq(Message)
      /\ q \in Seq(Message)
  BY SideFacts, QueueFacts, StreamFacts DEF Understanding
<1>3. /\ e \in Seq(Message) /\ Unselect \in Seq(Message)
      /\ \A i \in 1..Len(e) : \A v \in Vars : e[i].vals[v] = NoVal
      /\ \A i \in 1..Len(Unselect) : \A v \in Vars : Unselect[i].vals[v] = NoVal
  <2>1. e \in Seq(Message) /\ Unselect \in Seq(Message)
    <3>1. <<>> \in Seq(Message)
      OBVIOUS
    <3> QED BY <3>1, CommandMessages, Zenon
  <2>2. \A t \in MessageTypes : \A v \in Vars : Msg(t).vals[v] = NoVal
    BY DEF Msg, Nothing
  <2>3. \A t \in MessageTypes : \A i \in 1..Len(<<Msg(t)>>) :
          <<Msg(t)>>[i] = Msg(t)
    OBVIOUS
  <2>4. \A i \in 1..Len(<<>>) : FALSE
    OBVIOUS
  <2>5. {"SELECT_VIEW", "DISCONNECT", "UNSELECT_VIEW"} \subseteq MessageTypes
    BY DEF MessageTypes
  <2>6. \A i \in 1..Len(e) : \A v \in Vars : e[i].vals[v] = NoVal
    BY <2>2, <2>3, <2>4, <2>5
  <2>7. \A i \in 1..Len(Unselect) : \A v \in Vars : Unselect[i].vals[v] = NoVal
    BY <2>2, <2>3, <2>4, <2>5 DEF Unselect
  <2> QED BY <2>1, <2>6, <2>7
<1>4. /\ c \in Seq(Message)
      /\ \A i \in 1..Len(c) : \A v \in Vars : c[i].vals[v] = NoVal
  BY <1>3, JoinElem, JoinFacts
<1> HIDE DEF c
<1>5. /\ sendq'["client"] = u \o c
      /\ UNCHANGED <<wire, preq, creq, cdirty>>
  BY <1>1, <1>2, SideFacts DEF Command, TypeOK, plugin, client, c
<1>6. ToServer' = q \o c
  <2>1. w \o (u \o c) = (w \o u) \o c
    BY <1>2, <1>4, JoinAssoc
  <2> QED BY <1>5, <2>1 DEF ToServer
<1> HIDE DEF q
<1>7. OnlyRequests(q \o c)
  BY <1>2, <1>4, JoinSilent DEF RequestsOnTheWay, q
<1>8. ASSUME Open', NEW v \in Vars \ cdirty', creq'[v] # 0
      PROVE  EndsIn(q \o c, v, preq'[v], creq'[v])
  <2>1. EndsIn(q, v, preq[v], creq[v])
    BY <1>5, <1>8 DEF RequestsOnTheWay, q
  <2>2. EndsIn(q \o c, v, preq[v], creq[v])
    BY <1>2, <1>4, <2>1, JoinSilent
  <2> QED BY <1>5, <2>2
<1> QED BY <1>6, <1>7, <1>8, RequestsStep

\* One side goes: what it had on its way is cut.
LEMMA RequestsCut ==
  ASSUME Understanding, RequestsOnTheWay, NEW s \in Side, NEW why, Close(s, why)
  PROVE  RequestsOnTheWay'
<1> DEFINE w == wire["server"]
           u == sendq["client"]
           q == ToServer
<1>1. /\ TypeOK /\ w \in Seq(Message) /\ u \in Seq(Message)
      /\ q \in Seq(Message) /\ Len(q) \in Nat
  BY SideFacts, QueueFacts, StreamFacts DEF Understanding
<1>2. ~Open'
  BY <1>1, CloseFacts DEF Open
<1>3. OnlyRequests(ToServer)'
  <2>1. CASE s = "server"
    <3>1. wire'["server"] = w /\ sendq'["client"] = u
      BY <1>1, <2>1, SideFacts, CloseFacts
    <3>2. ToServer' = q
      BY <3>1 DEF ToServer
    <3> QED BY <3>2 DEF RequestsOnTheWay, OnlyRequests
  <2>2. CASE s = "client"
    <3>1. PICK k \in Nat : k <= Len(w) /\ wire'["server"] = SubSeq(w, 1, k)
      BY <1>1, <2>2, SideFacts, CloseFacts
    <3>2. sendq'["client"] = <<>>
      BY <1>1, <2>2, SideFacts, CloseFacts
    <3> DEFINE p == SubSeq(w, 1, k) \o <<>>
    <3>3. ToServer' = p
      BY <3>1, <3>2 DEF ToServer
    <3>4. /\ p \in Seq(Message) /\ Len(p) \in Nat /\ Len(p) <= Len(q)
          /\ \A i \in 1..Len(p) : p[i] = q[i]
      BY <1>1, <3>1, StreamCut DEF ToServer
    <3> HIDE DEF p, q
    <3>5. OnlyRequests(p)
      BY <1>1, <3>4, KindsCut DEF RequestsOnTheWay, q
    <3> QED BY <3>3, <3>5 DEF OnlyRequests
  <2> QED BY <2>1, <2>2 DEF Side
<1> QED BY <1>2, <1>3 DEF RequestsOnTheWay

\* A new connection carries nothing.
LEMMA RequestsConnect ==
  ASSUME Connect
  PROVE  RequestsOnTheWay'
<1> DEFINE u == <<Msg("CONNECT")>>
<1>1. /\ wire'["server"] = <<>> /\ sendq'["client"] = u
      /\ creq' = [v \in Vars |-> 0]
  BY SideFacts DEF Connect
<1>2. u \in Seq(Message)
  BY CommandMessages
<1>3. \A i \in 1..Len(u) : \A v \in Vars : u[i].vals[v] = NoVal
  BY DEF Msg, Nothing
<1> HIDE DEF u
<1>4. ToServer' = u
  BY <1>1, <1>2 DEF ToServer
<1>5. OnlyRequests(u)
  BY <1>3 DEF OnlyRequests
<1> QED BY <1>1, <1>4, <1>5, RequestsStep

\* Every step keeps RequestsOnTheWay.
LEMMA RequestsNext ==
  ASSUME Understanding, RequestsOnTheWay, [Next]_vars
  PROVE  RequestsOnTheWay'
<1>0. TypeOK
  BY DEF Understanding
<1>1. CASE Connect
  BY <1>1, RequestsConnect
<1>2. CASE UNCHANGED vars
  BY <1>2, RequestsFrame DEF vars, session, plugin, client, ToServer, Open
<1> SUFFICES ASSUME Next, ~Connect PROVE RequestsOnTheWay'
  BY <1>1, <1>2
<1>3. Open' => Open
  BY <1>0, StaysClosed DEF Open
<1>4. ASSUME UNCHANGED <<preq, creq, cdirty, wire>>,
             sendq'["client"] = sendq["client"]
      PROVE  RequestsOnTheWay'
  BY <1>3, <1>4, RequestsFrame DEF ToServer
<1>5. ASSUME NEW s \in Side, Flush(s) PROVE RequestsOnTheWay'
  <2>1. /\ Len(sendq[s]) > 0
        /\ Encode(s, sendq[s][1]) \/ Close(s, "sent")
    BY <1>0, <1>5, FlushFacts
  <2>2. CASE Encode(s, sendq[s][1]) /\ s = "server"
    <3>1. wire'["server"] = wire["server"] /\ sendq'["client"] = sendq["client"]
      BY <1>0, <2>1, <2>2, SideFacts, EncodeFacts
    <3>2. UNCHANGED <<preq, creq, cdirty>>
      BY <2>2 DEF Encode, plugin, client
    <3> QED BY <1>3, <3>1, <3>2, RequestsFrame DEF ToServer
  <2> QED BY <2>1, <2>2, RequestsSent, RequestsCut DEF Side
<1>6. CASE Decode("client")
  <2>1. /\ ClientTakes(wire["client"][1]) /\ wire'["server"] = wire["server"]
    BY <1>6, SideFacts, DecodeFacts
  <2>2. UNCHANGED <<preq, creq, cdirty, sendq>>
    BY <2>1 DEF ClientTakes, plugin
  <2> QED BY <1>3, <2>1, <2>2, RequestsFrame DEF ToServer
<1>7. CASE PluginThread
  BY <1>4, <1>7 DEF PluginThread, Publish, session, client
<1>8. CASE \/ \E s \in Side : \/ \E n \in 0..Len(wire[s]) : Recv(s, n)
                              \/ DecodeDone(s) \/ FlushDone(s)
           \/ Accept \/ RegisterLink
           \/ \E v \in Vars : RegisterCopy(v) \/ SnapshotRead(v)
  BY <1>4, <1>8 DEF Recv, DecodeDone, FlushDone, Accept, RegisterLink,
     RegisterCopy, SnapshotRead, plugin, client, session
<1>9. CASE SnapshotSend \/ DirtyServer
  BY <1>0, <1>4, <1>9, SideFacts DEF SnapshotSend, DirtyServer, plugin, client,
     TypeOK
<1>10. CASE \/ \E s \in Side : LostConnection(s)
            \/ ServerStop \/ HandshakeTimeout \/ ProjectBuilt
  <2>1. CASE UNCHANGED <<session, plugin, client>>
    BY <1>4, <2>1 DEF session, plugin, client
  <2> QED BY <1>10, <2>1, RequestsCut, SideFacts
          DEF LostConnection, ServerStop, HandshakeTimeout, ProjectBuilt
<1>11. CASE \E v \in Vars : Request(v)
  <2>1. PICK v \in Vars : Request(v)
    BY <1>11
  <2>2. /\ UNCHANGED <<preq, sendq, wire>> /\ cdirty' = cdirty \cup {v}
        /\ creq' = [creq EXCEPT ![v] = @ + 1]
    BY <2>1 DEF Request, session, plugin
  <2>3. \A x \in Vars \ cdirty' : x \in Vars \ cdirty /\ creq'[x] = creq[x]
    BY <1>0, <2>2 DEF TypeOK
  <2>4. ToServer' = ToServer
    BY <2>2 DEF ToServer
  <2> DEFINE q == ToServer
  <2>5. /\ OnlyRequests(q)
        /\ Open => \A x \in Vars \ cdirty :
             creq[x] # 0 => EndsIn(q, x, preq[x], creq[x])
    BY DEF RequestsOnTheWay
  <2> HIDE DEF q
  <2>6. Open' => \A x \in Vars \ cdirty' :
          creq'[x] # 0 => EndsIn(q, x, preq'[x], creq'[x])
    BY <1>3, <2>2, <2>3, <2>5
  <2> QED BY <2>4, <2>5, <2>6, RequestsStep DEF q
<1>12. CASE \/ Decode("server") \/ DirtyClient \/ SelectView \/ Disconnect
  BY <1>3, <1>12, RequestsTaken, RequestsQueued, RequestsCommand
<1> QED BY <1>5, <1>6, <1>7, <1>8, <1>9, <1>10, <1>11, <1>12, SideFacts
        DEF Next, Runtime, ServerThread, ServerProcess, ClientProcess

LEMMA RequestsInit == Init => RequestsOnTheWay
<1> SUFFICES ASSUME Init PROVE RequestsOnTheWay
  OBVIOUS
<1>1. ToServer = <<>> /\ ~Open
  BY SideFacts DEF Init, ToServer, Open
<1> QED BY <1>1, NothingCarried DEF RequestsOnTheWay

\* Every request that is not marked dirty is on its way, or there.
THEOREM RequestsAlwaysOnTheWay == Spec => []RequestsOnTheWay
<1> QED BY UnderstandingHolds, RequestsInit, RequestsNext, PTL DEF Spec

\* The dirty flags of the client lose no request: clearing them when the
\* message is queued is safe as long as the connection lasts.
THEOREM NoRequestIsLost == Spec => []NoRequestLost
<1>1. Understanding /\ RequestsOnTheWay => NoRequestLost
  <2> SUFFICES ASSUME Understanding, RequestsOnTheWay, Open,
                      NEW v \in Vars \ cdirty, creq[v] # 0
               PROVE  Latest(ToServer, v, preq[v]) = creq[v]
    BY DEF NoRequestLost, Open, ToServer
  <2>1. ToServer \in Seq(Message)
    BY StreamFacts DEF Understanding
  <2>2. EndsIn(ToServer, v, preq[v], creq[v])
    BY DEF RequestsOnTheWay
  <2> QED BY <2>1, <2>2, EndsLatest
<1> QED BY <1>1, UnderstandingHolds, RequestsAlwaysOnTheWay, PTL


-----------------------------------------------------------------------------
(* Values only get newer: Ascending is inductive.                          *)

\* The values in the two sessions and the plugin are numbers.
LEMMA ValueFacts ==
  ASSUME TypeOK, NEW v \in Vars
  PROVE  /\ creal[v] \in Int /\ sreal[v] \in Int /\ preal[v] \in Int
         /\ snap[v] \in Int /\ creal[v] \in Version
         /\ sreal[v] \in Nat /\ preal[v] \in Nat /\ creq[v] \in Nat
         /\ creal \in [Vars -> Version] /\ sreal \in [Vars -> Version]
         /\ snap \in [Vars -> Version]
  BY DEF TypeOK, Version, NoVal

\* What has to be shown of the stream after a step.
LEMMA AscendingStep ==
  ASSUME NEW r, ToClient' = r,
         \A v \in Vars :
           /\ creal'[v] <= sreal'[v] /\ sreal'[v] <= preal'[v]
           /\ Climbs(r, v, creal'[v], sreal'[v])
           /\ phase'["server"] = "snapshot" /\ v \notin walk' =>
                /\ creal'[v] <= snap'[v] /\ snap'[v] <= sreal'[v]
                /\ Climbs(r, v, creal'[v], snap'[v])
  PROVE  Ascending'
  BY DEF Ascending, Climbs

\* A step that changes no value, nor what carries them.
LEMMA AscendingFrame ==
  ASSUME Ascending, ToClient' = ToClient,
         UNCHANGED <<creal, sreal, preal, snap>>,
         phase'["server"] = "snapshot" =>
           walk' = Vars \/ (phase["server"] = "snapshot" /\ walk' = walk)
  PROVE  Ascending'
<1> DEFINE q == ToClient
<1>1. \A v \in Vars :
        /\ creal[v] <= sreal[v] /\ sreal[v] <= preal[v]
        /\ Climbs(q, v, creal[v], sreal[v])
        /\ phase["server"] = "snapshot" /\ v \notin walk =>
             /\ creal[v] <= snap[v] /\ snap[v] <= sreal[v]
             /\ Climbs(q, v, creal[v], snap[v])
  BY DEF Ascending
<1>2. ToClient' = q
  OBVIOUS
<1> HIDE DEF q
<1> QED BY <1>1, <1>2, AscendingStep

\* The session's values only grow, and not beyond the plugin's.
LEMMA AscendingGrows ==
  ASSUME Understanding, Understanding', Ascending, ToClient' = ToClient,
         UNCHANGED <<creal, snap>>,
         \A v \in Vars : sreal[v] <= sreal'[v] /\ sreal'[v] <= preal'[v],
         phase'["server"] = "snapshot" =>
           phase["server"] = "snapshot" /\ walk' = walk
  PROVE  Ascending'
<1> DEFINE q == ToClient
<1>1. TypeOK /\ q \in Seq(Message)
  BY StreamFacts DEF Understanding
<1>2. ToClient' = q
  OBVIOUS
<1>3. \A v \in Vars :
        /\ creal[v] <= sreal[v] /\ sreal[v] <= preal[v]
        /\ Climbs(q, v, creal[v], sreal[v])
        /\ phase["server"] = "snapshot" /\ v \notin walk =>
             /\ creal[v] <= snap[v] /\ snap[v] <= sreal[v]
             /\ Climbs(q, v, creal[v], snap[v])
  BY DEF Ascending
<1> HIDE DEF q
<1>4. \A v \in Vars : sreal'[v] \in Int
  BY DEF Understanding, TypeOK
<1>5. ASSUME NEW v \in Vars
      PROVE  /\ creal'[v] <= sreal'[v] /\ sreal'[v] <= preal'[v]
             /\ Climbs(q, v, creal'[v], sreal'[v])
             /\ phase'["server"] = "snapshot" /\ v \notin walk' =>
                  /\ creal'[v] <= snap'[v] /\ snap'[v] <= sreal'[v]
                  /\ Climbs(q, v, creal'[v], snap'[v])
  <2>1. /\ creal[v] \in Int /\ sreal[v] \in Int /\ snap[v] \in Int
        /\ sreal'[v] \in Int
    BY <1>1, <1>4, ValueFacts
  <2>2. creal'[v] <= sreal'[v] /\ sreal'[v] <= preal'[v]
    BY <1>3, <2>1
  <2>3. Climbs(q, v, creal'[v], sreal'[v])
    BY <1>1, <1>3, <2>1, ClimbsWiden
  <2>4. phase'["server"] = "snapshot" /\ v \notin walk' =>
          /\ creal'[v] <= snap'[v] /\ snap'[v] <= sreal'[v]
          /\ Climbs(q, v, creal'[v], snap'[v])
    BY <1>3, <2>1
  <2> QED BY <2>2, <2>3, <2>4
<1> QED BY <1>2, <1>5, AscendingStep

\* The client takes a message, and maybe its values.
LEMMA AscendingTaken ==
  ASSUME Understanding, Ascending, Decode("client")
  PROVE  Ascending' /\ \A v \in Vars : creal'[v] >= creal[v]
<1> DEFINE w == wire["client"]
           u == sendq["server"]
           q == ToClient
           m == w[1]
<1>0. /\ Len(w) > 0 /\ w \in Seq(Message) /\ m \in Message /\ ClientTakes(m)
      /\ wire'["client"] = Tail(w)
  BY SideFacts, DecodeFacts
<1>1. TypeOK /\ u \in Seq(Message) /\ q \in Seq(Message)
  BY SideFacts, QueueFacts, StreamFacts DEF Understanding
<1>2. /\ UNCHANGED <<sendq, phase, sreal, preal, snap, walk>>
      /\ creal' = Overwrite(creal, m) \/ creal' = creal
  <2> HIDE DEF m
  <2> QED BY <1>0 DEF ClientTakes, server, plugin
<1>3. ToClient' = Tail(q) /\ q[1] = m /\ Len(q) > 0
  <2> HIDE DEF m
  <2>1. Tail(w) \o u = Tail(w \o u) /\ (w \o u)[1] = w[1] /\ Len(w \o u) > 0
    BY <1>0, <1>1, StreamTaken
  <2> QED BY <1>0, <1>2, <2>1 DEF ToClient, m
<1>4. \A v \in Vars :
        /\ creal[v] <= sreal[v] /\ sreal[v] <= preal[v]
        /\ Climbs(q, v, creal[v], sreal[v])
        /\ phase["server"] = "snapshot" /\ v \notin walk =>
             /\ creal[v] <= snap[v] /\ snap[v] <= sreal[v]
             /\ Climbs(q, v, creal[v], snap[v])
  BY DEF Ascending
<1> HIDE DEF q, m
<1>5. \A v \in Vars : \/ creal'[v] = creal[v]
                      \/ creal'[v] = m.vals[v] /\ m.vals[v] # NoVal
  BY <1>2 DEF Overwrite
<1>6. ASSUME NEW v \in Vars
      PROVE  /\ creal'[v] >= creal[v]
             /\ creal'[v] <= sreal'[v] /\ sreal'[v] <= preal'[v]
             /\ Climbs(Tail(q), v, creal'[v], sreal'[v])
             /\ phase'["server"] = "snapshot" /\ v \notin walk' =>
                  /\ creal'[v] <= snap'[v] /\ snap'[v] <= sreal'[v]
                  /\ Climbs(Tail(q), v, creal'[v], snap'[v])
  <2>1. /\ creal[v] \in Int /\ sreal[v] \in Int /\ snap[v] \in Int
    BY <1>1, ValueFacts
  <2>2. /\ Climbs(Tail(q), v, creal'[v], sreal[v])
        /\ creal[v] <= creal'[v] /\ creal'[v] <= sreal[v] /\ creal'[v] \in Int
    BY <1>1, <1>3, <1>4, <1>5, <2>1, ClimbsTail
  <2>3. phase["server"] = "snapshot" /\ v \notin walk =>
          /\ creal'[v] <= snap[v] /\ snap[v] <= sreal[v]
          /\ Climbs(Tail(q), v, creal'[v], snap[v])
    BY <1>1, <1>3, <1>4, <1>5, <2>1, ClimbsTail
  <2> QED BY <1>2, <1>4, <2>1, <2>2, <2>3
<1>7. Ascending'
  BY <1>3, <1>6, AscendingStep
<1> QED BY <1>6, <1>7

\* The server queues a message: it carries the newest values, or none.
LEMMA AscendingQueued ==
  ASSUME Understanding, Ascending, NEW m \in Message,
         sendq'["server"] = Append(sendq["server"], m),
         UNCHANGED <<creal, sreal, preal>>, wire'["client"] = wire["client"],
         phase'["server"] = "snapshot" => walk' = Vars,
         \A v \in Vars : \/ m.vals[v] \in {NoVal, sreal[v]}
                         \/ /\ phase["server"] = "snapshot" /\ v \notin walk
                            /\ m.vals[v] = snap[v]
  PROVE  Ascending'
<1> DEFINE w == wire["client"]
           u == sendq["server"]
           q == ToClient
<1>1. /\ TypeOK /\ w \in Seq(Message) /\ u \in Seq(Message)
      /\ q \in Seq(Message)
  BY SideFacts, QueueFacts, StreamFacts DEF Understanding
<1>2. ToClient' = Append(q, m)
  <2>1. w \o Append(u, m) = Append(w \o u, m)
    BY <1>1, JoinAppend
  <2> QED BY <2>1 DEF ToClient
<1>3. \A v \in Vars :
        /\ creal[v] <= sreal[v] /\ sreal[v] <= preal[v]
        /\ Climbs(q, v, creal[v], sreal[v])
        /\ phase["server"] = "snapshot" /\ v \notin walk =>
             /\ creal[v] <= snap[v] /\ snap[v] <= sreal[v]
             /\ Climbs(q, v, creal[v], snap[v])
  BY DEF Ascending
<1> HIDE DEF q
<1>4. Append(q, m) \in Seq(Message)
  BY <1>1
<1>5. ASSUME NEW v \in Vars
      PROVE  Climbs(Append(q, m), v, creal[v], sreal[v])
  <2>1. /\ creal[v] \in Int /\ sreal[v] \in Int /\ snap[v] \in Int
    BY <1>1, ValueFacts
  <2>2. CASE m.vals[v] \in {NoVal, sreal[v]}
    BY <1>1, <1>3, <2>1, <2>2, ClimbsAppend
  <2>3. CASE /\ phase["server"] = "snapshot" /\ v \notin walk
             /\ m.vals[v] = snap[v]
    <3>1. Climbs(Append(q, m), v, creal[v], snap[v])
      BY <1>1, <1>3, <2>1, <2>3, ClimbsAppend
    <3>2. creal[v] <= creal[v] /\ snap[v] <= sreal[v]
      BY <1>3, <2>1, <2>3
    <3> QED BY <1>4, <2>1, <3>1, <3>2, ClimbsWiden
  <2> QED BY <2>2, <2>3
<1> QED BY <1>2, <1>3, <1>5, AscendingStep


\* What the server queues when it takes a message: nothing, or PROJECT_URL.
LEMMA ReplyFacts ==
  ASSUME NEW q \in Seq(Message), NEW t
  PROVE  \/ q \o Reply(t) = q
         \/ q \o Reply(t) = Append(q, Msg("PROJECT_URL"))
<1>1. CASE t = "CONNECT"
  <2> DEFINE m == Msg("PROJECT_URL")
  <2>1. m \in Message
    BY MessageFacts DEF MessageTypes
  <2> HIDE DEF m
  <2>2. q \o <<m>> = Append(q, m)
    <3> DEFINE r == <<m>>
    <3>1. r \in Seq(Message) /\ Len(r) = 1 /\ r[1] = m
      BY <2>1
    <3> HIDE DEF r
    <3>2. /\ q \o r \in Seq(Message) /\ Len(q \o r) = Len(q) + 1
          /\ \A i \in 1..Len(q) : (q \o r)[i] = q[i]
          /\ \A i \in 1..1 : (q \o r)[Len(q) + i] = r[i]
      <4>1. /\ q \o r \in Seq(Message) /\ Len(q \o r) = Len(q) + Len(r)
            /\ \A i \in 1..Len(q) : (q \o r)[i] = q[i]
            /\ \A i \in 1..Len(r) : (q \o r)[Len(q) + i] = r[i]
        BY <3>1, JoinFacts
      <4>2. \A i \in 1..1 : (q \o r)[Len(q) + i] = r[i]
        BY <3>1, <4>1, Zenon
      <4>3. Len(q \o r) = Len(q) + 1
        BY <3>1, <4>1, Zenon
      <4> QED BY <4>1, <4>2, <4>3, Zenon
    <3>3. /\ Append(q, m) \in Seq(Message) /\ Len(Append(q, m)) = Len(q) + 1
          /\ \A i \in 1..Len(q) : Append(q, m)[i] = q[i]
          /\ Append(q, m)[Len(q) + 1] = m
      BY <2>1, AppendFacts
    <3> DEFINE a == q \o r
               b == Append(q, m)
               n == Len(q)
    <3>4. n \in Nat /\ a[n + 1] = m
      BY <3>1, <3>2
    <3> HIDE DEF a, b, n
    <3>5. \A i \in 1..Len(a) : i \in 1..n \/ i = n + 1
      BY <3>2, <3>4 DEF a, n
    <3>6. \A i \in 1..Len(a) : a[i] = b[i]
      BY <3>2, <3>3, <3>4, <3>5 DEF a, b, n
    <3>7. a = b
      BY <3>2, <3>3, <3>6, SameSeq DEF a, b
    <3> QED BY <3>7 DEF a, b, r
  <2>3. Reply(t) = <<m>>
    BY <1>1 DEF Reply, m
  <2> QED BY <2>2, <2>3 DEF m
<1>2. CASE t # "CONNECT"
  BY <1>2, JoinEmpty DEF Reply
<1> QED BY <1>1, <1>2

\* The server takes a message: values reach the plugin, none the client.
LEMMA AscendingServerTakes ==
  ASSUME Understanding, Ascending, Decode("server")
  PROVE  Ascending'
<1> DEFINE m == wire["server"][1]
           u == sendq["server"]
<1>0. /\ m \in Message /\ ServerTakes(m) /\ phase["server"] = "decode"
      /\ wire'["client"] = wire["client"]
  BY SideFacts, DecodeFacts
<1>1. TypeOK /\ u \in Seq(Message)
  BY SideFacts, QueueFacts DEF Understanding
<1> HIDE DEF m
<1>2. /\ sendq'["server"] = u \o Reply(m.type)
      /\ UNCHANGED <<creal, sreal, preal, snap>>
      /\ phase'["server"] = "snapshot" => walk' = Vars
  BY <1>0, <1>1, SideFacts DEF ServerTakes, TypeOK, client
<1>3. CASE sendq'["server"] = u
  <2>1. ToClient' = ToClient
    BY <1>0, <1>3 DEF ToClient
  <2> QED BY <1>2, <2>1, AscendingFrame
<1>4. CASE sendq'["server"] = Append(u, Msg("PROJECT_URL"))
  <2> DEFINE a == Msg("PROJECT_URL")
  <2>1. a \in Message /\ \A v \in Vars : a.vals[v] = NoVal
    BY MessageFacts DEF Msg, Nothing, MessageTypes
  <2> HIDE DEF a
  <2>2. sendq'["server"] = Append(sendq["server"], a)
    BY <1>4 DEF a
  <2>3. UNCHANGED <<creal, sreal, preal>>
    BY <1>2
  <2>4. \A v \in Vars : a.vals[v] \in {NoVal, sreal[v]}
    BY <2>1
  <2> QED BY <1>0, <1>2, <2>1, <2>2, <2>3, <2>4, AscendingQueued
<1> QED BY <1>1, <1>2, <1>3, <1>4, ReplyFacts

\* The server answers SELECT_VIEW with what it has read.
LEMMA AscendingAnswer ==
  ASSUME Understanding, Ascending, SnapshotSend
  PROVE  Ascending'
<1> DEFINE m == Carrying("AVAILABLE_VARIABLES", snap, Vars)
<1>0. TypeOK
  BY DEF Understanding
<1>1. m \in Message /\ \A v \in Vars : m.vals[v] = snap[v]
  <2>1. snap \in [Vars -> Version] /\ "AVAILABLE_VARIABLES" \in MessageTypes
    BY <1>0 DEF TypeOK, MessageTypes
  <2> QED BY <2>1, CarryingFacts
<1> HIDE DEF m
<1>2. /\ phase["server"] = "snapshot" /\ walk = {}
      /\ phase'["server"] # "snapshot"
      /\ sendq'["server"] = Append(sendq["server"], m)
      /\ UNCHANGED <<creal, sreal, preal>> /\ wire' = wire
  BY <1>0, SideFacts DEF SnapshotSend, TypeOK, client, plugin, m
<1> QED BY <1>1, <1>2, AscendingQueued

\* The server queues the values marked dirty.
LEMMA AscendingDirty ==
  ASSUME Understanding, Ascending, DirtyServer
  PROVE  Ascending'
<1> DEFINE m == Carrying("VARIABLE_VALUES", sreal, sdirty)
<1>0. TypeOK
  BY DEF Understanding
<1>1. m \in Message /\ \A v \in Vars : m.vals[v] \in {NoVal, sreal[v]}
  <2>1. /\ sreal \in [Vars -> Version] /\ "VARIABLE_VALUES" \in MessageTypes
    BY <1>0 DEF TypeOK, Version, MessageTypes
  <2> QED BY <2>1, CarryingFacts
<1> HIDE DEF m
<1>2. /\ phase'["server"] # "snapshot" /\ wire' = wire
      /\ UNCHANGED <<creal, sreal, preal, snap>>
      /\ \/ UNCHANGED sendq
         \/ sendq' = [sendq EXCEPT !["server"] = Append(@, m)]
  BY <1>0, SideFacts DEF DirtyServer, TypeOK, client, plugin, m
<1>3. CASE UNCHANGED sendq
  <2>1. ToClient' = ToClient
    BY <1>2, <1>3 DEF ToClient
  <2> QED BY <1>2, <2>1, AscendingFrame
<1>4. CASE sendq' = [sendq EXCEPT !["server"] = Append(@, m)]
  <2>1. sendq'["server"] = Append(sendq["server"], m)
    BY <1>0, <1>4, SideFacts DEF TypeOK
  <2>2. UNCHANGED <<creal, sreal, preal>>
    BY <1>2
  <2> QED BY <1>1, <1>2, <2>1, <2>2, AscendingQueued
<1> QED BY <1>2, <1>3, <1>4

\* The server reads a value for its answer.
LEMMA AscendingRead ==
  ASSUME Understanding, Ascending, NEW x \in Vars, SnapshotRead(x)
  PROVE  Ascending'
<1> DEFINE q == ToClient
<1>1. TypeOK /\ q \in Seq(Message)
  BY StreamFacts DEF Understanding
<1>2. /\ UNCHANGED <<phase, wire, sendq, creal, sreal, preal>>
      /\ phase["server"] = "snapshot"
      /\ snap' = [snap EXCEPT ![x] = sreal[x]] /\ walk' = walk \ {x}
  BY DEF SnapshotRead, session, client, plugin
<1>3. ToClient' = q
  BY <1>2 DEF ToClient
<1>4. \A v \in Vars :
        /\ creal[v] <= sreal[v] /\ sreal[v] <= preal[v]
        /\ Climbs(q, v, creal[v], sreal[v])
        /\ phase["server"] = "snapshot" /\ v \notin walk =>
             /\ creal[v] <= snap[v] /\ snap[v] <= sreal[v]
             /\ Climbs(q, v, creal[v], snap[v])
  BY DEF Ascending
<1> HIDE DEF q
<1>5. ASSUME NEW v \in Vars, v \notin walk'
      PROVE  /\ creal[v] <= snap'[v] /\ snap'[v] <= sreal[v]
             /\ Climbs(q, v, creal[v], snap'[v])
  <2>1. sreal[v] \in Int
    BY <1>1, ValueFacts
  <2>2. CASE v = x
    <3>1. snap'[v] = sreal[v]
      BY <1>1, <1>2, <2>2 DEF TypeOK
    <3> QED BY <1>4, <2>1, <3>1
  <2>3. CASE v # x
    <3>1. snap'[v] = snap[v] /\ v \notin walk
      BY <1>1, <1>2, <1>5, <2>3 DEF TypeOK
    <3> QED BY <1>2, <1>4, <3>1
  <2> QED BY <2>2, <2>3
<1> QED BY <1>2, <1>3, <1>4, <1>5, AscendingStep

\* One side goes: what it had on its way is cut.
LEMMA AscendingCut ==
  ASSUME Understanding, Ascending, NEW s \in Side, NEW why, Close(s, why)
  PROVE  Ascending'
<1> DEFINE w == wire["client"]
           u == sendq["server"]
           q == ToClient
<1>1. /\ TypeOK /\ w \in Seq(Message) /\ u \in Seq(Message)
      /\ q \in Seq(Message) /\ Len(q) \in Nat
  BY SideFacts, QueueFacts, StreamFacts DEF Understanding
<1>2. UNCHANGED <<creal, sreal, preal, snap, walk>>
  BY DEF Close, plugin, server, client
<1>3. CASE s = "client"
  <2>1. /\ wire'["client"] = w /\ sendq'["server"] = u
        /\ phase'["server"] = phase["server"]
    BY <1>1, <1>3, SideFacts, CloseFacts
  <2>2. ToClient' = ToClient
    BY <2>1 DEF ToClient
  <2> QED BY <1>2, <2>1, <2>2, AscendingFrame
<1>4. CASE s = "server"
  <2>1. PICK k \in Nat : k <= Len(w) /\ wire'["client"] = SubSeq(w, 1, k)
    BY <1>1, <1>4, SideFacts, CloseFacts
  <2>2. sendq'["server"] = <<>> /\ phase'["server"] = "closed"
    BY <1>1, <1>4, SideFacts, CloseFacts
  <2> DEFINE p == SubSeq(w, 1, k) \o <<>>
  <2>3. ToClient' = p
    BY <2>1, <2>2 DEF ToClient
  <2>4. /\ p \in Seq(Message) /\ Len(p) \in Nat /\ Len(p) <= Len(q)
        /\ \A i \in 1..Len(p) : p[i] = q[i]
    BY <1>1, <2>1, StreamCut DEF ToClient
  <2>5. \A v \in Vars : /\ creal[v] <= sreal[v] /\ sreal[v] <= preal[v]
                        /\ Climbs(q, v, creal[v], sreal[v])
    BY DEF Ascending
  <2> HIDE DEF p, q
  <2>6. \A v \in Vars : Climbs(p, v, creal[v], sreal[v])
    BY <1>1, <2>4, <2>5, ClimbsCut
  <2> QED BY <1>2, <2>2, <2>3, <2>5, <2>6, AscendingStep
<1> QED BY <1>3, <1>4 DEF Side

\* A new connection: the client knows no value.
LEMMA AscendingConnect ==
  ASSUME Understanding, Ascending, Connect
  PROVE  Ascending'
<1>0. TypeOK
  BY DEF Understanding
<1>1. /\ wire'["client"] = <<>> /\ sendq'["server"] = <<>>
      /\ creal' = Nothing /\ phase'["server"] = "absent"
      /\ UNCHANGED <<sreal, preal>>
  BY SideFacts DEF Connect, plugin
<1>2. ToClient' = <<>>
  BY <1>1 DEF ToClient
<1>3. \A v \in Vars : creal'[v] <= sreal'[v] /\ sreal'[v] <= preal'[v]
  <2>1. \A v \in Vars : sreal[v] <= preal[v] /\ sreal[v] \in Nat
    BY <1>0 DEF Ascending, TypeOK
  <2>2. \A v \in Vars : creal'[v] = -1
    BY <1>1 DEF Nothing, NoVal
  <2>3. \A x \in Nat : -1 <= x
    OBVIOUS
  <2> QED BY <1>1, <2>1, <2>2, <2>3
<1> DEFINE r == ToClient'
<1>4. \A v \in Vars : Climbs(r, v, creal'[v], sreal'[v])
  BY <1>2, NothingCarried
<1> HIDE DEF r
<1>5. ToClient' = r /\ phase'["server"] # "snapshot"
  BY <1>1 DEF r
<1> QED BY <1>3, <1>4, <1>5, AscendingStep

\* The plugin publishes values; the copy made for a new session catches up.
LEMMA AscendingPublish ==
  ASSUME Understanding, Understanding', Ascending,
         \/ \E U \in SUBSET Vars \ {{}} : Publish(U)
         \/ \E v \in Vars : RegisterCopy(v)
  PROVE  Ascending'
<1>0. TypeOK
  BY DEF Understanding
<1>1. \A v \in Vars : /\ sreal[v] \in Nat /\ preal[v] \in Nat
                      /\ sreal[v] <= preal[v]
  BY <1>0 DEF TypeOK, Ascending
<1>2. CASE \E U \in SUBSET Vars \ {{}} : Publish(U)
  <2>1. PICK U \in SUBSET Vars : Publish(U)
    BY <1>2
  <2>2. /\ UNCHANGED <<phase, wire, sendq, creal, snap, walk>>
        /\ preal' = [v \in Vars |-> IF v \in U THEN preal[v] + 1 ELSE preal[v]]
        /\ \/ sreal' = [v \in Vars |-> IF v \in U THEN preal'[v] ELSE sreal[v]]
           \/ sreal' = sreal
    BY <2>1 DEF Publish, session, client
  <2>3. \A v \in Vars : sreal[v] <= sreal'[v] /\ sreal'[v] <= preal'[v]
    BY <1>1, <2>2
  <2>4. ToClient' = ToClient
    BY <2>2 DEF ToClient
  <2>5. UNCHANGED <<creal, snap>>
    BY <2>2
  <2> QED BY <2>2, <2>3, <2>4, <2>5, AscendingGrows
<1>3. CASE \E v \in Vars : RegisterCopy(v)
  <2>1. PICK x \in Vars : RegisterCopy(x)
    BY <1>3
  <2>2. /\ UNCHANGED <<phase, wire, sendq, creal, snap, preal>>
        /\ phase["server"] = "register"
        /\ sreal' = [sreal EXCEPT ![x] = preal[x]]
    BY <2>1 DEF RegisterCopy, session, client, plugin
  <2>3. \A v \in Vars : sreal[v] <= sreal'[v] /\ sreal'[v] <= preal'[v]
    BY <1>0, <1>1, <2>2 DEF TypeOK
  <2>4. ToClient' = ToClient
    BY <2>2 DEF ToClient
  <2>5. UNCHANGED <<creal, snap>>
    BY <2>2
  <2> QED BY <2>2, <2>3, <2>4, <2>5, AscendingGrows
<1> QED BY <1>2, <1>3


\* Every step keeps Ascending.
LEMMA AscendingNext ==
  ASSUME Understanding, Understanding', Ascending, [Next]_vars
  PROVE  Ascending'
<1>0. TypeOK
  BY DEF Understanding
<1>1. ASSUME UNCHANGED <<creal, sreal, preal, snap, walk, wire>>,
             sendq'["server"] = sendq["server"],
             phase'["server"] = "snapshot" => phase["server"] = "snapshot"
      PROVE  Ascending'
  BY <1>1, AscendingFrame DEF ToClient
<1>2. CASE UNCHANGED vars
  BY <1>1, <1>2 DEF vars, session, plugin, server, client
<1>3. ASSUME NEW s \in Side, Flush(s) PROVE Ascending'
  <2>1. /\ Len(sendq[s]) > 0
        /\ Encode(s, sendq[s][1]) \/ Close(s, "sent")
    BY <1>0, <1>3, FlushFacts
  <2>2. CASE Encode(s, sendq[s][1])
    <3>1. UNCHANGED <<creal, sreal, preal, snap, walk, phase>>
      BY <2>2 DEF Encode, plugin, server, client
    <3>2. ToClient' = ToClient
      <4>1. CASE s = "client"
        BY <1>0, <2>1, <2>2, <4>1, SideFacts, EncodeFacts DEF ToClient
      <4>2. CASE s = "server"
        <5> DEFINE w == wire["client"]
                   u == sendq["server"]
        <5>1. w \in Seq(Message) /\ u \in Seq(Message)
          BY <1>0, SideFacts, QueueFacts
        <5>2. sendq'["server"] = Tail(u) /\ wire'["client"] = Append(w, u[1])
          BY <1>0, <2>1, <2>2, <4>2, SideFacts, EncodeFacts
        <5>3. Append(w, u[1]) \o Tail(u) = w \o u
          BY <2>1, <4>2, <5>1, JoinMove
        <5> QED BY <5>2, <5>3 DEF ToClient
      <4> QED BY <4>1, <4>2 DEF Side
    <3> QED BY <3>1, <3>2, AscendingFrame
  <2> QED BY <2>1, <2>2, AscendingCut
<1>4. CASE \/ \E s \in Side : \/ \E n \in 0..Len(wire[s]) : Recv(s, n)
                              \/ DecodeDone(s) \/ FlushDone(s)
           \/ RegisterLink \/ DirtyClient
  <2>1. /\ UNCHANGED <<creal, sreal, preal, snap, walk, wire>>
        /\ sendq'["server"] = sendq["server"]
        /\ phase'["server"] = "snapshot" => phase["server"] = "snapshot"
    BY <1>0, <1>4, SideFacts DEF Recv, DecodeDone, FlushDone, RegisterLink,
       DirtyClient, plugin, server, client, TypeOK
  <2> QED BY <1>1, <2>1
<1>5. CASE Accept
  <2>1. /\ UNCHANGED <<creal, sreal, preal, snap, wire, sendq>>
        /\ phase'["server"] # "snapshot"
    BY <1>0, <1>5, SideFacts DEF Accept, plugin, client, TypeOK
  <2> QED BY <2>1, AscendingFrame DEF ToClient
<1>6. CASE SelectView \/ Disconnect
  <2>1. PICK e : Command(e)
    BY <1>6 DEF SelectView, Disconnect
  <2>2. /\ UNCHANGED <<creal, sreal, preal, snap, walk, wire>>
        /\ sendq'["server"] = sendq["server"]
        /\ phase'["server"] = phase["server"]
    BY <1>0, <2>1, SideFacts DEF Command, TypeOK, plugin, server, client
  <2> QED BY <1>1, <2>2
<1>7. CASE \E v \in Vars : Request(v)
  BY <1>1, <1>7 DEF Request, session, plugin, server
<1>8. CASE \/ \E s \in Side : LostConnection(s)
           \/ ServerStop \/ HandshakeTimeout \/ ProjectBuilt
  <2>1. CASE UNCHANGED <<session, creal, sreal, preal, snap, walk>>
    BY <1>1, <2>1 DEF session
  <2> QED BY <1>8, <2>1, AscendingCut, SideFacts
          DEF LostConnection, ServerStop, HandshakeTimeout, ProjectBuilt,
              plugin, server, client
<1>9. CASE \/ Connect \/ SnapshotSend \/ DirtyServer
           \/ \E v \in Vars : RegisterCopy(v) \/ SnapshotRead(v)
           \/ PluginThread
           \/ \E s \in Side : Decode(s)
  BY <1>9, AscendingConnect, AscendingAnswer, AscendingDirty, AscendingRead,
     AscendingPublish, AscendingTaken, AscendingServerTakes
     DEF PluginThread, Side
<1> QED BY <1>2, <1>3, <1>4, <1>5, <1>6, <1>7, <1>8, <1>9, SideFacts
        DEF Next, Runtime, ServerThread, ServerProcess, ClientProcess

LEMMA AscendingInit == Init => Ascending
<1> SUFFICES ASSUME Init PROVE Ascending
  OBVIOUS
<1> DEFINE q == ToClient
<1>1. q = <<>> /\ phase["server"] # "snapshot"
  BY SideFacts DEF Init, ToClient
<1>2. \A v \in Vars : Climbs(q, v, creal[v], sreal[v])
  BY <1>1, NothingCarried
<1>3. \A v \in Vars : creal[v] <= sreal[v] /\ sreal[v] <= preal[v]
  BY DEF Init, Nothing, NoVal
<1> HIDE DEF q
<1> QED BY <1>1, <1>2, <1>3 DEF Ascending, q

\* From the client to the plugin, values only get newer.
THEOREM AscendingHolds == Spec => []Ascending
<1> QED BY UnderstandingHolds, AscendingInit, AscendingNext, PTL DEF Spec

\* Within a connection no step shows an older value than the one shown: not a
\* late VARIABLE_VALUES, not an answer read while the plugin publishes.
THEOREM ClientNeverGoesBack == Spec => ClientForward
<1>1. ASSUME Understanding, Ascending, Next, phase["client"] # "closed"
      PROVE  \A v \in Vars : creal'[v] >= creal[v]
  <2>0. TypeOK
    BY <1>1 DEF Understanding
  <2>1. ~Connect
    BY <1>1, SideFacts DEF Connect
  <2>2. CASE Decode("client")
    BY <1>1, <2>2, AscendingTaken
  <2>3. CASE creal' = creal
    BY <2>0, <2>3, ValueFacts
  <2>4. Decode("client") \/ creal' = creal
    <3>1. \A s, why : Close(s, why) => creal' = creal
      BY DEF Close, client
    <3>2. \A q : Command(q) => creal' = creal
      BY DEF Command, client
    <3>3. \A s \in Side : Flush(s) => creal' = creal
      BY <3>1 DEF Flush, Encode, client
    <3>4. Decode("server") => creal' = creal
      BY <3>1, SideFacts DEF Decode, ServerTakes, client
    <3>5. PluginThread => creal' = creal
      BY DEF PluginThread, Publish, client
    <3>6. ServerThread => creal' = creal
      BY <3>1, <3>3, <3>4, SideFacts
         DEF ServerThread, ServerProcess, Accept, RegisterCopy, RegisterLink,
             Recv, SnapshotRead, SnapshotSend, DecodeDone, DirtyServer,
             FlushDone, LostConnection, ServerStop, HandshakeTimeout, client
    <3>7. Runtime => Decode("client") \/ creal' = creal
      BY <2>1, <3>1, <3>2, <3>3, SideFacts
         DEF Runtime, ClientProcess, Recv, DecodeDone, DirtyClient, FlushDone,
             LostConnection, ProjectBuilt, SelectView, Disconnect, Request,
             client
    <3> QED BY <1>1, <3>5, <3>6, <3>7 DEF Next
  <2> QED BY <2>2, <2>3, <2>4
<1>2. Understanding /\ Ascending /\ [Next]_vars =>
        [phase["client"] # "closed" => \A v \in Vars : creal'[v] >= creal[v]]_vars
  BY <1>1
<1> QED BY <1>2, UnderstandingHolds, AscendingHolds, PTL DEF Spec, ClientForward


-----------------------------------------------------------------------------
(* No update is lost: UpdatesOnTheWay is inductive.                        *)

\* What has to be shown of the stream after a step.
LEMMA UpdatesStep ==
  ASSUME NEW r, ToClient' = r, WholeAnswers(r),
         Open' /\ \/ fsm'["client"] = "view_selected"
                  \/ /\ fsm'["client"] = "view_selection_in_progress"
                     /\ Holds(r, "AVAILABLE_VARIABLES")
           => \A v \in Vars \ sdirty' : EndsIn(r, v, creal'[v], sreal'[v]),
         phase'["server"] = "snapshot" =>
           \A v \in Vars \ walk' :
             snap'[v] # NoVal /\ (v \notin sdirty' => snap'[v] = sreal'[v])
  PROVE  UpdatesOnTheWay'
<1>1. WholeAnswers(ToClient)' /\ (Holds(ToClient, "AVAILABLE_VARIABLES")'
                                    <=> Holds(r, "AVAILABLE_VARIABLES"))
  BY DEF WholeAnswers, Holds
<1>2. \A v \in Vars : EndsIn(r, v, creal'[v], sreal'[v])
                        => EndsIn(ToClient, v, creal[v], sreal[v])'
  BY DEF EndsIn
<1> QED BY <1>1, <1>2 DEF UpdatesOnTheWay, Showing

\* What is known of the stream before it.
LEMMA UpdatesKnown ==
  ASSUME UpdatesOnTheWay, NEW q, q = ToClient
  PROVE  /\ WholeAnswers(q)
         /\ Open /\ \/ fsm["client"] = "view_selected"
                    \/ /\ fsm["client"] = "view_selection_in_progress"
                       /\ Holds(q, "AVAILABLE_VARIABLES")
              => \A v \in Vars \ sdirty : EndsIn(q, v, creal[v], sreal[v])
         /\ phase["server"] = "snapshot" =>
              \A v \in Vars \ walk :
                snap[v] # NoVal /\ (v \notin sdirty => snap[v] = sreal[v])
  BY DEF UpdatesOnTheWay, Showing

\* A step that sends nothing, takes nothing, and marks what it changes dirty.
LEMMA UpdatesFrame ==
  ASSUME UpdatesOnTheWay, ToClient' = ToClient, UNCHANGED <<creal, snap>>,
         fsm'["client"] = fsm["client"], Open' => Open,
         sdirty \subseteq sdirty',
         \A v \in Vars \ sdirty' : sreal'[v] = sreal[v],
         phase'["server"] = "snapshot" =>
           walk' = Vars \/ (phase["server"] = "snapshot" /\ walk' = walk)
  PROVE  UpdatesOnTheWay'
<1> DEFINE q == ToClient
<1>1. /\ WholeAnswers(q)
      /\ Open /\ \/ fsm["client"] = "view_selected"
                 \/ /\ fsm["client"] = "view_selection_in_progress"
                    /\ Holds(q, "AVAILABLE_VARIABLES")
           => \A v \in Vars \ sdirty : EndsIn(q, v, creal[v], sreal[v])
      /\ phase["server"] = "snapshot" =>
           \A v \in Vars \ walk :
             snap[v] # NoVal /\ (v \notin sdirty => snap[v] = sreal[v])
  BY UpdatesKnown
<1>2. ToClient' = q
  OBVIOUS
<1> HIDE DEF q
<1>3. \A v \in Vars \ sdirty' : v \in Vars \ sdirty /\ sreal'[v] = sreal[v]
  OBVIOUS
<1>4. Open' /\ \/ fsm'["client"] = "view_selected"
               \/ /\ fsm'["client"] = "view_selection_in_progress"
                  /\ Holds(q, "AVAILABLE_VARIABLES")
        => \A v \in Vars \ sdirty' : EndsIn(q, v, creal'[v], sreal'[v])
  BY <1>1, <1>3
<1>5. phase'["server"] = "snapshot" =>
        \A v \in Vars \ walk' :
          snap'[v] # NoVal /\ (v \notin sdirty' => snap'[v] = sreal'[v])
  BY <1>1, <1>3
<1> QED BY <1>1, <1>2, <1>4, <1>5, UpdatesStep

\* The client takes a message, and its values unless it is about to be told all.
LEMMA UpdatesTaken ==
  ASSUME Understanding, UpdatesOnTheWay, Decode("client"), Open' => Open
  PROVE  UpdatesOnTheWay'
<1> DEFINE w == wire["client"]
           u == sendq["server"]
           q == ToClient
           m == w[1]
           f == fsm["client"]
<1>0. /\ Len(w) > 0 /\ w \in Seq(Message) /\ m \in Message /\ ClientTakes(m)
      /\ wire'["client"] = Tail(w) /\ phase["client"] = "decode"
      /\ Leads(f, m.type, fsm'["client"])
  BY SideFacts, DecodeFacts
<1>1. /\ TypeOK /\ u \in Seq(Message) /\ q \in Seq(Message)
      /\ Len(q) \in Nat /\ Len(w) \in Nat
  BY SideFacts, QueueFacts, StreamFacts DEF Understanding
<1>2. /\ UNCHANGED <<sendq, phase, sreal, sdirty, snap, walk>>
      /\ creal' = IF Hooked(f, m.type) THEN Overwrite(creal, m) ELSE creal
  <2> HIDE DEF m
  <2> QED BY <1>0 DEF ClientTakes, server
<1>3. ToClient' = Tail(q) /\ q[1] = m /\ Len(q) > 0
  <2> HIDE DEF m
  <2>1. Tail(w) \o u = Tail(w \o u) /\ (w \o u)[1] = w[1] /\ Len(w \o u) > 0
    BY <1>0, <1>1, StreamTaken
  <2> QED BY <1>0, <1>2, <2>1 DEF ToClient, m
<1>4. /\ WholeAnswers(q)
      /\ Open /\ \/ f = "view_selected"
                 \/ /\ f = "view_selection_in_progress"
                    /\ Holds(q, "AVAILABLE_VARIABLES")
           => \A v \in Vars \ sdirty : EndsIn(q, v, creal[v], sreal[v])
      /\ phase["server"] = "snapshot" =>
           \A v \in Vars \ walk :
             snap[v] # NoVal /\ (v \notin sdirty => snap[v] = sreal[v])
  BY UpdatesKnown
<1>5. f # "disconnected" /\ m.type \in FromServer
  <2>1. w # <<>> /\ 1 \in 1..Len(w) /\ Live
    BY <1>0, <1>1, EmptyIffZero DEF Live
  <2>2. f # "disconnected"
    BY <1>0, <2>1 DEF Understanding, ClientEnds
  <2> QED BY <2>1, <2>2 DEF Understanding, ClientChain
<1> HIDE DEF q, m
<1>6. \/ f = "view_selection_in_progress" /\ m.type = "AVAILABLE_VARIABLES"
           /\ fsm'["client"] = "view_selected"
      \/ f = "connection_in_progress" /\ fsm'["client"] = "connected"
      \/ m.type = "VARIABLE_VALUES" /\ fsm'["client"] = f
  BY <1>0, <1>5, UsesOfServer
<1>7. 1 \in 1..Len(q)
  BY <1>1, <1>3
<1>8. ASSUME NEW v \in Vars, Hooked(f, m.type)
      PROVE  creal'[v] = IF q[1].vals[v] = NoVal THEN creal[v] ELSE q[1].vals[v]
  BY <1>2, <1>3, <1>8 DEF Overwrite
<1>9. ASSUME Open', fsm'["client"] = "view_selected", NEW v \in Vars \ sdirty'
      PROVE  EndsIn(Tail(q), v, creal'[v], sreal'[v])
  <2>1. Hooked(f, m.type)
    BY <1>6, <1>9 DEF Hooked, HookedTransitions
  <2>2. EndsIn(q, v, creal[v], sreal[v])
    BY <1>2, <1>3, <1>4, <1>6, <1>7, <1>9 DEF Holds
  <2> QED BY <1>1, <1>2, <1>3, <1>8, <2>1, <2>2, EndsTail
<1>10. ASSUME Open', fsm'["client"] = "view_selection_in_progress",
              Holds(Tail(q), "AVAILABLE_VARIABLES"), NEW v \in Vars \ sdirty'
       PROVE  EndsIn(Tail(q), v, creal'[v], sreal'[v])
  <2>1. PICK i \in 2..Len(q) : q[i].type = "AVAILABLE_VARIABLES"
    BY <1>1, <1>3, <1>10, KindsTail
  <2>2. i \in 1..Len(q)
    BY <1>1
  <2>3. q[i].vals[v] # NoVal
    BY <1>4, <2>1, <2>2 DEF WholeAnswers
  <2>4. f = "view_selection_in_progress" /\ Holds(q, "AVAILABLE_VARIABLES")
    BY <1>6, <1>10, <2>1, <2>2 DEF Holds
  <2>5. EndsIn(q, v, creal[v], sreal[v])
    BY <1>2, <1>4, <1>10, <2>4
  <2> QED BY <1>1, <1>2, <1>3, <2>1, <2>3, <2>5, EndsTail
<1>11. WholeAnswers(Tail(q))
  BY <1>1, <1>3, <1>4, KindsTail
<1>12. phase'["server"] = "snapshot" =>
         \A v \in Vars \ walk' :
           snap'[v] # NoVal /\ (v \notin sdirty' => snap'[v] = sreal'[v])
  BY <1>2, <1>4
<1> QED BY <1>3, <1>9, <1>10, <1>11, <1>12, UpdatesStep

\* The server queues a message that tells of everything that is dirty no more.
LEMMA UpdatesQueued ==
  ASSUME Understanding, UpdatesOnTheWay, NEW m \in Message,
         sendq'["server"] = Append(sendq["server"], m),
         UNCHANGED <<creal, sreal>>, wire'["client"] = wire["client"],
         fsm'["client"] = fsm["client"], Open' => Open,
         phase'["server"] = "snapshot" => walk' = Vars,
         m.type = "AVAILABLE_VARIABLES" => \A v \in Vars : m.vals[v] # NoVal,
         \A v \in Vars \ sdirty' :
           \/ m.vals[v] = sreal[v]
           \/ m.vals[v] = NoVal /\ v \notin sdirty
  PROVE  UpdatesOnTheWay'
<1> DEFINE w == wire["client"]
           u == sendq["server"]
           q == ToClient
           a == Append(q, m)
<1>1. /\ TypeOK /\ w \in Seq(Message) /\ u \in Seq(Message)
      /\ q \in Seq(Message)
  BY SideFacts, QueueFacts, StreamFacts DEF Understanding
<1>2. ToClient' = a
  <2>1. w \o Append(u, m) = Append(w \o u, m)
    BY <1>1, JoinAppend
  <2> QED BY <2>1 DEF ToClient
<1>3. /\ WholeAnswers(q)
      /\ Open /\ \/ fsm["client"] = "view_selected"
                 \/ /\ fsm["client"] = "view_selection_in_progress"
                    /\ Holds(q, "AVAILABLE_VARIABLES")
           => \A v \in Vars \ sdirty : EndsIn(q, v, creal[v], sreal[v])
  BY UpdatesKnown
<1> HIDE DEF q
<1>4. Holds(a, "AVAILABLE_VARIABLES") =>
        Holds(q, "AVAILABLE_VARIABLES") \/ m.type = "AVAILABLE_VARIABLES"
  BY <1>1, HoldsAppend
<1>5. WholeAnswers(a)
  BY <1>1, <1>3, KindsAppend
<1>6. ASSUME Open', NEW v \in Vars \ sdirty',
             \/ fsm["client"] = "view_selected"
             \/ /\ fsm["client"] = "view_selection_in_progress"
                /\ Holds(a, "AVAILABLE_VARIABLES")
      PROVE  EndsIn(a, v, creal[v], sreal[v])
  <2>1. CASE m.vals[v] = sreal[v]
    <3>1. sreal[v] # NoVal
      BY <1>1 DEF TypeOK, NoVal
    <3> QED BY <1>1, <2>1, <3>1, EndsAppend
  <2>2. CASE m.vals[v] = NoVal /\ v \notin sdirty
    <3>1. EndsIn(q, v, creal[v], sreal[v])
      BY <1>3, <1>4, <1>6, <2>2
    <3> QED BY <1>1, <2>2, <3>1, EndsAppend
  <2> QED BY <2>1, <2>2
<1> HIDE DEF a
<1> QED BY <1>2, <1>5, <1>6, UpdatesStep


\* The server takes a message: what it queues is PROJECT_URL, or nothing.
LEMMA UpdatesServerTakes ==
  ASSUME Understanding, UpdatesOnTheWay, Decode("server"), Open' => Open
  PROVE  UpdatesOnTheWay'
<1> DEFINE m == wire["server"][1]
           u == sendq["server"]
<1>0. /\ m \in Message /\ ServerTakes(m) /\ phase["server"] = "decode"
      /\ wire'["client"] = wire["client"] /\ fsm'["client"] = fsm["client"]
  BY SideFacts, DecodeFacts
<1>1. TypeOK /\ u \in Seq(Message)
  BY SideFacts, QueueFacts DEF Understanding
<1> HIDE DEF m
<1>2. /\ sendq'["server"] = u \o Reply(m.type)
      /\ UNCHANGED <<creal, sreal, snap, sdirty>>
      /\ phase'["server"] = "snapshot" => walk' = Vars
  BY <1>0, <1>1, SideFacts DEF ServerTakes, TypeOK, client
<1>3. CASE sendq'["server"] = u
  <2>1. ToClient' = ToClient
    BY <1>0, <1>3 DEF ToClient
  <2> QED BY <1>0, <1>2, <2>1, UpdatesFrame
<1>4. CASE sendq'["server"] = Append(u, Msg("PROJECT_URL"))
  <2> DEFINE a == Msg("PROJECT_URL")
  <2>1. /\ a \in Message /\ \A v \in Vars : a.vals[v] = NoVal
        /\ a.type = "PROJECT_URL"
    BY MessageFacts DEF Msg, Nothing, MessageTypes
  <2> HIDE DEF a
  <2>2. sendq'["server"] = Append(sendq["server"], a)
    BY <1>4 DEF a
  <2>3. UNCHANGED <<creal, sreal>>
    BY <1>2
  <2>4. \A v \in Vars \ sdirty' : a.vals[v] = NoVal /\ v \notin sdirty
    BY <1>2, <2>1
  <2> QED BY <1>0, <1>2, <2>1, <2>2, <2>3, <2>4, UpdatesQueued
<1> QED BY <1>1, <1>2, <1>3, <1>4, ReplyFacts

\* The server answers SELECT_VIEW with what it has read.
LEMMA UpdatesAnswer ==
  ASSUME Understanding, UpdatesOnTheWay, SnapshotSend, Open' => Open
  PROVE  UpdatesOnTheWay'
<1> DEFINE m == Carrying("AVAILABLE_VARIABLES", snap, Vars)
<1>0. TypeOK
  BY DEF Understanding
<1>1. m \in Message /\ \A v \in Vars : m.vals[v] = snap[v]
  <2>1. snap \in [Vars -> Version] /\ "AVAILABLE_VARIABLES" \in MessageTypes
    BY <1>0 DEF TypeOK, MessageTypes
  <2> QED BY <2>1, CarryingFacts
<1> HIDE DEF m
<1>2. /\ phase["server"] = "snapshot" /\ walk = {}
      /\ phase'["server"] # "snapshot"
      /\ sendq'["server"] = Append(sendq["server"], m)
      /\ UNCHANGED <<creal, sreal, sdirty>> /\ wire' = wire
      /\ fsm'["client"] = fsm["client"]
  BY <1>0, SideFacts DEF SnapshotSend, TypeOK, client, m
<1>3. \A v \in Vars : m.vals[v] # NoVal
                        /\ (v \notin sdirty' => m.vals[v] = sreal[v])
  BY <1>1, <1>2 DEF UpdatesOnTheWay
<1>4. UNCHANGED <<creal, sreal>>
  BY <1>2
<1> QED BY <1>1, <1>2, <1>3, <1>4, UpdatesQueued

\* The server queues the values marked dirty.
LEMMA UpdatesDirty ==
  ASSUME Understanding, UpdatesOnTheWay, DirtyServer, Open' => Open
  PROVE  UpdatesOnTheWay'
<1> DEFINE m == Carrying("VARIABLE_VALUES", sreal, sdirty)
<1>0. TypeOK
  BY DEF Understanding
<1>1. /\ m \in Message /\ m.type = "VARIABLE_VALUES"
      /\ \A v \in Vars : m.vals[v] = IF v \in sdirty THEN sreal[v] ELSE NoVal
  <2>1. /\ sreal \in [Vars -> Version] /\ "VARIABLE_VALUES" \in MessageTypes
    BY <1>0 DEF TypeOK, Version, MessageTypes
  <2> QED BY <2>1, CarryingFacts
<1> HIDE DEF m
<1>2. /\ phase'["server"] # "snapshot" /\ wire' = wire
      /\ UNCHANGED <<creal, sreal, snap>> /\ fsm'["client"] = fsm["client"]
      /\ \/ UNCHANGED <<sendq, sdirty>>
         \/ sendq' = [sendq EXCEPT !["server"] = Append(@, m)]
  BY <1>0, SideFacts DEF DirtyServer, TypeOK, client, m
<1>3. CASE UNCHANGED <<sendq, sdirty>>
  <2>1. ToClient' = ToClient
    BY <1>2, <1>3 DEF ToClient
  <2> QED BY <1>2, <1>3, <2>1, UpdatesFrame
<1>4. CASE sendq' = [sendq EXCEPT !["server"] = Append(@, m)]
  <2>1. sendq'["server"] = Append(sendq["server"], m)
    BY <1>0, <1>4, SideFacts DEF TypeOK
  <2>2. UNCHANGED <<creal, sreal>>
    BY <1>2
  <2>3. \A v \in Vars \ sdirty' : \/ m.vals[v] = sreal[v]
                                  \/ m.vals[v] = NoVal /\ v \notin sdirty
    BY <1>1
  <2> QED BY <1>1, <1>2, <2>1, <2>2, <2>3, UpdatesQueued
<1> QED BY <1>2, <1>3, <1>4

\* The server reads a value for its answer.
LEMMA UpdatesRead ==
  ASSUME Understanding, UpdatesOnTheWay, NEW x \in Vars, SnapshotRead(x)
  PROVE  UpdatesOnTheWay'
<1> DEFINE q == ToClient
<1>1. TypeOK
  BY DEF Understanding
<1>2. /\ UNCHANGED <<phase, fsm, wire, sendq, creal, sreal, sdirty>>
      /\ phase["server"] = "snapshot"
      /\ snap' = [snap EXCEPT ![x] = sreal[x]] /\ walk' = walk \ {x}
  BY DEF SnapshotRead, session, client
<1>3. ToClient' = q
  BY <1>2 DEF ToClient
<1>4. /\ WholeAnswers(q)
      /\ Open /\ \/ fsm["client"] = "view_selected"
                 \/ /\ fsm["client"] = "view_selection_in_progress"
                    /\ Holds(q, "AVAILABLE_VARIABLES")
           => \A v \in Vars \ sdirty : EndsIn(q, v, creal[v], sreal[v])
      /\ phase["server"] = "snapshot" =>
           \A v \in Vars \ walk :
             snap[v] # NoVal /\ (v \notin sdirty => snap[v] = sreal[v])
  BY UpdatesKnown
<1> HIDE DEF q
<1>5. ASSUME NEW v \in Vars \ walk'
      PROVE  snap'[v] # NoVal /\ (v \notin sdirty => snap'[v] = sreal[v])
  <2>1. CASE v = x
    <3>1. snap'[v] = sreal[v] /\ sreal[v] # NoVal
      BY <1>1, <1>2, <2>1 DEF TypeOK, NoVal
    <3> QED BY <3>1
  <2>2. CASE v # x
    <3>1. snap'[v] = snap[v] /\ v \in Vars \ walk
      BY <1>1, <1>2, <2>2 DEF TypeOK
    <3> QED BY <1>2, <1>4, <3>1
  <2> QED BY <2>1, <2>2
<1>6. Open' => Open
  BY <1>2 DEF Open
<1> QED BY <1>2, <1>3, <1>4, <1>5, <1>6, UpdatesStep

\* One side goes: what it had on its way is cut.
LEMMA UpdatesCut ==
  ASSUME Understanding, UpdatesOnTheWay, NEW s \in Side, NEW why, Close(s, why)
  PROVE  UpdatesOnTheWay'
<1> DEFINE w == wire["client"]
           u == sendq["server"]
           q == ToClient
<1>1. /\ TypeOK /\ w \in Seq(Message) /\ u \in Seq(Message)
      /\ q \in Seq(Message) /\ Len(q) \in Nat
  BY SideFacts, QueueFacts, StreamFacts DEF Understanding
<1>2. UNCHANGED <<creal, sreal, snap, walk, sdirty>>
  BY DEF Close, server, client
<1>3. ~Open' /\ UNCHANGED fsm
  BY <1>1, CloseFacts DEF Open
<1>4. CASE s = "client"
  <2>1. /\ wire'["client"] = w /\ sendq'["server"] = u
        /\ phase'["server"] = phase["server"]
    BY <1>1, <1>4, SideFacts, CloseFacts
  <2>2. ToClient' = ToClient
    BY <2>1 DEF ToClient
  <2> QED BY <1>2, <1>3, <2>1, <2>2, UpdatesFrame
<1>5. CASE s = "server"
  <2>1. PICK k \in Nat : k <= Len(w) /\ wire'["client"] = SubSeq(w, 1, k)
    BY <1>1, <1>5, SideFacts, CloseFacts
  <2>2. sendq'["server"] = <<>> /\ phase'["server"] = "closed"
    BY <1>1, <1>5, SideFacts, CloseFacts
  <2> DEFINE p == SubSeq(w, 1, k) \o <<>>
  <2>3. ToClient' = p
    BY <2>1, <2>2 DEF ToClient
  <2>4. /\ p \in Seq(Message) /\ Len(p) \in Nat /\ Len(p) <= Len(q)
        /\ \A i \in 1..Len(p) : p[i] = q[i]
    BY <1>1, <2>1, StreamCut DEF ToClient
  <2>5. WholeAnswers(q)
    BY UpdatesKnown
  <2> HIDE DEF p, q
  <2>6. WholeAnswers(p)
    BY <1>1, <2>4, <2>5, KindsCut
  <2> QED BY <1>3, <2>2, <2>3, <2>6, UpdatesStep
<1> QED BY <1>4, <1>5 DEF Side

\* A new connection carries nothing.
LEMMA UpdatesConnect ==
  ASSUME Connect
  PROVE  UpdatesOnTheWay'
<1>1. /\ wire'["client"] = <<>> /\ sendq'["server"] = <<>>
      /\ phase'["server"] = "absent" /\ fsm'["client"] = "disconnected"
  BY SideFacts DEF Connect
<1>2. ToClient' = <<>>
  BY <1>1 DEF ToClient
<1> DEFINE r == ToClient'
<1>3. WholeAnswers(r)
  BY <1>2, NothingCarried
<1> HIDE DEF r
<1>4. ToClient' = r
  BY DEF r
<1> QED BY <1>1, <1>3, <1>4, UpdatesStep

\* A client that is about to select a view has no answer on its way yet.
LEMMA NoEarlyAnswer ==
  ASSUME Understanding, Answering, Live, fsm["client"] = "connected"
  PROVE  ~Holds(ToClient, "AVAILABLE_VARIABLES")
<1> DEFINE w == wire["client"]
           u == sendq["server"]
<1>1. w \in Seq(Message) /\ u \in Seq(Message)
  BY SideFacts, QueueFacts DEF Understanding
<1>2. \A i \in 1..Len(w) : w[i].type # "AVAILABLE_VARIABLES"
  BY DEF Understanding, ClientChain
<1>3. ASSUME NEW i \in 1..Len(u), u[i].type = "AVAILABLE_VARIABLES"
      PROVE  FALSE
  <2>1. \/ fsm["server"] = "view_selection_in_progress"
        \/ state["server"] = "DISCONNECTED"
    BY <1>3 DEF Answering, AnswersQueued
  <2> QED BY <2>1, ServerKnows DEF Answering, Goodbye
<1> SUFFICES ASSUME Holds(w \o u, "AVAILABLE_VARIABLES") PROVE FALSE
  BY DEF ToClient
<1>4. PICK i \in 1..Len(w \o u) : (w \o u)[i].type = "AVAILABLE_VARIABLES"
  BY DEF Holds
<1> HIDE DEF w, u
<1>5. \/ \E j \in 1..Len(w) : (w \o u)[i] = w[j]
      \/ \E j \in 1..Len(u) : (w \o u)[i] = u[j]
  BY <1>1, JoinElem
<1> QED BY <1>2, <1>3, <1>4, <1>5

\* A side sends a message: it stays where it is in the stream, and a client
\* that only now asks for a view has not been told anything.
LEMMA UpdatesSent ==
  ASSUME Understanding, Answering, UpdatesOnTheWay, NEW s \in Side,
         phase[s] = "flush", Len(sendq[s]) > 0, Encode(s, sendq[s][1])
  PROVE  UpdatesOnTheWay'
<1> DEFINE q == ToClient
           f == fsm["client"]
           t == sendq["client"][1].type
<1>1. TypeOK
  BY DEF Understanding
<1>2. /\ UNCHANGED <<creal, sreal, sdirty, snap, walk, phase>>
  BY DEF Encode, server, client
<1>3. ToClient' = q
  <2>1. CASE s = "client"
    BY <1>1, <2>1, SideFacts, EncodeFacts DEF ToClient
  <2>2. CASE s = "server"
    <3> DEFINE w == wire["client"]
               u == sendq["server"]
    <3>1. w \in Seq(Message) /\ u \in Seq(Message)
      BY <1>1, SideFacts, QueueFacts
    <3>2. sendq'["server"] = Tail(u) /\ wire'["client"] = Append(w, u[1])
      BY <1>1, <2>2, SideFacts, EncodeFacts
    <3>3. Append(w, u[1]) \o Tail(u) = w \o u
      BY <2>2, <3>1, JoinMove
    <3> QED BY <3>2, <3>3 DEF ToClient
  <2> QED BY <2>1, <2>2 DEF Side
<1>4. Open' = Open
  BY <1>2 DEF Open
<1>5. CASE s = "server"
  <2>1. fsm'["client"] = f
    BY <1>1, <1>5, SideFacts, EncodeFacts
  <2> QED BY <1>2, <1>3, <1>4, <2>1, UpdatesFrame
<1>6. CASE s = "client"
  <2>1. Leads(f, t, fsm'["client"])
    BY <1>1, <1>6, SideFacts, EncodeFacts
  <2>2. t \in FromClient /\ Live
    <3>1. sendq["client"] \in Seq(Message)
      BY <1>1, SideFacts, QueueFacts
    <3>2. 1 \in 1..Len(sendq["client"])
      BY <1>6, <3>1
    <3> QED BY <1>6, <3>2 DEF Understanding, QueuesInOrder, Live
  <2> HIDE DEF t
  <2>3. \/ fsm'["client"] \notin
             {"view_selected", "view_selection_in_progress"}
        \/ fsm'["client"] = "view_selection_in_progress" /\ f = "connected"
        \/ fsm'["client"] = f
    BY <2>1, <2>2, UsesOfClient
  <2>4. CASE fsm'["client"] = f
    BY <1>2, <1>3, <1>4, <2>4, UpdatesFrame
  <2>5. CASE ~(fsm'["client"] = f)
    <3>1. /\ WholeAnswers(q)
          /\ phase["server"] = "snapshot" =>
               \A v \in Vars \ walk :
                 snap[v] # NoVal /\ (v \notin sdirty => snap[v] = sreal[v])
      BY UpdatesKnown
    <3>2. f = "connected" => ~Holds(q, "AVAILABLE_VARIABLES")
      BY <2>2, NoEarlyAnswer
    <3> HIDE DEF q
    <3> QED BY <1>2, <1>3, <2>3, <2>5, <3>1, <3>2, UpdatesStep
  <2> QED BY <2>4, <2>5
<1> QED BY <1>5, <1>6 DEF Side

\* A session is filled before the client has said CONNECT or been answered.
LEMMA UpdatesRegister ==
  ASSUME Understanding, Answering, UpdatesOnTheWay,
         NEW x \in Vars, RegisterCopy(x)
  PROVE  UpdatesOnTheWay'
<1> DEFINE q == ToClient
<1>1. /\ UNCHANGED <<phase, fsm, wire, sendq>> /\ phase["server"] = "register"
  BY DEF RegisterCopy, session
<1>2. ToClient' = q
  BY <1>1 DEF ToClient
<1>3. WholeAnswers(q)
  BY UpdatesKnown
<1>4. Open => fsm["client"] \in {"disconnected", "connection_in_progress"}
  <2>1. fsm["server"] = "disconnected"
    BY <1>1 DEF Answering, FreshTogether, Fresh
  <2> QED BY <2>1, ServerKnows, SideFacts DEF Open, Live
<1> HIDE DEF q
<1>5. Open' => fsm'["client"] \in {"disconnected", "connection_in_progress"}
  BY <1>1, <1>4 DEF Open
<1> QED BY <1>1, <1>2, <1>3, <1>5, UpdatesStep

\* The plugin publishes: what reaches the session is marked dirty there.
LEMMA UpdatesPublish ==
  ASSUME Understanding, UpdatesOnTheWay, NEW U \in SUBSET Vars, Publish(U)
  PROVE  UpdatesOnTheWay'
<1>1. /\ UNCHANGED <<phase, fsm, wire, sendq, creal, snap, walk>>
      /\ sdirty \subseteq sdirty'
      /\ \A v \in Vars \ sdirty' : sreal'[v] = sreal[v]
  <2>1. UNCHANGED <<phase, fsm, wire, sendq, creal, snap, walk>>
    BY DEF Publish, session, client
  <2>2. CASE linked
    <3>1. /\ sreal' = [v \in Vars |-> IF v \in U THEN preal'[v] ELSE sreal[v]]
          /\ sdirty' = sdirty \cup {v \in U : sreal[v] # preal'[v]}
      BY <2>2 DEF Publish
    <3> QED BY <2>1, <3>1
  <2>3. CASE ~linked
    BY <2>1, <2>3 DEF Publish
  <2> QED BY <2>2, <2>3
<1>2. ToClient' = ToClient /\ (Open' => Open)
  BY <1>1 DEF ToClient, Open
<1> QED BY <1>1, <1>2, UpdatesFrame

\* Every step keeps UpdatesOnTheWay.
LEMMA UpdatesNext ==
  ASSUME Understanding, Answering, UpdatesOnTheWay, [Next]_vars
  PROVE  UpdatesOnTheWay'
<1>0. TypeOK
  BY DEF Understanding
<1>1. CASE Connect
  BY <1>1, UpdatesConnect
<1>2. CASE UNCHANGED vars
  <2>1. /\ UNCHANGED <<phase, fsm, wire, sendq, creal, snap, sdirty, sreal, walk>>
    BY <1>2 DEF vars, session, server, client
  <2> QED BY <2>1, UpdatesFrame DEF ToClient, Open
<1> SUFFICES ASSUME Next, ~Connect PROVE UpdatesOnTheWay'
  BY <1>1, <1>2
<1>3. Open' => Open
  BY <1>0, StaysClosed DEF Open
<1>4. ASSUME UNCHANGED <<creal, snap, sdirty, sreal, wire>>,
             fsm'["client"] = fsm["client"],
             sendq'["server"] = sendq["server"],
             phase'["server"] = "snapshot" =>
               phase["server"] = "snapshot" /\ walk' = walk
      PROVE  UpdatesOnTheWay'
  BY <1>3, <1>4, UpdatesFrame DEF ToClient
<1>5. ASSUME NEW s \in Side, Flush(s) PROVE UpdatesOnTheWay'
  <2>1. /\ phase[s] = "flush" /\ Len(sendq[s]) > 0
        /\ Encode(s, sendq[s][1]) \/ Close(s, "sent")
    BY <1>0, <1>5, FlushFacts
  <2> QED BY <2>1, UpdatesSent, UpdatesCut
<1>6. CASE \/ \E s \in Side : \/ \E n \in 0..Len(wire[s]) : Recv(s, n)
                              \/ DecodeDone(s) \/ FlushDone(s)
           \/ RegisterLink \/ DirtyClient \/ Accept
  <2>1. /\ UNCHANGED <<creal, snap, sdirty, sreal, wire, fsm>>
        /\ sendq'["server"] = sendq["server"]
        /\ phase'["server"] = "snapshot" =>
             phase["server"] = "snapshot" /\ walk' = walk
    BY <1>0, <1>6, SideFacts DEF Recv, DecodeDone, FlushDone, RegisterLink,
       DirtyClient, Accept, server, client, TypeOK
  <2> QED BY <1>4, <2>1
<1>7. CASE SelectView \/ Disconnect
  <2>1. PICK e : Command(e)
    BY <1>7 DEF SelectView, Disconnect
  <2>2. /\ UNCHANGED <<creal, sreal, snap, sdirty, walk, wire, fsm>>
        /\ sendq'["server"] = sendq["server"]
        /\ phase'["server"] = phase["server"]
    BY <1>0, <2>1, SideFacts DEF Command, TypeOK, server, client
  <2> QED BY <1>4, <2>2
<1>8. CASE \E v \in Vars : Request(v)
  BY <1>4, <1>8 DEF Request, session, server
<1>9. CASE \/ \E s \in Side : LostConnection(s)
           \/ ServerStop \/ HandshakeTimeout \/ ProjectBuilt
  <2>1. CASE UNCHANGED <<session, creal, sreal, snap, sdirty, walk>>
    BY <1>4, <2>1 DEF session
  <2> QED BY <1>9, <2>1, UpdatesCut, SideFacts
          DEF LostConnection, ServerStop, HandshakeTimeout, ProjectBuilt,
              server, client
<1>10. CASE \/ SnapshotSend \/ DirtyServer
            \/ \E v \in Vars : RegisterCopy(v) \/ SnapshotRead(v)
            \/ PluginThread
            \/ \E s \in Side : Decode(s)
  BY <1>3, <1>10, UpdatesAnswer, UpdatesDirty, UpdatesRegister, UpdatesRead,
     UpdatesPublish, UpdatesTaken, UpdatesServerTakes
     DEF PluginThread, Side
<1> QED BY <1>5, <1>6, <1>7, <1>8, <1>9, <1>10, SideFacts
        DEF Next, Runtime, ServerThread, ServerProcess, ClientProcess

LEMMA UpdatesInit == Init => UpdatesOnTheWay
<1> SUFFICES ASSUME Init PROVE UpdatesOnTheWay
  OBVIOUS
<1>1. ToClient = <<>> /\ ~Open /\ phase["server"] # "snapshot"
  BY SideFacts DEF Init, ToClient, Open
<1> QED BY <1>1, NothingCarried DEF UpdatesOnTheWay

\* A client that shows a view is told of everything that is not dirty.
THEOREM UpdatesAlwaysOnTheWay == Spec => []UpdatesOnTheWay
<1> QED BY UnderstandingHolds, AnsweringHolds, UpdatesInit, UpdatesNext, PTL
        DEF Spec

\* The dirty flags of the server's session lose no update: clearing them when
\* the message is queued is safe, whatever the plugin publishes meanwhile.
THEOREM NoUpdateIsLost == Spec => []NoUpdateLost
<1>1. Understanding /\ UpdatesOnTheWay => NoUpdateLost
  <2> SUFFICES ASSUME Understanding, UpdatesOnTheWay, Open,
                      fsm["client"] = "view_selected", NEW v \in Vars \ sdirty
               PROVE  Latest(ToClient, v, creal[v]) = sreal[v]
    BY DEF NoUpdateLost, Open, ToClient
  <2>1. ToClient \in Seq(Message)
    BY StreamFacts DEF Understanding
  <2>2. EndsIn(ToClient, v, creal[v], sreal[v])
    BY DEF UpdatesOnTheWay, Showing
  <2> QED BY <2>1, <2>2, EndsLatest
<1> QED BY <1>1, UnderstandingHolds, UpdatesAlwaysOnTheWay, PTL

\* What is on the way between the two sides and the plugin, all in one.
THEOREM DeliveringHolds == Spec => []Delivering
<1>1. RequestsOnTheWay /\ UpdatesOnTheWay /\ Ascending => Delivering
  BY DEF Delivering
<1> QED BY <1>1, RequestsAlwaysOnTheWay, UpdatesAlwaysOnTheWay, AscendingHolds,
        PTL
=============================================================================
