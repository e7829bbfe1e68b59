-------------------------- MODULE CpProtocol_proofs --------------------------
(***************************************************************************)
(* Proofs about CpProtocol, for any set of variables and any bounds.       *)
(***************************************************************************)
EXTENDS CpProtocol, TLAPS

(* Facts about the two sides and their messages.                           *)

\* The peer of a side is the other side.
LEMMA PeerFacts ==
  ASSUME NEW s \in Side
  PROVE  /\ Peer(s) \in Side /\ Peer(s) # s /\ Peer(Peer(s)) = s
         /\ Side = {s, Peer(s)}
  BY DEF Side, Peer

\* Messages without values, and messages that carry values, are messages.
LEMMA MessageFacts ==
  /\ \A t \in MessageTypes : Msg(t) \in Message
  /\ \A t \in MessageTypes, f \in [Vars -> Version], D \in SUBSET Vars :
       Carrying(t, f, D) \in Message
  /\ Nothing \in [Vars -> Version]
  BY DEF Msg, Carrying, Message, Nothing, Version, NoVal

\* What overwrites versions with a message yields versions, and naturals
\* stay naturals.
LEMMA OverwriteFacts ==
  ASSUME NEW m \in Message
  PROVE  /\ \A f \in [Vars -> Nat] : Overwrite(f, m) \in [Vars -> Nat]
         /\ \A f \in [Vars -> Version] : Overwrite(f, m) \in [Vars -> Version]
  BY DEF Overwrite, Message, Version, NoVal

\* A step of the diagram leads to a state of the diagram, and the hook to a
\* state of the session.
LEMMA StepTypes ==
  ASSUME NEW s \in Side, NEW m \in Message, Step(s, m),
         fsm \in [Side -> FsmStates], state \in [Side -> SessionStates]
  PROVE  fsm' \in [Side -> FsmStates] /\ state' \in [Side -> SessionStates]
<1>1. fsm' \in [Side -> FsmStates]
  BY DEF Step
<1>2. StateAfterHook(m.type) \in SessionStates
  BY DEF StateAfterHook, SessionStates
<1> QED BY <1>1, <1>2 DEF Step

\* Closing one end keeps the types: the peer keeps a prefix of its wire that
\* contains what it has received.
LEMMA CloseTypes ==
  ASSUME TypeOK, NEW s \in Side, NEW why \in {"none", "received", "sent"},
         Close(s, why)
  PROVE  TypeOK'
<1> DEFINE p == Peer(s)
<1>1. p \in Side /\ p # s /\ Peer(p) = s /\ Side = {s, p}
  BY PeerFacts
<1>2. PICK k \in got[p]..(Len(wire[p]) - held[s]) :
        wire' = [wire EXCEPT ![p] = SubSeq(@, 1, k)]
  BY DEF Close
<1>3. k \in Nat /\ got[p] <= k /\ k <= Len(wire[p])
  BY <1>1, <1>2 DEF TypeOK
<1>4. SubSeq(wire[p], 1, k) \in Seq(Message) /\ Len(SubSeq(wire[p], 1, k)) = k
  BY <1>1, <1>3 DEF TypeOK
<1>5. wire' \in [Side -> Seq(Message)] /\ wire'[s] = wire[s]
        /\ Len(wire'[p]) = k
  BY <1>1, <1>2, <1>4 DEF TypeOK
<1>6. got' \in [Side -> Nat] /\ held' \in [Side -> Nat]
        /\ held'[s] = 0 /\ held'[p] = held[p] /\ got' = got
  BY <1>1 DEF Close, TypeOK
<1>7. \A u \in Side : got'[u] + held'[Peer(u)] <= Len(wire'[u])
  BY <1>1, <1>3, <1>5, <1>6 DEF TypeOK
<1>8. sendq' \in [Side -> Seq(Message)]
  BY DEF Close, TypeOK
<1>9. /\ phase' \in [Side -> {"closed", "absent", "register", "idle", "decode",
                              "snapshot", "dirty", "flush"}]
      /\ error' \in [Side -> {"none", "received", "sent"}]
  BY DEF Close, TypeOK
<1> QED BY <1>5, <1>6, <1>7, <1>8, <1>9
        DEF Close, TypeOK, runtime, plugin, server, client

-----------------------------------------------------------------------------
(* Type correctness.                                                       *)

\* The head and the tail of a wire on which something has been received.
LEMMA TakeTypes ==
  ASSUME TypeOK, NEW s \in Side, NEW m, got[s] > 0, Take(s, m)
  PROVE  /\ m \in Message
         /\ wire' \in [Side -> Seq(Message)] /\ got' \in [Side -> Nat]
         /\ \A u \in Side : got'[u] + held[Peer(u)] <= Len(wire'[u])
<1> DEFINE p == Peer(s)
<1>1. p \in Side /\ p # s /\ Peer(p) = s /\ Side = {s, p}
  BY PeerFacts
<1>2. wire[s] \in Seq(Message) /\ Len(wire[s]) > 0
        /\ got[s] + held[p] <= Len(wire[s]) /\ got[s] \in Nat \ {0}
        /\ held[p] \in Nat
  BY <1>1 DEF TypeOK
<1>3. m \in Message /\ Tail(wire[s]) \in Seq(Message)
        /\ Len(Tail(wire[s])) = Len(wire[s]) - 1
  BY <1>2 DEF Take
<1>4. wire' \in [Side -> Seq(Message)] /\ wire'[s] = Tail(wire[s])
        /\ wire'[p] = wire[p]
  BY <1>1, <1>3 DEF Take, TypeOK
<1>5. got' \in [Side -> Nat] /\ got'[s] = got[s] - 1 /\ got'[p] = got[p]
  BY <1>1, <1>2 DEF Take, TypeOK
<1>6. \A u \in Side : got'[u] + held[Peer(u)] <= Len(wire'[u])
  BY <1>1, <1>2, <1>3, <1>4, <1>5 DEF TypeOK
<1> QED BY <1>3, <1>4, <1>5, <1>6

\* Encoding a queued message keeps the types.
LEMMA EncodeTypes ==
  ASSUME TypeOK, NEW s \in Side, NEW m \in Message, sendq[s] # <<>>,
         Encode(s, m)
  PROVE  TypeOK'
<1> DEFINE p == Peer(s)
<1>1. p \in Side /\ p # s /\ Peer(p) = s /\ Side = {s, p}
  BY PeerFacts
<1>2. fsm' \in [Side -> FsmStates] /\ state' \in [Side -> SessionStates]
  BY StepTypes DEF Encode, TypeOK
<1>3. sendq' \in [Side -> Seq(Message)]
  BY DEF Encode, TypeOK
<1>4. wire' \in [Side -> Seq(Message)] /\ wire'[s] = wire[s]
        /\ Len(wire'[p]) = Len(wire[p]) + 1
  BY <1>1 DEF Encode, TypeOK
<1>5. held' \in [Side -> Nat] /\ held'[s] = held[s] + 1 /\ held'[p] = held[p]
  BY <1>1 DEF Encode, TypeOK
<1>6. \A u \in Side : got'[u] + held'[Peer(u)] <= Len(wire'[u])
  BY <1>1, <1>4, <1>5 DEF Encode, TypeOK
<1> QED BY <1>2, <1>3, <1>4, <1>5, <1>6
        DEF Encode, TypeOK, runtime, plugin, server, client

\* A command of the runtime keeps the types when it queues messages.
LEMMA CommandTypes ==
  ASSUME TypeOK, NEW q \in Seq(Message), Command(q),
         closing' \in BOOLEAN, ready' \in BOOLEAN, hasty' \in BOOLEAN
  PROVE  TypeOK'
<1>1. "client" \in Side /\ "server" \in Side /\ Peer("client") = "server"
        /\ Peer("server") = "client" /\ Side = {"client", "server"}
  BY DEF Side, Peer
<1>2. sendq' \in [Side -> Seq(Message)]
  BY <1>1 DEF Command, TypeOK
<1>3. PICK n \in 0..(Len(wire["client"]) - held["server"]) :
        got' = [got EXCEPT !["client"] = n]
  BY DEF Command
<1>4. n \in Nat /\ n + held["server"] <= Len(wire["client"])
  BY <1>1, <1>3 DEF TypeOK
<1>5. got' \in [Side -> Nat] /\ got'["client"] = n
        /\ got'["server"] = got["server"]
  BY <1>1, <1>3, <1>4 DEF TypeOK
<1>6. \A u \in Side : got'[u] + held'[Peer(u)] <= Len(wire'[u])
  BY <1>1, <1>4, <1>5 DEF Command, TypeOK
<1> QED BY <1>2, <1>5, <1>6 DEF Command, TypeOK, plugin, server, client

\* Every message names used in the model is one of the protocol.
LEMMA CommandMessages ==
  /\ Unselect \in Seq(Message)
  /\ <<Msg("SELECT_VIEW")>> \in Seq(Message)
  /\ <<Msg("DISCONNECT")>> \in Seq(Message)
  /\ <<Msg("CONNECT")>> \in Seq(Message)
  /\ \A t : Reply(t) \in Seq(Message)
  BY MessageFacts DEF Unselect, MessageTypes, Reply

\* The initial states are well typed.
LEMMA TypeInit == Init => TypeOK
<1> SUFFICES ASSUME Init PROVE TypeOK
  OBVIOUS
<1>1. /\ sendq \in [Side -> Seq(Message)] /\ wire \in [Side -> Seq(Message)]
      /\ got \in [Side -> Nat] /\ held \in [Side -> Nat]
      /\ \A s \in Side : got[s] = 0 /\ held[s] = 0 /\ Len(wire[s]) = 0
  BY DEF Init
<1>2. \A s \in Side : got[s] + held[Peer(s)] <= Len(wire[s])
  BY <1>1, PeerFacts
<1>3. creal \in [Vars -> Version] /\ snap \in [Vars -> Version]
  BY MessageFacts DEF Init
<1>4. /\ phase \in [Side -> {"closed", "absent", "register", "idle", "decode",
                             "snapshot", "dirty", "flush"}]
      /\ fsm \in [Side -> FsmStates] /\ state \in [Side -> SessionStates]
      /\ error \in [Side -> {"none", "received", "sent"}]
  BY DEF Init, FsmStates, SessionStates
<1>5. /\ preal \in [Vars -> Nat] /\ preq \in [Vars -> Nat]
      /\ sreal \in [Vars -> Nat] /\ creq \in [Vars -> Nat]
  BY DEF Init
<1>6. /\ closing \in BOOLEAN /\ ready \in BOOLEAN /\ inprogress \in BOOLEAN
      /\ linked \in BOOLEAN /\ hasty \in BOOLEAN
      /\ sdirty \subseteq Vars /\ walk \subseteq Vars /\ cdirty \subseteq Vars
  BY DEF Init
<1> QED BY <1>1, <1>2, <1>3, <1>4, <1>5, <1>6 DEF TypeOK

\* Every step of lt_cp_session_process keeps the types.
LEMMA TypeProcess ==
  ASSUME TypeOK, NEW s \in Side
  PROVE  /\ \A n : Recv(s, n) => TypeOK'
         /\ Decode(s) => TypeOK'
         /\ DecodeDone(s) => TypeOK'
         /\ Flush(s) => TypeOK'
         /\ FlushDone(s) => TypeOK'
<1> USE DEF runtime, plugin, server, client
<1>0. /\ Peer(s) \in Side /\ Peer(s) # s /\ Peer(Peer(s)) = s
      /\ Side = {s, Peer(s)}
  BY PeerFacts
<1>1. ASSUME NEW n, Recv(s, n) PROVE TypeOK'
  <2>1. n \in Nat /\ n + held[Peer(s)] <= Len(wire[s])
    BY <1>0, <1>1 DEF Recv, TypeOK
  <2>2. got' \in [Side -> Nat] /\ got'[s] = n
          /\ got'[Peer(s)] = got[Peer(s)]
    BY <1>0, <1>1, <2>1 DEF Recv, TypeOK
  <2>3. \A u \in Side : got'[u] + held'[Peer(u)] <= Len(wire'[u])
    BY <1>0, <1>1, <2>1, <2>2 DEF Recv, TypeOK
  <2> QED BY <1>1, <2>2, <2>3 DEF Recv, TypeOK
<1>2. ASSUME Decode(s) PROVE TypeOK'
  <2> DEFINE m == Head(wire[s])
  <2>1. CASE Accepts(fsm[s], m.type) /\ s = "server"
    <3>1. got[s] > 0 /\ ServerTakes(m)
      BY <1>2, <2>1 DEF Decode
    <3>2. Take(s, m) /\ Step(s, m)
      BY <2>1, <3>1 DEF ServerTakes
    <3>3. /\ m \in Message
          /\ wire' \in [Side -> Seq(Message)] /\ got' \in [Side -> Nat]
          /\ \A u \in Side : got'[u] + held[Peer(u)] <= Len(wire'[u])
      <4> HIDE DEF m
      <4> QED BY <3>1, <3>2, TakeTypes
    <3>4. fsm' \in [Side -> FsmStates] /\ state' \in [Side -> SessionStates]
      <4> HIDE DEF m
      <4> QED BY <3>2, <3>3, StepTypes DEF TypeOK
    <3>5. sendq' \in [Side -> Seq(Message)]
      <4> DEFINE r == Reply(m.type)
      <4>1. r \in Seq(Message)
        BY CommandMessages
      <4>2. sendq' = [sendq EXCEPT !["server"] = @ \o r]
        BY <3>1 DEF ServerTakes
      <4> HIDE DEF r
      <4>3. \A q \in Seq(Message) : q \o r \in Seq(Message)
        BY <4>1
      <4> QED BY <4>2, <4>3 DEF TypeOK
    <3>6. preq' \in [Vars -> Nat]
      <4> HIDE DEF m
      <4> QED BY <3>1, <3>3, OverwriteFacts DEF ServerTakes, TypeOK
    <3>7. /\ phase' \in [Side -> {"closed", "absent", "register", "idle",
                                  "decode", "snapshot", "dirty", "flush"}]
          /\ walk' \subseteq Vars
      BY <3>1 DEF ServerTakes, TypeOK
    <3> HIDE DEF m
    <3> QED BY <3>1, <3>3, <3>4, <3>5, <3>6, <3>7 DEF ServerTakes, TypeOK
  <2>2. CASE Accepts(fsm[s], m.type) /\ s # "server"
    <3>1. got[s] > 0 /\ ClientTakes(m) /\ s = "client"
      BY <1>2, <2>2 DEF Decode, Side
    <3>2. Take(s, m) /\ Step(s, m)
      BY <3>1 DEF ClientTakes
    <3>3. /\ m \in Message
          /\ wire' \in [Side -> Seq(Message)] /\ got' \in [Side -> Nat]
          /\ \A u \in Side : got'[u] + held[Peer(u)] <= Len(wire'[u])
      <4> HIDE DEF m
      <4> QED BY <3>1, <3>2, TakeTypes
    <3>4. fsm' \in [Side -> FsmStates] /\ state' \in [Side -> SessionStates]
      <4> HIDE DEF m
      <4> QED BY <3>2, <3>3, StepTypes DEF TypeOK
    <3>5. creal' \in [Vars -> Version]
      <4> HIDE DEF m
      <4> QED BY <3>1, <3>3, OverwriteFacts DEF ClientTakes, TypeOK
    <3> HIDE DEF m
    <3> QED BY <3>1, <3>3, <3>4, <3>5 DEF ClientTakes, TypeOK
  <2>3. CASE ~Accepts(fsm[s], m.type)
    <3>1. Close(s, "received")
      BY <1>2, <2>3 DEF Decode
    <3> QED BY <3>1, CloseTypes
  <2> QED BY <2>1, <2>2, <2>3
<1>3. DecodeDone(s) => TypeOK'
  BY DEF DecodeDone, TypeOK
<1>4. ASSUME Flush(s) PROVE TypeOK'
  <2> DEFINE m == Head(sendq[s])
  <2>1. sendq[s] # <<>> /\ m \in Message
    BY <1>4 DEF Flush, TypeOK
  <2>2. Encode(s, m) \/ Close(s, "sent")
    BY <1>4 DEF Flush
  <2> HIDE DEF m
  <2> QED BY <2>1, <2>2, EncodeTypes, CloseTypes
<1>5. ASSUME FlushDone(s) PROVE TypeOK'
  <2>1. held' \in [Side -> Nat] /\ held'[s] = 0
          /\ held'[Peer(s)] = held[Peer(s)]
    BY <1>0, <1>5 DEF FlushDone, TypeOK
  <2>2. \A u \in Side : got'[u] + held'[Peer(u)] <= Len(wire'[u])
    BY <1>0, <1>5, <2>1 DEF FlushDone, TypeOK
  <2> QED BY <1>5, <2>1, <2>2 DEF FlushDone, TypeOK
<1> QED BY <1>1, <1>2, <1>3, <1>4, <1>5

\* Every step of the model keeps the types.
LEMMA TypeNext == TypeOK /\ [Next]_vars => TypeOK'
<1> SUFFICES ASSUME TypeOK, [Next]_vars PROVE TypeOK'
  OBVIOUS
<1>0. /\ "client" \in Side /\ "server" \in Side /\ Peer("client") = "server"
      /\ Peer("server") = "client" /\ Side = {"client", "server"}
  BY DEF Side, Peer
<1>1. ASSUME Connect PROVE TypeOK'
  <2>1. /\ sendq' \in [Side -> Seq(Message)]
        /\ wire' \in [Side -> Seq(Message)]
        /\ got' \in [Side -> Nat] /\ held' \in [Side -> Nat]
        /\ \A s \in Side : got'[s] = 0 /\ held'[s] = 0 /\ Len(wire'[s]) = 0
    BY <1>1, CommandMessages DEF Connect
  <2>2. \A s \in Side : got'[s] + held'[Peer(s)] <= Len(wire'[s])
    BY <2>1, PeerFacts
  <2>3. /\ phase' \in [Side -> {"closed", "absent", "register", "idle",
                                "decode", "snapshot", "dirty", "flush"}]
        /\ fsm' \in [Side -> FsmStates] /\ state' \in [Side -> SessionStates]
        /\ error' \in [Side -> {"none", "received", "sent"}]
    BY <1>1 DEF Connect, FsmStates, SessionStates
  <2>4. creal' \in [Vars -> Version] /\ snap' \in [Vars -> Version]
    BY <1>1, MessageFacts DEF Connect
  <2>5. /\ creq' \in [Vars -> Nat] /\ preal' \in [Vars -> Nat]
        /\ preq' \in [Vars -> Nat] /\ sreal' \in [Vars -> Nat]
    BY <1>1 DEF Connect, TypeOK, plugin
  <2> QED BY <1>1, <2>1, <2>2, <2>3, <2>4, <2>5 DEF Connect, TypeOK
<1>2. ASSUME Accept PROVE TypeOK'
  BY <1>2 DEF Accept, TypeOK, runtime, plugin, client
<1>3. ASSUME NEW v \in Vars, RegisterCopy(v) PROVE TypeOK'
  BY <1>3 DEF RegisterCopy, TypeOK, session, runtime, plugin, client
<1>4. ASSUME RegisterLink PROVE TypeOK'
  BY <1>4 DEF RegisterLink, TypeOK, runtime, plugin, client
<1>5. ASSUME NEW v \in Vars, SnapshotRead(v) PROVE TypeOK'
  BY <1>5 DEF SnapshotRead, TypeOK, Version, session, runtime, plugin, client
<1>6. ASSUME SnapshotSend PROVE TypeOK'
  <2>1. Carrying("AVAILABLE_VARIABLES", snap, Vars) \in Message
    BY MessageFacts DEF TypeOK, MessageTypes
  <2>2. sendq' \in [Side -> Seq(Message)]
    BY <1>0, <1>6, <2>1 DEF SnapshotSend, TypeOK
  <2> QED BY <1>6, <2>2, MessageFacts
          DEF SnapshotSend, TypeOK, runtime, plugin, client
<1>7. ASSUME DirtyServer PROVE TypeOK'
  <2> DEFINE m == Carrying("VARIABLE_VALUES", sreal, sdirty)
  <2>1. m \in Message
    BY MessageFacts DEF TypeOK, MessageTypes, Version
  <2>2. \/ sendq' = sendq
        \/ sendq' = [sendq EXCEPT !["server"] = Append(@, m)]
    BY <1>7 DEF DirtyServer
  <2> HIDE DEF m
  <2>3. sendq' \in [Side -> Seq(Message)]
    <3>1. sendq \in [Side -> Seq(Message)]
      BY DEF TypeOK
    <3>2. \A q \in Seq(Message) : Append(q, m) \in Seq(Message)
      BY <2>1
    <3> QED BY <2>2, <3>1, <3>2
  <2>4. sdirty' \subseteq Vars
    BY <1>7 DEF DirtyServer, TypeOK, IsViewSelected
  <2> QED BY <1>7, <2>3, <2>4 DEF DirtyServer, TypeOK, runtime, plugin, client
<1>8. ASSUME DirtyClient PROVE TypeOK'
  <2> DEFINE m == Carrying("MODIFY_VARIABLES", creq, cdirty)
  <2>1. m \in Message
    BY MessageFacts DEF TypeOK, MessageTypes, Version
  <2>2. \/ sendq' = sendq
        \/ sendq' = [sendq EXCEPT !["client"] = Append(@, m)]
    BY <1>8 DEF DirtyClient
  <2> HIDE DEF m
  <2>3. sendq' \in [Side -> Seq(Message)]
    <3>1. sendq \in [Side -> Seq(Message)]
      BY DEF TypeOK
    <3>2. \A q \in Seq(Message) : Append(q, m) \in Seq(Message)
      BY <2>1
    <3> QED BY <2>2, <3>1, <3>2
  <2>4. cdirty' \subseteq Vars
    BY <1>8 DEF DirtyClient, TypeOK, IsViewSelected
  <2> QED BY <1>8, <2>3, <2>4 DEF DirtyClient, TypeOK, runtime, plugin, server
<1>9. ASSUME NEW s \in Side, LostConnection(s) PROVE TypeOK'
  BY <1>9, CloseTypes DEF LostConnection
<1>10. ASSUME ServerStop PROVE TypeOK'
  BY <1>0, <1>10, CloseTypes DEF ServerStop
<1>11. ASSUME HandshakeTimeout PROVE TypeOK'
  <2>1. CASE IsAlive(state["server"])
    BY <1>11, <2>1
       DEF HandshakeTimeout, TypeOK, session, runtime, plugin, client
  <2>2. CASE ~IsAlive(state["server"])
    BY <1>0, <1>11, <2>2, CloseTypes DEF HandshakeTimeout
  <2> QED BY <2>1, <2>2
<1>12. ASSUME ProjectBuilt PROVE TypeOK'
  <2>1. CASE Close("client", "none")
    BY <1>0, <2>1, CloseTypes
  <2>2. CASE ready' = TRUE /\ UNCHANGED <<session, closing, hasty, plugin,
                                          server, client>>
    BY <2>2 DEF TypeOK, session, plugin, server, client
  <2> QED BY <1>12, <2>1, <2>2 DEF ProjectBuilt
<1>13. ASSUME SelectView PROVE TypeOK'
  <2>1. Unselect \o <<Msg("SELECT_VIEW")>> \in Seq(Message)
    BY CommandMessages
  <2> QED BY <1>13, <2>1, CommandTypes DEF SelectView, TypeOK
<1>14. ASSUME Disconnect PROVE TypeOK'
  <2> DEFINE d == IF IsAlive(state["client"]) THEN <<Msg("DISCONNECT")>>
                                              ELSE <<>>
  <2>1. d \in Seq(Message)
    BY CommandMessages
  <2> HIDE DEF d
  <2>2. Unselect \o d \in Seq(Message)
    BY <2>1, CommandMessages
  <2>3. /\ Command(Unselect \o d) /\ closing' = TRUE /\ ready' = ready
        /\ hasty' \in BOOLEAN
    BY <1>14 DEF Disconnect, d
  <2> QED BY <2>2, <2>3, CommandTypes DEF TypeOK
<1>15. ASSUME NEW v \in Vars, Request(v) PROVE TypeOK'
  BY <1>15 DEF Request, TypeOK, session, runtime, plugin, server
<1>16. ASSUME NEW U \in SUBSET Vars, Publish(U) PROVE TypeOK'
  <2>1. preal' \in [Vars -> Nat]
    BY <1>16 DEF Publish, TypeOK
  <2>2. sreal' \in [Vars -> Nat] /\ sdirty' \subseteq Vars
    BY <1>16, <2>1 DEF Publish, TypeOK
  <2> QED BY <1>16, <2>1, <2>2 DEF Publish, TypeOK, session, runtime, client
<1>17. CASE UNCHANGED vars
  BY <1>17 DEF vars, TypeOK, session, runtime, plugin, server, client
<1>18. CASE ServerThread
  BY <1>0, <1>2, <1>3, <1>4, <1>5, <1>6, <1>7, <1>9, <1>10, <1>11, <1>18,
     TypeProcess DEF ServerThread, ServerProcess
<1>19. CASE Runtime
  BY <1>0, <1>1, <1>8, <1>9, <1>12, <1>13, <1>14, <1>15, <1>19, TypeProcess
     DEF Runtime, ClientProcess
<1>20. CASE PluginThread
  BY <1>16, <1>20 DEF PluginThread
<1> QED BY <1>17, <1>18, <1>19, <1>20 DEF Next

\* The variables of the model keep their types: nothing either side of a
\* connection, the plugin or the runtime does puts a session outside its
\* diagram, or makes a buffer hold more than was sent.
THEOREM TypeCorrect == Spec => []TypeOK
<1> QED BY TypeInit, TypeNext, PTL DEF Spec

-----------------------------------------------------------------------------
(* The diagram: finite facts about its transitions.                        *)

\* The transitions the two sides use, as cases.
LEMMA Uses ==
  ASSUME NEW f, NEW d, NEW t \in FromClient \cup FromServer, Leads(f, t, d)
  PROVE  <<f, t, d>> \in
    {<<"disconnected", "CONNECT", "connection_in_progress">>,
     <<"connection_in_progress", "DISCONNECT", "disconnected">>,
     <<"connection_in_progress", "PROJECT_URL", "connected">>,
     <<"connected", "DISCONNECT", "disconnected">>,
     <<"connected", "SELECT_VIEW", "view_selection_in_progress">>,
     <<"view_selection_in_progress", "DISCONNECT", "disconnected">>,
     <<"view_selection_in_progress", "AVAILABLE_VARIABLES", "view_selected">>,
     <<"view_selected", "UNSELECT_VIEW", "connected">>,
     <<"view_selected", "DISCONNECT", "disconnected">>,
     <<"view_selected", "MODIFY_VARIABLES", "view_selected">>,
     <<"view_selected", "VARIABLE_VALUES", "view_selected">>,
     <<"change_set_of_monitored_variables", "VARIABLE_VALUES",
       "change_set_of_monitored_variables">>,
     <<"disconnected", "VARIABLE_VALUES", "disconnected">>,
     <<"connected", "VARIABLE_VALUES", "connected">>,
     <<"view_selection_in_progress", "VARIABLE_VALUES",
       "view_selection_in_progress">>}
  BY DEF Leads, Transitions, HookedTransitions, IgnoredTransitions,
         FromClient, FromServer

\* What the diagram leads from, it accepts.
LEMMA LeadsAccepts ==
  ASSUME NEW f, NEW t, NEW d, Leads(f, t, d)
  PROVE  Accepts(f, t)
  BY DEF Leads, Accepts

\* What the diagram accepts leads somewhere.
LEMMA AcceptsLeads ==
  ASSUME NEW f, NEW t, Accepts(f, t)
  PROVE  \E d \in FsmStates : Leads(f, t, d)
  BY DEF Leads, Accepts, Transitions, HookedTransitions, IgnoredTransitions,
         FsmStates

\* After a message the server takes whatever may follow it.
LEMMA FollowsAccepted ==
  ASSUME NEW f, NEW t \in FromClient, NEW u, NEW d,
         Leads(f, t, d), Follows(t, u)
  PROVE  Accepts(d, u)
<1>1. /\ Leads("connection_in_progress", "DISCONNECT", "disconnected")
      /\ Leads("connected", "DISCONNECT", "disconnected")
      /\ Leads("connected", "SELECT_VIEW", "view_selection_in_progress")
      /\ Leads("view_selection_in_progress", "DISCONNECT", "disconnected")
      /\ Leads("view_selected", "UNSELECT_VIEW", "connected")
      /\ Leads("view_selected", "DISCONNECT", "disconnected")
      /\ Leads("view_selected", "MODIFY_VARIABLES", "view_selected")
  BY DEF Leads, Transitions, HookedTransitions
<1>2. \E e : Leads(d, u, e)
  BY <1>1, Uses DEF Follows, FromClient
<1> QED BY <1>2, LeadsAccepts

\* Sending never makes the server refuse what it would have taken before.
LEMMA SendingKeeps ==
  ASSUME NEW f, NEW t \in FromServer, NEW d, Leads(f, t, d),
         NEW u \in FromClient, Accepts(f, u)
  PROVE  Accepts(d, u)
<1>1. /\ Leads("connected", "DISCONNECT", "disconnected")
      /\ Leads("view_selected", "DISCONNECT", "disconnected")
  BY DEF Leads, Transitions, HookedTransitions
<1>2. PICK e : Leads(f, u, e)
  BY AcceptsLeads
<1>3. f = d \/ (u = "DISCONNECT" /\ d \in {"connected", "view_selected"})
  BY <1>2, Uses DEF FromClient, FromServer
<1> QED BY <1>1, <1>3, LeadsAccepts

\* The client sends t: the server, linked by l, takes it next or after l[2].
LEMMA LinkSends ==
  ASSUME NEW l \in Links, NEW t \in FromClient, t # "CONNECT", NEW d,
         Leads(l[1], t, d)
  PROVE  /\ Accepts(l[3], t)
         /\ Follows(l[2], t)
         /\ \E k \in Links : k[1] = d /\ k[2] = t
<1>1. /\ Leads("connection_in_progress", "DISCONNECT", "disconnected")
      /\ Leads("connected", "DISCONNECT", "disconnected")
      /\ Leads("connected", "SELECT_VIEW", "view_selection_in_progress")
      /\ Leads("view_selection_in_progress", "DISCONNECT", "disconnected")
      /\ Leads("view_selected", "UNSELECT_VIEW", "connected")
      /\ Leads("view_selected", "DISCONNECT", "disconnected")
      /\ Leads("view_selected", "MODIFY_VARIABLES", "view_selected")
  BY DEF Leads, Transitions, HookedTransitions
<1>2. \E e : Leads(l[3], t, e)
  BY <1>1, Uses DEF Links, FromClient
<1>3. Follows(l[2], t)
  BY Uses DEF Links, Follows, FromClient
<1>4. \E k \in Links : k[1] = d /\ k[2] = t
  BY Uses DEF Links, FromClient
<1> QED BY <1>2, <1>3, <1>4, LeadsAccepts

\* The server takes the last message of the client, or sends one itself: it
\* stays linked with the client.
LEMMA LinkKept ==
  ASSUME NEW l \in Links, NEW f, NEW t, NEW d, Leads(f, t, d),
         \/ t = l[2]
         \/ t \in FromServer /\ f = l[3]
  PROVE  <<l[1], l[2], d>> \in Links
<1>1. t \in FromClient \cup FromServer
  BY DEF Links, FromClient
<1> QED BY <1>1, Uses DEF Links, FromServer

\* A step of side s moves only the diagram of s.
LEMMA StepFacts ==
  ASSUME TypeOK, NEW s \in Side, NEW m, Step(s, m)
  PROVE  /\ \E d \in FsmStates : Leads(fsm[s], m.type, d) /\ fsm'[s] = d
         /\ \A u \in Side : u # s => fsm'[u] = fsm[u] /\ state'[u] = state[u]
  BY DEF Step, TypeOK

\* The hooks keep session->state in step with the diagram.
LEMMA MirrorStep ==
  ASSUME TypeOK, StateMirrorsFsm, NEW s \in Side, NEW m, Step(s, m),
         m.type \in FromClient \cup FromServer
  PROVE  StateMirrorsFsm'
<1> DEFINE t == m.type
<1>1. PICK d \in FsmStates : Leads(fsm[s], t, d) /\ fsm'[s] = d
  BY StepFacts
<1>2. state'[s] = IF Hooked(fsm[s], t) THEN StateAfterHook(t) ELSE state[s]
  BY DEF Step, TypeOK
<1>3. Mirrors(fsm[s], state[s])
  BY DEF StateMirrorsFsm
<1>4. Mirrors(d, state'[s])
  <2> HIDE DEF t
  <2>1. CASE Hooked(fsm[s], t)
    <3>1. t = "VARIABLE_VALUES" => fsm[s] \in
            {"view_selected", "change_set_of_monitored_variables"}
      BY <2>1 DEF Hooked, HookedTransitions
    <3> QED BY <1>1, <1>2, <1>3, <2>1, <3>1, Uses
            DEF t, Mirrors, StateAfterHook, FromClient, FromServer
  <2>2. CASE ~Hooked(fsm[s], t)
    <3>1. <<fsm[s], t, d>> \in IgnoredTransitions
      BY <1>1, <2>2 DEF Leads, Transitions, Hooked
    <3>2. d = fsm[s]
      BY <3>1 DEF IgnoredTransitions
    <3> QED BY <1>2, <1>3, <2>2, <3>2
  <2> QED BY <2>1, <2>2
<1> QED BY <1>1, <1>4, StepFacts DEF StateMirrorsFsm

\* A sequence of messages is empty exactly when its length is zero.
LEMMA EmptyIffZero ==
  ASSUME NEW q \in Seq(Message)
  PROVE  (q = <<>>) <=> (Len(q) = 0)
  OBVIOUS

\* Neither empty nor longer than one.
LEMMA OneLong ==
  ASSUME NEW n \in Nat, n > 0, ~(n > 1)
  PROVE  n = 1
  OBVIOUS

-----------------------------------------------------------------------------
(* The two sides understand each other: one lemma per kind of step.        *)

\* The server takes a message.
LEMMA ServerTakesKeeps ==
  ASSUME Understanding, TypeOK', NEW m, got["server"] > 0,
         phase["server"] = "decode", ServerTakes(m)
  PROVE  Understanding'
<1> DEFINE S == wire["server"]
<1> USE DEF Understanding
<1>0. "client" \in Side /\ "server" \in Side /\ "client" # "server"
        /\ Side = {"client", "server"}
  BY DEF Side
<1>1. /\ S \in Seq(Message) /\ Len(S) > 0 /\ m = S[1]
      /\ wire'["server"] = Tail(S) /\ wire'["client"] = wire["client"]
  <2>1. S \in Seq(Message) /\ Len(S) > 0
    <3>1. /\ S \in Seq(Message) /\ got["server"] \in Nat
          /\ held[Peer("server")] \in Nat
          /\ got["server"] + held[Peer("server")] <= Len(S)
      BY <1>0, PeerFacts DEF TypeOK
    <3> HIDE DEF S, Understanding
    <3> QED BY <3>1
  <2>2. /\ m = Head(S) /\ wire'["server"] = Tail(S)
        /\ wire'["client"] = wire["client"]
    BY <1>0 DEF ServerTakes, Take, TypeOK
  <2>3. Head(S) = S[1]
    BY <2>1
  <2> QED BY <2>1, <2>2, <2>3
<1>2. /\ Len(Tail(S)) = Len(S) - 1
      /\ \A i \in 1..(Len(S) - 1) : Tail(S)[i] = S[i + 1]
      /\ (Tail(S) = <<>>) <=> (Len(S) = 1)
  <2>1. Tail(S) \in Seq(Message) /\ Len(Tail(S)) = Len(S) - 1
    BY <1>1
  <2>2. \A i \in 1..(Len(S) - 1) : Tail(S)[i] = S[i + 1]
    BY <1>1
  <2>3. (Tail(S) = <<>>) <=> (Len(Tail(S)) = 0)
    BY <2>1, EmptyIffZero
  <2>4. Len(S) \in Nat
    BY <1>1
  <2>5. (Tail(S) = <<>>) <=> (Len(S) = 1)
    <3> HIDE DEF S
    <3> QED BY <2>1, <2>3, <2>4
  <2> HIDE DEF S
  <2> QED BY <2>1, <2>2, <2>5
<1>3. m.type \in FromClient
  BY <1>1 DEF ServerChain
<1>4. PICK d \in FsmStates :
        Leads(fsm["server"], m.type, d) /\ fsm'["server"] = d
  BY <1>0, StepFacts DEF ServerTakes
<1>5. /\ fsm'["client"] = fsm["client"] /\ state'["client"] = state["client"]
      /\ phase'["client"] = phase["client"]
      /\ sendq'["client"] = sendq["client"] /\ closing' = closing
  <2>1. Step("server", m)
    BY DEF ServerTakes
  <2>2. fsm'["client"] = fsm["client"] /\ state'["client"] = state["client"]
    <3> HIDE DEF Understanding
    <3> QED BY <1>0, <2>1, StepFacts DEF Understanding
  <2>3. /\ phase'["client"] = phase["client"]
        /\ sendq'["client"] = sendq["client"] /\ closing' = closing
    <3>1. phase \in [Side -> {"closed", "absent", "register", "idle",
                              "decode", "snapshot", "dirty", "flush"}]
      BY DEF TypeOK
    <3>2. sendq \in [Side -> Seq(Message)]
      BY DEF TypeOK
    <3> HIDE DEF Understanding
    <3> QED BY <1>0, <3>1, <3>2 DEF ServerTakes, runtime
  <2> QED BY <2>2, <2>3
<1>6. (Live' <=> Live) /\ (Fresh("client")' <=> Fresh("client"))
  BY <1>5 DEF Live, Fresh
<1>7. StateMirrorsFsm'
  BY <1>0, <1>3, MirrorStep DEF ServerTakes
<1>8. QueuesInOrder'
  <2>1. \A i \in 1..Len(sendq["server"]) :
          /\ sendq["server"][i].type \in FromServer
          /\ sendq["server"][i].type # "VARIABLE_VALUES"
    BY DEF QueuesInOrder
  <2>2. \/ sendq'["server"] = sendq["server"]
        \/ sendq'["server"] = Append(sendq["server"], Msg("PROJECT_URL"))
    <3>1. sendq'["server"] = sendq["server"] \o Reply(m.type)
      BY <1>0 DEF ServerTakes, TypeOK
    <3>2. Reply(m.type) = <<>> \/ Reply(m.type) = <<Msg("PROJECT_URL")>>
      BY DEF Reply
    <3>3. sendq["server"] \in Seq(Message) /\ Msg("PROJECT_URL") \in Message
      BY <1>0, MessageFacts DEF TypeOK, MessageTypes
    <3>4. \A a \in Message : sendq["server"] \o <<a>> = Append(sendq["server"], a)
      BY <3>3
    <3>5. sendq["server"] \o <<>> = sendq["server"]
      BY <3>3
    <3> QED BY <3>1, <3>2, <3>3, <3>4, <3>5
  <2>3. Msg("PROJECT_URL").type = "PROJECT_URL"
    BY DEF Msg
  <2>4. sendq["server"] \in Seq(Message) /\ Msg("PROJECT_URL") \in Message
    BY <1>0, MessageFacts DEF TypeOK, MessageTypes
  <2>5. \A i \in 1..Len(sendq'["server"]) :
          /\ sendq'["server"][i].type \in FromServer
          /\ sendq'["server"][i].type # "VARIABLE_VALUES"
    BY <2>1, <2>2, <2>3, <2>4 DEF FromServer
  <2> QED BY <1>5, <1>6, <2>5 DEF QueuesInOrder
<1>9. ServerChain'
  <2>1. Len(S) > 1 => Accepts(d, S[2].type)
    BY <1>1, <1>3, <1>4, FollowsAccepted DEF ServerChain
  <2> QED BY <1>1, <1>2, <1>4, <2>1 DEF ServerChain
<1>10. EndsLinked'
  <2> SUFFICES ASSUME Live'
               PROVE  \E l \in Links :
                        /\ l[1] = fsm'["client"]
                        /\ IF wire'["server"] = <<>> THEN l[3] = fsm'["server"]
                           ELSE l[2] = wire'["server"][Len(wire'["server"])].type
    BY DEF EndsLinked
  <2>1. PICK l \in Links : l[1] = fsm["client"] /\ l[2] = S[Len(S)].type
    BY <1>1, <1>6 DEF EndsLinked
  <2>2. Len(S) = 1 => <<l[1], l[2], d>> \in Links
    BY <1>1, <1>4, <2>1, LinkKept
  <2>3. Len(S) # 1 => Tail(S)[Len(Tail(S))] = S[Len(S)]
    BY <1>1, <1>2
  <2> QED BY <1>1, <1>2, <1>4, <1>5, <2>1, <2>2, <2>3
<1>11. ClientEnds'
  BY <1>1, <1>5, <1>6 DEF ClientEnds
<1>12. ClientChain'
  <2>1. wire["server"] # <<>>
    BY <1>1
  <2> QED BY <1>1, <1>5, <1>6, <2>1 DEF ClientChain
<1>13. ServerUnderstands' /\ ClientUnderstands'
  BY DEF ServerTakes, ServerUnderstands, ClientUnderstands
<1> QED BY <1>7, <1>8, <1>9, <1>10, <1>11, <1>12, <1>13

\* What a client that has received something knows of the message at the head
\* of its wire: the diagram takes it.
LEMMA ClientExpects ==
  ASSUME Understanding, got["client"] > 0, phase["client"] = "decode"
  PROVE  LET C == wire["client"] IN
         /\ C \in Seq(Message) /\ Len(C) > 0
         /\ Live /\ fsm["client"] # "disconnected"
         /\ C[1].type \in FromServer
         /\ Accepts(fsm["client"], C[1].type)
<1> DEFINE C == wire["client"]
<1> USE DEF Understanding
<1>0. "client" \in Side /\ "server" \in Side
  BY DEF Side
<1>1. C \in Seq(Message) /\ Len(C) > 0
  BY <1>0, PeerFacts DEF TypeOK
<1>2. Live
  BY DEF Live
<1>3. C # <<>>
  BY <1>1
<1>4. fsm["client"] # "disconnected"
  BY <1>2, <1>3 DEF ClientEnds
<1>5. C[1].type \in FromServer
  BY <1>1, <1>2, <1>4 DEF ClientChain
<1>6. \/ C[1].type = "PROJECT_URL" /\ fsm["client"] = "connection_in_progress"
      \/ C[1].type = "AVAILABLE_VARIABLES"
           /\ fsm["client"] = "view_selection_in_progress"
      \/ C[1].type = "VARIABLE_VALUES" /\ fsm["client"] \in
           {"connected", "view_selection_in_progress", "view_selected"}
  <2>1. Mirrors(fsm["client"], state["client"])
    BY <1>0 DEF StateMirrorsFsm
  <2>2. fsm["client"] \in {"connection_in_progress", "connected",
                           "view_selection_in_progress", "view_selected"}
    BY <1>4, <2>1 DEF Mirrors
  <2>3. /\ C[1].type = "PROJECT_URL" =>
             fsm["client"] = "connection_in_progress"
        /\ C[1].type = "AVAILABLE_VARIABLES" =>
             fsm["client"] = "view_selection_in_progress"
        /\ C[1].type = "VARIABLE_VALUES" =>
             fsm["client"] # "connection_in_progress"
    BY <1>1, <1>2, <1>4 DEF ClientChain
  <2> QED BY <1>5, <2>2, <2>3 DEF FromServer
<1>7. Accepts(fsm["client"], C[1].type)
  <2>1. /\ Leads("connection_in_progress", "PROJECT_URL", "connected")
        /\ Leads("view_selection_in_progress", "AVAILABLE_VARIABLES",
                 "view_selected")
        /\ Leads("connected", "VARIABLE_VALUES", "connected")
        /\ Leads("view_selection_in_progress", "VARIABLE_VALUES",
                 "view_selection_in_progress")
        /\ Leads("view_selected", "VARIABLE_VALUES", "view_selected")
    BY DEF Leads, Transitions, HookedTransitions, IgnoredTransitions
  <2> QED BY <1>6, <2>1, LeadsAccepts
<1> QED BY <1>1, <1>2, <1>4, <1>5, <1>7

\* The client takes a message.
LEMMA ClientTakesKeeps ==
  ASSUME Understanding, TypeOK', NEW m, got["client"] > 0,
         phase["client"] = "decode", ClientTakes(m)
  PROVE  Understanding'
<1> DEFINE C == wire["client"]
<1>0. "client" \in Side /\ "server" \in Side /\ "client" # "server"
        /\ Side = {"client", "server"}
  BY DEF Side
<1>1. /\ C \in Seq(Message) /\ Len(C) > 0
      /\ Live /\ fsm["client"] # "disconnected"
      /\ C[1].type \in FromServer
  BY ClientExpects
<1> USE DEF Understanding
<1>2. m = C[1] /\ wire'["client"] = Tail(C) /\ wire'["server"] = wire["server"]
  BY <1>0, <1>1 DEF ClientTakes, Take, TypeOK
<1>3. /\ Len(Tail(C)) = Len(C) - 1
      /\ \A i \in 1..(Len(C) - 1) : Tail(C)[i] = C[i + 1]
  BY <1>1
<1>4. PICK d \in FsmStates :
        Leads(fsm["client"], m.type, d) /\ fsm'["client"] = d
  BY <1>0, StepFacts DEF ClientTakes
<1>5. /\ fsm'["server"] = fsm["server"] /\ phase' = phase
      /\ sendq' = sendq /\ closing' = closing
  BY <1>0, StepFacts DEF ClientTakes, runtime
<1>6. /\ m.type = "PROJECT_URL" =>
           /\ Len(C) = 1 /\ wire["server"] = <<>>
           /\ fsm["server"] = "connected" /\ d = "connected"
      /\ m.type = "AVAILABLE_VARIABLES" =>
           /\ wire["server"] = <<>>
           /\ fsm["server"] = "view_selected" /\ d = "view_selected"
           /\ \A j \in 2..Len(C) : C[j].type = "VARIABLE_VALUES"
      /\ m.type = "VARIABLE_VALUES" =>
           d = fsm["client"] /\ d # "connection_in_progress"
  <2>1. /\ m.type = "PROJECT_URL" =>
             /\ Len(C) = 1 /\ wire["server"] = <<>>
             /\ fsm["server"] = "connected"
        /\ m.type = "AVAILABLE_VARIABLES" =>
             /\ wire["server"] = <<>> /\ fsm["server"] = "view_selected"
             /\ \A j \in 2..Len(C) : C[j].type = "VARIABLE_VALUES"
        /\ m.type = "VARIABLE_VALUES" =>
             fsm["client"] # "connection_in_progress"
    BY <1>1, <1>2 DEF ClientChain
  <2>2. /\ m.type = "PROJECT_URL" => d = "connected"
        /\ m.type = "AVAILABLE_VARIABLES" => d = "view_selected"
        /\ m.type = "VARIABLE_VALUES" => d = fsm["client"]
    BY <1>4, Uses DEF FromServer
  <2> QED BY <2>1, <2>2
<1>7. d # "disconnected" /\ Live'
  BY <1>1, <1>2, <1>5, <1>6 DEF FromServer, Live
<1>8. StateMirrorsFsm'
  BY <1>0, <1>1, <1>2, MirrorStep DEF ClientTakes
<1>9. QueuesInOrder'
  <2>1. ~Fresh("client")
    BY <1>1 DEF Fresh
  <2>2. \A i \in 1..Len(sendq["client"]) : sendq["client"][i].type # "CONNECT"
    BY <1>1, <2>1 DEF QueuesInOrder
  <2> QED BY <1>5, <2>2 DEF QueuesInOrder
<1>10. ServerChain'
  BY <1>2, <1>5 DEF ServerChain
<1>11. EndsLinked'
  <2>1. CASE m.type = "VARIABLE_VALUES"
    BY <1>1, <1>2, <1>4, <1>5, <1>6, <2>1 DEF EndsLinked
  <2>2. CASE m.type # "VARIABLE_VALUES"
    <3>1. wire'["server"] = <<>> /\ fsm'["server"] = d
            /\ d \in {"connected", "view_selected"}
      BY <1>1, <1>2, <1>5, <1>6, <2>2 DEF FromServer
    <3>2. \E l \in Links : l[1] = d /\ l[3] = d
      BY <3>1 DEF Links
    <3> QED BY <1>4, <3>1, <3>2 DEF EndsLinked
  <2> QED BY <2>1, <2>2
<1>12. ClientEnds'
  BY <1>1, <1>4, <1>5, <1>7 DEF ClientEnds, Fresh, Live
<1>13. ClientChain'
  <2>1. CASE m.type = "PROJECT_URL"
    BY <1>2, <1>3, <1>6, <2>1 DEF ClientChain
  <2>2. CASE m.type = "AVAILABLE_VARIABLES"
    BY <1>1, <1>2, <1>3, <1>4, <1>6, <2>2 DEF ClientChain, FromServer
  <2>3. CASE m.type = "VARIABLE_VALUES"
    BY <1>1, <1>2, <1>3, <1>4, <1>5, <1>6, <2>3 DEF ClientChain
  <2> QED BY <1>1, <1>2, <2>1, <2>2, <2>3 DEF FromServer
<1>14. ServerUnderstands' /\ ClientUnderstands'
  BY DEF ClientTakes, ServerUnderstands, ClientUnderstands
<1> QED BY <1>8, <1>9, <1>10, <1>11, <1>12, <1>13, <1>14

\* Where a client that is connected stands when the server answers.
LEMMA ServerAnswers ==
  ASSUME Understanding, Live, fsm["client"] # "disconnected",
         NEW t \in FromServer, NEW d, Leads(fsm["server"], t, d),
         t = "VARIABLE_VALUES" => fsm["server"] = "view_selected"
  PROVE  LET S == wire["server"] IN
         /\ t = "PROJECT_URL" =>
              /\ S = <<>> /\ fsm["client"] = "connection_in_progress"
              /\ fsm["server"] = "connection_in_progress" /\ d = "connected"
         /\ t = "AVAILABLE_VARIABLES" =>
              /\ S = <<>> /\ fsm["client"] = "view_selection_in_progress"
              /\ fsm["server"] = "view_selection_in_progress"
              /\ d = "view_selected"
         /\ t = "VARIABLE_VALUES" =>
              fsm["client"] # "connection_in_progress" /\ d = "view_selected"
<1> DEFINE S == wire["server"]
<1> USE DEF Understanding
<1>0. S \in Seq(Message)
  BY DEF TypeOK, Side
<1>1. PICK l \in Links : /\ l[1] = fsm["client"]
                         /\ IF S = <<>> THEN l[3] = fsm["server"]
                                        ELSE l[2] = S[Len(S)].type
  BY DEF EndsLinked
<1>2. /\ t = "PROJECT_URL" =>
           fsm["server"] = "connection_in_progress" /\ d = "connected"
      /\ t = "AVAILABLE_VARIABLES" =>
           fsm["server"] = "view_selection_in_progress" /\ d = "view_selected"
      /\ t = "VARIABLE_VALUES" => d = "view_selected"
  BY Uses DEF FromServer
<1>3. ASSUME fsm["server"] \in {"connection_in_progress",
                                "view_selection_in_progress"}
      PROVE  S = <<>>
  <2> SUFFICES ASSUME S # <<>> PROVE FALSE
    OBVIOUS
  <2>1. Len(S) > 0
    BY <1>0, EmptyIffZero
  <2>2. S[1].type \in FromClient /\ Accepts(fsm["server"], S[1].type)
    BY <2>1 DEF ServerChain
  <2>3. PICK e : Leads(fsm["server"], S[1].type, e)
    BY <2>2, AcceptsLeads
  <2>4. S[1].type = "DISCONNECT"
    BY <1>3, <2>2, <2>3, Uses DEF FromClient
  <2>5. Len(S) = 1
    <3>1. Len(S) \in Nat
      BY <1>0
    <3>2. Len(S) > 1 => Follows("DISCONNECT", S[2].type)
      BY <2>4, <3>1 DEF ServerChain
    <3>3. ~Follows("DISCONNECT", S[2].type)
      BY DEF Follows
    <3>4. ~(Len(S) > 1)
      BY <3>2, <3>3, Zenon
    <3>5. Len(S) > 0
      BY <2>1
    <3> HIDE DEF S
    <3> QED BY <3>1, <3>4, <3>5, OneLong
  <2>6. l[2] = "DISCONNECT"
    BY <1>1, <2>4, <2>5
  <2> QED BY <1>1, <2>6 DEF Links
<1>4. ASSUME fsm["server"] = "view_selected"
      PROVE  fsm["client"] # "connection_in_progress"
  <2> SUFFICES ASSUME fsm["client"] = "connection_in_progress" PROVE FALSE
    OBVIOUS
  <2>1. S # <<>> /\ l[2] = "CONNECT"
    BY <1>1, <1>4 DEF Links
  <2>2. Len(S) > 0 /\ S[Len(S)].type = "CONNECT"
    BY <1>0, <1>1, <2>1, EmptyIffZero
  <2>3. Len(S) = 1
    <3>1. Len(S) \in Nat
      BY <1>0
    <3>2. Len(S) > 1 => Follows(S[Len(S) - 1].type, "CONNECT")
      <4>1. Len(S) > 1 => Len(S) - 1 \in 1..(Len(S) - 1)
                            /\ (Len(S) - 1) + 1 = Len(S)
        BY <3>1
      <4> QED BY <2>2, <4>1 DEF ServerChain
    <3>3. ~Follows(S[Len(S) - 1].type, "CONNECT")
      BY DEF Follows
    <3>4. ~(Len(S) > 1)
      BY <3>2, <3>3, Zenon
    <3>5. Len(S) > 0
      BY <2>2
    <3> HIDE DEF S
    <3> QED BY <3>1, <3>4, <3>5, OneLong
  <2>4. Accepts("view_selected", "CONNECT")
    BY <1>4, <2>2, <2>3 DEF ServerChain
  <2> QED BY <2>4 DEF Accepts, Transitions, HookedTransitions,
                      IgnoredTransitions
<1>5. S = <<>> /\ fsm["server"] = "connection_in_progress" =>
        fsm["client"] = "connection_in_progress"
  BY <1>1 DEF Links
<1>6. S = <<>> /\ fsm["server"] = "view_selection_in_progress" =>
        fsm["client"] = "view_selection_in_progress"
  BY <1>1 DEF Links
<1> HIDE DEF S
<1> QED BY <1>2, <1>3, <1>4, <1>5, <1>6 DEF S

\* The server sends a message.
LEMMA ServerSendsKeeps ==
  ASSUME Understanding, TypeOK', NEW m, sendq["server"] # <<>>,
         m = Head(sendq["server"]), phase["server"] = "flush",
         Encode("server", m)
  PROVE  Understanding'
<1> DEFINE S == wire["server"]
           C == wire["client"]
           q == sendq["server"]
<1> USE DEF Understanding
<1>0. "client" \in Side /\ "server" \in Side /\ "client" # "server"
        /\ Side = {"client", "server"} /\ Peer("server") = "client"
  BY DEF Side, Peer
<1>1. /\ q \in Seq(Message) /\ Len(q) > 0 /\ m = q[1] /\ m \in Message
      /\ S \in Seq(Message) /\ C \in Seq(Message)
  <2>1. q \in Seq(Message) /\ S \in Seq(Message) /\ C \in Seq(Message)
    BY <1>0 DEF TypeOK
  <2> QED BY <2>1, EmptyIffZero
<1>2. /\ sendq'["server"] = Tail(q) /\ sendq'["client"] = sendq["client"]
      /\ wire'["client"] = Append(C, m) /\ wire'["server"] = S
      /\ phase' = phase /\ closing' = closing
  BY <1>0 DEF Encode, TypeOK, runtime
<1>3. /\ Len(Tail(q)) = Len(q) - 1
      /\ \A i \in 1..(Len(q) - 1) : Tail(q)[i] = q[i + 1]
      /\ Len(Append(C, m)) = Len(C) + 1
      /\ \A i \in 1..Len(C) : Append(C, m)[i] = C[i]
      /\ Append(C, m)[Len(C) + 1] = m
  BY <1>1
<1>4. PICK d \in FsmStates :
        Leads(fsm["server"], m.type, d) /\ fsm'["server"] = d
  BY <1>0, StepFacts DEF Encode
<1>5. fsm'["client"] = fsm["client"] /\ state'["client"] = state["client"]
  BY <1>0, StepFacts DEF Encode
<1>6. (Live' <=> Live) /\ (Fresh("client")' <=> Fresh("client"))
  BY <1>2, <1>5 DEF Live, Fresh
<1>7. m.type \in FromServer
        /\ (m.type = "VARIABLE_VALUES" => fsm["server"] = "view_selected")
  BY <1>1 DEF QueuesInOrder
<1>8. fsm["server"] = "view_selected" => d = "view_selected"
  BY <1>4, <1>7, Uses DEF FromServer
<1>9. StateMirrorsFsm'
  BY <1>0, <1>7, MirrorStep DEF Encode
<1>10. QueuesInOrder'
  <2>1. \A i \in 1..Len(Tail(q)) :
          /\ Tail(q)[i].type \in FromServer
          /\ Tail(q)[i].type = "VARIABLE_VALUES" =>
               phase["server"] = "flush" /\ d = "view_selected"
    BY <1>1, <1>3, <1>8 DEF QueuesInOrder
  <2> QED BY <1>2, <1>4, <1>6, <2>1 DEF QueuesInOrder
<1>11. ServerChain'
  <2>1. Len(S) > 0 => Accepts(d, S[1].type)
    BY <1>1, <1>4, <1>7, SendingKeeps DEF ServerChain
  <2> QED BY <1>2, <1>4, <2>1 DEF ServerChain
<1>12. EndsLinked'
  <2> SUFFICES ASSUME Live
               PROVE  \E l \in Links : /\ l[1] = fsm["client"]
                                       /\ IF S = <<>> THEN l[3] = d
                                          ELSE l[2] = S[Len(S)].type
    BY <1>2, <1>4, <1>5, <1>6 DEF EndsLinked
  <2>1. PICK l \in Links : /\ l[1] = fsm["client"]
                           /\ IF S = <<>> THEN l[3] = fsm["server"]
                                          ELSE l[2] = S[Len(S)].type
    BY DEF EndsLinked
  <2>2. CASE S = <<>>
    <3>1. <<l[1], l[2], d>> \in Links
      BY <1>4, <1>7, <2>1, <2>2, LinkKept
    <3> QED BY <2>1, <2>2, <3>1
  <2>3. CASE S # <<>>
    BY <2>1, <2>3
  <2> QED BY <2>2, <2>3
<1>13. ClientEnds'
  <2>1. fsm["server"] # "disconnected"
    BY <1>4, <1>7, Uses DEF FromServer
  <2>2. Live => ~Fresh("client")
    BY <2>1 DEF ClientEnds
  <2> QED BY <1>2, <1>5, <1>6, <2>2 DEF ClientEnds
<1>14. ClientChain'
  <2> SUFFICES ASSUME Live, fsm["client"] # "disconnected"
               PROVE  ClientChain'
    BY <1>5, <1>6 DEF ClientChain
  <2>1. CASE m.type = "PROJECT_URL"
    <3>1. /\ S = <<>> /\ fsm["client"] = "connection_in_progress"
          /\ fsm["server"] = "connection_in_progress" /\ d = "connected"
      BY <1>4, <1>7, <2>1, ServerAnswers
    <3>2. \A i \in 1..Len(C) : FALSE
      BY <3>1 DEF ClientChain, FromServer
    <3>3. Len(C) = 0
      BY <1>1, <3>2
    <3> QED BY <1>2, <1>3, <1>4, <1>5, <1>7, <2>1, <3>1, <3>3 DEF ClientChain
  <2>2. CASE m.type = "AVAILABLE_VARIABLES"
    <3>1. /\ S = <<>> /\ fsm["client"] = "view_selection_in_progress"
          /\ fsm["server"] = "view_selection_in_progress"
          /\ d = "view_selected"
      BY <1>4, <1>7, <2>2, ServerAnswers
    <3>2. \A i \in 1..Len(C) : C[i].type = "VARIABLE_VALUES"
      BY <3>1 DEF ClientChain, FromServer
    <3> QED BY <1>1, <1>2, <1>3, <1>4, <1>5, <1>7, <2>2, <3>1, <3>2
            DEF ClientChain
  <2>3. CASE m.type = "VARIABLE_VALUES"
    <3>1. fsm["client"] # "connection_in_progress" /\ d = "view_selected"
      BY <1>4, <1>7, <2>3, ServerAnswers
    <3>2. \A i \in 1..Len(C) : C[i].type # "PROJECT_URL"
      BY <3>1 DEF ClientChain
    <3> QED BY <1>1, <1>2, <1>3, <1>4, <1>5, <1>7, <2>3, <3>1, <3>2
            DEF ClientChain
  <2> QED BY <1>7, <2>1, <2>2, <2>3 DEF FromServer
<1>15. ServerUnderstands' /\ ClientUnderstands'
  BY DEF Encode, ServerUnderstands, ClientUnderstands
<1> QED BY <1>9, <1>10, <1>11, <1>12, <1>13, <1>14, <1>15

\* The client sends a message.
LEMMA ClientSendsKeeps ==
  ASSUME Understanding, TypeOK', NEW m, sendq["client"] # <<>>,
         m = Head(sendq["client"]), phase["client"] = "flush",
         Encode("client", m)
  PROVE  Understanding'
<1> DEFINE S == wire["server"]
           C == wire["client"]
           q == sendq["client"]
<1> USE DEF Understanding
<1>0. "client" \in Side /\ "server" \in Side /\ "client" # "server"
        /\ Side = {"client", "server"} /\ Peer("client") = "server"
  BY DEF Side, Peer
<1>1. /\ q \in Seq(Message) /\ Len(q) > 0 /\ m = q[1] /\ m \in Message
      /\ S \in Seq(Message) /\ C \in Seq(Message)
  <2>1. q \in Seq(Message) /\ S \in Seq(Message) /\ C \in Seq(Message)
    BY <1>0 DEF TypeOK
  <2> QED BY <2>1, EmptyIffZero
<1>2. /\ sendq'["client"] = Tail(q) /\ sendq'["server"] = sendq["server"]
      /\ wire'["server"] = Append(S, m) /\ wire'["client"] = C
      /\ phase' = phase /\ closing' = closing
  BY <1>0 DEF Encode, TypeOK, runtime
<1>3. /\ Len(Tail(q)) = Len(q) - 1
      /\ \A i \in 1..(Len(q) - 1) : Tail(q)[i] = q[i + 1]
      /\ Len(Append(S, m)) = Len(S) + 1
      /\ \A i \in 1..Len(S) : Append(S, m)[i] = S[i]
      /\ Append(S, m)[Len(S) + 1] = m
  BY <1>1
<1>4. PICK d \in FsmStates :
        Leads(fsm["client"], m.type, d) /\ fsm'["client"] = d
  BY <1>0, StepFacts DEF Encode
<1>5. fsm'["server"] = fsm["server"] /\ Live /\ Live'
  BY <1>0, <1>2, StepFacts DEF Encode, Live
<1>6. /\ m.type \in FromClient
      /\ m.type = "CONNECT" => Fresh("client")
      /\ m.type = "DISCONNECT" => closing
  BY <1>1, <1>5 DEF QueuesInOrder
<1>7. /\ fsm["client"] = "disconnected" => m.type = "CONNECT"
      /\ m.type = "CONNECT" => d = "connection_in_progress"
      /\ d = "connection_in_progress" => m.type = "CONNECT"
      /\ d = "disconnected" <=> m.type = "DISCONNECT"
      /\ fsm["client"] \in {"connection_in_progress",
                            "view_selection_in_progress"} =>
           d = "disconnected"
  BY <1>4, <1>6, Uses DEF FromClient
<1>8. m.type = "CONNECT" =>
        C = <<>> /\ S = <<>> /\ fsm["server"] = "disconnected"
  BY <1>5, <1>6 DEF ClientEnds
<1>9. m.type # "CONNECT" =>
        \E l \in Links : /\ l[1] = fsm["client"]
                         /\ IF S = <<>> THEN l[3] = fsm["server"]
                                        ELSE l[2] = S[Len(S)].type
  BY <1>5 DEF EndsLinked
<1>10. StateMirrorsFsm'
  BY <1>0, <1>6, MirrorStep DEF Encode
<1>11. QueuesInOrder'
  <2>1. \A i \in 1..Len(Tail(q)) :
          /\ Tail(q)[i].type \in FromClient
          /\ Tail(q)[i].type # "CONNECT"
          /\ Tail(q)[i].type = "DISCONNECT" => closing
    <3>1. \A i \in 1..Len(Tail(q)) :
            i + 1 \in 1..Len(q) /\ i + 1 # 1 /\ Tail(q)[i] = q[i + 1]
      BY <1>1, <1>3
    <3> QED BY <3>1 DEF QueuesInOrder
  <2> QED BY <1>2, <1>5, <2>1 DEF QueuesInOrder
<1>12. ServerChain'
  <2>1. S = <<>> => Accepts(fsm["server"], m.type)
    <3>1. Accepts("disconnected", "CONNECT")
      BY LeadsAccepts DEF Leads, Transitions, HookedTransitions
    <3> QED BY <1>4, <1>6, <1>8, <1>9, <3>1, LinkSends
  <2>2. S # <<>> => Follows(S[Len(S)].type, m.type)
    BY <1>4, <1>6, <1>8, <1>9, LinkSends
  <2>3. (S = <<>>) <=> (Len(S) = 0)
    BY <1>1, EmptyIffZero
  <2>4. Len(S) \in Nat
    BY <1>1
  <2> DEFINE A == Append(S, m)
  <2>5. \A i \in 1..Len(A) : A[i].type \in FromClient
    BY <1>1, <1>3, <1>6, <2>4 DEF ServerChain
  <2>6. Accepts(fsm["server"], A[1].type)
    <3>1. CASE Len(S) = 0
      BY <1>3, <2>1, <2>3, <3>1
    <3>2. CASE Len(S) > 0
      BY <1>3, <2>4, <3>2 DEF ServerChain
    <3> QED BY <2>4, <3>1, <3>2
  <2>7. \A i \in 1..(Len(A) - 1) : Follows(A[i].type, A[i + 1].type)
    <3> SUFFICES ASSUME NEW i \in 1..Len(S)
                 PROVE  Follows(A[i].type, A[i + 1].type)
      BY <1>3, <2>4
    <3>1. CASE i = Len(S)
      BY <1>3, <2>2, <2>3, <2>4, <3>1
    <3>2. CASE i # Len(S)
      <4>1. i \in 1..(Len(S) - 1) /\ i + 1 \in 1..Len(S)
        BY <2>4, <3>2
      <4> QED BY <1>3, <4>1 DEF ServerChain
    <3> QED BY <3>1, <3>2
  <2> QED BY <1>2, <1>5, <2>5, <2>6, <2>7 DEF ServerChain
<1>13. EndsLinked'
  <2>1. \E k \in Links : k[1] = d /\ k[2] = m.type
    <3>1. m.type = "CONNECT" =>
            \E k \in Links : k[1] = d /\ k[2] = m.type
      BY <1>7 DEF Links
    <3>2. m.type # "CONNECT" =>
            \E k \in Links : k[1] = d /\ k[2] = m.type
      <4> SUFFICES ASSUME m.type # "CONNECT"
                   PROVE  \E k \in Links : k[1] = d /\ k[2] = m.type
        OBVIOUS
      <4>1. PICK l \in Links : l[1] = fsm["client"]
        BY <1>9
      <4>2. Leads(l[1], m.type, d)
        BY <1>4, <4>1
      <4> DEFINE t == m.type
      <4>3. t \in FromClient /\ t # "CONNECT" /\ Leads(l[1], t, d)
        BY <1>6, <4>2
      <4>4. \E k \in Links : k[1] = d /\ k[2] = t
        <5> HIDE DEF t, Understanding
        <5> QED BY <4>3, LinkSends
      <4> QED BY <4>4
    <3> QED BY <3>1, <3>2, Zenon
  <2>2. Append(S, m) # <<>>
    <3>1. Len(Append(S, m)) # 0
      BY <1>1
    <3>2. Append(S, m) \in Seq(Message)
      BY <1>1
    <3> QED BY <3>1, <3>2, EmptyIffZero
  <2>3. /\ wire'["server"] = Append(S, m) /\ wire'["server"] # <<>>
        /\ fsm'["client"] = d
    BY <1>2, <1>4, <2>2
  <2>4. wire'["server"][Len(wire'["server"])].type = m.type
    BY <1>3, <2>3
  <2> HIDE DEF Understanding
  <2> QED BY <2>1, <2>3, <2>4 DEF EndsLinked
<1>14. ClientEnds'
  <2>1. d = "disconnected" => state'["client"] = "DISCONNECTED"
    <3>1. \A f : Leads(f, "DISCONNECT", "disconnected") =>
                   Hooked(f, "DISCONNECT")
      BY DEF Leads, Hooked, Transitions, IgnoredTransitions
    <3> QED BY <1>0, <1>4, <1>7, <3>1, SMTT(30)
               DEF Encode, Step, StateAfterHook, TypeOK
  <2> QED BY <1>2, <1>4, <1>5, <1>6, <1>7, <2>1 DEF ClientEnds, Fresh
<1>15. ClientChain'
  <2> SUFFICES ASSUME d # "disconnected"
               PROVE  ClientChain'
    BY <1>4 DEF ClientChain
  <2>1. CASE m.type = "CONNECT"
    BY <1>2, <1>8, <2>1 DEF ClientChain
  <2>2. CASE m.type # "CONNECT"
    <3>1. fsm["client"] # "disconnected"
      BY <1>7, <2>2
    <3>2. fsm["client"] \notin {"connection_in_progress",
                                "view_selection_in_progress"}
      BY <1>7
    <3>3. d # "connection_in_progress"
      BY <1>7, <2>2
    <3>4. \A i \in 1..Len(C) : C[i].type = "VARIABLE_VALUES"
      BY <1>5, <3>1, <3>2 DEF ClientChain, FromServer
    <3> QED BY <1>2, <1>4, <3>3, <3>4 DEF ClientChain, FromServer
  <2> QED BY <2>1, <2>2
<1>16. ServerUnderstands' /\ ClientUnderstands'
  BY DEF Encode, ServerUnderstands, ClientUnderstands
<1> QED BY <1>10, <1>11, <1>12, <1>13, <1>14, <1>15, <1>16

\* A prefix of a sequence of messages.
LEMMA PrefixFacts ==
  ASSUME NEW q \in Seq(Message), NEW k \in Nat, k <= Len(q)
  PROVE  /\ SubSeq(q, 1, k) \in Seq(Message)
         /\ Len(SubSeq(q, 1, k)) = k
         /\ \A i \in 1..k : SubSeq(q, 1, k)[i] = q[i]
         /\ q = <<>> => SubSeq(q, 1, k) = <<>>
<1>1. /\ SubSeq(q, 1, k) \in Seq(Message) /\ Len(SubSeq(q, 1, k)) = k
      /\ \A i \in 1..k : SubSeq(q, 1, k)[i] = q[i]
  OBVIOUS
<1>2. q = <<>> => k = 0
  OBVIOUS
<1>3. k = 0 => SubSeq(q, 1, k) = <<>>
  BY <1>1, EmptyIffZero
<1> QED BY <1>1, <1>2, <1>3

\* A side drops its end of the connection, without having been sent anything
\* it does not understand.
LEMMA CloseKeeps ==
  ASSUME Understanding, TypeOK', NEW s \in Side, NEW why, why # "received",
         Close(s, why)
  PROVE  Understanding'
<1> USE DEF Understanding
<1>0. "client" \in Side /\ "server" \in Side /\ "client" # "server"
        /\ Side = {"client", "server"}
        /\ Peer("client") = "server" /\ Peer("server") = "client"
  BY DEF Side, Peer
<1>1. /\ fsm' = fsm /\ state' = state /\ closing' = closing
      /\ phase'[s] = "closed" /\ phase'[Peer(s)] = phase[Peer(s)]
      /\ error'[s] = why /\ error'[Peer(s)] = error[Peer(s)]
      /\ sendq'[s] = <<>> /\ sendq'[Peer(s)] = sendq[Peer(s)]
      /\ wire'[s] = wire[s]
  BY <1>0 DEF Close, TypeOK, runtime
<1> DEFINE W == wire[Peer(s)]
<1>2. W \in Seq(Message)
  BY <1>0 DEF TypeOK
<1>3. PICK k \in Nat : k <= Len(W) /\ wire'[Peer(s)] = SubSeq(W, 1, k)
  <2>1. PICK k \in got[Peer(s)]..(Len(W) - held[s]) :
          wire' = [wire EXCEPT ![Peer(s)] = SubSeq(@, 1, k)]
    BY DEF Close
  <2>2. wire'[Peer(s)] = SubSeq(W, 1, k)
    BY <1>0, <2>1 DEF TypeOK
  <2>3. got[Peer(s)] \in Nat /\ held[s] \in Nat /\ Len(W) \in Nat
    <3>1. got[Peer(s)] \in Nat /\ held[s] \in Nat
      BY PeerFacts DEF TypeOK
    <3>2. Len(W) \in Nat
      BY <1>2
    <3> QED BY <3>1, <3>2
  <2>4. k \in Nat /\ k <= Len(W)
    <3> HIDE DEF W
    <3> QED BY <2>1, <2>3
  <2> QED BY <2>2, <2>4
<1> DEFINE P == wire'[Peer(s)]
<1>4. /\ P \in Seq(Message) /\ Len(P) = k /\ k <= Len(W) /\ Len(W) \in Nat
      /\ \A i \in 1..k : i \in 1..Len(W) /\ P[i] = W[i]
      /\ W = <<>> => P = <<>>
  BY <1>2, <1>3, PrefixFacts
<1>5. StateMirrorsFsm'
  BY <1>1 DEF StateMirrorsFsm
<1>6. ServerUnderstands' /\ ClientUnderstands'
  BY <1>0, <1>1 DEF ServerUnderstands, ClientUnderstands
<1>7. CASE s = "server"
  <2>1. (Live' <=> Live) /\ (Fresh("client")' <=> Fresh("client"))
    BY <1>0, <1>1, <1>7 DEF Live, Fresh
  <2>2. QueuesInOrder'
    BY <1>0, <1>1, <1>7, <2>1 DEF QueuesInOrder
  <2>3. ServerChain' /\ EndsLinked'
    BY <1>0, <1>1, <1>7, <2>1 DEF ServerChain, EndsLinked
  <2>4. ClientEnds'
    BY <1>0, <1>1, <1>4, <1>7, <2>1 DEF ClientEnds
  <2>5. ClientChain'
    BY <1>0, <1>1, <1>4, <1>7, <2>1 DEF ClientChain
  <2> QED BY <1>5, <1>6, <2>2, <2>3, <2>4, <2>5
<1>8. CASE s = "client"
  <2>1. ~Live'
    BY <1>1, <1>8 DEF Live
  <2>2. QueuesInOrder'
    BY <1>0, <1>1, <1>8 DEF QueuesInOrder
  <2>3. ServerChain'
    <3>1. \A i \in 1..k : P[i].type \in FromClient
      BY <1>0, <1>4, <1>8 DEF ServerChain
    <3>2. k > 0 => Accepts(fsm["server"], P[1].type)
      BY <1>0, <1>4, <1>8 DEF ServerChain
    <3>3. \A i \in 1..(k - 1) : Follows(P[i].type, P[i + 1].type)
      <4>1. \A i \in 1..(k - 1) :
              /\ i \in 1..(Len(W) - 1) /\ P[i] = W[i] /\ P[i + 1] = W[i + 1]
        BY <1>4
      <4> QED BY <1>0, <1>8, <4>1 DEF ServerChain
    <3> QED BY <1>0, <1>1, <1>4, <1>8, <3>1, <3>2, <3>3 DEF ServerChain
  <2> QED BY <1>5, <1>6, <2>1, <2>2, <2>3
          DEF EndsLinked, ClientEnds, ClientChain
<1> QED BY <1>0, <1>7, <1>8

\* What each side may have queued, as QueuesInOrder says of one side.
ClientMayQueue(q) ==
  \A i \in 1..Len(q) :
    /\ q[i].type \in FromClient
    /\ q[i].type = "CONNECT" => i = 1 /\ (Live => Fresh("client"))
    /\ q[i].type = "DISCONNECT" => closing

ServerMayQueue(q) ==
  \A i \in 1..Len(q) :
    /\ q[i].type \in FromServer
    /\ q[i].type = "VARIABLE_VALUES" =>
         phase["server"] = "flush" /\ fsm["server"] = "view_selected"

\* The queues are in order when each side's is.
LEMMA QueuesSplit ==
  QueuesInOrder <=> /\ ClientMayQueue(sendq["client"])
                    /\ ServerMayQueue(sendq["server"])
  BY DEF QueuesInOrder, ClientMayQueue, ServerMayQueue

\* A queue grows at its end.
LEMMA AppendFacts ==
  ASSUME NEW q \in Seq(Message), NEW m \in Message
  PROVE  /\ Len(Append(q, m)) = Len(q) + 1
         /\ \A i \in 1..Len(q) : Append(q, m)[i] = q[i]
         /\ Append(q, m)[Len(q) + 1] = m
         /\ \A i \in 1..Len(Append(q, m)) : i \in 1..Len(q) \/ i = Len(q) + 1
  OBVIOUS

\* A step of the server that neither takes nor sends a message.
LEMMA ServerLocalKeeps ==
  ASSUME Understanding, TypeOK', UNCHANGED <<fsm, state, wire, error, closing>>,
         phase'["client"] = phase["client"],
         sendq'["client"] = sendq["client"],
         ServerMayQueue(sendq["server"])'
  PROVE  Understanding'
<1> USE DEF Understanding
<1>1. (Live' <=> Live) /\ (Fresh("client")' <=> Fresh("client"))
  BY DEF Live, Fresh
<1>2. ClientMayQueue(sendq["client"])'
  BY <1>1, QueuesSplit DEF ClientMayQueue
<1>3. QueuesInOrder'
  BY <1>2 DEF QueuesInOrder, ClientMayQueue, ServerMayQueue
<1>4. StateMirrorsFsm' /\ ServerChain' /\ ServerUnderstands'
        /\ ClientUnderstands'
  BY DEF StateMirrorsFsm, ServerChain, ServerUnderstands, ClientUnderstands
<1>5. EndsLinked' /\ ClientEnds' /\ ClientChain'
  BY <1>1 DEF EndsLinked, ClientEnds, ClientChain
<1> QED BY <1>3, <1>4, <1>5

\* A step of a live client that neither takes nor sends a message.
LEMMA ClientLocalKeeps ==
  ASSUME Understanding, TypeOK', Live, UNCHANGED <<fsm, state, wire, error>>,
         phase'["server"] = phase["server"],
         sendq'["server"] = sendq["server"],
         ClientMayQueue(sendq["client"])',
         (Live /\ fsm["client"] = "disconnected" /\ ~Fresh("client"))' =>
           phase'["client"] = "flush" /\ closing',
         (Live /\ closing)' => phase'["client"] # "idle"
  PROVE  Understanding'
<1> USE DEF Understanding
<1>1. Fresh("client")' <=> Fresh("client")
  BY DEF Fresh
<1>2. ServerMayQueue(sendq["server"])'
  BY QueuesSplit DEF ServerMayQueue
<1>3. QueuesInOrder'
  BY <1>2 DEF QueuesInOrder, ClientMayQueue, ServerMayQueue
<1>4. StateMirrorsFsm' /\ ServerChain' /\ ServerUnderstands'
        /\ ClientUnderstands'
  BY DEF StateMirrorsFsm, ServerChain, ServerUnderstands, ClientUnderstands
<1>5. EndsLinked' /\ ClientEnds' /\ ClientChain'
  BY <1>1 DEF EndsLinked, ClientEnds, ClientChain
<1> QED BY <1>3, <1>4, <1>5

\* A step that touches neither the sessions nor closing.
LEMMA FrameKeeps ==
  ASSUME Understanding, TypeOK', UNCHANGED <<session, closing>>
  PROVE  Understanding'
<1>1. UNCHANGED <<phase, fsm, state, sendq, wire, error, closing>>
  BY DEF session
<1> QED BY <1>1 DEF Understanding, StateMirrorsFsm, QueuesInOrder, ServerChain,
          EndsLinked, ClientEnds, ClientChain, ServerUnderstands,
          ClientUnderstands, Live, Fresh

\* The server's thread moves on, its queue as it was.
LEMMA ServerMovesOn ==
  ASSUME Understanding, TypeOK', UNCHANGED <<fsm, state, sendq, wire, error>>,
         closing' = closing, NEW p, phase' = [phase EXCEPT !["server"] = p],
         phase["server"] # "flush" \/ sendq["server"] = <<>>
  PROVE  Understanding'
<1>0. "client" \in Side /\ "server" \in Side /\ "client" # "server"
  BY DEF Side
<1>1. phase'["client"] = phase["client"]
  BY <1>0 DEF Understanding, TypeOK
<1>2. ServerMayQueue(sendq["server"])
  BY QueuesSplit DEF Understanding
<1>3. ServerMayQueue(sendq["server"])'
  BY <1>2 DEF ServerMayQueue
<1> QED BY <1>1, <1>3, ServerLocalKeeps

\* The server queues a message of its own.
LEMMA ServerQueues ==
  ASSUME Understanding, TypeOK', UNCHANGED <<fsm, state, wire, error, closing>>,
         NEW p, phase' = [phase EXCEPT !["server"] = p],
         phase["server"] # "flush",
         NEW m \in Message, m.type \in FromServer,
         sendq' = [sendq EXCEPT !["server"] = Append(@, m)],
         m.type = "VARIABLE_VALUES" =>
           p = "flush" /\ fsm["server"] = "view_selected"
  PROVE  Understanding'
<1> DEFINE q == sendq["server"]
<1>0. "client" \in Side /\ "server" \in Side /\ "client" # "server"
  BY DEF Side
<1>1. /\ phase'["client"] = phase["client"] /\ phase'["server"] = p
      /\ sendq'["client"] = sendq["client"] /\ sendq'["server"] = Append(q, m)
      /\ q \in Seq(Message)
  BY <1>0 DEF Understanding, TypeOK
<1>2. ServerMayQueue(q)
  BY QueuesSplit DEF Understanding
<1>3. \A i \in 1..Len(q) :
        q[i].type \in FromServer /\ q[i].type # "VARIABLE_VALUES"
  BY <1>2 DEF ServerMayQueue
<1>4. \A i \in 1..Len(Append(q, m)) :
        \/ /\ Append(q, m)[i].type \in FromServer
           /\ Append(q, m)[i].type # "VARIABLE_VALUES"
        \/ Append(q, m)[i] = m
  <2> SUFFICES ASSUME NEW i \in 1..Len(Append(q, m))
               PROVE  \/ /\ Append(q, m)[i].type \in FromServer
                         /\ Append(q, m)[i].type # "VARIABLE_VALUES"
                      \/ Append(q, m)[i] = m
    OBVIOUS
  <2> HIDE DEF q
  <2>1. i \in 1..Len(q) \/ i = Len(q) + 1
    BY <1>1, AppendFacts
  <2>2. CASE i \in 1..Len(q)
    BY <1>1, <1>3, <2>2, AppendFacts
  <2>3. CASE i = Len(q) + 1
    BY <1>1, <2>3, AppendFacts
  <2> QED BY <2>1, <2>2, <2>3
<1>5. ServerMayQueue(sendq["server"])'
  BY <1>1, <1>4 DEF ServerMayQueue
<1> QED BY <1>1, <1>5, ServerLocalKeeps

\* What the server does between messages.
LEMMA ServerStepsKeep ==
  ASSUME Understanding, TypeOK',
         \/ Accept \/ RegisterLink
         \/ \E n \in 0..Len(wire["server"]) : Recv("server", n)
         \/ SnapshotSend \/ DecodeDone("server") \/ DirtyServer
         \/ FlushDone("server")
  PROVE  Understanding'
<1>1. CASE Accept
  BY <1>1, ServerMovesOn DEF Accept, runtime
<1>2. CASE RegisterLink
  BY <1>2, ServerMovesOn DEF RegisterLink, runtime
<1>3. CASE \E n \in 0..Len(wire["server"]) : Recv("server", n)
  BY <1>3, ServerMovesOn DEF Recv, runtime
<1>4. CASE DecodeDone("server")
  BY <1>4, ServerMovesOn DEF DecodeDone, runtime
<1>5. CASE FlushDone("server")
  BY <1>5, ServerMovesOn DEF FlushDone, runtime
<1>6. CASE SnapshotSend
  <2> DEFINE m == Carrying("AVAILABLE_VARIABLES", snap, Vars)
  <2>1. m \in Message /\ m.type = "AVAILABLE_VARIABLES"
    BY MessageFacts DEF Understanding, TypeOK, Carrying, MessageTypes
  <2>2. m.type \in FromServer /\ m.type # "VARIABLE_VALUES"
    BY <2>1 DEF FromServer
  <2>3. /\ UNCHANGED <<fsm, state, wire, error, closing>>
        /\ phase' = [phase EXCEPT !["server"] = "decode"]
        /\ phase["server"] # "flush"
        /\ sendq' = [sendq EXCEPT !["server"] = Append(@, m)]
    BY <1>6 DEF SnapshotSend, runtime
  <2> HIDE DEF m
  <2> QED BY <2>1, <2>2, <2>3, ServerQueues
<1>7. CASE DirtyServer
  <2>1. CASE IsViewSelected(state["server"]) /\ sdirty # {}
    <3> DEFINE m == Carrying("VARIABLE_VALUES", sreal, sdirty)
    <3>1. m \in Message /\ m.type = "VARIABLE_VALUES"
      <4>1. sreal \in [Vars -> Version] /\ sdirty \in SUBSET Vars
        BY DEF Understanding, TypeOK, Version
      <4> QED BY <4>1, MessageFacts DEF Carrying, MessageTypes
    <3>2. m.type \in FromServer
      BY <3>1 DEF FromServer
    <3>3. fsm["server"] = "view_selected"
      <4>1. Mirrors(fsm["server"], "VIEW_SELECTED")
        BY <2>1 DEF Understanding, StateMirrorsFsm, IsViewSelected, Side
      <4> QED BY <4>1 DEF Mirrors
    <3>4. /\ UNCHANGED <<fsm, state, wire, error, closing>>
          /\ phase' = [phase EXCEPT !["server"] = "flush"]
          /\ phase["server"] # "flush"
          /\ sendq' = [sendq EXCEPT !["server"] = Append(@, m)]
      BY <1>7, <2>1 DEF DirtyServer, runtime
    <3> HIDE DEF m
    <3> QED BY <3>1, <3>2, <3>3, <3>4, ServerQueues
  <2>2. CASE ~(IsViewSelected(state["server"]) /\ sdirty # {})
    BY <1>7, <2>2, ServerMovesOn DEF DirtyServer, runtime
  <2> QED BY <2>1, <2>2
<1> QED BY <1>1, <1>2, <1>3, <1>4, <1>5, <1>6, <1>7

\* Two queues end to end.
LEMMA ConcatFacts ==
  ASSUME NEW p \in Seq(Message), NEW q \in Seq(Message)
  PROVE  \A i \in 1..Len(p \o q) :
           \/ i \in 1..Len(p) /\ (p \o q)[i] = p[i]
           \/ i > Len(p) /\ i - Len(p) \in 1..Len(q)
                /\ (p \o q)[i] = q[i - Len(p)]
  OBVIOUS

\* The client moves on in its loop, its queue as it was.
LEMMA ClientMovesOn ==
  ASSUME Understanding, TypeOK', UNCHANGED <<fsm, state, sendq, wire, error>>,
         closing' = closing, NEW p, phase' = [phase EXCEPT !["client"] = p],
         phase["client"] \notin {"flush", "closed"}, p # "idle"
  PROVE  Understanding'
<1>0. "client" \in Side /\ "server" \in Side /\ "client" # "server"
  BY DEF Side
<1>1. phase'["server"] = phase["server"] /\ phase'["client"] = p
  BY <1>0 DEF Understanding, TypeOK
<1>2. Live
  BY DEF Live
<1>3. ClientMayQueue(sendq["client"])
  BY QueuesSplit DEF Understanding
<1>4. ClientMayQueue(sendq["client"])'
  BY <1>2, <1>3 DEF ClientMayQueue, Fresh
<1>5. fsm["client"] = "disconnected" => Fresh("client")
  BY <1>2 DEF Understanding, ClientEnds
<1>6. (fsm["client"] = "disconnected")' => Fresh("client")'
  BY <1>5 DEF Fresh
<1> QED BY <1>1, <1>2, <1>4, <1>6, ClientLocalKeeps

\* The client queues commands or requests, none of them CONNECT.
LEMMA ClientQueues ==
  ASSUME Understanding, TypeOK', UNCHANGED <<fsm, state, wire, error>>,
         NEW p, phase' = [phase EXCEPT !["client"] = p],
         phase["client"] \notin {"flush", "closed"}, p # "idle",
         NEW q \in Seq(Message),
         sendq' = [sendq EXCEPT !["client"] = @ \o q],
         closing => closing',
         \A i \in 1..Len(q) :
           /\ q[i].type \in FromClient \ {"CONNECT"}
           /\ q[i].type = "DISCONNECT" => closing'
  PROVE  Understanding'
<1> DEFINE c == sendq["client"]
<1>0. "client" \in Side /\ "server" \in Side /\ "client" # "server"
  BY DEF Side
<1>1. /\ phase'["server"] = phase["server"] /\ phase'["client"] = p
      /\ sendq'["server"] = sendq["server"] /\ sendq'["client"] = c \o q
      /\ c \in Seq(Message)
  BY <1>0 DEF Understanding, TypeOK
<1>2. Live
  BY DEF Live
<1>3. ClientMayQueue(c)
  BY QueuesSplit DEF Understanding
<1>4. Fresh("client")' <=> Fresh("client")
  BY DEF Fresh
<1>5. ASSUME NEW i \in 1..Len(c \o q)
      PROVE  /\ (c \o q)[i].type \in FromClient
             /\ (c \o q)[i].type = "CONNECT" => i = 1 /\ Fresh("client")
             /\ (c \o q)[i].type = "DISCONNECT" => closing'
  <2>1. \/ i \in 1..Len(c) /\ (c \o q)[i] = c[i]
        \/ i - Len(c) \in 1..Len(q) /\ (c \o q)[i] = q[i - Len(c)]
    BY <1>1, ConcatFacts
  <2>2. ASSUME i \in 1..Len(c)
        PROVE  /\ c[i].type \in FromClient
               /\ c[i].type = "CONNECT" => i = 1 /\ Fresh("client")
               /\ c[i].type = "DISCONNECT" => closing'
    BY <1>2, <1>3, <2>2 DEF ClientMayQueue
  <2>3. ASSUME i - Len(c) \in 1..Len(q)
        PROVE  /\ q[i - Len(c)].type \in FromClient
               /\ q[i - Len(c)].type # "CONNECT"
               /\ q[i - Len(c)].type = "DISCONNECT" => closing'
    BY <2>3
  <2> HIDE DEF c
  <2> QED BY <2>1, <2>2, <2>3
<1>6. ClientMayQueue(sendq["client"])'
  <2> HIDE DEF c
  <2> QED BY <1>1, <1>4, <1>5 DEF ClientMayQueue
<1>7. fsm["client"] = "disconnected" => Fresh("client")
  BY <1>2 DEF Understanding, ClientEnds
<1>8. (fsm["client"] = "disconnected")' => Fresh("client")'
  BY <1>7 DEF Fresh
<1> QED BY <1>1, <1>2, <1>6, <1>8, ClientLocalKeeps

\* What the runtime does between messages.
LEMMA ClientStepsKeep ==
  ASSUME Understanding, TypeOK',
         \/ \E n \in 0..Len(wire["client"]) : Recv("client", n)
         \/ DecodeDone("client") \/ DirtyClient \/ FlushDone("client")
         \/ SelectView \/ Disconnect
  PROVE  Understanding'
<1>0. /\ Unselect = <<>> \/ Unselect = <<Msg("UNSELECT_VIEW")>>
      /\ Unselect \in Seq(Message)
  BY CommandMessages DEF Unselect
<1>1. CASE \E n \in 0..Len(wire["client"]) : Recv("client", n)
  BY <1>1, ClientMovesOn DEF Recv, runtime
<1>2. CASE DecodeDone("client")
  BY <1>2, ClientMovesOn DEF DecodeDone, runtime
<1>3. CASE DirtyClient
  <2>0. /\ UNCHANGED <<fsm, state, wire, error, closing>>
        /\ phase' = [phase EXCEPT !["client"] = "flush"]
        /\ phase["client"] = "dirty"
    BY <1>3 DEF DirtyClient, runtime
  <2>1. CASE IsViewSelected(state["client"]) /\ cdirty # {}
    <3> DEFINE m == Carrying("MODIFY_VARIABLES", creq, cdirty)
    <3>1. m \in Message /\ m.type = "MODIFY_VARIABLES"
      <4>1. creq \in [Vars -> Version] /\ cdirty \in SUBSET Vars
        BY DEF Understanding, TypeOK, Version
      <4> QED BY <4>1, MessageFacts DEF Carrying, MessageTypes
    <3>2. m.type \in FromClient \ {"CONNECT", "DISCONNECT"}
      BY <3>1 DEF FromClient
    <3>3. sendq["client"] \in Seq(Message)
      BY DEF Understanding, TypeOK, Side
    <3>4. sendq' = [sendq EXCEPT !["client"] = Append(@, m)]
      BY <1>3, <2>1 DEF DirtyClient
    <3> HIDE DEF m
    <3>5. Append(sendq["client"], m) = sendq["client"] \o <<m>>
            /\ <<m>> \in Seq(Message)
      BY <3>1, <3>3
    <3>6. sendq' = [sendq EXCEPT !["client"] = @ \o <<m>>]
      BY <3>4, <3>5
    <3>7. \A i \in 1..Len(<<m>>) : /\ <<m>>[i].type \in FromClient \ {"CONNECT"}
                                  /\ <<m>>[i].type # "DISCONNECT"
      BY <3>2
    <3> QED BY <2>0, <3>5, <3>6, <3>7, ClientQueues
  <2>2. CASE ~(IsViewSelected(state["client"]) /\ cdirty # {})
    BY <1>3, <2>0, <2>2, ClientMovesOn DEF DirtyClient, runtime
  <2> QED BY <2>1, <2>2
<1>4. CASE FlushDone("client")
  <2>0. "client" \in Side /\ "server" \in Side /\ "client" # "server"
    BY DEF Side
  <2>1. /\ UNCHANGED <<fsm, state, sendq, wire, error, closing>>
        /\ phase'["server"] = phase["server"]
        /\ phase'["client"] = IF closing THEN "closed" ELSE "idle"
        /\ phase["client"] = "flush" /\ sendq["client"] = <<>>
    BY <1>4, <2>0 DEF FlushDone, runtime, Understanding, TypeOK
  <2>2. Live
    BY <2>1 DEF Live
  <2>3. ClientMayQueue(sendq["client"])'
    BY <2>1 DEF ClientMayQueue
  <2>4. fsm["client"] = "disconnected" /\ ~Fresh("client") => closing
    BY <2>2 DEF Understanding, ClientEnds
  <2>5. (Live /\ fsm["client"] = "disconnected" /\ ~Fresh("client"))' => FALSE
    BY <2>1, <2>4 DEF Live, Fresh
  <2>6. (Live /\ closing)' => phase'["client"] # "idle"
    BY <2>1
  <2> QED BY <2>1, <2>2, <2>3, <2>5, <2>6, ClientLocalKeeps
<1>5. ASSUME NEW q \in Seq(Message), Command(q), closing => closing',
             \A i \in 1..Len(q) :
               /\ q[i].type \in FromClient \ {"CONNECT"}
               /\ q[i].type = "DISCONNECT" => closing'
      PROVE  Understanding'
  <2>1. /\ UNCHANGED <<fsm, state, wire, error>>
        /\ phase' = [phase EXCEPT !["client"] = "decode"]
        /\ phase["client"] = "idle"
        /\ sendq' = [sendq EXCEPT !["client"] = @ \o q]
    BY <1>5 DEF Command
  <2> QED BY <1>5, <2>1, ClientQueues
<1>6. CASE SelectView
  <2> DEFINE q == Unselect \o <<Msg("SELECT_VIEW")>>
  <2>1. q \in Seq(Message)
    BY CommandMessages
  <2>2. \A i \in 1..Len(q) : q[i].type \in {"UNSELECT_VIEW", "SELECT_VIEW"}
    BY <1>0 DEF Msg
  <2>3. Command(q) /\ closing' = closing
    BY <1>6 DEF SelectView
  <2> HIDE DEF q
  <2> QED BY <1>5, <2>1, <2>2, <2>3 DEF FromClient
<1>7. CASE Disconnect
  <2> DEFINE e == IF IsAlive(state["client"]) THEN <<Msg("DISCONNECT")>>
                                              ELSE <<>>
             q == Unselect \o e
  <2>1. q \in Seq(Message)
    BY CommandMessages
  <2>2. \A i \in 1..Len(q) : q[i].type \in {"UNSELECT_VIEW", "DISCONNECT"}
    BY <1>0 DEF Msg
  <2>3. Command(q) /\ closing'
    BY <1>7 DEF Disconnect
  <2> HIDE DEF q
  <2> QED BY <1>5, <2>1, <2>2, <2>3 DEF FromClient
<1> QED BY <1>1, <1>2, <1>3, <1>4, <1>6, <1>7

\* A connection that comes up.
LEMMA ConnectKeeps ==
  ASSUME TypeOK', Connect
  PROVE  Understanding'
<1>0. Side = {"client", "server"}
  BY DEF Side
<1>1. /\ fsm' = [s \in Side |-> "disconnected"]
      /\ state' = [s \in Side |-> "CONNECTION_IN_PROGRESS"]
      /\ wire' = [s \in Side |-> <<>>]
      /\ error' = [s \in Side |-> "none"]
      /\ phase'["client"] = "idle" /\ ~closing'
      /\ sendq'["client"] = <<Msg("CONNECT")>> /\ sendq'["server"] = <<>>
  BY <1>0 DEF Connect
<1>2. StateMirrorsFsm' /\ Fresh("client")'
  BY <1>0, <1>1 DEF StateMirrorsFsm, Mirrors, Fresh
<1>3. QueuesInOrder'
  BY <1>1, <1>2 DEF QueuesInOrder, Msg, FromClient
<1>4. ServerChain' /\ ClientChain' /\ ClientEnds'
  BY <1>0, <1>1, <1>2 DEF ServerChain, ClientChain, ClientEnds
<1>5. EndsLinked'
  <2>1. <<"disconnected", "DISCONNECT", "disconnected">> \in Links
    BY DEF Links
  <2> QED BY <1>0, <1>1, <2>1 DEF EndsLinked
<1>6. ServerUnderstands' /\ ClientUnderstands'
  BY <1>0, <1>1 DEF ServerUnderstands, ClientUnderstands
<1> QED BY <1>2, <1>3, <1>4, <1>5, <1>6 DEF Understanding

\* Nothing is connected at first.
LEMMA UnderstandingInit == Init => Understanding
<1> SUFFICES ASSUME Init PROVE Understanding
  OBVIOUS
<1>0. Side = {"client", "server"}
  BY DEF Side
<1>1. StateMirrorsFsm /\ QueuesInOrder /\ ServerChain
        /\ ServerUnderstands /\ ClientUnderstands
  BY <1>0 DEF Init, StateMirrorsFsm, Mirrors, QueuesInOrder, ServerChain,
              ServerUnderstands, ClientUnderstands
<1>2. EndsLinked /\ ClientEnds /\ ClientChain
  BY <1>0 DEF Init, EndsLinked, ClientEnds, ClientChain, Live
<1> QED BY <1>1, <1>2, TypeInit DEF Understanding

\* A message is decoded, and it is one the side understands.
LEMMA DecodeKeeps ==
  ASSUME Understanding, TypeOK', NEW s \in Side, Decode(s)
  PROVE  Understanding'
<1> DEFINE m == Head(wire[s])
<1>1. phase[s] = "decode" /\ got[s] > 0
  BY DEF Decode
<1>2. CASE s = "server"
  <2> DEFINE S == wire["server"]
  <2>1. S \in Seq(Message) /\ Len(S) > 0
    <3>1. "server" \in Side /\ got["server"] > 0
      BY <1>1, <1>2
    <3>2. /\ S \in Seq(Message) /\ got["server"] + held["client"] <= Len(S)
          /\ got["server"] \in Nat /\ held["client"] \in Nat
      BY DEF Understanding, TypeOK, Side, Peer
    <3>3. Len(S) \in Nat
      BY <3>2
    <3>4. Len(S) > 0
      <4> HIDE DEF S
      <4> QED BY <3>1, <3>2, <3>3
    <3> QED BY <3>2, <3>4
  <2>2. Accepts(fsm["server"], S[1].type) /\ m = S[1]
    BY <1>2, <2>1 DEF Understanding, ServerChain
  <2>3. ServerTakes(m)
    BY <1>2, <2>2 DEF Decode
  <2> HIDE DEF m
  <2> QED BY <1>1, <1>2, <2>3, ServerTakesKeeps
<1>3. CASE s = "client"
  <2>1. Accepts(fsm["client"], m.type)
    BY <1>1, <1>3, ClientExpects
  <2>2. ClientTakes(m)
    BY <1>3, <2>1 DEF Decode
  <2> HIDE DEF m
  <2> QED BY <1>1, <1>3, <2>2, ClientTakesKeeps
<1> QED BY <1>2, <1>3 DEF Side

\* A queued message is encoded, or refused.
LEMMA FlushKeeps ==
  ASSUME Understanding, TypeOK', NEW s \in Side, Flush(s)
  PROVE  Understanding'
<1> DEFINE m == Head(sendq[s])
<1>1. /\ phase[s] = "flush" /\ sendq[s] # <<>>
      /\ Encode(s, m) \/ Close(s, "sent")
  BY DEF Flush
<1>2. CASE Close(s, "sent")
  BY <1>2, CloseKeeps
<1>3. CASE Encode(s, m) /\ s = "server"
  BY <1>1, <1>3, ServerSendsKeeps
<1>4. CASE Encode(s, m) /\ s = "client"
  BY <1>1, <1>4, ClientSendsKeeps
<1> QED BY <1>1, <1>2, <1>3, <1>4 DEF Side

\* No step breaks the understanding of the two sides.
LEMMA UnderstandingNext ==
  ASSUME Understanding, [Next]_vars
  PROVE  Understanding'
<1>0. TypeOK' /\ "client" \in Side /\ "server" \in Side
  BY TypeNext DEF Understanding, Side
<1>1. CASE UNCHANGED vars
  BY <1>0, <1>1, FrameKeeps DEF vars, runtime
<1>2. CASE ServerThread
  <2>1. CASE \E v \in Vars : RegisterCopy(v)
    BY <1>0, <2>1, FrameKeeps DEF RegisterCopy, runtime
  <2>2. CASE \E v \in Vars : SnapshotRead(v)
    BY <1>0, <2>2, FrameKeeps DEF SnapshotRead, runtime
  <2>3. CASE HandshakeTimeout
    <3>1. UNCHANGED <<session, closing>> \/ Close("server", "none")
      BY <2>3 DEF HandshakeTimeout, runtime
    <3> QED BY <1>0, <3>1, FrameKeeps, CloseKeeps
  <2>4. CASE LostConnection("server") \/ ServerStop
    BY <1>0, <2>4, CloseKeeps DEF LostConnection, ServerStop
  <2> QED BY <1>0, <1>2, <2>1, <2>2, <2>3, <2>4, DecodeKeeps, FlushKeeps,
             ServerStepsKeep DEF ServerThread, ServerProcess
<1>3. CASE Runtime
  <2>1. CASE ProjectBuilt
    <3>1. UNCHANGED <<session, closing>> \/ Close("client", "none")
      BY <2>1 DEF ProjectBuilt
    <3> QED BY <1>0, <3>1, FrameKeeps, CloseKeeps
  <2>2. CASE \E v \in Vars : Request(v)
    BY <1>0, <2>2, FrameKeeps DEF Request, runtime
  <2>3. CASE LostConnection("client")
    BY <1>0, <2>3, CloseKeeps DEF LostConnection
  <2> QED BY <1>0, <1>3, <2>1, <2>2, <2>3, ConnectKeeps, DecodeKeeps,
             FlushKeeps, ClientStepsKeep DEF Runtime, ClientProcess
<1>4. CASE PluginThread
  BY <1>0, <1>4, FrameKeeps DEF PluginThread, Publish, runtime
<1> QED BY <1>1, <1>2, <1>3, <1>4 DEF Next

-----------------------------------------------------------------------------
(* Theorems.                                                               *)

\* Understanding, the inductive invariant, holds of every connection, for any
\* variables and bounds and any interleaving of the two sides.
THEOREM UnderstandingHolds == Spec => []Understanding
<1> QED BY UnderstandingInit, UnderstandingNext, PTL DEF Spec

\* The server never receives a message its diagram has no transition for.
THEOREM ServerAlwaysUnderstands == Spec => []ServerUnderstands
<1>1. Understanding => ServerUnderstands
  BY DEF Understanding
<1> QED BY <1>1, UnderstandingHolds, PTL

\* The client never receives a message its diagram has no transition for.
THEOREM ClientAlwaysUnderstands == Spec => []ClientUnderstands
<1>1. Understanding => ClientUnderstands
  BY DEF Understanding
<1> QED BY <1>1, UnderstandingHolds, PTL
=============================================================================
