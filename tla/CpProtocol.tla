---------------------------- MODULE CpProtocol ----------------------------
(***************************************************************************)
(* One Lintouch connection: the session of lintouch-runtime (the client)   *)
(* and the session of lintouch-server joined by a TCP stream, together     *)
(* with the threads around them that touch the same variables.             *)
(*                                                                         *)
(*  - lt_cp_session_process, the heart of libltcp, is the same C function  *)
(*    on both sides.  It is split here where something else can happen     *)
(*    between two of its steps: receive, decode one message, look for      *)
(*    dirty variables, encode one queued message, hand the buffer over.    *)
(*  - The server's thread for this client registers the plugin's variables *)
(*    without a lock, and reads them without a lock for the answer to      *)
(*    SELECT_VIEW; the plugin publishes values in its own thread.          *)
(*  - The runtime is one GUI thread: its commands queue messages and run   *)
(*    lt_cp_session_process at once.                                       *)
(*                                                                         *)
(* Values are versions: the n-th value a plugin publishes is n, and the    *)
(* n-th value a user asks for on a connection is n (0 is the value a       *)
(* variable is created with).  The varset of a session holds the variables *)
(* of one connection (plugin).                                             *)
(***************************************************************************)
EXTENDS CpFsm, Integers, Sequences

CONSTANTS
  Vars,       \* the variables of the plugin's varset
  MaxReal,    \* bound on the values the plugin publishes per variable
  MaxReq      \* bound on the values the user asks for per variable

ASSUME BoundsAssumption == MaxReal \in Nat /\ MaxReq \in Nat

VARIABLES
  phase,      \* where each side stands in its loop
  fsm,        \* fsm_session: the state of the protocol diagram
  state,      \* session->state
  sendq,      \* send_queue: enqueued, not yet encoded
  wire,       \* wire[s]: what has been encoded for s and not yet decoded by s
  got,        \* how many messages at the head of wire[s] s has received
  held,       \* how many at the tail of wire[Peer(s)] s has yet to hand over
  error,      \* how lt_cp_session_process failed, if it did
  closing,    \* the runtime is inside disconnect()
  ready,      \* the runtime has built the project and registered its varset
  hasty,      \* history: the user interface has moved on before its requests
              \* were flushed or a view selection was answered
  inprogress, \* the server still watches for the 10 s handshake timeout
  preal,      \* real values of the plugin's varset
  preq,       \* requested values of the plugin's varset
  linked,     \* the server session's varset is a target of the plugin's
  sreal,      \* real values of the server session's varset
  sdirty,     \* its dirty real values
  walk,       \* the variables an unlocked iteration has yet to visit
  snap,       \* the values it has read so far
  creal,      \* real values of the client session's varset
  creq,       \* requested values of the client session's varset
  cdirty      \* its dirty requested values

session == <<phase, fsm, state, sendq, wire, got, held, error>>
runtime == <<closing, ready, hasty>>
plugin  == <<preal, preq>>
server  == <<linked, sreal, sdirty, walk, snap, inprogress>>
client  == <<creal, creq, cdirty>>
vars    == <<session, runtime, plugin, server, client>>

Side == {"client", "server"}
Peer(s) == IF s = "client" THEN "server" ELSE "client"

NoVal   == -1
Nothing == [v \in Vars |-> NoVal]
Version == Nat \cup {NoVal}

Message == [type : MessageTypes, vals : [Vars -> Version]]
Msg(t)  == [type |-> t, vals |-> Nothing]

\* The message that carries the values f of the variables in D.
Carrying(t, f, D) ==
  [type |-> t, vals |-> [v \in Vars |-> IF v \in D THEN f[v] ELSE NoVal]]

\* f, overwritten with what message m carries.
Overwrite(f, m) ==
  [v \in Vars |-> IF m.vals[v] = NoVal THEN f[v] ELSE m.vals[v]]

TypeOK ==
  /\ phase \in [Side -> {"closed", "absent", "register", "idle", "decode",
                         "snapshot", "dirty", "flush"}]
  /\ fsm \in [Side -> FsmStates]
  /\ state \in [Side -> SessionStates]
  /\ sendq \in [Side -> Seq(Message)]
  /\ wire \in [Side -> Seq(Message)]
  /\ got \in [Side -> Nat]
  /\ held \in [Side -> Nat]
  /\ \A s \in Side : got[s] + held[Peer(s)] <= Len(wire[s])
  /\ error \in [Side -> {"none", "received", "sent"}]
  /\ closing \in BOOLEAN /\ ready \in BOOLEAN /\ inprogress \in BOOLEAN
  /\ linked \in BOOLEAN /\ hasty \in BOOLEAN
  /\ preal \in [Vars -> Nat] /\ preq \in [Vars -> Nat]
  /\ sreal \in [Vars -> Nat] /\ snap \in [Vars -> Version]
  /\ sdirty \subseteq Vars /\ walk \subseteq Vars /\ cdirty \subseteq Vars
  /\ creal \in [Vars -> Version] /\ creq \in [Vars -> Nat]

Init ==
  /\ phase = [s \in Side |-> "closed"]
  /\ fsm = [s \in Side |-> "disconnected"]
  /\ state = [s \in Side |-> "CONNECTION_IN_PROGRESS"]
  /\ sendq = [s \in Side |-> <<>>]
  /\ wire = [s \in Side |-> <<>>]
  /\ got = [s \in Side |-> 0]
  /\ held = [s \in Side |-> 0]
  /\ error = [s \in Side |-> "none"]
  /\ closing = FALSE /\ ready = FALSE /\ inprogress = TRUE
  /\ linked = FALSE /\ hasty = FALSE
  /\ preal = [v \in Vars |-> 0]
  /\ preq = [v \in Vars |-> 0]
  /\ sreal = [v \in Vars |-> 0]
  /\ snap = Nothing
  /\ sdirty = {} /\ walk = {}
  /\ creal = Nothing
  /\ creq = [v \in Vars |-> 0]
  /\ cdirty = {}

-----------------------------------------------------------------------------
(* The connection comes up.                                                *)

\* The TCP connection is there: the runtime creates its session and queues
\* CONNECT (socketConnected); the server has yet to accept.  Only one
\* connection is followed at a time: both ends of the last one are gone.
Connect ==
  /\ phase = [s \in Side |-> "closed"]
  /\ phase' = [s \in Side |-> IF s = "client" THEN "idle" ELSE "absent"]
  /\ fsm' = [s \in Side |-> "disconnected"]
  /\ state' = [s \in Side |-> "CONNECTION_IN_PROGRESS"]
  /\ sendq' = [s \in Side |-> IF s = "client" THEN <<Msg("CONNECT")>>
                                              ELSE <<>>]
  /\ wire' = [s \in Side |-> <<>>]
  /\ got' = [s \in Side |-> 0]
  /\ held' = [s \in Side |-> 0]
  /\ error' = [s \in Side |-> "none"]
  /\ closing' = FALSE /\ ready' = FALSE /\ inprogress' = TRUE
  /\ linked' = FALSE /\ hasty' = FALSE
  /\ sdirty' = {} /\ walk' = {} /\ snap' = Nothing
  /\ creal' = Nothing /\ creq' = [v \in Vars |-> 0] /\ cdirty' = {}
  /\ UNCHANGED <<plugin, sreal>>

\* accept, and lt_server_client_create starts copying the plugin's varset.
Accept ==
  /\ phase["server"] = "absent"
  /\ phase' = [phase EXCEPT !["server"] = "register"]
  /\ walk' = Vars
  /\ UNCHANGED <<fsm, state, sendq, wire, got, held, error, runtime, plugin,
                 linked, sreal, sdirty, snap, inprogress, client>>

\* The loop of lt_cp_session_variables_register: one value is copied, and no
\* lock of the plugin's varset is held.
RegisterCopy(v) ==
  /\ phase["server"] = "register" /\ v \in walk
  /\ sreal' = [sreal EXCEPT ![v] = preal[v]]
  /\ walk' = walk \ {v}
  /\ UNCHANGED <<session, runtime, plugin, linked, sdirty, snap, inprogress,
                 client>>

\* Under both locks the copy becomes a target of the plugin's varset, and the
\* thread that serves the client starts.
RegisterLink ==
  /\ phase["server"] = "register" /\ walk = {}
  /\ linked' = TRUE
  /\ phase' = [phase EXCEPT !["server"] = "idle"]
  /\ UNCHANGED <<fsm, state, sendq, wire, got, held, error, runtime, plugin,
                 sreal, sdirty, walk, snap, inprogress, client>>

\* Side s drops its end.  What it never handed over is lost, and of what it
\* did hand over the peer may still receive any prefix.
Close(s, why) ==
  /\ phase' = [phase EXCEPT ![s] = "closed"]
  /\ error' = [error EXCEPT ![s] = why]
  /\ sendq' = [sendq EXCEPT ![s] = <<>>]
  /\ held' = [held EXCEPT ![s] = 0]
  /\ \E k \in got[Peer(s)]..(Len(wire[Peer(s)]) - held[s]) :
       wire' = [wire EXCEPT ![Peer(s)] = SubSeq(@, 1, k)]
  /\ UNCHANGED <<fsm, state, got, runtime, plugin, server, client>>

-----------------------------------------------------------------------------
(* lt_cp_session_process, on either side.                                  *)

\* n more messages are complete in the receive buffer.
Recv(s, n) ==
  /\ phase[s] = "idle"
  /\ n \in 0..(Len(wire[s]) - held[Peer(s)])
  /\ got' = [got EXCEPT ![s] = n]
  /\ phase' = [phase EXCEPT ![s] = "decode"]
  /\ UNCHANGED <<fsm, state, sendq, wire, held, error, runtime, plugin,
                 server, client>>

\* The diagram takes message m on side s, and its hook sets session->state.
Step(s, m) ==
  /\ \E d \in FsmStates :
       Leads(fsm[s], m.type, d) /\ fsm' = [fsm EXCEPT ![s] = d]
  /\ state' = IF Hooked(fsm[s], m.type)
              THEN [state EXCEPT ![s] = StateAfterHook(m.type)] ELSE state

\* m, the oldest message received, leaves the receive buffer.
Take(s, m) ==
  /\ m = Head(wire[s])
  /\ wire' = [wire EXCEPT ![s] = Tail(@)]
  /\ got' = [got EXCEPT ![s] = @ - 1]

\* Mutant of Reply: CONNECT is not answered.
ReplyNone(t) == <<>>

\* What the hook enqueues on the server for a received message of type t.
\* The answer to SELECT_VIEW takes a walk over the variables first.
Reply(t) == IF t = "CONNECT" THEN <<Msg("PROJECT_URL")>> ELSE <<>>

\* The server's hooks react to message m of its client.
ServerTakes(m) ==
  /\ Take("server", m)
  /\ Step("server", m)
  /\ sendq' = [sendq EXCEPT !["server"] = @ \o Reply(m.type)]
  /\ IF m.type = "SELECT_VIEW"
     THEN /\ phase' = [phase EXCEPT !["server"] = "snapshot"]
          /\ walk' = Vars
     ELSE UNCHANGED <<phase, walk>>
  /\ preq' = IF m.type = "MODIFY_VARIABLES" THEN Overwrite(preq, m) ELSE preq
  /\ UNCHANGED <<held, error, runtime, preal, linked, sreal, sdirty, snap,
                 inprogress, client>>

\* The client's hooks store the values of message m of the server and sync
\* them to the project's varsets, unless the transition has no hook.
ClientTakes(m) ==
  /\ Take("client", m)
  /\ Step("client", m)
  /\ creal' = IF Hooked(fsm["client"], m.type) THEN Overwrite(creal, m)
                                               ELSE creal
  /\ UNCHANGED <<phase, sendq, held, error, runtime, plugin, server, creq,
                 cdirty>>

\* One message is decoded.  If the diagram has no transition for it,
\* lt_cp_session_process returns LT_CP_INVALID_ARG, and both its callers drop
\* the connection.
Decode(s) ==
  LET m == Head(wire[s]) IN
  /\ phase[s] = "decode" /\ got[s] > 0
  /\ IF Accepts(fsm[s], m.type)
     THEN IF s = "server" THEN ServerTakes(m) ELSE ClientTakes(m)
     ELSE Close(s, "received")

\* Mutant of SnapshotRead: the requested value is read, not the real one.
SnapshotReadRequested(v) ==
  /\ phase["server"] = "snapshot" /\ v \in walk
  /\ snap' = [snap EXCEPT ![v] = preq[v]]
  /\ walk' = walk \ {v}
  /\ UNCHANGED <<session, runtime, plugin, linked, sreal, sdirty, inprogress,
                 client>>

\* send_msg_avaiable_variables reads one value, without the varset's lock.
SnapshotRead(v) ==
  /\ phase["server"] = "snapshot" /\ v \in walk
  /\ snap' = [snap EXCEPT ![v] = sreal[v]]
  /\ walk' = walk \ {v}
  /\ UNCHANGED <<session, runtime, plugin, linked, sreal, sdirty, inprogress,
                 client>>

\* Mutant of SnapshotSend: no answer to SELECT_VIEW.
SnapshotSendNothing ==
  /\ phase["server"] = "snapshot" /\ walk = {}
  /\ phase' = [phase EXCEPT !["server"] = "decode"]
  /\ snap' = Nothing
  /\ UNCHANGED <<fsm, state, sendq, wire, got, held, error, runtime, plugin,
                 linked, sreal, sdirty, walk, inprogress, client>>

\* Mutant of SnapshotSend: one answer for each registered connection.
SnapshotSendTwice ==
  /\ phase["server"] = "snapshot" /\ walk = {}
  /\ phase' = [phase EXCEPT !["server"] = "decode"]
  /\ LET answer == Carrying("AVAILABLE_VARIABLES", snap, Vars) IN
     sendq' = [sendq EXCEPT !["server"] = @ \o <<answer, answer>>]
  /\ snap' = Nothing
  /\ UNCHANGED <<fsm, state, wire, got, held, error, runtime, plugin, linked,
                 sreal, sdirty, walk, inprogress, client>>

\* All values read: the answer is enqueued, decoding goes on.
SnapshotSend ==
  /\ phase["server"] = "snapshot" /\ walk = {}
  /\ phase' = [phase EXCEPT !["server"] = "decode"]
  /\ sendq' = [sendq EXCEPT !["server"] =
                 Append(@, Carrying("AVAILABLE_VARIABLES", snap, Vars))]
  /\ snap' = Nothing
  /\ UNCHANGED <<fsm, state, wire, got, held, error, runtime, plugin, linked,
                 sreal, sdirty, walk, inprogress, client>>

\* Everything received is decoded.
DecodeDone(s) ==
  /\ phase[s] = "decode" /\ got[s] = 0
  /\ phase' = [phase EXCEPT ![s] = "dirty"]
  /\ UNCHANGED <<fsm, state, sendq, wire, got, held, error, runtime, plugin,
                 server, client>>

\* Mutant of DirtyServer: the sync clears the flags even when nothing is sent.
DirtyServerClears ==
  /\ phase["server"] = "dirty"
  /\ phase' = [phase EXCEPT !["server"] = "flush"]
  /\ sdirty' = {}
  /\ IF IsViewSelected(state["server"]) /\ sdirty # {}
     THEN sendq' = [sendq EXCEPT !["server"] =
                      Append(@, Carrying("VARIABLE_VALUES", sreal, sdirty))]
     ELSE UNCHANGED sendq
  /\ UNCHANGED <<fsm, state, wire, got, held, error, runtime, plugin, linked,
                 sreal, walk, snap, inprogress, client>>

\* _lt_cp_session_process_server, under the lock of the real values.
DirtyServer ==
  /\ phase["server"] = "dirty"
  /\ phase' = [phase EXCEPT !["server"] = "flush"]
  /\ IF IsViewSelected(state["server"]) /\ sdirty # {}
     THEN /\ sendq' = [sendq EXCEPT !["server"] =
                         Append(@, Carrying("VARIABLE_VALUES", sreal, sdirty))]
          /\ sdirty' = {}
     ELSE UNCHANGED <<sendq, sdirty>>
  /\ UNCHANGED <<fsm, state, wire, got, held, error, runtime, plugin, linked,
                 sreal, walk, snap, inprogress, client>>

\* Mutant of DirtyClient: the flags are cleared even when nothing is sent.
DirtyClientClears ==
  /\ phase["client"] = "dirty"
  /\ phase' = [phase EXCEPT !["client"] = "flush"]
  /\ cdirty' = {}
  /\ IF IsViewSelected(state["client"]) /\ cdirty # {}
     THEN sendq' = [sendq EXCEPT !["client"] =
                      Append(@, Carrying("MODIFY_VARIABLES", creq, cdirty))]
     ELSE UNCHANGED sendq
  /\ UNCHANGED <<fsm, state, wire, got, held, error, runtime, plugin, server,
                 creal, creq>>

\* _lt_cp_session_process_client, under the lock of the requested values.
DirtyClient ==
  /\ phase["client"] = "dirty"
  /\ phase' = [phase EXCEPT !["client"] = "flush"]
  /\ IF IsViewSelected(state["client"]) /\ cdirty # {}
     THEN /\ sendq' = [sendq EXCEPT !["client"] =
                         Append(@, Carrying("MODIFY_VARIABLES", creq, cdirty))]
          /\ cdirty' = {}
     ELSE UNCHANGED <<sendq, cdirty>>
  /\ UNCHANGED <<fsm, state, wire, got, held, error, runtime, plugin, server,
                 creal, creq>>

\* Mutant of Encode: the message does not fit the buffer and is dropped.
EncodeDropped(s, m) ==
  /\ Step(s, m)
  /\ sendq' = [sendq EXCEPT ![s] = Tail(@)]
  /\ UNCHANGED <<wire, held, phase, got, error, runtime, plugin, server,
                 client>>

\* Message m goes from the queue of side s into its send buffer.
Encode(s, m) ==
  /\ Step(s, m)
  /\ sendq' = [sendq EXCEPT ![s] = Tail(@)]
  /\ wire' = [wire EXCEPT ![Peer(s)] = Append(@, m)]
  /\ held' = [held EXCEPT ![s] = @ + 1]
  /\ UNCHANGED <<phase, got, error, runtime, plugin, server, client>>

\* Mutant of Flush: a missing transition does not keep the message back.
FlushUnchecked(s) ==
  LET m == Head(sendq[s]) IN
  /\ phase[s] = "flush" /\ sendq[s] # <<>>
  /\ IF Accepts(fsm[s], m.type) THEN Encode(s, m) ELSE
       /\ sendq' = [sendq EXCEPT ![s] = Tail(@)]
       /\ wire' = [wire EXCEPT ![Peer(s)] = Append(@, m)]
       /\ held' = [held EXCEPT ![s] = @ + 1]
       /\ UNCHANGED <<fsm, state, phase, got, error, runtime, plugin, server,
                      client>>

\* The oldest queued message is encoded if the diagram lets it go; otherwise
\* lt_cp_session_process fails and returns none of the buffer.
Flush(s) ==
  LET m == Head(sendq[s]) IN
  /\ phase[s] = "flush" /\ sendq[s] # <<>>
  /\ IF Accepts(fsm[s], m.type) THEN Encode(s, m) ELSE Close(s, "sent")

\* The buffer is returned and written to the socket.  Inside disconnect()
\* the runtime then closes the socket, which still delivers what is written.
FlushDone(s) ==
  /\ phase[s] = "flush" /\ sendq[s] = <<>>
  /\ held' = [held EXCEPT ![s] = 0]
  /\ phase' = [phase EXCEPT ![s] =
                 IF s = "client" /\ closing THEN "closed" ELSE "idle"]
  /\ UNCHANGED <<fsm, state, sendq, wire, got, error, runtime, plugin, server,
                 client>>

-----------------------------------------------------------------------------
(* The connection goes down.                                               *)

\* The peer is gone: recv reports it, or QSocket signals it.
LostConnection(s) ==
  /\ phase[s] = "idle" /\ phase[Peer(s)] = "closed"
  /\ Close(s, "none")

\* The server is stopping and its thread for the client sees stoprequested.
ServerStop ==
  /\ phase["server"] = "idle"
  /\ Close("server", "none")

\* Ten seconds after the start, once: no handshake, no connection.
HandshakeTimeout ==
  /\ phase["server"] = "idle" /\ inprogress
  /\ IF IsAlive(state["server"])
     THEN /\ inprogress' = FALSE
          /\ UNCHANGED <<session, runtime, plugin, linked, sreal, sdirty,
                         walk, snap, client>>
     ELSE Close("server", "none")

-----------------------------------------------------------------------------
(* The runtime's commands and the plugin.                                  *)

\* projectBuilt: the project is there and its varset is registered; or the
\* build failed and the runtime hangs up.
ProjectBuilt ==
  /\ phase["client"] = "idle" /\ ~ready /\ IsAlive(state["client"])
  /\ \/ /\ ready' = TRUE
        /\ UNCHANGED <<session, closing, hasty, plugin, server, client>>
     \/ Close("client", "none")

\* A handler of the runtime queues q and calls processPendingEvents.
Command(q) ==
  /\ phase["client"] = "idle"
  /\ sendq' = [sendq EXCEPT !["client"] = @ \o q]
  /\ \E n \in 0..(Len(wire["client"]) - held["server"]) :
       got' = [got EXCEPT !["client"] = n]
  /\ phase' = [phase EXCEPT !["client"] = "decode"]
  /\ UNCHANGED <<fsm, state, wire, held, error, plugin, server, client>>

\* Mutant of Unselect: the old view is never left.
UnselectNever == <<>>

\* The session's view is left before another is selected or the session ends.
Unselect == IF IsViewSelected(state["client"]) THEN <<Msg("UNSELECT_VIEW")>>
                                               ELSE <<>>

SelectView ==
  /\ ready
  /\ Command(Unselect \o <<Msg("SELECT_VIEW")>>)
  /\ hasty' = \/ hasty \/ cdirty # {}
              \/ state["client"] = "VIEW_SELECTION_IN_PROGRESS"
  /\ UNCHANGED <<closing, ready>>

Disconnect ==
  /\ Command(Unselect \o IF IsAlive(state["client"])
                         THEN <<Msg("DISCONNECT")>> ELSE <<>>)
  /\ closing' = TRUE /\ UNCHANGED ready
  /\ hasty' = (hasty \/ cdirty # {})

\* A template asks for a new value of v; the request is in the session's
\* varset when processPendingEvents next runs.
Request(v) ==
  /\ phase["client"] = "idle" /\ ready /\ creq[v] < MaxReq
  /\ creq' = [creq EXCEPT ![v] = @ + 1]
  /\ cdirty' = cdirty \cup {v}
  /\ UNCHANGED <<session, runtime, plugin, server, creal>>

\* Mutant of Publish: values pushed to the session are not marked dirty.
PublishUnmarked(U) ==
  /\ \A v \in U : preal[v] < MaxReal
  /\ preal' = [v \in Vars |-> IF v \in U THEN preal[v] + 1 ELSE preal[v]]
  /\ sreal' = [v \in Vars |-> IF linked /\ v \in U THEN preal'[v]
                                                    ELSE sreal[v]]
  /\ UNCHANGED <<session, runtime, preq, linked, sdirty, walk, snap,
                 inprogress, client>>

\* The plugin sets the variables in U and syncs: every value set is pushed to
\* the session's varset if that is linked, and is dirty there if it differs.
Publish(U) ==
  /\ \A v \in U : preal[v] < MaxReal
  /\ preal' = [v \in Vars |-> IF v \in U THEN preal[v] + 1 ELSE preal[v]]
  /\ IF linked
     THEN /\ sreal' = [v \in Vars |-> IF v \in U THEN preal'[v] ELSE sreal[v]]
          /\ sdirty' = sdirty \cup {v \in U : sreal[v] # preal'[v]}
     ELSE UNCHANGED <<sreal, sdirty>>
  /\ UNCHANGED <<session, runtime, preq, linked, walk, snap, inprogress,
                 client>>

-----------------------------------------------------------------------------
ServerProcess ==
  \/ \E n \in 0..Len(wire["server"]) : Recv("server", n)
  \/ Decode("server")
  \/ \E v \in Vars : SnapshotRead(v)
  \/ SnapshotSend
  \/ DecodeDone("server")
  \/ DirtyServer
  \/ Flush("server")
  \/ FlushDone("server")

ServerThread ==
  \/ Accept
  \/ \E v \in Vars : RegisterCopy(v)
  \/ RegisterLink
  \/ ServerProcess
  \/ LostConnection("server")
  \/ ServerStop
  \/ HandshakeTimeout

ClientProcess ==
  \/ \E n \in 0..Len(wire["client"]) : Recv("client", n)
  \/ Decode("client")
  \/ DecodeDone("client")
  \/ DirtyClient
  \/ Flush("client")
  \/ FlushDone("client")

Runtime ==
  \/ Connect
  \/ ClientProcess
  \/ LostConnection("client")
  \/ ProjectBuilt
  \/ SelectView
  \/ Disconnect
  \/ \E v \in Vars : Request(v)

PluginThread == \E U \in SUBSET Vars \ {{}} : Publish(U)

Next == Runtime \/ ServerThread \/ PluginThread

Spec == Init /\ [][Next]_vars

-----------------------------------------------------------------------------
(* Safety.                                                                 *)

\* Whatever the runtime sends, in whatever pieces it arrives, the server never
\* receives a message its diagram has no transition for: the diagrams of the
\* two sides, each fed with both directions, never drift apart.
ServerUnderstands == error["server"] # "received"

\* The same of the client: no answer and no late value of the server ever
\* reaches it in a state that does not expect it.
ClientUnderstands == error["client"] # "received"

\* The server fails to send only because the client has already said
\* DISCONNECT and gone: its answer was overtaken in the same batch.
ServerFailsOnlyAfterDisconnect ==
  error["server"] = "sent" =>
    phase["client"] = "closed" /\ state["client"] = "DISCONNECTED"

\* As long as the user interface lets requests be flushed and selections be
\* answered before its next command, it never sees a protocol error.
TidyNeverFails == ~hasty => error["client"] = "none"

\* When nothing is queued or in flight, both diagrams are in the same state.
QuietAgreement ==
  (\A s \in Side : phase[s] = "idle" /\ wire[s] = <<>> /\ sendq[s] = <<>>)
    => fsm["client"] = fsm["server"] /\ state["client"] = state["server"]

\* The value of v once all messages of q are taken over old.
Latest(q, v, old) ==
  LET C == {i \in DOMAIN q : q[i].vals[v] # NoVal} IN
  IF C = {} THEN old ELSE q[CHOOSE i \in C : \A j \in C : j <= i].vals[v]

\* While the client shows a view, what is on its way ends in the value of the
\* server's session for every variable not marked dirty there: clearing the
\* dirty flags when the message is queued loses no update.
NoUpdateLost ==
  (fsm["client"] = "view_selected" /\ \A s \in Side : phase[s] # "closed")
    => \A v \in Vars \ sdirty :
         Latest(wire["client"] \o sendq["server"], v, creal[v]) = sreal[v]

\* A request that is not marked dirty has reached the plugin or is the last
\* one on its way there.
NoRequestLost ==
  (\A s \in Side : phase[s] # "closed")
    => \A v \in Vars \ cdirty :
         creq[v] # 0 =>
           Latest(wire["server"] \o sendq["client"], v, preq[v]) = creq[v]

\* Within a connection the values shown never step back to an older one,
\* late values and torn snapshots included.
ClientForward ==
  [][phase["client"] # "closed" => \A v \in Vars : creal'[v] >= creal[v]]_vars

-----------------------------------------------------------------------------
(* Why the two sides understand each other: an inductive invariant.        *)

FromClient == {"CONNECT", "DISCONNECT", "SELECT_VIEW", "UNSELECT_VIEW",
               "MODIFY_VARIABLES"}
FromServer == {"PROJECT_URL", "AVAILABLE_VARIABLES", "VARIABLE_VALUES"}

\* The session has been created and has seen no message yet.
Fresh(s) == fsm[s] = "disconnected" /\ state[s] = "CONNECTION_IN_PROGRESS"

Live == phase["client"] # "closed"

\* Session state st repeats what the diagram says with f.
Mirrors(f, st) ==
  <<f, st>> \in {<<"disconnected", "CONNECTION_IN_PROGRESS">>,
                <<"disconnected", "DISCONNECTED">>,
                <<"connection_in_progress", "CONNECTION_IN_PROGRESS">>,
                <<"connected", "CONNECTED">>,
                <<"view_selection_in_progress", "VIEW_SELECTION_IN_PROGRESS">>,
                <<"view_selected", "VIEW_SELECTED">>}

StateMirrorsFsm == \A s \in Side : Mirrors(fsm[s], state[s])

\* What each side queues: CONNECT only on a fresh session, DISCONNECT only
\* inside disconnect(), values only while the queue is being flushed.
QueuesInOrder ==
  /\ \A i \in 1..Len(sendq["client"]) :
       LET t == sendq["client"][i].type IN
       /\ t \in FromClient
       /\ t = "CONNECT" => i = 1 /\ (Live => Fresh("client"))
       /\ t = "DISCONNECT" => closing
  /\ \A i \in 1..Len(sendq["server"]) :
       LET t == sendq["server"][i].type IN
       /\ t \in FromServer
       /\ t = "VARIABLE_VALUES" =>
            phase["server"] = "flush" /\ fsm["server"] = "view_selected"

\* Message u may come right after message t on the wire to the server.
Follows(t, u) ==
  <<t, u>> \in {<<"CONNECT", "DISCONNECT">>,
                <<"MODIFY_VARIABLES", "MODIFY_VARIABLES">>,
                <<"MODIFY_VARIABLES", "UNSELECT_VIEW">>,
                <<"MODIFY_VARIABLES", "DISCONNECT">>,
                <<"UNSELECT_VIEW", "SELECT_VIEW">>,
                <<"UNSELECT_VIEW", "DISCONNECT">>,
                <<"SELECT_VIEW", "DISCONNECT">>}

\* The wire to the server begins with something the server takes now, and
\* every message prepares for the next.
ServerChain ==
  LET q == wire["server"] IN
  /\ \A i \in 1..Len(q) : q[i].type \in FromClient
  /\ Len(q) > 0 => Accepts(fsm["server"], q[1].type)
  /\ \A i \in 1..(Len(q) - 1) : Follows(q[i].type, q[i + 1].type)

\* <<c, t, s>>: the client in state c last sent t, which the server either
\* has yet to receive, or has received and is now in state s.
Links == {<<"disconnected", "DISCONNECT", "disconnected">>,
          <<"connection_in_progress", "CONNECT", "connection_in_progress">>,
          <<"connection_in_progress", "CONNECT", "connected">>,
          <<"connected", "UNSELECT_VIEW", "connected">>,
          <<"view_selection_in_progress", "SELECT_VIEW",
            "view_selection_in_progress">>,
          <<"view_selection_in_progress", "SELECT_VIEW", "view_selected">>,
          <<"view_selected", "MODIFY_VARIABLES", "view_selected">>}

EndsLinked ==
  LET q == wire["server"] IN
  Live => \E l \in Links :
            /\ l[1] = fsm["client"]
            /\ IF q = <<>> THEN l[3] = fsm["server"]
                           ELSE l[2] = q[Len(q)].type

\* Nothing has happened on the connection of a fresh client; one that has
\* said DISCONNECT only flushes and closes.
ClientEnds ==
  /\ Live /\ Fresh("client") =>
       /\ wire["client"] = <<>> /\ wire["server"] = <<>>
       /\ fsm["server"] = "disconnected"
  /\ Live /\ fsm["client"] = "disconnected" /\ ~Fresh("client") =>
       phase["client"] = "flush" /\ closing
  /\ Live /\ closing => phase["client"] # "idle"

\* What is on the wire to a connected client, and where both sides then are.
ClientChain ==
  LET q == wire["client"] IN
  Live /\ fsm["client"] # "disconnected" =>
    \A i \in 1..Len(q) :
      /\ q[i].type \in FromServer
      /\ q[i].type = "PROJECT_URL" =>
           /\ Len(q) = 1 /\ wire["server"] = <<>>
           /\ fsm["client"] = "connection_in_progress"
           /\ fsm["server"] = "connected"
      /\ q[i].type = "AVAILABLE_VARIABLES" =>
           /\ wire["server"] = <<>>
           /\ fsm["client"] = "view_selection_in_progress"
           /\ fsm["server"] = "view_selected"
           /\ \A j \in 1..Len(q) : j # i => q[j].type = "VARIABLE_VALUES"
      /\ q[i].type = "VARIABLE_VALUES" =>
           fsm["client"] # "connection_in_progress"

\* The inductive invariant behind ServerUnderstands and ClientUnderstands: it
\* describes the wires of lt_cp_session_process, message by message.
Understanding ==
  /\ TypeOK
  /\ StateMirrorsFsm /\ QueuesInOrder
  /\ ServerChain /\ EndsLinked /\ ClientEnds /\ ClientChain
  /\ ServerUnderstands /\ ClientUnderstands

-----------------------------------------------------------------------------
(* Why every question is answered: what is added to Understanding.         *)

\* A message of type t is in q.
Holds(q, t) == \E i \in 1..Len(q) : q[i].type = t

\* Once the server has answered, the answer is on the wire until the client
\* takes it.
AnswersComing ==
  Live /\ phase["server"] # "closed" /\ wire["server"] = <<>> =>
    /\ fsm["client"] = "connection_in_progress" /\ fsm["server"] = "connected"
         => Holds(wire["client"], "PROJECT_URL")
    /\ fsm["client"] = "view_selection_in_progress"
         /\ fsm["server"] = "view_selected"
         => Holds(wire["client"], "AVAILABLE_VARIABLES")

\* An answer is queued alone, and the server's diagram lets it go unless the
\* client has said DISCONNECT in the meantime.
AnswersQueued ==
  /\ \A i \in 1..Len(sendq["server"]) :
       LET t == sendq["server"][i].type
           Goes(f) == fsm["server"] = f \/ state["server"] = "DISCONNECTED"
       IN /\ t = "PROJECT_URL" => i = 1 /\ Goes("connection_in_progress")
          /\ t = "AVAILABLE_VARIABLES" =>
               i = 1 /\ Goes("view_selection_in_progress")
  /\ phase["server"] = "snapshot" =>
       fsm["server"] = "view_selection_in_progress" /\ sendq["server"] = <<>>

\* DISCONNECT leaves the client's buffer only with the client: the server that
\* receives it is alone.
Goodbye ==
  /\ Holds(wire["server"], "DISCONNECT") => state["client"] = "DISCONNECTED"
  /\ Live /\ fsm["client"] = "disconnected" /\ ~Fresh("client")
       => held["client"] > 0
  /\ state["server"] = "DISCONNECTED" =>
       ~Live /\ state["client"] = "DISCONNECTED" /\ wire["server"] = <<>>

\* Before the client has said CONNECT the server's session is fresh too; so is
\* that of a server that does not serve yet, and it has nothing to send.
FreshTogether ==
  /\ Live /\ Fresh("client") => Fresh("server")
  /\ phase["server"] \in {"absent", "register"} =>
       Fresh("server") /\ sendq["server"] = <<>>

Answering ==
  /\ AnswersComing /\ AnswersQueued /\ Goodbye /\ FreshTogether
  /\ ServerFailsOnlyAfterDisconnect

-----------------------------------------------------------------------------
(* Why a user interface that waits never sees a protocol error.            *)

\* What may be at the head of the client's queue in state f of its diagram.
TidyHeads ==
  {<<"disconnected", "CONNECT">>, <<"connected", "SELECT_VIEW">>,
   <<"connected", "DISCONNECT">>,
   <<"view_selection_in_progress", "DISCONNECT">>,
   <<"view_selected", "DISCONNECT">>, <<"view_selected", "UNSELECT_VIEW">>,
   <<"view_selected", "MODIFY_VARIABLES">>}

\* One message is queued, or the view is left for another one or for good;
\* no requests come behind what was queued by a command.
TidyQueue ==
  LET q == sendq["client"] IN
  Live /\ ~hasty =>
    /\ Len(q) <= 2
    /\ Len(q) > 0 => <<fsm["client"], q[1].type>> \in TidyHeads
    /\ Len(q) = 2 => /\ q[1].type = "UNSELECT_VIEW"
                     /\ q[2].type \in {"SELECT_VIEW", "DISCONNECT"}
    /\ Len(q) > 0 /\ phase["client"] \in {"decode", "dirty"} =>
         cdirty = {} \/ Fresh("client")

\* The user interface acts on an empty queue, or on one that has only CONNECT;
\* views are selected once the project is there.
CommandsReady ==
  /\ phase["client"] = "idle" => sendq["client"] = <<>> \/ Fresh("client")
  /\ Live /\ ready =>
       ~Fresh("client") /\ fsm["client"] # "connection_in_progress"

Tidy == TidyQueue /\ CommandsReady /\ TidyNeverFails

-----------------------------------------------------------------------------
(* Why no value is lost: what is on its way, in order.                     *)

ToClient == wire["client"] \o sendq["server"]
ToServer == wire["server"] \o sendq["client"]

\* Of what q carries of v, the last is x; x is old if q carries nothing.
EndsIn(q, v, old, x) ==
  \/ \E i \in 1..Len(q) :
       /\ q[i].vals[v] = x /\ x # NoVal
       /\ \A j \in (i + 1)..Len(q) : q[j].vals[v] = NoVal
  \/ old = x /\ \A i \in 1..Len(q) : q[i].vals[v] = NoVal

\* What q carries of v never falls, and lies between lo and hi.
Climbs(q, v, lo, hi) ==
  \A i \in 1..Len(q) : q[i].vals[v] # NoVal =>
    /\ lo <= q[i].vals[v] /\ q[i].vals[v] <= hi
    /\ \A j \in i..Len(q) : q[j].vals[v] # NoVal =>
         q[i].vals[v] <= q[j].vals[v]

\* Only MODIFY_VARIABLES carries values, and an answer to SELECT_VIEW tells of
\* every variable.
OnlyRequests(q) ==
  \A i \in 1..Len(q) : \A v \in Vars :
    q[i].vals[v] # NoVal => q[i].type = "MODIFY_VARIABLES"

WholeAnswers(q) ==
  \A i \in 1..Len(q) : q[i].type = "AVAILABLE_VARIABLES" =>
    \A v \in Vars : q[i].vals[v] # NoVal

Open == \A s \in Side : phase[s] # "closed"

\* What the user has asked for is dirty, on its way, or there.
RequestsOnTheWay ==
  /\ OnlyRequests(ToServer)
  /\ Open => \A v \in Vars \ cdirty :
       creq[v] # 0 => EndsIn(ToServer, v, preq[v], creq[v])

\* The client shows a view, or is about to be told what it shows.
Showing ==
  \/ fsm["client"] = "view_selected"
  \/ /\ fsm["client"] = "view_selection_in_progress"
     /\ Holds(ToClient, "AVAILABLE_VARIABLES")

\* Such a client is told of everything that is not dirty.
UpdatesOnTheWay ==
  /\ WholeAnswers(ToClient)
  /\ Open /\ Showing =>
       \A v \in Vars \ sdirty : EndsIn(ToClient, v, creal[v], sreal[v])
  /\ phase["server"] = "snapshot" =>
       \A v \in Vars \ walk :
         snap[v] # NoVal /\ (v \notin sdirty => snap[v] = sreal[v])

\* From the client over the wire, the queue and the walk to the plugin, values
\* only get newer.
Ascending ==
  \A v \in Vars :
    /\ creal[v] <= sreal[v] /\ sreal[v] <= preal[v]
    /\ Climbs(ToClient, v, creal[v], sreal[v])
    /\ phase["server"] = "snapshot" /\ v \notin walk =>
         /\ creal[v] <= snap[v] /\ snap[v] <= sreal[v]
         /\ Climbs(ToClient, v, creal[v], snap[v])

Delivering == RequestsOnTheWay /\ UpdatesOnTheWay /\ Ascending

-----------------------------------------------------------------------------
(* Liveness.  Both loops keep running, TCP delivers, and the runtime       *)
(* processes its events after a request (customEvent).                     *)

Fairness ==
  /\ WF_vars(ServerProcess) /\ WF_vars(ClientProcess)
  /\ WF_vars(Accept) /\ WF_vars(RegisterLink)
  /\ WF_vars(\E v \in Vars : RegisterCopy(v))
  /\ \A s \in Side :
       /\ SF_vars(\E n \in 1..Len(wire[s]) : Recv(s, n))
       /\ SF_vars(LostConnection(s))

FairSpec == Spec /\ Fairness

\* A connection attempt is answered, or the connection ends.
Handshake == phase["client"] = "idle" ~> IsAlive(state["client"])
                                         \/ phase["client"] = "closed"

\* Every view selection is answered, or the connection ends.
SelectionAnswered ==
  state["client"] = "VIEW_SELECTION_IN_PROGRESS"
    ~> state["client"] # "VIEW_SELECTION_IN_PROGRESS"
       \/ phase["client"] = "closed"

\* A view that stays selected ends up showing the session's real values.
Shown ==
  \A v \in Vars :
    <>[](phase["client"] # "closed" /\ fsm["client"] = "view_selected")
      => <>[](phase["server"] = "closed" \/ creal[v] = sreal[v])
=============================================================================
