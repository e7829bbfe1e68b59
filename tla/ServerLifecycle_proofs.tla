----------------------- MODULE ServerLifecycle_proofs -----------------------
(***************************************************************************)
(* What holds of the server's threads for any number of clients: the       *)
(* locks, the hash that is walked while nobody changes it, and the order   *)
(* of the shutdown.                                                        *)
(***************************************************************************)
EXTENDS ServerLifecycle, TLAPS

\* The accepting thread serves a client only between accept and fork, and the
\* shutdown goes on only when it has ended.
AcceptorInOrder ==
  /\ acceptor \in {"absent", "check", "accept", "exited"} => serving = {}
  /\ main \notin {"start_http", "start_plugins", "start_server", "ready",
                "join_server"} =>
       acceptor = "exited"
  /\ main \in {"start_http", "start_plugins", "start_server"} => acceptor = "absent"

\* A thread that runs, or has run, has a handle or is about to get one, and
\* only such threads are registered.
Forks(c) == thread[c] \notin {"absent", "backlog", "accepted", "refused"}
HandlesInOrder ==
  /\ \A c \in Clients : Forks(c) => c \in handle \cup serving
  /\ \A c \in clients \cup tostop \cup joining : Forks(c)
  /\ \A c \in serving : acceptor # "forked" => thread[c] = "accepted"

\* The main thread stops the clients first, and then the plugin.
StopsInOrder ==
  /\ main \in {"start_http", "start_plugins"} => plugin = "absent"
  /\ main # "stop_clients" => joining = {} /\ tostop = {}
  /\ pluginstop =>
       main \in {"stop_plugins", "stop_http", "join_http", "done"}
  /\ plugin = "exited" => pluginstop

Lifecycle ==
  TypeOK /\ Locks /\ AcceptorInOrder /\ HandlesInOrder /\ StopsInOrder

USE NamesAssumption
USE DEF Lifecycle, TypeOK, Locks, MutexOwned, ReqLockOwned, AcceptorInOrder,
        HandlesInOrder, StopsInOrder, Forks
USE DEF Thread, Free, MainStates, AcceptorStates, ThreadStates, PluginStates,
        HttpStates, mainvars, acceptvars, clientvars, pluginvars, httpvars,
        NotHttp

-----------------------------------------------------------------------------
\* At the start nobody runs and nobody owns a lock.
LEMMA LifecycleInit == Init => Lifecycle
  BY DEF Init

\* A step of the main thread.
LEMMA MainKeeps ==
  ASSUME Lifecycle, MainThread \/ EndOfInput
  PROVE  Lifecycle'
<1>1. CASE PluginsStart
  BY <1>1 DEF PluginsStart
<1>2. CASE ServerStart
  BY <1>2 DEF ServerStart
<1>3. CASE EndOfInput
  BY <1>3 DEF EndOfInput
<1>4. CASE JoinServer
  BY <1>4 DEF JoinServer
<1>5. CASE LockClients
  BY <1>5 DEF LockClients
<1>6. CASE UnlockClients
  BY <1>6 DEF UnlockClients
<1>7. CASE StopPlugin
  BY <1>7 DEF StopPlugin
<1>8. CASE JoinPlugin
  BY <1>8 DEF JoinPlugin
<1>9. ASSUME NEW c \in Clients, StopClient(c) PROVE Lifecycle'
  BY <1>9 DEF StopClient
<1>10. ASSUME NEW c \in Clients, JoinClient(c) PROVE Lifecycle'
  BY <1>10 DEF JoinClient
<1>11. CASE HttpStart
  BY <1>11 DEF HttpStart
<1>12. CASE HttpStop
  BY <1>12 DEF HttpStop
<1>13. CASE HttpJoin
  BY <1>13 DEF HttpJoin
<1> QED
  BY <1>1, <1>2, <1>3, <1>4, <1>5, <1>6, <1>7,
     <1>8, <1>9, <1>10, <1>11, <1>12, <1>13
  DEF MainThread

\* A step of the accepting thread, or a connection that comes in.
LEMMA AcceptorKeeps ==
  ASSUME Lifecycle, AcceptorThread \/ \E c \in Clients : Arrive(c)
  PROVE  Lifecycle'
<1>1. CASE AcceptorCheck
  BY <1>1 DEF AcceptorCheck
<1>2. CASE AcceptNone
  BY <1>2 DEF AcceptNone
<1>3. CASE CreateLock
  BY <1>3 DEF CreateLock
<1>4. CASE CreateUnlock
  BY <1>4 DEF CreateUnlock
<1>5. CASE Forked
  BY <1>5 DEF Forked
<1>6. ASSUME NEW c \in Clients, Arrive(c) PROVE Lifecycle'
  BY <1>6 DEF Arrive
<1>7. ASSUME NEW c \in Clients, Accept(c) PROVE Lifecycle'
  BY <1>7 DEF Accept
<1>8. ASSUME NEW c \in Clients, Fork(c) PROVE Lifecycle'
  BY <1>8 DEF Fork
<1>9. ASSUME NEW c \in Clients, ForkFails(c) PROVE Lifecycle'
  BY <1>9 DEF ForkFails
<1> QED
  BY <1>1, <1>2, <1>3, <1>4, <1>5, <1>6, <1>7,
     <1>8, <1>9
  DEF AcceptorThread

\* A step of a client's thread.
LEMMA ClientKeeps ==
  ASSUME Lifecycle, NEW c \in Clients, ClientThread(c)
  PROVE  Lifecycle'
<1>1. CASE RegisterLock(c)
  BY <1>1 DEF RegisterLock
<1>2. CASE RegisterUnlock(c)
  BY <1>2 DEF RegisterUnlock
<1>3. CASE ClientStops(c)
  BY <1>3 DEF ClientStops, ThreadMoves
<1>4. CASE ClientFails(c)
  BY <1>4 DEF ClientFails, ThreadMoves
<1>5. CASE ClientRequests(c)
  BY <1>5 DEF ClientRequests, ThreadMoves
<1>6. CASE ClientProceeds(c)
  BY <1>6 DEF ClientProceeds, ThreadMoves
<1>7. CASE ModifyLock(c)
  BY <1>7 DEF ModifyLock
<1>8. CASE ModifyUnlock(c)
  BY <1>8 DEF ModifyUnlock
<1>9. CASE Sent(c)
  BY <1>9 DEF Sent, ThreadMoves
<1>10. CASE SendFails(c)
  BY <1>10 DEF SendFails, ThreadMoves
<1>11. CASE SendStalls(c)
  BY <1>11 DEF SendStalls, ThreadMoves
<1>12. CASE Unregister(c)
  BY <1>12 DEF Unregister
<1>13. CASE UnregisterUnlock(c)
  BY <1>13 DEF UnregisterUnlock
<1> QED
  BY <1>1, <1>2, <1>3, <1>4, <1>5, <1>6, <1>7,
     <1>8, <1>9, <1>10, <1>11, <1>12, <1>13
  DEF ClientThread

\* A step of the plugin's thread.
LEMMA PluginKeeps ==
  ASSUME Lifecycle, PluginThread
  PROVE  Lifecycle'
<1>1. CASE PluginTop
  BY <1>1 DEF PluginTop, PluginMoves
<1>2. CASE PluginLock
  BY <1>2 DEF PluginLock, PluginMoves
<1>3. CASE PluginFindsDirty
  BY <1>3 DEF PluginFindsDirty, PluginMoves
<1>4. CASE PluginWaits
  BY <1>4 DEF PluginWaits, PluginMoves
<1>5. CASE PluginWakes
  BY <1>5 DEF PluginWakes, PluginMoves
<1>6. CASE PluginSignalled
  BY <1>6 DEF PluginSignalled, PluginMoves
<1>7. CASE PluginTimesOut
  BY <1>7 DEF PluginTimesOut, PluginMoves
<1>8. CASE PluginSleeps
  BY <1>8 DEF PluginSleeps, PluginMoves
<1>9. CASE PluginApplies
  BY <1>9 DEF PluginApplies, PluginMoves
<1>10. CASE PluginPushes
  BY <1>10 DEF PluginPushes, PluginMoves
<1> QED
  BY <1>1, <1>2, <1>3, <1>4, <1>5, <1>6, <1>7,
     <1>8, <1>9, <1>10
  DEF PluginThread

\* A step of the HTTP server's thread.
LEMMA HttpKeeps ==
  ASSUME Lifecycle, HttpThread \/ HttpResumes
  PROVE  Lifecycle'
<1>1. \A from, to : HttpMoves(from, to) /\ to \in HttpStates => Lifecycle'
  BY DEF HttpMoves
<1> QED
  BY <1>1 DEF HttpThread, HttpResumes, HttpCheck, HttpAcceptNone, HttpAccept,
     HttpSent, HttpSendFails, HttpDrained, HttpStalls

-----------------------------------------------------------------------------
\* The invariant is inductive, and holds in every state.
LEMMA LifecycleStep == Lifecycle /\ [Next]_vars => Lifecycle'
<1> SUFFICES ASSUME Lifecycle, [Next]_vars PROVE Lifecycle'
  OBVIOUS
<1> HIDE DEF Lifecycle
<1>1. CASE Next
  BY <1>1, MainKeeps, AcceptorKeeps, ClientKeeps, PluginKeeps, HttpKeeps
  DEF Next, Exit, vars, Lifecycle
<1>2. CASE UNCHANGED vars
  BY <1>2 DEF vars, Lifecycle
<1> QED BY <1>1, <1>2

\* The inductive invariant of the server's threads: which thread owns which
\* lock, which threads have handles, and how far the shutdown has got.
THEOREM LifecycleHolds == Spec => []Lifecycle
<1> HIDE DEF Lifecycle
<1>1. Init => Lifecycle
  BY LifecycleInit
<1>2. Lifecycle /\ [Next]_vars => Lifecycle'
  BY LifecycleStep
<1> QED BY <1>1, <1>2, PTL DEF Spec

\* Every lock has the owner its critical sections say (server->mutex and the
\* lock on the requested values of the plugin's varset).
THEOREM LocksOwned == Spec => []Locks
<1>1. Lifecycle => Locks
  OBVIOUS
<1> HIDE DEF Lifecycle, Locks
<1> QED BY <1>1, LifecycleHolds, PTL

\* lt_server_client_stop joins only threads whose handle the accepting thread
\* has stored: it has ended before the first of them is told to stop.
THEOREM JoinsOnlyKnown == Spec => []JoinsKnownThreads
<1>1. Lifecycle => JoinsKnownThreads
  BY DEF JoinsKnownThreads
<1> HIDE DEF Lifecycle
<1> QED BY <1>1, LifecycleHolds, PTL

\* The plugin is there as long as the shutdown waits for clients, which may
\* need the lock it would leave behind.
THEOREM PluginLeavesLast == Spec => []PluginOutlivesJoined
<1>1. Lifecycle => PluginOutlivesJoined
  BY DEF PluginOutlivesJoined
<1> HIDE DEF Lifecycle
<1> QED BY <1>1, LifecycleHolds, PTL

\* No step changes the hash of clients while the main thread walks it: only
\* the owner of the mutex adds or removes an entry.
THEOREM WalkUndisturbed == Spec => HashUnchangedInWalk
<1>1. Lifecycle /\ [Next]_vars =>
        [main = "stop_clients" => clients' = clients]_vars
  <2> SUFFICES ASSUME Lifecycle, Next, main = "stop_clients"
               PROVE  clients' = clients
    OBVIOUS
  <2>1. mutex = "main" /\ mutex # Free
    OBVIOUS
  <2>2. CASE \E c \in Clients : ClientThread(c)
    BY <2>1, <2>2 DEF ClientThread, RegisterLock, RegisterUnlock,
       ClientStops, ClientFails, ClientRequests, ClientProceeds, ModifyLock,
       ModifyUnlock, Sent, SendFails, SendStalls, ThreadMoves, Unregister,
       UnregisterUnlock
  <2>3. CASE ~ \E c \in Clients : ClientThread(c)
    BY <2>3 DEF Next, MainThread, PluginsStart, ServerStart, JoinServer,
       LockClients, UnlockClients, StopPlugin, JoinPlugin, StopClient,
       JoinClient, EndOfInput, AcceptorThread, AcceptorCheck, AcceptNone,
       CreateLock, CreateUnlock, Forked, Accept, Fork, ForkFails, Arrive,
       PluginThread, PluginTop, PluginLock, PluginFindsDirty, PluginWaits,
       PluginWakes, PluginSignalled, PluginTimesOut, PluginSleeps,
       PluginApplies, PluginPushes, PluginMoves, HttpStart, HttpStop,
       HttpJoin, HttpThread, HttpResumes, HttpMoves, HttpCheck,
       HttpAcceptNone, HttpAccept, HttpSent, HttpSendFails, HttpDrained,
       HttpStalls, Exit, vars
  <2> QED BY <2>2, <2>3
<1> HIDE DEF Lifecycle
<1> QED BY <1>1, LifecycleHolds, PTL DEF Spec, HashUnchangedInWalk
=============================================================================
