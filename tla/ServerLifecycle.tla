-------------------------- MODULE ServerLifecycle --------------------------
(***************************************************************************)
(* The threads of lintouch-server from start to shutdown (server.c,        *)
(* client.c, plugin.c, main.c, and http.c of libltcp): the main thread,    *)
(* the thread that accepts connections, one thread per client, the thread  *)
(* of one plugin, the loopback plugin of lsp-basic, and the thread of the  *)
(* HTTP server, which serves the project's file to one peer at a time.     *)
(*                                                                         *)
(* They meet at two locks: server->mutex, which guards the hash of clients *)
(* and is held while threads are joined, and the lock on the requested     *)
(* values of the plugin's varset, which every client thread needs when it  *)
(* receives MODIFY_VARIABLES and the accepting thread for each new client. *)
(***************************************************************************)
CONSTANT
  Clients     \* the connections that may come in, each of them once

VARIABLES
  main,       \* where the main thread stands
  joining,    \* the clients it has told to stop and is waiting for
  tostop,     \* the clients its iteration over the hash has yet to visit
  stoprequested,        \* server->stoprequested
  acceptor,   \* where the accepting thread stands
  serving,    \* the client it is setting up
  mutex,      \* the owner of server->mutex
  clients,    \* server->clients
  thread,     \* where each client's thread stands
  handle,     \* the clients whose client->thread has been stored
  clientstop, \* the clients with client->stoprequested set
  plugin,     \* where the plugin's thread stands
  pluginstop, \* plugin->stoprequested
  reqlock,    \* the owner of the lock on the plugin's requested values
  http,       \* where the thread of the HTTP server stands
  httpstop    \* stoprequested of the HTTP server

mainvars   == <<main, joining, tostop, stoprequested>>
acceptvars == <<acceptor, serving>>
clientvars == <<thread, handle, clientstop>>
pluginvars == <<plugin, pluginstop>>
httpvars   == <<http, httpstop>>
vars == <<mainvars, acceptvars, mutex, clients, clientvars, pluginvars,
          reqlock, httpvars>>

Thread == {"main", "acceptor", "plugin"} \cup Clients
Free   == "free"

ASSUME NamesAssumption ==
  Clients \cap {"main", "acceptor", "plugin", Free} = {}

MainStates == {"start_http", "start_plugins", "start_server", "ready",
               "join_server", "lock_clients", "stop_clients",
               "lock_plugins", "stop_plugins", "stop_http", "join_http",
               "done"}
AcceptorStates == {"absent", "check", "accept", "register", "registering",
                   "fork", "forked", "exited"}
ThreadStates == {"absent", "backlog", "accepted", "refused", "started",
                 "registering", "loop", "modify", "modifying", "send",
                 "stalled", "closing", "unregistering", "exited"}
PluginStates == {"absent", "top", "lock", "wait", "waiting", "woken",
                 "latency", "apply", "push", "exited"}
HttpStates == {"absent", "check", "accept", "send", "drain", "stalled",
               "exited"}

TypeOK ==
  /\ main \in MainStates /\ acceptor \in AcceptorStates
  /\ joining \subseteq Clients /\ tostop \subseteq Clients
  /\ serving \subseteq Clients
  /\ stoprequested \in BOOLEAN /\ pluginstop \in BOOLEAN
  /\ mutex \in Thread \cup {Free} /\ reqlock \in Thread \cup {Free}
  /\ clients \subseteq Clients /\ handle \subseteq Clients
  /\ clientstop \subseteq Clients
  /\ thread \in [Clients -> ThreadStates]
  /\ plugin \in PluginStates
  /\ http \in HttpStates /\ httpstop \in BOOLEAN
  /\ \A c, d \in joining : c = d

Init ==
  /\ main = "start_http" /\ acceptor = "absent" /\ plugin = "absent"
  /\ http = "absent" /\ httpstop = FALSE
  /\ joining = {} /\ tostop = {} /\ serving = {}
  /\ stoprequested = FALSE /\ pluginstop = FALSE
  /\ mutex = Free /\ reqlock = Free
  /\ clients = {} /\ handle = {} /\ clientstop = {}
  /\ thread = [c \in Clients |-> "absent"]

-----------------------------------------------------------------------------
(* The main thread: the HTTP server's start, lt_server_start, the wait for *)
(* the end of stdin, lt_server_stop and the HTTP server's stop.            *)

NotHttp == UNCHANGED <<joining, tostop, stoprequested, acceptvars, mutex,
                       clients, clientvars, pluginvars, reqlock>>

\* The HTTP server gets a thread of its own, unless the server is run in
\* local mode.
HttpStart ==
  /\ main = "start_http" /\ main' = "start_plugins"
  /\ \/ http' = "check" \/ http' = "absent"
  /\ NotHttp /\ UNCHANGED httpstop

PluginsStart ==
  /\ main = "start_plugins"
  /\ plugin' = "top" /\ main' = "start_server"
  /\ UNCHANGED <<joining, tostop, stoprequested, acceptvars, mutex,
                 clients, clientvars, pluginstop, reqlock, httpvars>>

ServerStart ==
  /\ main = "start_server"
  /\ acceptor' = "check" /\ main' = "ready"
  /\ UNCHANGED <<joining, tostop, stoprequested, serving, mutex, clients,
                 clientvars, pluginvars, reqlock, httpvars>>

\* stdin is closed: the shutdown sequence begins.
EndOfInput ==
  /\ main = "ready"
  /\ stoprequested' = TRUE /\ main' = "join_server"
  /\ UNCHANGED <<joining, tostop, acceptvars, mutex, clients, clientvars,
                 pluginvars, reqlock, httpvars>>

\* Mutant of JoinServer: the accepting thread is not waited for.
JoinServerNot ==
  /\ main = "join_server"
  /\ main' = "lock_clients"
  /\ UNCHANGED <<joining, tostop, stoprequested, acceptvars, mutex,
                 clients, clientvars, pluginvars, reqlock, httpvars>>

\* Mutant of JoinServer: the plugins are stopped before the clients.
JoinServerPluginsFirst ==
  /\ main = "join_server" /\ acceptor = "exited"
  /\ main' = IF pluginstop THEN "lock_clients" ELSE main
  /\ pluginstop' = TRUE
  /\ UNCHANGED <<joining, tostop, stoprequested, acceptvars, mutex,
                 clients, clientvars, plugin, reqlock, httpvars>>

JoinServer ==
  /\ main = "join_server" /\ acceptor = "exited"
  /\ main' = "lock_clients"
  /\ UNCHANGED <<joining, tostop, stoprequested, acceptvars, mutex,
                 clients, clientvars, pluginvars, reqlock, httpvars>>

\* _lt_server_clients_stop takes the mutex and walks the hash ...
LockClients ==
  /\ main = "lock_clients" /\ mutex = Free
  /\ mutex' = "main" /\ tostop' = clients /\ main' = "stop_clients"
  /\ UNCHANGED <<joining, stoprequested, acceptvars, clients, clientvars,
                 pluginvars, reqlock, httpvars>>

\* ... calls lt_server_client_stop, which sets the flag ...
StopClient(c) ==
  /\ main = "stop_clients" /\ joining = {} /\ c \in tostop
  /\ clientstop' = clientstop \cup {c}
  /\ joining' = {c} /\ tostop' = tostop \ {c}
  /\ UNCHANGED <<main, stoprequested, acceptvars, mutex, clients, thread,
                 handle, pluginvars, reqlock, httpvars>>

\* ... and waits for the thread, the mutex still held ...
JoinClient(c) ==
  /\ main = "stop_clients" /\ c \in joining /\ thread[c] = "exited"
  /\ joining' = {}
  /\ UNCHANGED <<main, tostop, stoprequested, acceptvars, mutex, clients,
                 clientvars, pluginvars, reqlock, httpvars>>

\* ... and unlocks.
UnlockClients ==
  /\ main = "stop_clients" /\ joining = {} /\ tostop = {}
  /\ mutex' = Free /\ main' = "lock_plugins"
  /\ UNCHANGED <<joining, tostop, stoprequested, acceptvars, clients,
                 clientvars, pluginvars, reqlock, httpvars>>

\* _lt_server_plugins_stop, with one plugin.
StopPlugin ==
  /\ main = "lock_plugins" /\ mutex = Free
  /\ mutex' = "main" /\ pluginstop' = TRUE /\ main' = "stop_plugins"
  /\ UNCHANGED <<joining, tostop, stoprequested, acceptvars, clients,
                 clientvars, plugin, reqlock, httpvars>>

JoinPlugin ==
  /\ main = "stop_plugins" /\ plugin = "exited"
  /\ mutex' = Free /\ main' = "stop_http"
  /\ UNCHANGED <<joining, tostop, stoprequested, acceptvars, clients,
                 clientvars, pluginvars, reqlock, httpvars>>

\* lt_http_server_stop sets the flag and waits for the thread.
HttpStop ==
  /\ main = "stop_http"
  /\ main' = IF http = "absent" THEN "done" ELSE "join_http"
  /\ httpstop' = (http # "absent")
  /\ NotHttp /\ UNCHANGED http

HttpJoin ==
  /\ main = "join_http" /\ http = "exited"
  /\ main' = "done"
  /\ NotHttp /\ UNCHANGED httpvars

MainThread ==
  \/ HttpStart \/ HttpStop \/ HttpJoin
  \/ PluginsStart \/ ServerStart \/ JoinServer \/ LockClients
  \/ UnlockClients \/ StopPlugin \/ JoinPlugin
  \/ \E c \in Clients : StopClient(c) \/ JoinClient(c)

-----------------------------------------------------------------------------
(* The accepting thread: _lt_server_run.                                   *)

\* A connection is waiting to be accepted.
Arrive(c) ==
  /\ thread[c] = "absent"
  /\ thread' = [thread EXCEPT ![c] = "backlog"]
  /\ UNCHANGED <<mainvars, acceptvars, mutex, clients, handle, clientstop,
                 pluginvars, reqlock, httpvars>>

AcceptorCheck ==
  /\ acceptor = "check"
  /\ acceptor' = IF stoprequested THEN "exited" ELSE "accept"
  /\ UNCHANGED <<mainvars, serving, mutex, clients, clientvars, pluginvars,
                 reqlock, httpvars>>

\* Nobody is waiting, or accept or the look-up of an address fails.
AcceptNone ==
  /\ acceptor = "accept"
  /\ acceptor' = "check"
  /\ \/ /\ \A c \in Clients : thread[c] # "backlog"
        /\ UNCHANGED thread
     \/ \E c \in Clients :
          thread[c] = "backlog" /\ thread' = [thread EXCEPT ![c] = "refused"]
  /\ UNCHANGED <<mainvars, serving, mutex, clients, handle, clientstop,
                 pluginvars, reqlock, httpvars>>

Accept(c) ==
  /\ acceptor = "accept" /\ thread[c] = "backlog"
  /\ thread' = [thread EXCEPT ![c] = "accepted"]
  /\ serving' = {c} /\ acceptor' = "register"
  /\ UNCHANGED <<mainvars, mutex, clients, handle, clientstop, pluginvars,
                 reqlock, httpvars>>

\* lt_server_client_create registers the plugin's variables with the new
\* session: the varsets are linked under the lock on the requested values.
CreateLock ==
  /\ acceptor = "register" /\ reqlock = Free
  /\ reqlock' = "acceptor" /\ acceptor' = "registering"
  /\ UNCHANGED <<mainvars, serving, mutex, clients, clientvars, pluginvars,
                 httpvars>>

CreateUnlock ==
  /\ acceptor = "registering"
  /\ reqlock' = Free /\ acceptor' = "fork"
  /\ UNCHANGED <<mainvars, serving, mutex, clients, clientvars, pluginvars,
                 httpvars>>

\* lt_server_client_start: the thread runs before its handle is known to the
\* thread that made it.
Fork(c) ==
  /\ acceptor = "fork" /\ c \in serving
  /\ thread' = [thread EXCEPT ![c] = "started"]
  /\ acceptor' = "forked"
  /\ UNCHANGED <<mainvars, serving, mutex, clients, handle, clientstop,
                 pluginvars, reqlock, httpvars>>

ForkFails(c) ==
  /\ acceptor = "fork" /\ c \in serving
  /\ thread' = [thread EXCEPT ![c] = "refused"]
  /\ serving' = {} /\ acceptor' = "check"
  /\ UNCHANGED <<mainvars, mutex, clients, handle, clientstop, pluginvars,
                 reqlock, httpvars>>

Forked ==
  /\ acceptor = "forked"
  /\ handle' = handle \cup serving
  /\ serving' = {} /\ acceptor' = "check"
  /\ UNCHANGED <<mainvars, mutex, clients, thread, clientstop, pluginvars,
                 reqlock, httpvars>>

AcceptorThread ==
  \/ AcceptorCheck \/ AcceptNone \/ CreateLock \/ CreateUnlock \/ Forked
  \/ \E c \in Clients : Accept(c) \/ Fork(c) \/ ForkFails(c)

-----------------------------------------------------------------------------
(* A client's thread: _lt_server_client_run.                               *)

\* lt_server_client_register waits for the mutex.
RegisterLock(c) ==
  /\ thread[c] = "started" /\ mutex = Free
  /\ mutex' = c /\ clients' = clients \cup {c}
  /\ thread' = [thread EXCEPT ![c] = "registering"]
  /\ UNCHANGED <<mainvars, acceptvars, handle, clientstop, pluginvars,
                 reqlock, httpvars>>

RegisterUnlock(c) ==
  /\ thread[c] = "registering"
  /\ mutex' = Free
  /\ thread' = [thread EXCEPT ![c] = "loop"]
  /\ UNCHANGED <<mainvars, acceptvars, clients, handle, clientstop,
                 pluginvars, reqlock, httpvars>>

ThreadMoves(c, from, to) ==
  /\ thread[c] = from
  /\ thread' = [thread EXCEPT ![c] = to]
  /\ UNCHANGED <<mainvars, acceptvars, mutex, clients, handle, clientstop,
                 pluginvars, reqlock, httpvars>>

\* The head of the loop, the receive with its timeout of 10 ms and
\* lt_cp_session_process: told to stop; the peer is gone, broke the protocol
\* or never finished the handshake; a request has come; anything else.
ClientStops(c)    == c \in clientstop /\ ThreadMoves(c, "loop", "closing")
ClientFails(c)    == c \notin clientstop /\ ThreadMoves(c, "loop", "closing")
ClientRequests(c) == c \notin clientstop /\ ThreadMoves(c, "loop", "modify")
ClientProceeds(c) == c \notin clientstop /\ ThreadMoves(c, "loop", "send")

\* The hook of MODIFY_VARIABLES takes the lock of the plugin's varset.
ModifyLock(c) ==
  /\ thread[c] = "modify" /\ reqlock = Free
  /\ reqlock' = c
  /\ thread' = [thread EXCEPT ![c] = "modifying"]
  /\ UNCHANGED <<mainvars, acceptvars, mutex, clients, handle, clientstop,
                 pluginvars, httpvars>>

ModifyUnlock(c) ==
  /\ thread[c] = "modifying"
  /\ reqlock' = Free
  /\ thread' = [thread EXCEPT ![c] = "send"]
  /\ UNCHANGED <<mainvars, acceptvars, mutex, clients, handle, clientstop,
                 pluginvars, httpvars>>

\* The data is sent, or an error ends the loop.  A peer that does not read
\* makes apr_socket_send time out, and the loop around it never ends (see
\* SendLoop).
Sent(c)       == ThreadMoves(c, "send", "loop")
SendFails(c)  == ThreadMoves(c, "send", "closing")
SendStalls(c) == ThreadMoves(c, "send", "stalled")

\* Mutant of Unregister: the client insists on the mutex.
UnregisterBlocking(c) ==
  /\ thread[c] = "closing" /\ mutex = Free
  /\ mutex' = c /\ clients' = clients \ {c}
  /\ thread' = [thread EXCEPT ![c] = "unregistering"]
  /\ UNCHANGED <<mainvars, acceptvars, handle, clientstop, pluginvars,
                 reqlock, httpvars>>

\* Mutant of Unregister: no lock at all.
UnregisterUnlocked(c) ==
  /\ thread[c] = "closing"
  /\ clients' = clients \ {c} /\ UNCHANGED mutex
  /\ thread' = [thread EXCEPT ![c] = "exited"]
  /\ UNCHANGED <<mainvars, acceptvars, handle, clientstop, pluginvars,
                 reqlock, httpvars>>

\* lt_server_client_unregister only tries the mutex: the main thread holds it
\* while it waits for this very thread.
Unregister(c) ==
  /\ thread[c] = "closing"
  /\ \/ /\ mutex = Free
        /\ mutex' = c /\ clients' = clients \ {c}
        /\ thread' = [thread EXCEPT ![c] = "unregistering"]
     \/ /\ mutex # Free
        /\ thread' = [thread EXCEPT ![c] = "exited"]
        /\ UNCHANGED <<mutex, clients>>
  /\ UNCHANGED <<mainvars, acceptvars, handle, clientstop, pluginvars,
                 reqlock, httpvars>>

UnregisterUnlock(c) ==
  /\ thread[c] = "unregistering"
  /\ mutex' = Free
  /\ thread' = [thread EXCEPT ![c] = "exited"]
  /\ UNCHANGED <<mainvars, acceptvars, clients, handle, clientstop,
                 pluginvars, reqlock, httpvars>>

ClientThread(c) ==
  \/ RegisterLock(c) \/ RegisterUnlock(c)
  \/ ClientStops(c) \/ ClientFails(c) \/ ClientRequests(c)
  \/ ClientProceeds(c) \/ ModifyLock(c) \/ ModifyUnlock(c)
  \/ Sent(c) \/ SendFails(c) \/ SendStalls(c)
  \/ Unregister(c) \/ UnregisterUnlock(c)

-----------------------------------------------------------------------------
(* The plugin's thread: the run function of the loopback plugin.           *)

PluginMoves(from, to) ==
  /\ plugin = from /\ plugin' = to
  /\ UNCHANGED <<mainvars, acceptvars, mutex, clients, clientvars,
                 pluginstop, httpvars>>

PluginTop ==
  PluginMoves("top", IF pluginstop THEN "exited" ELSE "lock")
    /\ UNCHANGED reqlock

PluginLock ==
  PluginMoves("lock", "wait") /\ reqlock = Free /\ reqlock' = "plugin"

\* lt_var_set_wait_for_new_requested_values: something is dirty, or the lock
\* is given up for at most a second.
PluginFindsDirty == PluginMoves("wait", "latency") /\ UNCHANGED reqlock
PluginWaits      == PluginMoves("wait", "waiting") /\ reqlock' = Free
PluginWakes ==
  PluginMoves("waiting", "woken") /\ reqlock = Free /\ reqlock' = "plugin"

\* Signalled, or the wait has timed out: then the lock is given up once more
\* unless the plugin is told to stop.
PluginSignalled == PluginMoves("woken", "latency") /\ UNCHANGED reqlock
PluginTimesOut ==
  \/ pluginstop /\ PluginMoves("woken", "latency") /\ UNCHANGED reqlock
  \/ ~pluginstop /\ PluginMoves("woken", "lock") /\ reqlock' = Free

\* Mutant of PluginSleeps: the sleep never ends.
PluginSleepsForever ==
  PluginMoves("latency", "latency") /\ UNCHANGED reqlock

\* The latency is slept with the lock held, and a plugin told to stop leaves
\* without giving it back.
PluginSleeps ==
  PluginMoves("latency", IF pluginstop THEN "exited" ELSE "apply")
    /\ UNCHANGED reqlock

\* Requested values become real ones, the lock is given up, and the real
\* values are pushed to the sessions.
PluginApplies == PluginMoves("apply", "push") /\ reqlock' = Free
PluginPushes  == PluginMoves("push", "top") /\ UNCHANGED reqlock

PluginThread ==
  \/ PluginTop \/ PluginLock \/ PluginFindsDirty \/ PluginWaits
  \/ PluginWakes \/ PluginSignalled \/ PluginTimesOut \/ PluginSleeps
  \/ PluginApplies \/ PluginPushes

-----------------------------------------------------------------------------
(* The HTTP server's thread: lt_http_server_run.  It serves one peer after *)
(* the other.                                                              *)

HttpMoves(from, to) ==
  /\ http = from /\ http' = to
  /\ NotHttp /\ UNCHANGED <<main, httpstop>>

HttpCheck == HttpMoves("check", IF httpstop THEN "exited" ELSE "accept")

\* Nobody has connected, or accept or the look-up of an address fails.
HttpAcceptNone == HttpMoves("accept", "check")
HttpAccept     == HttpMoves("accept", "send")

\* The answer and the file are sent without waiting for the request, which is
\* then read and dropped until the peer has been silent for two seconds.
HttpSent      == HttpMoves("send", "drain")
HttpSendFails == HttpMoves("send", "check")
HttpDrained   == HttpMoves("drain", "check")

\* A peer that does not read stops apr_socket_sendfile, which has no timeout,
\* and one that keeps sending the loop that reads; whether it goes on is the
\* peer's affair.
HttpStalls  == \E s \in {"send", "drain"} : HttpMoves(s, "stalled")
HttpResumes == \E s \in {"drain", "check"} : HttpMoves("stalled", s)

HttpThread ==
  \/ HttpCheck \/ HttpAcceptNone \/ HttpAccept
  \/ HttpSent \/ HttpSendFails \/ HttpDrained \/ HttpStalls

-----------------------------------------------------------------------------

\* main returns, and the process ends.
Exit == main = "done" /\ UNCHANGED vars

Next ==
  \/ MainThread \/ EndOfInput \/ AcceptorThread \/ PluginThread \/ Exit
  \/ HttpThread \/ HttpResumes
  \/ \E c \in Clients : Arrive(c) \/ ClientThread(c)

\* Every thread is scheduled, and a thread that waits for a lock which is
\* free again and again gets it.  Nothing makes stdin end or clients come.
Fairness ==
  /\ SF_vars(MainThread) /\ SF_vars(AcceptorThread) /\ SF_vars(PluginThread)
  /\ SF_vars(HttpThread) /\ \A c \in Clients : SF_vars(ClientThread(c))

Spec     == Init /\ [][Next]_vars
FairSpec == Spec /\ Fairness

-----------------------------------------------------------------------------
(* Properties.                                                             *)

\* The owner of each lock is inside one of the sections that hold it, and a
\* thread inside such a section is the owner.
MutexOwned ==
  /\ mutex = "main" <=> main \in {"stop_clients", "stop_plugins"}
  /\ \A c \in Clients :
       mutex = c <=> thread[c] \in {"registering", "unregistering"}

ReqLockOwned ==
  /\ reqlock = "acceptor" <=> acceptor = "registering"
  /\ \A c \in Clients : reqlock = c <=> thread[c] = "modifying"
  /\ plugin \in {"wait", "woken", "latency", "apply"} => reqlock = "plugin"
  /\ reqlock = "plugin" =>
       plugin \in {"wait", "woken", "latency", "apply", "exited"}

Locks == MutexOwned /\ ReqLockOwned

\* lt_server_client_stop joins client->thread: the accepting thread has
\* stored it by then, whatever the client's thread was quick to register.
JoinsKnownThreads == joining \subseteq handle

\* No entry of the hash of clients comes or goes while the main thread walks
\* it: an apr_hash iterator does not survive that.
HashUnchangedInWalk ==
  [][main = "stop_clients" => clients' = clients]_vars

\* The plugin keeps its varset usable until every client that was registered
\* when the shutdown began to stop them is gone: it leaves with the lock on
\* its requested values held, and a client thread would wait for ever.
PluginOutlivesJoined ==
  \A c \in joining \cup tostop : plugin # "exited"

\* lt_server_stop and lt_http_server_stop return, whoever comes, fails, asks,
\* downloads and leaves meanwhile; only a thread whose peer has stopped
\* reading, or a download that is stalled again and again, can keep them.
ShutdownTerminates ==
  <>[](http # "stalled") =>
    (stoprequested ~>
       (main = "done" \/ \E c \in Clients : thread[c] = "stalled"))

\* A client that asks for a new value gets through to the plugin's varset, or
\* the server is being shut down.
RequestsGetThrough ==
  \A c \in Clients :
    thread[c] = "modify" ~> (thread[c] # "modify" \/ stoprequested)

\* server.h on lt_server_client_register: "register given client connection
\* with the server, so that it can be stopped when the server dies prior to
\* client disconnect".
EveryClientStopped ==
  main = "done" =>
    \A c \in Clients :
      thread[c] \in {"absent", "backlog", "refused", "exited"}
=============================================================================
