------------------------------ MODULE Runtime ------------------------------
(***************************************************************************)
(* The main thread of lintouch-runtime: the window (MainWindow.cpp), the   *)
(* adaptor between the session and the socket                              *)
(* (CommunicationProtocolAdaptor.cpp), the builder of the project          *)
(* (ProjectAsyncBuilder.cpp) and, when the runtime starts a server of its  *)
(* own, the controller of that process (ServerController.cpp).             *)
(*                                                                         *)
(* Everything runs in one event loop.  An event starts a handler; what the *)
(* handler has still to call is kept in calls, and no other event is       *)
(* delivered before it is empty, except in "await", the nested event loop  *)
(* in which stopServer waits for the process to end.                       *)
(***************************************************************************)
EXTENDS CpFsm, Sequences, FiniteSets, SequencesExt

CONSTANTS
  Modes,      \* "host": a server elsewhere; "project": a server of its own
  Budget      \* how often the user, the network or a server interferes

ASSUME RuntimeAssumption ==
  Modes \subseteq {"host", "project"} /\ Budget \in Nat

VARIABLES
  mode,           \* which of the two this runtime was started for
  window,         \* "open" or "closed", which is the end of the program
  calls,          \* what the running handler has still to call
  retry,          \* MainWindow: d->retry
  reconnectTimer, \* armed to call startConnect
  restartTimer,   \* armed to call startServer
  shown,          \* whether the window has a project, with its views
  state,          \* the adaptor's d->state
  closing,        \* d->closing
  eventTimer,     \* armed to call processPendingEvents
  downloads,      \* scheduled calls of startProjectDownload
  url,            \* whether d->projectUrl is known
  project,        \* whether the adaptor has it too, as d->project
  source,         \* what the varsets of the window's project are attached
                  \* to: the session, one before that was "lost" or
                  \* "destroyed", or nothing
  session,        \* d->session
  fetching,       \* the builder's downloading
  socket,         \* the socket's state
  answer,         \* the message of the server that waits to be read, or ""
  process,        \* the server process: "off", "starting" or "up"
  stdin,          \* whether its standard input is still open
  shtimer,        \* armed to end it by force
  slots,          \* what the timeout of shtimer is connected to
  killed,         \* the process has been sent the signal to die
  unstarted,      \* the last attempt to start the process failed, which
                  \* nobody looks at
  astray,         \* what went wrong unnoticed since the last attempt: "failed"
                  \* when the connection was dropped for a project that could
                  \* not be had, "empty" when the project was there and could
                  \* not be built, "late" when a download of an earlier
                  \* connection was still to come, "old" when the session of
                  \* a connection that is gone was processed again, "early"
                  \* when the user picked a view of an earlier project
  budget          \* what is left of Budget

windowvars  == <<mode, window, retry, reconnectTimer, restartTimer, shown>>
adaptorvars == <<state, closing, eventTimer, url, project, source, session>>
buildvars   == <<downloads, fetching>>
netvars     == <<socket, answer>>
procvars    == <<process, stdin, shtimer, slots, killed, unstarted>>
vars == <<windowvars, calls, adaptorvars, buildvars, netvars, procvars,
          astray, budget>>

\* CommunicationProtocolAdaptor::State, in the order of the enumeration.
AdaptorStates == <<"Idle", "Connecting", "Connected", "DownloadingProject",
                   "ProjectDownloaded", "SelectingView", "ViewSelected">>
Before(s, t) ==
  \E i, j \in DOMAIN AdaptorStates :
    i < j /\ AdaptorStates[i] = s /\ AdaptorStates[j] = t

NoSession ==
  [there |-> FALSE, diagram |-> "disconnected", st |-> "DISCONNECTED",
   queue |-> <<>>]

Frames == {"process", "cleanup", "hardCleanup", "error", "select",
           "disconnect", "adaptorDisconnect", "stopServer", "stopProcess",
           "await", "restart", "reconnect", "close"}

TypeOK ==
  /\ mode \in Modes /\ window \in {"open", "closed"}
  /\ calls \in Seq(Frames)
  /\ retry \in BOOLEAN /\ reconnectTimer \in BOOLEAN
  /\ restartTimer \in BOOLEAN
  /\ shown \in BOOLEAN /\ project \in BOOLEAN
  /\ source \in {"none", "current", "lost", "destroyed"}
  /\ state \in {AdaptorStates[i] : i \in DOMAIN AdaptorStates}
  /\ closing \in BOOLEAN /\ eventTimer \in BOOLEAN /\ url \in BOOLEAN
  /\ downloads \in Nat /\ fetching \in BOOLEAN
  /\ session \in [there : BOOLEAN, diagram : FsmStates,
                  st : SessionStates, queue : Seq(MessageTypes)]
  /\ socket \in {"idle", "connecting", "open", "closing"}
  /\ answer \in MessageTypes \cup {""}
  /\ process \in {"off", "starting", "up"} /\ stdin \in BOOLEAN
  /\ shtimer \in BOOLEAN /\ slots \subseteq {"terminate", "kill"}
  /\ killed \in BOOLEAN /\ unstarted \in BOOLEAN
  /\ astray \subseteq {"failed", "empty", "late", "old", "early"}
  /\ budget \in 0 .. Budget

\* main has called setHostNPort or setProjectNPort with a host or a project,
\* and show has armed the timer of the first attempt.
Init ==
  /\ mode \in Modes /\ window = "open" /\ calls = <<>>
  /\ retry = TRUE
  /\ reconnectTimer = (mode = "host") /\ restartTimer = (mode = "project")
  /\ shown = FALSE /\ state = "Idle" /\ closing = FALSE /\ eventTimer = FALSE
  /\ downloads = 0 /\ url = FALSE /\ project = FALSE /\ source = "none"
  /\ session = NoSession /\ fetching = FALSE
  /\ socket = "idle" /\ answer = ""
  /\ process = "off" /\ stdin = FALSE /\ shtimer = FALSE /\ slots = {}
  /\ killed = FALSE /\ unstarted = FALSE
  /\ astray = {} /\ budget = Budget

-----------------------------------------------------------------------------
\* The event loop, or a nested one, is ready for an event.  The main loop
\* ends when the window is closed, the nested one when the process is off,
\* which it looks at after every event.
Listening ==
  \/ calls = <<>> /\ window = "open"
  \/ calls # <<>> /\ Head(calls) = "await" /\ process # "off"

\* The handler's next call is f.
Calling(f) == calls # <<>> /\ Head(calls) = f

Return == calls' = Tail(calls)
ReturnInto(fs) == calls' = fs \o Tail(calls)
Handle(fs) == calls' = fs \o calls

\* Something the program cannot prevent, or the user's doing.
Interference == budget > 0 /\ budget' = budget - 1

-----------------------------------------------------------------------------
(* The session, as far as the adaptor depends on it.                       *)

\* A message of type t is received or sent; CpProtocol has the details.
Step(s, t) ==
  IF Accepts(s.diagram, t)
  THEN [s EXCEPT !.diagram = CHOOSE d \in FsmStates : Leads(s.diagram, t, d),
                 !.st = IF Hooked(s.diagram, t) THEN StateAfterHook(t)
                        ELSE s.st]
  ELSE [s EXCEPT !.diagram = "failed"]

\* lt_cp_session_process: what was received, then the queue, at the end of
\* it the values the user asks for.
Processed(s, received, modified) ==
  LET queue == IF modified THEN Append(s.queue, "MODIFY_VARIABLES")
               ELSE s.queue
      heard == IF received = "" THEN s ELSE Step(s, received)
  IN  [FoldLeft(Step, heard, queue) EXCEPT !.queue = <<>>]

-----------------------------------------------------------------------------
(* CommunicationProtocolAdaptor                                            *)

\* connectToHost, after startConnect has logged; a socket that was still in
\* use is reset by QSocket without a signal.
ConnectToHost ==
  /\ closing' = FALSE /\ state' = "Connecting"
  /\ socket' = "connecting" /\ answer' = ""
  /\ astray' = IF fetching \/ downloads > 0 THEN {"late"} ELSE {}

\* processPendingEvents, when there is no session.
ProcessNothing ==
  /\ Calling("process") /\ ~session.there
  /\ Return
  /\ UNCHANGED <<windowvars, adaptorvars, buildvars, netvars, procvars,
                 astray, budget>>

\* Where the adaptor stands after a round with session s.
NextState(s) ==
  IF Before(state, "Connected")
  THEN IF IsAlive(s.st) THEN "Connected" ELSE state
  ELSE IF Before(state, "ViewSelected") /\ IsViewSelected(s.st)
  THEN "ViewSelected"
  ELSE IF /\ Before(state, "ViewSelected")
          /\ s.st = "VIEW_SELECTION_IN_PROGRESS"
  THEN "SelectingView"
  ELSE state

\* processPendingEvents reads, processes and writes.  A message the diagram
\* refuses, and data to be written when the socket is not open, are errors.
ProcessPendingEvents ==
  /\ Calling("process") /\ session.there
  /\ \E modified \in BOOLEAN :
       LET s == Processed(session, answer, modified)
           writes == modified \/ session.queue # <<>>
       IN
       /\ modified => /\ project /\ source = "current"
                      /\ IsViewSelected(session.st) \/
                         answer = "AVAILABLE_VARIABLES"
       /\ answer' = ""
       /\ astray' = IF socket = "open" THEN astray ELSE astray \cup {"old"}
       /\ IF s.diagram = "failed" \/ (writes /\ socket # "open")
          THEN /\ ReturnInto(<<"error", "hardCleanup">>)
               /\ UNCHANGED <<session, state, url, downloads>>
          ELSE /\ Return
               /\ session' = s /\ state' = NextState(s)
               /\ IF Before(state, "Connected") /\ IsAlive(s.st)
                  THEN url' = TRUE /\ downloads' = downloads + 1
                  ELSE UNCHANGED <<url, downloads>>
  /\ UNCHANGED <<windowvars, closing, eventTimer, project, source, fetching,
                 socket, procvars, budget>>

\* Mutant of Detached: the varsets of the project shown are forgotten.
DetachedMutant == IF source = "current" THEN "destroyed" ELSE source

\* What the varsets are attached to once the session is destroyed: those of
\* the adaptor's project are detached from it first.
Detached ==
  IF project THEN "none"
  ELSE IF source = "current" THEN "destroyed" ELSE source

\* cleanupSocketNSession.  Data still to be written keep the socket from
\* closing at once, unless it is closed hard.
Cleanup ==
  /\ Calling("cleanup") \/ Calling("hardCleanup")
  /\ Return
  /\ eventTimer' = FALSE
  /\ socket' \in (IF Calling("cleanup") /\ socket \in {"open", "closing"}
                  THEN {"idle", "closing"} ELSE {"idle"})
  /\ answer' = ""
  /\ source' = Detached
  /\ session' = NoSession
  /\ state' = "Idle" /\ project' = FALSE /\ url' = FALSE
  /\ UNCHANGED <<windowvars, closing, buildvars, procvars, astray, budget>>

\* disconnect: unselects and disconnects as far as the session has come.
AdaptorDisconnect ==
  /\ Calling("adaptorDisconnect")
  /\ closing' = TRUE
  /\ session' = [session EXCEPT !.queue = @ \o
       (IF IsViewSelected(session.st) THEN <<"UNSELECT_VIEW">> ELSE <<>>) \o
       (IF IsAlive(session.st) THEN <<"DISCONNECT">> ELSE <<>>)]
  /\ ReturnInto(IF ~session.there THEN <<"cleanup">>
                ELSE <<"process", "cleanup">>)
  /\ UNCHANGED <<windowvars, state, eventTimer, url, project, source,
                 buildvars, netvars, procvars, astray, budget>>

\* Mutant of SelectView: the request waits for something else to be written.
SelectViewMutant ==
  /\ Calling("select")
  /\ session' = IF ~session.there THEN session
                ELSE [session EXCEPT !.queue = @ \o
                  (IF IsViewSelected(session.st)
                   THEN <<"UNSELECT_VIEW", "SELECT_VIEW">>
                   ELSE <<"SELECT_VIEW">>)]
  /\ Return
  /\ UNCHANGED <<windowvars, state, closing, eventTimer, url, project,
                 source, buildvars, netvars, procvars, astray, budget>>

\* selectViewPanelSlot and selectView; without a session nothing is queued.
SelectView ==
  /\ Calling("select")
  /\ session' = IF ~session.there THEN session
                ELSE [session EXCEPT !.queue = @ \o
                  (IF IsViewSelected(session.st)
                   THEN <<"UNSELECT_VIEW", "SELECT_VIEW">>
                   ELSE <<"SELECT_VIEW">>)]
  /\ ReturnInto(<<"process">>)
  /\ UNCHANGED <<windowvars, state, closing, eventTimer, url, project,
                 source, buildvars, netvars, procvars, astray, budget>>

\* The same for a project without views.  The name is that of no view, a
\* null string of which lt_io_value_string_create2 may get a null pointer to
\* measure: the program ends, unless SelectView sends the name as it is.
SelectNothing ==
  /\ Calling("select") /\ ~shown
  /\ calls' = <<>> /\ window' = "closed"
  /\ UNCHANGED <<mode, retry, reconnectTimer, restartTimer, shown,
                 adaptorvars, buildvars, netvars, procvars, astray, budget>>

\* socketConnected: a session that is still there is replaced, not
\* destroyed.  The window's connectedSlot allows retries again.
SocketConnected ==
  /\ Listening /\ socket = "connecting"
  /\ mode = "project" => process = "up"
  /\ socket' = "open"
  /\ session' = [NoSession EXCEPT !.there = TRUE, !.queue = <<"CONNECT">>]
  /\ source' = IF source = "current" THEN "lost" ELSE source
  /\ eventTimer' = TRUE /\ retry' = TRUE
  /\ UNCHANGED <<mode, window, calls, reconnectTimer, restartTimer, shown,
                 state, closing, url, project, buildvars, answer, procvars,
                 astray, budget>>

\* socketError: no such host, no such server, or an error while reading.
SocketError ==
  /\ Listening
  /\ \/ socket = "connecting" /\ mode = "project" /\ process # "up"
        /\ UNCHANGED budget
     \/ socket \in {"connecting", "open"} /\ Interference
  /\ socket' = "idle" /\ state' = "Idle"
  /\ Handle(<<"error", "hardCleanup">>)
  /\ UNCHANGED <<windowvars, closing, eventTimer, url, project, source,
                 session, buildvars, answer, procvars, astray>>

\* socketConnectionClosed: the peer closed the connection, or the data that
\* delayed close have been written.  The session stays.
SocketConnectionClosed ==
  /\ Listening
  /\ \/ socket = "closing" /\ UNCHANGED budget
     \/ socket = "open" /\ mode = "project" /\ process = "off"
        /\ UNCHANGED budget
     \/ socket = "open" /\ Interference
  /\ socket' = "idle" /\ state' = "Idle"
  /\ Handle(IF closing THEN <<>> ELSE <<"error">>)
  /\ UNCHANGED <<windowvars, closing, eventTimer, url, project, source,
                 session, buildvars, answer, procvars, astray>>

\* socketReadyRead: the server answers, or sends the values of the view.
SocketReadyRead ==
  /\ Listening /\ socket = "open" /\ answer = "" /\ session.queue = <<>>
  /\ \E reply \in {<<"connection_in_progress", "PROJECT_URL">>,
                    <<"view_selection_in_progress", "AVAILABLE_VARIABLES">>,
                    <<"view_selected", "VARIABLE_VALUES">>} :
       session.diagram = reply[1] /\ answer' = reply[2]
  /\ eventTimer' = TRUE
  /\ UNCHANGED <<windowvars, calls, state, closing, url, project, source,
                 session, buildvars, socket, procvars, astray, budget>>

\* The timer of processPendingEvents.
EventTimer ==
  /\ Listening /\ eventTimer
  /\ eventTimer' = FALSE
  /\ Handle(<<"process">>)
  /\ UNCHANGED <<windowvars, state, closing, url, project, source, session,
                 buildvars, netvars, procvars, astray, budget>>

-----------------------------------------------------------------------------
(* ProjectAsyncBuilder, and what the adaptor does with its result          *)

\* Mutant of Attached: the new project's varsets are not attached.
AttachedMutant == "none"

\* What the varsets of a project just built are attached to.
Attached == IF session.there THEN "current" ELSE "none"

\* projectBuilt after a success: the project takes the place of the one
\* before, its varsets are attached to the session, and the window, told by
\* projectReady, selects a view.
ProjectReady ==
  /\ state' = "ProjectDownloaded"
  /\ source' = Attached
  /\ project' = TRUE /\ shown' = TRUE
  /\ Handle(<<"select">>)
  /\ UNCHANGED <<astray, budget>>

\* projectBuilt after a project that could not be built: the builder reports
\* an empty one as finished, which has no varset to attach and no view.
ProjectEmpty ==
  /\ Interference /\ astray' = astray \cup {"empty"}
  /\ state' = "ProjectDownloaded"
  /\ source' = "none" /\ project' = FALSE /\ shown' = FALSE
  /\ Handle(<<"select">>)

\* projectBuilt after a failure: the connection is given up without a word.
ProjectFailed ==
  /\ astray' = astray \cup {"failed"}
  /\ Handle(<<"hardCleanup">>)
  /\ UNCHANGED <<source, project, shown>>

\* Mutant of DownloadDue: it comes without being scheduled.
DownloadDueMutant == Listening /\ downloads' = downloads - 1

\* The scheduled call of startProjectDownload comes.
DownloadDue == Listening /\ downloads > 0 /\ downloads' = downloads - 1

\* startProjectDownload and buildFromUrl.  The builder ignores the call
\* while it is downloading, fails at once without a URL, and builds at once
\* from a local file; a server of the runtime's own (-l) gives a local file.
StartProjectDownload ==
  /\ DownloadDue
  /\ \/ /\ fetching
        /\ state' = "DownloadingProject"
        /\ UNCHANGED <<calls, source, project, shown, fetching, astray,
                       budget>>
     \/ /\ ~fetching /\ ~url
        /\ state' = "DownloadingProject"
        /\ ProjectFailed
        /\ UNCHANGED <<fetching, budget>>
     \/ /\ ~fetching /\ url /\ mode = "project"
        /\ \/ ProjectReady
           \/ ProjectEmpty
           \/ Interference /\ ProjectFailed /\ state' = "DownloadingProject"
        /\ UNCHANGED fetching
     \/ /\ ~fetching /\ url /\ mode = "host"
        /\ fetching' = TRUE /\ state' = "DownloadingProject"
        /\ UNCHANGED <<calls, source, project, shown, astray, budget>>
  /\ UNCHANGED <<mode, window, retry, reconnectTimer, restartTimer, closing,
                 eventTimer, url, session, netvars, procvars>>

\* handleFinished: the project was downloaded, and built or not, or it could
\* not be downloaded.
DownloadFinished ==
  /\ Listening /\ fetching
  /\ fetching' = FALSE
  /\ \/ ProjectReady
     \/ ProjectEmpty
     \/ Interference /\ ProjectFailed /\ UNCHANGED state
  /\ UNCHANGED <<mode, window, retry, reconnectTimer, restartTimer, closing,
                 eventTimer, url, session, downloads, netvars, procvars>>

-----------------------------------------------------------------------------
(* ServerController: the process of the runtime's own server               *)

\* start, unless the process is running.  What QProcess::start returns is
\* not looked at: when the program cannot be started no signal follows.
StartProcess ==
  \/ /\ process = "off"
     /\ process' = "starting" /\ stdin' = TRUE /\ killed' = FALSE
     /\ unstarted' = FALSE
     /\ UNCHANGED <<shtimer, slots, budget>>
  \/ /\ process = "off"
     /\ Interference /\ unstarted' = TRUE
     /\ UNCHANGED <<process, stdin, shtimer, slots, killed>>
  \/ /\ process # "off"
     /\ UNCHANGED <<procvars, budget>>

\* stop closes the standard input and waits; every stop connects the timer
\* once more, and no connection is ever undone.
StopProcess ==
  /\ Calling("stopProcess")
  /\ Return
  /\ IF process = "off" THEN UNCHANGED procvars
     ELSE /\ stdin' = FALSE /\ shtimer' = TRUE
          /\ slots' = slots \cup {"terminate"}
          /\ UNCHANGED <<process, killed, unstarted>>
  /\ UNCHANGED <<windowvars, adaptorvars, buildvars, netvars, astray, budget>>

\* Mutant of ShutdownTimer: sendTerminate does not arm the timer for kill.
ShutdownTimerMutant ==
  /\ Listening /\ shtimer
  /\ shtimer' = FALSE
  /\ killed' = (killed \/ (process # "off" /\ "kill" \in slots))
  /\ UNCHANGED <<windowvars, calls, adaptorvars, buildvars, netvars, process,
                 stdin, slots, unstarted, astray, budget>>

\* The timeout of shtimer: sendTerminate, which arms it again for kill, and
\* kill, when it is connected already.
ShutdownTimer ==
  /\ Listening /\ shtimer
  /\ shtimer' = (process # "off")
  /\ slots' = IF process # "off" THEN slots \cup {"kill"} ELSE slots
  /\ killed' = (killed \/ (process # "off" /\ "kill" \in slots))
  /\ UNCHANGED <<windowvars, calls, adaptorvars, buildvars, netvars, process,
                 stdin, unstarted, astray, budget>>

\* readyReadStdoutSlot finds the line "Press ..." and serverReadySlot has
\* startConnect called, whatever the window is about.
ServerReady ==
  /\ Listening /\ process = "starting"
  /\ process' = "up" /\ reconnectTimer' = TRUE
  /\ UNCHANGED <<mode, window, calls, retry, restartTimer, shown,
                 adaptorvars, buildvars, netvars, stdin, shtimer, slots,
                 killed, unstarted, astray, budget>>

\* processExitedSlot and serverExitedSlot.
ServerExited ==
  /\ Listening /\ process # "off"
  /\ \/ (~stdin \/ killed) /\ UNCHANGED budget
     \/ stdin /\ ~killed /\ Interference
  /\ process' = "off" /\ shtimer' = FALSE
  /\ restartTimer' = (restartTimer \/ retry)
  /\ UNCHANGED <<mode, window, calls, retry, reconnectTimer, shown,
                 adaptorvars, buildvars, netvars, stdin, slots,
                 killed, unstarted, astray>>

-----------------------------------------------------------------------------
(* MainWindow                                                              *)

\* Mutant of TriesAgain: a server elsewhere is taken for one that is gone.
TriesAgainMutant == retry /\ process # "off"

\* connectionErrorSlot is to try again.
TriesAgain == retry /\ (mode = "host" \/ process # "off")

\* connectionErrorSlot: another attempt in ten seconds, unless the server
\* that would be connected to is gone.
ConnectionErrorSlot ==
  /\ Calling("error")
  /\ Return
  /\ reconnectTimer' = (reconnectTimer \/ TriesAgain)
  /\ UNCHANGED <<mode, window, retry, restartTimer, shown, adaptorvars,
                 buildvars, netvars, procvars, astray, budget>>

\* disconnect.  It would wait in the event loop for the adaptor to be idle,
\* which the adaptor's disconnect leaves behind.
Disconnect ==
  /\ Calling("disconnect")
  /\ reconnectTimer' = FALSE
  /\ ReturnInto(IF state = "Idle" THEN <<>> ELSE <<"adaptorDisconnect">>)
  /\ UNCHANGED <<mode, window, retry, restartTimer, shown, adaptorvars,
                 buildvars, netvars, procvars, astray, budget>>

\* stopServer: disconnects, stops the process and waits for its end.
StopServer ==
  /\ Calling("stopServer")
  /\ restartTimer' = FALSE
  /\ ReturnInto(<<"disconnect", "stopProcess", "await">>)
  /\ UNCHANGED <<mode, window, retry, reconnectTimer, shown, adaptorvars,
                 buildvars, netvars, procvars, astray, budget>>

\* The loop of stopServer ends.
Awaited ==
  /\ Calling("await") /\ process = "off"
  /\ Return
  /\ UNCHANGED <<windowvars, adaptorvars, buildvars, netvars, procvars,
                 astray, budget>>

\* Mutant of Restart: retries stay forbidden.
RestartMutant ==
  /\ Calling("restart")
  /\ Return
  /\ StartProcess
  /\ UNCHANGED <<mode, window, retry, reconnectTimer, restartTimer, shown,
                 adaptorvars, buildvars, netvars, astray>>

\* The end of startStopServerSlot.
Restart ==
  /\ Calling("restart")
  /\ Return
  /\ retry' = TRUE /\ StartProcess
  /\ UNCHANGED <<mode, window, reconnectTimer, restartTimer, shown,
                 adaptorvars, buildvars, netvars, astray>>

\* The end of connectDisconnectSlot.
Reconnect ==
  /\ Calling("reconnect")
  /\ Return
  /\ retry' = TRUE /\ ConnectToHost
  /\ UNCHANGED <<mode, window, reconnectTimer, restartTimer, shown,
                 eventTimer, url, project, source, session, buildvars,
                 procvars, budget>>

\* The end of closeEvent.
Close ==
  /\ Calling("close")
  /\ Return
  /\ window' = "closed"
  /\ UNCHANGED <<mode, retry, reconnectTimer, restartTimer, shown,
                 adaptorvars, buildvars, netvars, procvars, astray, budget>>

\* startStopServerSlot, connectDisconnectSlot and closeEvent.
PressButton ==
  /\ Listening /\ Interference
  /\ retry' = FALSE
  /\ \/ mode = "project" /\ Handle(<<"stopServer", "restart">>)
     \/ mode = "host" /\ Handle(<<"disconnect", "reconnect">>)
     \/ Handle(<<"disconnect", "stopServer", "close">>)
  /\ UNCHANGED <<mode, window, reconnectTimer, restartTimer, shown,
                 adaptorvars, buildvars, netvars, procvars, astray>>

\* The user picks a view of the project shown.
PickView ==
  /\ Listening /\ shown /\ Interference
  /\ Handle(<<"select">>)
  /\ astray' = IF project /\ source = "current" THEN astray
               ELSE astray \cup {"early"}
  /\ UNCHANGED <<windowvars, adaptorvars, buildvars, netvars, procvars>>

\* customEvent: a template of the project shown asks for a value.
CustomEvent ==
  /\ Listening /\ shown /\ Interference
  /\ Handle(<<"process">>)
  /\ UNCHANGED <<windowvars, adaptorvars, buildvars, netvars, procvars,
                 astray>>

ReconnectTimer ==
  /\ Listening /\ reconnectTimer
  /\ reconnectTimer' = FALSE
  /\ ConnectToHost
  /\ UNCHANGED <<mode, window, calls, retry, restartTimer, shown, eventTimer,
                 url, project, source, session, buildvars, procvars, budget>>

RestartTimer ==
  /\ Listening /\ restartTimer
  /\ restartTimer' = FALSE
  /\ StartProcess
  /\ UNCHANGED <<mode, window, calls, retry, reconnectTimer, shown,
                 adaptorvars, buildvars, netvars, astray>>

-----------------------------------------------------------------------------
\* The rest of the handler that is running.
Continue ==
  \/ ProcessNothing \/ ProcessPendingEvents \/ Cleanup \/ AdaptorDisconnect
  \/ SelectView \/ SelectNothing \/ StopProcess \/ ConnectionErrorSlot
  \/ Disconnect \/ StopServer \/ Awaited \/ Restart \/ Reconnect \/ Close

Next ==
  \/ Continue
  \/ SocketConnected \/ SocketError \/ SocketConnectionClosed
  \/ SocketReadyRead \/ EventTimer \/ StartProjectDownload
  \/ DownloadFinished \/ ShutdownTimer \/ ServerReady \/ ServerExited
  \/ PressButton \/ PickView \/ CustomEvent \/ ReconnectTimer
  \/ RestartTimer

Spec == Init /\ [][Next]_vars

\* A handler that was started ends, and the event loop gets to every event
\* that stays pending.  Strong fairness is for what is pending on and off
\* while others are handled, as the values of a view keep coming: the timer
\* and the end of the process, the end of a download, and the first output of
\* a server, which may take any time, with attempts to connect in between.
Fairness ==
  /\ WF_vars(Continue) /\ WF_vars(EventTimer)
  /\ WF_vars(ReconnectTimer) /\ WF_vars(RestartTimer)
  /\ WF_vars(SocketConnected) /\ WF_vars(SocketReadyRead)
  /\ WF_vars(SocketConnectionClosed /\ UNCHANGED budget)
  /\ WF_vars(SocketError /\ UNCHANGED budget)
  /\ WF_vars(StartProjectDownload /\ UNCHANGED budget)
  /\ SF_vars(DownloadFinished /\ UNCHANGED budget)
  /\ SF_vars(ServerReady)
  /\ SF_vars(ShutdownTimer) /\ SF_vars(ServerExited /\ killed)

FairSpec == Spec /\ Fairness

-----------------------------------------------------------------------------
(* Properties                                                              *)

\* The varsets of the project in the window are never attached to a session
\* that was destroyed, although sessions are replaced and projects come late
\* (cleanupSocketNSession detaches them first).
NoDanglingVarsets == shown => source # "destroyed"

\* The view the adaptor reports as selected gets its values from the present
\* session, as long as neither a late download, an empty project nor the
\* session of an earlier connection has come in between
\* (processPendingEvents, projectBuilt).
SelectedIsAttached ==
  state = "ViewSelected" /\ astray = {} => source = "current"

\* Retries are off only while the handler of a button runs: whatever fails
\* afterwards is tried again (connectDisconnectSlot, startStopServerSlot).
RetriesUnlessHandling == retry \/ calls # <<>> \/ window = "closed"

\* Nothing is connected and nothing is going to happen.
AtRest ==
  /\ window = "open" /\ calls = <<>> /\ socket = "idle"
  /\ process # "starting" /\ ~fetching /\ downloads = 0
  /\ ~reconnectTimer /\ ~restartTimer /\ ~eventTimer

\* The runtime gives up for two reasons only, a project that could not be
\* had and a server that could not be started: any other failure leaves a
\* timer armed (connectionErrorSlot, serverExitedSlot; projectBuilt and
\* ServerController::start for the exceptions).
NeverGivesUp == AtRest => "failed" \in astray \/ unstarted

\* However the connection or the server failed, in the end the view is
\* selected and the project shown gets its values, unless something went
\* astray, the server could not be started, the window was closed or a
\* handler waits for the server.
ComesBack ==
  <>[](\/ /\ state = "ViewSelected" /\ IsViewSelected(session.st)
          /\ source = "current"
       \/ astray # {} \/ unstarted \/ window = "closed" \/ calls # <<>>)

Closing == \E i \in DOMAIN calls : calls[i] = "close"

\* A button pressed while stopServer waits stops the server from inside the
\* wait, and may start another one, for which the outer wait goes on.
Replaced ==
  \/ \E i, j \in DOMAIN calls :
       i # j /\ calls[i] = "await" /\ calls[j] = "await"
  \/ Calling("await") /\ process # "off" /\ stdin

\* Once the user closes the window it is closed, however the server takes it
\* (closeEvent, stopServer and the two timeouts of ServerController).
CloseEnds == Closing ~> (window = "closed" \/ Replaced)

\* startProjectDownload and projectBuilt assert that there is a session
\* (Q_ASSERT( d->session ), CommunicationProtocolAdaptor.cpp:484 and 519).
DownloadHasSession ==
  [][StartProjectDownload \/ DownloadFinished => session.there]_vars

-----------------------------------------------------------------------------
(* Why the view that is selected is attached: an inductive invariant.      *)

\* The session shows a view or has asked for one.
Viewing(s) ==
  \/ s.diagram \in {"view_selection_in_progress", "view_selected",
                     "change_set_of_monitored_variables"}
  \/ s.st \in {"VIEW_SELECTION_IN_PROGRESS", "VIEW_SELECTED"}

Asks(queue) == \E i \in DOMAIN queue : queue[i] = "SELECT_VIEW"

\* A session has nothing to do with views before the project is attached to
\* it; a connection that is being made has nothing of the one before.
Attaching ==
  /\ \A i \in DOMAIN calls : calls[i] = "select" => i = 1
  /\ answer # "SELECT_VIEW"
  /\ astray = {} =>
       /\ socket = "connecting" =>
            state = "Connecting" /\ downloads = 0 /\ ~fetching
       /\ state \in {"SelectingView", "ViewSelected"} => source = "current"
       /\ socket = "open" /\ session.there =>
            \/ source = "current"
            \/ ~Viewing(session) /\ ~Asks(session.queue) /\ ~Calling("select")
=============================================================================
