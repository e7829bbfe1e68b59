------------------------------- MODULE CpFsm -------------------------------
(***************************************************************************)
(* The transition diagram of the Lintouch communication protocol, as       *)
(* libltcp builds it once per process (_lt_cp_fsm_create) and as every     *)
(* session of either side steps through it (lt_fsm_session_process).       *)
(*                                                                         *)
(* The same diagram is fed with the messages a session receives and with   *)
(* those it sends, on the client and on the server alike.                  *)
(***************************************************************************)
EXTENDS Naturals

FsmStates == {"disconnected", "connection_in_progress", "connected",
              "view_selection_in_progress", "view_selected",
              "change_set_of_monitored_variables"}

MessageTypes == {"CONNECT", "PROJECT_URL", "CONNECTION_REFUSED", "DISCONNECT",
                 "SELECT_VIEW", "AVAILABLE_VARIABLES", "VIEW_NOT_SELECTED",
                 "UNSELECT_VIEW", "MONITOR_VARIABLES", "UNMONITOR_VARIABLES",
                 "MONITORING_VARIABLES", "MODIFY_VARIABLES",
                 "READ_VARIABLES", "VARIABLE_VALUES"}

\* <<from, input, to>>, one triple per CREATE_TRANSITION with a post hook.
HookedTransitions ==
  {<<"disconnected", "CONNECT", "connection_in_progress">>,
   <<"connection_in_progress", "CONNECTION_REFUSED", "disconnected">>,
   <<"connection_in_progress", "DISCONNECT", "disconnected">>,
   <<"connection_in_progress", "PROJECT_URL", "connected">>,
   <<"connected", "DISCONNECT", "disconnected">>,
   <<"connected", "SELECT_VIEW", "view_selection_in_progress">>,
   <<"view_selection_in_progress", "VIEW_NOT_SELECTED", "connected">>,
   <<"view_selection_in_progress", "DISCONNECT", "disconnected">>,
   <<"view_selection_in_progress", "AVAILABLE_VARIABLES", "view_selected">>,
   <<"view_selected", "UNSELECT_VIEW", "connected">>,
   <<"view_selected", "DISCONNECT", "disconnected">>,
   <<"view_selected", "MONITOR_VARIABLES",
     "change_set_of_monitored_variables">>,
   <<"view_selected", "UNMONITOR_VARIABLES",
     "change_set_of_monitored_variables">>,
   <<"change_set_of_monitored_variables", "VARIABLE_VALUES",
     "change_set_of_monitored_variables">>,
   <<"change_set_of_monitored_variables", "MONITORING_VARIABLES",
     "view_selected">>,
   <<"view_selected", "READ_VARIABLES", "view_selected">>,
   <<"view_selected", "MODIFY_VARIABLES", "view_selected">>,
   <<"view_selected", "VARIABLE_VALUES", "view_selected">>}

\* Mutant of IgnoredTransitions: late values are not expected.
IgnoredNone == {}

\* Values the server sent before it learned of the client's last step are
\* let through and ignored: these transitions carry no hook.
IgnoredTransitions ==
  {<<"disconnected", "VARIABLE_VALUES", "disconnected">>,
   <<"connected", "VARIABLE_VALUES", "connected">>,
   <<"view_selection_in_progress", "VARIABLE_VALUES",
     "view_selection_in_progress">>}

Transitions == HookedTransitions \cup IgnoredTransitions

\* lt_fsm_session_process finds a transition for the input, or answers
\* LT_FSM_ENOSUCHTRANSITION.
Accepts(s, t) == \E tr \in Transitions : tr[1] = s /\ tr[2] = t

\* The transition taken from s on input t leads to d.
Leads(s, t, d) == <<s, t, d>> \in Transitions

\* The post hook of the transition runs after the state has changed.
Hooked(s, t) == \E tr \in HookedTransitions : tr[1] = s /\ tr[2] = t

-----------------------------------------------------------------------------
(* lt_cp_connection_state_e, in the order of the enumeration: the session  *)
(* keeps one of these beside the state of its diagram, and the predicates  *)
(* is_alive and is_view_selected compare with >=.                          *)

SessionStates == {"DISCONNECTED", "CONNECTION_IN_PROGRESS", "CONNECTED",
                  "VIEW_SELECTION_IN_PROGRESS", "VIEW_SELECTED"}

\* What the post hook of a message of type t assigns to session->state.
StateAfterHook(t) ==
  IF t \in {"CONNECTION_REFUSED", "DISCONNECT"} THEN "DISCONNECTED"
  ELSE IF t = "CONNECT" THEN "CONNECTION_IN_PROGRESS"
  ELSE IF t \in {"PROJECT_URL", "VIEW_NOT_SELECTED", "UNSELECT_VIEW"}
       THEN "CONNECTED"
  ELSE IF t = "SELECT_VIEW" THEN "VIEW_SELECTION_IN_PROGRESS"
  ELSE "VIEW_SELECTED"

IsAlive(st) ==
  st \in {"CONNECTED", "VIEW_SELECTION_IN_PROGRESS", "VIEW_SELECTED"}

IsViewSelected(st) == st = "VIEW_SELECTED"
=============================================================================
