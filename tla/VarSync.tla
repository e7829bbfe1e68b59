------------------------------ MODULE VarSync ------------------------------
(***************************************************************************)
(* How the values of one plugin are shared among several clients           *)
(* (variables.c, and its callers in cp.c and loopback.c): the varset of    *)
(* the loopback plugin is the source of one varset per server session.     *)
(* Requested values flow from the sessions to the source, real values from *)
(* the source to the sessions, and everybody sees only what differs from   *)
(* what it knew.                                                           *)
(*                                                                         *)
(* A session's wire is reduced to what it delivers: values are shown at    *)
(* once, requests reach the server in one piece with those that follow     *)
(* until its thread takes them.  CpProtocol has the messages, for one      *)
(* client.                                                                 *)
(***************************************************************************)
EXTENDS Naturals

CONSTANTS
  Clients,   \* the sessions, each of them set up once
  Vars,      \* the variables of the plugin
  Values,    \* what they may hold
  Default,   \* what lt_var_create puts into them
  MaxAsks    \* bound: how often all the users together ask for a value

ASSUME DefaultAssumption == Default \in Values
ASSUME BoundAssumption == MaxAsks \in Nat

VARIABLES
  preq,      \* requested values of the plugin's varset
  preal,     \* its real values
  pdirty,    \* its hash of dirty requested values
  pflag,     \* its variables whose real value is flagged dirty
  ppc,       \* where the plugin's thread stands
  topush,    \* the targets its sync has yet to visit
  spc,       \* where each session stands
  tocopy,    \* the variables lt_cp_session_variables_register has to copy
  sreq,      \* requested values of each session's varset
  sflag,     \* its variables whose requested value is flagged dirty
  sreal,     \* real values of each session's varset
  sdirty,    \* its hash of dirty real values
  creq,      \* requested values at each client
  cdirty,    \* those still to be sent
  shown,     \* what each client's user sees
  missed,    \* history: what was published while a session was set up
  asks       \* how often a value has been asked for

plugin  == <<preq, preal, pdirty, pflag, ppc, topush>>
session == <<spc, tocopy, sreq, sflag, sreal, sdirty>>
client  == <<creq, cdirty, shown>>
history == <<missed, asks>>
vars    == <<plugin, session, client, history>>

PluginStates  == {"wait", "latency", "push"}
SessionStates == {"absent", "copying", "linked", "viewing"}

\* The plugin waits without its lock on the requested values, and sleeps and
\* applies with it.
Locked == ppc = "latency"

Linked  == {c \in Clients : spc[c] \in {"linked", "viewing"}}
Viewers == {c \in Clients : spc[c] = "viewing"}

TypeOK ==
  /\ preq \in [Vars -> Values] /\ preal \in [Vars -> Values]
  /\ pdirty \subseteq Vars /\ pflag \subseteq Vars
  /\ ppc \in PluginStates /\ topush \subseteq Clients
  /\ spc \in [Clients -> SessionStates]
  /\ tocopy \in [Clients -> SUBSET Vars]
  /\ sreq \in [Clients -> [Vars -> Values]]
  /\ sflag \in [Clients -> SUBSET Vars]
  /\ sreal \in [Clients -> [Vars -> Values]]
  /\ sdirty \in [Clients -> SUBSET Vars]
  /\ creq \in [Clients -> [Vars -> Values]]
  /\ cdirty \in [Clients -> SUBSET Vars]
  /\ shown \in [Clients -> [Vars -> Values]]
  /\ missed \in [Clients -> SUBSET Vars]
  /\ asks \in 0..MaxAsks

Defaults == [v \in Vars |-> Default]

\* Variables are created before they belong to a varset: their flags are set,
\* but no hash knows.
Init ==
  /\ preq = Defaults /\ preal = Defaults
  /\ pdirty = {} /\ pflag = Vars
  /\ ppc = "wait" /\ topush = {}
  /\ spc = [c \in Clients |-> "absent"]
  /\ tocopy = [c \in Clients |-> Vars]
  /\ sreq = [c \in Clients |-> Defaults]
  /\ sflag = [c \in Clients |-> Vars]
  /\ sreal = [c \in Clients |-> Defaults]
  /\ sdirty = [c \in Clients |-> {}]
  /\ creq = [c \in Clients |-> Defaults]
  /\ cdirty = [c \in Clients |-> {}]
  /\ shown = [c \in Clients |-> Defaults]
  /\ missed = [c \in Clients |-> {}]
  /\ asks = 0

\* f with the values of g at the variables of D.
Updated(f, g, D) == [v \in Vars |-> IF v \in D THEN g[v] ELSE f[v]]

\* The setters leave a value alone, and its flag, when it stays the same.
Differing(f, g, D) == {v \in D : f[v] # g[v]}

\* Nothing asked for is on its way, and nothing published either.
Quiet ==
  /\ pdirty = {} /\ ppc = "wait"
  /\ \A c \in Clients : cdirty[c] = {} /\ sdirty[c] = {}

-----------------------------------------------------------------------------
(* Setting up a session, by the accepting thread, one client after the     *)
(* other.                                                                  *)

Create(c) ==
  /\ spc[c] = "absent"
  /\ \A d \in Clients : spc[d] # "copying"
  /\ spc' = [spc EXCEPT ![c] = "copying"]
  /\ UNCHANGED <<plugin, tocopy, sreq, sflag, sreal, sdirty, client, history>>

\* One variable is duplicated, with no lock held.
Copy(c, v) ==
  /\ spc[c] = "copying" /\ v \in tocopy[c]
  /\ tocopy' = [tocopy EXCEPT ![c] = @ \ {v}]
  /\ sreal' = [sreal EXCEPT ![c][v] = preal[v]]
  /\ sreq' = [sreq EXCEPT ![c][v] = preq[v]]
  /\ UNCHANGED <<plugin, spc, sflag, sdirty, client, history>>

\* lt_var_set_source_set, under all four locks.  The plugin may be walking
\* its targets without any of them: it meets the new one or not.
Link(c) ==
  /\ spc[c] = "copying" /\ tocopy[c] = {}
  /\ ~Locked
  /\ spc' = [spc EXCEPT ![c] = "linked"]
  /\ \/ topush' = topush
     \/ ppc = "push" /\ topush' = topush \cup {c}
  /\ missed' = [missed EXCEPT ![c] =
                  {v \in Differing(sreal[c], preal, Vars) :
                     ~(v \in pflag /\ c \in topush')}]
  /\ UNCHANGED <<preq, preal, pdirty, pflag, ppc, tocopy, sreq, sflag,
                 sreal, sdirty, client, asks>>

-----------------------------------------------------------------------------
(* The client threads of the server, and the users.                        *)

\* The answer to SELECT_VIEW carries all the session's real values.
SelectView(c) ==
  /\ spc[c] = "linked"
  /\ spc' = [spc EXCEPT ![c] = "viewing"]
  /\ shown' = [shown EXCEPT ![c] = sreal[c]]
  /\ UNCHANGED <<plugin, tocopy, sreq, sflag, sreal, sdirty, creq, cdirty,
                 history>>

\* A user asks for x; to ask for what one asked for before asks for nothing.
Ask(c, v, x) ==
  /\ spc[c] = "viewing"
  /\ asks < MaxAsks /\ asks' = asks + 1
  /\ creq' = [creq EXCEPT ![c][v] = x]
  /\ cdirty' = [cdirty EXCEPT ![c] = IF creq[c][v] = x THEN @ ELSE @ \cup {v}]
  /\ UNCHANGED <<plugin, session, shown, missed>>

\* Mutant of Modify: every value is taken for a new one.
ModifyUnfiltered(c) ==
  /\ cdirty[c] # {} /\ ~Locked
  /\ sreq' = [sreq EXCEPT ![c] = Updated(sreq[c], creq[c], cdirty[c])]
  /\ sflag' = [sflag EXCEPT ![c] = {}]
  /\ preq' = Updated(preq, creq[c], cdirty[c])
  /\ cdirty' = [cdirty EXCEPT ![c] = {}]
  /\ UNCHANGED <<preal, pdirty, pflag, ppc, topush, spc, tocopy, sreal,
                 sdirty, creq, shown, history>>

\* The server takes MODIFY_VARIABLES: the hook stores the values in the
\* session's varset and syncs that to the plugin's, under the lock.
Modify(c) ==
  LET taken   == Updated(sreq[c], creq[c], cdirty[c])
      flagged == sflag[c] \cup Differing(sreq[c], creq[c], cdirty[c])
  IN
  /\ cdirty[c] # {} /\ ~Locked
  /\ sreq' = [sreq EXCEPT ![c] = taken]
  /\ sflag' = [sflag EXCEPT ![c] = {}]
  /\ preq' = Updated(preq, taken, flagged)
  /\ pdirty' = pdirty \cup Differing(preq, taken, flagged)
  /\ cdirty' = [cdirty EXCEPT ![c] = {}]
  /\ UNCHANGED <<preal, pflag, ppc, topush, spc, tocopy, sreal, sdirty,
                 creq, shown, history>>

\* _lt_cp_session_process_server sends what is dirty, under the session's
\* lock on its real values.
Send(c) ==
  /\ spc[c] = "viewing" /\ sdirty[c] # {}
  /\ shown' = [shown EXCEPT ![c] = Updated(@, sreal[c], sdirty[c])]
  /\ sdirty' = [sdirty EXCEPT ![c] = {}]
  /\ UNCHANGED <<plugin, spc, tocopy, sreq, sflag, sreal, creq, cdirty,
                 history>>

-----------------------------------------------------------------------------
(* The plugin's thread.                                                    *)

\* It comes back from lt_var_set_wait_for_new_requested_values with the lock:
\* there is something dirty, or a target has signalled though nothing is.
Wake ==
  /\ ppc = "wait"
  /\ pdirty # {} \/ Linked # {}
  /\ ppc' = "latency"
  /\ UNCHANGED <<preq, preal, pdirty, pflag, topush, session, client, history>>

\* Mutant of Apply: the flags go with the lock, the values follow later.
ApplyUnflagged ==
  /\ ppc = "latency"
  /\ preal' = Updated(preal, preq, pdirty)
  /\ pdirty' = {}
  /\ ppc' = "push" /\ topush' = Linked
  /\ UNCHANGED <<preq, pflag, session, client, history>>

\* Mutant of Apply: the dirty requests are forgotten.
ApplyNothing ==
  /\ ppc = "latency"
  /\ pdirty' = {}
  /\ ppc' = "push" /\ topush' = Linked
  /\ UNCHANGED <<preq, preal, pflag, session, client, history>>

\* The latency is over: what is requested becomes real, the requests are
\* synced (which clears their flags) and the lock is released.
Apply ==
  /\ ppc = "latency"
  /\ preal' = Updated(preal, preq, pdirty)
  /\ pflag' = pflag \cup Differing(preal, preq, pdirty)
  /\ pdirty' = {}
  /\ ppc' = "push" /\ topush' = Linked
  /\ UNCHANGED <<preq, session, client, history>>

\* lt_var_set_real_values_sync copies what is flagged to one target, under
\* the target's lock.
Push(c) ==
  /\ ppc = "push" /\ c \in topush
  /\ sreal' = [sreal EXCEPT ![c] = Updated(@, preal, pflag)]
  /\ sdirty' = [sdirty EXCEPT ![c] = @ \cup Differing(sreal[c], preal, pflag)]
  /\ missed' = [missed EXCEPT ![c] = @ \ pflag]
  /\ topush' = topush \ {c}
  /\ UNCHANGED <<preq, preal, pdirty, pflag, ppc, spc, tocopy, sreq,
                 sflag, client, asks>>

\* Mutant of Pushed: the flags are cleared with the first target.
PushedEarly ==
  /\ ppc = "push"
  /\ pflag' = {} /\ ppc' = "wait" /\ topush' = {}
  /\ UNCHANGED <<preq, preal, pdirty, session, client, history>>

\* All targets have been visited: the flags are cleared.
Pushed ==
  /\ ppc = "push" /\ topush = {}
  /\ pflag' = {} /\ ppc' = "wait"
  /\ UNCHANGED <<preq, preal, pdirty, topush, session, client, history>>

-----------------------------------------------------------------------------
SessionStep(c) ==
  \/ Create(c)
  \/ \E v \in Vars : Copy(c, v)
  \/ Link(c)
  \/ SelectView(c)
  \/ Modify(c)
  \/ Send(c)

PluginStep ==
  \/ Wake
  \/ Apply
  \/ \E c \in Clients : Push(c)
  \/ Pushed

Next ==
  \/ \E c \in Clients : SessionStep(c)
  \/ \E c \in Clients, v \in Vars, x \in Values : Ask(c, v, x)
  \/ PluginStep

Spec == Init /\ [][Next]_vars

-----------------------------------------------------------------------------
(* Safety                                                                  *)

\* What is requested and not yet real is marked for the plugin: no request
\* that reached the plugin's varset is forgotten, whoever else asks meanwhile.
RequestsPending == \A v \in Vars : preq[v] # preal[v] => v \in pdirty

\* A session that does not show the plugin's value is still going to be given
\* it, unless the value was published while the session was being set up.
TargetsFollow ==
  \A c \in Linked : \A v \in Vars \ missed[c] :
    sreal[c][v] # preal[v] => v \in pflag /\ c \in topush

\* What a user does not see of the session's values is still to be sent.
ViewersFollow ==
  \A c \in Viewers : \A v \in Vars :
    shown[c][v] # sreal[c][v] => v \in sdirty[c]

\* When nothing is on its way all users see the same, the value last
\* requested, but for what was published while a session was being set up.
QuietViewersAgree ==
  Quiet => \A c \in Viewers : \A v \in Vars \ missed[c] :
             shown[c][v] = preal[v] /\ preal[v] = preq[v]

\* The values requested of the plugin change only where a client's message
\* names them.
OnlyNamedVariablesChange ==
  [][\A v \in Vars : preq'[v] # preq[v] =>
       \E c \in Clients : v \in cdirty[c] \ cdirty'[c]]_vars

-----------------------------------------------------------------------------
(* Liveness, with every thread scheduled and the plugin's lock handed out   *)
(* to whoever keeps wanting it.                                             *)

Fairness ==
  /\ WF_vars(pdirty # {} /\ Wake)
  /\ WF_vars(Apply \/ (\E c \in Clients : Push(c)) \/ Pushed)
  /\ \A c \in Clients :
       /\ WF_vars(Create(c) \/ (\E v \in Vars : Copy(c, v)) \/ SelectView(c))
       /\ SF_vars(Link(c))
       /\ SF_vars(Modify(c))
       /\ WF_vars(Send(c))

FairSpec == Spec /\ Fairness

\* A wish is taken off the wire, and what is requested becomes real.
EverythingApplied ==
  \A c \in Clients, v \in Vars :
    /\ v \in cdirty[c] ~> v \notin cdirty[c]
    /\ v \in pdirty ~> preal[v] = preq[v]

\* Every user comes to see what the plugin has, or the plugin moves on.
EverythingShown ==
  \A c \in Clients, v \in Vars, x \in Values :
    (c \in Viewers /\ v \notin missed[c] /\ preal[v] = x)
      ~> (shown[c][v] = x \/ preal[v] # x)
=============================================================================
