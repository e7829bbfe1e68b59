-------------------------- MODULE VarSync_proofs --------------------------
(***************************************************************************)
(* Proofs about VarSync, for any sets of clients, variables and values.    *)
(*                                                                         *)
(* The properties of the values on their way hold together: what is        *)
(* requested waits for the plugin, what is real waits for the targets,     *)
(* what the sessions have waits for the users.  Shares adds what links     *)
(* them: nobody is to be pushed to outside of a push, and nothing is dirty *)
(* in a session that is not set up yet.                                    *)
(***************************************************************************)
EXTENDS VarSync, TLAPS

TargetsOnlyInPush == ppc # "push" => topush = {}

OnlyLinkedVisited == topush \subseteq Linked

Shares ==
  /\ TypeOK
  /\ RequestsPending
  /\ TargetsFollow
  /\ ViewersFollow
  /\ TargetsOnlyInPush
  /\ OnlyLinkedVisited

\* The helpers return what their names say.
LEMMA UpdatedType ==
  ASSUME NEW f \in [Vars -> Values], NEW g \in [Vars -> Values],
         NEW D \in SUBSET Vars
  PROVE  /\ Updated(f, g, D) \in [Vars -> Values]
         /\ \A v \in D : Updated(f, g, D)[v] = g[v]
         /\ \A v \in Vars \ D : Updated(f, g, D)[v] = f[v]
BY DEF Updated

\* What the setters find different is among what they are given.
LEMMA DifferingType ==
  ASSUME NEW f, NEW g, NEW D \in SUBSET Vars
  PROVE  /\ Differing(f, g, D) \in SUBSET Vars
         /\ Differing(f, g, D) \subseteq D
         /\ \A v \in D : f[v] # g[v] <=> v \in Differing(f, g, D)
BY DEF Differing

USE DefaultAssumption, BoundAssumption

\* Freshly created varsets hold nothing but defaults.
LEMMA SharesInit == Init => Shares
<1> SUFFICES ASSUME Init PROVE Shares
  OBVIOUS
<1>1. TypeOK
  BY DEF Init, TypeOK, Defaults, PluginStates, SessionStates
<1>2. QED
  BY <1>1 DEF Init, Shares, RequestsPending, TargetsFollow, ViewersFollow,
              TargetsOnlyInPush, OnlyLinkedVisited, Linked, Viewers, Defaults

\* Every step of lt_var_* and its callers keeps the types.
LEMMA TypeNext == TypeOK /\ [Next]_vars => TypeOK'
<1> SUFFICES ASSUME TypeOK, [Next]_vars PROVE TypeOK'
  OBVIOUS
<1> USE DEF TypeOK, PluginStates, SessionStates, plugin, session, client,
            history
<1>1. ASSUME NEW c \in Clients, Create(c) PROVE TypeOK'
  BY <1>1 DEF Create
<1>2. ASSUME NEW c \in Clients, NEW v \in Vars, Copy(c, v) PROVE TypeOK'
  <2>1. /\ sreal'[c] \in [Vars -> Values] /\ sreq'[c] \in [Vars -> Values]
        /\ tocopy'[c] \in SUBSET Vars
    BY <1>2 DEF Copy
  <2>2. QED
    BY <1>2, <2>1 DEF Copy
<1>3. ASSUME NEW c \in Clients, Link(c) PROVE TypeOK'
  <2>1. missed' \in [Clients -> SUBSET Vars]
    BY <1>3 DEF Link, Differing
  <2>2. topush' \subseteq Clients
    BY <1>3 DEF Link
  <2>3. QED
    BY <1>3, <2>1, <2>2 DEF Link
<1>4. ASSUME NEW c \in Clients, SelectView(c) PROVE TypeOK'
  BY <1>4 DEF SelectView
<1>5. ASSUME NEW c \in Clients, NEW v \in Vars, NEW x \in Values, Ask(c, v, x)
      PROVE  TypeOK'
  <2>1. creq' \in [Clients -> [Vars -> Values]]
    BY <1>5 DEF Ask
  <2>2. cdirty' \in [Clients -> SUBSET Vars]
    BY <1>5 DEF Ask
  <2>3. asks' \in 0..MaxAsks
    BY <1>5 DEF Ask
  <2>5. QED
    BY <1>5, <2>1, <2>2, <2>3 DEF Ask
<1>6. ASSUME NEW c \in Clients, Modify(c) PROVE TypeOK'
  <2> DEFINE taken == Updated(sreq[c], creq[c], cdirty[c])
             flagged == sflag[c] \cup Differing(sreq[c], creq[c], cdirty[c])
  <2>1. taken \in [Vars -> Values]
    BY UpdatedType
  <2>2. flagged \in SUBSET Vars
    BY DifferingType
  <2>3. preq' \in [Vars -> Values]
    BY <1>6, <2>1, <2>2, UpdatedType DEF Modify
  <2>4. pdirty' \subseteq Vars
    <3>1. Differing(preq, taken, flagged) \in SUBSET Vars
      BY <2>2 DEF Differing
    <3>2. QED
      BY <1>6, <3>1 DEF Modify
  <2>5. /\ sreq' \in [Clients -> [Vars -> Values]]
        /\ sflag' \in [Clients -> SUBSET Vars]
        /\ cdirty' \in [Clients -> SUBSET Vars]
    BY <1>6, <2>1 DEF Modify
  <2>6. QED
    BY <1>6, <2>3, <2>4, <2>5 DEF Modify
<1>7. ASSUME NEW c \in Clients, Send(c) PROVE TypeOK'
  <2>1. Updated(shown[c], sreal[c], sdirty[c]) \in [Vars -> Values]
    BY UpdatedType
  <2>2. QED
    BY <1>7, <2>1 DEF Send
<1>8. CASE Wake
  BY <1>8 DEF Wake
<1>9. CASE Apply
  <2>1. preal' \in [Vars -> Values]
    BY <1>9, UpdatedType DEF Apply
  <2>2. pflag' \subseteq Vars
    BY <1>9, DifferingType DEF Apply
  <2>3. QED
    BY <1>9, <2>1, <2>2 DEF Apply, Linked
<1>10. ASSUME NEW c \in Clients, Push(c) PROVE TypeOK'
  <2>1. Updated(sreal[c], preal, pflag) \in [Vars -> Values]
    BY UpdatedType
  <2>2. Differing(sreal[c], preal, pflag) \in SUBSET Vars
    BY DifferingType
  <2>3. QED
    BY <1>10, <2>1, <2>2 DEF Push
<1>11. CASE Pushed
  BY <1>11 DEF Pushed
<1>12. CASE UNCHANGED vars
  BY <1>12 DEF vars
<1>13. QED
  BY <1>1, <1>2, <1>3, <1>4, <1>5, <1>6, <1>7, <1>8, <1>9, <1>10, <1>11,
     <1>12 DEF Next, SessionStep, PluginStep

-----------------------------------------------------------------------------
(* What each action does to the parts of Shares it can disturb.            *)

\* A session's sync marks every request it changes for the plugin.
LEMMA ModifyShares ==
  ASSUME Shares, NEW c \in Clients, Modify(c)
  PROVE  RequestsPending'
<1> DEFINE taken == Updated(sreq[c], creq[c], cdirty[c])
           flagged == sflag[c] \cup Differing(sreq[c], creq[c], cdirty[c])
<1>1. taken \in [Vars -> Values]
  BY UpdatedType DEF Shares, TypeOK
<1>2. flagged \in SUBSET Vars
  BY DifferingType DEF Shares, TypeOK
<1>3. /\ preq' = Updated(preq, taken, flagged)
      /\ pdirty' = pdirty \cup Differing(preq, taken, flagged)
      /\ preal' = preal
  BY DEF Modify
<1>4. SUFFICES ASSUME NEW v \in Vars, preq'[v] # preal[v]
               PROVE  v \in pdirty'
  BY <1>3 DEF RequestsPending
<1>5. CASE v \in Differing(preq, taken, flagged)
  BY <1>3, <1>5
<1>6. CASE v \notin Differing(preq, taken, flagged)
  <2>1. preq'[v] = preq[v]
    <3>1. preq \in [Vars -> Values]
      BY DEF Shares, TypeOK
    <3>2. v \in flagged => preq[v] = taken[v]
      BY <1>2, <1>6, DifferingType
    <3>3. QED
      BY <1>1, <1>2, <1>3, <3>1, <3>2, UpdatedType
  <2>2. QED
    BY <1>3, <1>4, <2>1 DEF Shares, RequestsPending
<1>7. QED
  BY <1>5, <1>6

\* The plugin applies all requests and flags what became different.
LEMMA ApplyShares ==
  ASSUME Shares, Apply
  PROVE  RequestsPending' /\ TargetsFollow' /\ OnlyLinkedVisited'
<1> USE DEF Shares, TypeOK
<1>1. /\ preal' = Updated(preal, preq, pdirty)
      /\ pflag' = pflag \cup Differing(preal, preq, pdirty)
      /\ topush' = Linked
      /\ preq' = preq /\ spc' = spc /\ sreal' = sreal /\ missed' = missed
  BY DEF Apply, session, history
<1>2. Linked' = Linked
  BY <1>1 DEF Linked
<1>3. \A v \in Vars : preal'[v] = preq[v]
  <2>1. /\ preal \in [Vars -> Values] /\ preq \in [Vars -> Values]
        /\ pdirty \in SUBSET Vars
    OBVIOUS
  <2>2. /\ \A v \in pdirty : preal'[v] = preq[v]
        /\ \A v \in Vars \ pdirty : preal'[v] = preal[v]
    BY <1>1, <2>1 DEF Updated
  <2>3. QED
    BY <2>2 DEF RequestsPending
<1>4. RequestsPending'
  BY <1>1, <1>3 DEF RequestsPending
<1>5. ASSUME NEW d \in Linked, NEW v \in Vars \ missed[d],
             sreal[d][v] # preal'[v]
      PROVE  v \in pflag' /\ d \in topush'
  <2>1. topush = {}
    BY DEF Apply, TargetsOnlyInPush
  <2>2. sreal[d][v] = preal[v]
    BY <2>1 DEF TargetsFollow
  <2>3. v \in pdirty /\ preal[v] # preq[v]
    BY <1>3, <1>5, <2>2 DEF RequestsPending
  <2>4. v \in Differing(preal, preq, pdirty)
    BY <2>3, DifferingType
  <2>5. QED
    BY <1>1, <2>4
<1>6. TargetsFollow'
  BY <1>1, <1>2, <1>5 DEF TargetsFollow
<1>7. QED
  BY <1>1, <1>2, <1>4, <1>6 DEF OnlyLinkedVisited

\* A push brings one target up to date and marks what its user must see.
LEMMA PushShares ==
  ASSUME Shares, NEW c \in Clients, Push(c)
  PROVE  TargetsFollow' /\ ViewersFollow' /\ OnlyLinkedVisited'
<1> USE DEF Shares, TypeOK
<1> DEFINE new == Updated(sreal[c], preal, pflag)
<1>1. /\ sreal' = [sreal EXCEPT ![c] = new]
      /\ sdirty' = [sdirty EXCEPT ![c] = @ \cup
                                         Differing(sreal[c], preal, pflag)]
      /\ missed' = [missed EXCEPT ![c] = @ \ pflag]
      /\ topush' = topush \ {c}
      /\ preal' = preal /\ pflag' = pflag /\ spc' = spc /\ shown' = shown
  BY DEF Push, client
<1>2. Linked' = Linked /\ Viewers' = Viewers
  BY <1>1 DEF Linked, Viewers
<1>3. /\ \A v \in pflag : new[v] = preal[v]
      /\ \A v \in Vars \ pflag : new[v] = sreal[c][v]
  <2>1. /\ sreal[c] \in [Vars -> Values] /\ preal \in [Vars -> Values]
        /\ pflag \in SUBSET Vars
    OBVIOUS
  <2>2. QED
    BY <2>1 DEF Updated
<1>4. \A d \in Clients \ {c} : /\ sreal'[d] = sreal[d]
                               /\ sdirty'[d] = sdirty[d]
                               /\ missed'[d] = missed[d]
  BY <1>1
<1>5. /\ sreal'[c] = new
      /\ sdirty'[c] = sdirty[c] \cup Differing(sreal[c], preal, pflag)
      /\ missed'[c] = missed[c] \ pflag
  BY <1>1
<1>6. ASSUME NEW d \in Linked, NEW v \in Vars \ missed'[d],
             sreal'[d][v] # preal[v]
      PROVE  v \in pflag /\ d \in topush'
  <2>1. CASE d = c
    <3>1. v \notin pflag
      BY <1>3, <1>5, <1>6, <2>1
    <3>2. v \notin missed[c] /\ sreal[c][v] # preal[v]
      BY <1>3, <1>5, <1>6, <2>1, <3>1
    <3>3. QED
      BY <2>1, <3>1, <3>2 DEF TargetsFollow
  <2>2. CASE d # c
    BY <1>1, <1>4, <1>6, <2>2 DEF TargetsFollow, Linked
  <2>3. QED
    BY <2>1, <2>2
<1>7. TargetsFollow'
  BY <1>1, <1>2, <1>6 DEF TargetsFollow
<1>8. ASSUME NEW d \in Viewers, NEW v \in Vars, shown[d][v] # sreal'[d][v]
      PROVE  v \in sdirty'[d]
  <2>1. CASE d = c /\ v \in pflag /\ sreal[c][v] # preal[v]
    <3>1. v \in Differing(sreal[c], preal, pflag)
      BY <2>1, DifferingType
    <3>2. QED
      BY <1>5, <2>1, <3>1
  <2>2. CASE d = c /\ ~(v \in pflag /\ sreal[c][v] # preal[v])
    <3>1. new[v] = sreal[c][v]
      BY <1>3, <2>2
    <3>2. QED
      BY <1>5, <1>8, <2>2, <3>1 DEF ViewersFollow
  <2>3. CASE d # c
    BY <1>4, <1>8, <2>3 DEF ViewersFollow, Viewers
  <2>4. QED
    BY <2>1, <2>2, <2>3
<1>9. ViewersFollow'
  BY <1>1, <1>2, <1>8 DEF ViewersFollow
<1>10. QED
  BY <1>1, <1>2, <1>7, <1>9 DEF OnlyLinkedVisited

\* lt_var_set_source_set adds a target, which is pushed to or has missed it.
LEMMA LinkShares ==
  ASSUME Shares, NEW c \in Clients, Link(c)
  PROVE  TargetsFollow' /\ ViewersFollow' /\ TargetsOnlyInPush'
         /\ OnlyLinkedVisited'
<1> USE DEF Shares, TypeOK
<1>1. /\ spc' = [spc EXCEPT ![c] = "linked"]
      /\ missed' = [missed EXCEPT ![c] =
                      {v \in Differing(sreal[c], preal, Vars) :
                         ~(v \in pflag /\ c \in topush')}]
      /\ preal' = preal /\ pflag' = pflag /\ ppc' = ppc
      /\ sreal' = sreal /\ sdirty' = sdirty /\ shown' = shown
  BY DEF Link, client
<1>2. Linked' = Linked \cup {c} /\ Viewers' = Viewers
  BY <1>1 DEF Linked, Viewers, Link
<1>3. \/ topush' = topush
      \/ ppc = "push" /\ topush' = topush \cup {c}
  BY DEF Link
<1>4. ASSUME NEW d \in Linked', NEW v \in Vars \ missed'[d],
             sreal[d][v] # preal[v]
      PROVE  v \in pflag /\ d \in topush'
  <2>1. CASE d = c
    <3>1. v \in Differing(sreal[c], preal, Vars)
      BY <1>4, <2>1, DifferingType
    <3>2. QED
      BY <1>1, <1>4, <2>1, <3>1
  <2>2. CASE d # c
    <3>1. d \in Linked /\ missed'[d] = missed[d]
      BY <1>1, <1>2, <2>2 DEF Linked
    <3>2. QED
      BY <1>3, <1>4, <3>1 DEF TargetsFollow
  <2>3. QED
    BY <2>1, <2>2
<1>5. TargetsFollow'
  BY <1>1, <1>4 DEF TargetsFollow
<1>6. ViewersFollow'
  BY <1>1, <1>2 DEF ViewersFollow
<1>7. QED
  BY <1>1, <1>2, <1>3, <1>5, <1>6 DEF TargetsOnlyInPush, OnlyLinkedVisited

\* No step of the plugin, a session or a user loses a value on its way.
LEMMA SharesNext == Shares /\ [Next]_vars => Shares'
<1> SUFFICES ASSUME Shares, [Next]_vars PROVE Shares'
  OBVIOUS
<1>1. TypeOK'
  BY TypeNext DEF Shares
<1> USE DEF plugin, session, client, history
<1>2. ASSUME NEW c \in Clients, Create(c) PROVE Shares'
  <2>1. Linked' = Linked /\ Viewers' = Viewers
    BY <1>2 DEF Create, Linked, Viewers, Shares, TypeOK
  <2>2. QED
    BY <1>1, <1>2, <2>1 DEF Create, Shares, RequestsPending, TargetsFollow,
       ViewersFollow, TargetsOnlyInPush, OnlyLinkedVisited
<1>3. ASSUME NEW c \in Clients, NEW v \in Vars, Copy(c, v) PROVE Shares'
  <2>1. Linked' = Linked /\ Viewers' = Viewers
    BY <1>3 DEF Copy, Linked, Viewers
  <2>2. \A d \in Linked \cup Viewers : sreal'[d] = sreal[d]
    BY <1>3 DEF Copy, Linked, Viewers, Shares, TypeOK
  <2>3. QED
    BY <1>1, <1>3, <2>1, <2>2 DEF Copy, Shares, RequestsPending,
       TargetsFollow, ViewersFollow, TargetsOnlyInPush, OnlyLinkedVisited
<1>4. ASSUME NEW c \in Clients, Link(c) PROVE Shares'
  <2>1. RequestsPending'
    BY <1>4 DEF Link, Shares, RequestsPending
  <2>2. QED
    BY <1>1, <1>4, <2>1, LinkShares DEF Shares
<1>5. ASSUME NEW c \in Clients, SelectView(c) PROVE Shares'
  <2>1. Linked' = Linked /\ Viewers' = Viewers \cup {c}
    BY <1>5 DEF SelectView, Linked, Viewers, Shares, TypeOK
  <2>2. ViewersFollow'
    BY <1>5, <2>1 DEF SelectView, Shares, TypeOK, ViewersFollow, Viewers
  <2>3. QED
    BY <1>1, <1>5, <2>1, <2>2 DEF SelectView, Shares, RequestsPending,
       TargetsFollow, TargetsOnlyInPush, OnlyLinkedVisited
<1>6. ASSUME NEW c \in Clients, NEW v \in Vars, NEW x \in Values, Ask(c, v, x)
      PROVE  Shares'
  BY <1>1, <1>6 DEF Ask, Shares, RequestsPending, TargetsFollow,
     ViewersFollow, TargetsOnlyInPush, OnlyLinkedVisited, Linked, Viewers
<1>7. ASSUME NEW c \in Clients, Modify(c) PROVE Shares'
  <2>1. RequestsPending'
    BY <1>7, ModifyShares
  <2>2. QED
    BY <1>1, <1>7, <2>1 DEF Modify, Shares, TargetsFollow, ViewersFollow,
       TargetsOnlyInPush, OnlyLinkedVisited, Linked, Viewers
<1>8. ASSUME NEW c \in Clients, Send(c) PROVE Shares'
  <2>1. Linked' = Linked /\ Viewers' = Viewers
    BY <1>8 DEF Send, Linked, Viewers
  <2>2. \A v \in Vars : shown'[c][v] = sreal[c][v]
    <3>1. shown'[c] = Updated(shown[c], sreal[c], sdirty[c])
      BY <1>8 DEF Send, Shares, TypeOK
    <3>2. shown[c] \in [Vars -> Values] /\ sreal[c] \in [Vars -> Values]
          /\ sdirty[c] \in SUBSET Vars
      BY DEF Shares, TypeOK
    <3>3. c \in Viewers
      BY <1>8 DEF Send, Viewers
    <3>4. QED
      BY <3>1, <3>2, <3>3, UpdatedType DEF Shares, ViewersFollow
  <2>3. ViewersFollow'
    BY <1>8, <2>1, <2>2 DEF Send, Shares, TypeOK, ViewersFollow, Viewers
  <2>4. QED
    BY <1>1, <1>8, <2>1, <2>3 DEF Send, Shares, RequestsPending,
       TargetsFollow, TargetsOnlyInPush, OnlyLinkedVisited
<1>9. CASE Wake
  <2>1. topush = {}
    BY <1>9 DEF Wake, Shares, TargetsOnlyInPush
  <2>2. QED
    BY <1>1, <1>9, <2>1 DEF Wake, Shares, RequestsPending, TargetsFollow,
       ViewersFollow, TargetsOnlyInPush, OnlyLinkedVisited, Linked, Viewers
<1>10. CASE Apply
  <2>1. ViewersFollow' /\ TargetsOnlyInPush'
    BY <1>10 DEF Apply, Shares, ViewersFollow, Viewers, TargetsOnlyInPush
  <2>2. QED
    BY <1>1, <1>10, <2>1, ApplyShares DEF Shares
<1>11. ASSUME NEW c \in Clients, Push(c) PROVE Shares'
  <2>1. RequestsPending' /\ TargetsOnlyInPush'
    BY <1>11 DEF Push, Shares, RequestsPending, TargetsOnlyInPush
  <2>2. QED
    BY <1>1, <1>11, <2>1, PushShares DEF Shares
<1>12. CASE Pushed
  BY <1>1, <1>12 DEF Pushed, Shares, RequestsPending, TargetsFollow,
     ViewersFollow, TargetsOnlyInPush, OnlyLinkedVisited, Linked, Viewers
<1>13. CASE UNCHANGED vars
  BY <1>1, <1>13 DEF vars, Shares, RequestsPending, TargetsFollow,
     ViewersFollow, TargetsOnlyInPush, OnlyLinkedVisited, Linked, Viewers
<1>14. QED
  BY <1>2, <1>3, <1>4, <1>5, <1>6, <1>7, <1>8, <1>9, <1>10, <1>11, <1>12,
     <1>13 DEF Next, SessionStep, PluginStep

-----------------------------------------------------------------------------
\* The inductive invariant holds: what is requested, real or pushed is never
\* lost on its way from one varset to the next.
THEOREM SharesHolds == Spec => []Shares
BY SharesInit, SharesNext, PTL DEF Spec

\* Every varset keeps to its variables and their values.
THEOREM TypeCorrect == Spec => []TypeOK
<1>1. Shares => TypeOK
  BY DEF Shares
<1>2. QED
  BY SharesHolds, <1>1, PTL

\* No request that reached the plugin's varset is forgotten.
THEOREM RequestsArePending == Spec => []RequestsPending
<1>1. Shares => RequestsPending
  BY DEF Shares
<1>2. QED
  BY SharesHolds, <1>1, PTL

\* Sessions follow the plugin, but for what they missed while being set up.
THEOREM SessionsFollow == Spec => [](TargetsFollow /\ ViewersFollow)
<1>1. Shares => TargetsFollow /\ ViewersFollow
  BY DEF Shares
<1>2. QED
  BY SharesHolds, <1>1, PTL

\* When nothing is on its way all users see the value last requested.
THEOREM QuietAgreementHolds == Spec => []QuietViewersAgree
<1>1. Shares => QuietViewersAgree
  <2> SUFFICES ASSUME Shares, Quiet, NEW c \in Viewers,
                      NEW v \in Vars \ missed[c]
               PROVE  shown[c][v] = preal[v] /\ preal[v] = preq[v]
    BY DEF QuietViewersAgree
  <2>1. preq[v] = preal[v]
    BY DEF Shares, RequestsPending, Quiet
  <2>2. shown[c][v] = sreal[c][v]
    BY DEF Shares, ViewersFollow, Quiet, Viewers
  <2>3. topush = {} /\ c \in Linked
    BY DEF Shares, TargetsOnlyInPush, Quiet, Viewers, Linked
  <2>4. sreal[c][v] = preal[v]
    BY <2>3 DEF Shares, TargetsFollow
  <2>5. QED
    BY <2>1, <2>2, <2>4
<1>2. QED
  BY SharesHolds, <1>1, PTL
=============================================================================
