--------------------------- MODULE EditorHistory ---------------------------
(***************************************************************************)
(* Why undoing takes the project's structure (its connections, views,      *)
(* panels and templates) back to what it was: every command on the stack,  *)
(* with what it keeps, leads from one entry of the history to the next,    *)
(* and back.                                                               *)
(*                                                                         *)
(* A name that is overwritten or a link that is merged breaks this for     *)
(* templates and their links, but never for the names of connections,      *)
(* views and panels: a command always finds those it works on.             *)
(***************************************************************************)
EXTENDS Editor

(***************************************************************************)
(* What projects are made of                                               *)
(***************************************************************************)
Dict(d) ==
  /\ d \in Seq({d[i] : i \in DOMAIN d})
  /\ \A i \in DOMAIN d : d[i] = Entry(d[i].key, d[i].val)
  /\ IsDict(d)

Connection(c) == c = [type |-> c.type, vars |-> c.vars] /\ Dict(c.vars)
Shelf(ps)     == Dict(ps) /\ \A p \in Keys(ps) : Dict(At(ps, p))

ConnsTyped(cs) == Dict(cs) /\ \A c \in Keys(cs) : Connection(At(cs, c))
ViewsTyped(vs) == Dict(vs) /\ \A w \in Keys(vs) : Shelf(At(vs, w))

Typed(s) == ConnsTyped(s.conns) /\ ViewsTyped(s.views)

\* Whatever a file says, what is read from it is put into dictionaries.
ASSUME DataAssumption ==
  Typed(InitProject) /\ \A c \in Imports : Connection(c)

-----------------------------------------------------------------------------
(***************************************************************************)
(* The names of the connections, the views and their panels                *)
(***************************************************************************)
\* Connections by Keys; of views, the names of each one's panels.
Catalog(vs) == [w \in Keys(vs) |-> Keys(At(vs, w))]

ConnectionKinds == {"AddConnection", "Reimport", "DelConnection", "RenameConnection"}
VariableKinds   == {"AddVariable", "DelVariable", "RenameVariable"}
ViewKinds       == {"AddView", "DelView", "RenameView", "ReorderView"}
PanelKinds      == {"AddPanel", "DelPanel", "RenamePanel", "PanelOrder"}
TemplateKinds   == {"AddSelection", "DelSelection", "RenameTemplate", "TabOrder",
                    "SetLink"}

\* The command finds the connection it works on among cs, and leaves ds.
NamesConns(cmd, cs, ds) ==
  /\ cmd.kind = "AddConnection" => cmd.cn \notin cs /\ ds = cs \cup {cmd.cn}
  /\ cmd.kind = "DelConnection" => cmd.cn \in cs /\ ds = cs \ {cmd.cn}
  /\ cmd.kind = "RenameConnection" =>
       cmd.old \in cs /\ cmd.new \notin cs /\ ds = (cs \ {cmd.old}) \cup {cmd.new}
  /\ cmd.kind \in VariableKinds \cup {"Reimport"} => cmd.cn \in cs
  /\ cmd.kind \notin ConnectionKinds \ {"Reimport"} => ds = cs

\* It finds the view and the panel among ps, and leaves qs.
NamesPanels(cmd, ps, qs) ==
  /\ cmd.kind = "AddView" =>
       /\ cmd.name \notin DOMAIN ps
       /\ qs = [w \in DOMAIN ps \cup {cmd.name} |->
                  IF w = cmd.name THEN Keys(cmd.view) ELSE ps[w]]
  /\ cmd.kind = "DelView" =>
       /\ cmd.name \in DOMAIN ps /\ ps[cmd.name] = Keys(cmd.view)
       /\ qs = [w \in DOMAIN ps \ {cmd.name} |-> ps[w]]
  /\ cmd.kind = "RenameView" =>
       /\ cmd.old \in DOMAIN ps /\ cmd.new \notin DOMAIN ps
       /\ qs = [w \in (DOMAIN ps \ {cmd.old}) \cup {cmd.new} |->
                  ps[IF w = cmd.new THEN cmd.old ELSE w]]
  /\ cmd.kind = "AddPanel" =>
       /\ cmd.view \in DOMAIN ps /\ cmd.name \notin ps[cmd.view]
       /\ qs = [ps EXCEPT ![cmd.view] = @ \cup {cmd.name}]
  /\ cmd.kind = "DelPanel" =>
       /\ cmd.view \in DOMAIN ps /\ cmd.name \in ps[cmd.view]
       /\ qs = [ps EXCEPT ![cmd.view] = @ \ {cmd.name}]
  /\ cmd.kind = "RenamePanel" =>
       /\ cmd.view \in DOMAIN ps
       /\ cmd.old \in ps[cmd.view] /\ cmd.new \notin ps[cmd.view]
       /\ qs = [ps EXCEPT ![cmd.view] = (@ \ {cmd.old}) \cup {cmd.new}]
  /\ cmd.kind = "PanelOrder" => cmd.view \in DOMAIN ps
  /\ cmd.kind \in TemplateKinds => cmd.view \in DOMAIN ps /\ cmd.panel \in ps[cmd.view]
  /\ cmd.kind \notin {"AddView", "DelView", "RenameView",
                      "AddPanel", "DelPanel", "RenamePanel"} => qs = ps

Named(cmd, s, t) ==
  /\ NamesConns(cmd, Keys(s.conns), Keys(t.conns))
  /\ NamesPanels(cmd, Catalog(s.views), Catalog(t.views))

\* What a command keeps of the project is well made, too.
Fits(cmd) ==
  /\ "kind" \in DOMAIN cmd /\ cmd.kind \in Kinds
  /\ cmd.kind \in ConnectionKinds \ {"RenameConnection"} =>
       {"cn", "c"} \subseteq DOMAIN cmd /\ Connection(cmd.c)
  /\ cmd.kind = "Reimport" =>
       {"old", "pos"} \subseteq DOMAIN cmd /\ Connection(cmd.old)
  /\ cmd.kind \in {"AddView", "DelView"} =>
       {"name", "view", "pos"} \subseteq DOMAIN cmd /\ Shelf(cmd.view)
  /\ cmd.kind \in {"AddPanel", "DelPanel"} =>
       {"view", "name", "panel", "pos"} \subseteq DOMAIN cmd /\ Dict(cmd.panel)
  /\ cmd.kind = "AddPanel" => "src" \in DOMAIN cmd
  /\ cmd.kind \in {"AddSelection", "DelSelection"} =>
       {"view", "panel", "ts"} \subseteq DOMAIN cmd /\ Dict(cmd.ts)
  /\ cmd.kind = "DelSelection" => "pos" \in DOMAIN cmd

\* In every state.
Recorded ==
  /\ Typed(project) /\ Typed(file)
  /\ Len(past) = Len(stack) + 1
  /\ past \in Seq({past[i] : i \in DOMAIN past})
  /\ \A i \in DOMAIN past : Typed(past[i])
  /\ \A i \in DOMAIN stack : Fits(stack[i]) /\ Named(stack[i], past[i], past[i + 1])
  /\ Keys(project.conns) = Keys(past[last + 1].conns)
  /\ Catalog(project.views) = Catalog(past[last + 1].views)
  /\ slips \subseteq Causes

-----------------------------------------------------------------------------
(***************************************************************************)
(* There and back                                                          *)
(***************************************************************************)
\* From the dictionary d to e and back, with the key, the value and the
\* position the command keeps.
Adds(k, v, pos, d, e) ==
  /\ k \notin Keys(d)
  /\ e = IF pos = 0 THEN Put(d, k, v) ELSE MoveTo(Put(d, k, v), k, pos)

Drops(k, v, pos, d, e) ==
  k \in Keys(d) /\ v = At(d, k) /\ pos = IndexOf(d, k) /\ e = Drop(d, k)

Rekeyed(d, o, n) == [d EXCEPT ![IndexOf(d, o)] = Entry(n, At(d, o))]

Rekeys(o, n, d, e) == o \in Keys(d) /\ n \notin Keys(d) /\ e = Rekeyed(d, o, n)

Swaps(lower, upper, pos, d, e) ==
  /\ pos \in DOMAIN d /\ pos + 1 \in DOMAIN d
  /\ upper = d[pos].key /\ lower = d[pos + 1].key
  /\ e = MoveTo(d, lower, pos)

\* What the first i deletions of a selection leave.
Left(d, ts, i) == FoldLeft(LAMBDA a, x : Drop(a, x.key), d, SubSeq(ts, 1, i))

DropsAll(ts, pos, d, e) ==
  /\ \A i \in DOMAIN ts :
       Drops(ts[i].key, ts[i].val, pos[i], Left(d, ts, i - 1), Left(d, ts, i))
  /\ e = Left(d, ts, Len(ts))

InConnections(s, t) == t.views = s.views
InVariables(c, s, t) ==
  /\ InConnections(s, t) /\ c \in Keys(s.conns)
  /\ t.conns = With(s.conns, c, [At(s.conns, c) EXCEPT !.vars = VarsOf(t, c)])

InViews(s, t) == t.conns = s.conns
InPanels(w, s, t) ==
  /\ InViews(s, t) /\ w \in Keys(s.views)
  /\ t.views = With(s.views, w, PanelsOf(t, w))
InTemplates(w, p, s, t) ==
  /\ InPanels(w, s, t) /\ p \in Keys(PanelsOf(s, w))
  /\ PanelsOf(t, w) = With(PanelsOf(s, w), p, TemplatesOf(t, w, p))

\* The panels of a view with every link to o made to n.
AllRelinked(ps, o, n) ==
  [i \in DOMAIN ps |-> Entry(ps[i].key, Relinked(ps[i].val, o, n))]

DoesConnection(cmd, s, t) ==
  /\ cmd.kind = "AddConnection" => Adds(cmd.cn, cmd.c, 0, s.conns, t.conns)
  /\ cmd.kind = "Reimport" =>
       /\ cmd.cn \in Keys(s.conns)
       /\ cmd.old = At(s.conns, cmd.cn) /\ cmd.pos = IndexOf(s.conns, cmd.cn)
       /\ t.conns = Put(Drop(s.conns, cmd.cn), cmd.cn, cmd.c)
  /\ cmd.kind = "DelConnection" => Drops(cmd.cn, cmd.c, cmd.pos, s.conns, t.conns)
  /\ cmd.kind = "RenameConnection" => Rekeys(cmd.old, cmd.new, s.conns, t.conns)

DoesVariable(cmd, d, e) ==
  /\ cmd.kind = "AddVariable"    => Adds(cmd.vn, cmd.vt, 0, d, e)
  /\ cmd.kind = "DelVariable"    => Drops(cmd.vn, cmd.vt, cmd.pos, d, e)
  /\ cmd.kind = "RenameVariable" => Rekeys(cmd.old, cmd.new, d, e)

DoesView(cmd, s, t) ==
  /\ cmd.kind = "AddView" => Adds(cmd.name, cmd.view, cmd.pos, s.views, t.views)
  /\ cmd.kind = "DelView" => Drops(cmd.name, cmd.view, cmd.pos, s.views, t.views)
  /\ cmd.kind = "RenameView" =>
       /\ cmd.pos = IndexOf(s.views, cmd.old)
       /\ Rekeys(cmd.old, cmd.new, s.views, t.views)
  /\ cmd.kind = "ReorderView" =>
       /\ cmd.from \in DOMAIN s.views /\ cmd.to \in DOMAIN s.views
       /\ t.views = MoveTo(s.views, s.views[cmd.from].key, cmd.to)

\* The panel of a copy has the original's links to itself made to the copy.
DoesPanel(cmd, d, e) ==
  /\ cmd.kind = "AddPanel" =>
       \/ cmd.src = None /\ Adds(cmd.name, cmd.panel, 0, d, e)
       \/ /\ cmd.src # None /\ cmd.src # cmd.name /\ cmd.pos # 0
          /\ Adds(cmd.name, Relinked(cmd.panel, cmd.src, cmd.name), cmd.pos, d, e)
  /\ cmd.kind = "DelPanel" => Drops(cmd.name, cmd.panel, cmd.pos, d, e)
  /\ cmd.kind = "RenamePanel" =>
       /\ cmd.old \in Keys(d) /\ cmd.new \notin Keys(d)
       /\ cmd.pos = IndexOf(d, cmd.old)
       /\ \A ts \in Values(d) : cmd.new \notin Values(ts)
       /\ e = AllRelinked(Rekeyed(d, cmd.old, cmd.new), cmd.old, cmd.new)
  /\ cmd.kind = "PanelOrder" => Swaps(cmd.lower, cmd.upper, cmd.pos, d, e)

DoesTemplate(cmd, d, e) ==
  /\ cmd.kind = "AddSelection" => Keys(cmd.ts) \cap Keys(d) = {} /\ e = d \o cmd.ts
  /\ cmd.kind = "DelSelection" => DropsAll(cmd.ts, cmd.pos, d, e)
  /\ cmd.kind = "RenameTemplate" =>
       cmd.pos = IndexOf(d, cmd.old) /\ Rekeys(cmd.old, cmd.new, d, e)
  /\ cmd.kind = "TabOrder" => Swaps(cmd.lower, cmd.upper, cmd.pos, d, e)
  /\ cmd.kind = "SetLink" =>
       /\ cmd.templ \in Keys(d) /\ cmd.old = At(d, cmd.templ)
       /\ e = With(d, cmd.templ, cmd.new)

Does(cmd, s, t) ==
  /\ cmd.kind \in ConnectionKinds => InConnections(s, t) /\ DoesConnection(cmd, s, t)
  /\ cmd.kind \in VariableKinds =>
       /\ InVariables(cmd.cn, s, t)
       /\ DoesVariable(cmd, VarsOf(s, cmd.cn), VarsOf(t, cmd.cn))
  /\ cmd.kind \in ViewKinds => InViews(s, t) /\ DoesView(cmd, s, t)
  /\ cmd.kind \in PanelKinds =>
       /\ InPanels(cmd.view, s, t)
       /\ DoesPanel(cmd, PanelsOf(s, cmd.view), PanelsOf(t, cmd.view))
  /\ cmd.kind \in TemplateKinds =>
       /\ InTemplates(cmd.view, cmd.panel, s, t)
       /\ DoesTemplate(cmd, TemplatesOf(s, cmd.view, cmd.panel),
                            TemplatesOf(t, cmd.view, cmd.panel))
  /\ cmd.kind = "ChangeBinding" => InConnections(s, t) /\ InViews(s, t)

Walk ==
  slips \cap {"merged", "overwritten"} = {} =>
    /\ project.conns = past[last + 1].conns
    /\ project.views = past[last + 1].views
    /\ \A i \in DOMAIN stack : Does(stack[i], past[i], past[i + 1])
=============================================================================
