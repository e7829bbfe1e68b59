------------------------------- MODULE Editor -------------------------------
(***************************************************************************)
(* The editor's project and its undo stack: the commands of                *)
(* lintouch-editor, each with its constructor (what it does before it is   *)
(* pushed), redo and undo; ProjectWindow, which executes them at once or,  *)
(* for names edited in a list, when the event loop next runs; saving and   *)
(* reverting.                                                              *)
(*                                                                         *)
(* A project is [conns, views, bs]: connections (a type and a dictionary   *)
(* of variables, each with its type), views (dictionaries of panels, each  *)
(* a dictionary of templates, each with the panel its link property        *)
(* names), and the table of bindings.  A command works on the view and the *)
(* panel shown when it was made; any may be.                               *)
(***************************************************************************)
EXTENDS Integers, Sequences, FiniteSets, SequencesExt, OrderedDict, Bindings

CONSTANTS
  Conns, Vars, Views, Panels, Templs,   \* the names
  VarTypes,      \* types of variables
  Imports,       \* what a connection file may hold: [type, vars]
  None,          \* no name
  InitProject,   \* the project opened
  MaxPushes      \* bound: commands pushed since it was opened

ASSUME BoundAssumption == MaxPushes \in Nat

\* A project file holds finitely many bindings, each with all its names.
ASSUME ProjectAssumption ==
  IsFiniteSet(InitProject.bound) /\ \A b \in InitProject.bound : IsBinding(b)

VARIABLES
  project,   \* the project being edited
  stack,     \* UndoStack: the commands, in order
  last,      \* how many of them are applied
  late,      \* ProjectWindow::lateCmd, a rename yet to be executed
  buffer,    \* CopyPasteBuffer: the templates' links and their bindings
  file,      \* what the project file holds
  intact,    \* whether all that was written last got there
  status,    \* "raced" or "crashed" once what follows is not modelled
  past,      \* history: past[i + 1] is the content with i commands applied
  slips,     \* history: the ways in which undoing has gone wrong
  pushes     \* how many commands have been pushed

history == <<past, slips, pushes>>
vars    == <<project, stack, last, late, buffer, file, intact, status, history>>

-----------------------------------------------------------------------------
(***************************************************************************)
(* Access to a project                                                     *)
(***************************************************************************)
PanelsOf(prj, w)       == At(prj.views, w)
TemplatesOf(prj, w, p) == At(At(prj.views, w), p)
VarsOf(prj, c)         == At(prj.conns, c).vars

SetPanels(prj, w, ps)       == [prj EXCEPT !.views = With(@, w, ps)]
SetTemplates(prj, w, p, ts) == SetPanels(prj, w, With(PanelsOf(prj, w), p, ts))
SetVars(prj, c, vs)         ==
  [prj EXCEPT !.conns = With(@, c, [At(@, c) EXCEPT !.vars = vs])]

Unbound(prj, S) == [prj EXCEPT !.bs = RemovedAll(@, S)]
Bound(prj, S)   == [prj EXCEPT !.bs = AddedAll(@, S)]

\* The bindings of all the templates of a panel's dictionary, of a view.
OfTemplates(bs, w, p, ts) == UNION {ByTemplate(bs, w, p, t) : t \in Keys(ts)}
OfPanels(bs, w, ps) ==
  UNION {OfTemplates(bs, w, p, At(ps, p)) : p \in Keys(ps)}

\* Every link to the panel o made to the panel n.
Relinked(ts, o, n) ==
  [i \in DOMAIN ts |-> IF ts[i].val = o THEN Entry(ts[i].key, n) ELSE ts[i]]

BoundValues(prj) == {prj.bs.cell[i] : i \in prj.bs.list}

NamesVariable(prj, b) ==
  b.conn \in Keys(prj.conns) /\ b.var \in Keys(VarsOf(prj, b.conn))
NamesTemplate(prj, b) ==
  /\ b.view \in Keys(prj.views) /\ b.panel \in Keys(PanelsOf(prj, b.view))
  /\ b.templ \in Keys(TemplatesOf(prj, b.view, b.panel))

Structure(prj) == [conns |-> prj.conns, views |-> prj.views]
Content(prj) ==
  [conns |-> prj.conns, views |-> prj.views, bound |-> BoundValues(prj)]

Causes == {"lost", "kept", "refused", "merged", "overwritten", "crossed", "stale"}

\* What a command's step gives: the command, the project, and what went wrong.
Result(cmd, prj, wrong) == [cmd |-> cmd, prj |-> prj, wrong |-> wrong]
If(test, cause) == IF test THEN {cause} ELSE {}

-----------------------------------------------------------------------------
(***************************************************************************)
(* Connections and variables                                               *)
(***************************************************************************)
AddConnection(cn, c) == [kind |-> "AddConnection", cn |-> cn, c |-> c]

RedoAddConnection(cmd, prj) ==
  Result(cmd, [prj EXCEPT !.conns = AddNew(@, cmd.cn, cmd.c)], {})

UndoAddConnection(cmd, prj) ==
  Result([cmd EXCEPT !.c = At(prj.conns, cmd.cn)],
         [prj EXCEPT !.conns = Drop(@, cmd.cn)], {})

\* The bindings of the connection leave the table before the command is
\* pushed; of those, the ones to variables the new connection also has (with
\* the same type, if the connections have) come back.
Reimport(prj, cn, c) ==
  LET old  == At(prj.conns, cn)
      same == {v \in Keys(old.vars) \cap Keys(c.vars) :
                 At(old.vars, v) = At(c.vars, v)}
  IN [kind |-> "Reimport", cn |-> cn, c |-> c, old |-> old,
      pos  |-> IndexOf(prj.conns, cn),
      bl    |-> IF c.type = old.type
                THEN UNION {ByVariable(prj.bs, cn, v) : v \in same} ELSE {},
      blOld |-> ByConnection(prj.bs, cn)]

RedoReimport(cmd, prj) ==
  LET bare == Unbound(prj, ByConnection(prj.bs, cmd.cn))
  IN Result([cmd EXCEPT !.old = At(prj.conns, cmd.cn)],
            Bound([bare EXCEPT !.conns = Put(Drop(@, cmd.cn), cmd.cn, cmd.c)],
                  cmd.bl), {})

UndoReimport(cmd, prj) ==
  LET bare == Unbound(prj, ByConnection(prj.bs, cmd.cn))
  IN Result([cmd EXCEPT !.c = At(prj.conns, cmd.cn)],
            Bound([bare EXCEPT !.conns =
                     MoveTo(Put(Drop(@, cmd.cn), cmd.cn, cmd.old), cmd.cn, cmd.pos)],
                  cmd.blOld), {})

\* Unbound by the constructor only: redone, it leaves the bindings its undo
\* put back.
DelConnection(prj, cn) ==
  [kind |-> "DelConnection", cn |-> cn, c |-> At(prj.conns, cn),
   pos |-> IndexOf(prj.conns, cn), bl |-> ByConnection(prj.bs, cn)]

RedoDelConnection(cmd, prj) ==
  Result(cmd, [prj EXCEPT !.conns = Drop(@, cmd.cn)],
         If(ByConnection(prj.bs, cmd.cn) # {}, "kept"))

UndoDelConnection(cmd, prj) ==
  Result(cmd, Bound([prj EXCEPT !.conns =
                       MoveTo(AddNew(@, cmd.cn, cmd.c), cmd.cn, cmd.pos)],
                    cmd.bl), {})

RenameConnection(o, n) == [kind |-> "RenameConnection", old |-> o, new |-> n]

ConnectionRenamed(cmd, prj, o, n) ==
  Result(cmd,
    [prj EXCEPT !.conns = PutAt(Drop(@, o), n, At(@, o), IndexOf(@, o)),
                !.bs = RenamedConnection(@, o, n)],
    If(ByConnection(prj.bs, o) # {} /\ Refused(prj.bs, [conn |-> o], "conn", n),
       "refused"))

AddVariable(cn, vn, vt) == [kind |-> "AddVariable", cn |-> cn, vn |-> vn, vt |-> vt]

RedoAddVariable(cmd, prj) ==
  Result(cmd, SetVars(prj, cmd.cn, Put(VarsOf(prj, cmd.cn), cmd.vn, cmd.vt)), {})

UndoAddVariable(cmd, prj) ==
  Result(cmd, SetVars(prj, cmd.cn, Drop(VarsOf(prj, cmd.cn), cmd.vn)), {})

\* As a connection: unbound by the constructor only.
DelVariable(prj, cn, vn) ==
  [kind |-> "DelVariable", cn |-> cn, vn |-> vn, vt |-> At(VarsOf(prj, cn), vn),
   pos |-> IndexOf(VarsOf(prj, cn), vn), bl |-> ByVariable(prj.bs, cn, vn)]

RedoDelVariable(cmd, prj) ==
  Result(cmd, SetVars(prj, cmd.cn, Drop(VarsOf(prj, cmd.cn), cmd.vn)),
         If(ByVariable(prj.bs, cmd.cn, cmd.vn) # {}, "kept"))

\* Mutant of UndoDelVariable: the bindings are not put back.
UndoDelVariableOnly(cmd, prj) ==
  Result(cmd,
    SetVars(prj, cmd.cn, MoveTo(Put(VarsOf(prj, cmd.cn), cmd.vn, cmd.vt),
                                cmd.vn, cmd.pos)), {})

UndoDelVariable(cmd, prj) ==
  Result(cmd,
    Bound(SetVars(prj, cmd.cn, MoveTo(Put(VarsOf(prj, cmd.cn), cmd.vn, cmd.vt),
                                      cmd.vn, cmd.pos)),
          cmd.bl), {})

RenameVariable(cn, o, n) ==
  [kind |-> "RenameVariable", cn |-> cn, old |-> o, new |-> n]

VariableRenamed(cmd, prj, o, n) ==
  LET vd == VarsOf(prj, cmd.cn)
  IN Result(cmd,
       [SetVars(prj, cmd.cn, PutAt(Drop(vd, o), n, At(vd, o), IndexOf(vd, o)))
          EXCEPT !.bs = RenamedVariable(@, cmd.cn, o, n)],
       If(/\ ByVariable(prj.bs, cmd.cn, o) # {}
          /\ Refused(prj.bs, [conn |-> cmd.cn, var |-> o], "var", n), "refused"))

-----------------------------------------------------------------------------
(***************************************************************************)
(* Views                                                                   *)
(***************************************************************************)
AddView(n) == [kind |-> "AddView", name |-> n, view |-> << >>, pos |-> 0]

\* The bindings of the copy are prepared here, and cleared by redo.
DupView(prj, src, n) ==
  [kind |-> "AddView", name |-> n, view |-> PanelsOf(prj, src),
   pos |-> IndexOf(prj.views, src) + 1]

RedoAddView(cmd, prj) ==
  Result(cmd,
    [prj EXCEPT !.views = IF cmd.pos = 0 THEN AddNew(@, cmd.name, cmd.view)
                          ELSE MoveTo(AddNew(@, cmd.name, cmd.view), cmd.name, cmd.pos)],
    {})

UndoAddView(cmd, prj) ==
  LET view == PanelsOf(prj, cmd.name)
  IN Result([cmd EXCEPT !.view = view],
            [Unbound(prj, OfPanels(prj.bs, cmd.name, view))
               EXCEPT !.views = Drop(@, cmd.name)], {})

DelView(prj, n) ==
  [kind |-> "DelView", name |-> n, view |-> PanelsOf(prj, n),
   pos |-> IndexOf(prj.views, n), bl |-> OfPanels(prj.bs, n, PanelsOf(prj, n))]

\* redo forgets the bindings the constructor has saved.
RedoDelView(cmd, prj) ==
  Result([cmd EXCEPT !.view = PanelsOf(prj, cmd.name), !.bl = {}],
         [prj EXCEPT !.views = Drop(@, cmd.name)],
         If(cmd.bl # {}, "lost")
           \cup If(OfPanels(prj.bs, cmd.name, PanelsOf(prj, cmd.name)) # {}, "kept"))

\* Mutant of UndoDelView: the view comes back at the end.
UndoDelViewAtEnd(cmd, prj) ==
  Result(cmd, Bound([prj EXCEPT !.views = AddNew(@, cmd.name, cmd.view)], cmd.bl), {})

UndoDelView(cmd, prj) ==
  Result(cmd, Bound([prj EXCEPT !.views =
                       MoveTo(AddNew(@, cmd.name, cmd.view), cmd.name, cmd.pos)],
                    cmd.bl), {})

RenameView(prj, o, n) ==
  [kind |-> "RenameView", old |-> o, new |-> n, pos |-> IndexOf(prj.views, o)]

ViewRenamed(cmd, prj, o, n) ==
  Result(cmd,
    [prj EXCEPT !.views = MoveTo(AddNew(Drop(@, o), n, At(@, o)), n, cmd.pos),
                !.bs = RenamedView(@, o, n)],
    If(Listed(prj.bs, [view |-> o]) # {} /\ Refused(prj.bs, [view |-> o], "view", n),
       "refused"))

\* One position up or down.
ReorderView(from, to) == [kind |-> "ReorderView", from |-> from, to |-> to]

ViewMoved(cmd, prj, from, to) ==
  Result(cmd, [prj EXCEPT !.views = MoveTo(@, @[from].key, to)], {})

-----------------------------------------------------------------------------
(***************************************************************************)
(* Panels                                                                  *)
(***************************************************************************)
AddPanel(w, n) ==
  [kind |-> "AddPanel", view |-> w, name |-> n, panel |-> << >>, src |-> None,
   pos |-> 0]

\* As for a view, the bindings of the copy do not survive redo.
DupPanel(prj, w, src, n) ==
  [kind |-> "AddPanel", view |-> w, name |-> n, panel |-> TemplatesOf(prj, w, src),
   src |-> src, pos |-> IndexOf(PanelsOf(prj, w), src) + 1]

\* Links of the copy to the original become links to the copy.
RedoAddPanel(cmd, prj) ==
  LET pm == PanelsOf(prj, cmd.view)
  IN Result(cmd,
       SetPanels(prj, cmd.view,
         IF cmd.src = None THEN AddNew(pm, cmd.name, cmd.panel)
         ELSE MoveTo(AddNew(pm, cmd.name, Relinked(cmd.panel, cmd.src, cmd.name)),
                     cmd.name, cmd.pos)), {})

UndoAddPanel(cmd, prj) ==
  LET pm == PanelsOf(prj, cmd.view)
      panel == At(pm, cmd.name)
  IN Result([cmd EXCEPT !.panel = panel],
            Unbound(SetPanels(prj, cmd.view, Drop(pm, cmd.name)),
                    OfTemplates(prj.bs, cmd.view, cmd.name, panel)), {})

DelPanel(prj, w, n) ==
  [kind |-> "DelPanel", view |-> w, name |-> n, panel |-> TemplatesOf(prj, w, n),
   pos |-> IndexOf(PanelsOf(prj, w), n),
   bl |-> OfTemplates(prj.bs, w, n, TemplatesOf(prj, w, n))]

RedoDelPanel(cmd, prj) ==
  LET pm == PanelsOf(prj, cmd.view)
  IN Result([cmd EXCEPT !.panel = At(pm, cmd.name), !.bl = {}],
            SetPanels(prj, cmd.view, Drop(pm, cmd.name)),
            If(cmd.bl # {}, "lost")
              \cup If(OfTemplates(prj.bs, cmd.view, cmd.name, At(pm, cmd.name)) # {},
                      "kept"))

UndoDelPanel(cmd, prj) ==
  Result(cmd,
    Bound(SetPanels(prj, cmd.view,
            MoveTo(AddNew(PanelsOf(prj, cmd.view), cmd.name, cmd.panel),
                   cmd.name, cmd.pos)),
          cmd.bl), {})

RenamePanel(prj, w, o, n) ==
  [kind |-> "RenamePanel", view |-> w, old |-> o, new |-> n,
   pos |-> IndexOf(PanelsOf(prj, w), o)]

\* Links to the panel follow it.  Links that name n already, left behind by a
\* panel that was deleted, cannot be told apart afterwards.
PanelRenamed(cmd, prj, o, n) ==
  LET pm    == PanelsOf(prj, cmd.view)
      moved == MoveTo(AddNew(Drop(pm, o), n, At(pm, o)), n, cmd.pos)
  IN Result(cmd,
       [SetPanels(prj, cmd.view,
          [i \in DOMAIN moved |-> Entry(moved[i].key, Relinked(moved[i].val, o, n))])
          EXCEPT !.bs = RenamedPanel(@, cmd.view, o, n)],
       If(\E ts \in Values(pm) : n \in Values(ts), "merged")
         \cup If(/\ ByPanel(prj.bs, cmd.view, o) # {}
                 /\ Refused(prj.bs, [view |-> cmd.view, panel |-> o], "panel", n),
                 "refused"))

\* Two neighbours change places: the lower one goes up, undone the other does.
PanelOrder(prj, w, pos) ==
  [kind |-> "PanelOrder", view |-> w, pos |-> pos,
   upper |-> PanelsOf(prj, w)[pos].key, lower |-> PanelsOf(prj, w)[pos + 1].key]

PanelMoved(cmd, prj, p) ==
  Result(cmd, SetPanels(prj, cmd.view, MoveTo(PanelsOf(prj, cmd.view), p, cmd.pos)), {})

-----------------------------------------------------------------------------
(***************************************************************************)
(* Templates and their bindings                                            *)
(***************************************************************************)
\* The binding objects of templates pasted: each of ts is bound to all the
\* variables in bound.
Prepared(prj, w, p, ts, bound) ==
  [prj EXCEPT !.bs = CreatedAll(@,
     SetToSeq({[conn |-> x[1], var |-> x[2], view |-> w, panel |-> p, templ |-> t] :
                 x \in bound, t \in Keys(ts)}))]

\* The templates ts, under names the panel does not have, with these bindings.
AddSelection(prj, w, p, ts, bound) ==
  [kind |-> "AddSelection", view |-> w, panel |-> p, ts |-> ts,
   bl |-> (Len(prj.bs.cell) + 1)..Len(Prepared(prj, w, p, ts, bound).bs.cell)]

RedoAddSelection(cmd, prj) ==
  LET ts == TemplatesOf(prj, cmd.view, cmd.panel)
  IN Result(cmd,
       Bound(SetTemplates(prj, cmd.view, cmd.panel,
               FoldLeft(LAMBDA d, e : AddNew(d, e.key, e.val), ts, cmd.ts)),
             cmd.bl),
       If(\E i, j \in cmd.bl : /\ i # j
                               /\ prj.bs.cell[i].templ = prj.bs.cell[j].templ, "crossed")
         \cup If(\E i \in cmd.bl : ~NamesVariable(prj, prj.bs.cell[i]), "stale"))

\* The templates as they are, put into a command's dictionary.
Taken(ts, from) ==
  [i \in DOMAIN ts |-> IF ts[i].key \in Keys(from)
                       THEN Entry(ts[i].key, At(from, ts[i].key)) ELSE ts[i]]

\* Mutant of UndoAddSelection: the bindings of the templates stay.
UndoAddSelectionOnly(cmd, prj) ==
  LET ts == TemplatesOf(prj, cmd.view, cmd.panel)
  IN Result([cmd EXCEPT !.ts = Taken(cmd.ts, ts)],
       SetTemplates(prj, cmd.view, cmd.panel,
                    FoldLeft(LAMBDA d, e : Drop(d, e.key), ts, cmd.ts)), {})

UndoAddSelection(cmd, prj) ==
  LET ts == TemplatesOf(prj, cmd.view, cmd.panel)
  IN Result([cmd EXCEPT !.ts = Taken(cmd.ts, ts)],
       Unbound(SetTemplates(prj, cmd.view, cmd.panel,
                 FoldLeft(LAMBDA d, e : Drop(d, e.key), ts, cmd.ts)),
               OfTemplates(prj.bs, cmd.view, cmd.panel, cmd.ts)), {})

\* sel is the sequence of the names selected.
DelSelection(prj, w, p, sel) ==
  [kind |-> "DelSelection", view |-> w, panel |-> p, pos |-> << >>, bl |-> {},
   ts |-> [i \in DOMAIN sel |-> Entry(sel[i], At(TemplatesOf(prj, w, p), sel[i]))]]

\* One template after the other: the position of each is the one it has when
\* those before it are gone.
RedoDelSelection(cmd, prj) ==
  LET ts  == TemplatesOf(prj, cmd.view, cmd.panel)
      Del(a, e) == [left |-> Drop(a.left, e.key),
                    pos  |-> Append(a.pos, IF e.key \in Keys(a.left)
                                           THEN IndexOf(a.left, e.key) ELSE 0)]
      all == FoldLeft(Del, [left |-> ts, pos |-> << >>], cmd.ts)
      bl  == OfTemplates(prj.bs, cmd.view, cmd.panel, cmd.ts)
  IN Result([cmd EXCEPT !.ts = Taken(cmd.ts, ts), !.pos = all.pos, !.bl = bl],
            Unbound(SetTemplates(prj, cmd.view, cmd.panel, all.left), bl), {})

\* From the last one deleted to the first.
UndoDelSelection(cmd, prj) ==
  LET Back(d, i) == MoveTo(AddNew(d, cmd.ts[i].key, cmd.ts[i].val),
                           cmd.ts[i].key, cmd.pos[i])
      n == Len(cmd.ts)
  IN Result([cmd EXCEPT !.bl = {}],
       Bound(SetTemplates(prj, cmd.view, cmd.panel,
               FoldLeft(Back, TemplatesOf(prj, cmd.view, cmd.panel),
                        [i \in 1..n |-> n + 1 - i])),
             cmd.bl), {})

RenameTemplate(prj, w, p, o, n) ==
  [kind |-> "RenameTemplate", view |-> w, panel |-> p, old |-> o, new |-> n,
   pos |-> IndexOf(TemplatesOf(prj, w, p), o)]

\* The template is taken by its position; a name that is taken is overwritten,
\* and what was there is lost.
TemplateRenamed(cmd, prj, o, n) ==
  LET td   == TemplatesOf(prj, cmd.view, cmd.panel)
      rest == Drop(td, o)
      pos  == IF o \in Keys(td) THEN IndexOf(td, o) ELSE 0
  IN Result(cmd,
       [SetTemplates(prj, cmd.view, cmd.panel,
          IF cmd.pos \in DOMAIN td THEN PutAt(rest, n, td[cmd.pos].val, pos) ELSE rest)
          EXCEPT !.bs = RenamedTemplate(@, cmd.view, cmd.panel, o, n)],
       If(n \in Keys(td), "overwritten")
         \cup If(/\ ByTemplate(prj.bs, cmd.view, cmd.panel, o) # {}
                 /\ Refused(prj.bs, [view |-> cmd.view, panel |-> cmd.panel,
                                     templ |-> o], "templ", n), "refused"))

TabOrder(prj, w, p, pos) ==
  [kind |-> "TabOrder", view |-> w, panel |-> p, pos |-> pos,
   upper |-> TemplatesOf(prj, w, p)[pos].key,
   lower |-> TemplatesOf(prj, w, p)[pos + 1].key]

TemplateMoved(cmd, prj, t) ==
  Result(cmd, SetTemplates(prj, cmd.view, cmd.panel,
                MoveTo(TemplatesOf(prj, cmd.view, cmd.panel), t, cmd.pos)), {})

\* A template's property; here the one that links to a panel.
SetLink(prj, w, p, t, n) ==
  [kind |-> "SetLink", view |-> w, panel |-> p, templ |-> t,
   old |-> At(TemplatesOf(prj, w, p), t), new |-> n]

LinkSet(cmd, prj, n) ==
  LET ts == TemplatesOf(prj, cmd.view, cmd.panel)
  IN Result(cmd, IF cmd.templ \in Keys(ts)
                 THEN SetTemplates(prj, cmd.view, cmd.panel, With(ts, cmd.templ, n))
                 ELSE prj, {})

\* The binding shown is replaced by a new object, whatever its names: a
\* connection without variable, or no connection, is a binding as well.
ChangeBinding(prj, old) ==
  [kind |-> "ChangeBinding", old |-> old, new |-> {Len(prj.bs.cell) + 1}]

BindingSwitched(cmd, prj, o, n) == Result(cmd, Bound(Unbound(prj, o), n), {})

-----------------------------------------------------------------------------
(***************************************************************************)
(* The undo stack                                                          *)
(***************************************************************************)
Redone(cmd, prj) ==
  CASE cmd.kind = "AddConnection"    -> RedoAddConnection(cmd, prj)
    [] cmd.kind = "Reimport"         -> RedoReimport(cmd, prj)
    [] cmd.kind = "DelConnection"    -> RedoDelConnection(cmd, prj)
    [] cmd.kind = "RenameConnection" -> ConnectionRenamed(cmd, prj, cmd.old, cmd.new)
    [] cmd.kind = "AddVariable"      -> RedoAddVariable(cmd, prj)
    [] cmd.kind = "DelVariable"      -> RedoDelVariable(cmd, prj)
    [] cmd.kind = "RenameVariable"   -> VariableRenamed(cmd, prj, cmd.old, cmd.new)
    [] cmd.kind = "AddView"          -> RedoAddView(cmd, prj)
    [] cmd.kind = "DelView"          -> RedoDelView(cmd, prj)
    [] cmd.kind = "RenameView"       -> ViewRenamed(cmd, prj, cmd.old, cmd.new)
    [] cmd.kind = "ReorderView"      -> ViewMoved(cmd, prj, cmd.from, cmd.to)
    [] cmd.kind = "AddPanel"         -> RedoAddPanel(cmd, prj)
    [] cmd.kind = "DelPanel"         -> RedoDelPanel(cmd, prj)
    [] cmd.kind = "RenamePanel"      -> PanelRenamed(cmd, prj, cmd.old, cmd.new)
    [] cmd.kind = "PanelOrder"       -> PanelMoved(cmd, prj, cmd.lower)
    [] cmd.kind = "AddSelection"     -> RedoAddSelection(cmd, prj)
    [] cmd.kind = "DelSelection"     -> RedoDelSelection(cmd, prj)
    [] cmd.kind = "RenameTemplate"   -> TemplateRenamed(cmd, prj, cmd.old, cmd.new)
    [] cmd.kind = "TabOrder"         -> TemplateMoved(cmd, prj, cmd.lower)
    [] cmd.kind = "SetLink"          -> LinkSet(cmd, prj, cmd.new)
    [] cmd.kind = "ChangeBinding"    -> BindingSwitched(cmd, prj, cmd.old, cmd.new)

Undone(cmd, prj) ==
  CASE cmd.kind = "AddConnection"    -> UndoAddConnection(cmd, prj)
    [] cmd.kind = "Reimport"         -> UndoReimport(cmd, prj)
    [] cmd.kind = "DelConnection"    -> UndoDelConnection(cmd, prj)
    [] cmd.kind = "RenameConnection" -> ConnectionRenamed(cmd, prj, cmd.new, cmd.old)
    [] cmd.kind = "AddVariable"      -> UndoAddVariable(cmd, prj)
    [] cmd.kind = "DelVariable"      -> UndoDelVariable(cmd, prj)
    [] cmd.kind = "RenameVariable"   -> VariableRenamed(cmd, prj, cmd.new, cmd.old)
    [] cmd.kind = "AddView"          -> UndoAddView(cmd, prj)
    [] cmd.kind = "DelView"          -> UndoDelView(cmd, prj)
    [] cmd.kind = "RenameView"       -> ViewRenamed(cmd, prj, cmd.new, cmd.old)
    [] cmd.kind = "ReorderView"      -> ViewMoved(cmd, prj, cmd.to, cmd.from)
    [] cmd.kind = "AddPanel"         -> UndoAddPanel(cmd, prj)
    [] cmd.kind = "DelPanel"         -> UndoDelPanel(cmd, prj)
    [] cmd.kind = "RenamePanel"      -> PanelRenamed(cmd, prj, cmd.new, cmd.old)
    [] cmd.kind = "PanelOrder"       -> PanelMoved(cmd, prj, cmd.upper)
    [] cmd.kind = "AddSelection"     -> UndoAddSelection(cmd, prj)
    [] cmd.kind = "DelSelection"     -> UndoDelSelection(cmd, prj)
    [] cmd.kind = "RenameTemplate"   -> TemplateRenamed(cmd, prj, cmd.new, cmd.old)
    [] cmd.kind = "TabOrder"         -> TemplateMoved(cmd, prj, cmd.upper)
    [] cmd.kind = "SetLink"          -> LinkSet(cmd, prj, cmd.old)
    [] cmd.kind = "ChangeBinding"    -> BindingSwitched(cmd, prj, cmd.new, cmd.old)

\* UndoStack::push: what was undone is forgotten, the command is executed.
\* prj is the project as the command's constructor leaves it.
Push(cmd, prj) ==
  LET r == Redone(cmd, prj)
  IN /\ project' = r.prj
     /\ stack' = Append(SubSeq(stack, 1, last), r.cmd)
     /\ last' = last + 1
     /\ past' = Append(SubSeq(past, 1, last + 1), Content(r.prj))
     /\ slips' = slips \cup r.wrong
     /\ pushes' = pushes + 1

Execute(cmd, prj) ==
  /\ Push(cmd, prj)
  /\ UNCHANGED <<late, buffer, file, intact, status>>

\* SelectionPropsChangedCommand redraws its panel in the view that is shown,
\* where there may be no such panel.
Crashes(cmd) ==
  /\ cmd.kind = "SetLink"
  /\ \E shown \in Keys(project.views) : cmd.panel \notin Keys(PanelsOf(project, shown))

Redo ==
  /\ last < Len(stack)
  /\ LET r == Redone(stack[last + 1], project)
     IN /\ project' = r.prj
        /\ stack' = [stack EXCEPT ![last + 1] = r.cmd]
        /\ slips' = slips \cup r.wrong
  /\ last' = last + 1
  /\ \/ UNCHANGED status
     \/ Crashes(stack[last + 1]) /\ status' = "crashed"
  /\ UNCHANGED <<late, buffer, file, intact, past, pushes>>

Undo ==
  /\ last > 0
  /\ LET r == Undone(stack[last], project)
     IN /\ project' = r.prj
        /\ stack' = [stack EXCEPT ![last] = r.cmd]
        /\ slips' = slips \cup r.wrong
  /\ last' = last - 1
  /\ \/ UNCHANGED status
     \/ Crashes(stack[last]) /\ status' = "crashed"
  /\ UNCHANGED <<late, buffer, file, intact, past, pushes>>

-----------------------------------------------------------------------------
(***************************************************************************)
(* The windows                                                             *)
(***************************************************************************)
\* Dialogs of the connections and variables; those for new ones are modal,
\* so that a pending rename is executed before the command is made.
ConnectionDialogs ==
  \/ /\ late = None
     /\ \E cn \in Conns, c \in Imports :
          \/ cn \notin Keys(project.conns) /\ Execute(AddConnection(cn, c), project)
          \/ /\ cn \in Keys(project.conns)
             /\ Execute(Reimport(project, cn, c),
                        Unbound(project, ByConnection(project.bs, cn)))
  \/ \E cn \in Keys(project.conns) :
       Execute(DelConnection(project, cn), Unbound(project, ByConnection(project.bs, cn)))

VariableDialogs ==
  \E cn \in Keys(project.conns), vn \in Vars :
    \/ /\ late = None
       /\ vn \notin Keys(VarsOf(project, cn))
       /\ \E vt \in VarTypes : Execute(AddVariable(cn, vn, vt), project)
    \/ /\ vn \in Keys(VarsOf(project, cn))
       /\ Execute(DelVariable(project, cn, vn),
                  Unbound(project, ByVariable(project.bs, cn, vn)))

ViewDialog ==
  \/ \E n \in Views \ Keys(project.views) :
       \/ Execute(AddView(n), project)
       \/ \E src \in Keys(project.views) : Execute(DupView(project, src, n), project)
  \/ \E n \in Keys(project.views) :
       Execute(DelView(project, n),
               Unbound(project, OfPanels(project.bs, n, PanelsOf(project, n))))
  \/ \E i, j \in DOMAIN project.views :
       (j = i + 1 \/ i = j + 1) /\ Execute(ReorderView(i, j), project)

PanelDialog ==
  \E w \in Keys(project.views) :
    \/ \E n \in Panels \ Keys(PanelsOf(project, w)) :
         \/ Execute(AddPanel(w, n), project)
         \/ \E src \in Keys(PanelsOf(project, w)) :
              Execute(DupPanel(project, w, src, n), project)
    \/ \E n \in Keys(PanelsOf(project, w)) :
         Execute(DelPanel(project, w, n),
                 Unbound(project, OfTemplates(project.bs, w, n, TemplatesOf(project, w, n))))
    \/ \E i \in DOMAIN PanelsOf(project, w) :
         i + 1 \in DOMAIN PanelsOf(project, w) /\ Execute(PanelOrder(project, w, i), project)

\* The sequences of different names, of at most two.
Selections(names) ==
  {<<t>> : t \in names} \cup {x \in names \X names : x[1] # x[2]}

Place(w, p) ==
  \E t \in Templs \ Keys(TemplatesOf(project, w, p)) :
    Execute(AddSelection(project, w, p, <<Entry(t, None)>>, {}), project)

Delete(w, p) ==
  \E sel \in Selections(Keys(TemplatesOf(project, w, p))) :
    Execute(DelSelection(project, w, p, sel), project)

\* Bound: the buffer is filled once, and not when nothing more can be pushed.
BufferFree == buffer.links = << >>

\* All the bindings of the selected templates go into one list.
Copy(w, p) ==
  /\ BufferFree
  /\ \E sel \in Selections(Keys(TemplatesOf(project, w, p))) :
       buffer' = [links |-> [i \in DOMAIN sel |-> At(TemplatesOf(project, w, p), sel[i])],
                  bound |-> {<<project.bs.cell[i].conn, project.bs.cell[i].var>> :
                               i \in UNION {ByTemplate(project.bs, w, p, sel[j]) :
                                              j \in DOMAIN sel}}]
  /\ UNCHANGED <<project, stack, last, late, file, intact, status, history>>

\* Each pasted template gets all the bindings of the list.
Paste(w, p) ==
  /\ buffer.links # << >>
  /\ \E sel \in Selections(Templs \ Keys(TemplatesOf(project, w, p))) :
       /\ Len(sel) = Len(buffer.links)
       /\ LET ts  == [i \in DOMAIN sel |-> Entry(sel[i], buffer.links[i])]
          IN Execute(AddSelection(project, w, p, ts, buffer.bound),
                     Prepared(project, w, p, ts, buffer.bound))

\* TemplatePropertiesDialog: a name is not compared with the others.
EditTemplate(w, p) ==
  \E t \in Keys(TemplatesOf(project, w, p)) :
    \/ \E n \in Templs \ {t} : Execute(RenameTemplate(project, w, p, t, n), project)
    \/ \E n \in Keys(PanelsOf(project, w)) :
         /\ n # At(TemplatesOf(project, w, p), t)
         /\ Execute(SetLink(project, w, p, t, n), project)
    \/ \E i \in DOMAIN TemplatesOf(project, w, p) :
         /\ i + 1 \in DOMAIN TemplatesOf(project, w, p)
         /\ t = TemplatesOf(project, w, p)[i].key
         /\ Execute(TabOrder(project, w, p, i), project)

\* The two boxes of a pin: another connection, without variable at first, or
\* another variable of the connection shown.
BindTemplate(w, p) ==
  \E t \in Keys(TemplatesOf(project, w, p)) :
    LET there == ByTemplate(project.bs, w, p, t)
        To(old, c, v) ==
          Execute(ChangeBinding(project, old),
                  [project EXCEPT !.bs =
                     Created(@, [conn |-> c, var |-> v, view |-> w,
                                 panel |-> p, templ |-> t])])
        Choose(old, c, v) ==
          \/ \E n \in Keys(project.conns) \cup {None} : n # c /\ To(old, n, None)
          \/ /\ c \in Keys(project.conns)
             /\ \E n \in Keys(VarsOf(project, c)) \cup {None} : n # v /\ To(old, c, n)
    IN \/ there = {} /\ Choose({}, None, None)
       \/ \E i \in there :
            Choose({i}, project.bs.cell[i].conn, project.bs.cell[i].var)

TemplateActions ==
  \E w \in Keys(project.views) : \E p \in Keys(PanelsOf(project, w)) :
    \/ Place(w, p) \/ Delete(w, p) \/ Paste(w, p)
    \/ EditTemplate(w, p) \/ BindTemplate(w, p)

\* The command is executed when the event loop next runs; that none is waiting
\* yet is only asserted.
ExecuteLater(cmd) ==
  /\ \/ late = None /\ late' = cmd /\ UNCHANGED status
     \/ late # None /\ status' = "raced" /\ UNCHANGED late
  /\ UNCHANGED <<project, stack, last, buffer, file, intact, history>>

\* A name edited in a list is compared with the others.
RenameLater ==
  \/ \E o \in Keys(project.conns), n \in Conns \ Keys(project.conns) :
       ExecuteLater(RenameConnection(o, n))
  \/ \E cn \in Keys(project.conns) :
       \E o \in Keys(VarsOf(project, cn)), n \in Vars \ Keys(VarsOf(project, cn)) :
         ExecuteLater(RenameVariable(cn, o, n))
  \/ \E o \in Keys(project.views), n \in Views \ Keys(project.views) :
       ExecuteLater(RenameView(project, o, n))
  \/ \E w \in Keys(project.views) :
       \E o \in Keys(PanelsOf(project, w)), n \in Panels \ Keys(PanelsOf(project, w)) :
         ExecuteLater(RenamePanel(project, w, o, n))

\* What the command asserts when it is executed: nothing has overtaken it.
AsRequested(cmd) ==
  CASE cmd.kind = "RenameConnection" ->
         cmd.old \in Keys(project.conns) /\ cmd.new \notin Keys(project.conns)
    [] cmd.kind = "RenameVariable" ->
         /\ cmd.cn \in Keys(project.conns)
         /\ cmd.old \in Keys(VarsOf(project, cmd.cn))
         /\ cmd.new \notin Keys(VarsOf(project, cmd.cn))
    [] cmd.kind = "RenameView" ->
         /\ cmd.old \in Keys(project.views) /\ cmd.new \notin Keys(project.views)
         /\ RenameView(project, cmd.old, cmd.new) = cmd
    [] cmd.kind = "RenamePanel" ->
         /\ cmd.view \in Keys(project.views)
         /\ cmd.old \in Keys(PanelsOf(project, cmd.view))
         /\ cmd.new \notin Keys(PanelsOf(project, cmd.view))
         /\ RenamePanel(project, cmd.view, cmd.old, cmd.new) = cmd

ExecuteLate ==
  /\ late # None
  /\ late' = None
  /\ \/ AsRequested(late) /\ Push(late, project) /\ UNCHANGED status
     \/ /\ ~AsRequested(late)
        /\ status' = "raced"
        /\ UNCHANGED <<project, stack, last, history>>
  /\ UNCHANGED <<buffer, file, intact>>

\* Only what names a variable and a template that exist gets into the file or
\* out of it.
Saved(prj) ==
  [conns |-> prj.conns, views |-> prj.views,
   bound |-> {b \in BoundValues(prj) : NamesVariable(prj, b) /\ NamesTemplate(prj, b)}]

\* The file is truncated and written; whether all of it could be written is not
\* looked at.  If not, it holds nothing that can be read.
Unreadable == [conns |-> << >>, views |-> << >>, bound |-> {}]

Written ==
  \/ intact' = TRUE  /\ file' = Saved(project)
  \/ intact' = FALSE /\ file' = Unreadable


\* Saving empties the undo stack.
Save ==
  /\ Written
  /\ stack' = << >> /\ last' = 0
  /\ past' = <<Content(project)>>
  /\ UNCHANGED <<project, late, buffer, status, slips, pushes>>

\* The file may bind a pin to several variables; reading binds it to each in
\* turn, and the last one stays.
OnePerPin(S) ==
  {T \in SUBSET S : \A b \in S : \E x \in T :
     {y \in T : KeyOf(y, TemplLevel) = KeyOf(b, TemplLevel)} = {x}}

Readings(content) ==
  {[conns |-> content.conns, views |-> content.views, bound |-> kept] :
     kept \in OnePerPin(content.bound)}

Opened(content) ==
  LET bs == CreatedAll(NoBindings, SetToSeq(content.bound))
  IN [conns |-> content.conns, views |-> content.views,
      bs |-> AddedAll(bs, DOMAIN bs.cell)]

\* A question is asked first: a pending rename is executed meanwhile.  Nothing
\* changes when the file cannot be read.
Revert ==
  /\ late = None /\ intact
  /\ \E content \in Readings(file) : project' = Opened(content)
  /\ stack' = << >> /\ last' = 0
  /\ past' = <<Content(project')>> /\ slips' = {}
  /\ UNCHANGED <<late, buffer, file, intact, status, pushes>>

Init ==
  /\ \E content \in Readings(InitProject) : project = Opened(content)
  /\ stack = << >> /\ last = 0
  /\ late = None
  /\ buffer = [links |-> << >>, bound |-> {}]
  /\ file = InitProject /\ intact = TRUE
  /\ status = "running"
  /\ past = <<Content(project)>> /\ slips = {} /\ pushes = 0

Commands ==
  \/ ConnectionDialogs \/ VariableDialogs \/ ViewDialog \/ PanelDialog
  \/ TemplateActions \/ RenameLater

\* Bound: a command that waits counts as pushed.
MayPush == IF late = None THEN pushes < MaxPushes ELSE pushes + 1 < MaxPushes

Next ==
  /\ status = "running"
  /\ \/ /\ MayPush
        /\ \/ Commands
           \/ \E w \in Keys(project.views) :
                \E p \in Keys(PanelsOf(project, w)) : Copy(w, p)
     \/ ExecuteLate
     \/ Undo \/ Redo \/ Save \/ Revert

Spec == Init /\ [][Next]_vars

-----------------------------------------------------------------------------
(***************************************************************************)
(* Properties                                                              *)
(***************************************************************************)
TypeOK ==
  /\ last \in 0..Len(stack) /\ Len(past) >= last + 1
  /\ status \in {"running", "raced", "crashed"}
  /\ intact \in BOOLEAN /\ slips \subseteq Causes
  /\ IsDict(project.conns) /\ IsDict(project.views)
  /\ \A c \in Keys(project.conns) : IsDict(VarsOf(project, c))
  /\ \A w \in Keys(project.views) :
       /\ IsDict(PanelsOf(project, w))
       /\ \A p \in Keys(PanelsOf(project, w)) : IsDict(TemplatesOf(project, w, p))

\* The five indexes of the bindings agree with the table after any commands,
\* undone and redone in any order, and with each other: what a dialog finds by
\* connection it also finds by template.
IndexesAgree == Consistent(project.bs) /\ Nested(project.bs)

\* Undo and redo walk along the history: with i commands applied the
\* connections, views, panels, templates, their order and their links are
\* again what they were when the i-th command had been executed.  Exceptions:
\* a panel was renamed to a name that links had kept, a template to the name
\* of another.
StructureFollows ==
  status = "running" /\ slips \cap {"merged", "overwritten"} = {} =>
    /\ project.conns = past[last + 1].conns
    /\ project.views = past[last + 1].views

\* So do the bindings.  More exceptions: a deleted view or panel loses its
\* bindings, a connection or variable deleted again keeps them, the table
\* refuses a name it has known before, and what is pasted after its variable
\* has gone follows whatever takes the variable's name.
BindingsFollow ==
  status = "running" /\ slips \subseteq {"crossed"} =>
    BoundValues(project) = past[last + 1].bound

\* Every binding is to a variable that exists, of a template that exists,
\* however names are changed and things deleted and restored.  Exceptions: as
\* before, but links may have been merged.  A lost binding counts: names changed
\* back while it was lost are not changed in it, and a command redone brings it
\* back.
NoDangling ==
  status = "running" /\ slips \subseteq {"merged", "crossed"} =>
    \A b \in BoundValues(project) :
      /\ NamesTemplate(project, b)
      /\ b.conn \in Keys(project.conns) \cup {None}
      /\ b.var = None \/ NamesVariable(project, b)


\* "To revert a change you did while editing a project, such as moving a
\* template, removing a template, adding a panel, or renaming a view, you can
\* use the unlimited undo feature" (help/editor.dbx:820): with no exceptions.
UndoRestores ==
  status = "running" => Content(project) = past[last + 1]

-----------------------------------------------------------------------------
(* Why the indexes agree after any commands: the bindings a command keeps  *)
(* are objects that have been made, whatever has been done since.          *)
Renames == {"RenameConnection", "RenameVariable", "RenameView", "RenamePanel"}
Keepers == {"Reimport", "DelConnection", "DelVariable", "DelView", "DelPanel",
            "AddSelection", "DelSelection"}
Kinds   == Renames \cup Keepers \cup
           {"AddConnection", "AddVariable", "AddView", "ReorderView",
            "AddPanel", "PanelOrder", "RenameTemplate", "TabOrder", "SetLink",
            "ChangeBinding"}

\* The objects a command keeps are among the first n made.
Keeps(cmd, n) ==
  /\ "kind" \in DOMAIN cmd /\ cmd.kind \in Kinds
  /\ cmd.kind \in Keepers => "bl" \in DOMAIN cmd /\ cmd.bl \subseteq 1..n
  /\ cmd.kind = "Reimport" =>
       "blOld" \in DOMAIN cmd /\ cmd.blOld \subseteq 1..n
  /\ cmd.kind = "ChangeBinding" => cmd.old \cup cmd.new \subseteq 1..n

Listing ==
  /\ DOMAIN project = {"conns", "views", "bs"} /\ Table(project.bs)
  /\ stack \in Seq({stack[i] : i \in DOMAIN stack}) /\ last \in 0..Len(stack)
  /\ \A i \in DOMAIN stack : Keeps(stack[i], Len(project.bs.cell))
  /\ late # None => "kind" \in DOMAIN late /\ late.kind \in Renames
  /\ IsFiniteSet(buffer.bound)
  /\ IsFiniteSet(file.bound) /\ \A b \in file.bound : IsBinding(b)
=============================================================================
