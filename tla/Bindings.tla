------------------------------ MODULE Bindings ------------------------------
(***************************************************************************)
(* The editor's global table of bindings (lib/Bindings.cpp,                *)
(* lib/BindingsHelper.cpp): which variable of which connection each        *)
(* template's pin is bound to, in one list and five indexes.  Bindings are *)
(* objects that commands keep and put back, and renaming changes them in   *)
(* place: a table is                                                       *)
(*   cell   the binding objects made so far, by number                     *)
(*   list   those in the table                                             *)
(*   index  the five indexes: for the names down to some level, the        *)
(*          objects listed there                                           *)
(* A template has one pin here.                                            *)
(***************************************************************************)
EXTENDS Naturals, Sequences, FiniteSets

\* How far down an index goes.
ConnLevel  == {"conn"}
VarLevel   == {"conn", "var"}
ViewLevel  == {"view"}
PanelLevel == {"view", "panel"}
TemplLevel == {"view", "panel", "templ"}
Levels     == {ConnLevel, VarLevel, ViewLevel, PanelLevel, TemplLevel}
Fields     == {"conn", "var", "view", "panel", "templ"}

\* The key of a binding in the index of a level.
KeyOf(b, L) == [f \in L |-> b[f]]
KeysOf(b)   == {KeyOf(b, L) : L \in Levels}

\* An object or a key with the names of a key.
Under(b, k) == \A f \in DOMAIN k : f \in DOMAIN b /\ b[f] = k[f]

NoBindings == [cell |-> << >>, list |-> {}, index |-> << >>]

\* What an index lists; the look-ups make no keys.
Listed(bs, k) == IF k \in DOMAIN bs.index THEN bs.index[k] ELSE {}

ByConnection(bs, c)     == Listed(bs, [conn |-> c])
ByVariable(bs, c, v)    == Listed(bs, [conn |-> c, var |-> v])
ByPanel(bs, w, p)       == Listed(bs, [view |-> w, panel |-> p])
ByTemplate(bs, w, p, t) == Listed(bs, [view |-> w, panel |-> p, templ |-> t])

InTable(bs, b) == \E i \in bs.list : bs.cell[i] = b

\* Those of the objects S that get in: one that equals a binding of the table,
\* or one before it, is refused.
Admitted(bs, S) ==
  {i \in S : /\ ~InTable(bs, bs.cell[i])
             /\ \A j \in S : bs.cell[j] = bs.cell[i] => i <= j}

AddedAll(bs, S) ==
  LET new == Admitted(bs, S)
  IN [bs EXCEPT
        !.list = @ \cup new,
        !.index = [k \in DOMAIN @ \cup UNION {KeysOf(bs.cell[i]) : i \in new} |->
                     Listed(bs, k) \cup {i \in new : Under(bs.cell[i], k)}]]

\* Mutant of RemovedAll: the index by connection is forgotten.
RemovedFromMost(bs, S) ==
  [bs EXCEPT !.list = @ \ S,
             !.index = [k \in DOMAIN @ |-> IF DOMAIN k = ConnLevel THEN @[k]
                                           ELSE @[k] \ S]]

\* The keys of emptied lists stay.
RemovedAll(bs, S) ==
  [bs EXCEPT !.list = @ \ S,
             !.index = [k \in DOMAIN @ |-> @[k] \ S]]

\* New objects for bindings, not yet in the table.
Created(bs, b)     == [bs EXCEPT !.cell = Append(@, b)]
CreatedAll(bs, seq) == [bs EXCEPT !.cell = @ \o seq]

\* The name f of the key k becomes n.  It is refused when the new key has ever
\* been listed.
Refused(bs, k, f, n) == [k EXCEPT ![f] = n] \in DOMAIN bs.index

Renamed(bs, k, f, n) ==
  IF k \notin DOMAIN bs.index \/ Refused(bs, k, f, n) THEN bs
  ELSE LET nk      == [k EXCEPT ![f] = n]
           Old(x)  == [x EXCEPT ![f] = k[f]]
           New(x)  == [x EXCEPT ![f] = n]
           kept    == {x \in DOMAIN bs.index : ~Under(x, k)}
           rekeyed == {New(x) : x \in DOMAIN bs.index \ kept}
       IN [cell  |-> [i \in DOMAIN bs.cell |-> IF i \in bs.index[k]
                                               THEN New(bs.cell[i]) ELSE bs.cell[i]],
           list  |-> bs.list,
           index |-> [x \in kept \cup rekeyed |->
                        IF x \in rekeyed THEN bs.index[Old(x)] ELSE bs.index[x]]]

RenamedConnection(bs, o, n)     == Renamed(bs, [conn |-> o], "conn", n)
RenamedVariable(bs, c, o, n)    == Renamed(bs, [conn |-> c, var |-> o], "var", n)
RenamedView(bs, o, n)           == Renamed(bs, [view |-> o], "view", n)
RenamedPanel(bs, w, o, n)       == Renamed(bs, [view |-> w, panel |-> o], "panel", n)
RenamedTemplate(bs, w, p, o, n) ==
  Renamed(bs, [view |-> w, panel |-> p, templ |-> o], "templ", n)

-----------------------------------------------------------------------------
\* Every index lists exactly the bindings of the table with the names of the
\* key, every binding is listed at every level, and the table holds no binding
\* twice.
Consistent(bs) ==
  /\ \A k \in DOMAIN bs.index : bs.index[k] = {i \in bs.list : Under(bs.cell[i], k)}
  /\ \A i \in bs.list : KeysOf(bs.cell[i]) \subseteq DOMAIN bs.index
  /\ \A i, j \in bs.list : bs.cell[i] = bs.cell[j] => i = j

\* The indexes of different depth have the same names at the levels they
\* share.
Nested(bs) ==
  \A k \in DOMAIN bs.index : \A L \in Levels :
    L \subseteq DOMAIN k => KeyOf(k, L) \in DOMAIN bs.index

-----------------------------------------------------------------------------
(* Why the indexes agree: the shape of a table.                            *)

\* A binding has all the names, a key those down to some level.
IsBinding(b) == DOMAIN b = Fields /\ b = [f \in Fields |-> b[f]]
IsKey(k)     == DOMAIN k \in Levels /\ k = [f \in DOMAIN k |-> k[f]]

WellFormed(bs) ==
  /\ DOMAIN bs = {"cell", "list", "index"}
  /\ bs.cell \in Seq({bs.cell[i] : i \in DOMAIN bs.cell})
  /\ \A i \in DOMAIN bs.cell : IsBinding(bs.cell[i])
  /\ bs.list \subseteq DOMAIN bs.cell
  /\ \A k \in DOMAIN bs.index : IsKey(k)

Table(bs) == WellFormed(bs) /\ Consistent(bs) /\ Nested(bs)
=============================================================================
