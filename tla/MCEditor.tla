------------------------------ MODULE MCEditor ------------------------------
(* Editor for TLC: a project with one connection of two variables, one view *)
(* and a panel of two bound templates, one of which links to another panel; *)
(* connection files that keep, retype and drop variables.                   *)
EXTENDS EditorHistory

CONSTANTS a, b, x, y, z, V, W, P, Q, s, t, u

Project ==
  [conns |-> <<Entry(a, [type |-> "modbus", vars |-> <<Entry(x, "bool"), Entry(y, "bool")>>])>>,
   views |-> <<Entry(V, <<Entry(P, <<Entry(t, Q), Entry(s, None)>>), Entry(Q, << >>)>>)>>,
   bound |-> {[conn |-> a, var |-> x, view |-> V, panel |-> P, templ |-> t],
              [conn |-> a, var |-> y, view |-> V, panel |-> P, templ |-> s]}]

Files ==
  {[type |-> "modbus", vars |-> <<Entry(y, "bool"), Entry(x, "bool")>>],
   [type |-> "modbus", vars |-> <<Entry(x, "int")>>],
   [type |-> "basic", vars |-> <<Entry(x, "bool")>>]}
=============================================================================
