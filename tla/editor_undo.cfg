SPECIFICATION Spec
CONSTANTS
  a = a  b = b  x = x  y = y  z = z  V = V  W = W  P = P  Q = Q  s = s  t = t  u = u
  Conns = {a, b}
  Vars = {x, y, z}
  Views = {V, W}
  Panels = {P, Q}
  Templs = {s, t, u}
  VarTypes = {"bool"}
  None = None
  InitProject <- Project
  Imports <- Files
  MaxPushes = 2
INVARIANT UndoRestores
CHECK_DEADLOCK FALSE
