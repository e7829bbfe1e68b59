CONSTANTS
  Clients = {c1, c2}
  Values = {off, on}
  Default = off
  Vars = {v1, v2}
  MaxAsks = 2
SPECIFICATION Spec
PROPERTY OnlyNamedVariablesChange
SYMMETRY Symmetry
