CONSTANTS
  Clients = {c1, c2}
  Vars = {v1, v2}
  Values = {off, on}
  Default = off
  MaxAsks = 2
SPECIFICATION FairSpec
INVARIANTS
  TargetsFollow
  QuietViewersAgree
PROPERTIES
  EverythingApplied
  EverythingShown
