SPECIFICATION FairSpec
CONSTANTS
  Vars = {v1}
  MaxReal = 2
  MaxReq = 1
PROPERTIES
  Handshake
  SelectionAnswered
  Shown
