SPECIFICATION Spec
CONSTANTS
  Vars = {v1, v2}
  MaxReal = 1
  MaxReq = 1
SYMMETRY VarSymmetry
INVARIANTS
  ServerUnderstands
  ClientUnderstands
  ServerFailsOnlyAfterDisconnect
  QuietAgreement
  NoUpdateLost
  NoRequestLost
  TidyNeverFails
PROPERTY ClientForward
