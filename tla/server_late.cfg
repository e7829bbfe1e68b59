CONSTANTS
  Clients = {c1}
SPECIFICATION Spec
INVARIANT EveryClientStopped
