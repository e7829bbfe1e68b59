CONSTANTS
  Clients = {c1, c2}
SPECIFICATION FairSpec
INVARIANTS JoinsKnownThreads PluginOutlivesJoined
PROPERTIES HashUnchangedInWalk ShutdownTerminates RequestsGetThrough
