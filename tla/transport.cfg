CONSTANTS
  Header = 2
  MaxLength = 3
  Lengths = {2, 3}
  Chunk = 12
  Batch = 5
  Senders = {"server", "client"}
  MaxMessages = 5
SPECIFICATION FairSpec
INVARIANTS StreamIntact BuffersSuffice
PROPERTIES ActsAsChannel EverythingArrives
CHECK_DEADLOCK FALSE
