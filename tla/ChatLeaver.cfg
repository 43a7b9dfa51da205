\* Two clients; the chat server has descriptors to spare.
CONSTANTS
  ThreadClients = {c1, c2}
  ThreadFds = {4, 5, 6, 7}
  Requests = {"bad", "file", "missing", "plain"}
  MaxSays = 1
SPECIFICATION ThreadSpec
INVARIANT LeaverRemoved
CHECK_DEADLOCK FALSE
