CONSTANTS
  Fds = {3, 4}
  Pids = {1}
  MaxTime = 1
  MaxInterrupts = 0
  MaxTimers = 0
  Periods = {}
  MaxRoom = 1
  Messages <- SocketMessages
  MaxMessages = 3
  MaxEvents = 2
  MaxContexts = 2
SPECIFICATION Spec
CHECK_DEADLOCK FALSE
INVARIANTS WatchedExact NoStaleContext
PROPERTIES KeepsPromise SocketsAnswered
