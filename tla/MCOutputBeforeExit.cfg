CONSTANTS
  Fds = {3, 4, 5, 6}
  Pids = {1, 2}
  MaxTime = 1
  MaxInterrupts = 0
  MaxTimers = 0
  Periods = {}
  MaxRoom = 1
  Messages <- ReaderMessages
  MaxMessages = 4
  MaxEvents = 1
  MaxContexts = 1
SPECIFICATION Spec
CHECK_DEADLOCK FALSE
PROPERTY OutputBeforeExit
