CONSTANTS
  Fds = {3, 4, 5, 6}
  Pids = {1, 2}
  MaxTime = 3
  MaxInterrupts = 1
  MaxTimers = 2
  Periods = {1}
  MaxRoom = 1
  Messages <- EventMessages
  MaxMessages = 4
  MaxEvents = 0
  MaxContexts = 2
SPECIFICATION Spec
CHECK_DEADLOCK FALSE
INVARIANTS RequestsExact NoStaleContext ExitNotLost ObjectsExact
PROPERTIES KeepsPromise TimersGoOff ExitsReported
