--------------------------- MODULE MCObjectSystem ---------------------------
EXTENDS ObjectSystem
EventMessages == {"createTimer", "startOneShot", "startPeriodic", "stopTimer", "deleteTimer",
                  "createProcess", "waitForExit"}
SocketMessages == {"createClient", "createServer", "accept", "send", "shutdown", "receive", "close",
                   "createProcess", "waitForExit", "signalProcess"}
ReaderMessages == {"createProcess", "waitForExit", "receive"}
=============================================================================
