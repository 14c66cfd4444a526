---------------------------- MODULE ObjectSystem ----------------------------
(***************************************************************************)
(* External rewriting: the loop of ObjectSystemRewritingContext            *)
(* (src/src/ObjectSystem/objectSystemRewritingContext.cc), which           *)
(* interleaves fair rewriting with the event loop, over the timers, the    *)
(* processes and the sockets.  The objects of the configuration send       *)
(* messages in any order.                                                  *)
(***************************************************************************)
EXTENDS TimeManager, ProcessManager

CONSTANTS
  Messages,       \* the messages the objects send
  MaxMessages,    \* bound of how many
  MaxEvents,      \* bound of what happens to the sockets
  MaxContexts     \* bound of the contexts, one after the other

ASSUME ObjectAssumption ==
  /\ Messages \subseteq {"createTimer", "startOneShot", "startPeriodic", "stopTimer", "deleteTimer",
                         "createProcess", "waitForExit", "signalProcess", "createClient",
                         "createServer", "accept", "send", "shutdown", "receive", "close"}
  /\ MaxContexts \in Nat \ {0}

VARIABLES
  progress,         \* the traversal made progress
  sent, events,     \* messages sent, things that happened to sockets
  waiter            \* the process waitForExit is looking at

managerVars == <<timerMap, socketVars, processVars>>
boundVars == <<sent, events>>
vars == <<threadVars, managerVars, contextVars, progress, boundVars, waiter>>

Nobody == 0
Init ==
  /\ ThreadInit /\ ContextInit /\ TimersInit /\ SocketsInit /\ ProcessesInit
  /\ progress = FALSE /\ sent = 0 /\ events = 0 /\ waiter = Nobody

----------------------------------------------------------------------------
(* The traversal: a message is offered to the manager of its object, and   *)
(* progress is made if it is accepted.                                     *)
Send(message) ==
  /\ pc = "rewrite"
  /\ message \in Messages /\ sent < MaxMessages
  /\ sent' = sent + 1
  /\ progress' = TRUE
  /\ UNCHANGED <<loop, interrupts, time, context, events>>

OfTimer(message, id) == Send(message) /\ <<"timer", id>> \in externalObjects
TimerMessage ==
  /\ \/ Send("createTimer") /\ CreateTimer
     \/ \E id \in DOMAIN timerMap, n \in Periods :
          \/ OfTimer("startOneShot", id) /\ StartTimer(id, FALSE, n)
          \/ OfTimer("startPeriodic", id) /\ StartTimer(id, TRUE, n)
     \/ \E id \in DOMAIN timerMap : OfTimer("stopTimer", id) /\ StopTimer(id)
     \/ \E id \in DOMAIN timerMap : OfTimer("deleteTimer", id) /\ DeleteTimer(id)
  /\ UNCHANGED <<pc, flags, active, childRequests, exitedFlag, sigchld, socketVars, processVars, waiter>>

OfSocket(message, fd) == Send(message) /\ <<"socket", fd>> \in externalObjects
SocketMessage ==
  /\ \/ Send("createClient") /\ CreateClientTcpSocket
     \/ Send("createServer") /\ CreateServerTcpSocket
     \/ \E fd \in DOMAIN activeSockets :
          \/ OfSocket("accept", fd) /\ AcceptClient(fd)
          \/ OfSocket("send", fd) /\ SendSocket(fd)
          \/ OfSocket("shutdown", fd) /\ ShutdownSocket(fd)
          \/ OfSocket("receive", fd) /\ ReceiveSocket(fd)
          \/ OfSocket("close", fd) /\ CloseSocket(fd)
  /\ UNCHANGED <<pc, callbackMap, childRequests, exitedFlag, sigchld, timerMap, processVars, waiter>>

OfProcess(message, pid) == Send(message) /\ <<"process", pid>> \in externalObjects
CreateProcessMessage ==
  /\ Send("createProcess") /\ CreateProcess
  /\ UNCHANGED <<pc, requestVars, exitedFlag, sigchld, timerMap, waiter>>
SignalMessage ==
  /\ \E pid \in DOMAIN childProcesses : OfProcess("signalProcess", pid) /\ SignalProcess(pid)
  /\ UNCHANGED <<pc, requestVars, exitedFlag, sigchld, managerVars, waiter>>
WaitMessage ==
  /\ \E pid \in DOMAIN childProcesses :
       OfProcess("waitForExit", pid) /\ RequestExit(pid) /\ waiter' = pid
  /\ pc' = "waitpid"
  /\ UNCHANGED <<flags, active, callbackMap, exitedFlag, managerVars, incomingMessages, externalObjects>>
WaitChecked ==
  /\ pc = "waitpid"
  /\ LookForExit(waiter)
  /\ pc' = "rewrite" /\ waiter' = Nobody
  /\ UNCHANGED <<loop, flags, active, callbackMap, exitedFlag, sigchld, interrupts, time,
                 timerMap, socketVars, context, progress, boundVars>>

SendMessage == TimerMessage \/ SocketMessage \/ CreateProcessMessage \/ SignalMessage \/ WaitMessage

Elsewhere == UNCHANGED <<requestVars, exitedFlag, sigchld, managerVars, context, externalObjects,
                         boundVars, time, waiter>>

(* The end of a traversal that made progress: the event loop is run        *)
(* without blocking.  One that made none: see externalRewrite.             *)
TraversalEnds ==
  /\ pc = "rewrite"
  /\ \/ /\ progress \/ incomingMessages # <<>>
        /\ EventLoop(FALSE)
     \/ ~progress /\ pc' = "wait" /\ UNCHANGED loop
  /\ incomingMessages' = <<>> /\ progress' = FALSE
  /\ Elsewhere /\ UNCHANGED interrupts

(* The limit of rewrites, and a signal handled between two rewrites.       *)
LimitReached ==
  /\ pc = "rewrite" /\ pc' = "stopped"
  /\ Elsewhere /\ UNCHANGED <<loop, interrupts, incomingMessages, progress>>
HandleInterrupt ==
  /\ pc \in {"rewrite", "wait"} /\ interrupts.pending
  /\ interrupts' = [interrupts EXCEPT !.pending = FALSE]
  /\ pc' \in {pc, "stopped"}
  /\ Elsewhere /\ UNCHANGED <<loop, incomingMessages, progress>>

(* externalRewrite: signals are blocked, then the event loop may block.    *)
WaitForEvents ==
  /\ pc = "wait" /\ ~interrupts.pending
  /\ EventLoop(TRUE)
  /\ Elsewhere /\ UNCHANGED <<interrupts, incomingMessages, progress>>

AfterEventLoop ==
  IF ~loop.normal \/ "EVENT_HANDLED" \in loop.status THEN "rewrite"
  ELSE IF "NOTHING_PENDING" \in loop.status THEN "done" ELSE "wait"
EventLoopReturns ==
  /\ pc = "return"
  /\ IF loop.normal /\ "INTERRUPTED" \in loop.status /\ interrupts.pending
     THEN pc' \in {AfterEventLoop, "stopped"} /\ interrupts' = [interrupts EXCEPT !.pending = FALSE]
     ELSE pc' = AfterEventLoop /\ UNCHANGED interrupts
  /\ loop' = Locals
  /\ Elsewhere /\ UNCHANGED <<incomingMessages, progress>>

----------------------------------------------------------------------------
(* The callbacks, as steps of the event loop.                              *)
Beside == UNCHANGED <<interrupts, time, context, progress, boundVars, waiter>>
TimerCallback ==
  /\ HandleCallback
  /\ TimeOut(Head(callbackMap).id, Tail(callbackMap))
  /\ UNCHANGED <<socketVars, processVars>> /\ Beside
FileCallback ==
  /\ \/ HandleFile("ERR") /\ DoError(NextFile.fd)
     \/ HandleFile("HUP") /\ DoHungUp(NextFile.fd)
     \/ HandleFile("IN") /\ DoRead(NextFile.fd, flags[NextFile.fd] \ {"READ"})
     \/ HandleFile("OUT") /\ DoWrite(NextFile.fd, flags[NextFile.fd] \ {"WRITE"})
  /\ UNCHANGED <<timerMap, processVars>> /\ Beside
ChildCallback ==
  /\ \/ HandleChild(TRUE) /\ Exited(NextChild) /\ DoChildExit(NextChild)
     \/ HandleChild(FALSE) /\ ~Exited(NextChild)
        /\ UNCHANGED <<processVars, incomingMessages, externalObjects>>
  /\ UNCHANGED <<timerMap, socketVars>> /\ Beside
PollStep ==
  /\ ThreadSteps \/ FilesReady(Revents) \/ PollTimedOut(Revents)
  /\ UNCHANGED <<managerVars, incomingMessages, externalObjects>> /\ Beside

(* The program: rewriting and the event loop are one thread.               *)
Program == SendMessage \/ WaitChecked \/ TraversalEnds \/ HandleInterrupt \/ WaitForEvents
           \/ EventLoopReturns \/ TimerCallback \/ FileCallback \/ ChildCallback \/ PollStep

----------------------------------------------------------------------------
(* The user: an aborted command is continued, or another one given, which  *)
(* destroys the context and cleans up its external objects.                *)
Continue ==
  /\ pc = "stopped" /\ pc' = "rewrite"
  /\ Elsewhere /\ UNCHANGED <<loop, interrupts, incomingMessages, progress>>

NewContext ==
  /\ pc \in {"stopped", "done"} /\ context < MaxContexts
  /\ context' = context + 1
  /\ CleanUpTimers({id \in DOMAIN timerMap : <<"timer", id>> \in externalObjects})
  /\ CleanUpSockets({fd \in DOMAIN activeSockets : <<"socket", fd>> \in externalObjects})
  /\ CleanUpProcesses({pid \in DOMAIN childProcesses : <<"process", pid>> \in externalObjects})
  /\ externalObjects' = {} /\ incomingMessages' = <<>> /\ progress' = FALSE
  /\ pc' = "rewrite"
  /\ UNCHANGED <<loop, interrupts, time, boundVars, waiter>>

(* The rest of the world.                                                  *)
Tick ==
  /\ time < MaxTime /\ time' = time + 1
  /\ UNCHANGED <<pc, loop, requestVars, exitedFlag, sigchld, interrupts, managerVars, contextVars,
                 progress, boundVars, waiter>>
ChildEvent ==
  /\ \E pid \in Pids : ChildExits(pid)
  /\ UNCHANGED <<pc, loop, requestVars, interrupts, time, timerMap, activeSockets, childProcesses,
                 contextVars, progress, boundVars, waiter>>
NetworkEvent ==
  /\ events < MaxEvents /\ events' = events + 1
  /\ \E fd \in Fds : SocketEvent(fd)
  /\ UNCHANGED <<threadVars, timerMap, activeSockets, processVars, contextVars, progress, sent, waiter>>
UserInterrupt ==
  /\ Interrupt
  /\ UNCHANGED <<pc, loop, requestVars, exitedFlag, sigchld, time, managerVars, contextVars,
                 progress, boundVars, waiter>>

Next == Program \/ LimitReached \/ Continue \/ NewContext \/ Tick \/ ChildEvent \/ NetworkEvent
        \/ UserInterrupt

(* The thread runs and the clock goes on; nothing makes a child exit, a    *)
(* peer answer or a user continue.                                         *)
Spec == Init /\ [][Next]_vars /\ WF_vars(Program) /\ WF_vars(Tick)

----------------------------------------------------------------------------
(* Properties.                                                             *)
Waiting == {pid \in DOMAIN childProcesses : childProcesses[pid].waitContext # NoContext}
ToRead(fd) == activeSockets[fd].state \cap {"WAITING_TO_READ", "WAITING_TO_ACCEPT"} # {}
ToWrite(fd) == activeSockets[fd].state \cap {"WAITING_TO_WRITE", "WAITING_TO_CONNECT"} # {}
(* What a socket in a state is asked for.                                  *)
Asked(state) ==
  {p \in {"read", "write", "connect"} :
     \/ p = "read" /\ state \cap {"WAITING_TO_READ", "WAITING_TO_ACCEPT"} # {}
     \/ p = "write" /\ "WAITING_TO_WRITE" \in state
     \/ p = "connect" /\ "WAITING_TO_CONNECT" \in state}

(* The requests that wait for an event, about their objects.               *)
Timer(id) == <<"timer", id>>
Process(pid) == <<"process", pid>>
Socket(fd) == <<"socket", fd>>
Pending ==
  {<<"timeOut", Timer(id)>> : id \in {k \in DOMAIN timerMap : Armed(k)}}
  \cup {<<"exit", Process(pid)>> : pid \in Waiting}
  \cup UNION {{<<p, Socket(fd)>> : p \in Asked(activeSockets[fd].state)} : fd \in DOMAIN activeSockets}

TypeOK ==
  /\ pc \in Places
  /\ loop \in [block : BOOLEAN, normal : BOOLEAN, status : SUBSET Statuses, now : 0 .. MaxTime,
               later : BOOLEAN, ufds : Seq([fd : Fds, revents : SUBSET Events]), child : Nat]
  /\ flags \in [Fds -> SUBSET Want] /\ active \in Seq(Fds)
  /\ callbackMap \in Seq([at : Nat, id : Nat]) /\ childRequests \in Seq(Pids)
  /\ exitedFlag \in BOOLEAN
  /\ sigchld \in [installed : BOOLEAN, blocked : BOOLEAN, pending : BOOLEAN]
  /\ interrupts \in [pending : BOOLEAN, left : Nat] /\ time \in 1 .. MaxTime
  /\ DOMAIN timerMap \subseteq 0 .. MaxTimers - 1
  /\ \A id \in DOMAIN timerMap :
       timerMap[id] \in [at : Nat, period : Periods \cup {0}, context : 0 .. MaxContexts]
  /\ DOMAIN activeSockets \subseteq Fds
  /\ \A fd \in DOMAIN activeSockets :
       activeSockets[fd] \in [state : SUBSET Bits, readOnly : BOOLEAN, seenEOF : BOOLEAN,
                              context : 0 .. MaxContexts, unsent : 0 .. MaxRoom + 1]
  /\ chan \in [Fds -> [kind : Kinds, data : BOOLEAN, peer : {"open", "eof", "gone"},
                       broken : BOOLEAN, room : 0 .. MaxRoom]]
  /\ DOMAIN childProcesses \subseteq Pids
  /\ \A pid \in DOMAIN childProcesses :
       childProcesses[pid] \in [ioSocket : Fds, errSocket : Fds, waitContext : 0 .. MaxContexts]
  /\ proc \in [Pids -> {"none", "running", "zombie"}]

(* What the event loop was asked for is what is waited for: the callback a *)
(* timer may have to cancel is in the map, once, and nothing else is, as   *)
(* cancelling what was delivered corrupts memory; an exit is asked for,    *)
(* once, exactly for the children that are waited for.                     *)
RequestsExact ==
  /\ ToSet(callbackMap) = Callbacks(DOMAIN timerMap)
  /\ \A i, j \in DOMAIN callbackMap : i < j =>
       callbackMap[i].id # callbackMap[j].id /\ callbackMap[i].at <= callbackMap[j].at
  /\ IsInjective(childRequests)
  /\ ToSet(childRequests) = Waiting \cup (IF pc = "waitpid" THEN {waiter} ELSE {})

(* A file is watched for what its socket waits for, and only sockets that  *)
(* are open are watched: else poll() spins, or a callback finds no request.*)
WatchedExact ==
  /\ \A fd \in Fds :
       /\ "READ" \in flags[fd] <=> fd \in DOMAIN activeSockets /\ ToRead(fd)
       /\ "WRITE" \in flags[fd] <=> fd \in DOMAIN activeSockets /\ ToWrite(fd)
  /\ IsInjective(active) /\ ToSet(active) = {fd \in Fds : flags[fd] # {}}

(* The exit of a child asked for is never overlooked: while it is a        *)
(* zombie, the flag is set, the signal is on its way, or waitForExit has   *)
(* still to look.                                                          *)
ExitNotLost ==
  \A pid \in ToSet(childRequests) : proc[pid] = "zombie" =>
    exitedFlag \/ sigchld.pending \/ (pc = "waitpid" /\ waiter = pid)

(* The external objects of the context are those its objects know, and a   *)
(* descriptor is open exactly as long as a socket has it.                  *)
ObjectsExact ==
  /\ TypeOK
  /\ externalObjects =
       {Timer(id) : id \in DOMAIN timerMap} \cup {Process(pid) : pid \in DOMAIN childProcesses}
       \cup {Socket(fd) : fd \in {f \in DOMAIN activeSockets :
                                    "WAITING_TO_CONNECT" \notin activeSockets[f].state}}
  /\ {fd \in Fds : chan[fd].kind # "free"} = DOMAIN activeSockets

(* No event is delivered to a context that is gone, but for a client       *)
(* socket: one that is still connecting is not cleaned up.                 *)
NoStaleContext ==
  /\ \A id \in DOMAIN timerMap : Armed(id) => timerMap[id].context = context
  /\ \A pid \in Waiting : childProcesses[pid].waitContext = context
  /\ \A fd \in DOMAIN activeSockets :
       ToRead(fd) \/ Awaiting(fd, "WAITING_TO_WRITE") => activeSockets[fd].context = context

(* The requests are answered as ExternalRequests says.                     *)
Phase ==
  CASE pc \in {"rewrite", "waitpid"} -> "rewriting"
    [] pc \in {"stopped", "done"} -> pc
    [] OTHER -> "waiting"
Requests == {<<"timeOut", Timer(id)>> : id \in 0 .. MaxTimers - 1}
            \cup {<<"exit", Process(pid)>> : pid \in Pids}
            \cup {<<purpose, Socket(fd)>> : purpose \in {"read", "write", "connect"}, fd \in Fds}
Promise == INSTANCE ExternalRequests
  WITH pending <- Pending, unread <- Len(incomingMessages), phase <- Phase,
       Recurrent <- {<<"timeOut", Timer(id)>> : id \in 0 .. MaxTimers - 1},
       Lingering <- {<<"connect", Socket(fd)>> : fd \in Fds}
KeepsPromise == Promise!Spec

(* The exit of a child is not reported while what it wrote before, and an  *)
(* object asked for, is still to be read: "We handle this with SIGCHLD     *)
(* blocked so that if a process writes and exits after ppoll() returns, we *)
(* don't process its exit until we have processed its file descriptors"    *)
(* (pseudoThread-ppoll.cc:93).                                             *)
OutputBeforeExit ==
  [][\A pid \in Waiting :
       pc = "children" /\ pid \notin DOMAIN childProcesses' =>
         LET io == childProcesses[pid].ioSocket
         IN  ~("READ" \in flags[io] /\ chan[io].data)]_vars

(* Liveness: nothing that can be answered stays unanswered for ever,       *)
(* unless the rewriting stops.  A timer goes off, or is stopped, started   *)
(* again or deleted before.                                                *)
TimerDue(id, at) == pc # "stopped" /\ id \in DOMAIN timerMap /\ timerMap[id].at = at
TimersGoOff == \A id \in 0 .. MaxTimers - 1, at \in 1 .. MaxTime : []<>~TimerDue(id, at)
(* The exit of a child that is waited for is reported.                     *)
ExitDue(pid) == pc # "stopped" /\ pid \in Waiting /\ Exited(pid)
ExitsReported == \A pid \in Pids : []<>~ExitDue(pid)
(* A request to read is answered once the other end is closed, and one to  *)
(* write goes on when there is room.                                       *)
ReadDue(fd) ==
  pc # "stopped" /\ fd \in DOMAIN activeSockets /\ ToRead(fd) /\ chan[fd].peer # "open"
WriteDue(fd) ==
  pc # "stopped" /\ fd \in DOMAIN activeSockets /\ ToWrite(fd) /\ chan[fd].room > 0
SocketsAnswered == \A fd \in Fds : []<>~ReadDue(fd) /\ []<>~WriteDue(fd)
=============================================================================
