--------------------------- MODULE ProcessManager ---------------------------
(***************************************************************************)
(* The child processes, class ProcessManagerSymbol                         *)
(* (src/src/ObjectSystem/processActions.cc, processStuff.cc and            *)
(* processOutcomes.cc), a client of the event loop and of the sockets.     *)
(* ExitedReplyKept is a mutant of the operator that follows it.            *)
(***************************************************************************)
EXTENDS SocketManager

VARIABLES
  childProcesses, \* pid -> [ioSocket, errSocket, waitContext]
  proc            \* pid -> the kernel's process: none, running or zombie
processVars == <<childProcesses, proc>>

ProcessesInit == childProcesses = <<>> /\ proc = [p \in Pids |-> "none"]
FreePids == {p \in Pids : proc[p] = "none"}

(* The kernel: waitpid(pid, WNOHANG) reaps a child that exited.            *)
Exited(pid) == proc[pid] = "zombie"
Reaped(pids) == [p \in Pids |-> IF p \in pids THEN "none" ELSE proc[p]]

(* A child that exits, also by a signal, closes its ends of the sockets.   *)
ChildExits(pid) ==
  /\ proc[pid] = "running"
  /\ proc' = [proc EXCEPT ![pid] = "zombie"]
  /\ chan' = [f \in Fds |->
       IF /\ pid \in DOMAIN childProcesses /\ chan[f].kind = "stream"
          /\ f \in {childProcesses[pid].ioSocket, childProcesses[pid].errSocket}
       THEN [chan[f] EXCEPT !.peer = "gone"] ELSE chan[f]]
  /\ SendSigchld

----------------------------------------------------------------------------
(* The messages.  createProcess: the sockets, the pipe and the child are   *)
(* made or not; a child that could not execute the program has exited, and *)
(* its exit is asked for by nobody.                                        *)
CreateProcess ==
  /\ FreePids # {} /\ Cardinality(FreeFds) > 1
  /\ LET pid == LowestOf(FreePids)
         io == LowestOf(FreeFds)
         err == LowestOf(FreeFds \ {io})
     IN  \/ /\ proc' = [proc EXCEPT ![pid] = "running"]
            /\ childProcesses' = [p \in DOMAIN childProcesses \cup {pid} |->
                 IF p = pid THEN [ioSocket |-> io, errSocket |-> err, waitContext |-> NoContext]
                 ELSE childProcesses[p]]
            /\ activeSockets' = Known(Known(activeSockets, io, ActiveSocket({}, FALSE)),
                                      err, ActiveSocket({}, TRUE))
            /\ chan' = [chan EXCEPT ![io] = Channel("stream"), ![err] = Channel("stream")]
            /\ ReplyWith(<<"createdProcess">>, pid, {<<"socket", io>>, <<"socket", err>>})
         \/ /\ proc' \in {proc, [proc EXCEPT ![pid] = "running"]}
            /\ Reply(<<"processError">>, pid)
            /\ UNCHANGED <<childProcesses, socketVars>>

(* exitedReply: the process is forgotten when its exit is reported.        *)
ExitedReplyKept(pid) ==
  proc' = Reaped({pid}) /\ Reply(<<"exited">>, pid) /\ UNCHANGED childProcesses
ExitedReply(pid) ==
  /\ childProcesses' = [p \in DOMAIN childProcesses \ {pid} |-> childProcesses[p]]
  /\ proc' = Reaped({pid})
  /\ Reply(<<"exited">>, pid)

(* waitForExit: the exit is asked for before waitpid() looks, so that the  *)
(* signal cannot come in between, and no more if the child had exited.     *)
(* The steps are RequestExit and, some time later, LookForExit.            *)
MayWait(pid) == pid \in DOMAIN childProcesses /\ childProcesses[pid].waitContext = NoContext
RequestExit(pid) == MayWait(pid) /\ RequestChildExitCallback(pid)
LookForExit(pid) ==
  IF Exited(pid)
  THEN /\ childRequests' = NotRequested(childRequests, pid)
       /\ ExitedReply(pid)
  ELSE /\ childProcesses' = [childProcesses EXCEPT ![pid].waitContext = context]
       /\ Reply(<<>>, pid)
       /\ UNCHANGED <<childRequests, proc>>

SignalProcess(pid) ==
  pid \in DOMAIN childProcesses /\ Reply(<<"signaledProcess">>, pid)

(* doChildExit: the callback, after waitpid() reaped the child.            *)
DoChildExit(pid) == ExitedReply(pid)

(* cleanUp of all processes of a context: killed and waited for.  The      *)
(* signal of a child that was running comes before it is reaped.           *)
CleanUpProcesses(pids) ==
  /\ childRequests' = Dropped(childRequests, {p \in pids : childProcesses[p].waitContext # NoContext})
  /\ childProcesses' = [p \in DOMAIN childProcesses \ pids |-> childProcesses[p]]
  /\ proc' = Reaped(pids)
  /\ IF \E p \in pids : proc[p] = "running" THEN SendSigchld ELSE UNCHANGED <<sigchld, exitedFlag>>
=============================================================================
