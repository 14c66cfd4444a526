---------------------------- MODULE PseudoThread ----------------------------
(***************************************************************************)
(* The event loop behind the external objects, class PseudoThread          *)
(* (src/src/ObjectSystem/pseudoThread.cc, pseudoThread-ppoll.cc and        *)
(* pseudoThreadSignal.cc): timed callbacks, file descriptors multiplexed   *)
(* with ppoll() and exits of children announced by SIGCHLD.  The managers  *)
(* are its clients; module ObjectSystem joins the actions below with what  *)
(* the client called back does.                                            *)
(*                                                                         *)
(* PendingUnlessWatched, PollUnblocked, WaitForever and WaitDespiteExit    *)
(* are mutants of the operator that follows them.                          *)
(*                                                                         *)
(* The loop is cut where something else may happen in between: the clock   *)
(* ticks, a child exits and its signal arrives, a file becomes ready.      *)
(***************************************************************************)
EXTENDS Lists

CONSTANTS
  Fds,            \* file descriptors
  Pids,           \* process numbers
  MaxTime,        \* bound of the clock
  MaxInterrupts   \* bound of the signals other than SIGCHLD

ASSUME ThreadAssumption ==
  MaxTime \in Nat \ {0} /\ MaxInterrupts \in Nat /\ Pids \subseteq Nat \ {0}

VARIABLES
  pc,             \* where the thread is, see Places
  loop,           \* the locals of eventLoop and processFds
  flags,          \* fdInfo[fd].flags: what is wanted of the file
  active,         \* the list from firstActive on
  callbackMap,    \* the timed callbacks, earliest first
  childRequests,  \* the children whose exits are wanted
  exitedFlag,     \* set by sigchldHandler
  sigchld,        \* [installed, blocked, pending]: the signal SIGCHLD
  interrupts,     \* [pending, left]: the other signals
  time            \* the clock

threadVars == <<pc, loop, flags, active, callbackMap, childRequests, exitedFlag,
                sigchld, interrupts, time>>
(* Those a callback may change.                                            *)
requestVars == <<flags, active, callbackMap, childRequests>>

Want == {"READ", "WRITE"}
Events == {"IN", "OUT", "ERR", "HUP"}
Statuses == {"NOTHING_PENDING", "INTERRUPTED", "EVENT_HANDLED"}
Places == {"rewrite", "waitpid", "wait", "loop", "callbacks", "decide", "block", "poll", "fds",
           "children", "unblock", "again", "return", "stopped", "done"}

(* block: as it stands; normal: eventLoop was given normalSet (called by   *)
(* externalRewrite); now: the clock when the callbacks were looked at;     *)
(* later: callbacksPending.                                                *)
Locals == [block |-> FALSE, normal |-> FALSE, status |-> {}, now |-> 0, later |-> FALSE,
           ufds |-> <<>>, child |-> 1]

ThreadInit ==
  /\ pc = "rewrite" /\ loop = Locals
  /\ flags = [f \in Fds |-> {}] /\ active = <<>>
  /\ callbackMap = <<>> /\ childRequests = <<>>
  /\ exitedFlag = FALSE
  /\ sigchld = [installed |-> FALSE, blocked |-> FALSE, pending |-> FALSE]
  /\ interrupts = [pending |-> FALSE, left |-> MaxInterrupts]
  /\ time = 1

----------------------------------------------------------------------------
(* What clients ask for.                                                   *)

(* requestCallback: the multimap keeps equal times in order of insertion.  *)
Requested(map, at, id) ==
  InsertAt(map, Cardinality({i \in DOMAIN map : map[i].at <= at}) + 1, [at |-> at, id |-> id])
Cancelled(map, at, id) ==
  LET i == SelectInSeq(map, LAMBDA e : e = [at |-> at, id |-> id])
  IN  IF i = 0 THEN map ELSE RemoveAt(map, i)

(* wantTo: a file not watched yet is linked before the first one.          *)
WantTo(w, fd) ==
  /\ flags' = [flags EXCEPT ![fd] = @ \cup {w}]
  /\ active' = IF flags[fd] = {} THEN <<fd>> \o active ELSE active
(* The flags of fd become w, and it is unlinked when there are none left.  *)
Wanted(w, fd) ==
  /\ flags' = [flags EXCEPT ![fd] = w]
  /\ active' = IF w = {} THEN Dropped(active, {fd}) ELSE active
ClearFlags(fd) == Wanted({}, fd)

RequestChildExitCallback(pid) ==
  /\ childRequests' = Append(childRequests, pid)
  /\ sigchld' = [sigchld EXCEPT !.installed = TRUE]

(* The request removed leaves its place to the last one.                   *)
WithoutRequest(requests, i) ==
  LET n == Len(requests) IN SubSeq([requests EXCEPT ![i] = requests[n]], 1, n - 1)
NotRequested(requests, pid) ==
  LET i == SelectInSeq(requests, LAMBDA p : p = pid)
  IN  IF i = 0 THEN requests ELSE WithoutRequest(requests, i)

----------------------------------------------------------------------------
(* Signals.  The kernel sends SIGCHLD when a child exits: sigchldHandler   *)
(* runs unless the signal is blocked, and is ignored before the first      *)
(* request.                                                                *)
SendSigchld ==
  IF ~sigchld.installed THEN UNCHANGED <<sigchld, exitedFlag>>
  ELSE IF sigchld.blocked
       THEN sigchld' = [sigchld EXCEPT !.pending = TRUE] /\ UNCHANGED exitedFlag
       ELSE exitedFlag' = TRUE /\ UNCHANGED sigchld
Interrupt ==
  /\ interrupts.left > 0
  /\ interrupts' = [pending |-> TRUE, left |-> interrupts.left - 1]

(* sigprocmask: a signal that waited is handled at once.                   *)
UnblockSigchld ==
  /\ sigchld' = [sigchld EXCEPT !.blocked = FALSE, !.pending = FALSE]
  /\ exitedFlag' = (exitedFlag \/ sigchld.pending)

----------------------------------------------------------------------------
(* eventLoop(block, normalSet).                                            *)
EventLoop(block) ==
  /\ pc' = "loop"
  /\ loop' = [Locals EXCEPT !.block = block, !.normal = block]

(* The head of the loop: the clock is read once for all callbacks due.     *)
ReadClock ==
  /\ pc = "loop"
  /\ pc' = IF callbackMap = <<>> THEN "decide" ELSE "callbacks"
  /\ loop' = [loop EXCEPT !.now = IF callbackMap = <<>> THEN 0 ELSE time, !.later = FALSE]
  /\ UNCHANGED <<flags, active, callbackMap, childRequests, exitedFlag, sigchld>>

(* A callback that is due: the client changes the rest of callbackMap.     *)
HandleCallback ==
  /\ pc = "callbacks"
  /\ callbackMap # <<>> /\ Head(callbackMap).at <= loop.now
  /\ loop' = [loop EXCEPT !.status = @ \cup {"EVENT_HANDLED"}, !.block = FALSE]
  /\ UNCHANGED <<pc, flags, active, childRequests, exitedFlag, sigchld>>

CallbacksHandled ==
  /\ pc = "callbacks"
  /\ callbackMap # <<>> => Head(callbackMap).at > loop.now
  /\ pc' = "decide"
  /\ loop' = [loop EXCEPT !.later = callbackMap # <<>>]
  /\ UNCHANGED <<flags, active, callbackMap, childRequests, exitedFlag, sigchld>>

NothingToWatch == active = <<>> /\ childRequests = <<>>
PendingUnlessWatched(status) ==
  IF NothingToWatch THEN status \cup {"NOTHING_PENDING"} ELSE status
WithNothingPending(status) ==
  IF NothingToWatch /\ ~loop.later THEN status \cup {"NOTHING_PENDING"} ELSE status
NoteNothingPending == loop' = [loop EXCEPT !.status = WithNothingPending(@)]

Decide ==
  /\ pc = "decide"
  /\ IF NothingToWatch /\ ~(loop.later /\ loop.block)
     THEN pc' = "again" /\ NoteNothingPending
     ELSE pc' = "block" /\ UNCHANGED loop
  /\ UNCHANGED <<flags, active, callbackMap, childRequests, exitedFlag, sigchld>>

----------------------------------------------------------------------------
(* processFds.                                                             *)

(* The files to poll are collected after SIGCHLD is blocked.               *)
CollectFiles ==
  /\ pc = "block"
  /\ pc' = "poll"
  /\ loop' = [loop EXCEPT !.ufds = [i \in DOMAIN active |-> [fd |-> active[i], revents |-> {}]]]
  /\ UNCHANGED <<flags, active, callbackMap, childRequests, exitedFlag>>
PollUnblocked == CollectFiles /\ UNCHANGED sigchld
BlockSigchld == CollectFiles /\ sigchld' = [sigchld EXCEPT !.blocked = TRUE]

(* ppoll.  revents[fd] are the events of a file that are wanted or always  *)
(* reported.  A signal that is pending, or that arrived during the call,   *)
(* ends it, and its handler runs.  With files ready, POSIX leaves open     *)
(* which of the two is reported.                                           *)
Polled(revents) == {i \in DOMAIN loop.ufds : revents[loop.ufds[i].fd] # {}}

FilesReady(revents) ==
  /\ pc = "poll"
  /\ Polled(revents) # {}
  /\ pc' = "fds"
  /\ loop' = [loop EXCEPT !.ufds =
       [i \in DOMAIN @ |-> [fd |-> @[i].fd, revents |-> revents[@[i].fd]]]]
  /\ UNCHANGED <<flags, active, callbackMap, childRequests, exitedFlag, sigchld>>

PollInterrupted ==
  /\ pc = "poll"
  /\ sigchld.pending \/ interrupts.pending
  /\ UnblockSigchld
  /\ loop' = [loop EXCEPT !.status = WithNothingPending(@ \cup {"INTERRUPTED"}), !.ufds = <<>>]
  /\ pc' = "again"
  /\ UNCHANGED <<flags, active, callbackMap, childRequests>>

(* No wait if not in blocking mode or a child exited before SIGCHLD was    *)
(* blocked; until the first callback is due if there is one, else forever. *)
WaitForever == ~loop.block \/ exitedFlag
WaitDespiteExit == ~loop.block \/ (loop.later /\ time >= Head(callbackMap).at)
WaitIsOver == ~loop.block \/ exitedFlag \/ (loop.later /\ time >= Head(callbackMap).at)
PollTimedOut(revents) ==
  /\ pc = "poll"
  /\ Polled(revents) = {} /\ ~sigchld.pending /\ ~(interrupts.pending /\ loop.normal)
  /\ WaitIsOver
  /\ pc' = "children"
  /\ loop' = [loop EXCEPT !.ufds = <<>>, !.child = 1]
  /\ UNCHANGED <<flags, active, callbackMap, childRequests, exitedFlag, sigchld>>

(* The next file reported: its flags are looked at before each callback;   *)
(* an error or a hang up ends all wishes, a read or a write its own one.   *)
(* After a read the file may still be ready for a write.                   *)
NextFile == Head(loop.ufds)
NextEvent ==
  CASE "ERR" \in NextFile.revents -> "ERR"
    [] "ERR" \notin NextFile.revents /\ "IN" \in NextFile.revents -> "IN"
    [] NextFile.revents \cap {"ERR", "IN"} = {} /\ "HUP" \in NextFile.revents -> "HUP"
    [] OTHER -> "OUT"
HandleFile(event) ==
  /\ pc = "fds" /\ loop.ufds # <<>>
  /\ NextFile.revents # {} /\ flags[NextFile.fd] # {} /\ NextEvent = event
  /\ loop' = [loop EXCEPT
       !.ufds = (IF event = "IN" /\ "OUT" \in NextFile.revents
                 THEN <<[NextFile EXCEPT !.revents = {"OUT"}]>> ELSE <<>>) \o Tail(@),
       !.status = @ \cup {"EVENT_HANDLED"}]
  /\ UNCHANGED <<pc, callbackMap, childRequests, exitedFlag, sigchld>>

(* Not ready, or forgotten by an earlier callback.                         *)
SkipFile ==
  /\ pc = "fds" /\ loop.ufds # <<>>
  /\ NextFile.revents = {} \/ flags[NextFile.fd] = {}
  /\ loop' = [loop EXCEPT !.ufds = Tail(@)]
  /\ UNCHANGED <<pc, flags, active, callbackMap, childRequests, exitedFlag, sigchld>>

FilesHandled ==
  /\ pc = "fds" /\ loop.ufds = <<>>
  /\ pc' = "children"
  /\ loop' = [loop EXCEPT !.child = 1]
  /\ UNCHANGED <<flags, active, callbackMap, childRequests, exitedFlag, sigchld>>

----------------------------------------------------------------------------
(* dispatchChildRequests: waitpid for each child requested, which reaps it *)
(* if it exited.                                                           *)
NextChild == childRequests[loop.child]
HandleChild(exited) ==
  /\ pc = "children" /\ exitedFlag
  /\ loop.child <= Len(childRequests)
  /\ IF exited
     THEN /\ childRequests' = WithoutRequest(childRequests, loop.child)
          /\ loop' = [loop EXCEPT !.status = @ \cup {"EVENT_HANDLED"}]
     ELSE loop' = [loop EXCEPT !.child = @ + 1] /\ UNCHANGED childRequests
  /\ UNCHANGED <<pc, flags, active, callbackMap, exitedFlag, sigchld>>

ChildrenHandled ==
  /\ pc = "children"
  /\ exitedFlag => loop.child > Len(childRequests)
  /\ pc' = "unblock"
  /\ exitedFlag' = FALSE
  /\ UNCHANGED <<loop, flags, active, callbackMap, childRequests, sigchld>>

Unblock ==
  /\ pc = "unblock"
  /\ UnblockSigchld
  /\ pc' = "again"
  /\ NoteNothingPending
  /\ UNCHANGED <<flags, active, callbackMap, childRequests>>

(* The end of the loop: once more as long as nothing happened while it may *)
(* block.                                                                  *)
Again ==
  /\ pc = "again"
  /\ pc' = IF loop.block /\ loop.status = {} THEN "loop" ELSE "return"
  /\ UNCHANGED <<loop, flags, active, callbackMap, childRequests, exitedFlag, sigchld>>

ThreadSteps == ReadClock \/ CallbacksHandled \/ Decide \/ BlockSigchld \/ PollInterrupted
               \/ SkipFile \/ FilesHandled \/ ChildrenHandled \/ Unblock \/ Again
=============================================================================
