--------------------------- MODULE PromiseProofs ----------------------------
(***************************************************************************)
(* Proof that external rewriting keeps what it promises to the objects of  *)
(* the configuration: every step of ObjectSystem is one of                 *)
(* ExternalRequests, or one that it does not see.                          *)
(***************************************************************************)
EXTENDS ObjectSystemProofs

(* What a turn of the event loop knows of itself: whether callbacks are    *)
(* left, that nothing is pending when it says so, and that an answer is    *)
(* never made without being noted.                                         *)
Outside == {"rewrite", "waitpid", "wait", "stopped", "done"}
Decided == {"decide", "block", "poll", "fds", "children", "unblock", "again", "return"}
TurnOK ==
  /\ pc \in Outside => loop.status = {}
  /\ pc \in Decided => (loop.later <=> callbackMap # <<>>)
  /\ "NOTHING_PENDING" \in loop.status =>
       /\ pc \in {"again", "return"} /\ ~loop.later
       /\ active = <<>> /\ childRequests = <<>>
  /\ pc \notin {"rewrite", "waitpid", "stopped", "done"} /\ "EVENT_HANDLED" \notin loop.status
       => incomingMessages = <<>>

LEMMA TurnInitial == Init => TurnOK
BY DEF Init, ThreadInit, ContextInit, Locals, TurnOK, Decided

LEMMA StatusKept ==
  ASSUME NEW l \in LoopType
  PROVE  /\ \A n, b : [l EXCEPT !.now = n, !.later = b].status = l.status
                      /\ [l EXCEPT !.now = n, !.later = b].later = b
         /\ \A s, b : [l EXCEPT !.status = s, !.block = b].status = s
                      /\ [l EXCEPT !.status = s, !.block = b].later = l.later
         /\ \A b : [l EXCEPT !.later = b].status = l.status /\ [l EXCEPT !.later = b].later = b
         /\ \A s : [l EXCEPT !.status = s].status = s /\ [l EXCEPT !.status = s].later = l.later
         /\ \A s, u : [l EXCEPT !.status = s, !.ufds = u].status = s
                      /\ [l EXCEPT !.status = s, !.ufds = u].later = l.later
         /\ \A u, s : [l EXCEPT !.ufds = u, !.status = s].status = s
                      /\ [l EXCEPT !.ufds = u, !.status = s].later = l.later
         /\ \A u : [l EXCEPT !.ufds = u].status = l.status /\ [l EXCEPT !.ufds = u].later = l.later
         /\ \A c : [l EXCEPT !.child = c].status = l.status /\ [l EXCEPT !.child = c].later = l.later
         /\ \A u, c : [l EXCEPT !.ufds = u, !.child = c].status = l.status
                      /\ [l EXCEPT !.ufds = u, !.child = c].later = l.later
BY DEF LoopType

(* The thread polls: no answer is made.                                    *)
LEMMA TurnPolls ==
  ASSUME TurnOK, ThreadOK, PollStep
  PROVE  TurnOK'
<1>0. /\ loop \in LoopType /\ UNCHANGED incomingMessages
      /\ pc \in Outside => loop.status = {}
      /\ pc \in Decided => (loop.later <=> callbackMap # <<>>)
      /\ "NOTHING_PENDING" \in loop.status =>
           /\ pc \in {"again", "return"} /\ ~loop.later
           /\ active = <<>> /\ childRequests = <<>>
      /\ pc \notin {"rewrite", "waitpid", "stopped", "done"} /\ "EVENT_HANDLED" \notin loop.status
           => incomingMessages = <<>>
  BY DEF TurnOK, ThreadOK, PollStep
<1>1. UNCHANGED <<active, callbackMap, childRequests>>
  BY DEF PollStep, ThreadSteps, ReadClock, CallbacksHandled, Decide, BlockSigchld, CollectFiles,
         PollInterrupted, SkipFile, FilesHandled, ChildrenHandled, Unblock, Again, FilesReady, PollTimedOut
<1>2. CASE ReadClock
  <2>1. PICK n, b : loop' = [loop EXCEPT !.now = n, !.later = b] /\ b = FALSE
    BY <1>2 DEF ReadClock
  <2>2. loop'.status = loop.status /\ loop'.later = FALSE
    BY <1>0, <2>1, StatusKept
  <2>3. pc = "loop" /\ pc' = IF callbackMap = <<>> THEN "decide" ELSE "callbacks"
    BY <1>2 DEF ReadClock
  <2> QED
    BY <1>0, <1>1, <2>2, <2>3 DEF TurnOK, Outside, Decided
<1>3. CASE CallbacksHandled
  <2>1. PICK b : loop' = [loop EXCEPT !.later = b] /\ b = (callbackMap # <<>>)
    BY <1>3 DEF CallbacksHandled
  <2>2. loop'.status = loop.status /\ loop'.later = (callbackMap # <<>>)
    BY <1>0, <2>1, StatusKept
  <2>3. pc = "callbacks" /\ pc' = "decide"
    BY <1>3 DEF CallbacksHandled
  <2> QED
    BY <1>0, <1>1, <2>2, <2>3 DEF TurnOK, Outside, Decided
<1>4. ASSUME NEW s, loop'.status = s, loop'.later = loop.later, pc \in {"decide", "poll", "unblock"},
             pc' = "again", "EVENT_HANDLED" \in s <=> "EVENT_HANDLED" \in loop.status,
             "NOTHING_PENDING" \in s => NothingToWatch /\ ~loop.later
      PROVE  TurnOK'
  BY <1>0, <1>1, <1>4 DEF TurnOK, Outside, Decided, NothingToWatch
<1>5. ASSUME NEW s
      PROVE  /\ "EVENT_HANDLED" \in WithNothingPending(s) <=> "EVENT_HANDLED" \in s
             /\ "NOTHING_PENDING" \in WithNothingPending(s) =>
                  "NOTHING_PENDING" \in s \/ (NothingToWatch /\ ~loop.later)
  BY DEF WithNothingPending
<1>6. NoteNothingPending =>
        loop'.status = WithNothingPending(loop.status) /\ loop'.later = loop.later
  <2>1. PICK s : s = WithNothingPending(loop.status)
    OBVIOUS
  <2>2. [loop EXCEPT !.status = s].status = s /\ [loop EXCEPT !.status = s].later = loop.later
    BY <1>0, StatusKept
  <2>3. NoteNothingPending => loop' = [loop EXCEPT !.status = s]
    BY <2>1 DEF NoteNothingPending
  <2> QED
    BY <2>1, <2>2, <2>3
<1>7. CASE Decide
  <2>1. \/ pc' = "block" /\ UNCHANGED loop
        \/ pc' = "again" /\ NoteNothingPending
    BY <1>7 DEF Decide
  <2>2. pc = "decide"
    BY <1>7 DEF Decide
  <2>3. CASE pc' = "block" /\ UNCHANGED loop
    BY <1>0, <1>1, <2>2, <2>3 DEF TurnOK, Outside, Decided
  <2>4. CASE pc' = "again" /\ NoteNothingPending
    BY <1>0, <1>4, <1>5, <1>6, <2>2, <2>4
  <2> QED
    BY <2>1, <2>3, <2>4
<1>8. CASE Unblock
  <2>1. pc = "unblock" /\ pc' = "again" /\ NoteNothingPending
    BY <1>8 DEF Unblock
  <2> QED
    BY <1>0, <1>4, <1>5, <1>6, <2>1
<1>9. CASE PollInterrupted
  <2>1. PICK s, u, t : /\ loop' = [loop EXCEPT !.status = s, !.ufds = u] /\ s = WithNothingPending(t)
                       /\ t = loop.status \cup {"INTERRUPTED"}
    BY <1>9 DEF PollInterrupted
  <2>2. loop'.status = s /\ loop'.later = loop.later
    BY <1>0, <2>1, StatusKept
  <2>3. /\ "EVENT_HANDLED" \in s <=> "EVENT_HANDLED" \in t
        /\ "NOTHING_PENDING" \in s => "NOTHING_PENDING" \in t \/ (NothingToWatch /\ ~loop.later)
    BY <1>5, <2>1
  <2>4. /\ "EVENT_HANDLED" \in t <=> "EVENT_HANDLED" \in loop.status
        /\ "NOTHING_PENDING" \in t <=> "NOTHING_PENDING" \in loop.status
    BY <2>1
  <2>5. pc = "poll" /\ pc' = "again"
    BY <1>9 DEF PollInterrupted
  <2> QED
    BY <1>0, <1>4, <2>2, <2>3, <2>4, <2>5
<1>10. ASSUME loop'.status = loop.status, loop'.later = loop.later,
              pc \in Decided \ {"again", "return"}, pc' \in Decided \ {"again", "return"}
       PROVE  TurnOK'
  BY <1>0, <1>1, <1>10 DEF TurnOK, Outside, Decided
<1>11. CASE BlockSigchld \/ SkipFile
  <2>1. PICK u : loop' = [loop EXCEPT !.ufds = u]
    BY <1>11 DEF BlockSigchld, CollectFiles, SkipFile
  <2>2. loop'.status = loop.status /\ loop'.later = loop.later
    BY <1>0, <2>1, StatusKept
  <2>3. pc \in {"block", "fds"} /\ pc' \in {"poll", "fds"}
    BY <1>11 DEF BlockSigchld, CollectFiles, SkipFile
  <2> QED
    BY <1>10, <2>2, <2>3 DEF Decided
<1>12. CASE \E revents : FilesReady(revents)
  <2>1. PICK u : loop' = [loop EXCEPT !.ufds = u]
    BY <1>12 DEF FilesReady
  <2>2. loop'.status = loop.status /\ loop'.later = loop.later
    BY <1>0, <2>1, StatusKept
  <2>3. pc = "poll" /\ pc' = "fds"
    BY <1>12 DEF FilesReady
  <2> QED
    BY <1>10, <2>2, <2>3 DEF Decided
<1>13. CASE (\E revents : PollTimedOut(revents)) \/ FilesHandled
  <2>1. PICK u, c : loop' = [loop EXCEPT !.ufds = u, !.child = c] \/ loop' = [loop EXCEPT !.child = c]
    BY <1>13 DEF PollTimedOut, FilesHandled
  <2>2. loop'.status = loop.status /\ loop'.later = loop.later
    BY <1>0, <2>1 DEF LoopType
  <2>3. pc \in {"poll", "fds"} /\ pc' = "children"
    BY <1>13 DEF PollTimedOut, FilesHandled
  <2> QED
    BY <1>10, <2>2, <2>3 DEF Decided
<1>14. CASE ChildrenHandled
  BY <1>10, <1>14 DEF ChildrenHandled, Decided
<1>15. CASE Again
  <2>1. pc = "again" /\ UNCHANGED loop /\ (pc' = "return" \/ (pc' = "loop" /\ loop.status = {}))
    BY <1>15 DEF Again
  <2> QED
    BY <1>0, <1>1, <2>1 DEF TurnOK, Outside, Decided
<1> QED
  BY <1>2, <1>3, <1>7, <1>8, <1>9, <1>11, <1>12, <1>13, <1>14, <1>15 DEF PollStep, ThreadSteps

LEMMA TurnStep ==
  ASSUME TurnOK, ThreadOK, [Next]_vars
  PROVE  TurnOK'
<1>0. /\ loop \in LoopType
      /\ pc \in Outside => loop.status = {}
      /\ pc \in Decided => (loop.later <=> callbackMap # <<>>)
      /\ "NOTHING_PENDING" \in loop.status =>
           /\ pc \in {"again", "return"} /\ ~loop.later
           /\ active = <<>> /\ childRequests = <<>>
      /\ pc \notin {"rewrite", "waitpid", "stopped", "done"} /\ "EVENT_HANDLED" \notin loop.status
           => incomingMessages = <<>>
  BY DEF TurnOK, ThreadOK
<1>1. ASSUME pc' \in {"rewrite", "waitpid", "stopped", "done"}, loop'.status = {}
      PROVE  TurnOK'
  BY <1>1 DEF TurnOK, Decided
<1>2. ASSUME pc' \in {"wait", "loop"}, loop'.status = {}, incomingMessages' = <<>>
      PROVE  TurnOK'
  BY <1>2 DEF TurnOK, Decided
<1>3. /\ Locals.status = {}
      /\ \A b : [Locals EXCEPT !.block = b, !.normal = b].status = {}
  BY DEF Locals
<1>4. \A b : EventLoop(b) => pc' = "loop" /\ loop'.status = {}
  BY <1>3 DEF EventLoop
<1>5. CASE SendMessage
  <2>1. pc = "rewrite" /\ UNCHANGED loop /\ pc' \in {"rewrite", "waitpid"}
    BY <1>5 DEF SendMessage, TimerMessage, SocketMessage, CreateProcessMessage, SignalMessage, WaitMessage,
                OfTimer, OfSocket, OfProcess, Send
  <2> QED
    BY <1>0, <1>1, <2>1 DEF Outside
<1>6. CASE WaitChecked \/ LimitReached \/ Continue \/ NewContext
  <2>1. pc \in {"waitpid", "rewrite", "stopped", "done"} /\ UNCHANGED loop /\ pc' \in {"rewrite", "stopped"}
    BY <1>6 DEF WaitChecked, LimitReached, Continue, NewContext
  <2> QED
    BY <1>0, <1>1, <2>1 DEF Outside
<1>7. CASE TraversalEnds
  <2>1. /\ pc = "rewrite" /\ incomingMessages' = <<>>
        /\ EventLoop(FALSE) \/ (pc' = "wait" /\ UNCHANGED loop)
    BY <1>7 DEF TraversalEnds
  <2> QED
    BY <1>0, <1>2, <1>4, <2>1 DEF Outside
<1>8. CASE HandleInterrupt
  <2>1. /\ pc \in {"rewrite", "wait"} /\ pc' \in {pc, "stopped"} /\ UNCHANGED <<loop, incomingMessages>>
    BY <1>8 DEF HandleInterrupt
  <2> QED
    BY <1>0, <1>1, <1>2, <2>1 DEF Outside
<1>9. CASE WaitForEvents
  <2>1. pc = "wait" /\ UNCHANGED incomingMessages /\ EventLoop(TRUE)
    BY <1>9 DEF WaitForEvents
  <2> QED
    BY <1>0, <1>2, <1>4, <2>1 DEF Outside
<1>10. CASE EventLoopReturns
  <2>1. /\ pc = "return" /\ loop'.status = {} /\ UNCHANGED incomingMessages
        /\ pc' \in {AfterEventLoop, "stopped"}
    BY <1>3, <1>10 DEF EventLoopReturns
  <2>2. /\ AfterEventLoop \in {"rewrite", "done", "wait"}
        /\ AfterEventLoop = "wait" => "EVENT_HANDLED" \notin loop.status
    BY DEF AfterEventLoop
  <2> QED
    BY <1>0, <1>1, <1>2, <2>1, <2>2
<1>11. ASSUME pc \in {"callbacks", "fds", "children"}, UNCHANGED pc, loop'.later = loop.later,
              pc # "callbacks" => UNCHANGED callbackMap,
              \/ loop'.status = loop.status \cup {"EVENT_HANDLED"}
              \/ UNCHANGED incomingMessages /\ loop'.status = loop.status
       PROVE  TurnOK'
  BY <1>0, <1>11 DEF TurnOK, Outside, Decided
<1>12. CASE TimerCallback
  <2>1. PICK s, b : /\ s = loop.status \cup {"EVENT_HANDLED"} /\ b = FALSE
                    /\ loop' = [loop EXCEPT !.status = s, !.block = b]
    BY <1>12 DEF TimerCallback, HandleCallback
  <2>2. loop'.status = s /\ loop'.later = loop.later
    BY <1>0, <2>1 DEF LoopType
  <2>3. pc = "callbacks" /\ UNCHANGED pc
    BY <1>12 DEF TimerCallback, HandleCallback
  <2> QED
    BY <1>11, <2>1, <2>2, <2>3
<1>13. CASE FileCallback
  <2>1. PICK event : HandleFile(event)
    BY <1>13 DEF FileCallback
  <2>2. PICK u, s : loop' = [loop EXCEPT !.ufds = u, !.status = s] /\ s = loop.status \cup {"EVENT_HANDLED"}
    BY <2>1 DEF HandleFile
  <2>3. loop'.status = s /\ loop'.later = loop.later
    BY <1>0, <2>2 DEF LoopType
  <2>4. pc = "fds" /\ UNCHANGED <<pc, callbackMap>>
    BY <2>1 DEF HandleFile
  <2> QED
    BY <1>11, <2>2, <2>3, <2>4
<1>14. CASE ChildCallback
  <2>1. pc = "children" /\ UNCHANGED <<pc, callbackMap>>
    BY <1>14 DEF ChildCallback, HandleChild
  <2>2. CASE HandleChild(TRUE)
    <3>1. PICK s : loop' = [loop EXCEPT !.status = s] /\ s = loop.status \cup {"EVENT_HANDLED"}
      BY <2>2 DEF HandleChild
    <3>2. loop'.status = s /\ loop'.later = loop.later
      BY <1>0, <3>1 DEF LoopType
    <3> QED
      BY <1>11, <2>1, <3>1, <3>2
  <2>3. CASE HandleChild(FALSE) /\ UNCHANGED incomingMessages
    <3>1. PICK c : loop' = [loop EXCEPT !.child = c]
      BY <2>3 DEF HandleChild
    <3>2. loop'.status = loop.status /\ loop'.later = loop.later
      BY <1>0, <3>1 DEF LoopType
    <3> QED
      BY <1>11, <2>1, <2>3, <3>2
  <2> QED
    BY <1>14, <2>2, <2>3 DEF ChildCallback
<1>15. CASE Tick \/ ChildEvent \/ NetworkEvent \/ UserInterrupt \/ UNCHANGED vars
  <2>1. UNCHANGED <<pc, loop, active, callbackMap, childRequests, incomingMessages>>
    BY <1>15 DEF Tick, ChildEvent, NetworkEvent, UserInterrupt, vars, threadVars, requestVars, contextVars
  <2> QED
    BY <1>0, <2>1 DEF TurnOK
<1> QED
  BY <1>5, <1>6, <1>7, <1>8, <1>9, <1>10, <1>12, <1>13, <1>14, <1>15, TurnPolls DEF Next, Program

----------------------------------------------------------------------------
(* The replies that wait to be read.                                       *)
MessagesOK == \E S : incomingMessages \in Seq(S)
Heard(n) == Len(incomingMessages') = Len(Unread) + n /\ MessagesOK'

LEMMA MessagesKept == MessagesOK /\ (UNCHANGED incomingMessages \/ incomingMessages' = <<>>) => MessagesOK'
<1> SUFFICES ASSUME MessagesOK, UNCHANGED incomingMessages \/ incomingMessages' = <<>>
             PROVE  \E S : incomingMessages' \in Seq(S)
  BY DEF MessagesOK
<1>1. PICK S : incomingMessages \in Seq(S)
  BY DEF MessagesOK
<1>2. <<>> \in Seq(S)
  BY EmptySeq
<1> QED
  BY <1>1, <1>2

LEMMA UnreadLemma ==
  ASSUME MessagesOK
  PROVE  /\ \E S : Unread \in Seq(S)
         /\ Len(Unread) \in Nat /\ Len(incomingMessages) \in Nat
         /\ pc = "rewrite" => Len(Unread) = 0
         /\ pc # "rewrite" => Len(Unread) = Len(incomingMessages)
<1>1. PICK S : incomingMessages \in Seq(S)
  BY DEF MessagesOK
<1>2. <<>> \in Seq(S) /\ Len(<<>>) = 0
  BY EmptySeq
<1>3. Unread \in Seq(S) /\ Len(incomingMessages) \in Nat
  BY <1>1, <1>2, LenProperties DEF Unread
<1> QED
  BY <1>2, <1>3, LenProperties DEF Unread

LEMMA HeardLemma ==
  ASSUME MessagesOK, NEW o, NEW others
  PROVE  /\ ReplyWith(<<>>, o, others) => Heard(0)
         /\ \A m : ReplyWith(<<m>>, o, others) => Heard(1)
         /\ \A m, n : ReplyWith(<<m, n>>, o, others) => Heard(2)
<1>1. PICK S, u : u = Unread /\ u \in Seq(S) /\ Len(u) \in Nat
  BY UnreadLemma
<1>2. ASSUME NEW k \in Nat, NEW T, NEW x \in Seq(T), Len(x) = k, incomingMessages' = u \o x
      PROVE  Heard(k)
  <2>1. PICK R : R = S \cup T
    OBVIOUS
  <2>2. u \in Seq(R) /\ x \in Seq(R)
    <3>1. S \subseteq R /\ T \subseteq R
      BY <2>1
    <3> QED
      BY <1>1, <1>2, <3>1, SeqMonotonic
  <2>3. u \o x \in Seq(R) /\ Len(u \o x) = Len(u) + Len(x)
    BY <2>2, ConcatProperties
  <2>4. \E Q : incomingMessages' \in Seq(Q)
    BY <1>2, <2>3
  <2> QED
    BY <1>1, <1>2, <2>3, <2>4 DEF Heard, MessagesOK
<1>3. ASSUME ReplyWith(<<>>, o, others) PROVE Heard(0)
  <2>1. PICK none, x : none = <<>> /\ x = [i \in DOMAIN none |-> <<none[i], o>>]
    OBVIOUS
  <2>2. DOMAIN none = 1 .. 0
    BY <2>1
  <2>3. x \in Seq({o}) /\ Len(x) = 0
    BY <2>1, <2>2
  <2>4. incomingMessages' = u \o x
    BY <1>1, <1>3, <2>1 DEF ReplyWith
  <2>5. PICK zero \in Nat : zero = Len(x) /\ zero = 0
    BY <2>3
  <2>6. Heard(zero)
    BY <1>2, <2>3, <2>4, <2>5
  <2> QED
    BY <2>5, <2>6
<1>4. ASSUME NEW m, ReplyWith(<<m>>, o, others) PROVE Heard(1)
  <2>1. PICK one, x : one = <<m>> /\ x = [i \in DOMAIN one |-> <<one[i], o>>]
    OBVIOUS
  <2>2. DOMAIN one = 1 .. 1
    BY <2>1
  <2>3. x \in Seq({<<one[1], o>>}) /\ Len(x) = 1
    BY <2>1, <2>2
  <2>4. incomingMessages' = u \o x
    BY <1>1, <1>4, <2>1 DEF ReplyWith
  <2> QED
    BY <1>2, <2>3, <2>4
<1>5. ASSUME NEW m, NEW n, ReplyWith(<<m, n>>, o, others) PROVE Heard(2)
  <2>1. PICK two, x : two = <<m, n>> /\ x = [i \in DOMAIN two |-> <<two[i], o>>]
    OBVIOUS
  <2>2. DOMAIN two = 1 .. 2
    BY <2>1
  <2>3. x \in Seq({<<two[1], o>>, <<two[2], o>>}) /\ Len(x) = 2
    BY <2>1, <2>2
  <2>4. incomingMessages' = u \o x
    BY <1>1, <1>5, <2>1 DEF ReplyWith
  <2> QED
    BY <1>2, <2>3, <2>4
<1> QED
  BY <1>3, <1>4, <1>5

LEMMA HeardReply ==
  ASSUME MessagesOK, NEW o
  PROVE  /\ Reply(<<>>, o) => Heard(0)
         /\ \A m : Reply(<<m>>, o) => Heard(1)
         /\ \A m, n : Reply(<<m, n>>, o) => Heard(2)
<1>1. PICK nothing : nothing = {}
  OBVIOUS
<1>2. \A ms : Reply(ms, o) <=> ReplyWith(ms, o, nothing)
  BY <1>1 DEF Reply
<1> QED
  BY <1>2, HeardLemma

----------------------------------------------------------------------------
(* The requests that pend, from the timers that run, the children that are *)
(* waited for and what is asked of the sockets.                            *)
Purposes == {"read", "write", "connect"}
ArmedIn(timers) == {k \in DOMAIN timers : timers[k].at # Stopped}
WaitingIn(children) == {p \in DOMAIN children : children[p].waitContext # NoContext}
Asking(sockets) == {x \in Purposes \X DOMAIN sockets : x[1] \in Asked(sockets[x[2]].state)}
PendingOf(ids, pids, asking) ==
  {<<"timeOut", <<"timer", id>>>> : id \in ids} \cup {<<"exit", <<"process", pid>>>> : pid \in pids}
  \cup {<<x[1], <<"socket", x[2]>>>> : x \in asking}

LEMMA SocketsAsked ==
  ASSUME NEW sockets
  PROVE  UNION {{<<p, <<"socket", fd>>>> : p \in Asked(sockets[fd].state)} : fd \in DOMAIN sockets}
         = {<<x[1], <<"socket", x[2]>>>> : x \in Asking(sockets)}
<1> DEFINE L == UNION {{<<p, <<"socket", fd>>>> : p \in Asked(sockets[fd].state)} : fd \in DOMAIN sockets}
           R == {<<x[1], <<"socket", x[2]>>>> : x \in Asking(sockets)}
<1>1. ASSUME NEW r \in L PROVE r \in R
  <2>1. PICK fd, p : fd \in DOMAIN sockets /\ p \in Asked(sockets[fd].state) /\ r = <<p, <<"socket", fd>>>>
    OBVIOUS
  <2>2. p \in Purposes
    BY <2>1 DEF Asked, Purposes
  <2>3. PICK x : x = <<p, fd>>
    OBVIOUS
  <2>4. x[1] = p /\ x[2] = fd /\ x \in Purposes \X DOMAIN sockets
    BY <2>1, <2>2, <2>3
  <2>5. x \in Asking(sockets)
    BY <2>1, <2>4 DEF Asking
  <2> QED
    BY <2>1, <2>4, <2>5
<1>2. ASSUME NEW r \in R PROVE r \in L
  BY <1>2 DEF Asking
<1> QED
  BY <1>1, <1>2

LEMMA PendingIs ==
  /\ Pending = PendingOf(ArmedIn(timerMap), WaitingIn(childProcesses), Asking(activeSockets))
  /\ Pending' = PendingOf(ArmedIn(timerMap'), WaitingIn(childProcesses'), Asking(activeSockets'))
<1>1. Pending = PendingOf(ArmedIn(timerMap), WaitingIn(childProcesses), Asking(activeSockets))
  BY SocketsAsked
  DEF Pending, PendingOf, ArmedIn, WaitingIn, Armed, Waiting, Timer, Process, Socket
<1>2. Pending' = PendingOf(ArmedIn(timerMap'), WaitingIn(childProcesses'), Asking(activeSockets'))
  BY SocketsAsked
  DEF Pending, PendingOf, ArmedIn, WaitingIn, Armed, Waiting, Timer, Process, Socket
<1> QED
  BY <1>1, <1>2

LEMMA PendingChanges ==
  ASSUME NEW ids, NEW pids, NEW asking, asking \subseteq Purposes \X Fds
  PROVE  /\ \A id : /\ PendingOf(ids \cup {id}, pids, asking) =
                         PendingOf(ids, pids, asking) \cup {<<"timeOut", <<"timer", id>>>>}
                    /\ PendingOf(ids \ {id}, pids, asking) =
                         PendingOf(ids, pids, asking) \ {<<"timeOut", <<"timer", id>>>>}
                    /\ id \in ids <=> <<"timeOut", <<"timer", id>>>> \in PendingOf(ids, pids, asking)
         /\ \A pid : /\ PendingOf(ids, pids \cup {pid}, asking) =
                          PendingOf(ids, pids, asking) \cup {<<"exit", <<"process", pid>>>>}
                     /\ PendingOf(ids, pids \ {pid}, asking) =
                          PendingOf(ids, pids, asking) \ {<<"exit", <<"process", pid>>>>}
                     /\ pid \in pids <=> <<"exit", <<"process", pid>>>> \in PendingOf(ids, pids, asking)
<1> DEFINE T(y) == <<"timeOut", <<"timer", y>>>>
           E(y) == <<"exit", <<"process", y>>>>
           K(x) == <<x[1], <<"socket", x[2]>>>>
<1>1. /\ \A y, z : (T(y) = T(z) <=> y = z) /\ (E(y) = E(z) <=> y = z) /\ T(y) # E(z)
      /\ \A x \in asking : \A y : K(x) # T(y) /\ K(x) # E(y)
  <2>1. \A x \in asking : x[1] # "timeOut" /\ x[1] # "exit"
    BY DEF Purposes
  <2> QED
    BY <2>1
<1>2. \A a, b, r : r \in PendingOf(a, b, asking) <=>
               \/ \E id \in a : r = T(id)
               \/ \E pid \in b : r = E(pid)
               \/ \E x \in asking : r = K(x)
  BY DEF PendingOf
<1> HIDE DEF T, E, K
<1>3. ASSUME NEW id
      PROVE  /\ PendingOf(ids \cup {id}, pids, asking) = PendingOf(ids, pids, asking) \cup {T(id)}
             /\ PendingOf(ids \ {id}, pids, asking) = PendingOf(ids, pids, asking) \ {T(id)}
             /\ id \in ids <=> T(id) \in PendingOf(ids, pids, asking)
  <2>1. \A r : r \in PendingOf(ids \cup {id}, pids, asking) <=> r \in PendingOf(ids, pids, asking) \/ r = T(id)
    BY <1>2
  <2>2. \A r : r \in PendingOf(ids \ {id}, pids, asking) <=> r \in PendingOf(ids, pids, asking) /\ r # T(id)
    BY <1>1, <1>2
  <2>3. id \in ids <=> T(id) \in PendingOf(ids, pids, asking)
    BY <1>1, <1>2
  <2> QED
    BY <2>1, <2>2, <2>3
<1>4. ASSUME NEW pid
      PROVE  /\ PendingOf(ids, pids \cup {pid}, asking) = PendingOf(ids, pids, asking) \cup {E(pid)}
             /\ PendingOf(ids, pids \ {pid}, asking) = PendingOf(ids, pids, asking) \ {E(pid)}
             /\ pid \in pids <=> E(pid) \in PendingOf(ids, pids, asking)
  <2>1. \A r : r \in PendingOf(ids, pids \cup {pid}, asking) <=> r \in PendingOf(ids, pids, asking) \/ r = E(pid)
    BY <1>2
  <2>2. \A r : r \in PendingOf(ids, pids \ {pid}, asking) <=> r \in PendingOf(ids, pids, asking) /\ r # E(pid)
    BY <1>1, <1>2
  <2>3. pid \in pids <=> E(pid) \in PendingOf(ids, pids, asking)
    BY <1>1, <1>2
  <2> QED
    BY <2>1, <2>2, <2>3
<1> QED
  BY <1>3, <1>4 DEF T, E

(* The same for the sockets.                                               *)
LEMMA AskingChanges ==
  ASSUME NEW ids, NEW pids, NEW asking \in SUBSET (Purposes \X Fds)
  PROVE  \A p \in Purposes, fd \in Fds :
           /\ PendingOf(ids, pids, asking \cup {<<p, fd>>}) =
                PendingOf(ids, pids, asking) \cup {<<p, <<"socket", fd>>>>}
           /\ PendingOf(ids, pids, asking \ {<<p, fd>>}) =
                PendingOf(ids, pids, asking) \ {<<p, <<"socket", fd>>>>}
           /\ PendingOf(ids, pids, {x \in asking : x[2] # fd}) =
                {r \in PendingOf(ids, pids, asking) : r[2] # <<"socket", fd>>}
           /\ <<p, fd>> \in asking <=> <<p, <<"socket", fd>>>> \in PendingOf(ids, pids, asking)
<1> TAKE p \in Purposes, fd \in Fds
<1> DEFINE T(y) == <<"timeOut", <<"timer", y>>>>
           E(y) == <<"exit", <<"process", y>>>>
           K(x) == <<x[1], <<"socket", x[2]>>>>
<1>1. PICK z : z = <<p, fd>>
  OBVIOUS
<1>2. /\ \A x \in asking : \A y : K(x) # T(y) /\ K(x) # E(y)
      /\ \A x \in asking : K(x) = K(z) <=> x = z
      /\ \A y : K(z) # T(y) /\ K(z) # E(y)
      /\ K(z) = <<p, <<"socket", fd>>>>
  <2>1. \A x \in asking : x[1] # "timeOut" /\ x[1] # "exit" /\ x = <<x[1], x[2]>>
    BY DEF Purposes
  <2>2. z[1] = p /\ z[2] = fd /\ p # "timeOut" /\ p # "exit"
    BY <1>1 DEF Purposes
  <2> QED
    BY <1>1, <2>1, <2>2
<1>3. /\ \A x \in asking : K(x)[2] = <<"socket", fd>> <=> x[2] = fd
      /\ \A y : T(y)[2] # <<"socket", fd>> /\ E(y)[2] # <<"socket", fd>>
  OBVIOUS
<1>4. \A a, r : r \in PendingOf(ids, pids, a) <=>
               \/ \E id \in ids : r = T(id)
               \/ \E pid \in pids : r = E(pid)
               \/ \E x \in a : r = K(x)
  BY DEF PendingOf
<1> HIDE DEF T, E, K
<1>5. \A r : r \in PendingOf(ids, pids, asking \cup {z}) <=> r \in PendingOf(ids, pids, asking) \/ r = K(z)
  BY <1>4
<1>6. \A r : r \in PendingOf(ids, pids, asking \ {z}) <=> r \in PendingOf(ids, pids, asking) /\ r # K(z)
  BY <1>2, <1>4
<1>7. \A r : r \in PendingOf(ids, pids, {x \in asking : x[2] # fd}) <=>
               r \in PendingOf(ids, pids, asking) /\ r[2] # <<"socket", fd>>
  BY <1>3, <1>4
<1>8. z \in asking <=> K(z) \in PendingOf(ids, pids, asking)
  BY <1>2, <1>4
<1>9. /\ PendingOf(ids, pids, asking \cup {z}) = PendingOf(ids, pids, asking) \cup {K(z)}
      /\ PendingOf(ids, pids, asking \ {z}) = PendingOf(ids, pids, asking) \ {K(z)}
      /\ PendingOf(ids, pids, {x \in asking : x[2] # fd}) =
           {r \in PendingOf(ids, pids, asking) : r[2] # <<"socket", fd>>}
  BY <1>5, <1>6, <1>7
<1> QED
  BY <1>1, <1>2, <1>8, <1>9

----------------------------------------------------------------------------
(* The steps of the abstract specification.                                *)
Promised == [Promise!Next]_(Promise!vars)
Unseen == UNCHANGED <<Pending, Len(incomingMessages), Phase>>

LEMMA RequestKinds ==
  /\ \A id \in 0 .. MaxTimers - 1 :
       /\ <<"timeOut", <<"timer", id>>>> \in Requests
       /\ <<"timeOut", <<"timer", id>>>> \in Promise!About(<<"timer", id>>)
       /\ <<"timer", id>> \in Promise!Objects
  /\ \A pid \in Pids :
       /\ <<"exit", <<"process", pid>>>> \in Requests
       /\ <<"exit", <<"process", pid>>>> \in Promise!About(<<"process", pid>>)
       /\ <<"process", pid>> \in Promise!Objects
  /\ \A p \in Purposes, fd \in Fds :
       /\ <<p, <<"socket", fd>>>> \in Requests
       /\ <<p, <<"socket", fd>>>> \in Promise!About(<<"socket", fd>>)
       /\ <<"socket", fd>> \in Promise!Objects
<1>1. \A id \in 0 .. MaxTimers - 1 : <<"timeOut", <<"timer", id>>>> \in Requests
  BY DEF Requests, Timer
<1>2. \A pid \in Pids : <<"exit", <<"process", pid>>>> \in Requests
  BY DEF Requests, Process
<1>3. \A p \in Purposes, fd \in Fds : <<p, <<"socket", fd>>>> \in Requests
  BY DEF Requests, Socket, Purposes
<1>4. \A r \in Requests : r \in Promise!About(r[2]) /\ r[2] \in Promise!Objects
  BY DEF Promise!About, Promise!Objects
<1>5. \A a, o : <<a, o>>[2] = o
  OBVIOUS
<1>6. \A a, o : <<a, o>> \in Requests => <<a, o>> \in Promise!About(o) /\ o \in Promise!Objects
  BY <1>4, <1>5
<1>7. "read" \in Purposes
  BY DEF Purposes
<1> QED
  BY <1>1, <1>2, <1>3, <1>6, <1>7

LEMMA StepUnseen == Unseen => Promised
BY DEF Unseen, Promised, Promise!vars

LEMMA StepRewrites ==
  ASSUME Phase = "rewriting", Phase' = "rewriting", Pending' = Pending, Len(incomingMessages') \in {0, 1}
  PROVE  Promised
BY DEF Promised, Promise!Next, Promise!Rewrite

LEMMA StepAsks ==
  ASSUME Phase = "rewriting", Phase' = "rewriting", NEW o \in Promise!Objects,
         Len(incomingMessages) \in Nat,
         Len(incomingMessages') \in {0, 1, Len(incomingMessages), Len(incomingMessages) + 1},
         Len(incomingMessages') <= Len(incomingMessages) + 1,
         \/ \E r \in Promise!About(o) : Pending' = Pending \cup {r}
         \/ \E r \in Promise!About(o) : Pending' = Pending \ {r}
         \/ Pending' = {r \in Pending : r[2] # o} /\ Pending \in SUBSET Requests
         \/ Pending' = Pending
  PROVE  Promised
<1>1. Len(incomingMessages') \in 0 .. Len(incomingMessages) + 1
  OBVIOUS
<1>2. Pending' \in {Pending \ S : S \in SUBSET Promise!About(o)}
                   \cup {Pending \cup {r} : r \in Promise!About(o)}
  <2>1. CASE \E r \in Promise!About(o) : Pending' = Pending \cup {r}
    BY <2>1
  <2>2. CASE \E r \in Promise!About(o) : Pending' = Pending \ {r}
    BY <2>2
  <2>3. CASE Pending' = {r \in Pending : r[2] # o} /\ Pending \in SUBSET Requests
    <3>1. Pending' = Pending \ Promise!About(o)
      BY <2>3 DEF Promise!About
    <3> QED
      BY <3>1
  <2>4. CASE Pending' = Pending
    <3>1. Pending' = Pending \ {}
      BY <2>4
    <3> QED
      BY <3>1
  <2> QED
    BY <2>1, <2>2, <2>3, <2>4
<1> QED
  BY <1>1, <1>2 DEF Promised, Promise!Next, Promise!Message

LEMMA StepAnswers ==
  ASSUME Phase = "waiting", Phase' = "waiting", NEW r \in Requests, r \in Pending,
         Len(incomingMessages') = Len(incomingMessages) + 1,
         \/ Pending' = Pending \ {r}
         \/ Pending' = Pending /\ r \in {<<"timeOut", Timer(id)>> : id \in 0 .. MaxTimers - 1}
  PROVE  Promised
BY DEF Promised, Promise!Next, Promise!Answer

LEMMA StepCloses ==
  ASSUME Phase = "waiting", Phase' = "waiting", NEW o \in Promise!Objects,
         Len(incomingMessages) \in Nat, Pending \in SUBSET Requests,
         Pending' = {r \in Pending : r[2] # o},
         NEW r \in Pending, r[2] = o,
         NEW S, S = Promise!About(o) \cap Pending, IsFiniteSet(S),
         \/ Len(incomingMessages') = Len(incomingMessages) + 1
         \/ /\ Len(incomingMessages') = Len(incomingMessages) + 2
            /\ \E t \in Pending : t[2] = o /\ t # r
  PROVE  Promised
<1>1. r \in S /\ S # {} /\ Pending' = Pending \ Promise!About(o)
  BY DEF Promise!About
<1>2. Cardinality(S) \in Nat /\ Cardinality(S) # 0
  BY <1>1, FS_CardinalityType, FS_EmptySet
<1>3. ASSUME NEW t \in Pending, t[2] = o, t # r PROVE Cardinality(S) >= 2
  <2>1. t \in S \ {r}
    BY <1>3 DEF Promise!About
  <2>2. IsFiniteSet(S \ {r}) /\ Cardinality(S \ {r}) = Cardinality(S) - 1
    BY <1>1, FS_RemoveElement
  <2>3. Cardinality(S \ {r}) # 0
    BY <2>1, <2>2, FS_EmptySet
  <2> QED
    BY <1>2, <2>2, <2>3
<1>4. Len(incomingMessages') \in Len(incomingMessages) + 1 .. Len(incomingMessages) + Cardinality(S)
  <2>1. CASE Len(incomingMessages') = Len(incomingMessages) + 1
    BY <1>2, <2>1
  <2>2. CASE /\ Len(incomingMessages') = Len(incomingMessages) + 2
             /\ \E t \in Pending : t[2] = o /\ t # r
    <3>1. Cardinality(S) >= 2
      BY <1>3, <2>2
    <3> QED
      BY <1>2, <2>2, <3>1
  <2> QED
    BY <2>1, <2>2
<1>5. /\ Promise!About(o) \cap Pending # {}
      /\ Len(incomingMessages') \in
           Len(incomingMessages) + 1 .. Len(incomingMessages) + Cardinality(Promise!About(o) \cap Pending)
  BY <1>1, <1>4
<1>6. Promise!Close(o)
  <2>1. Phase' = Phase /\ Pending' = Pending \ Promise!About(o)
    BY <1>1
  <2>2. Promise!Cardinality(Promise!About(o) \cap Pending) = Cardinality(Promise!About(o) \cap Pending)
    BY DEF Promise!Cardinality, Cardinality
  <2> QED
    BY <1>5, <2>1, <2>2 DEF Promise!Close
<1> QED
  BY <1>6 DEF Promised, Promise!Next

LEMMA PhaseLemma ==
  /\ pc \in {"rewrite", "waitpid"} => Phase = "rewriting"
  /\ pc \in {"stopped", "done"} => Phase = pc
  /\ pc \notin {"rewrite", "waitpid", "stopped", "done"} => Phase = "waiting"
  /\ pc' \in {"rewrite", "waitpid"} => Phase' = "rewriting"
  /\ pc' \in {"stopped", "done"} => Phase' = pc'
  /\ pc' \notin {"rewrite", "waitpid", "stopped", "done"} => Phase' = "waiting"
<1>1. \A c : /\ c \in {"rewrite", "waitpid"} => c \notin {"stopped", "done"}
             /\ c \in {"stopped", "done"} => c \notin {"rewrite", "waitpid"}
  OBVIOUS
<1>2. /\ pc \in {"rewrite", "waitpid"} => Phase = "rewriting"
      /\ pc \in {"stopped", "done"} => Phase = pc
      /\ pc \notin {"rewrite", "waitpid", "stopped", "done"} => Phase = "waiting"
  BY <1>1 DEF Phase
<1>3. /\ pc' \in {"rewrite", "waitpid"} => Phase' = "rewriting"
      /\ pc' \in {"stopped", "done"} => Phase' = pc'
      /\ pc' \notin {"rewrite", "waitpid", "stopped", "done"} => Phase' = "waiting"
  BY <1>1 DEF Phase
<1> QED
  BY <1>2, <1>3

----------------------------------------------------------------------------
(* What the steps of the sockets do to the requests that pend.             *)
LEMMA AskedLemma ==
  /\ \A st : Asked(st) \in SUBSET Purposes
  /\ \A st \in States : "WAITING_TO_READ" \in st =>
       "read" \in Asked(st) /\ Asked(st \ {"WAITING_TO_READ"}) = Asked(st) \ {"read"}
  /\ \A st \in States : "WAITING_TO_WRITE" \in st =>
       "write" \in Asked(st) /\ Asked(st \ {"WAITING_TO_WRITE"}) = Asked(st) \ {"write"}
  /\ \A st \in SUBSET {"WAITING_TO_READ"} : Asked(st \cup {"WAITING_TO_WRITE"}) = Asked(st) \cup {"write"}
  /\ \A st \in SUBSET {"WAITING_TO_WRITE"} : Asked(st \cup {"WAITING_TO_READ"}) = Asked(st) \cup {"read"}
  /\ Asked({}) = {} /\ Asked({"LISTENING"}) = {}
  /\ Asked({"WAITING_TO_ACCEPT"}) = {"read"} /\ Asked({"WAITING_TO_CONNECT"}) = {"connect"}
<1>1. \A st, p : p \in Asked(st) <=>
        \/ p = "read" /\ ("WAITING_TO_READ" \in st \/ "WAITING_TO_ACCEPT" \in st)
        \/ p = "write" /\ "WAITING_TO_WRITE" \in st
        \/ p = "connect" /\ "WAITING_TO_CONNECT" \in st
  BY DEF Asked
<1>2. \A st : Asked(st) \in SUBSET Purposes
  BY <1>1 DEF Purposes
<1>3. ASSUME NEW st \in States, "WAITING_TO_READ" \in st
      PROVE  "read" \in Asked(st) /\ Asked(st \ {"WAITING_TO_READ"}) = Asked(st) \ {"read"}
  <2>1. "WAITING_TO_ACCEPT" \notin st
    BY <1>3, StatesLemma
  <2>2. \A p : p \in Asked(st \ {"WAITING_TO_READ"}) <=> p \in Asked(st) /\ p # "read"
    BY <1>1, <2>1
  <2> QED
    BY <1>1, <1>3, <2>2
<1>4. ASSUME NEW st \in States, "WAITING_TO_WRITE" \in st
      PROVE  "write" \in Asked(st) /\ Asked(st \ {"WAITING_TO_WRITE"}) = Asked(st) \ {"write"}
  <2>2. \A p : p \in Asked(st \ {"WAITING_TO_WRITE"}) <=> p \in Asked(st) /\ p # "write"
    BY <1>1
  <2> QED
    BY <1>1, <1>4, <2>2
<1>5. ASSUME NEW st
      PROVE  /\ Asked(st \cup {"WAITING_TO_WRITE"}) = Asked(st) \cup {"write"}
             /\ Asked(st \cup {"WAITING_TO_READ"}) = Asked(st) \cup {"read"}
  <2>1. /\ \A p : p \in Asked(st \cup {"WAITING_TO_WRITE"}) <=> p \in Asked(st) \/ p = "write"
        /\ \A p : p \in Asked(st \cup {"WAITING_TO_READ"}) <=> p \in Asked(st) \/ p = "read"
    BY <1>1
  <2> QED
    BY <2>1
<1>6. /\ \A p : p \notin Asked({}) /\ p \notin Asked({"LISTENING"})
      /\ \A p : p \in Asked({"WAITING_TO_ACCEPT"}) <=> p = "read"
      /\ \A p : p \in Asked({"WAITING_TO_CONNECT"}) <=> p = "connect"
  BY <1>1
<1>7. /\ Asked({}) = {} /\ Asked({"LISTENING"}) = {}
      /\ Asked({"WAITING_TO_ACCEPT"}) = {"read"} /\ Asked({"WAITING_TO_CONNECT"}) = {"connect"}
  BY <1>6
<1> QED
  BY <1>2, <1>3, <1>4, <1>5, <1>7

LEMMA AskingOf ==
  /\ \A sockets, p, f : <<p, f>> \in Asking(sockets) <=>
                          p \in Purposes /\ f \in DOMAIN sockets /\ p \in Asked(sockets[f].state)
  /\ \A sockets : \A x \in Asking(sockets) : x = <<x[1], x[2]>>
  /\ \A sockets, others : (\A p, f : <<p, f>> \in Asking(sockets) <=> <<p, f>> \in others)
                          /\ (\A x \in others : x = <<x[1], x[2]>>) => Asking(sockets) = others
<1>1. \A sockets, p, f : <<p, f>> \in Asking(sockets) <=>
                           p \in Purposes /\ f \in DOMAIN sockets /\ p \in Asked(sockets[f].state)
  BY DEF Asking
<1>2. \A sockets : \A x \in Asking(sockets) : x = <<x[1], x[2]>>
  BY DEF Asking
<1>3. \A sockets, others : (\A p, f : <<p, f>> \in Asking(sockets) <=> <<p, f>> \in others)
                           /\ (\A x \in others : x = <<x[1], x[2]>>) => Asking(sockets) = others
  BY <1>2
<1> QED
  BY <1>1, <1>2, <1>3

AskingChange(was, is, fd, s, old) ==
  /\ Asked(s.state) = old => Asking(is) = Asking(was)
  /\ \A p \in Purposes : Asked(s.state) = old \cup {p} => Asking(is) = Asking(was) \cup {<<p, fd>>}
  /\ \A p \in Purposes : Asked(s.state) = old \ {p} => Asking(is) = Asking(was) \ {<<p, fd>>}
LEMMA AskingBecomes ==
  ASSUME NEW was, NEW is, NEW fd, NEW s,
         DOMAIN is = DOMAIN was \cup {fd}, is[fd] = s, \A f \in DOMAIN was \ {fd} : is[f] = was[f],
         NEW old, old = IF fd \in DOMAIN was THEN Asked(was[fd].state) ELSE {}
  PROVE  AskingChange(was, is, fd, s, old)
<1>0. \A sockets, p, f : <<p, f>> \in Asking(sockets) <=>
                           p \in Purposes /\ f \in DOMAIN sockets /\ p \in Asked(sockets[f].state)
  BY AskingOf
<1>9. \A sockets, others : (\A p, f : <<p, f>> \in Asking(sockets) <=> <<p, f>> \in others)
                           /\ (\A x \in others : x = <<x[1], x[2]>>) => Asking(sockets) = others
  BY AskingOf
<1>1. \A p, f : <<p, f>> \in Asking(is) <=>
                  \/ f # fd /\ <<p, f>> \in Asking(was)
                  \/ f = fd /\ p \in Purposes /\ p \in Asked(s.state)
  BY <1>0
<1>2. \A p : <<p, fd>> \in Asking(was) <=> p \in Purposes /\ p \in old
  BY <1>0
<1>5. \A x \in Asking(was) : x = <<x[1], x[2]>>
  BY AskingOf
<1>3. Asked(s.state) = old => Asking(is) = Asking(was)
  BY <1>1, <1>2, <1>5, <1>9
<1>4. ASSUME NEW p \in Purposes, NEW others, \A x \in others : x = <<x[1], x[2]>>,
             \/ /\ Asked(s.state) = old \cup {p}
                /\ \A q, f : <<q, f>> \in others <=> <<q, f>> \in Asking(was) \/ (q = p /\ f = fd)
             \/ /\ Asked(s.state) = old \ {p}
                /\ \A q, f : <<q, f>> \in others <=> <<q, f>> \in Asking(was) /\ ~(q = p /\ f = fd)
      PROVE  Asking(is) = others
  <2>1. ASSUME NEW q, NEW f PROVE <<q, f>> \in Asking(is) <=> <<q, f>> \in others
    <3>1. CASE f = fd
      <4>1. <<q, fd>> \in Asking(is) <=> q \in Purposes /\ q \in Asked(s.state)
        BY <1>1
      <4>2. <<q, fd>> \in Asking(was) <=> q \in Purposes /\ q \in old
        BY <1>2
      <4> QED
        BY <1>4, <3>1, <4>1, <4>2
    <3>2. CASE f # fd
      BY <1>1, <1>4, <3>2
    <3> QED
      BY <3>1, <3>2
  <2> QED
    BY <1>4, <1>9, <2>1
<1>6. ASSUME NEW p \in Purposes, Asked(s.state) = old \cup {p}
      PROVE  Asking(is) = Asking(was) \cup {<<p, fd>>}
  <2>1. PICK others : others = Asking(was) \cup {<<p, fd>>}
    OBVIOUS
  <2>2. \A q, f : <<q, f>> \in others <=> <<q, f>> \in Asking(was) \/ (q = p /\ f = fd)
    BY <2>1
  <2> QED
    BY <1>4, <1>5, <1>6, <2>1, <2>2
<1>7. ASSUME NEW p \in Purposes, Asked(s.state) = old \ {p}
      PROVE  Asking(is) = Asking(was) \ {<<p, fd>>}
  <2>1. PICK others : others = Asking(was) \ {<<p, fd>>}
    OBVIOUS
  <2>2. \A q, f : <<q, f>> \in others <=> <<q, f>> \in Asking(was) /\ ~(q = p /\ f = fd)
    BY <2>1
  <2> QED
    BY <1>4, <1>5, <1>7, <2>1, <2>2
<1> QED
  BY <1>3, <1>6, <1>7 DEF AskingChange

LEMMA AskingMoves ==
  ASSUME NEW fd, NEW old, old = IF fd \in DOMAIN activeSockets THEN Asked(activeSockets[fd].state) ELSE {}
  PROVE  /\ \A s : SocketBecomes(fd, s) =>
              /\ Asked(s.state) = old => Asking(activeSockets') = Asking(activeSockets)
              /\ \A p \in Purposes : Asked(s.state) = old \cup {p} =>
                   Asking(activeSockets') = Asking(activeSockets) \cup {<<p, fd>>}
              /\ \A p \in Purposes : Asked(s.state) = old \ {p} =>
                   Asking(activeSockets') = Asking(activeSockets) \ {<<p, fd>>}
         /\ SocketForgotten(fd) => Asking(activeSockets') = {x \in Asking(activeSockets) : x[2] # fd}
         /\ \A p \in Purposes : p \in old <=> <<p, fd>> \in Asking(activeSockets)
<1>0. \A sockets, p, f : <<p, f>> \in Asking(sockets) <=>
                           p \in Purposes /\ f \in DOMAIN sockets /\ p \in Asked(sockets[f].state)
  BY AskingOf
<1>9. \A sockets, others : (\A p, f : <<p, f>> \in Asking(sockets) <=> <<p, f>> \in others)
                           /\ (\A x \in others : x = <<x[1], x[2]>>) => Asking(sockets) = others
  BY AskingOf
<1>1. PICK was, is : was = activeSockets /\ is = activeSockets'
  OBVIOUS
<1>2. ASSUME NEW s, SocketBecomes(fd, s)
      PROVE  /\ Asked(s.state) = old => Asking(is) = Asking(was)
             /\ \A p \in Purposes : Asked(s.state) = old \cup {p} => Asking(is) = Asking(was) \cup {<<p, fd>>}
             /\ \A p \in Purposes : Asked(s.state) = old \ {p} => Asking(is) = Asking(was) \ {<<p, fd>>}
  <2>1. /\ DOMAIN is = DOMAIN was \cup {fd} /\ is[fd] = s
        /\ \A f \in DOMAIN was \ {fd} : is[f] = was[f]
    BY <1>1, <1>2 DEF SocketBecomes
  <2>2. old = IF fd \in DOMAIN was THEN Asked(was[fd].state) ELSE {}
    BY <1>1
  <2>3. AskingChange(was, is, fd, s, old)
    BY <2>1, <2>2, AskingBecomes
  <2> QED
    BY <2>3 DEF AskingChange
<1>3. ASSUME SocketForgotten(fd)
      PROVE  Asking(is) = {x \in Asking(was) : x[2] # fd}
  <2>1. DOMAIN is = DOMAIN was \ {fd} /\ \A f \in DOMAIN was \ {fd} : is[f] = was[f]
    BY <1>1, <1>3 DEF SocketForgotten
  <2>2. \A p, f : <<p, f>> \in Asking(is) <=> f # fd /\ <<p, f>> \in Asking(was)
    BY <1>0, <2>1
  <2>3. PICK others : others = {x \in Asking(was) : x[2] # fd}
    OBVIOUS
  <2>4. \A p, f : <<p, f>> \in others <=> f # fd /\ <<p, f>> \in Asking(was)
    BY <2>3
  <2>5. \A x \in others : x = <<x[1], x[2]>>
    BY <2>3, AskingOf
  <2> QED
    BY <1>9, <2>2, <2>3, <2>4, <2>5
<1>4. \A p \in Purposes : p \in old <=> <<p, fd>> \in Asking(was)
  BY <1>0, <1>1
<1> QED
  BY <1>1, <1>2, <1>3, <1>4

(* A socket that nothing is asked of is added, or another one changes.     *)
LEMMA AskingFresh ==
  ASSUME NEW sockets, NEW fd, fd \notin DOMAIN sockets, NEW s, Asked(s.state) = {}
  PROVE  Asking(Known(sockets, fd, s)) = Asking(sockets)
<1>1. PICK is : is = Known(sockets, fd, s)
  OBVIOUS
<1>2. DOMAIN is = DOMAIN sockets \cup {fd} /\ is[fd] = s /\ \A f \in DOMAIN sockets \ {fd} : is[f] = sockets[f]
  BY <1>1 DEF Known
<1>3. PICK none : none = {}
  OBVIOUS
<1>4. none = IF fd \in DOMAIN sockets THEN Asked(sockets[fd].state) ELSE {}
  BY <1>3
<1>5. AskingChange(sockets, is, fd, s, none)
  BY <1>2, <1>4, AskingBecomes
<1> QED
  BY <1>1, <1>3, <1>5 DEF AskingChange

LEMMA AskingTyped ==
  ASSUME SocketsOK
  PROVE  Asking(activeSockets) \in SUBSET (Purposes \X Fds)
BY DEF SocketsOK, Asking

LEMMA PendingTyped ==
  ASSUME SocketsOK, TimersOK, ChildrenOK
  PROVE  Pending \in SUBSET Requests
<1>1. /\ DOMAIN timerMap \subseteq 0 .. MaxTimers - 1 /\ DOMAIN childProcesses \subseteq Pids
      /\ DOMAIN activeSockets \subseteq Fds
  BY DEF SocketsOK, TimersOK, TimersTyped, ChildrenOK
<1>2. ArmedIn(timerMap) \subseteq DOMAIN timerMap /\ WaitingIn(childProcesses) \subseteq DOMAIN childProcesses
  BY DEF ArmedIn, WaitingIn
<1>3. \A r \in Pending :
        \/ \E id \in 0 .. MaxTimers - 1 : r = <<"timeOut", <<"timer", id>>>>
        \/ \E pid \in Pids : r = <<"exit", <<"process", pid>>>>
        \/ \E p \in Purposes, fd \in Fds : r = <<p, <<"socket", fd>>>>
  <2>1. \A x \in Asking(activeSockets) : x[1] \in Purposes /\ x[2] \in Fds
    BY AskingTyped
  <2> QED
    BY <1>1, <1>2, <2>1, PendingIs DEF PendingOf
<1> QED
  BY <1>3, RequestKinds

SocketRequest(p, fd) == <<p, <<"socket", fd>>>>
AskedOf(fd) == IF fd \in DOMAIN activeSockets THEN Asked(activeSockets[fd].state) ELSE {}
Others == UNCHANGED <<ArmedIn(timerMap), WaitingIn(childProcesses)>>
LEMMA SocketPending ==
  ASSUME SocketsOK, Others, NEW fd \in Fds
  PROVE  /\ \A s : SocketBecomes(fd, s) =>
              /\ Asked(s.state) = AskedOf(fd) => Pending' = Pending
              /\ \A p \in Purposes : Asked(s.state) = AskedOf(fd) \cup {p} =>
                   Pending' = Pending \cup {SocketRequest(p, fd)}
              /\ \A p \in Purposes : Asked(s.state) = AskedOf(fd) \ {p} =>
                   Pending' = Pending \ {SocketRequest(p, fd)}
         /\ SocketForgotten(fd) => Pending' = {r \in Pending : r[2] # <<"socket", fd>>}
         /\ \A p \in Purposes : p \in AskedOf(fd) <=> SocketRequest(p, fd) \in Pending
         /\ UNCHANGED activeSockets => Pending' = Pending
         /\ \A p \in Purposes : Asking(activeSockets') = Asking(activeSockets) \ {<<p, fd>>} =>
              Pending' = Pending \ {SocketRequest(p, fd)}
<1>1. PICK ids, pids, asking, old : /\ ids = ArmedIn(timerMap) /\ pids = WaitingIn(childProcesses)
                                    /\ asking = Asking(activeSockets) /\ old = AskedOf(fd)
  OBVIOUS
<1>2. /\ Pending = PendingOf(ids, pids, asking)
      /\ Pending' = PendingOf(ids, pids, Asking(activeSockets'))
  BY <1>1, PendingIs DEF Others
<1>3. asking \in SUBSET (Purposes \X Fds)
  BY <1>1, AskingTyped
<1>4. old = IF fd \in DOMAIN activeSockets THEN Asked(activeSockets[fd].state) ELSE {}
  BY <1>1 DEF AskedOf
<1>0. \A p \in Purposes, f \in Fds :
        /\ PendingOf(ids, pids, asking \cup {<<p, f>>}) =
             PendingOf(ids, pids, asking) \cup {<<p, <<"socket", f>>>>}
        /\ PendingOf(ids, pids, asking \ {<<p, f>>}) =
             PendingOf(ids, pids, asking) \ {<<p, <<"socket", f>>>>}
        /\ PendingOf(ids, pids, {x \in asking : x[2] # f}) =
             {r \in PendingOf(ids, pids, asking) : r[2] # <<"socket", f>>}
        /\ <<p, f>> \in asking <=> <<p, <<"socket", f>>>> \in PendingOf(ids, pids, asking)
  BY <1>3, AskingChanges, Zenon
<1>5. ASSUME NEW s, SocketBecomes(fd, s)
      PROVE  /\ Asked(s.state) = old => Pending' = Pending
             /\ \A p \in Purposes : Asked(s.state) = old \cup {p} =>
                   Pending' = Pending \cup {SocketRequest(p, fd)}
             /\ \A p \in Purposes : Asked(s.state) = old \ {p} =>
                   Pending' = Pending \ {SocketRequest(p, fd)}
  <2>1. /\ Asked(s.state) = old => Asking(activeSockets') = asking
        /\ \A p \in Purposes : Asked(s.state) = old \cup {p} =>
             Asking(activeSockets') = asking \cup {<<p, fd>>}
        /\ \A p \in Purposes : Asked(s.state) = old \ {p} =>
             Asking(activeSockets') = asking \ {<<p, fd>>}
    BY <1>1, <1>4, <1>5, AskingMoves
  <2>2. ASSUME NEW p \in Purposes
        PROVE  /\ PendingOf(ids, pids, asking \cup {<<p, fd>>}) =
                    PendingOf(ids, pids, asking) \cup {SocketRequest(p, fd)}
               /\ PendingOf(ids, pids, asking \ {<<p, fd>>}) =
                    PendingOf(ids, pids, asking) \ {SocketRequest(p, fd)}
    BY <1>0 DEF SocketRequest
  <2> QED
    BY <1>2, <2>1, <2>2
<1>6. ASSUME SocketForgotten(fd)
      PROVE  Pending' = {r \in Pending : r[2] # <<"socket", fd>>}
  <2>1. Asking(activeSockets') = {x \in asking : x[2] # fd}
    BY <1>1, <1>4, <1>6, AskingMoves
  <2>2. "read" \in Purposes
    BY DEF Purposes
  <2> QED
    BY <1>0, <1>2, <2>1, <2>2
<1>7. ASSUME NEW p \in Purposes PROVE p \in old <=> SocketRequest(p, fd) \in Pending
  <2>1. p \in old <=> <<p, fd>> \in asking
    BY <1>1, <1>4, AskingMoves
  <2>2. <<p, fd>> \in asking <=> SocketRequest(p, fd) \in PendingOf(ids, pids, asking)
    BY <1>0 DEF SocketRequest
  <2> QED
    BY <1>2, <2>1, <2>2
<1>8. UNCHANGED activeSockets => Pending' = Pending
  BY <1>1, <1>2
<1>9. ASSUME NEW p \in Purposes, Asking(activeSockets') = asking \ {<<p, fd>>}
      PROVE  Pending' = Pending \ {SocketRequest(p, fd)}
  BY <1>0, <1>2, <1>9 DEF SocketRequest
<1> QED
  BY <1>1, <1>5, <1>6, <1>7, <1>8, <1>9

(* The messages to sockets ask for one thing, or for nothing, and have one *)
(* answer or none.                                                         *)
SocketAsks(fd) ==
  /\ \/ Pending' = Pending
     \/ \E p \in Purposes : Pending' = Pending \cup {SocketRequest(p, fd)}
     \/ Pending' = {r \in Pending : r[2] # <<"socket", fd>>}
  /\ Heard(0) \/ Heard(1)

LEMMA NothingAsked ==
  ASSUME SocketsOK, Others, NEW fd \in Fds, NEW s, SocketBecomes(fd, s), Heard(0) \/ Heard(1),
         \/ fd \in DOMAIN activeSockets /\ Asked(s.state) = Asked(activeSockets[fd].state)
         \/ fd \notin DOMAIN activeSockets /\ Asked(s.state) = {}
  PROVE  SocketAsks(fd)
<1>1. Asked(s.state) = AskedOf(fd)
  BY DEF AskedOf
<1> QED
  BY <1>1, SocketPending DEF SocketAsks

LEMMA SomethingAsked ==
  ASSUME SocketsOK, Others, NEW fd \in Fds, NEW s, SocketBecomes(fd, s), Heard(0) \/ Heard(1),
         NEW p \in Purposes,
         \/ fd \in DOMAIN activeSockets /\ Asked(s.state) = Asked(activeSockets[fd].state) \cup {p}
         \/ fd \notin DOMAIN activeSockets /\ Asked(s.state) = {p}
  PROVE  SocketAsks(fd)
<1>1. Asked(s.state) = AskedOf(fd) \cup {p}
  BY DEF AskedOf
<1> QED
  BY <1>1, SocketPending DEF SocketAsks

LEMMA SocketsCreated ==
  ASSUME SocketsOK, MessagesOK, Others, CreateClientTcpSocket \/ CreateServerTcpSocket
  PROVE  \E fd \in Fds : SocketAsks(fd)
<1>1. PICK fd : fd = LowestOf(FreeFds)
  OBVIOUS
<1>2. fd \in Fds /\ fd \notin DOMAIN activeSockets
  BY <1>1, LowestFree, SocketFree DEF CreateClientTcpSocket, CreateServerTcpSocket
<1>3. ASSUME Reply(<<"createdSocket">>, fd) \/ Reply(<<"socketError">>, fd) \/ Reply(<<>>, fd)
      PROVE  Heard(0) \/ Heard(1)
  BY <1>3, HeardReply
<1>4. ASSUME NEW st \in {{}, {"LISTENING"}},
             activeSockets' = Known(activeSockets, fd, ActiveSocket(st, FALSE)),
             Reply(<<"createdSocket">>, fd)
      PROVE  SocketAsks(fd)
  <2>1. PICK s : s = ActiveSocket(st, FALSE)
    OBVIOUS
  <2>2. SocketBecomes(fd, s)
    BY <1>4, <2>1, SocketUpdates
  <2>3. Asked(s.state) = {}
    BY <1>4, <2>1, AskedLemma DEF ActiveSocket
  <2> QED
    BY <1>2, <1>3, <1>4, <2>2, <2>3, NothingAsked
<1>5. ASSUME activeSockets' = Known(activeSockets, fd,
                 [ActiveSocket({"WAITING_TO_CONNECT"}, FALSE) EXCEPT !.context = context]),
             Reply(<<>>, fd)
      PROVE  SocketAsks(fd)
  <2>1. PICK s, c : s = [ActiveSocket({"WAITING_TO_CONNECT"}, FALSE) EXCEPT !.context = c] /\ c = context
    OBVIOUS
  <2>2. SocketBecomes(fd, s)
    BY <1>5, <2>1, SocketUpdates
  <2>3. Asked(s.state) = {"connect"}
    <3>1. s.state = {"WAITING_TO_CONNECT"}
      BY <2>1 DEF ActiveSocket
    <3> QED
      BY <3>1, AskedLemma
  <2>4. "connect" \in Purposes
    BY DEF Purposes
  <2> QED
    BY <1>2, <1>3, <1>5, <2>2, <2>3, <2>4, SomethingAsked
<1>6. CASE UNCHANGED activeSockets /\ Reply(<<"socketError">>, fd)
  BY <1>2, <1>3, <1>6, SocketPending DEF SocketAsks
<1>7. CASE CreateClientTcpSocket
  BY <1>1, <1>2, <1>4, <1>5, <1>6, <1>7 DEF CreateClientTcpSocket
<1>8. CASE CreateServerTcpSocket
  BY <1>1, <1>2, <1>4, <1>6, <1>8 DEF CreateServerTcpSocket
<1> QED
  BY <1>7, <1>8

LEMMA AcceptanceAsked ==
  ASSUME SocketsOK, MessagesOK, Others, NEW fd \in DOMAIN activeSockets, AcceptClient(fd)
  PROVE  SocketAsks(fd)
<1>1. fd \in Fds /\ activeSockets[fd].state = {"LISTENING"}
  BY SocketKnown DEF AcceptClient
<1>2. CASE AcceptNow(fd, activeSockets)
  <2>1. PICK new : new = LowestOf(FreeFds)
    OBVIOUS
  <2>2. CASE /\ FreeFds # {} /\ activeSockets' = Known(activeSockets, new, ActiveSocket({}, FALSE))
             /\ Reply(<<"acceptedClient">>, new)
    <3>1. new \in Fds /\ new \notin DOMAIN activeSockets
      BY <2>1, <2>2, LowestFree, SocketFree
    <3>2. PICK s : s = ActiveSocket({}, FALSE)
      OBVIOUS
    <3>3. SocketBecomes(new, s) /\ Asked(s.state) = {}
      BY <2>2, <3>2, SocketUpdates, AskedLemma DEF ActiveSocket
    <3>4. AskedOf(new) = {}
      BY <3>1 DEF AskedOf
    <3>5. Pending' = Pending
      BY <3>1, <3>3, <3>4, SocketPending
    <3> QED
      BY <2>2, <3>5, HeardReply DEF SocketAsks
  <2>3. CASE UNCHANGED activeSockets /\ Reply(<<"socketError">>, fd)
    BY <1>1, <2>3, HeardReply, SocketPending DEF SocketAsks
  <2> QED
    BY <1>2, <2>1, <2>2, <2>3 DEF AcceptNow
<1>3. CASE /\ activeSockets' = [activeSockets EXCEPT ![fd].state = {"WAITING_TO_ACCEPT"}, ![fd].context = context]
           /\ Reply(<<>>, fd)
  <2>1. PICK s, old, c, st : /\ s = [old EXCEPT !.state = st, !.context = c] /\ c = context
                             /\ old = activeSockets[fd] /\ st = {"WAITING_TO_ACCEPT"}
    OBVIOUS
  <2>2. activeSockets' = [activeSockets EXCEPT ![fd] = s]
    BY <1>3, <2>1
  <2>3. SocketBecomes(fd, s)
    BY <2>2, SocketUpdates
  <2>4. old \in SocketType
    BY <2>1, SocketKnown DEF SocketGood
  <2>5. s.state = {"WAITING_TO_ACCEPT"}
    BY <2>1, <2>4 DEF SocketType
  <2>6. Asked(s.state) = Asked(activeSockets[fd].state) \cup {"read"}
    BY <1>1, <2>5, AskedLemma
  <2>7. "read" \in Purposes
    BY DEF Purposes
  <2> QED
    BY <1>1, <1>3, <2>3, <2>6, <2>7, HeardReply, SomethingAsked
<1>4. CASE Reply(<<"socketError">>, fd) /\ UNCHANGED activeSockets
  BY <1>1, <1>4, HeardReply, SocketPending DEF SocketAsks
<1> QED
  BY <1>2, <1>3, <1>4 DEF AcceptClient

LEMMA SendingAsked ==
  ASSUME SocketsOK, MessagesOK, Others, context \in 0 .. MaxContexts,
         NEW fd \in DOMAIN activeSockets, SendSocket(fd)
  PROVE  SocketAsks(fd)
<1>1. /\ fd \in Fds /\ activeSockets[fd] \in SocketType
      /\ activeSockets[fd].state \in SUBSET {"WAITING_TO_READ"} /\ chan \in [Fds -> ChannelType]
  BY SocketKnown DEF SendSocket, MaySend, SocketGood, SocketsOK
<1>2. CASE Write(fd, MaxRoom + 1, Waits(fd, "WAITING_TO_WRITE")) /\ Reply(<<>>, fd)
  <2>1. PICK st, c, old : /\ st = activeSockets[fd].state \cup {"WAITING_TO_WRITE"}
                          /\ c = context /\ old = activeSockets[fd]
    OBVIOUS
  <2>2. PICK s : s = [old EXCEPT !.state = st, !.context = c]
    OBVIOUS
  <2>3. s.state = st /\ SocketGood(s, c)
    <3>1. st \in States
      BY <1>1, <2>1, StatesLemma
    <3>2. old \in SocketType /\ c \in 0 .. MaxContexts
      BY <1>1, <2>1
    <3> QED
      BY <2>2, <3>1, <3>2, SocketWaits
  <2>4. PICK sockets, n : sockets = Waits(fd, "WAITING_TO_WRITE") /\ n = MaxRoom + 1
    OBVIOUS
  <2>5. /\ DOMAIN sockets = DOMAIN activeSockets /\ sockets[fd] = s
        /\ \A f \in DOMAIN activeSockets \ {fd} : sockets[f] = activeSockets[f]
    BY <2>1, <2>2, <2>4 DEF Waits
  <2>6. Write(fd, n, sockets)
    BY <1>2, <2>4, Zenon DEF Write
  <2>7. n \in 0 .. MaxRoom + 1
    BY <2>4, SocketAssumption
  <2>8. PICK u \in 0 .. n : SocketBecomes(fd, [s EXCEPT !.unsent = u])
    BY <1>1, <2>5, <2>6, <2>7, WriteLemma
  <2>9. PICK t : t = [s EXCEPT !.unsent = u]
    OBVIOUS
  <2>10. t.state = st
    <3>1. u \in 0 .. MaxRoom + 1
      BY <2>4, <2>8
    <3> QED
      BY <2>3, <2>9, <3>1, StillGood
  <2>11. Asked(t.state) = Asked(activeSockets[fd].state) \cup {"write"}
    BY <1>1, <2>1, <2>10, AskedLemma
  <2>12. "write" \in Purposes
    BY DEF Purposes
  <2> QED
    BY <1>1, <1>2, <2>8, <2>9, <2>11, <2>12, HeardReply, SomethingAsked
<1>3. CASE (Reply(<<"sent">>, fd) \/ Reply(<<"socketError">>, fd)) /\ UNCHANGED activeSockets
  BY <1>1, <1>3, HeardReply, SocketPending DEF SocketAsks
<1> QED
  BY <1>2, <1>3 DEF SendSocket

LEMMA OtherMessages ==
  ASSUME SocketsOK, MessagesOK, Others, context \in 0 .. MaxContexts, NEW fd \in DOMAIN activeSockets,
         ShutdownSocket(fd) \/ ReceiveSocket(fd) \/ CloseSocketNow(fd)
  PROVE  SocketAsks(fd)
<1>1. fd \in Fds /\ SocketGood(activeSockets[fd], context)
  BY SocketKnown
<1>2. PICK old : old = activeSockets[fd]
  OBVIOUS
<1>3. CASE CloseSocketNow(fd)
  <2>1. SocketForgotten(fd) /\ Reply(<<"closedSocket">>, fd)
    BY <1>3, SocketUpdates DEF CloseSocketNow
  <2> QED
    BY <1>1, <2>1, HeardReply, SocketPending DEF SocketAsks
<1>4. ASSUME UNCHANGED activeSockets, NEW m, Reply(<<m>>, fd)
      PROVE  SocketAsks(fd)
  BY <1>1, <1>4, HeardReply, SocketPending DEF SocketAsks
<1>5. ASSUME NEW s, s = [old EXCEPT !.readOnly = TRUE] \/ s = [old EXCEPT !.seenEOF = TRUE],
             activeSockets' = [activeSockets EXCEPT ![fd] = s], NEW m, Reply(<<m>>, fd)
      PROVE  SocketAsks(fd)
  <2>1. SocketBecomes(fd, s)
    BY <1>5, SocketUpdates
  <2>2. s.state = old.state
    BY <1>1, <1>2, <1>5, StillGood
  <2> QED
    BY <1>1, <1>2, <1>5, <2>1, <2>2, HeardReply, NothingAsked
<1>6. CASE ShutdownSocket(fd)
  <2>1. CASE activeSockets' = [activeSockets EXCEPT ![fd].readOnly = TRUE] /\ Reply(<<"sent">>, fd)
    <3>1. PICK s : s = [old EXCEPT !.readOnly = TRUE]
      OBVIOUS
    <3>2. activeSockets' = [activeSockets EXCEPT ![fd] = s]
      BY <1>2, <2>1, <3>1
    <3> QED
      BY <1>5, <2>1, <3>1, <3>2
  <2>2. CASE UNCHANGED activeSockets /\ Reply(<<"socketError">>, fd)
    BY <1>4, <2>2
  <2> QED
    BY <1>6, <2>1, <2>2 DEF ShutdownSocket
<1>7. CASE ReceiveSocket(fd)
  <2>1. CASE activeSockets' = [activeSockets EXCEPT ![fd].seenEOF = TRUE] /\ Reply(<<"received">>, fd)
    <3>1. PICK s : s = [old EXCEPT !.seenEOF = TRUE]
      OBVIOUS
    <3>2. activeSockets' = [activeSockets EXCEPT ![fd] = s]
      BY <1>2, <2>1, <3>1
    <3> QED
      BY <1>5, <2>1, <3>1, <3>2
  <2>2. CASE UNCHANGED activeSockets /\ Reply(<<"received">>, fd)
    BY <1>4, <2>2
  <2>3. CASE /\ activeSockets[fd].state \subseteq {"WAITING_TO_WRITE"}
             /\ activeSockets' = Waits(fd, "WAITING_TO_READ") /\ Reply(<<>>, fd)
    <3>1. PICK st, c, s : /\ st = activeSockets[fd].state \cup {"WAITING_TO_READ"} /\ c = context
                          /\ s = [old EXCEPT !.state = st, !.context = c]
      OBVIOUS
    <3>2. activeSockets' = [activeSockets EXCEPT ![fd] = s]
      BY <1>2, <2>3, <3>1 DEF Waits
    <3>3. SocketBecomes(fd, s)
      BY <3>2, SocketUpdates
    <3>4. s.state = st
      BY <1>1, <1>2, <3>1 DEF SocketGood, SocketType
    <3>5. activeSockets[fd].state \in SUBSET {"WAITING_TO_WRITE"} /\ "read" \in Purposes
      BY <2>3 DEF Purposes
    <3>6. Asked(s.state) = Asked(activeSockets[fd].state) \cup {"read"}
      BY <3>1, <3>4, <3>5, AskedLemma
    <3> QED
      BY <1>1, <2>3, <3>3, <3>5, <3>6, HeardReply, SomethingAsked
  <2> QED
    BY <1>3, <1>7, <2>1, <2>2, <2>3 DEF ReceiveSocket
<1> QED
  BY <1>3, <1>6, <1>7

LEMMA SocketMessagePromised ==
  ASSUME Inv, MessagesOK, SocketMessage
  PROVE  Promised /\ MessagesOK'
<1>1. SocketsOK /\ context \in 0 .. MaxContexts /\ Pending \in SUBSET Requests
  BY PendingTyped DEF Inv, ThreadOK
<1>2. Others /\ pc = "rewrite" /\ pc' = "rewrite"
  BY DEF SocketMessage, OfSocket, Send, processVars, Others, ArmedIn, WaitingIn
<1>3. PICK fd \in Fds : SocketAsks(fd)
  <2>1. CASE CreateClientTcpSocket \/ CreateServerTcpSocket
    BY <1>1, <1>2, <2>1, SocketsCreated
  <2>2. ASSUME NEW fd \in DOMAIN activeSockets,
               \/ AcceptClient(fd) \/ SendSocket(fd) \/ ShutdownSocket(fd) \/ ReceiveSocket(fd) \/ CloseSocket(fd)
        PROVE  fd \in Fds /\ SocketAsks(fd)
    BY <1>1, <1>2, <2>2, SocketKnown, AcceptanceAsked, SendingAsked, OtherMessages DEF CloseSocket
  <2> QED
    BY <2>1, <2>2 DEF SocketMessage, OfSocket
<1>4. PICK o : o = <<"socket", fd>>
  OBVIOUS
<1>5. o \in Promise!Objects /\ \A p \in Purposes : SocketRequest(p, fd) \in Promise!About(o)
  <2>1. "read" \in Purposes
    BY DEF Purposes
  <2> QED
    BY <1>4, <2>1, RequestKinds DEF SocketRequest
<1>6. /\ Len(incomingMessages) \in Nat /\ MessagesOK'
      /\ Len(incomingMessages') = 0 \/ Len(incomingMessages') = 1
  BY <1>2, <1>3, UnreadLemma DEF SocketAsks, Heard
<1>7. Phase = "rewriting" /\ Phase' = "rewriting"
  BY <1>2, PhaseLemma
<1>8. \/ \E r \in Promise!About(o) : Pending' = Pending \cup {r}
      \/ Pending' = {r \in Pending : r[2] # o} /\ Pending \in SUBSET Requests
      \/ Pending' = Pending
  BY <1>1, <1>3, <1>4, <1>5 DEF SocketAsks
<1> QED
  BY <1>5, <1>6, <1>7, <1>8, StepAsks

----------------------------------------------------------------------------
(* The same for the timers and the children.                               *)
LEMMA TimerPending ==
  ASSUME SocketsOK, UNCHANGED <<WaitingIn(childProcesses), activeSockets>>, NEW id
  PROVE  /\ ArmedIn(timerMap') = ArmedIn(timerMap) => Pending' = Pending
         /\ ArmedIn(timerMap') = ArmedIn(timerMap) \cup {id} =>
              Pending' = Pending \cup {<<"timeOut", <<"timer", id>>>>}
         /\ ArmedIn(timerMap') = ArmedIn(timerMap) \ {id} =>
              Pending' = Pending \ {<<"timeOut", <<"timer", id>>>>}
         /\ id \in ArmedIn(timerMap) <=> <<"timeOut", <<"timer", id>>>> \in Pending
<1>1. PICK ids, pids, asking : /\ ids = ArmedIn(timerMap) /\ pids = WaitingIn(childProcesses)
                               /\ asking = Asking(activeSockets)
  OBVIOUS
<1>2. asking \subseteq Purposes \X Fds
  BY <1>1, AskingTyped
<1>3. /\ PendingOf(ids \cup {id}, pids, asking) = PendingOf(ids, pids, asking) \cup {<<"timeOut", <<"timer", id>>>>}
      /\ PendingOf(ids \ {id}, pids, asking) = PendingOf(ids, pids, asking) \ {<<"timeOut", <<"timer", id>>>>}
      /\ id \in ids <=> <<"timeOut", <<"timer", id>>>> \in PendingOf(ids, pids, asking)
  BY <1>2, PendingChanges, Zenon
<1>4. /\ Pending = PendingOf(ids, pids, asking)
      /\ Pending' = PendingOf(ArmedIn(timerMap'), pids, asking)
  BY <1>1, PendingIs
<1> QED
  BY <1>1, <1>3, <1>4

LEMMA ChildPending ==
  ASSUME SocketsOK, UNCHANGED <<timerMap, activeSockets>>, NEW pid
  PROVE  /\ WaitingIn(childProcesses') = WaitingIn(childProcesses) => Pending' = Pending
         /\ WaitingIn(childProcesses') = WaitingIn(childProcesses) \cup {pid} =>
              Pending' = Pending \cup {<<"exit", <<"process", pid>>>>}
         /\ WaitingIn(childProcesses') = WaitingIn(childProcesses) \ {pid} =>
              Pending' = Pending \ {<<"exit", <<"process", pid>>>>}
         /\ pid \in WaitingIn(childProcesses) <=> <<"exit", <<"process", pid>>>> \in Pending
<1>1. PICK ids, pids, asking : /\ ids = ArmedIn(timerMap) /\ pids = WaitingIn(childProcesses)
                               /\ asking = Asking(activeSockets)
  OBVIOUS
<1>2. asking \subseteq Purposes \X Fds
  BY <1>1, AskingTyped
<1>3. /\ PendingOf(ids, pids \cup {pid}, asking) = PendingOf(ids, pids, asking) \cup {<<"exit", <<"process", pid>>>>}
      /\ PendingOf(ids, pids \ {pid}, asking) = PendingOf(ids, pids, asking) \ {<<"exit", <<"process", pid>>>>}
      /\ pid \in pids <=> <<"exit", <<"process", pid>>>> \in PendingOf(ids, pids, asking)
  BY <1>2, PendingChanges, Zenon
<1>4. /\ Pending = PendingOf(ids, pids, asking)
      /\ Pending' = PendingOf(ids, WaitingIn(childProcesses'), asking)
  BY <1>1, PendingIs
<1> QED
  BY <1>1, <1>3, <1>4

LEMMA ArmedLemma ==
  ASSUME NEW id
  PROVE  /\ \A t : id \in DOMAIN timerMap /\ timerMap' = [timerMap EXCEPT ![id] = t] =>
              ArmedIn(timerMap') = IF t.at # Stopped THEN ArmedIn(timerMap) \cup {id} ELSE ArmedIn(timerMap) \ {id}
         /\ \A t : id \notin DOMAIN timerMap /\ timerMap' = With(timerMap, id, t) /\ t.at = Stopped =>
              ArmedIn(timerMap') = ArmedIn(timerMap)
         /\ timerMap' = Without(timerMap, id) => ArmedIn(timerMap') = ArmedIn(timerMap) \ {id}
<1>1. \A timers, k : k \in ArmedIn(timers) <=> k \in DOMAIN timers /\ timers[k].at # Stopped
  BY DEF ArmedIn
<1>2. ASSUME NEW t, id \in DOMAIN timerMap, timerMap' = [timerMap EXCEPT ![id] = t]
      PROVE  ArmedIn(timerMap') = IF t.at # Stopped THEN ArmedIn(timerMap) \cup {id} ELSE ArmedIn(timerMap) \ {id}
  <2>1. \A k : k \in DOMAIN timerMap' <=> k \in DOMAIN timerMap
    BY <1>2
  <2>2. timerMap'[id] = t /\ \A k \in DOMAIN timerMap : k # id => timerMap'[k] = timerMap[k]
    BY <1>2
  <2>3. \A k : k \in ArmedIn(timerMap') <=> (k = id /\ t.at # Stopped) \/ (k # id /\ k \in ArmedIn(timerMap))
    BY <1>1, <1>2, <2>1, <2>2
  <2> QED
    BY <2>3
<1>3. ASSUME NEW t, id \notin DOMAIN timerMap, timerMap' = With(timerMap, id, t), t.at = Stopped
      PROVE  ArmedIn(timerMap') = ArmedIn(timerMap)
  <2>1. /\ DOMAIN timerMap' = DOMAIN timerMap \cup {id} /\ timerMap'[id] = t
        /\ \A k \in DOMAIN timerMap : timerMap'[k] = timerMap[k]
    BY <1>3 DEF With
  <2>2. \A k : k \in ArmedIn(timerMap') <=> k \in ArmedIn(timerMap)
    BY <1>1, <1>3, <2>1
  <2> QED
    BY <2>2
<1>4. ASSUME timerMap' = Without(timerMap, id)
      PROVE  ArmedIn(timerMap') = ArmedIn(timerMap) \ {id}
  <2>1. /\ DOMAIN timerMap' = DOMAIN timerMap \ {id}
        /\ \A k \in DOMAIN timerMap : k # id => timerMap'[k] = timerMap[k]
    BY <1>4 DEF Without
  <2>2. \A k : k \in ArmedIn(timerMap') <=> k # id /\ k \in ArmedIn(timerMap)
    BY <1>1, <2>1
  <2> QED
    BY <2>2
<1> QED
  BY <1>2, <1>3, <1>4

LEMMA TimerMessagePromised ==
  ASSUME Inv, MessagesOK, TimerMessage
  PROVE  Promised /\ MessagesOK'
<1>1. /\ SocketsOK /\ Pending \in SUBSET Requests /\ DOMAIN timerMap \subseteq 0 .. MaxTimers - 1
      /\ time \in Nat /\ time # 0
  BY PendingTyped, ThreadAssumption DEF Inv, TimersOK, TimersTyped, ThreadOK
<1>2. /\ UNCHANGED <<WaitingIn(childProcesses), activeSockets>> /\ pc = "rewrite" /\ pc' = "rewrite"
  BY DEF TimerMessage, OfTimer, Send, processVars, socketVars, WaitingIn
<1>3. PICK id \in 0 .. MaxTimers - 1 :
        /\ Heard(1)
        /\ \/ ArmedIn(timerMap') = ArmedIn(timerMap)
           \/ ArmedIn(timerMap') = ArmedIn(timerMap) \cup {id}
           \/ ArmedIn(timerMap') = ArmedIn(timerMap) \ {id}
  <2>1. CASE CreateTimer
    <3>1. PICK i, t : i = FindUnusedId /\ t = [at |-> Stopped, period |-> 0, context |-> NoContext]
      OBVIOUS
    <3>2. /\ Cardinality(DOMAIN timerMap) < MaxTimers
          /\ timerMap' = With(timerMap, i, t) /\ Reply(<<"createdTimer">>, i)
      BY <2>1, <3>1 DEF CreateTimer
    <3>3. i \in 0 .. MaxTimers - 1 /\ i \notin DOMAIN timerMap /\ t.at = Stopped
      BY <1>1, <3>1, <3>2, FindUnusedIdLemma
    <3> QED
      BY <3>2, <3>3, HeardReply, ArmedLemma
  <2>2. ASSUME NEW id \in DOMAIN timerMap, NEW periodic \in BOOLEAN, NEW n \in Periods,
               StartTimer(id, periodic, n)
        PROVE  Heard(1) /\ ArmedIn(timerMap') = ArmedIn(timerMap) \cup {id}
    <3>1. PICK at, t : /\ at = time + n
                       /\ t = [at |-> at, period |-> IF periodic THEN n ELSE 0, context |-> context]
      OBVIOUS
    <3>2. timerMap' = [timerMap EXCEPT ![id] = t] /\ Reply(<<"startedTimer">>, id)
      BY <2>2, <3>1 DEF StartTimer, Started
    <3>3. t.at # Stopped
      BY <1>1, <3>1, TimerAssumption DEF Stopped
    <3> QED
      BY <3>2, <3>3, HeardReply, ArmedLemma
  <2>3. ASSUME NEW id \in DOMAIN timerMap, StopTimer(id)
        PROVE  Heard(1) /\ ArmedIn(timerMap') = ArmedIn(timerMap) \ {id}
    <3>1. PICK t : t = [timerMap[id] EXCEPT !.at = Stopped]
      OBVIOUS
    <3>2. timerMap' = [timerMap EXCEPT ![id] = t] /\ Reply(<<"stoppedTimer">>, id)
      BY <2>3, <3>1 DEF StopTimer
    <3>3. t.at = Stopped
      <4>1. timerMap[id] \in TimerType
        BY DEF Inv, TimersOK, TimersTyped
      <4> QED
        BY <3>1, <4>1 DEF TimerType
    <3> QED
      BY <3>2, <3>3, HeardReply, ArmedLemma
  <2>4. ASSUME NEW id \in DOMAIN timerMap, DeleteTimer(id)
        PROVE  Heard(1) /\ ArmedIn(timerMap') = ArmedIn(timerMap) \ {id}
    BY <2>4, HeardReply, ArmedLemma DEF DeleteTimer
  <2>5. CASE \E id \in DOMAIN timerMap, n \in Periods : StartTimer(id, FALSE, n) \/ StartTimer(id, TRUE, n)
    BY <1>1, <2>2, <2>5
  <2>6. CASE \E id \in DOMAIN timerMap : StopTimer(id) \/ DeleteTimer(id)
    BY <1>1, <2>3, <2>4, <2>6
  <2> QED
    BY <2>1, <2>5, <2>6 DEF TimerMessage, OfTimer
<1>4. PICK o, r : o = <<"timer", id>> /\ r = <<"timeOut", <<"timer", id>>>>
  OBVIOUS
<1>5. o \in Promise!Objects /\ r \in Promise!About(o)
  BY <1>4, RequestKinds
<1>6. Len(incomingMessages) \in Nat /\ MessagesOK' /\ Len(incomingMessages') = 1
  BY <1>2, <1>3, UnreadLemma DEF Heard
<1>7. Phase = "rewriting" /\ Phase' = "rewriting"
  BY <1>2, PhaseLemma
<1>8. Pending' = Pending \/ Pending' = Pending \cup {r} \/ Pending' = Pending \ {r}
  BY <1>1, <1>2, <1>3, <1>4, TimerPending
<1> QED
  BY <1>5, <1>6, <1>7, <1>8, StepAsks

(* A timer that is called back runs; it runs on if it is periodic.         *)
LEMMA TimerCallbackPromised ==
  ASSUME Inv, MessagesOK, TimerCallback
  PROVE  Promised /\ MessagesOK'
<1>1. /\ DOMAIN timerMap \subseteq 0 .. MaxTimers - 1 /\ SocketsOK
      /\ \A k \in DOMAIN timerMap : timerMap[k] \in TimerType
      /\ callbackMap \in Seq(Entries) /\ Ordered(callbackMap)
      /\ ToSet(callbackMap) = CallbacksOf(timerMap)
  BY DEF Inv, TimersOK, TimersTyped, Agree
<1>2. PICK h, map, id : h = Head(callbackMap) /\ map = Tail(callbackMap) /\ id = h.id
  OBVIOUS
<1>3. /\ callbackMap # <<>> /\ TimeOut(id, map) /\ pc = "callbacks" /\ pc' = "callbacks"
      /\ UNCHANGED <<WaitingIn(childProcesses), activeSockets>>
  BY <1>2 DEF TimerCallback, HandleCallback, WaitingIn, socketVars, processVars
<1>4. h \in CallbacksOf(timerMap)
  BY <1>1, <1>2, <1>3, TailLemma
<1>5. PICK k \in DOMAIN timerMap : timerMap[k].at # Stopped /\ h = [at |-> timerMap[k].at, id |-> k]
  BY <1>4, CallbackLemma
<1>6. id \in DOMAIN timerMap /\ timerMap[id].at # Stopped /\ id \in 0 .. MaxTimers - 1
  BY <1>1, <1>2, <1>5
<1>7. PICK t, at, new : /\ t = timerMap[id] /\ at = (IF t.period = 0 THEN Stopped ELSE t.at + t.period)
                        /\ new = [t EXCEPT !.at = at]
  OBVIOUS
<1>8. timerMap' = [timerMap EXCEPT ![id] = new] /\ Reply(<<"timeOut">>, id)
  BY <1>3, <1>7 DEF TimeOut
<1>9. new.at = at
  BY <1>1, <1>6, <1>7 DEF TimerType
<1>10. id \in ArmedIn(timerMap)
  BY <1>6 DEF ArmedIn
<1>11. PICK r : r = <<"timeOut", <<"timer", id>>>>
  OBVIOUS
<1>12. /\ r \in Requests /\ r \in Pending
       /\ r \in {<<"timeOut", Timer(i)>> : i \in 0 .. MaxTimers - 1}
  BY <1>1, <1>3, <1>6, <1>10, <1>11, RequestKinds, TimerPending DEF Timer
<1>13. Pending' = Pending \ {r} \/ Pending' = Pending
  <2>1. CASE at # Stopped
    <3>1. ArmedIn(timerMap') = ArmedIn(timerMap) \cup {id}
      BY <1>6, <1>8, <1>9, <2>1, ArmedLemma
    <3>2. ArmedIn(timerMap') = ArmedIn(timerMap)
      BY <1>10, <3>1
    <3> QED
      BY <1>1, <1>3, <3>2, TimerPending
  <2>2. CASE at = Stopped
    <3>1. ArmedIn(timerMap') = ArmedIn(timerMap) \ {id}
      BY <1>6, <1>8, <1>9, <2>2, ArmedLemma
    <3> QED
      BY <1>1, <1>3, <1>11, <3>1, TimerPending
  <2> QED
    BY <2>1, <2>2
<1>14. Len(incomingMessages') = Len(incomingMessages) + 1 /\ MessagesOK'
  BY <1>3, <1>8, HeardReply, UnreadLemma DEF Heard
<1>15. Phase = "waiting" /\ Phase' = "waiting"
  BY <1>3, PhaseLemma
<1> QED
  BY <1>12, <1>13, <1>14, <1>15, StepAnswers

LEMMA WaitingLemma ==
  ASSUME NEW pid
  PROVE  /\ childProcesses' = [p \in DOMAIN childProcesses \ {pid} |-> childProcesses[p]] =>
              WaitingIn(childProcesses') = WaitingIn(childProcesses) \ {pid}
         /\ pid \notin DOMAIN childProcesses => \A c : c.waitContext = NoContext
              /\ childProcesses' = [p \in DOMAIN childProcesses \cup {pid} |->
                                      IF p = pid THEN c ELSE childProcesses[p]]
              => WaitingIn(childProcesses') = WaitingIn(childProcesses)
         /\ \A c : pid \in DOMAIN childProcesses /\ childProcesses' = [childProcesses EXCEPT ![pid] = c]
                   /\ c.waitContext # NoContext =>
              WaitingIn(childProcesses') = WaitingIn(childProcesses) \cup {pid}
<1>1. \A children, p : p \in WaitingIn(children) <=> p \in DOMAIN children /\ children[p].waitContext # NoContext
  BY DEF WaitingIn
<1>2. ASSUME childProcesses' = [p \in DOMAIN childProcesses \ {pid} |-> childProcesses[p]]
      PROVE  WaitingIn(childProcesses') = WaitingIn(childProcesses) \ {pid}
  <2>1. /\ DOMAIN childProcesses' = DOMAIN childProcesses \ {pid}
        /\ \A p \in DOMAIN childProcesses : p # pid => childProcesses'[p] = childProcesses[p]
    BY <1>2
  <2>2. \A p : p \in WaitingIn(childProcesses') <=> p # pid /\ p \in WaitingIn(childProcesses)
    BY <1>1, <2>1
  <2> QED
    BY <2>2
<1>3. ASSUME pid \notin DOMAIN childProcesses, NEW c, c.waitContext = NoContext,
             childProcesses' = [p \in DOMAIN childProcesses \cup {pid} |->
                                  IF p = pid THEN c ELSE childProcesses[p]]
      PROVE  WaitingIn(childProcesses') = WaitingIn(childProcesses)
  <2>1. /\ DOMAIN childProcesses' = DOMAIN childProcesses \cup {pid} /\ childProcesses'[pid] = c
        /\ \A p \in DOMAIN childProcesses : childProcesses'[p] = childProcesses[p]
    BY <1>3
  <2>2. \A p : p \in WaitingIn(childProcesses') <=> p \in WaitingIn(childProcesses)
    BY <1>1, <1>3, <2>1
  <2> QED
    BY <2>2
<1>4. ASSUME NEW c, pid \in DOMAIN childProcesses, childProcesses' = [childProcesses EXCEPT ![pid] = c],
             c.waitContext # NoContext
      PROVE  WaitingIn(childProcesses') = WaitingIn(childProcesses) \cup {pid}
  <2>1. /\ DOMAIN childProcesses' = DOMAIN childProcesses /\ childProcesses'[pid] = c
        /\ \A p \in DOMAIN childProcesses : p # pid => childProcesses'[p] = childProcesses[p]
    BY <1>4
  <2>2. \A p : p \in WaitingIn(childProcesses') <=> p = pid \/ p \in WaitingIn(childProcesses)
    BY <1>1, <1>4, <2>1
  <2> QED
    BY <2>2
<1> QED
  BY <1>2, <1>3, <1>4

(* A process that is created is not waited for, and its sockets are asked  *)
(* for nothing.                                                            *)
LEMMA CreateProcessPromised ==
  ASSUME Inv, MessagesOK, CreateProcessMessage
  PROVE  Promised /\ MessagesOK'
<1>1. SocketsOK /\ \A p \in DOMAIN childProcesses : proc[p] # "none"
  BY DEF Inv, ChildrenOK
<1>2. pc = "rewrite" /\ pc' = "rewrite" /\ UNCHANGED timerMap
  BY DEF CreateProcessMessage, Send
<1>3. PICK pid, io, err : /\ pid = LowestOf(FreePids) /\ io = LowestOf(FreeFds)
                          /\ err = LowestOf(FreeFds \ {io})
  OBVIOUS
<1>4. /\ pid \notin DOMAIN childProcesses /\ io \in Fds /\ err \in Fds /\ io # err
      /\ io \notin DOMAIN activeSockets /\ err \notin DOMAIN activeSockets
  <2>1. FreePids # {} /\ Cardinality(FreeFds) > 1
    BY DEF CreateProcessMessage, CreateProcess
  <2>2. pid \in FreePids /\ io \in FreeFds /\ err \in FreeFds /\ io # err
    BY <1>3, <2>1, LowestFree, TwoFree
  <2> QED
    BY <1>1, <2>2, SocketFree DEF FreePids
<1>5. CASE UNCHANGED <<childProcesses, activeSockets>> /\ Reply(<<"processError">>, pid)
  <2>1. UNCHANGED <<timerMap, activeSockets>> /\ WaitingIn(childProcesses') = WaitingIn(childProcesses)
    BY <1>2, <1>5
  <2>2. Pending' = Pending
    BY <1>1, <2>1, ChildPending
  <2>3. MessagesOK' /\ Len(incomingMessages') \in {0, 1}
    BY <1>2, <1>5, HeardReply, UnreadLemma DEF Heard
  <2> QED
    BY <1>2, <2>2, <2>3, PhaseLemma, StepRewrites
<1>6. CASE /\ childProcesses' = [p \in DOMAIN childProcesses \cup {pid} |->
                IF p = pid THEN [ioSocket |-> io, errSocket |-> err, waitContext |-> NoContext]
                ELSE childProcesses[p]]
           /\ activeSockets' = Known(Known(activeSockets, io, ActiveSocket({}, FALSE)),
                                     err, ActiveSocket({}, TRUE))
           /\ ReplyWith(<<"createdProcess">>, pid, {<<"socket", io>>, <<"socket", err>>})
  <2>1. PICK c : c = [ioSocket |-> io, errSocket |-> err, waitContext |-> NoContext]
    OBVIOUS
  <2>2. /\ c.waitContext = NoContext
        /\ childProcesses' = [p \in DOMAIN childProcesses \cup {pid} |-> IF p = pid THEN c ELSE childProcesses[p]]
    BY <1>6, <2>1
  <2>3. WaitingIn(childProcesses') = WaitingIn(childProcesses)
    BY <1>4, <2>2, WaitingLemma
  <2>4. Asking(activeSockets') = Asking(activeSockets)
    <3>1. PICK s, t, sockets : /\ s = ActiveSocket({}, FALSE) /\ t = ActiveSocket({}, TRUE)
                               /\ sockets = Known(activeSockets, io, s)
      OBVIOUS
    <3>2. Asked(s.state) = {} /\ Asked(t.state) = {}
      BY <3>1, AskedLemma DEF ActiveSocket
    <3>3. Asking(sockets) = Asking(activeSockets)
      BY <1>4, <3>1, <3>2, AskingFresh
    <3>4. err \notin DOMAIN sockets
      BY <1>4, <3>1 DEF Known
    <3>5. Asking(Known(sockets, err, t)) = Asking(sockets)
      BY <3>2, <3>4, AskingFresh
    <3> QED
      BY <1>6, <3>1, <3>3, <3>5
  <2>5. ArmedIn(timerMap') = ArmedIn(timerMap)
    BY <1>2 DEF ArmedIn
  <2>6. Pending' = Pending
    BY <2>3, <2>4, <2>5, PendingIs
  <2>7. MessagesOK' /\ Len(incomingMessages') \in {0, 1}
    <3>1. PICK others : others = {<<"socket", io>>, <<"socket", err>>}
      OBVIOUS
    <3>2. ReplyWith(<<"createdProcess">>, pid, others)
      BY <1>6, <3>1
    <3>3. Heard(1)
      BY <3>2, HeardLemma
    <3> QED
      BY <1>2, <3>3, UnreadLemma DEF Heard
  <2> QED
    BY <1>2, <2>6, <2>7, PhaseLemma, StepRewrites
<1> QED
  BY <1>3, <1>5, <1>6 DEF CreateProcessMessage, CreateProcess, socketVars

LEMMA ProcessMessagesPromised ==
  ASSUME Inv, MessagesOK, SignalMessage \/ WaitMessage \/ WaitChecked
  PROVE  Promised /\ MessagesOK'
<1>1. SocketsOK /\ ChildrenOK /\ UNCHANGED <<timerMap, activeSockets>> /\ Len(incomingMessages) \in Nat
      /\ context \in 1 .. MaxContexts
  <2>1. UNCHANGED <<timerMap, activeSockets>>
    BY DEF SignalMessage, WaitMessage, WaitChecked, managerVars, socketVars
  <2> QED
    BY <2>1, UnreadLemma DEF Inv, ThreadOK
<1>2. CASE SignalMessage
  <2>1. pc = "rewrite" /\ pc' = "rewrite" /\ UNCHANGED childProcesses
    BY <1>2 DEF SignalMessage, OfProcess, Send, managerVars, processVars
  <2>2. PICK pid : Reply(<<"signaledProcess">>, pid)
    BY <1>2 DEF SignalMessage, SignalProcess
  <2>3. Pending' = Pending
    <3>1. WaitingIn(childProcesses') = WaitingIn(childProcesses)
      BY <2>1
    <3> QED
      BY <1>1, <3>1, ChildPending
  <2>4. MessagesOK' /\ Len(incomingMessages') \in {0, 1}
    BY <2>1, <2>2, HeardReply, UnreadLemma DEF Heard
  <2> QED
    BY <2>1, <2>3, <2>4, PhaseLemma, StepRewrites
<1>3. CASE WaitMessage
  <2>1. pc = "rewrite" /\ pc' = "waitpid" /\ UNCHANGED <<childProcesses, incomingMessages>>
    BY <1>3 DEF WaitMessage, OfProcess, Send, managerVars, processVars
  <2>2. WaitingIn(childProcesses') = WaitingIn(childProcesses)
    BY <2>1
  <2>3. Unseen
    <3>1. Pending' = Pending
      BY <1>1, <2>2, ChildPending
    <3>2. Phase' = Phase
      BY <2>1, PhaseLemma
    <3> QED
      BY <2>1, <3>1, <3>2 DEF Unseen
  <2> QED
    BY <2>1, <2>3, StepUnseen, MessagesKept
<1>4. CASE WaitChecked
  <2>1. PICK w : w = waiter
    OBVIOUS
  <2>2. pc = "waitpid" /\ pc' = "rewrite" /\ LookForExit(w)
    BY <1>4, <2>1 DEF WaitChecked
  <2>3. w \in DOMAIN childProcesses /\ w \in Pids
    BY <1>1, <2>1, <2>2 DEF ChildrenOK, MayWait
  <2>4. PICK o, r : o = <<"process", w>> /\ r = <<"exit", <<"process", w>>>>
    OBVIOUS
  <2>5. o \in Promise!Objects /\ r \in Promise!About(o)
    BY <2>3, <2>4, RequestKinds
  <2>6. Phase = "rewriting" /\ Phase' = "rewriting"
    BY <2>2, PhaseLemma
  <2>7. Len(Unread) = Len(incomingMessages)
    BY <2>2, UnreadLemma
  <2>8. CASE /\ childProcesses' = [p \in DOMAIN childProcesses \ {w} |-> childProcesses[p]]
             /\ Reply(<<"exited">>, w)
    <3>1. Pending' = Pending \ {r}
      BY <1>1, <2>4, <2>8, ChildPending, WaitingLemma
    <3>2. MessagesOK' /\ Len(incomingMessages') = Len(incomingMessages) + 1
      BY <2>7, <2>8, HeardReply DEF Heard
    <3> QED
      BY <1>1, <2>5, <2>6, <3>1, <3>2, StepAsks
  <2>9. CASE /\ childProcesses' = [childProcesses EXCEPT ![w].waitContext = context]
             /\ Reply(<<>>, w)
    <3>1. PICK c, k : c = [childProcesses[w] EXCEPT !.waitContext = k] /\ k = context
      OBVIOUS
    <3>2. childProcesses' = [childProcesses EXCEPT ![w] = c]
      BY <2>9, <3>1
    <3>3. c.waitContext # NoContext
      <4>1. childProcesses[w] \in ChildType
        BY <1>1, <2>3 DEF ChildrenOK
      <4>2. c.waitContext = k
        BY <3>1, <4>1 DEF ChildType
      <4> QED
        BY <1>1, <3>1, <4>2 DEF NoContext
    <3>4. Pending' = Pending \cup {r}
      BY <1>1, <2>3, <2>4, <3>2, <3>3, ChildPending, WaitingLemma
    <3>5. MessagesOK' /\ Len(incomingMessages') = Len(incomingMessages)
      BY <1>1, <2>7, <2>9, HeardReply DEF Heard
    <3> QED
      BY <1>1, <2>5, <2>6, <3>4, <3>5, StepAsks
  <2> QED
    BY <2>2, <2>8, <2>9 DEF LookForExit, ExitedReply
<1> QED
  BY <1>2, <1>3, <1>4

LEMMA ChildCallbackPromised ==
  ASSUME Inv, MessagesOK, ChildCallback
  PROVE  Promised /\ MessagesOK'
<1>1. SocketsOK /\ ChildrenOK /\ UNCHANGED <<timerMap, activeSockets>> /\ ThreadOK
  BY DEF ChildCallback, socketVars, Inv
<1>2. pc = "children" /\ pc' = "children"
  BY DEF ChildCallback, HandleChild
<1>3. PICK w : w = NextChild
  OBVIOUS
<1>4. w \in WaitingIn(childProcesses) /\ w \in Pids
  <2>1. loop.child \in 1 .. Len(childRequests)
    BY <1>1, ChildHandled
  <2>2. childRequests \in Seq(Pids) /\ ToSet(childRequests) = Waiting
    BY <1>1, <1>2 DEF ChildrenOK
  <2>3. w \in ToSet(childRequests)
    BY <1>3, <2>1, <2>2, ToSetLemma DEF NextChild
  <2> QED
    BY <1>1, <2>2, <2>3 DEF Waiting, WaitingIn, ChildrenOK
<1>5. PICK r : r = <<"exit", <<"process", w>>>>
  OBVIOUS
<1>6. r \in Requests /\ r \in Pending
  BY <1>1, <1>4, <1>5, RequestKinds, ChildPending
<1>7. Phase = "waiting" /\ Phase' = "waiting"
  BY <1>2, PhaseLemma
<1>8. CASE DoChildExit(w)
  <2>1. Pending' = Pending \ {r}
    BY <1>1, <1>5, <1>8, ChildPending, WaitingLemma DEF DoChildExit, ExitedReply
  <2>2. MessagesOK' /\ Len(incomingMessages') = Len(incomingMessages) + 1
    BY <1>2, <1>8, HeardReply, UnreadLemma DEF Heard, DoChildExit, ExitedReply
  <2> QED
    BY <1>6, <1>7, <2>1, <2>2, StepAnswers
<1>9. CASE UNCHANGED <<processVars, incomingMessages>>
  <2>1. UNCHANGED incomingMessages /\ WaitingIn(childProcesses') = WaitingIn(childProcesses)
    BY <1>9 DEF processVars
  <2>2. Unseen
    BY <1>1, <1>7, <2>1, ChildPending DEF Unseen
  <2> QED
    BY <2>1, <2>2, StepUnseen, MessagesKept
<1> QED
  BY <1>3, <1>8, <1>9 DEF ChildCallback

----------------------------------------------------------------------------
(* The callbacks of the files: a request is answered, all of a socket are, *)
(* or what was written is not yet all there is to write.                   *)
FileAnswers(fd) ==
  \/ \E p \in Purposes : /\ SocketRequest(p, fd) \in Pending
                         /\ Pending' = Pending \ {SocketRequest(p, fd)} /\ Heard(1)
  \/ /\ Pending' = {r \in Pending : r[2] # <<"socket", fd>>}
     /\ \E p \in Purposes : /\ SocketRequest(p, fd) \in Pending
                            /\ \/ Heard(1)
                               \/ /\ Heard(2)
                                  /\ \E q \in Purposes \ {p} : SocketRequest(q, fd) \in Pending
  \/ Pending' = Pending /\ Heard(0)

LEMMA OneAnswered ==
  ASSUME SocketsOK, Others, NEW fd \in DOMAIN activeSockets, NEW p \in Asked(activeSockets[fd].state), Heard(1),
         \/ /\ \E s : SocketBecomes(fd, s) /\ Asked(s.state) = Asked(activeSockets[fd].state) \ {p}
         \/ SocketForgotten(fd)
         \/ Asking(activeSockets') = Asking(activeSockets) \ {<<p, fd>>}
  PROVE  FileAnswers(fd)
<1>1. fd \in Fds /\ p \in Purposes /\ AskedOf(fd) = Asked(activeSockets[fd].state)
  BY SocketKnown, AskedLemma DEF AskedOf
<1>2. SocketRequest(p, fd) \in Pending
  BY <1>1, SocketPending
<1>3. CASE \E s : SocketBecomes(fd, s) /\ Asked(s.state) = Asked(activeSockets[fd].state) \ {p}
  <2>1. Pending' = Pending \ {SocketRequest(p, fd)}
    BY <1>1, <1>3, SocketPending
  <2> QED
    BY <1>1, <1>2, <2>1 DEF FileAnswers
<1>4. CASE SocketForgotten(fd)
  <2>1. Pending' = {r \in Pending : r[2] # <<"socket", fd>>}
    BY <1>1, <1>4, SocketPending
  <2> QED
    BY <1>1, <1>2, <2>1 DEF FileAnswers
<1>5. CASE Asking(activeSockets') = Asking(activeSockets) \ {<<p, fd>>}
  <2>1. Pending' = Pending \ {SocketRequest(p, fd)}
    BY <1>1, <1>5, SocketPending
  <2> QED
    BY <1>1, <1>2, <2>1 DEF FileAnswers
<1> QED
  BY <1>3, <1>4, <1>5

LEMMA ReadAnswered ==
  ASSUME SocketsOK, MessagesOK, Others, NEW fd \in DOMAIN activeSockets, NEW left, ReadNow(fd, left)
  PROVE  FileAnswers(fd)
<1>1. PICK old, c : old = activeSockets[fd] /\ c = context
  OBVIOUS
<1>2. fd \in Fds /\ SocketGood(old, c) /\ "WAITING_TO_READ" \in old.state
  BY <1>1, SocketKnown DEF ReadNow, Awaiting
<1>3. PICK s : s = [old EXCEPT !.state = @ \ {"WAITING_TO_READ"}]
  OBVIOUS
<1>4. SocketGood(s, c) /\ s.state = old.state \ {"WAITING_TO_READ"}
  BY <1>1, <1>2, <1>3, AnsweredGood
<1>5. "read" \in Asked(old.state) /\ Asked(s.state) = Asked(old.state) \ {"read"}
  BY <1>2, <1>4, AskedLemma DEF SocketGood
<1>6. CASE activeSockets' = Answered(fd, "WAITING_TO_READ") /\ Reply(<<"received">>, fd)
  <2>1. activeSockets' = [activeSockets EXCEPT ![fd] = s]
    BY <1>1, <1>3, <1>6 DEF Answered
  <2>2. SocketBecomes(fd, s)
    BY <2>1, SocketUpdates
  <2> QED
    BY <1>1, <1>5, <1>6, <2>2, HeardReply, OneAnswered
<1>7. CASE /\ activeSockets' = [Answered(fd, "WAITING_TO_READ") EXCEPT ![fd].seenEOF = TRUE]
           /\ Reply(<<"received">>, fd)
  <2>1. PICK t : t = [s EXCEPT !.seenEOF = TRUE]
    OBVIOUS
  <2>2. activeSockets' = [activeSockets EXCEPT ![fd] = t]
    BY <1>1, <1>3, <1>7, <2>1 DEF Answered
  <2>3. SocketBecomes(fd, t)
    BY <2>2, SocketUpdates
  <2>4. t.state = s.state
    BY <1>4, <2>1, StillGood
  <2> QED
    BY <1>1, <1>5, <1>7, <2>3, <2>4, HeardReply, OneAnswered
<1>8. CASE CloseSocketNow(fd)
  <2>1. SocketForgotten(fd) /\ Reply(<<"closedSocket">>, fd)
    BY <1>8, SocketUpdates DEF CloseSocketNow
  <2> QED
    BY <1>1, <1>5, <2>1, HeardReply, OneAnswered
<1> QED
  BY <1>6, <1>7, <1>8 DEF ReadNow

LEMMA AcceptAnswered ==
  ASSUME SocketsOK, MessagesOK, Others, NEW fd \in DOMAIN activeSockets, NEW left, ReadAccepted(fd, left)
  PROVE  FileAnswers(fd)
<1>1. PICK old, c, st : old = activeSockets[fd] /\ c = context /\ st = {"LISTENING"}
  OBVIOUS
<1>2. fd \in Fds /\ SocketGood(old, c) /\ old.state = {"WAITING_TO_ACCEPT"}
  <2>1. fd \in Fds /\ SocketGood(old, c) /\ "WAITING_TO_ACCEPT" \in old.state
    BY <1>1, SocketKnown DEF ReadAccepted, Awaiting
  <2> QED
    BY <2>1, StatesLemma DEF SocketGood
<1>3. PICK s : s = [old EXCEPT !.state = st]
  OBVIOUS
<1>4. s.state = st
  BY <1>2, <1>3 DEF SocketGood, SocketType
<1>5. "read" \in Purposes /\ "read" \in Asked(old.state) /\ Asked(s.state) = Asked(old.state) \ {"read"}
  <2>1. Asked(old.state) = {"read"} /\ Asked(s.state) = {}
    BY <1>1, <1>2, <1>4, AskedLemma
  <2> QED
    BY <2>1 DEF Purposes
<1>6. PICK sockets, was : sockets = [activeSockets EXCEPT ![fd].state = {"LISTENING"}] /\ was = activeSockets
  OBVIOUS
<1>7. /\ DOMAIN sockets = DOMAIN was \cup {fd} /\ sockets[fd] = s
      /\ \A f \in DOMAIN was \ {fd} : sockets[f] = was[f]
  BY <1>1, <1>3, <1>6
<1>8. Asking(sockets) = Asking(activeSockets) \ {<<"read", fd>>}
  <2>1. PICK o : o = Asked(old.state)
    OBVIOUS
  <2>2. o = IF fd \in DOMAIN was THEN Asked(was[fd].state) ELSE {}
    BY <1>1, <1>6, <2>1
  <2>3. Asked(s.state) = o \ {"read"}
    BY <1>5, <2>1
  <2> QED
    <3>1. AskingChange(was, sockets, fd, s, o)
      BY <1>7, <2>2, AskingBecomes
    <3> QED
      BY <1>5, <1>6, <2>3, <3>1 DEF AskingChange
<1>9. CASE activeSockets' = sockets /\ Reply(<<"socketError">>, fd)
  BY <1>1, <1>5, <1>8, <1>9, HeardReply, OneAnswered
<1>10. CASE AcceptNow(fd, sockets)
  <2>1. PICK new, t : new = LowestOf(FreeFds) /\ t = ActiveSocket({}, FALSE)
    OBVIOUS
  <2>2. CASE /\ FreeFds # {} /\ activeSockets' = Known(sockets, new, t)
             /\ Reply(<<"acceptedClient">>, new)
    <3>1. new \notin DOMAIN activeSockets
      BY <2>1, <2>2, LowestFree, SocketFree
    <3>2. new \notin DOMAIN sockets
      BY <1>6, <1>7, <3>1
    <3>3. Asked(t.state) = {}
      BY <2>1, AskedLemma DEF ActiveSocket
    <3>4. Asking(activeSockets') = Asking(sockets)
      BY <2>2, <3>2, <3>3, AskingFresh
    <3> QED
      BY <1>1, <1>5, <1>8, <2>2, <3>4, HeardReply, OneAnswered
  <2> QED
    BY <1>9, <1>10, <2>1, <2>2 DEF AcceptNow
<1>11. AcceptNow(fd, [activeSockets EXCEPT ![fd].state = {"LISTENING"}]) => AcceptNow(fd, sockets)
  BY <1>6, Zenon DEF AcceptNow
<1>12. \/ AcceptNow(fd, [activeSockets EXCEPT ![fd].state = {"LISTENING"}])
       \/ activeSockets' = [activeSockets EXCEPT ![fd].state = {"LISTENING"}] /\ Reply(<<"socketError">>, fd)
  BY DEF ReadAccepted
<1> QED
  BY <1>6, <1>9, <1>10, <1>11, <1>12

LEMMA ConnectAnswered ==
  ASSUME SocketsOK, MessagesOK, Others, NEW fd \in DOMAIN activeSockets, NEW left, Connected(fd, left)
  PROVE  FileAnswers(fd)
<1>1. PICK old, c, st : old = activeSockets[fd] /\ c = context /\ st = {}
  OBVIOUS
<1>2. fd \in Fds /\ SocketGood(old, c) /\ old.state = {"WAITING_TO_CONNECT"}
  <2>1. fd \in Fds /\ SocketGood(old, c) /\ "WAITING_TO_CONNECT" \in old.state
    BY <1>1, SocketKnown DEF Connected, Awaiting
  <2> QED
    BY <2>1, StatesLemma DEF SocketGood
<1>3. Asked(old.state) = {"connect"} /\ Asked(st) = {}
  BY <1>1, <1>2, AskedLemma
<1>4. CASE activeSockets' = [activeSockets EXCEPT ![fd].state = {}] /\ Reply(<<"createdSocket">>, fd)
  <2>1. PICK s : s = [old EXCEPT !.state = st]
    OBVIOUS
  <2>2. s.state = st
    BY <1>2, <2>1 DEF SocketGood, SocketType
  <2>3. activeSockets' = [activeSockets EXCEPT ![fd] = s]
    BY <1>1, <1>4, <2>1
  <2>4. SocketBecomes(fd, s)
    BY <2>3, SocketUpdates
  <2>5. Asked(s.state) = Asked(old.state) \ {"connect"}
    BY <1>3, <2>2
  <2> QED
    BY <1>1, <1>3, <1>4, <2>4, <2>5, HeardReply, OneAnswered
<1>5. CASE Refuse(fd)
  <2>1. SocketForgotten(fd) /\ Reply(<<"socketError">>, fd)
    BY <1>5, SocketUpdates DEF Refuse
  <2> QED
    BY <1>1, <1>3, <2>1, HeardReply, OneAnswered
<1> QED
  BY <1>4, <1>5 DEF Connected

LEMMA WriteAnswered ==
  ASSUME SocketsOK, MessagesOK, Others, NEW fd \in DOMAIN activeSockets, NEW left, WriteRest(fd, left)
  PROVE  FileAnswers(fd)
<1>1. PICK old, c, n : old = activeSockets[fd] /\ c = context /\ n = old.unsent
  OBVIOUS
<1>2. /\ fd \in Fds /\ SocketGood(old, c) /\ "WAITING_TO_WRITE" \in old.state /\ chan \in [Fds -> ChannelType]
  BY <1>1, SocketKnown DEF WriteRest, Awaiting, SocketsOK
<1>3. PICK s : s = [old EXCEPT !.state = @ \ {"WAITING_TO_WRITE"}]
  OBVIOUS
<1>4. SocketGood(s, c) /\ s.state = old.state \ {"WAITING_TO_WRITE"}
  BY <1>1, <1>2, <1>3, AnsweredGood
<1>5. "write" \in Asked(old.state) /\ Asked(s.state) = Asked(old.state) \ {"write"}
  BY <1>2, <1>4, AskedLemma DEF SocketGood
<1>6. n \in 0 .. MaxRoom + 1
  BY <1>1, <1>2 DEF SocketGood, SocketType
<1>7. PICK answered : answered = Answered(fd, "WAITING_TO_WRITE")
  OBVIOUS
<1>8. /\ DOMAIN answered = DOMAIN activeSockets /\ answered[fd] = s
      /\ \A f \in DOMAIN activeSockets \ {fd} : answered[f] = activeSockets[f]
  BY <1>1, <1>3, <1>7 DEF Answered
<1>9. ASSUME NEW x \in {s, old}, NEW u \in 0 .. MaxRoom + 1, SocketBecomes(fd, [x EXCEPT !.unsent = u])
      PROVE  \E t : SocketBecomes(fd, t) /\ t.state = x.state
  <2>1. SocketGood(x, c)
    BY <1>2, <1>4
  <2>2. [x EXCEPT !.unsent = u].state = x.state
    BY <2>1, StillGood
  <2> QED
    BY <1>9, <2>2
<1>10. CASE /\ activeSockets' = [Answered(fd, "WAITING_TO_WRITE") EXCEPT ![fd].unsent = 0]
            /\ Reply(<<"socketError">>, fd)
  <2>1. PICK none, t : none = 0 /\ t = [s EXCEPT !.unsent = none]
    OBVIOUS
  <2>2. SocketBecomes(fd, t)
    BY <1>7, <1>8, <1>10, <2>1 DEF SocketBecomes
  <2>3. none \in 0 .. MaxRoom + 1
    BY <2>1, SocketAssumption
  <2>4. t.state = s.state
    BY <1>4, <2>1, <2>3, StillGood
  <2> QED
    BY <1>1, <1>5, <1>10, <2>2, <2>4, HeardReply, OneAnswered
<1>11. CASE Write(fd, n, Answered(fd, "WAITING_TO_WRITE")) /\ Reply(<<"sent">>, fd)
  <2>1. Write(fd, n, answered)
    BY <1>7, <1>11, Zenon DEF Write
  <2>2. PICK u \in 0 .. n : SocketBecomes(fd, [s EXCEPT !.unsent = u])
    BY <1>2, <1>6, <1>8, <2>1, WriteLemma
  <2>3. u \in 0 .. MaxRoom + 1
    BY <1>6, SocketAssumption
  <2>4. PICK t : SocketBecomes(fd, t) /\ t.state = s.state
    BY <1>9, <2>2, <2>3
  <2> QED
    BY <1>1, <1>5, <1>11, <2>4, HeardReply, OneAnswered
<1>12. CASE Write(fd, n, activeSockets) /\ Reply(<<>>, fd)
  <2>1. PICK sockets : sockets = activeSockets
    OBVIOUS
  <2>2. Write(fd, n, sockets)
    BY <1>12, <2>1, Zenon DEF Write
  <2>3. PICK u \in 0 .. n : SocketBecomes(fd, [old EXCEPT !.unsent = u])
    BY <1>1, <1>2, <1>6, <2>1, <2>2, WriteLemma
  <2>4. u \in 0 .. MaxRoom + 1
    BY <1>6, SocketAssumption
  <2>5. PICK t : SocketBecomes(fd, t) /\ t.state = old.state
    BY <1>9, <2>3, <2>4
  <2>6. Asked(t.state) = AskedOf(fd)
    BY <1>1, <2>5 DEF AskedOf
  <2>7. Pending' = Pending
    BY <1>2, <2>5, <2>6, SocketPending
  <2> QED
    BY <1>12, <2>7, HeardReply DEF FileAnswers
<1> QED
  BY <1>1, <1>10, <1>11, <1>12 DEF WriteRest

(* An exception takes the requests off that the socket has: it has at      *)
(* least one, as its file was watched.                                     *)
LEMMA ExceptionAnswered ==
  ASSUME SocketsOK, MessagesOK, Others, NEW fd \in DOMAIN activeSockets, flags[fd] # {},
         NEW channels, HandleException(fd, channels)
  PROVE  FileAnswers(fd)
<1>1. PICK old, c : old = activeSockets[fd] /\ c = context
  OBVIOUS
<1>2. fd \in Fds /\ SocketGood(old, c) /\ Wishes(old.state) # {} /\ old.state \in States /\ old \in SocketType
  BY <1>1, SocketKnown DEF SocketGood
<1>3. CASE /\ Awaiting(fd, "WAITING_TO_ACCEPT") /\ activeSockets' = Answered(fd, "WAITING_TO_ACCEPT")
           /\ Reply(<<"socketError">>, fd)
  <2>1. PICK st, s : st = old.state \ {"WAITING_TO_ACCEPT"} /\ s = [old EXCEPT !.state = st]
    OBVIOUS
  <2>2. old.state = {"WAITING_TO_ACCEPT"}
    BY <1>1, <1>2, <1>3, StatesLemma DEF Awaiting
  <2>3. st = {} /\ s.state = st
    BY <1>2, <2>1, <2>2 DEF SocketType
  <2>4. Asked(old.state) = {"read"} /\ Asked(s.state) = {}
    BY <2>2, <2>3, AskedLemma
  <2>5. activeSockets' = [activeSockets EXCEPT ![fd] = s]
    BY <1>1, <1>3, <2>1 DEF Answered
  <2>6. SocketBecomes(fd, s) /\ Asked(s.state) = Asked(old.state) \ {"read"}
    BY <2>4, <2>5, SocketUpdates
  <2> QED
    BY <1>1, <1>3, <2>4, <2>6, HeardReply, OneAnswered
<1>4. CASE Awaiting(fd, "WAITING_TO_CONNECT") /\ Refuse(fd)
  <2>1. old.state = {"WAITING_TO_CONNECT"}
    BY <1>1, <1>2, <1>4, StatesLemma DEF Awaiting
  <2>2. Asked(old.state) = {"connect"}
    BY <2>1, AskedLemma
  <2>3. SocketForgotten(fd) /\ Reply(<<"socketError">>, fd)
    BY <1>4, SocketUpdates DEF Refuse
  <2> QED
    BY <1>1, <2>2, <2>3, HeardReply, OneAnswered
<1>5. PICK unsent : unsent = IF Awaiting(fd, "WAITING_TO_WRITE") THEN <<"socketError">> ELSE <<>>
  OBVIOUS
<1>6. "WAITING_TO_WRITE" \in old.state => "write" \in Asked(old.state)
  BY <1>2, AskedLemma
<1>7. CASE /\ Awaiting(fd, "WAITING_TO_READ") /\ activeSockets' = Forgotten(activeSockets, fd)
           /\ Reply(unsent \o <<"closedSocket">>, fd)
  <2>1. SocketForgotten(fd) /\ "read" \in Asked(old.state)
    BY <1>1, <1>2, <1>7, SocketUpdates, AskedLemma DEF Awaiting
  <2>2. CASE unsent = <<>>
    <3>1. Reply(<<"closedSocket">>, fd)
      BY <1>7, <2>2, TwoReplies
    <3> QED
      BY <1>1, <2>1, <3>1, HeardReply, OneAnswered
  <2>3. CASE unsent # <<>>
    <3>1. unsent = <<"socketError">> /\ "write" \in Asked(old.state)
      BY <1>1, <1>5, <1>6, <2>3 DEF Awaiting
    <3>2. Reply(<<"socketError", "closedSocket">>, fd)
      BY <1>7, <3>1, TwoReplies
    <3>3. Heard(2) /\ Pending' = {r \in Pending : r[2] # <<"socket", fd>>}
      BY <1>2, <2>1, <3>2, HeardReply, SocketPending
    <3>4. /\ "read" \in Purposes /\ "write" \in Purposes \ {"read"}
          /\ AskedOf(fd) = Asked(old.state)
      BY <1>1 DEF Purposes, AskedOf
    <3>5. SocketRequest("read", fd) \in Pending /\ SocketRequest("write", fd) \in Pending
      BY <1>2, <2>1, <3>1, <3>4, SocketPending
    <3> QED
      BY <3>3, <3>4, <3>5 DEF FileAnswers
  <2> QED
    BY <2>2, <2>3
<1>8. CASE /\ ~Awaiting(fd, "WAITING_TO_READ") /\ ~Awaiting(fd, "WAITING_TO_ACCEPT")
           /\ ~Awaiting(fd, "WAITING_TO_CONNECT")
           /\ activeSockets' = [Answered(fd, "WAITING_TO_WRITE") EXCEPT ![fd].unsent = 0]
           /\ Reply(unsent, fd)
  <2>1. PICK st, none, s, t : /\ st = old.state \ {"WAITING_TO_WRITE"} /\ none = 0
                              /\ s = [old EXCEPT !.state = st] /\ t = [s EXCEPT !.unsent = none]
    OBVIOUS
  <2>2. "WAITING_TO_WRITE" \in old.state
    <3>1. old.state \cap {"WAITING_TO_READ", "WAITING_TO_ACCEPT", "WAITING_TO_CONNECT"} = {}
      BY <1>1, <1>8 DEF Awaiting
    <3> QED
      BY <1>2, <3>1 DEF Wishes
  <2>3. Reply(<<"socketError">>, fd)
    BY <1>1, <1>5, <1>8, <2>2 DEF Awaiting
  <2>4. Asked(st) = Asked(old.state) \ {"write"}
    BY <1>2, <2>1, <2>2, AskedLemma
  <2>5. t.state = st
    BY <1>2, <2>1 DEF SocketType
  <2>6. SocketBecomes(fd, t)
    <3>1. PICK answered : answered = Answered(fd, "WAITING_TO_WRITE")
      OBVIOUS
    <3>2. /\ DOMAIN answered = DOMAIN activeSockets /\ answered[fd] = s
          /\ \A f \in DOMAIN activeSockets \ {fd} : answered[f] = activeSockets[f]
      BY <1>1, <2>1, <3>1 DEF Answered
    <3>3. activeSockets' = [answered EXCEPT ![fd].unsent = none]
      BY <1>8, <2>1, <3>1
    <3> QED
      BY <2>1, <3>2, <3>3 DEF SocketBecomes
  <2> QED
    BY <1>1, <1>6, <2>2, <2>3, <2>4, <2>5, <2>6, HeardReply, OneAnswered
<1> QED
  BY <1>3, <1>4, <1>5, <1>7, <1>8 DEF HandleException

LEMMA FileAnswered ==
  ASSUME SocketsOK, MessagesOK, Pending \in SUBSET Requests, NEW fd \in Fds, FileAnswers(fd),
         Phase = "waiting", Phase' = "waiting", pc # "rewrite"
  PROVE  Promised /\ MessagesOK'
<1>1. Len(incomingMessages) \in Nat /\ Len(Unread) = Len(incomingMessages)
  BY UnreadLemma
<1>2. CASE Pending' = Pending /\ Heard(0)
  <2>1. Len(incomingMessages') = Len(incomingMessages) /\ MessagesOK'
    BY <1>1, <1>2 DEF Heard
  <2>2. Unseen
    BY <1>2, <2>1 DEF Unseen
  <2> QED
    BY <2>1, <2>2, StepUnseen
<1>3. ASSUME NEW p \in Purposes, SocketRequest(p, fd) \in Pending,
             Pending' = Pending \ {SocketRequest(p, fd)}, Heard(1)
      PROVE  Promised /\ MessagesOK'
  <2>1. Len(incomingMessages') = Len(incomingMessages) + 1 /\ MessagesOK'
    BY <1>1, <1>3 DEF Heard
  <2>2. PICK r : r = SocketRequest(p, fd)
    OBVIOUS
  <2>3. r \in Requests
    BY <1>3, <2>2
  <2> QED
    BY <1>3, <2>1, <2>2, <2>3, StepAnswers
<1>4. ASSUME Pending' = {r \in Pending : r[2] # <<"socket", fd>>},
             NEW p \in Purposes, SocketRequest(p, fd) \in Pending,
             \/ Heard(1)
             \/ Heard(2) /\ \E q \in Purposes \ {p} : SocketRequest(q, fd) \in Pending
      PROVE  Promised /\ MessagesOK'
  <2>1. PICK o, r : o = <<"socket", fd>> /\ r = SocketRequest(p, fd)
    OBVIOUS
  <2>2. o \in Promise!Objects /\ r \in Pending /\ r[2] = o
    BY <1>4, <2>1, RequestKinds DEF SocketRequest
  <2>3. PICK S : S = Promise!About(o) \cap Pending
    OBVIOUS
  <2>4. IsFiniteSet(S)
    <3>1. S \subseteq {SocketRequest("read", fd), SocketRequest("write", fd), SocketRequest("connect", fd)}
      <4>1. \A x \in Requests : x[2] = o => \E q \in Purposes : x = SocketRequest(q, fd)
        BY <2>1 DEF Requests, Timer, Process, Socket, SocketRequest, Purposes
      <4> QED
        BY <2>3, <4>1 DEF Promise!About, Purposes
    <3>2. \A a, b, d : IsFiniteSet({a, b, d})
      <4> TAKE a, b, d
      <4>1. IsFiniteSet({}) /\ IsFiniteSet({a}) 
        BY FS_EmptySet, FS_Singleton
      <4>2. IsFiniteSet({a} \cup {b})
        BY <4>1, FS_AddElement
      <4>3. IsFiniteSet(({a} \cup {b}) \cup {d})
        BY <4>2, FS_AddElement
      <4>4. ({a} \cup {b}) \cup {d} = {a, b, d}
        OBVIOUS
      <4> QED
        BY <4>3, <4>4
    <3> QED
      BY <3>1, <3>2, FS_Subset
  <2>5. /\ MessagesOK'
        /\ \/ Len(incomingMessages') = Len(incomingMessages) + 1
           \/ /\ Len(incomingMessages') = Len(incomingMessages) + 2
              /\ \E t \in Pending : t[2] = o /\ t # r
    <3>1. CASE Heard(1)
      BY <1>1, <3>1 DEF Heard
    <3>2. CASE Heard(2) /\ \E q \in Purposes \ {p} : SocketRequest(q, fd) \in Pending
      BY <1>1, <2>1, <3>2 DEF Heard, SocketRequest
    <3> QED
      BY <1>4, <3>1, <3>2
  <2>6. Pending' = {x \in Pending : x[2] # o}
    BY <1>4, <2>1
  <2> QED
    BY <1>1, <2>2, <2>3, <2>4, <2>5, <2>6, StepCloses
<1> QED
  BY <1>2, <1>3, <1>4 DEF FileAnswers

LEMMA FileCallbackPromised ==
  ASSUME Inv, MessagesOK, FileCallback
  PROVE  Promised /\ MessagesOK'
<1>1. SocketsOK /\ ThreadOK /\ Pending \in SUBSET Requests
  BY PendingTyped DEF Inv
<1>2. Others
  BY DEF FileCallback, processVars, Others, ArmedIn, WaitingIn
<1>3. PICK fd, event : fd = NextFile.fd /\ HandleFile(event)
  BY DEF FileCallback
<1>4. fd \in Fds /\ flags[fd] # {} /\ pc = "fds" /\ pc' = "fds"
  <2>1. pc = "fds" /\ UNCHANGED pc
    BY <1>3 DEF HandleFile
  <2> QED
    BY <1>1, <1>3, <2>1, HandledFile DEF ThreadOK
<1>5. fd \in DOMAIN activeSockets
  BY <1>1, <1>4 DEF SocketsOK, SocketAt
<1>6. \/ DoError(fd) \/ DoHungUp(fd)
      \/ DoRead(fd, flags[fd] \ {"READ"}) \/ DoWrite(fd, flags[fd] \ {"WRITE"})
  BY <1>3 DEF FileCallback
<1>7. CASE DoError(fd) \/ DoHungUp(fd)
  <2>1. PICK channels : HandleException(fd, channels)
    BY <1>7 DEF DoError, DoHungUp
  <2> QED
    BY <1>1, <1>2, <1>4, <1>5, <2>1, ExceptionAnswered, FileAnswered, PhaseLemma
<1>8. CASE DoRead(fd, flags[fd] \ {"READ"}) \/ DoWrite(fd, flags[fd] \ {"WRITE"})
  <2>1. PICK left : \/ ReadNow(fd, left) \/ ReadAccepted(fd, left)
                    \/ Connected(fd, left) \/ WriteRest(fd, left)
    BY <1>8 DEF DoRead, DoWrite
  <2>2. FileAnswers(fd)
    BY <1>1, <1>2, <1>5, <2>1, ReadAnswered, AcceptAnswered, ConnectAnswered, WriteAnswered
  <2> QED
    BY <1>1, <1>4, <2>2, FileAnswered, PhaseLemma
<1> QED
  BY <1>6, <1>7, <1>8

----------------------------------------------------------------------------
(* The steps between rewriting and waiting.                                *)
LEMMA StepMoves ==
  /\ Phase = "rewriting" /\ Phase' = "waiting" /\ Pending' = Pending /\ Len(incomingMessages') = 0 => Promised
  /\ Phase = "waiting" /\ Phase' = "rewriting" /\ Pending' = Pending
     /\ Len(incomingMessages') = Len(incomingMessages) => Promised
  /\ Phase = "waiting" /\ Phase' = "done" /\ Pending = {} /\ Pending' = Pending
     /\ Len(incomingMessages) = 0 /\ Len(incomingMessages') = Len(incomingMessages) => Promised
  /\ Phase # "done" /\ Phase' = "stopped" /\ Pending' = Pending
     /\ Len(incomingMessages') = Len(incomingMessages) => Promised
  /\ Phase = "stopped" /\ Phase' = "rewriting" /\ Pending' = Pending
     /\ Len(incomingMessages') = Len(incomingMessages) => Promised
BY DEF Promised, Promise!Next, Promise!Wait, Promise!Resume, Promise!Finish, Promise!Stop, Promise!Continue

LEMMA PendingKept == UNCHANGED <<timerMap, childProcesses, activeSockets>> => Pending' = Pending
BY PendingIs

Aside == UNCHANGED <<timerMap, childProcesses, activeSockets, incomingMessages>>
LEMMA AsideKeeps ==
  Aside => Pending' = Pending /\ Len(incomingMessages') = Len(incomingMessages)
BY PendingKept DEF Aside

LEMMA StepsAside ==
  /\ LimitReached \/ HandleInterrupt \/ WaitForEvents \/ EventLoopReturns \/ Continue => Aside
  /\ PollStep \/ Tick \/ ChildEvent \/ NetworkEvent \/ UserInterrupt \/ UNCHANGED vars => Aside
  /\ Tick \/ ChildEvent \/ NetworkEvent \/ UserInterrupt \/ UNCHANGED vars => UNCHANGED pc
<1>1. LimitReached \/ HandleInterrupt \/ WaitForEvents \/ EventLoopReturns \/ Continue => Aside
  BY DEF LimitReached, HandleInterrupt, WaitForEvents, EventLoopReturns, Continue, Aside,
         Elsewhere, managerVars, socketVars, processVars
<1>2. PollStep => Aside
  BY DEF PollStep, Aside, managerVars, socketVars, processVars
<1>3. Tick \/ ChildEvent \/ NetworkEvent \/ UserInterrupt \/ UNCHANGED vars => Aside /\ UNCHANGED pc
  BY DEF Tick, ChildEvent, NetworkEvent, UserInterrupt, Aside, vars, threadVars, managerVars,
         socketVars, processVars, contextVars
<1> QED
  BY <1>1, <1>2, <1>3

(* The event loop says that nothing pends when nothing does.               *)
LEMMA NothingPends ==
  ASSUME Inv, TurnOK, pc = "return", "NOTHING_PENDING" \in loop.status
  PROVE  Pending = {}
<1>1. active = <<>> /\ childRequests = <<>> /\ callbackMap = <<>>
  BY DEF TurnOK, Decided
<1>2. /\ Agree(callbackMap, CallbacksOf(timerMap)) /\ ToSet(childRequests) = Waiting
      /\ ToSet(active) = {fd \in Fds : flags[fd] # {}}
      /\ DOMAIN activeSockets \subseteq Fds
      /\ \A fd \in Fds : SocketAt(fd, activeSockets, chan, flags, context)
  BY DEF Inv, TimersOK, ChildrenOK, FilesOK, SocketsOK
<1>3. ToSet(<<>>) = {}
  BY EmptyList
<1>4. ArmedIn(timerMap) = {}
  <2>1. CallbacksOf(timerMap) = {}
    BY <1>1, <1>2, <1>3 DEF Agree
  <2> QED
    BY <2>1 DEF CallbacksOf, ArmedIn
<1>5. WaitingIn(childProcesses) = {}
  BY <1>1, <1>2, <1>3 DEF Waiting, WaitingIn
<1>6. Asking(activeSockets) = {}
  <2>1. ASSUME NEW fd \in DOMAIN activeSockets PROVE Asked(activeSockets[fd].state) = {}
    <3>1. Wishes(activeSockets[fd].state) = {}
      BY <1>1, <1>2, <1>3 DEF SocketAt
    <3>2. "READ" \notin Wishes(activeSockets[fd].state) /\ "WRITE" \notin Wishes(activeSockets[fd].state)
      BY <3>1
    <3>3. activeSockets[fd].state \cap {"WAITING_TO_READ", "WAITING_TO_ACCEPT"} = {}
          /\ activeSockets[fd].state \cap {"WAITING_TO_WRITE", "WAITING_TO_CONNECT"} = {}
      BY <3>2 DEF Wishes, Want
    <3> QED
      BY <3>3 DEF Asked
  <2> QED
    BY <2>1 DEF Asking
<1>7. PendingOf({}, {}, {}) = {}
  BY DEF PendingOf
<1> QED
  BY <1>4, <1>5, <1>6, <1>7, PendingIs

LEMMA MovesPromised ==
  ASSUME Inv, TurnOK, MessagesOK,
         TraversalEnds \/ HandleInterrupt \/ WaitForEvents \/ EventLoopReturns \/ LimitReached \/ Continue
  PROVE  Promised /\ MessagesOK'
<1>1. Len(<<>>) = 0
  BY EmptySeq
<1>2. CASE TraversalEnds
  <2>1. /\ pc = "rewrite" /\ pc' \in {"loop", "wait"} /\ incomingMessages' = <<>>
        /\ UNCHANGED <<timerMap, childProcesses, activeSockets>>
    BY <1>2 DEF TraversalEnds, EventLoop, Elsewhere, managerVars, socketVars, processVars
  <2>2. Phase = "rewriting" /\ Phase' = "waiting"
    BY <2>1, PhaseLemma
  <2> QED
    BY <1>1, <2>1, <2>2, PendingKept, MessagesKept, StepMoves
<1>3. ASSUME Aside, pc \in {"rewrite", "wait", "return", "stopped"}, pc' = pc \/ pc' = "stopped"
      PROVE  Promised /\ MessagesOK'
  <2>1. Pending' = Pending /\ Len(incomingMessages') = Len(incomingMessages) /\ UNCHANGED incomingMessages
    BY <1>3, AsideKeeps DEF Aside
  <2>2. Phase # "done" /\ (Phase' = Phase \/ Phase' = "stopped")
    BY <1>3, PhaseLemma
  <2> QED
    BY <2>1, <2>2, MessagesKept, StepMoves, StepUnseen DEF Unseen
<1>4. CASE HandleInterrupt \/ LimitReached
  <2>1. pc \in {"rewrite", "wait"} /\ (pc' = pc \/ pc' = "stopped")
    BY <1>4 DEF HandleInterrupt, LimitReached
  <2> QED
    BY <1>3, <1>4, <2>1, StepsAside
<1>5. CASE WaitForEvents
  <2>1. pc = "wait" /\ pc' = "loop"
    BY <1>5 DEF WaitForEvents, EventLoop
  <2>2. Phase = "waiting" /\ Phase' = "waiting"
    BY <2>1, PhaseLemma
  <2>3. Pending' = Pending /\ Len(incomingMessages') = Len(incomingMessages) /\ UNCHANGED incomingMessages
    BY <1>5, AsideKeeps, StepsAside DEF Aside
  <2> QED
    BY <2>2, <2>3, MessagesKept, StepUnseen DEF Unseen
<1>6. CASE Continue
  <2>1. pc = "stopped" /\ pc' = "rewrite"
    BY <1>6 DEF Continue
  <2>2. Phase = "stopped" /\ Phase' = "rewriting"
    BY <2>1, PhaseLemma
  <2>3. Pending' = Pending /\ Len(incomingMessages') = Len(incomingMessages) /\ UNCHANGED incomingMessages
    BY <1>6, AsideKeeps, StepsAside DEF Aside
  <2> QED
    BY <2>2, <2>3, MessagesKept, StepMoves
<1>7. CASE EventLoopReturns
  <2>1. pc = "return" /\ pc' \in {AfterEventLoop, "stopped"}
    BY <1>7 DEF EventLoopReturns
  <2>2. Pending' = Pending /\ Len(incomingMessages') = Len(incomingMessages) /\ UNCHANGED incomingMessages
    BY <1>7, AsideKeeps, StepsAside DEF Aside
  <2>3. AfterEventLoop \in {"rewrite", "done", "wait"}
    BY DEF AfterEventLoop
  <2>4. Phase = "waiting"
    BY <2>1, PhaseLemma
  <2>5. CASE pc' = "stopped"
    BY <1>3, <1>7, <2>1, <2>5, StepsAside
  <2>6. CASE pc' = "rewrite"
    <3>1. Phase' = "rewriting"
      BY <2>6, PhaseLemma
    <3> QED
      BY <2>2, <2>4, <3>1, MessagesKept, StepMoves
  <2>7. CASE pc' = "wait"
    <3>1. Phase' = "waiting"
      BY <2>7, PhaseLemma
    <3> QED
      BY <2>2, <2>4, <3>1, MessagesKept, StepUnseen DEF Unseen
  <2>8. CASE pc' = "done"
    <3>1. "NOTHING_PENDING" \in loop.status /\ "EVENT_HANDLED" \notin loop.status
      BY <2>1, <2>8 DEF AfterEventLoop
    <3>2. Pending = {}
      BY <2>1, <3>1, NothingPends
    <3>3. incomingMessages = <<>>
      BY <2>1, <3>1 DEF TurnOK
    <3>4. Len(incomingMessages) = 0 /\ Phase' = "done"
      BY <1>1, <2>8, <3>3, PhaseLemma
    <3> QED
      BY <2>2, <2>4, <3>2, <3>4, MessagesKept, StepMoves
  <2> QED
    BY <2>1, <2>3, <2>5, <2>6, <2>7, <2>8
<1> QED
  BY <1>2, <1>4, <1>5, <1>6, <1>7

(* The steps of the loop, and of the rest of the world, are not seen.      *)
LEMMA WorldUnseen ==
  ASSUME ThreadOK, MessagesOK,
         PollStep \/ Tick \/ ChildEvent \/ NetworkEvent \/ UserInterrupt \/ UNCHANGED vars
  PROVE  Promised /\ MessagesOK'
<1>1. Pending' = Pending /\ Len(incomingMessages') = Len(incomingMessages) /\ UNCHANGED incomingMessages
  BY AsideKeeps, StepsAside DEF Aside
<1>2. Phase' = Phase
  <2>1. CASE PollStep
    <3>1. ThreadSteps \/ FilesReady(Revents) \/ PollTimedOut(Revents)
      BY <2>1 DEF PollStep
    <3>2. pc \notin {"rewrite", "waitpid", "stopped", "done"} /\ pc' \notin {"rewrite", "waitpid", "stopped", "done"}
      BY <3>1 DEF ThreadSteps, ReadClock, CallbacksHandled, Decide, BlockSigchld, CollectFiles,
                  PollInterrupted, SkipFile, FilesHandled, ChildrenHandled, Unblock, Again,
                  FilesReady, PollTimedOut
    <3> QED
      BY <3>2, PhaseLemma
  <2>2. CASE UNCHANGED pc
    BY <2>2 DEF Phase
  <2> QED
    BY <2>1, <2>2, StepsAside
<1> QED
  BY <1>1, <1>2, MessagesKept, StepUnseen DEF Unseen

(* A context ends: what outlives it are its clients that still connect.    *)
LEMMA StepRestarts ==
  Phase \in {"stopped", "done"} /\ Phase' = "rewriting" /\ Len(incomingMessages') = 0
  /\ Pending' = Pending \cap {<<"connect", Socket(fd)>> : fd \in Fds} => Promised
BY DEF Promised, Promise!Next, Promise!Restart

LEMMA Connecting ==
  ASSUME NEW st \in States
  PROVE  /\ "WAITING_TO_CONNECT" \in st => Asked(st) = {"connect"}
         /\ "WAITING_TO_CONNECT" \notin st => "connect" \notin Asked(st)
<1>1. "WAITING_TO_CONNECT" \in st => st = {"WAITING_TO_CONNECT"}
  BY StatesLemma
<1>2. "WAITING_TO_CONNECT" \notin st => "connect" \notin Asked(st)
  BY DEF Asked
<1> QED
  BY <1>1, <1>2, AskedLemma

LEMMA NewContextPromised ==
  ASSUME Inv, MessagesOK, NewContext
  PROVE  Promised /\ MessagesOK'
<1>1. TimersOK /\ ChildrenOK /\ SocketsOK /\ FilesOK /\ ObjectsOK
  BY DEF Inv
<1>2. /\ DOMAIN timerMap' = {} /\ DOMAIN childProcesses' = {} /\ Visible(activeSockets') = {}
  BY <1>1, TimersCleanedUp, ChildrenCleanedUp, SocketsCleanedUp
<1>3. ArmedIn(timerMap') = {} /\ WaitingIn(childProcesses') = {}
  BY <1>2 DEF ArmedIn, WaitingIn
<1>4. PICK was, is : was = activeSockets /\ is = activeSockets'
  OBVIOUS
<1>5. /\ DOMAIN is = DOMAIN was \ Visible(was)
      /\ \A fd \in DOMAIN is : is[fd] = was[fd]
  <2>1. {fd \in DOMAIN activeSockets : <<"socket", fd>> \in externalObjects} = Visible(was)
    BY <1>1, <1>4 DEF ObjectsOK, Socket, Timer, Process, Visible
  <2>2. CleanUpSockets(Visible(was))
    BY <2>1 DEF NewContext
  <2> QED
    BY <1>4, <2>2 DEF CleanUpSockets
<1>6. \A fd \in DOMAIN was : was[fd].state \in States
  BY <1>1, <1>4 DEF SocketsOK, SocketAt, SocketGood
<1>7. ASSUME NEW p, NEW fd
      PROVE  <<p, fd>> \in Asking(is) <=> <<p, fd>> \in Asking(was) /\ p = "connect"
  <2>1. /\ <<p, fd>> \in Asking(is) <=> p \in Purposes /\ fd \in DOMAIN is /\ p \in Asked(is[fd].state)
        /\ <<p, fd>> \in Asking(was) <=> p \in Purposes /\ fd \in DOMAIN was /\ p \in Asked(was[fd].state)
    BY AskingOf
  <2>2. fd \in DOMAIN was /\ "WAITING_TO_CONNECT" \in was[fd].state =>
          fd \in DOMAIN is /\ is[fd] = was[fd] /\ Asked(was[fd].state) = {"connect"}
    BY <1>5, <1>6, Connecting DEF Visible
  <2>3. fd \in DOMAIN was /\ "WAITING_TO_CONNECT" \notin was[fd].state =>
          fd \notin DOMAIN is /\ "connect" \notin Asked(was[fd].state)
    BY <1>5, <1>6, Connecting DEF Visible
  <2>4. fd \in DOMAIN is => fd \in DOMAIN was
    BY <1>5
  <2> QED
    BY <2>1, <2>2, <2>3, <2>4
<1>8. Pending' = Pending \cap {<<"connect", Socket(fd)>> : fd \in Fds}
  <2>1. PICK ids, pids : ids = ArmedIn(timerMap) /\ pids = WaitingIn(childProcesses)
    OBVIOUS
  <2>2. Pending = PendingOf(ids, pids, Asking(was)) /\ Pending' = PendingOf({}, {}, Asking(is))
    BY <1>3, <1>4, <2>1, PendingIs
  <2>3. /\ \A x \in Asking(was) : x = <<x[1], x[2]>> /\ x[2] \in Fds
        /\ \A x \in Asking(is) : x = <<x[1], x[2]>>
    BY <1>1, <1>4, AskingOf, AskingTyped
  <2>4. \A x : x \in Asking(is) <=> x \in Asking(was) /\ x[1] = "connect"
    BY <1>7, <2>3
  <2>5. \A r : r \in PendingOf({}, {}, Asking(is)) <=>
                 \E x \in Asking(was) : x[1] = "connect" /\ r = <<x[1], <<"socket", x[2]>>>>
    BY <2>4 DEF PendingOf
  <2>6. ASSUME NEW r
        PROVE  r \in PendingOf(ids, pids, Asking(was)) /\ r \in {<<"connect", Socket(fd)>> : fd \in Fds} <=>
                 \E x \in Asking(was) : x[1] = "connect" /\ r = <<x[1], <<"socket", x[2]>>>>
    BY <2>3 DEF PendingOf, Socket
  <2> QED
    BY <2>2, <2>5, <2>6
<1>9. pc \in {"stopped", "done"} /\ pc' = "rewrite" /\ incomingMessages' = <<>>
  BY DEF NewContext
<1>10. Len(<<>>) = 0
  BY EmptySeq
<1> QED
  BY <1>8, <1>9, <1>10, PhaseLemma, MessagesKept, StepRestarts

----------------------------------------------------------------------------
PromiseInv == Inv /\ TurnOK /\ MessagesOK

LEMMA PromiseInitial == Init => PromiseInv /\ Promise!Init
<1> SUFFICES ASSUME Init PROVE PromiseInv /\ Promise!Init
  OBVIOUS
<1>1. Inv /\ TurnOK
  BY InvInitial, TurnInitial
<1>2. /\ pc = "rewrite" /\ incomingMessages = <<>> /\ timerMap = <<>>
      /\ childProcesses = <<>> /\ activeSockets = <<>>
  BY DEF Init, ThreadInit, ContextInit, TimersInit, SocketsInit, ProcessesInit
<1>3. MessagesOK
  <2>1. <<>> \in Seq({})
    BY EmptySeq
  <2> QED
    BY <1>2, <2>1 DEF MessagesOK
<1>4. Pending = {}
  <2>1. DOMAIN <<>> = {}
    OBVIOUS
  <2>2. ArmedIn(timerMap) = {} /\ WaitingIn(childProcesses) = {} /\ Asking(activeSockets) = {}
    BY <1>2, <2>1 DEF ArmedIn, WaitingIn, Asking
  <2>3. PendingOf({}, {}, {}) = {}
    BY DEF PendingOf
  <2> QED
    BY <2>2, <2>3, PendingIs
<1>5. Len(incomingMessages) = 0 /\ Phase = "rewriting"
  BY <1>2, EmptySeq, PhaseLemma
<1> QED
  BY <1>1, <1>3, <1>4, <1>5 DEF PromiseInv, Promise!Init

LEMMA PromiseStep == PromiseInv /\ [Next]_vars => PromiseInv' /\ Promised
<1> SUFFICES ASSUME PromiseInv, [Next]_vars PROVE PromiseInv' /\ Promised
  OBVIOUS
<1>1. Inv /\ TurnOK /\ MessagesOK /\ ThreadOK
  BY DEF PromiseInv, Inv
<1>2. Inv' /\ TurnOK'
  BY <1>1, InvStep, TurnStep
<1>3. Promised /\ MessagesOK'
  <2>1. CASE SendMessage \/ WaitChecked
    BY <1>1, <2>1, TimerMessagePromised, SocketMessagePromised, CreateProcessPromised,
       ProcessMessagesPromised DEF SendMessage
  <2>2. CASE TraversalEnds \/ HandleInterrupt \/ WaitForEvents \/ EventLoopReturns \/ LimitReached \/ Continue
    BY <1>1, <2>2, MovesPromised
  <2>3. CASE TimerCallback \/ FileCallback \/ ChildCallback
    BY <1>1, <2>3, TimerCallbackPromised, FileCallbackPromised, ChildCallbackPromised
  <2>4. CASE NewContext
    BY <1>1, <2>4, NewContextPromised
  <2>5. CASE PollStep \/ Tick \/ ChildEvent \/ NetworkEvent \/ UserInterrupt \/ UNCHANGED vars
    BY <1>1, <2>5, WorldUnseen
  <2> QED
    BY <2>1, <2>2, <2>3, <2>4, <2>5 DEF Next, Program
<1> QED
  BY <1>2, <1>3 DEF PromiseInv

(* Every request to an external object is answered or given up as          *)
(* ExternalRequests says, and external rewriting ends by itself only when  *)
(* nothing pends: every step of the managers, of the event loop and of     *)
(* the two loops of ObjectSystemRewritingContext is one of those promised, *)
(* or is not seen by the objects.                                          *)
THEOREM PromiseKept == Spec => KeepsPromise
<1>1. Init => PromiseInv /\ Promise!Init
  BY PromiseInitial
<1>2. PromiseInv /\ [Next]_vars => PromiseInv' /\ [Promise!Next]_(Promise!vars)
  BY PromiseStep DEF Promised
<1> QED
  BY <1>1, <1>2, PTL DEF Spec, KeepsPromise, Promise!Spec
=============================================================================
