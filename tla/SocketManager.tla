--------------------------- MODULE SocketManager ----------------------------
(***************************************************************************)
(* The TCP sockets, class SocketManagerSymbol (src/src/ObjectSystem/       *)
(* socketStuff.cc and socketAsync.cc), a client of the event loop, and the *)
(* kernel's side of them as far as the code can tell.                      *)
(*                                                                         *)
(* An ActiveSocket holds at most one request that waits to read (receive,  *)
(* acceptClient) and one that waits to write (send, createClientTcpSocket),*)
(* told by the bits of its state.  AnsweredStill, CloseWatched, WriteOnce  *)
(* and CleanUpNoSockets are mutants of the operator that follows them.     *)
(***************************************************************************)
EXTENDS RewritingContext

CONSTANT MaxRoom  \* what the buffer of the kernel takes; a text is one unit longer
ASSUME SocketAssumption == MaxRoom \in Nat \ {0} /\ Fds \subseteq Nat /\ IsFiniteSet(Fds)

VARIABLES
  activeSockets,  \* descriptor -> [state, readOnly, seenEOF, context, unsent]
  chan            \* descriptor -> the kernel's socket
socketVars == <<activeSockets, chan>>

(* The bits of state: NOMINAL is the empty set.                            *)
Bits == {"WAITING_TO_CONNECT", "WAITING_TO_READ", "WAITING_TO_WRITE", "LISTENING",
         "WAITING_TO_ACCEPT"}

(* The kernel's socket.  data: characters, or a client, can be taken.      *)
(* peer: the other end writes and reads, only reads, or is gone.  broken:  *)
(* an error was detected.  room: how much can be written.                  *)
Kinds == {"free", "connecting", "refused", "stream", "listener"}
Channel(kind) == [kind |-> kind, data |-> FALSE, peer |-> "open", broken |-> FALSE,
                  room |-> IF kind = "stream" THEN MaxRoom ELSE 0]
SocketsInit == activeSockets = <<>> /\ chan = [f \in Fds |-> Channel("free")]

FreeFds == {f \in Fds : chan[f].kind = "free"}
LowestOf(fds) == CHOOSE f \in fds : \A g \in fds : f <= g

----------------------------------------------------------------------------
(* The kernel.                                                             *)
Revents == [fd \in Fds |->
  LET c == chan[fd]
  IN  (IF "READ" \in flags[fd] /\ (c.data \/ c.peer # "open") THEN {"IN"} ELSE {})
      \cup (IF "WRITE" \in flags[fd] /\ (c.room > 0 \/ c.kind = "refused") THEN {"OUT"} ELSE {})
      \cup (IF c.broken THEN {"ERR"} ELSE {})
      \cup (IF c.peer = "gone" THEN {"HUP"} ELSE {})]

Read(fd) ==
  IF chan[fd].broken THEN "error"
  ELSE IF chan[fd].data THEN "characters"
  ELSE IF chan[fd].peer # "open" THEN "eof" ELSE "again"

(* The network, and the program at the other end.                          *)
SocketEvent(fd) ==
  LET was == chan[fd]
      Becomes(c) == c # was /\ chan' = [chan EXCEPT ![fd] = c]
  IN  \/ /\ was.kind = "connecting"
         /\ \/ Becomes(Channel("stream"))
            \/ \E seen \in BOOLEAN : Becomes([was EXCEPT !.kind = "refused", !.broken = seen])
      \/ /\ was.kind \in {"stream", "listener"} /\ ~was.broken
         /\ \/ was.peer = "open" /\ Becomes([was EXCEPT !.data = TRUE])
            \* a packet with a wrong checksum, a client that gave up
            \/ Becomes([was EXCEPT !.data = FALSE])
            \/ Becomes([was EXCEPT !.broken = TRUE])
      \/ /\ was.kind = "stream" /\ ~was.broken
         /\ \/ was.peer # "gone" /\ Becomes([was EXCEPT !.room = MaxRoom])
            \/ was.peer = "open" /\ Becomes([was EXCEPT !.peer = "eof"])
            \/ Becomes([was EXCEPT !.peer = "gone"])

----------------------------------------------------------------------------
ActiveSocket(state, readOnly) ==
  [state |-> state, readOnly |-> readOnly, seenEOF |-> FALSE, context |-> NoContext, unsent |-> 0]
Known(sockets, fd, s) == [f \in DOMAIN sockets \cup {fd} |-> IF f = fd THEN s ELSE sockets[f]]
Forgotten(sockets, fd) == [f \in DOMAIN sockets \ {fd} |-> sockets[f]]
Awaiting(fd, bit) == bit \in activeSockets[fd].state
Waits(fd, bit) ==
  [activeSockets EXCEPT ![fd].state = @ \cup {bit}, ![fd].context = context]
AnsweredStill(fd, bit) == activeSockets
Answered(fd, bit) == [activeSockets EXCEPT ![fd].state = @ \ {bit}]
Took(fd) == chan' = [chan EXCEPT ![fd].data = FALSE]

(* closedSocketReply.  The flags are cleared with the socket.              *)
CloseWatched(fd) ==
  /\ chan' = [chan EXCEPT ![fd] = Channel("free")]
  /\ activeSockets' = Forgotten(activeSockets, fd)
  /\ Reply(<<"closedSocket">>, fd) /\ UNCHANGED <<flags, active>>
CloseSocketNow(fd) ==
  /\ chan' = [chan EXCEPT ![fd] = Channel("free")]
  /\ activeSockets' = Forgotten(activeSockets, fd)
  /\ ClearFlags(fd)
  /\ Reply(<<"closedSocket">>, fd)

(* A descriptor that no ActiveSocket was left with after an error.         *)
Refuse(fd) ==
  /\ chan' = [chan EXCEPT ![fd] = Channel("free")]
  /\ activeSockets' = Forgotten(activeSockets, fd)
  /\ Reply(<<"socketError">>, fd)

----------------------------------------------------------------------------
(* The messages.  Those that are declined have no action.                  *)

(* connect() succeeds at once, fails at once, or takes its time.           *)
CreateClientTcpSocket ==
  /\ FreeFds # {}
  /\ LET fd == LowestOf(FreeFds)
     IN  \/ /\ activeSockets' = Known(activeSockets, fd, ActiveSocket({}, FALSE))
            /\ chan' = [chan EXCEPT ![fd] = Channel("stream")]
            /\ Reply(<<"createdSocket">>, fd)
            /\ UNCHANGED <<flags, active>>
         \/ /\ activeSockets' = Known(activeSockets, fd,
                 [ActiveSocket({"WAITING_TO_CONNECT"}, FALSE) EXCEPT !.context = context])
            /\ chan' = [chan EXCEPT ![fd] = Channel("connecting")]
            /\ WantTo("WRITE", fd)
            /\ Reply(<<>>, fd)
         \/ Reply(<<"socketError">>, fd) /\ UNCHANGED <<activeSockets, chan, flags, active>>

CreateServerTcpSocket ==
  /\ FreeFds # {}
  /\ LET fd == LowestOf(FreeFds)
     IN  \/ /\ activeSockets' = Known(activeSockets, fd, ActiveSocket({"LISTENING"}, FALSE))
            /\ chan' = [chan EXCEPT ![fd] = Channel("listener")]
            /\ Reply(<<"createdSocket">>, fd)
         \/ Reply(<<"socketError">>, fd) /\ UNCHANGED <<activeSockets, chan>>
  /\ UNCHANGED <<flags, active>>

(* accept(): the new descriptor may be refused by fcntl().                 *)
AcceptNow(fd, sockets) ==
  \/ /\ FreeFds # {}
     /\ LET new == LowestOf(FreeFds)
        IN  /\ activeSockets' = Known(sockets, new, ActiveSocket({}, FALSE))
            /\ chan' = [chan EXCEPT ![fd].data = FALSE, ![new] = Channel("stream")]
            /\ Reply(<<"acceptedClient">>, new)
  \/ activeSockets' = sockets /\ Took(fd) /\ Reply(<<"socketError">>, fd)

AcceptClient(fd) ==
  /\ fd \in DOMAIN activeSockets /\ activeSockets[fd].state = {"LISTENING"}
  /\ \/ Read(fd) = "characters" /\ AcceptNow(fd, activeSockets) /\ UNCHANGED <<flags, active>>
     \/ /\ Read(fd) = "again"
        /\ activeSockets' = [activeSockets EXCEPT ![fd].state = {"WAITING_TO_ACCEPT"},
                                                  ![fd].context = context]
        /\ WantTo("READ", fd)
        /\ Reply(<<>>, fd) /\ UNCHANGED chan
     \/ /\ Read(fd) \in {"error", "eof"}
        /\ Reply(<<"socketError">>, fd) /\ UNCHANGED <<activeSockets, chan, flags, active>>

(* send: as much as there is room for; the rest waits.  The empty text     *)
(* shuts down the write half.                                              *)
WriteFails(fd) == chan[fd].broken \/ chan[fd].peer = "gone"
Write(fd, n, sockets) ==
  \E written \in 0 .. n :
    /\ written > 0 <=> chan[fd].room > 0
    /\ written <= chan[fd].room
    /\ activeSockets' = [sockets EXCEPT ![fd].unsent = n - written]
    /\ chan' = [chan EXCEPT ![fd].room = @ - written]

MaySend(fd) ==
  /\ fd \in DOMAIN activeSockets /\ ~activeSockets[fd].readOnly
  /\ activeSockets[fd].state \subseteq {"WAITING_TO_READ"}

SendSocket(fd) ==
  /\ MaySend(fd)
  /\ IF WriteFails(fd)
     THEN Reply(<<"socketError">>, fd) /\ UNCHANGED <<activeSockets, chan, flags, active>>
     ELSE /\ \/ /\ Write(fd, MaxRoom + 1, Waits(fd, "WAITING_TO_WRITE"))
                /\ activeSockets'[fd].unsent > 0
                /\ WantTo("WRITE", fd) /\ Reply(<<>>, fd)
             \/ \* a text that fits
                /\ chan[fd].room > 0
                /\ chan' = [chan EXCEPT ![fd].room = @ - 1]
                /\ Reply(<<"sent">>, fd) /\ UNCHANGED <<activeSockets, flags, active>>

ShutdownSocket(fd) ==
  /\ MaySend(fd)
  /\ IF WriteFails(fd)
     THEN Reply(<<"socketError">>, fd) /\ UNCHANGED activeSockets
     ELSE activeSockets' = [activeSockets EXCEPT ![fd].readOnly = TRUE] /\ Reply(<<"sent">>, fd)
  /\ UNCHANGED <<chan, flags, active>>

(* receive: what there is to read; the end of the file is reported once    *)
(* and closes the socket the second time.                                  *)
ReceiveSocket(fd) ==
  /\ fd \in DOMAIN activeSockets /\ activeSockets[fd].state \subseteq {"WAITING_TO_WRITE"}
  /\ \/ /\ Read(fd) = "characters"
        /\ Took(fd) /\ Reply(<<"received">>, fd) /\ UNCHANGED <<activeSockets, flags, active>>
     \/ /\ Read(fd) = "eof" /\ ~activeSockets[fd].seenEOF
        /\ activeSockets' = [activeSockets EXCEPT ![fd].seenEOF = TRUE]
        /\ Reply(<<"received">>, fd) /\ UNCHANGED <<chan, flags, active>>
     \/ /\ Read(fd) = "again"
        /\ activeSockets' = Waits(fd, "WAITING_TO_READ")
        /\ WantTo("READ", fd) /\ Reply(<<>>, fd) /\ UNCHANGED chan
     \/ /\ Read(fd) = "error" \/ (Read(fd) = "eof" /\ activeSockets[fd].seenEOF)
        /\ CloseSocketNow(fd)

CloseSocket(fd) ==
  fd \in DOMAIN activeSockets /\ CloseSocketNow(fd)

----------------------------------------------------------------------------
(* The callbacks.  left are the flags after the event was taken off them.  *)
ReadNow(fd, left) ==
  /\ Awaiting(fd, "WAITING_TO_READ")
  /\ \/ /\ Read(fd) = "characters"
        /\ Took(fd) /\ activeSockets' = Answered(fd, "WAITING_TO_READ")
        /\ Wanted(left, fd) /\ Reply(<<"received">>, fd)
     \/ /\ Read(fd) = "eof" /\ ~activeSockets[fd].seenEOF
        /\ activeSockets' = [Answered(fd, "WAITING_TO_READ") EXCEPT ![fd].seenEOF = TRUE]
        /\ Wanted(left, fd) /\ Reply(<<"received">>, fd) /\ UNCHANGED chan
     \/ /\ Read(fd) \in {"error", "again"} \/ (Read(fd) = "eof" /\ activeSockets[fd].seenEOF)
        /\ CloseSocketNow(fd)

ReadAccepted(fd, left) ==
  /\ Awaiting(fd, "WAITING_TO_ACCEPT")
  /\ LET listening == [activeSockets EXCEPT ![fd].state = {"LISTENING"}]
     IN  IF Read(fd) = "characters" THEN AcceptNow(fd, listening)
         ELSE activeSockets' = listening /\ Reply(<<"socketError">>, fd) /\ UNCHANGED chan
  /\ Wanted(left, fd)

DoRead(fd, left) == ReadNow(fd, left) \/ ReadAccepted(fd, left)

Connected(fd, left) ==
  /\ Awaiting(fd, "WAITING_TO_CONNECT")
  /\ IF chan[fd].kind = "stream" /\ ~chan[fd].broken
     THEN activeSockets' = [activeSockets EXCEPT ![fd].state = {}]
          /\ Reply(<<"createdSocket">>, fd) /\ UNCHANGED chan
     ELSE Refuse(fd)
  /\ Wanted(left, fd)

(* Unlinked when POLLOUT was taken off, and linked again by wantTo.        *)
WriteOnce(fd, left) == Wanted(left, fd)
WantAgain(fd, left) ==
  /\ UNCHANGED flags
  /\ active' = IF left = {} THEN <<fd>> \o Dropped(active, {fd}) ELSE active
WriteRest(fd, left) ==
  /\ Awaiting(fd, "WAITING_TO_WRITE")
  /\ IF WriteFails(fd)
     THEN activeSockets' = [Answered(fd, "WAITING_TO_WRITE") EXCEPT ![fd].unsent = 0]
          /\ Wanted(left, fd) /\ Reply(<<"socketError">>, fd) /\ UNCHANGED chan
     ELSE \/ /\ Write(fd, activeSockets[fd].unsent, Answered(fd, "WAITING_TO_WRITE"))
             /\ activeSockets'[fd].unsent = 0
             /\ Wanted(left, fd) /\ Reply(<<"sent">>, fd)
          \/ /\ Write(fd, activeSockets[fd].unsent, activeSockets)
             /\ activeSockets'[fd].unsent > 0
             /\ WantAgain(fd, left)
             /\ Reply(<<>>, fd)

DoWrite(fd, left) == Connected(fd, left) \/ WriteRest(fd, left)

(* handleException: all wishes were taken off already.  channels is what   *)
(* is left of the kernel's sockets when asking for the error clears it.    *)
HandleException(fd, channels) ==
  /\ fd \in DOMAIN activeSockets
  /\ IF Awaiting(fd, "WAITING_TO_ACCEPT")
     THEN activeSockets' = Answered(fd, "WAITING_TO_ACCEPT")
          /\ Reply(<<"socketError">>, fd) /\ chan' = channels
     ELSE IF Awaiting(fd, "WAITING_TO_CONNECT") THEN Refuse(fd)
     ELSE LET unsent == IF Awaiting(fd, "WAITING_TO_WRITE") THEN <<"socketError">> ELSE <<>>
          IN  IF Awaiting(fd, "WAITING_TO_READ")
              THEN /\ chan' = [chan EXCEPT ![fd] = Channel("free")]
                   /\ activeSockets' = Forgotten(activeSockets, fd)
                   /\ Reply(unsent \o <<"closedSocket">>, fd)
              ELSE /\ activeSockets' = [Answered(fd, "WAITING_TO_WRITE") EXCEPT ![fd].unsent = 0]
                   /\ Reply(unsent, fd) /\ chan' = channels
  /\ ClearFlags(fd)

DoError(fd) ==
  HandleException(fd, [chan EXCEPT ![fd].broken = FALSE,
                                   ![fd].peer = IF chan[fd].kind = "stream" THEN "gone" ELSE @])
DoHungUp(fd) == HandleException(fd, chan)

(* cleanUp of all sockets of a context.                                    *)
CleanUpNoSockets(fds) == UNCHANGED <<activeSockets, chan, flags, active>>
CleanUpSockets(fds) ==
  /\ activeSockets' = [f \in DOMAIN activeSockets \ fds |-> activeSockets[f]]
  /\ chan' = [f \in Fds |-> IF f \in fds THEN Channel("free") ELSE chan[f]]
  /\ flags' = [f \in Fds |-> IF f \in fds THEN {} ELSE flags[f]]
  /\ active' = Dropped(active, fds)
=============================================================================
