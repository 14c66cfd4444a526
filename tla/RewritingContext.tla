-------------------------- MODULE RewritingContext --------------------------
(***************************************************************************)
(* What an ObjectSystemRewritingContext                                    *)
(* (src/src/ObjectSystem/objectSystemRewritingContext.cc) keeps for the    *)
(* managers of external objects: the replies it has to read and the        *)
(* external objects it owns.  A command has one context.                   *)
(***************************************************************************)
EXTENDS PseudoThread

VARIABLES
  context,          \* the rewriting context, a number
  incomingMessages, \* the replies it has not read yet, about their objects
  externalObjects   \* its external objects
contextVars == <<context, incomingMessages, externalObjects>>

NoContext == 0
ContextInit == context = 1 /\ incomingMessages = <<>> /\ externalObjects = {}

(* The replies: bufferMessage, addExternalObject and deleteExternalObject. *)
Appears(message, object) ==
  CASE message = "createdTimer" -> {<<"timer", object>>}
    [] message \in {"createdSocket", "acceptedClient"} -> {<<"socket", object>>}
    [] message = "createdProcess" -> {<<"process", object>>}
    [] OTHER -> {}
Disappears(message, object) ==
  CASE message = "deletedTimer" -> {<<"timer", object>>}
    [] message = "closedSocket" -> {<<"socket", object>>}
    [] message = "exited" -> {<<"process", object>>}
    [] OTHER -> {}

(* A traversal of the configuration reads the replies made before it;      *)
(* callbacks come between two traversals.                                  *)
Unread == IF pc = "rewrite" THEN <<>> ELSE incomingMessages
ReplyWith(messages, object, others) ==
  /\ incomingMessages' = Unread \o [i \in DOMAIN messages |-> <<messages[i], object>>]
  /\ externalObjects' =
       (externalObjects \cup others \cup UNION {Appears(messages[i], object) : i \in DOMAIN messages})
       \ UNION {Disappears(messages[i], object) : i \in DOMAIN messages}
Reply(messages, object) == ReplyWith(messages, object, {})
=============================================================================
