-------------------------- MODULE ExternalRequests --------------------------
(***************************************************************************)
(* What external rewriting promises to the objects of a configuration,     *)
(* without timers, signals or files.  Requests, each about an external     *)
(* object, are made while rewriting and pend until they are answered while *)
(* waiting for events, once, or given up with the object or the context,   *)
(* but for some that outlive it.                                           *)
(* External rewriting ends by itself only when nothing is pending and all  *)
(* answers were read.                                                      *)
(***************************************************************************)
EXTENDS Integers, FiniteSets

CONSTANTS
  Requests,       \* pairs of a purpose and an object
  Recurrent,      \* the requests that may be answered over and over
  Lingering       \* the requests that outlive their context

VARIABLES pending, unread, phase
vars == <<pending, unread, phase>>

About(o) == {r \in Requests : r[2] = o}
Objects == {r[2] : r \in Requests}

Init == pending = {} /\ unread = 0 /\ phase = "rewriting"

(* A message to an object makes one more request of it, or takes some      *)
(* back, and may be answered at once.  What was unread is read.            *)
Message(o) ==
  /\ phase = "rewriting"
  /\ pending' \in {pending \ S : S \in SUBSET About(o)} \cup {pending \cup {r} : r \in About(o)}
  /\ unread' \in 0 .. unread + 1
  /\ UNCHANGED phase
(* To a manager, or no message at all.                                     *)
Rewrite == phase = "rewriting" /\ unread' \in {0, 1} /\ UNCHANGED <<pending, phase>>

Wait == phase = "rewriting" /\ phase' = "waiting" /\ unread' = 0 /\ UNCHANGED pending
Resume == phase = "waiting" /\ phase' = "rewriting" /\ UNCHANGED <<pending, unread>>

Answer(r) ==
  /\ phase = "waiting" /\ r \in pending
  /\ pending' = pending \ {r} \/ (r \in Recurrent /\ pending' = pending)
  /\ unread' = unread + 1
  /\ UNCHANGED phase
(* The object goes away: one of its requests is answered, and any other is *)
(* answered or given up.                                                   *)
Close(o) ==
  /\ phase = "waiting" /\ About(o) \cap pending # {}
  /\ pending' = pending \ About(o)
  /\ unread' \in unread + 1 .. unread + Cardinality(About(o) \cap pending)
  /\ UNCHANGED phase

Finish ==
  /\ phase = "waiting" /\ pending = {} /\ unread = 0
  /\ phase' = "done"
  /\ UNCHANGED <<pending, unread>>
Stop == phase # "done" /\ phase' = "stopped" /\ UNCHANGED <<pending, unread>>
Continue == phase = "stopped" /\ phase' = "rewriting" /\ UNCHANGED <<pending, unread>>
Restart ==
  /\ phase \in {"stopped", "done"} /\ phase' = "rewriting"
  /\ pending' = pending \cap Lingering /\ unread' = 0

Next == Rewrite \/ Wait \/ Resume \/ Finish \/ Stop \/ Continue \/ Restart
        \/ (\E o \in Objects : Message(o) \/ Close(o))
        \/ (\E r \in Requests : Answer(r))
Spec == Init /\ [][Next]_vars
=============================================================================
