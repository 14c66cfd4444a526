---------------------------- MODULE TimeManager -----------------------------
(***************************************************************************)
(* The timers, class TimeManagerSymbol (src/src/ObjectSystem/              *)
(* timeActions.cc and timeManagerSymbol.cc), a client of the event loop.   *)
(* StartUncancelled and CleanUpNothing are mutants of the operator that    *)
(* follows them.                                                           *)
(***************************************************************************)
EXTENDS RewritingContext

CONSTANTS
  MaxTimers,      \* bound of the number of timers
  Periods         \* the values a timer is started with

ASSUME TimerAssumption == MaxTimers \in Nat /\ Periods \subseteq Nat \ {0}

VARIABLE timerMap \* number -> [at, period, context]

Stopped == 0      \* a callbackRequestTime whose tv_sec is 0
TimersInit == timerMap = <<>>

(* A value of timerMap, or of another map, changed, added or removed.      *)
With(map, key, value) == [k \in DOMAIN map \cup {key} |-> IF k = key THEN value ELSE map[k]]
Without(map, key) == [k \in DOMAIN map \ {key} |-> map[k]]

(* findUnusedId: the first number that is not the next key of the map.     *)
FindUnusedId == CHOOSE id \in 0 .. Cardinality(DOMAIN timerMap) :
                  id \notin DOMAIN timerMap /\ \A k \in 0 .. id - 1 : k \in DOMAIN timerMap

Armed(id) == timerMap[id].at # Stopped
Callbacks(ids) == {[at |-> timerMap[id].at, id |-> id] : id \in {k \in ids : Armed(k)}}
WithoutCallback(id) ==
  IF Armed(id) THEN Cancelled(callbackMap, timerMap[id].at, id) ELSE callbackMap

----------------------------------------------------------------------------
(* The messages.                                                           *)
CreateTimer ==
  /\ Cardinality(DOMAIN timerMap) < MaxTimers
  /\ timerMap' = With(timerMap, FindUnusedId, [at |-> Stopped, period |-> 0, context |-> NoContext])
  /\ Reply(<<"createdTimer">>, FindUnusedId)
  /\ UNCHANGED callbackMap

(* A timer that is running is started again: its callback is replaced.     *)
Started(id, at, periodic, nanoseconds, map) ==
  /\ timerMap' = [timerMap EXCEPT ![id] =
       [at |-> at, period |-> IF periodic THEN nanoseconds ELSE 0, context |-> context]]
  /\ callbackMap' = Requested(map, at, id)
StartUncancelled(id, periodic, nanoseconds) ==
  /\ id \in DOMAIN timerMap
  /\ Started(id, time + nanoseconds, periodic, nanoseconds, callbackMap)
  /\ Reply(<<"startedTimer">>, id)
StartTimer(id, periodic, nanoseconds) ==
  /\ id \in DOMAIN timerMap
  /\ Started(id, time + nanoseconds, periodic, nanoseconds, WithoutCallback(id))
  /\ Reply(<<"startedTimer">>, id)

StopTimer(id) ==
  /\ id \in DOMAIN timerMap
  /\ callbackMap' = WithoutCallback(id)
  /\ timerMap' = [timerMap EXCEPT ![id].at = Stopped]
  /\ Reply(<<"stoppedTimer">>, id)

DeleteTimer(id) ==
  /\ id \in DOMAIN timerMap
  /\ callbackMap' = WithoutCallback(id)
  /\ timerMap' = Without(timerMap, id)
  /\ Reply(<<"deletedTimer">>, id)

(* doCallback: a periodic timer is due one period after it was due, which  *)
(* may have passed already.                                                *)
TimeOut(id, map) ==
  /\ LET t == timerMap[id]
         at == IF t.period = 0 THEN Stopped ELSE t.at + t.period
     IN  /\ timerMap' = [timerMap EXCEPT ![id].at = at]
         /\ callbackMap' = IF t.period = 0 THEN map ELSE Requested(map, at, id)
  /\ Reply(<<"timeOut">>, id)

(* cleanUp of all timers of a context: their callbacks are cancelled.      *)
CleanUpNothing(ids) == UNCHANGED <<timerMap, callbackMap>>
CleanUpTimers(ids) ==
  /\ timerMap' = [id \in DOMAIN timerMap \ ids |-> timerMap[id]]
  /\ callbackMap' = Dropped(callbackMap, Callbacks(ids))
=============================================================================
