----------------------------- MODULE AlarmList -----------------------------
(***************************************************************************)
(* The alarms of the HAL (alt_alarm_start.c, alt_tick.c, alt_llist.h): a   *)
(* doubly linked list that the tick walks at interrupt level, making the   *)
(* callbacks, while those callbacks start and stop alarms themselves.      *)
(***************************************************************************)
EXTENDS Naturals

CONSTANTS
    Names,        \* the alarms
    List,         \* alt_alarm_list, the head of the list
    MaxPeriod,    \* bound on the delays the callers ask for
    TICK_RATE     \* ticks per second once there is a clock

ASSUME ListAssumption ==
    /\ List \notin Names
    /\ MaxPeriod \in Nat /\ TICK_RATE \in Nat \ {0}

Links == Names \cup {List}

VARIABLES
    tick_rate,    \* _alt_tick_rate, 0 before the clock is there
    nticks,       \* _alt_nticks
    next,         \* the links; an alarm out of the list points to itself
    previous,
    time,         \* the tick an alarm is due in
    walk,         \* alt_tick: "off", at the "loop" test, in a "callback"
    alarm,        \* the entry the walk is at
    following     \* and the next one, read before its callback

alarmVars == <<tick_rate, nticks, next, previous, time, walk, alarm, following>>
listVars == <<next, previous>>
walkVars == <<walk, alarm, following>>

AlarmInit ==
    /\ tick_rate = 0
    /\ nticks = 0
    /\ next = [l \in Links |-> l]
    /\ previous = [l \in Links |-> l]
    /\ time = [a \in Names |-> 0]
    /\ walk = "off" /\ alarm = List /\ following = List
----------------------------------------------------------------------------
Listed(a) == next[a] # a

alt_llist_insert(entry) ==
    /\ next' = [next EXCEPT ![entry] = next[List], ![List] = entry]
    /\ previous' = [previous EXCEPT ![entry] = List, ![next[List]] = entry]

\* A faulty variant of alt_llist_remove: the removed entry keeps its links.
alt_llist_remove_KeepsLinks(entry) ==
    /\ next' = [next EXCEPT ![previous[entry]] = next[entry]]
    /\ previous' = [previous EXCEPT ![next[entry]] = previous[entry]]

\* The removed entry points to itself, so that removing it again is harmless.
alt_llist_remove(entry) ==
    /\ next' = [next EXCEPT ![previous[entry]] = next[entry],
                            ![entry] = entry]
    /\ previous' = [previous EXCEPT ![next[entry]] = previous[entry],
                                    ![entry] = entry]

\* alt_sysclk_init: only the first driver that calls it becomes the clock.
SysclkInit ==
    /\ tick_rate = 0
    /\ tick_rate' = TICK_RATE
    /\ UNCHANGED <<nticks, listVars, time, walkVars>>

\* A faulty variant of alt_alarm_start: the tick that is running counts.
alt_alarm_start_OneShort(a, delay) ==
    /\ ~Listed(a)
    /\ IF tick_rate = 0
         THEN UNCHANGED <<listVars, time>>
         ELSE /\ time' = [time EXCEPT ![a] = delay + nticks]
              /\ alt_llist_insert(a)
    /\ UNCHANGED <<tick_rate, nticks, walkVars>>

\* Refused with ENOTSUP while there is no clock.  Interrupts are off inside,
\* so that the tick sees all of it or nothing.  The caller does not start an
\* alarm that is in the list: that would close the list on itself.
alt_alarm_start(a, delay) ==
    /\ ~Listed(a)
    /\ IF tick_rate = 0
         THEN UNCHANGED <<listVars, time>>
         ELSE /\ time' = [time EXCEPT ![a] = delay + nticks + 1]
              /\ alt_llist_insert(a)
    /\ UNCHANGED <<tick_rate, nticks, walkVars>>

alt_alarm_stop(a) ==
    /\ alt_llist_remove(a)
    /\ UNCHANGED <<tick_rate, nticks, time, walkVars>>
----------------------------------------------------------------------------
(***************************************************************************)
(* alt_tick, at interrupt level.                                           *)
(***************************************************************************)
Tick ==
    /\ walk = "off"
    /\ nticks' = nticks + 1
    /\ walk' = "loop"
    /\ alarm' = next[List]
    /\ UNCHANGED <<tick_rate, listVars, time, following>>

\* The entry after it is read first: the callback may take this one out.
Visit ==
    /\ walk = "loop" /\ alarm # List
    /\ IF time[alarm] <= nticks
         THEN walk' = "callback" /\ following' = next[alarm] /\ UNCHANGED alarm
         ELSE alarm' = next[alarm] /\ UNCHANGED <<walk, following>>
    /\ UNCHANGED <<tick_rate, nticks, listVars, time>>

\* A faulty variant of CallbackReturns: the next entry is read after the call.
CallbackReturns_ReadsLate(again) ==
    /\ walk = "callback"
    /\ IF again = 0
         THEN alt_llist_remove(alarm) /\ UNCHANGED time
         ELSE time' = [time EXCEPT ![alarm] = @ + again] /\ UNCHANGED listVars
    /\ walk' = "loop"
    /\ alarm' = next'[alarm]
    /\ following' = List
    /\ UNCHANGED <<tick_rate, nticks>>

\* The callback returns the ticks to its next call; zero ends the alarm.
CallbackReturns(again) ==
    /\ walk = "callback"
    /\ IF again = 0
         THEN alt_llist_remove(alarm) /\ UNCHANGED time
         ELSE time' = [time EXCEPT ![alarm] = @ + again] /\ UNCHANGED listVars
    /\ walk' = "loop"
    /\ alarm' = following
    /\ following' = List
    /\ UNCHANGED <<tick_rate, nticks>>

WalkEnds ==
    /\ walk = "loop" /\ alarm = List
    /\ walk' = "off"
    /\ UNCHANGED <<tick_rate, nticks, listVars, time, alarm, following>>

\* What a callback may do before it returns: start another alarm, stop any
\* but the one the walk goes to next.  (Stopping that one makes the walk
\* follow an entry that points to itself, for ever.)
CallbackCalls ==
    /\ walk = "callback"
    /\ \E a \in Names :
          \/ a # alarm /\ \E delay \in 0..MaxPeriod : alt_alarm_start(a, delay)
          \/ a # following /\ alt_alarm_stop(a)

AlarmWalk ==
    \/ Visit
    \/ CallbackCalls
    \/ \E again \in 0..MaxPeriod : CallbackReturns(again)
    \/ WalkEnds
============================================================================
