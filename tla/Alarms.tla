------------------------------- MODULE Alarms -------------------------------
(***************************************************************************)
(* What the alarm calls of the HAL promise: an alarm that was started is   *)
(* called in the tick it is due, once, before the next tick is counted,    *)
(* and after that again as many ticks later as its callback asked for.     *)
(***************************************************************************)
EXTENDS Naturals

CONSTANTS
    Names,        \* the alarms of the program and its drivers
    MaxPeriod     \* the longest delay asked for

VARIABLES
    now,          \* ticks counted
    due           \* the tick each alarm is due in, Off when it is not started

Off == 0
----------------------------------------------------------------------------
Init ==
    /\ now = 0
    /\ due = [a \in Names |-> Off]

Start(a, nticks) ==
    /\ due[a] = Off
    /\ due' = [due EXCEPT ![a] = now + nticks + 1]
    /\ UNCHANGED now

Stop(a) ==
    /\ due' = [due EXCEPT ![a] = Off]
    /\ UNCHANGED now

Call(a) ==
    /\ due[a] = now
    /\ \E again \in 1..MaxPeriod :
          due' = [due EXCEPT ![a] = now + again]
    /\ UNCHANGED now

\* Time does not go on while a call is owed.
Tick ==
    /\ \A a \in Names : due[a] # Off => due[a] > now
    /\ now' = now + 1
    /\ UNCHANGED due

Next ==
    \/ \E a \in Names : \/ \E nticks \in 0..MaxPeriod : Start(a, nticks)
                        \/ Stop(a)
                        \/ Call(a)
    \/ Tick

Spec == Init /\ [][Next]_<<now, due>>
============================================================================
