---------------------------- MODULE SystemClock ----------------------------
(***************************************************************************)
(* Interrupts and time on the Nios V: the trap entry with the handlers of  *)
(* the interrupt lines (alt_irq_handler.c, alt_iic_isr_register.c) and the *)
(* machine timer (mtimer.c), whose 64 bit counter and compare register the *)
(* 32 bit processor accesses word by word while the counter runs.  The     *)
(* timer's interrupt is the tick of AlarmList.                             *)
(***************************************************************************)
EXTENDS AlarmList

CONSTANTS
    Lines,        \* the interrupt lines' bits of mie; the lowest is served first
    WORD,         \* 2^32 in the code: the values of one word
    DELTA,        \* MTIMECMP_DELTA_AMT: counts of the timer in a tick
    MaxTime,      \* bound on the timer's count
    MaxRaises     \* bound on the interrupts of the lines

TIMER == 7       \* NIOSV_TIMER_IRQ, the timer's bit of mie

\* The bound keeps the counter out of the last WORD counts, where even the
\* compare value that stands for "never" is reached.
ASSUME ClockAssumption ==
    /\ Lines \subseteq 16..31
    /\ {WORD, DELTA} \subseteq Nat \ {0} /\ {MaxTime, MaxRaises} \subseteq Nat
    /\ MaxTime + DELTA < (WORD - 1) * WORD

VARIABLES
    mtime,        \* the counter
    mtimecmp,     \* the compare register: its two words
    highbits, lowbits,
    asked,        \* history: the counter when the routine began to read it
    timer,        \* where alt_niosv_timer_sc_isr, or the timer's start, is
    irqs_on,      \* the processor's global enable, mstatus.MIE
    mie,          \* the enabled sources: lines and TIMER
    mip,          \* the lines that ask for service
    handlers,     \* the lines that have a handler in alt_irq
    trap,         \* "none", the "timer" or the "lines" are being served
    active,       \* alt_irq_handler's copy of the pending lines
    registering,  \* where alt_iic_isr_register is
    raises        \* interrupts of the lines so far

timerVars == <<mtime, mtimecmp, highbits, lowbits, asked, timer>>
lineVars == <<mip, handlers, registering, raises>>
trapVars == <<irqs_on, mie, trap, active>>
clockVars == <<alarmVars, timerVars, lineVars, trapVars>>

ClockInit ==
    /\ AlarmInit
    /\ mtime = 0 /\ mtimecmp = [high |-> 0, low |-> 0]
    /\ highbits = 0 /\ lowbits = 0 /\ asked = 0 /\ timer = "off"
    /\ irqs_on = TRUE /\ mie = {} /\ trap = "none" /\ active = {}
    /\ mip = {} /\ handlers = {} /\ registering = <<"no">> /\ raises = 0

\* The program, or the start-up code before it, is between two of its calls.
ProgramRuns == trap = "none" /\ timer = "off" /\ registering = <<"no">>
----------------------------------------------------------------------------
(***************************************************************************)
(* The environment: time passes and the devices raise their lines.         *)
(***************************************************************************)
TimePasses ==
    /\ mtime < MaxTime
    /\ mtime' = mtime + 1
    /\ UNCHANGED <<alarmVars, mtimecmp, highbits, lowbits, asked, timer,
                   lineVars, trapVars>>

Raise(l) ==
    /\ raises < MaxRaises /\ l \notin mip
    /\ mip' = mip \cup {l} /\ raises' = raises + 1
    /\ UNCHANGED <<alarmVars, timerVars, handlers, registering, trapVars>>
----------------------------------------------------------------------------
(***************************************************************************)
(* mtimer.c.  The start of the timer and its interrupt routine both read   *)
(* the counter and set the compare register; the first then enables the    *)
(* interrupt, the second counts a tick.                                    *)
(***************************************************************************)
TimerRuns(at) == timer = at /\ (TIMER \in mie => trap = "timer")
                            /\ (TIMER \notin mie => trap = "none")

ReadHigh ==
    /\ TimerRuns("high")
    /\ highbits' = mtime \div WORD
    /\ asked' = mtime
    /\ timer' = "low"
    /\ UNCHANGED <<mtime, mtimecmp, lowbits>>

ReadLow ==
    /\ TimerRuns("low")
    /\ lowbits' = mtime % WORD
    /\ timer' = "again"
    /\ UNCHANGED <<mtime, mtimecmp, highbits, asked>>

\* A faulty variant of ReadAgain: the two words are taken as they come.
ReadAgain_Never ==
    /\ TimerRuns("again")
    /\ timer' = "never"
    /\ UNCHANGED <<mtime, mtimecmp, highbits, lowbits, asked>>

\* If the high word has moved meanwhile the two do not belong together.
ReadAgain ==
    /\ TimerRuns("again")
    /\ timer' = IF mtime \div WORD # highbits THEN "high" ELSE "never"
    /\ UNCHANGED <<mtime, mtimecmp, highbits, lowbits, asked>>

\* alt_niosv_mtimecmp_set(curr_time + MTIMECMP_DELTA_AMT), three writes
curr_time == highbits * WORD + lowbits

SetNever ==
    /\ TimerRuns("never")
    /\ mtimecmp' = [mtimecmp EXCEPT !.high = WORD - 1]
    /\ timer' = "setLow"
    /\ UNCHANGED <<mtime, highbits, lowbits, asked>>

SetLow ==
    /\ TimerRuns("setLow")
    /\ mtimecmp' = [mtimecmp EXCEPT !.low = (curr_time + DELTA) % WORD]
    /\ timer' = "setHigh"
    /\ UNCHANGED <<mtime, highbits, lowbits, asked>>

SetHigh ==
    /\ TimerRuns("setHigh")
    /\ mtimecmp' = [mtimecmp EXCEPT !.high = (curr_time + DELTA) \div WORD]
    /\ timer' = "set"
    /\ UNCHANGED <<mtime, highbits, lowbits, asked>>

AccessTimer ==
    /\ ReadHigh \/ ReadLow \/ ReadAgain \/ SetNever \/ SetLow \/ SetHigh
    /\ UNCHANGED <<alarmVars, lineVars, trapVars>>

TimerDone ==
    /\ timer' = "off"
    /\ highbits' = 0 /\ lowbits' = 0 /\ asked' = 0
    /\ UNCHANGED <<mtime, mtimecmp>>

\* INTEL_NIOSV_M_INIT: the clock gets its rate, then the timer is started.
StartClock ==
    /\ ProgramRuns
    /\ SysclkInit
    /\ timer' = "high"
    /\ UNCHANGED <<mtime, mtimecmp, highbits, lowbits, asked, lineVars, trapVars>>

EnableTimer ==
    /\ TimerRuns("set") /\ trap = "none"
    /\ mie' = mie \cup {TIMER}
    /\ TimerDone
    /\ UNCHANGED <<alarmVars, lineVars, irqs_on, trap, active>>

CountTick ==
    /\ TimerRuns("set") /\ trap = "timer"
    /\ Tick
    /\ TimerDone
    /\ UNCHANGED <<lineVars, trapVars>>
----------------------------------------------------------------------------
(***************************************************************************)
(* handle_trap and alt_irq_handler.  Interrupts are off in a trap.         *)
(***************************************************************************)
TimerPending == mtime >= mtimecmp.high * WORD + mtimecmp.low
LinesPending == mip \cap mie

TakeTimer ==
    /\ irqs_on /\ trap = "none" /\ TIMER \in mie /\ TimerPending
    /\ irqs_on' = FALSE /\ trap' = "timer"
    /\ timer' = "high"
    /\ UNCHANGED <<alarmVars, mtime, mtimecmp, highbits, lowbits, asked,
                   lineVars, mie, active>>

WalkAlarms ==
    /\ trap = "timer" /\ timer = "off"
    /\ AlarmWalk
    /\ UNCHANGED <<timerVars, lineVars, trapVars>>

TakeLines ==
    /\ irqs_on /\ trap = "none" /\ LinesPending # {}
    /\ irqs_on' = FALSE /\ trap' = "lines"
    /\ active' = LinesPending
    /\ UNCHANGED <<alarmVars, timerVars, lineVars, mie>>

\* The handler of the first active line quiets it; then the lines are read
\* again, until none is left.
ServeLine ==
    /\ trap = "lines" /\ active # {}
    /\ mip' = mip \ {CHOOSE l \in active : \A k \in active : l <= k}
    /\ active' = mip' \cap mie
    /\ UNCHANGED <<alarmVars, timerVars, handlers, registering, raises,
                   irqs_on, mie, trap>>

\* mret turns the interrupts on again
TrapReturns ==
    /\ \/ trap = "lines" /\ active = {}
       \/ trap = "timer" /\ timer = "off" /\ walk = "off"
    /\ irqs_on' = TRUE /\ trap' = "none"
    /\ UNCHANGED <<alarmVars, timerVars, lineVars, mie, active>>
----------------------------------------------------------------------------
(***************************************************************************)
(* alt_iic_isr_register, with a handler or with NULL, and the alarm calls. *)
(* The latter are one step, for the interrupts are off while they look at  *)
(* the list.                                                               *)
(***************************************************************************)
\* A faulty variant of Register: the interrupts stay on.
Register_Unlocked(l, isr) ==
    /\ ProgramRuns
    /\ registering' = <<"table", l, isr>>
    /\ UNCHANGED <<alarmVars, timerVars, mip, handlers, raises, trapVars>>

Register(l, isr) ==
    /\ ProgramRuns
    /\ irqs_on' = FALSE
    /\ registering' = <<"table", l, isr>>
    /\ UNCHANGED <<alarmVars, timerVars, mip, handlers, raises, mie, trap, active>>

At(step) == registering[1] = step /\ trap = "none"

RegisterHandler ==
    /\ At("table")
    /\ LET l == registering[2] IN
         handlers' = IF registering[3] THEN handlers \cup {l} ELSE handlers \ {l}
    /\ registering' = [registering EXCEPT ![1] = "mask"]
    /\ UNCHANGED <<alarmVars, timerVars, mip, raises, trapVars>>

RegisterMask ==
    /\ At("mask")
    /\ LET l == registering[2] IN
         mie' = IF registering[3] THEN mie \cup {l} ELSE mie \ {l}
    /\ registering' = [registering EXCEPT ![1] = "restore"]
    /\ UNCHANGED <<alarmVars, timerVars, mip, handlers, raises, irqs_on, trap, active>>

RegisterDone ==
    /\ At("restore")
    /\ irqs_on' = TRUE
    /\ registering' = <<"no">>
    /\ UNCHANGED <<alarmVars, timerVars, mip, handlers, raises, mie, trap, active>>

ProgramAlarms ==
    /\ ProgramRuns
    /\ \E a \in Names : \/ \E delay \in 0..MaxPeriod : alt_alarm_start(a, delay)
                        \/ alt_alarm_stop(a)
    /\ UNCHANGED <<timerVars, lineVars, trapVars>>
----------------------------------------------------------------------------
Program ==
    \/ \E l \in Lines, isr \in BOOLEAN : Register(l, isr)
    \/ RegisterHandler \/ RegisterMask \/ RegisterDone
    \/ StartClock \/ EnableTimer
    \/ ProgramAlarms

Trap == TakeTimer \/ CountTick \/ WalkAlarms \/ TakeLines \/ ServeLine \/ TrapReturns

Environment == TimePasses \/ \E l \in Lines : Raise(l)

ClockNext == Program \/ AccessTimer \/ Trap \/ Environment

\* A trap goes on to its end: its code, and the callbacks it runs, return.
TrapGoesOn ==
    \/ AccessTimer \/ CountTick \/ ServeLine \/ TrapReturns
    \/ /\ WalkAlarms
       /\ ~CallbackCalls

Spec == ClockInit /\ [][ClockNext]_clockVars /\ WF_clockVars(TrapGoesOn)
----------------------------------------------------------------------------
\* The links of the list agree both ways and make one ring that holds the head
\* and every alarm that does not point to itself, whoever started or stopped
\* what, when, and however often.
ListIsOneRing ==
    /\ \A l \in Links : previous[next[l]] = l /\ next[previous[l]] = l
    /\ \A part \in SUBSET Links :
          List \in part /\ (\A l \in part : next[l] \in part)
             => \A a \in Names \ part : ~Listed(a)

\* An alarm is called in the tick it is due, once, before time goes on; the
\* walk of the list implements that although its callbacks change the list.
Promise == INSTANCE Alarms WITH
    now <- nticks, due <- [a \in Names |-> IF Listed(a) THEN time[a] ELSE 0]

AlarmsOnTime == Promise!Spec

\* What the routine takes for the time is a time the counter showed while it
\* read it, although it reads two halves of a counter that runs; so the clock is
\* never fast, and never sleeps longer than a tick after it was set.
ClockKeepsTime ==
    /\ timer \in {"never", "setLow", "setHigh", "set"} => curr_time \in asked..mtime
    /\ nticks * DELTA <= mtime
    /\ TIMER \in mie /\ timer = "off" =>
          mtimecmp.high * WORD + mtimecmp.low <= mtime + DELTA

\* A line is served only by a handler that is there: none is called while
\* alt_iic_isr_register has replaced only half of it.
ServedByHandlers == trap = "lines" => active \subseteq handlers

\* The program gets the processor back after every interrupt.
TrapsReturn == trap # "none" ~> trap = "none"
============================================================================
