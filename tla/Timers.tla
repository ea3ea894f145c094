------------------------------- MODULE Timers -------------------------------
(***************************************************************************)
(* Sleeping: the timer interrupt's count of jiffies, the milliseconds that *)
(* are computed from it in Word values, and the list of pending timers,    *)
(* one for each target and ordered by it, with a queue of processes each.  *)
(*                                                                         *)
(* Both counts wrap around.  The milliseconds do so first, as the count is *)
(* multiplied by 1000 before it is divided: after 71 minutes the time of   *)
(* day starts again at 0 and, until the jiffies wrap too, 48 days later,   *)
(* everybody who sleeps returns at once.                                   *)
(*                                                                         *)
(* The interrupt comes here wherever a call has interrupts enabled.  How   *)
(* disabling them protects the rest is Scheduler's subject.                *)
(***************************************************************************)
EXTENDS SimpleQueue, SequencesExt

CONSTANTS Oscillator,    \* FREQ, 1193182 per second
          Requested,     \* interrupts per second that kernelMain asks for: 1000
          Second,        \* milliseconds in a second: 1000
          Word,          \* 2^32
          Sleeper,       \* processes, identified by positive numbers
          MaxSleep       \* bound on how long a program asks to sleep

VARIABLE clock

(* What the timer is programmed with is a whole number, in 16 bits, and    *)
(* the frequency that comes out is 1000, not something near it.            *)
Divisor == Oscillator \div Requested
Hz == Oscillator \div Divisor

ASSUME TimersAssumption ==
    /\ Oscillator \in Nat \ {0} /\ Requested \in 1 .. Oscillator /\ Divisor < 2 ^ 16
    /\ Second = Hz /\ Word \in Nat \ {0} /\ MaxSleep \in Nat
    /\ Sleeper \subseteq Nat \ {Nobody} /\ IsFiniteSet(Sleeper)

(* "asked" is who is about to sleep, until which millisecond; for the      *)
(* property "slept" says who ought to be woken at which jiffy, in the      *)
(* order in which they went to sleep, "woken" whom the last tick has made  *)
(* ready.                                                                  *)
Jiffy == 0 .. Word - 1
NoClock == [jiffies |-> 0, timers |-> << >>, asked |-> {},
            slept |-> [j \in Jiffy |-> << >>], woken |-> << >>]

Millis(jiffies) == ((jiffies * Second) % Word) \div Hz

TargetOf(millis) == ((millis * Hz) % Word) \div Second

\* Mutant: the search stops at the first timer that is not earlier.
JoinNear(timers, target, p) ==
    LET k == Min({i \in 1 .. Len(timers) + 1 : i \in DOMAIN timers => timers[i].target >= target})
    IN  IF k \in DOMAIN timers THEN [timers EXCEPT ![k].waiting = AddTail(@, p)]
        ELSE Append(timers, [target |-> target, waiting |-> AddTail(EmptyQueue, p)])

(* p waits on the timer of its target, or on a new one before all later.   *)
Join(timers, target, p) ==
    LET k == Min({i \in 1 .. Len(timers) + 1 : i \in DOMAIN timers => timers[i].target >= target})
    IN  IF k \in DOMAIN timers /\ timers[k].target = target
        THEN [timers EXCEPT ![k].waiting = AddTail(@, p)]
        ELSE (SubSeq(timers, 1, k - 1)
                \o << [target |-> target, waiting |-> AddTail(EmptyQueue, p)] >>)
                \o SubSeq(timers, k, Len(timers))

(* What a caller may expect while the milliseconds have not wrapped.       *)
Due(millis) ==
    IF (clock.jiffies + millis) * Hz < Word THEN clock.jiffies + millis
    ELSE TargetOf((Millis(clock.jiffies) + millis) % Word)

(* sleepFor reads the time before sleepUntil disables interrupts: the time *)
(* that is asked for may have come when it is compared.                    *)
SleepFor(p, millis) ==
    /\ \A j \in Jiffy : p \notin Range(clock.slept[j])
    /\ \A a \in clock.asked : a.who # p
    /\ clock' = [clock EXCEPT
           !.asked = @ \union {[who |-> p, due |-> Due(millis),
                                until |-> (Millis(clock.jiffies) + millis) % Word]}]

SleepUntil(a) ==
    LET target == TargetOf(a.until)
    IN  clock' = [clock EXCEPT
            !.asked = @ \ {a},
            !.timers = IF target > clock.jiffies THEN Join(@, target, a.who) ELSE @,
            !.slept[a.due] = IF a.due > clock.jiffies THEN Append(@, a.who) ELSE @]

(* Pit::handler: only the first timer is looked at.                        *)
Tick ==
    LET now == (clock.jiffies + 1) % Word
        rings == clock.timers # << >> /\ Head(clock.timers).target = now
    IN  clock' = [jiffies |-> now, asked |-> clock.asked,
                  timers |-> IF rings THEN Tail(clock.timers) ELSE clock.timers,
                  slept |-> [clock.slept EXCEPT ![now] = << >>],
                  woken |-> IF rings THEN Drained(Head(clock.timers).waiting) ELSE << >>]

TimersTypeOK ==
    /\ clock.jiffies \in Jiffy /\ clock.slept \in [Jiffy -> Seq(Sleeper)]
    /\ \A i \in DOMAIN clock.timers :
          /\ clock.timers[i].target \in Nat
          /\ DOMAIN clock.timers[i].waiting.node \subseteq Sleeper
    /\ clock.woken \in Seq(Sleeper)
    /\ \A a \in clock.asked : a.who \in Sleeper /\ a.until \in Jiffy

(* Each tick wakes exactly those whose time has come, not one before or    *)
(* after it, in the order in which they went to sleep: for any order of    *)
(* targets and after any number of wraps (pit.cc:23-41, process.cc:401-463,*)
(* queue.h:24-50).                                                         *)
SleepersWakeOnTime ==
    [][clock'.jiffies # clock.jiffies => clock'.woken = clock.slept[clock'.jiffies]]_clock
=============================================================================
