----------------------------- MODULE CyclicTimer -----------------------------
(***************************************************************************)
(* The measuring loop of one timer thread of cyclictest (timerthread() in  *)
(* rt-tests-2.10/src/cyclictest/cyclictest.c) against the clock and the    *)
(* kernel timer that wakes it: how `now', `next' and `diff' follow each    *)
(* other when the thread can be preempted between any two statements.      *)
(*                                                                         *)
(* A normalised timespec is an integer number of nanoseconds, with tv_sec  *)
(* and tv_nsec its quotient and remainder by NSEC_PER_SEC; tsnorm after an *)
(* addition keeps it normalised, and tsgreater is the order.  tv_sec is    *)
(* taken to fit the int that calcdiff casts it to.  The clock ticks        *)
(* between any two steps of the thread.  The kernel side is external:      *)
(* clock_nanosleep returns once its time has come, and a POSIX interval    *)
(* timer queues one signal and counts the expirations that found it still  *)
(* pending as overruns.                                                    *)
(***************************************************************************)
EXTENDS Integers

CONSTANTS
    Modes,     \* how the thread may wait, see below
    interval,  \* par->interval
    Ahead,     \* how far globalt may lie in the future (--secaligned)
    NSEC_PER_SEC, NSEC_PER_USEC, \* 1000000000 and 1000 (scaled down)
    Use_nsecs, \* values of use_nsecs (-N): subset of BOOLEAN
    W,         \* number of values of uint64_t
    min_init,  \* stat->min before the first sample (1000000)
    Horizon,   \* bound: last instant of the clock
    Delays     \* bounds on the time between waking up and reading the clock

ASSUME TimerAssumption ==
    /\ Modes \subseteq {"abstime", "reltime", "cyclic", "cyclic_rel"}
    /\ interval \in Nat \ {0}
    /\ Ahead \in Nat
    /\ Use_nsecs \subseteq BOOLEAN
    /\ NSEC_PER_USEC \in Nat \ {0} /\ NSEC_PER_SEC \in Nat \ {0}
    /\ NSEC_PER_SEC % NSEC_PER_USEC = 0
    /\ Horizon \in Nat
    /\ Delays \subseteq Nat
    /\ min_init \in Nat
    /\ W \in Nat /\ W > 2 * (Horizon + Ahead + interval)

VARIABLES
    mode,     \* par->mode and par->timermode, chosen once:
              \*   "abstime"    clock_nanosleep(TIMER_ABSTIME)
              \*   "reltime"    clock_nanosleep(TIMER_RELTIME) or nanosleep
              \*   "cyclic"     POSIX timer (-x), armed with TIMER_ABSTIME
              \*   "cyclic_rel" POSIX timer (-x -r), armed with TIMER_RELTIME
    use_nsecs, \* chosen once: latencies in nanoseconds, not microseconds
    delay,    \* environment, chosen once: bound on waking up to reading
    clock,    \* the clock par->clock
    pc,       \* control point
    now, next, diff, \* locals of timerthread
    min, max, \* stat->min, stat->max
    base,     \* history: the time from which the periods are counted
    sampled,  \* history: end of the last period measured
    woken,    \* when the wait of this period returned
    until,    \* kernel: next expiration of the timer, or end of the sleep
    overrun   \* kernel: what timer_getoverrun will return

fixed == <<mode, use_nsecs, delay>>
hist == <<base, sampled>>
vars == <<fixed, clock, pc, now, next, diff, min, max, hist, woken, until, overrun>>

(* The int64_t result of calcdiff is stored in a uint64_t. *)
U64_signed(x) == x \* mutant: diff is declared int64_t
U64(x) == x % W

(* And a long that gets a uint64_t value reads it as two's complement. *)
ToLong(u) == IF 2 * u >= W THEN u - W ELSE u

ByTimer == mode \in {"cyclic", "cyclic_rel"} \* MODE_CYCLIC

Init ==
    /\ mode \in Modes /\ use_nsecs \in Use_nsecs /\ delay \in Delays
    /\ clock = 0 /\ pc = "start"
    /\ now = 0 /\ next = 0 /\ diff = 0 /\ base = 0 /\ sampled = 0
    /\ min = min_init /\ max = 0
    /\ woken = 0 /\ until = 0 /\ overrun = 0

(* Time passes, whatever the thread is about to do next. *)
Tick ==
    /\ clock < Horizon
    /\ pc = "read" => clock < woken + delay
    /\ clock' = clock + 1
    /\ UNCHANGED <<fixed, pc, now, next, diff, min, max, hist, woken, until, overrun>>

(* now is the clock, or the common start time of -A and --secaligned; the   *)
(* first period ends one interval later.                                    *)
Start ==
    /\ pc = "start"
    /\ \E t \in clock .. clock + Ahead :
        /\ base' = t /\ sampled' = t
        /\ now' = t
        /\ next' = t + interval
    /\ pc' = IF ByTimer THEN "settime" ELSE "wait"
    /\ UNCHANGED <<fixed, clock, diff, min, max, woken, until, overrun>>

(* timer_settime: the first expiration is next, or one interval from here. *)
SetTime ==
    /\ pc = "settime"
    /\ until' = IF mode = "cyclic_rel" THEN clock + interval ELSE next
    /\ pc' = "wait"
    /\ UNCHANGED <<fixed, clock, now, next, diff, min, max, hist, woken, overrun>>

(* sigwait returns: the expirations since the one that queued the signal    *)
(* are its overruns, and the timer runs on from the first one in the future.*)
Sigwait ==
    /\ ByTimer /\ pc = "wait"
    /\ clock >= until
    /\ overrun' = (clock - until) \div interval
    /\ until' = until + (overrun' + 1) * interval
    /\ woken' = clock
    /\ pc' = "read"
    /\ UNCHANGED <<fixed, clock, now, next, diff, min, max, hist>>

(* clock_nanosleep(TIMER_ABSTIME, &next) returns. *)
NanosleepAbs ==
    /\ mode = "abstime" /\ pc = "wait"
    /\ clock >= next
    /\ woken' = clock
    /\ pc' = "read"
    /\ UNCHANGED <<fixed, clock, now, next, diff, min, max, hist, until, overrun>>

(* Relative sleep: the clock is read, ... *)
GetTimeRel ==
    /\ mode = "reltime" /\ pc = "wait"
    /\ now' = clock
    /\ pc' = "nanosleep"
    /\ UNCHANGED <<fixed, clock, next, diff, min, max, hist, woken, until, overrun>>

(* ... the thread goes to sleep for one interval, ... *)
NanosleepRel ==
    /\ pc = "nanosleep"
    /\ until' = clock + interval
    /\ pc' = "asleep"
    /\ UNCHANGED <<fixed, clock, now, next, diff, min, max, hist, woken, overrun>>

NextRel_late == clock + interval \* mutant: the clock is read again
NextRel == now + interval

(* ... and next is computed from the time read before the sleep. *)
ReturnRel ==
    /\ pc = "asleep"
    /\ clock >= until
    /\ next' = NextRel
    /\ woken' = clock
    /\ pc' = "read"
    /\ UNCHANGED <<fixed, clock, now, diff, min, max, hist, until, overrun>>

tv_sec(t) == t \div NSEC_PER_SEC
tv_nsec(t) == t % NSEC_PER_SEC

(* Division of C, which truncates toward zero *)
Quotient(a, b) == IF a < 0 THEN -((-a) \div b) ELSE a \div b

(* In microseconds: the seconds exactly, the nanoseconds truncated *)
calcdiff(t1, t2) ==
    (NSEC_PER_SEC \div NSEC_PER_USEC) * (tv_sec(t1) - tv_sec(t2))
    + Quotient(tv_nsec(t1) - tv_nsec(t2), NSEC_PER_USEC)

calcdiff_ns(t1, t2) ==
    NSEC_PER_SEC * (tv_sec(t1) - tv_sec(t2)) + (tv_nsec(t1) - tv_nsec(t2))

Latency(t) == U64(IF use_nsecs THEN calcdiff_ns(t, next) ELSE calcdiff(t, next))

(* The statistics; both comparisons are unsigned. *)
NewMin(d) == IF d < U64(min) THEN ToLong(d) ELSE min
NewMax(d) == IF d > U64(max) THEN ToLong(d) ELSE max

(* clock_gettime(&now), calcdiff, and the statistics. *)
Read ==
    /\ pc = "read"
    /\ now' = clock
    /\ diff' = Latency(clock)
    /\ min' = NewMin(diff') /\ max' = NewMax(diff')
    /\ sampled' = next
    /\ pc' = "advance"
    /\ UNCHANGED <<fixed, clock, next, base, woken, until, overrun>>

(* next += interval, and with -x the periods of the overruns too. *)
Periods_no_overrun == 1 \* mutant: timer_getoverrun is not asked
Periods_none == 0 \* mutant: left to the catching up
Periods == IF ByTimer THEN 1 + overrun ELSE 1

Advance ==
    /\ pc = "advance"
    /\ next' = next + Periods * interval
    /\ pc' = "catchup"
    /\ UNCHANGED <<fixed, clock, now, diff, min, max, hist, woken, until, overrun>>

(* tsgreater(&now, &next) *)
Behind_never == FALSE \* mutant: no catching up
Behind == now > next

Later_now == now + interval \* mutant: counted from the reading
Later == next + interval

(* while (tsgreater(&now, &next)) next += interval *)
CatchUp ==
    /\ pc = "catchup"
    /\ IF Behind THEN next' = Later /\ pc' = pc
                 ELSE next' = next /\ pc' = "wait"
    /\ UNCHANGED <<fixed, clock, now, diff, min, max, hist, woken, until, overrun>>

(* At the Horizon the model stops, waiting for an instant it does not have. *)
Stop ==
    /\ clock = Horizon
    /\ \/ pc = "wait" /\ ByTimer /\ until > clock
       \/ pc = "wait" /\ mode = "abstime" /\ next > clock
       \/ pc = "asleep" /\ until > clock
    /\ UNCHANGED vars

Next ==
    \/ Tick \/ Start \/ SetTime \/ Sigwait \/ NanosleepAbs
    \/ GetTimeRel \/ NanosleepRel \/ ReturnRel
    \/ Read \/ Advance \/ CatchUp \/ Stop

Spec == Init /\ [][Next]_vars

-----------------------------------------------------------------------------
PC == {"start", "settime", "wait", "nanosleep", "asleep", "read", "advance",
       "catchup"}

(* Types; the stored latency is an unsigned word. *)
TypeOK ==
    /\ mode \in Modes /\ use_nsecs \in Use_nsecs /\ delay \in Delays
    /\ clock \in 0 .. Horizon /\ pc \in PC
    /\ now \in Nat /\ next \in Nat /\ base \in Nat
    /\ diff \in 0 .. W - 1 /\ min \in Int /\ max \in Int
    /\ sampled \in Nat /\ woken \in Nat /\ until \in Nat /\ overrun \in Nat

(* The wake-up time and next cannot drift apart: the thread sleeps until    *)
(* next, or for one interval, or the POSIX timer was armed with next and    *)
(* the clock is read before it expires again.                               *)
Faithful == mode \in {"abstime", "reltime"} \/ (mode = "cyclic" /\ delay = 0)

(* Then the latency stored for a period is the time between its end and the *)
(* clock reading, in microseconds by less than one of them, also when a     *)
(* second begins in between; never the wrapped image of a reading taken too *)
(* early.                                                                   *)
LatencyIsReal ==
    Faithful /\ pc = "advance" =>
        LET unit == IF use_nsecs THEN 1 ELSE NSEC_PER_USEC
        IN  next <= now /\ unit * diff - (now - next) \in 1 - unit .. unit - 1

(* The periods stay on the grid of the start time (absolute modes and -x),  *)
(* whatever was skipped.                                                    *)
OnGrid == pc # "start" /\ mode # "reltime" => (next - base) % interval = 0

(* No backlog: when the thread waits again the period it waits for has not  *)
(* ended before the last reading; and, unless overruns were added, it is    *)
(* the first such period.                                                   *)
NoBacklog ==
    pc = "wait" => now <= next /\ (~ByTimer => next <= now + interval)

(* With -x the period the thread measures against is the one the kernel     *)
(* timer will signal next, as long as the clock is read at once.            *)
InStep == mode = "cyclic" /\ delay = 0 /\ pc = "wait" => next = until

(* Each period is measured at most once: the one the thread waits for ends  *)
(* at least one interval after the one it has measured last.                *)
OnePerPeriod == pc = "wait" /\ mode # "reltime" => next >= sampled + interval
=============================================================================
