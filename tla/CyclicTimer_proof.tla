-------------------------- MODULE CyclicTimer_proof --------------------------
(***************************************************************************)
(* Proofs about CyclicTimer for any interval, any clock resolution and any *)
(* length of a run.                                                        *)
(***************************************************************************)
EXTENDS CyclicTimer, TLAPS

-----------------------------------------------------------------------------
(* The inductive invariant *)

(* Which mode a control point belongs to. *)
ModeInv ==
    /\ pc \in {"nanosleep", "asleep"} => mode = "reltime"
    /\ pc = "settime" => ByTimer

(* The thread sleeps until next or longer, so that a reading after a sleep  *)
(* is not before next.                                                      *)
SleepInv ==
    /\ pc = "settime" => now <= next
    /\ pc \in {"nanosleep", "asleep"} => now <= clock
    /\ pc = "asleep" => until >= now + interval
    /\ pc = "read" => woken <= clock
    /\ pc = "read" /\ ~ByTimer => next <= clock
    /\ pc = "advance" /\ ~ByTimer => next <= now
    /\ pc = "catchup" /\ ~ByTimer => next <= now + interval

(* The kernel timer of -x, when the clock is read at once: its next         *)
(* expiration is the end of the period after the overruns, in the future    *)
(* of the wake-up.                                                          *)
TimerInv ==
    mode = "cyclic" /\ delay = 0 =>
        /\ pc = "read" => /\ next <= woken /\ clock = woken /\ woken < until
                          /\ until = next + (overrun + 1) * interval
        /\ pc = "advance" => /\ next <= now /\ now < until
                             /\ until = next + (overrun + 1) * interval
        /\ pc = "catchup" => next = until /\ now < next
        /\ pc = "wait" => next = until

(* next is a whole number of periods after the start. *)
GridInv ==
    pc # "start" /\ mode # "reltime" => \E k \in Int : next = base + k * interval

(* The period to be measured is later than the one measured last. *)
SampledInv ==
    mode # "reltime" =>
        /\ pc \in {"settime", "wait", "catchup"} => next >= sampled + interval
        /\ pc = "advance" => next = sampled

IInv ==
    /\ TypeOK /\ ModeInv /\ SleepInv /\ TimerInv /\ GridInv /\ SampledInv
    /\ NoBacklog /\ LatencyIsReal

-----------------------------------------------------------------------------
(* Arithmetic *)

(* Quotient and remainder by a positive number. *)
LEMMA DivMod ==
    ASSUME NEW x \in Int, NEW d \in Nat \ {0}
    PROVE  x \div d \in Int /\ x % d \in 0 .. d - 1 /\ x % d = x - d * (x \div d)
<1>1. x \div d \in Int
    OBVIOUS
<1>2. x % d \in 0 .. d - 1
    OBVIOUS
<1>3. x % d = x - d * (x \div d)
    OBVIOUS
<1>4. QED
    BY <1>1, <1>2, <1>3, Zenon

(* The only multiple of a number below it is zero. *)
LEMMA SmallMultiple ==
    ASSUME NEW m \in Int, NEW d \in Nat \ {0}, m * d >= 0, m * d < d
    PROVE  m = 0
OBVIOUS

(* A multiple leaves no remainder. *)
LEMMA MultipleMod ==
    ASSUME NEW k \in Int, NEW d \in Nat \ {0}
    PROVE  (k * d) % d = 0
<1> DEFINE q == (k * d) \div d
           r == (k * d) % d
<1>1. k * d \in Int
    OBVIOUS
<1>2. q \in Int /\ r \in 0 .. d - 1 /\ r = k * d - d * q
    BY <1>1, DivMod
<1> HIDE DEF q, r
<1>3. (k - q) * d = r
    BY <1>2
<1>4. k - q = 0
    BY <1>2, <1>3, SmallMultiple
<1>5. r = 0
    BY <1>2, <1>4
<1>6. QED
    BY <1>5 DEF r

(* The division of C is off by less than the divisor. *)
LEMMA QuotientBounds ==
    ASSUME NEW a \in Int, NEW d \in Nat \ {0}
    PROVE  /\ Quotient(a, d) \in Int
           /\ d * Quotient(a, d) - a \in 1 - d .. d - 1
<1>1. CASE a < 0
  <2>1. PICK b \in Int : b = -a
      OBVIOUS
  <2>2. b \div d \in Int /\ b % d \in 0 .. d - 1 /\ b % d = b - d * (b \div d)
      BY DivMod
  <2>3. Quotient(a, d) = -(b \div d)
      BY <1>1, <2>1 DEF Quotient
  <2>4. PICK q \in Int : q = b \div d
      BY <2>2
  <2>5. Quotient(a, d) = -q /\ b - d * q \in 0 .. d - 1
      BY <2>2, <2>3, <2>4
  <2>6. d * (-q) - a = b - d * q
      BY <2>1
  <2>7. QED
      BY <2>5, <2>6
<1>2. CASE ~(a < 0)
  <2>1. a \div d \in Int /\ a % d \in 0 .. d - 1 /\ a % d = a - d * (a \div d)
      BY DivMod
  <2>2. Quotient(a, d) = a \div d
      BY <1>2 DEF Quotient
  <2>3. QED
      BY <2>1, <2>2
<1>3. QED
    BY <1>1, <1>2

(* calcdiff_ns is exact, calcdiff off by less than a microsecond, also when *)
(* the two times lie in different seconds.                                  *)
LEMMA CalcdiffNs ==
    ASSUME NEW t1 \in Nat, NEW t2 \in Nat
    PROVE  calcdiff_ns(t1, t2) = t1 - t2
<1> USE TimerAssumption DEF TimerAssumption
<1>1. /\ t1 \div NSEC_PER_SEC \in Int /\ t1 % NSEC_PER_SEC \in Int
      /\ t1 % NSEC_PER_SEC = t1 - NSEC_PER_SEC * (t1 \div NSEC_PER_SEC)
    BY DivMod
<1>2. /\ t2 \div NSEC_PER_SEC \in Int /\ t2 % NSEC_PER_SEC \in Int
      /\ t2 % NSEC_PER_SEC = t2 - NSEC_PER_SEC * (t2 \div NSEC_PER_SEC)
    BY DivMod
<1>3. QED
    BY <1>1, <1>2 DEF calcdiff_ns, tv_sec, tv_nsec

(* calcdiff, in microseconds, is off by less than one. *)
LEMMA CalcdiffUs ==
    ASSUME NEW t1 \in Nat, NEW t2 \in Nat
    PROVE  /\ calcdiff(t1, t2) \in Int
           /\ NSEC_PER_USEC * calcdiff(t1, t2) - (t1 - t2)
                \in 1 - NSEC_PER_USEC .. NSEC_PER_USEC - 1
<1> DEFINE n == NSEC_PER_SEC
           u == NSEC_PER_USEC
           s == tv_sec(t1) - tv_sec(t2)
           a == tv_nsec(t1) - tv_nsec(t2)
           m == n \div u
<1>1. n \in Nat \ {0} /\ u \in Nat \ {0} /\ n % u = 0
    BY TimerAssumption DEF TimerAssumption
<1>2. /\ t1 \div n \in Int /\ t1 % n \in Int /\ t1 % n = t1 - n * (t1 \div n)
      /\ t2 \div n \in Int /\ t2 % n \in Int /\ t2 % n = t2 - n * (t2 \div n)
    BY <1>1, DivMod
<1>3. s \in Int /\ a \in Int /\ t1 - t2 = n * s + a
    BY <1>1, <1>2 DEF tv_sec, tv_nsec
<1>4. m \in Int /\ n = u * m
    BY <1>1, DivMod
<1>5. calcdiff(t1, t2) = m * s + Quotient(a, u)
    BY DEF calcdiff
<1>6. Quotient(a, u) \in Int /\ u * Quotient(a, u) - a \in 1 - u .. u - 1
    BY <1>1, <1>3, QuotientBounds
<1> HIDE DEF n, s, a, m, u
<1>7. u * (m * s + Quotient(a, u)) - (n * s + a) = u * Quotient(a, u) - a
    BY <1>1, <1>3, <1>4, <1>6
<1>8. QED
    BY <1>1, <1>3, <1>4, <1>5, <1>6, <1>7 DEF u

(* What the model stores for a reading t that is not before next. *)
LEMMA LatencyExact ==
    ASSUME TypeOK, NEW t \in 0 .. Horizon, next <= t
    PROVE  LET unit == IF use_nsecs THEN 1 ELSE NSEC_PER_USEC
           IN  unit * Latency(t) - (t - next) \in 1 - unit .. unit - 1
<1> DEFINE d == t - next
<1>1. /\ W \in Nat \ {0} /\ Horizon \in Nat /\ Horizon < W
      /\ NSEC_PER_USEC \in Nat \ {0}
    BY TimerAssumption DEF TimerAssumption
<1>2. d \in 0 .. W - 1 /\ t \in Nat /\ next \in Nat
    BY <1>1 DEF TypeOK
<1>3. \A x \in 0 .. W - 1 : U64(x) = x
    BY <1>1 DEF U64
<1>4. CASE use_nsecs
  <2>1. Latency(t) = U64(calcdiff_ns(t, next))
      BY <1>4 DEF Latency
  <2>2. Latency(t) = d
      BY <1>2, <1>3, <2>1, CalcdiffNs
  <2>3. QED
      BY <1>2, <1>4, <2>2
<1>5. CASE ~use_nsecs
  <2>1. Latency(t) = U64(calcdiff(t, next))
      BY <1>5 DEF Latency
  <2> DEFINE c == calcdiff(t, next)
             u == NSEC_PER_USEC
  <2>2. c \in Int /\ u \in Nat \ {0} /\ u * c - d \in 1 - u .. u - 1
      BY <1>1, <1>2, CalcdiffUs
  <2> HIDE DEF c, u, d
  <2>3. c >= 0
    <3>1. SUFFICES ASSUME c <= -1 PROVE FALSE
        BY <2>2
    <3>2. u * c <= -u
        BY <2>2, <3>1
    <3>3. QED
        BY <1>2, <2>2, <3>2
  <2>4. c <= d
    <3>1. SUFFICES ASSUME c >= d + 1 PROVE FALSE
        BY <1>2, <2>2
    <3>2. u * c >= u * d + u /\ u * d >= d
        BY <1>2, <2>2, <3>1
    <3>3. u * c \in Int /\ u * d \in Int
        BY <1>2, <2>2
    <3>4. QED
        BY <1>2, <2>2, <3>2, <3>3
  <2>5. Latency(t) = c
      BY <1>1, <1>2, <1>3, <2>1, <2>2, <2>3, <2>4 DEF c
  <2>6. QED
      BY <1>5, <2>2, <2>5 DEF u, d
<1>6. QED
    BY <1>4, <1>5

-----------------------------------------------------------------------------
(* Every step keeps the invariant *)

(* The invariant holds at the start, ... *)
LEMMA IInvInit == Init => IInv
<1> SUFFICES ASSUME Init PROVE IInv
    OBVIOUS
<1> USE TimerAssumption DEF TimerAssumption, Init
<1>1. TypeOK
    BY DEF TypeOK, PC
<1>2. ModeInv /\ SleepInv /\ TimerInv /\ GridInv /\ SampledInv
    BY DEF ModeInv, SleepInv, TimerInv, GridInv, SampledInv
<1>3. NoBacklog /\ LatencyIsReal
    BY DEF NoBacklog, LatencyIsReal
<1>4. QED
    BY <1>1, <1>2, <1>3 DEF IInv

(* ... every step keeps it, ... *)
LEMMA IInvNext == IInv /\ [Next]_vars => IInv'
<1> SUFFICES ASSUME IInv, [Next]_vars PROVE IInv'
    OBVIOUS
<1> USE DEF IInv, fixed, hist
<1>c. /\ interval \in Nat \ {0} /\ Ahead \in Nat /\ Horizon \in Nat /\ Delays \subseteq Nat
      /\ W \in Nat \ {0} /\ Modes \subseteq {"abstime", "reltime", "cyclic", "cyclic_rel"}
      /\ Use_nsecs \subseteq BOOLEAN
    BY TimerAssumption DEF TimerAssumption
<1>1. CASE Tick
  <2>1. TypeOK'
      BY <1>1, <1>c DEF Tick, TypeOK
  <2>2. ModeInv' /\ SleepInv' /\ TimerInv'
      BY <1>1, <1>c DEF Tick, TypeOK, ModeInv, SleepInv, TimerInv, ByTimer
  <2>3. GridInv' /\ SampledInv' /\ NoBacklog' /\ LatencyIsReal'
      BY <1>1 DEF Tick, GridInv, SampledInv, NoBacklog, ByTimer, LatencyIsReal, Faithful
  <2>4. QED
      BY <2>1, <2>2, <2>3
<1>2. CASE Start
  <2>1. PICK t \in clock .. clock + Ahead :
          /\ base' = t /\ sampled' = t /\ now' = t /\ next' = t + interval
      BY <1>2 DEF Start
  <2>2. t \in Nat
      BY <1>c, <2>1 DEF TypeOK
  <2>3. TypeOK'
      BY <1>2, <1>c, <2>1, <2>2 DEF Start, TypeOK, PC
  <2>4. ModeInv' /\ SleepInv' /\ TimerInv' /\ SampledInv' /\ NoBacklog' /\ LatencyIsReal'
      BY <1>2, <1>c, <2>1, <2>2
         DEF Start, TypeOK, ModeInv, SleepInv, TimerInv, SampledInv, NoBacklog, ByTimer,
             LatencyIsReal
  <2>5. GridInv'
    <3>1. next' = base' + 1 * interval
        BY <1>c, <2>1, <2>2
    <3>2. QED
        BY <3>1 DEF GridInv
  <2>6. QED
      BY <2>3, <2>4, <2>5
<1>3. CASE SetTime
  <2>1. TypeOK'
      BY <1>3, <1>c DEF SetTime, TypeOK, PC
  <2>2. ModeInv' /\ SleepInv' /\ TimerInv' /\ SampledInv' /\ NoBacklog' /\ LatencyIsReal'
      BY <1>3 DEF SetTime, TypeOK, ModeInv, SleepInv, TimerInv, SampledInv, NoBacklog,
             ByTimer, LatencyIsReal
  <2>3. GridInv'
      BY <1>3 DEF SetTime, GridInv
  <2>4. QED
      BY <2>1, <2>2, <2>3
<1>4. CASE Sigwait
  <2>1. PICK x \in Nat : clock \in Nat /\ until \in Nat /\ x = clock - until
      BY <1>4 DEF Sigwait, TypeOK
  <2> DEFINE q == x \div interval
  <2>2. overrun' = q /\ until' = until + (q + 1) * interval
      BY <1>4, <2>1 DEF Sigwait
  <2>3. q \in Int /\ x % interval \in 0 .. interval - 1 /\ x % interval = x - interval * q
      BY <1>c, <2>1, DivMod
  <2>4. q \in Nat
    <3>1. SUFFICES ASSUME q <= -1 PROVE FALSE
        BY <2>3
    <3>2. interval * q <= -interval
        BY <1>c, <2>3, <3>1
    <3>3. QED
        BY <1>c, <2>1, <2>3, <3>2
  <2>5. (q + 1) * interval \in Nat /\ clock < until + (q + 1) * interval
      BY <1>c, <2>1, <2>3, <2>4
  <2> HIDE DEF q
  <2>6. TypeOK'
      BY <1>4, <2>1, <2>2, <2>4, <2>5 DEF Sigwait, TypeOK, PC
  <2>7. ModeInv' /\ SleepInv' /\ SampledInv' /\ NoBacklog' /\ LatencyIsReal'
      BY <1>4, <2>1 DEF Sigwait, TypeOK, ModeInv, SleepInv, SampledInv, NoBacklog, ByTimer,
             LatencyIsReal
  <2>8. TimerInv'
      BY <1>4, <2>1, <2>2, <2>5 DEF Sigwait, TypeOK, TimerInv
  <2>9. GridInv'
      BY <1>4 DEF Sigwait, GridInv
  <2>10. QED
      BY <2>6, <2>7, <2>8, <2>9
<1>5. CASE NanosleepAbs
  <2>1. TypeOK' /\ ModeInv' /\ SleepInv' /\ TimerInv' /\ SampledInv'
      BY <1>5 DEF NanosleepAbs, TypeOK, PC, ModeInv, SleepInv, TimerInv, SampledInv, ByTimer
  <2>2. GridInv' /\ NoBacklog' /\ LatencyIsReal'
      BY <1>5 DEF NanosleepAbs, GridInv, NoBacklog, LatencyIsReal
  <2>3. QED
      BY <2>1, <2>2
<1>6. CASE GetTimeRel
  <2>1. TypeOK' /\ ModeInv' /\ SleepInv' /\ TimerInv' /\ SampledInv'
      BY <1>6 DEF GetTimeRel, TypeOK, PC, ModeInv, SleepInv, TimerInv, SampledInv, ByTimer
  <2>2. GridInv' /\ NoBacklog' /\ LatencyIsReal'
      BY <1>6 DEF GetTimeRel, GridInv, NoBacklog, LatencyIsReal
  <2>3. QED
      BY <2>1, <2>2
<1>7. CASE NanosleepRel
  <2>1. TypeOK' /\ ModeInv' /\ SleepInv' /\ TimerInv' /\ SampledInv'
      BY <1>7, <1>c
         DEF NanosleepRel, TypeOK, PC, ModeInv, SleepInv, TimerInv, SampledInv, ByTimer
  <2>2. GridInv' /\ NoBacklog' /\ LatencyIsReal'
      BY <1>7 DEF NanosleepRel, GridInv, NoBacklog, LatencyIsReal
  <2>3. QED
      BY <2>1, <2>2
<1>8. CASE ReturnRel
  <2>1. TypeOK' /\ ModeInv' /\ SleepInv' /\ TimerInv' /\ SampledInv'
      BY <1>8, <1>c
         DEF ReturnRel, NextRel, TypeOK, PC, ModeInv, SleepInv, TimerInv, SampledInv, ByTimer
  <2>2. GridInv' /\ NoBacklog' /\ LatencyIsReal'
      BY <1>8 DEF ReturnRel, GridInv, NoBacklog, LatencyIsReal, ModeInv
  <2>3. QED
      BY <2>1, <2>2
<1>9. CASE Read
  <2>1. diff' = Latency(clock) /\ now' = clock /\ sampled' = next
      BY <1>9 DEF Read
  <2>2. diff' \in 0 .. W - 1
    <3>1. \A x \in Int : U64(x) \in 0 .. W - 1
        BY <1>c DEF U64
    <3>2. calcdiff(clock, next) \in Int
        BY CalcdiffUs DEF TypeOK
    <3>3. calcdiff_ns(clock, next) \in Int
        BY CalcdiffNs DEF TypeOK
    <3>4. QED
        BY <2>1, <3>1, <3>2, <3>3 DEF Latency
  <2>3. min' \in Int /\ max' \in Int
      BY <1>9, <1>c, <2>2 DEF Read, NewMin, NewMax, ToLong, TypeOK
  <2>4. TypeOK'
      BY <1>9, <2>1, <2>2, <2>3 DEF Read, TypeOK, PC
  <2>5. ModeInv' /\ SleepInv' /\ TimerInv' /\ SampledInv' /\ NoBacklog'
      BY <1>9 DEF Read, TypeOK, ModeInv, SleepInv, TimerInv, SampledInv, NoBacklog, ByTimer
  <2>6. GridInv'
      BY <1>9 DEF Read, GridInv
  <2>7. LatencyIsReal'
    <3>1. SUFFICES ASSUME Faithful
                   PROVE  LET unit == IF use_nsecs THEN 1 ELSE NSEC_PER_USEC
                          IN  next <= clock /\ unit * diff' - (clock - next)
                                                 \in 1 - unit .. unit - 1
        BY <1>9, <2>1 DEF Read, LatencyIsReal, Faithful
    <3>2. next <= clock
        BY <1>9, <3>1 DEF Read, Faithful, SleepInv, TimerInv, TypeOK, ByTimer
    <3>3. QED
        BY <2>1, <3>2, LatencyExact DEF TypeOK
  <2>8. QED
      BY <2>4, <2>5, <2>6, <2>7
<1>10. CASE Advance
  <2>1. Periods \in Nat /\ Periods >= 1
      BY DEF Periods, TypeOK
  <2>2. next' = next + Periods * interval
      BY <1>10 DEF Advance
  <2>3. Periods * interval \in Nat /\ Periods * interval >= interval
      BY <1>c, <2>1
  <2>4. TypeOK'
      BY <1>10, <2>2, <2>3 DEF Advance, TypeOK, PC
  <2>5. ModeInv' /\ SampledInv' /\ NoBacklog' /\ LatencyIsReal'
      BY <1>10, <1>c, <2>2, <2>3
         DEF Advance, TypeOK, ModeInv, SampledInv, NoBacklog, LatencyIsReal
  <2>6. SleepInv'
    <3>1. ~ByTimer => next' = next + interval
        BY <1>c, <2>2 DEF Periods, TypeOK
    <3>2. QED
        BY <1>10, <1>c, <3>1 DEF Advance, TypeOK, SleepInv, ByTimer
  <2>7. TimerInv'
    <3>1. mode = "cyclic" => next' = next + (overrun + 1) * interval
        BY <1>c, <2>2 DEF Periods, ByTimer, TypeOK
    <3>2. QED
        BY <1>10, <3>1 DEF Advance, TypeOK, TimerInv
  <2>8. GridInv'
    <3>1. SUFFICES ASSUME mode # "reltime" PROVE \E k \in Int : next' = base + k * interval
        BY <1>10 DEF Advance, GridInv
    <3>2. PICK k \in Int : next = base + k * interval
        BY <1>10, <3>1 DEF Advance, GridInv
    <3>3. next' = base + (k + Periods) * interval
        BY <1>c, <2>1, <2>2, <3>2 DEF TypeOK
    <3>4. QED
        BY <2>1, <3>3
  <2>9. QED
      BY <2>4, <2>5, <2>6, <2>7, <2>8
<1>11. CASE CatchUp
  <2>1. TypeOK'
      BY <1>11, <1>c DEF CatchUp, Later, TypeOK, PC
  <2>2. ModeInv' /\ SleepInv' /\ TimerInv' /\ SampledInv'
      BY <1>11, <1>c DEF CatchUp, Behind, Later, TypeOK, ModeInv, SleepInv, TimerInv,
             SampledInv, ByTimer
  <2>3. NoBacklog' /\ LatencyIsReal'
      BY <1>11, <1>c DEF CatchUp, Behind, Later, TypeOK, SleepInv, NoBacklog, ByTimer,
             LatencyIsReal
  <2>4. GridInv'
    <3>1. SUFFICES ASSUME mode # "reltime" PROVE \E k \in Int : next' = base + k * interval
        BY <1>11 DEF CatchUp, GridInv
    <3>2. PICK k \in Int : next = base + k * interval
        BY <1>11, <3>1 DEF CatchUp, GridInv
    <3>3. CASE Behind
      <4>1. next' = base + (k + 1) * interval
          BY <1>11, <1>c, <3>2, <3>3 DEF CatchUp, Later, TypeOK
      <4>2. QED
          BY <4>1
    <3>4. CASE ~Behind
        BY <1>11, <3>2, <3>4 DEF CatchUp
    <3>5. QED
        BY <3>3, <3>4
  <2>5. QED
      BY <2>1, <2>2, <2>3, <2>4
<1>12. CASE Stop \/ UNCHANGED vars
    BY <1>12 DEF Stop, vars, TypeOK, ModeInv, SleepInv, TimerInv, GridInv, SampledInv,
           NoBacklog, LatencyIsReal, Faithful, ByTimer
<1>13. QED
    BY <1>1, <1>2, <1>3, <1>4, <1>5, <1>6, <1>7, <1>8, <1>9, <1>10, <1>11, <1>12 DEF Next

(* ... and so it always holds. *)
LEMMA IInvHolds == Spec => []IInv
BY IInvInit, IInvNext, PTL DEF Spec

-----------------------------------------------------------------------------
(* The theorems *)

(* Types: whatever is measured, the latency stored is a value of its        *)
(* uint64_t.                                                                *)
THEOREM TypeCorrect == Spec => []TypeOK
BY IInvHolds, PTL DEF IInv

(* In the modes where the wake-up and next cannot drift apart the latency   *)
(* that timerthread stores is the time since the end of the period, to less *)
(* than a microsecond, and never a wrapped negative one.                    *)
THEOREM LatenciesAreReal == Spec => []LatencyIsReal
BY IInvHolds, PTL DEF IInv

(* Catching up and overruns keep next on the grid of the start time.        *)
THEOREM PeriodsOnGrid == Spec => []OnGrid
<1>1. IInv => OnGrid
  <2> SUFFICES ASSUME IInv, pc # "start" /\ mode # "reltime"
               PROVE  (next - base) % interval = 0
      BY DEF OnGrid
  <2>1. PICK k \in Int : next = base + k * interval
      BY DEF IInv, GridInv
  <2>2. interval \in Nat \ {0} /\ base \in Nat
      BY TimerAssumption DEF TimerAssumption, IInv, TypeOK
  <2>3. next - base = k * interval
      BY <2>1, <2>2
  <2>4. QED
      BY <2>2, <2>3, MultipleMod
<1>2. QED
    BY <1>1, IInvHolds, PTL

(* After catching up the thread waits for a period that had not ended at    *)
(* its last reading of the clock, without overruns for the first such one.  *)
THEOREM NeverBacklog == Spec => []NoBacklog
BY IInvHolds, PTL DEF IInv

(* With -x and a prompt thread, adding the overruns of timer_getoverrun     *)
(* keeps next equal to the next expiration of the POSIX timer.              *)
THEOREM StaysInStep == Spec => []InStep
<1>1. IInv => InStep
    BY DEF IInv, TimerInv, InStep
<1>2. QED
    BY <1>1, IInvHolds, PTL

(* No period is measured twice.                                             *)
THEOREM MeasuredOnce == Spec => []OnePerPeriod
<1>1. IInv => OnePerPeriod
    BY DEF IInv, SampledInv, OnePerPeriod
<1>2. QED
    BY <1>1, IInvHolds, PTL
=============================================================================
