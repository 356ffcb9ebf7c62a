----------------------------- MODULE Timecounter -----------------------------
(***************************************************************************)
(* The RTEMS timecounter on SMP (kern_tc.c): the two timehands, which hold *)
(* the uptime and the wall clock time at the last update and the counter   *)
(* value it belongs to, their writers under the timecounter lock (windup   *)
(* by the clock tick or by Set_clock, Tick_simple), and the readers, which *)
(* take no lock: they read the generation, the data and the hardware       *)
(* counter, and start again if the generation is zero or has changed.      *)
(*                                                                         *)
(* hw is the true number of counter ticks since boot.  A free running      *)
(* counter shows it modulo Size.  A simple one (rtems/timecounter.h) shows *)
(* the position in the current clock tick of Interval counter ticks, plus  *)
(* Interval while the tick interrupt is pending.                           *)
(*                                                                         *)
(* A step is one access to shared memory; the fences of the code order     *)
(* them.  The scale is one unit of time per counter tick.  Left out: NTP,  *)
(* a change of the counter, and the formats the readers convert to.        *)
(***************************************************************************)
EXTENDS Integers

CONSTANTS
    Readers,    \* threads that read the clock
    Size,       \* a free running counter wraps at Size (tc_counter_mask + 1)
    Interval,   \* counter ticks per clock tick of a simple counter
    MaxGen,     \* UINT_MAX (scaled down), the largest generation
    Walls,      \* wall clock times the clock can be set to
    Simple,     \* kinds of counter: subset of BOOLEAN, TRUE for a simple one
    MaxTime, MaxUpdates, MaxSets \* bounds: hw, updates of the hands, Set_clock

ASSUME TimecounterAssumption ==
    /\ Size \in Nat \ {0, 1} /\ Interval \in Nat \ {0}
    /\ Walls \subseteq Int /\ Simple \subseteq BOOLEAN
    /\ MaxTime \in Nat /\ MaxUpdates \in Nat /\ MaxSets \in Nat
    /\ MaxGen \in Nat \ {0}
    \* no reader is held up for as long as a generation takes to come again
    /\ MaxUpdates < MaxGen

VARIABLES
    hw, pend,   \* the counter and the pending tick interrupt
    simple,     \* the kind of the counter
    hand, live, \* the timehands th0 and th1, and which one is current
    w,          \* the holder of the timecounter lock
    rd,         \* the readers
    updates, sets, \* number of updates and of Set_clock so far
    truth,      \* history: wall clock minus hw, as set
    drift       \* history: counted by a windup and by the next simple tick

vars == <<hw, pend, simple, hand, live, w, rd, updates, sets, truth, drift>>
hist == <<truth, drift>>

Hands == {0, 1}
Idle == [pc |-> "idle", th |-> 0, ogen |-> 0, new |-> FALSE, boot |-> 0,
         delta |-> 0, count |-> 0, truth |-> 0]
NotReading == [pc |-> "idle", kind |-> "none", th |-> 0, gen |-> 0, val |-> 0,
               count |-> 0, counter |-> 0, left |-> {}, start |-> 0,
               walls |-> {0}, window |-> FALSE]

Init ==
    /\ hw = 0 /\ pend = FALSE /\ simple \in Simple
    /\ hand = [h \in Hands |-> [gen |-> IF h = 0 THEN MaxGen ELSE 0,
                                offset |-> 0, count |-> 0, boot |-> 0, wall |-> 0]]
    /\ live = 0
    /\ w = Idle
    /\ rd = [r \in Readers |-> NotReading]
    /\ updates = 0 /\ sets = 0 /\ truth = 0 /\ drift = 0

-----------------------------------------------------------------------------
(* The hardware *)

Modulus == IF simple THEN 2 * Interval ELSE Size \* tc_counter_mask + 1

(* Environment: the hands are updated often enough for the counter not to   *)
(* wrap against a hand that a reader may still use, the old one included,   *)
(* and a clock tick is handled before the next one.                         *)
InTime ==
    IF simple THEN ~(pend /\ (hw + 1) % Interval = 0)
    ELSE \A h \in Hands : hand[h].gen # 0 => hw + 1 - hand[h].offset < Size

Advance ==
    /\ hw < MaxTime /\ InTime
    /\ hw' = hw + 1
    /\ pend' = IF simple /\ hw' % Interval = 0 THEN TRUE ELSE pend
    /\ UNCHANGED <<simple, hand, live, w, rd, updates, sets, hist>>

-----------------------------------------------------------------------------
(* The writers, under _Timecounter_Lock *)

(* The simple counter is read by a pending-aware get; the lock holder's     *)
(* read is not disturbed by a tick.                                         *)
Counter == IF simple THEN (hw % Interval) + (IF pend THEN Interval ELSE 0)
           ELSE hw % Size

Delta(count) == (Counter - count) % Modulus \* tc_delta

(* The hand is marked as being written. *)
Begin_visible(th, record) == \* mutant: the generation is not zeroed
    /\ w' = record
    /\ updates' = updates + 1
    /\ UNCHANGED hand
Begin(th, record) ==
    /\ w' = record
    /\ hand' = [hand EXCEPT ![th].gen = 0]
    /\ updates' = updates + 1

(* _Timecounter_Tick on the boot processor: tc_windup( NULL ) *)
TickWindup ==
    /\ ~simple /\ w.pc = "idle" /\ updates < MaxUpdates
    /\ LET th == 1 - live IN
       Begin(th, [Idle EXCEPT !.pc = "copy", !.th = th, !.ogen = hand[th].gen])
    /\ UNCHANGED <<hw, pend, simple, live, rd, sets, hist>>

(* _Timecounter_Set_clock: the boot time follows from the uptime now. *)
SetClock ==
    /\ w.pc = "idle" /\ updates < MaxUpdates /\ sets < MaxSets
    /\ \E bt \in Walls :
         LET th == 1 - live
             uptime == hand[live].offset + Delta(hand[live].count) IN
         Begin(th, [Idle EXCEPT !.pc = "copy", !.th = th, !.ogen = hand[th].gen,
                                !.new = TRUE, !.boot = bt - uptime, !.truth = bt - hw])
    /\ sets' = sets + 1
    /\ UNCHANGED <<hw, pend, simple, live, rd, hist>>

(* The new hand becomes a copy of the current one, with the new boot time. *)
Copy ==
    /\ w.pc = "copy"
    /\ hand' = [hand EXCEPT ![w.th] =
                  [hand[live] EXCEPT !.gen = 0,
                                     !.boot = IF w.new THEN w.boot ELSE @]]
    /\ w' = [w EXCEPT !.pc = "count"]
    /\ UNCHANGED <<hw, pend, simple, live, rd, updates, sets, hist>>

(* th_offset_count moves on by the delta ... *)
Count ==
    /\ w.pc = "count"
    /\ LET delta == Delta(hand[w.th].count) IN
       /\ w' = [w EXCEPT !.pc = "offset", !.delta = delta]
       /\ hand' = [hand EXCEPT ![w.th].count = (@ + delta) % Modulus]
       /\ drift' = IF simple THEN drift + delta ELSE drift
    /\ UNCHANGED <<hw, pend, simple, live, rd, updates, sets, truth>>

(* ... and so does th_offset. *)
Offset ==
    /\ w.pc = "offset"
    /\ hand' = [hand EXCEPT ![w.th].offset = @ + w.delta]
    /\ w' = [w EXCEPT !.pc = "wall"]
    /\ UNCHANGED <<hw, pend, simple, live, rd, updates, sets, hist>>

(* th_bintime *)
Wall ==
    /\ w.pc = "wall"
    /\ hand' = [hand EXCEPT ![w.th].wall = hand[w.th].offset + hand[w.th].boot]
    /\ w' = [w EXCEPT !.pc = "gen"]
    /\ UNCHANGED <<hw, pend, simple, live, rd, updates, sets, hist>>

NextGen_zero(gen) == (gen + 1) % (MaxGen + 1) \* mutant: zero is not skipped
NextGen(gen) == IF gen = MaxGen THEN 1 ELSE gen + 1

(* Reads of the wall clock in progress may meet the new setting from now on. *)
MeetNewSetting ==
    rd' = [r \in Readers |-> [rd[r] EXCEPT !.walls =
             IF w.new /\ rd[r].kind = "wall" THEN @ \cup {w.truth} ELSE @]]

(* The hand is valid: a reader that still points to it can use it, ... *)
Gen ==
    /\ w.pc = "gen"
    /\ hand' = [hand EXCEPT ![w.th].gen = NextGen(w.ogen)]
    /\ w' = [w EXCEPT !.pc = "publish"]
    /\ MeetNewSetting
    /\ UNCHANGED <<hw, pend, simple, live, updates, sets, hist>>

(* ... then it goes live for all others, and the lock is released. *)
Publish ==
    /\ w.pc = "publish"
    /\ live' = w.th
    /\ w' = Idle
    /\ truth' = IF w.new THEN w.truth ELSE truth
    /\ MeetNewSetting
    /\ UNCHANGED <<hw, pend, simple, hand, updates, sets, drift>>

(* rtems_timecounter_simple_*_tick: at_tick clears the pending interrupt    *)
(* under the lock, before the hands are touched.                            *)
AtTick ==
    /\ simple /\ w.pc = "idle" /\ pend /\ updates < MaxUpdates
    /\ pend' = FALSE
    /\ w' = [Idle EXCEPT !.pc = "attick"]
    /\ rd' = [r \in Readers |-> [rd[r] EXCEPT !.window = TRUE]]
    /\ UNCHANGED <<hw, simple, hand, live, updates, sets, hist>>

(* _Timecounter_Tick_simple updates the current hand in place. *)
TickSimple ==
    /\ w.pc = "attick"
    /\ Begin(live, [w EXCEPT !.pc = "scount", !.th = live, !.ogen = hand[live].gen,
                             !.delta = Interval, !.count = hw % Interval])
    /\ UNCHANGED <<hw, pend, simple, live, rd, sets, truth, drift>>

SimpleCount ==
    /\ w.pc = "scount"
    /\ hand' = [hand EXCEPT ![w.th].count = w.count]
    /\ w' = [w EXCEPT !.pc = "offset"]
    /\ UNCHANGED <<hw, pend, simple, live, rd, updates, sets, hist>>

Writer == Copy \/ Count \/ Offset \/ Wall \/ Gen \/ Publish \/ TickSimple \/ SimpleCount

-----------------------------------------------------------------------------
(* The readers: _Timecounter_Sbinuptime and _Binuptime ("uptime"),          *)
(* _Bintime ("wall"), _Getbinuptime ("get")                                 *)

ReaderOnly == <<hw, pend, simple, hand, live, w, updates, sets, hist>>

Reads(r, from, record) ==
    /\ rd[r].pc = from
    /\ rd' = [rd EXCEPT ![r] = record]
    /\ UNCHANGED ReaderOnly

(* The call begins.  What it returns is to be no less than start. *)
Start(r, kind) ==
    /\ rd[r].pc = "idle"
    /\ rd' = [rd EXCEPT ![r] =
         [NotReading EXCEPT !.pc = "hand", !.kind = kind,
                            !.start = IF kind = "get" THEN hand[live].offset ELSE hw,
                            !.walls = {IF kind = "wall" THEN truth ELSE 0}]]
    /\ UNCHANGED ReaderOnly

LoadHand_other(r) == \* mutant: the hand that the next update will write
    Reads(r, "hand", [rd[r] EXCEPT !.pc = "gen", !.th = 1 - live,
                                   !.window = (w.pc = "attick")])
LoadHand(r) ==
    Reads(r, "hand", [rd[r] EXCEPT !.pc = "gen", !.th = live,
                                   !.window = (w.pc = "attick")])

LoadGen(r) ==
    Reads(r, "gen", [rd[r] EXCEPT !.pc = "base", !.gen = hand[rd[r].th].gen])

(* th_offset or th_bintime; then, except for a get, the operands of tc_delta *)
LoadBase(r) ==
    LET h == hand[rd[r].th] IN
    Reads(r, "base", [rd[r] EXCEPT
        !.val = IF rd[r].kind = "wall" THEN h.wall ELSE h.offset,
        !.pc = "delta",
        !.left = IF rd[r].kind = "get" THEN {} ELSE {"count", "counter"}])

(* The two operands are evaluated in either order. *)
LoadCount(r) ==
    /\ "count" \in rd[r].left
    /\ Reads(r, "delta", [rd[r] EXCEPT !.count = hand[rd[r].th].count,
                                       !.left = @ \ {"count"}])

(* tc_get_timecount; a simple counter is read before its pending flag ... *)
LoadCounter(r) ==
    /\ "counter" \in rd[r].left
    /\ Reads(r, "delta", [rd[r] EXCEPT
         !.counter = IF simple THEN hw % Interval ELSE hw % Size,
         !.left = (@ \ {"counter"}) \cup (IF simple THEN {"pending"} ELSE {})])

(* ... and once more if that is set (rtems_timecounter_simple_*_get). *)
LoadPending(r) ==
    /\ "pending" \in rd[r].left
    /\ Reads(r, "delta", [rd[r] EXCEPT
         !.counter = IF pend THEN Interval + (hw % Interval) ELSE @,
         !.left = @ \ {"pending"}])

(* The hand was not written meanwhile. *)
Unchanged(r) == rd[r].gen # 0 /\ rd[r].gen = hand[rd[r].th].gen

Result(r) == rd[r].val + IF rd[r].kind = "get" THEN 0
                        ELSE (rd[r].counter - rd[r].count) % Modulus

(* The call returns the result, or reads again. *)
Check(r) ==
    /\ rd[r].left = {}
    /\ Reads(r, "delta", IF Unchanged(r) THEN NotReading
                         ELSE [rd[r] EXCEPT !.pc = "hand", !.th = 0, !.gen = 0,
                                            !.val = 0, !.count = 0, !.counter = 0])

Reader(r) ==
    \/ LoadHand(r) \/ LoadGen(r) \/ LoadBase(r) \/ LoadCount(r) \/ LoadCounter(r)
    \/ LoadPending(r) \/ Check(r)

-----------------------------------------------------------------------------
Next ==
    \/ Advance
    \/ TickWindup \/ SetClock \/ AtTick \/ Writer
    \/ \E r \in Readers : Reader(r) \/ \E k \in {"uptime", "wall", "get"} : Start(r, k)

Spec == Init /\ [][Next]_vars

-----------------------------------------------------------------------------
(* Properties *)

(* Types; and between two updates the generation of the current hand is not *)
(* zero, so that readers can finish, also after the generation has wrapped. *)
TypeOK ==
    /\ hw \in 0..MaxTime /\ pend \in BOOLEAN /\ simple \in BOOLEAN
    /\ hand \in [Hands -> [gen : 0..MaxGen, offset : Int, count : 0..(Modulus - 1),
                           boot : Int, wall : Int]]
    /\ live \in Hands
    /\ w.pc \in {"idle", "copy", "count", "offset", "wall", "gen", "publish",
                  "attick", "scount"}
    /\ w.pc = "idle" => hand[live].gen # 0
    /\ \A r \in Readers : rd[r].pc \in {"idle", "hand", "gen", "base", "delta"}

(* With a simple counter, a tick that is handled late sets time back by as  *)
(* much, at most one interval.                                              *)
Slack == IF simple THEN Interval - 1 ELSE 0

(* The wall clock was set when the uptime was behind by as much. *)
Ahead(kind) == IF kind = "wall" THEN Slack ELSE 0

Returns(r) == rd[r].pc = "delta" /\ rd'[r].pc = "idle"

(* Whatever update it runs into, a read of the uptime or of the wall clock  *)
(* returns the time of an instant between its beginning and its end, on the *)
(* clock as it was set at some instant of the read: no torn mix of two      *)
(* updates, no wrap of the counter, no time before that of an earlier read. *)
(* With a simple counter it is right up to the Slack and the double count,  *)
(* unless a tick was about to be handled.                                   *)
ReadsTrueTime ==
    [][\A r \in Readers :
         Returns(r) /\ rd[r].kind # "get" /\ ~rd[r].window =>
           \E b \in rd[r].walls :
             Result(r) - b \in (rd[r].start - Slack)..(hw + drift + Ahead(rd[r].kind))]_vars

(* A get returns the uptime of an update no older than the one that was     *)
(* current when it was called, and none from the future.                    *)
GetsCurrentUpdate ==
    [][\A r \in Readers :
         Returns(r) /\ rd[r].kind = "get" =>
           Result(r) \in rd[r].start..(hw + drift)]_vars
=============================================================================
