------------------------------- MODULE Samples -------------------------------
(***************************************************************************)
(* The way of a latency from a timer thread of cyclictest to its outputs:  *)
(* the ring values[] that main reads without a lock and prints with -v and *)
(* -o, and the histogram of -h (rt-tests-2.10/src/cyclictest/cyclictest.c, *)
(* rt-tests-2.10/src/lib/histogram.c).                                     *)
(*                                                                         *)
(* The thread stores the value, updates the histogram and only then counts *)
(* the cycle; main reads up to the count it sees.  Nothing keeps the       *)
(* thread from lapping a display that is blocked on its output: KeepsUp    *)
(* says that this does not happen.                                         *)
(***************************************************************************)
EXTENDS Integers, Sequences, FiniteSetsExt

CONSTANTS
    Latencies,        \* values `diff' can take
    Size,             \* VALBUF_SIZE, a power of two
    oscope_reduction, \* -o
    num,              \* -h: buckets, and entries of the overflow log
    W,                \* number of values of uint64_t, and of long
    max_cycles,       \* -l
    KeepsUp           \* environment: the display is never lapped

ASSUME SamplesAssumption ==
    /\ Latencies \subseteq 0 .. W - 1 /\ Latencies # {}
    /\ Size \in Nat \ {0} /\ oscope_reduction \in Nat \ {0}
    /\ num \in Nat \ {0} /\ W \in Nat \ {0} /\ max_cycles \in Nat \ {0}
    /\ KeepsUp \in BOOLEAN

VARIABLES
    pc, diff,      \* timerthread(): control point, the latency
    cycles, values, \* stat->cycles, stat->values
    buckets, events, oflows, oflow_count, oflow_magnitude, \* stat->hist
    mpc, mdiff,    \* main in print_stat(): control point, its diff
    cyclesread, redmax, cycleofmax, reduce, \* stat, used by print_stat only
    measured,      \* history: the latencies, in the order of their cycles
    lines          \* history: the lines printed, cycle and value

histvars   == <<buckets, events, oflows, oflow_count, oflow_magnitude>>
threadvars == <<pc, diff, cycles, values, histvars, measured>>
mainvars   == <<mpc, mdiff, cyclesread, redmax, cycleofmax, reduce, lines>>
vars == <<threadvars, mainvars>>

(* cycles & bufmsk *)
Slot_fixed(c) == 0 \* mutant: bufmsk was not set
Slot(c) == c % Size

(* The uint64_t latency d as an element of values[], a long *)
ToLong(d) == IF d < W \div 2 THEN d ELSE d - W

Init ==
    /\ pc = "measure" /\ diff = 0 /\ cycles = 0
    /\ values = [s \in 0 .. Size - 1 |-> 0]
    /\ buckets = [b \in 0 .. num - 1 |-> 0] /\ events = 0
    /\ oflows = [i \in 0 .. num - 1 |-> 0]
    /\ oflow_count = 0 /\ oflow_magnitude = 0
    /\ mpc = "test" /\ mdiff = 0 /\ cyclesread = 0
    /\ redmax = 0 /\ cycleofmax = 0 /\ reduce = 0
    /\ measured = << >> /\ lines = << >>

-----------------------------------------------------------------------------
(* timerthread() *)

T_Measure ==
    /\ pc = "measure"
    /\ \E d \in Latencies : diff' = d /\ measured' = Append(measured, d)
    /\ pc' = "store"
    /\ UNCHANGED <<cycles, values, histvars, mainvars>>

T_Store ==
    /\ pc = "store"
    /\ KeepsUp => cycles - cyclesread < Size
    /\ values' = [values EXCEPT ![Slot(cycles)] = ToLong(diff)]
    /\ pc' = "hist"
    /\ UNCHANGED <<diff, cycles, histvars, measured, mainvars>>

(* bucket < h->num; cyclictest's buckets have width 1. *)
InRange_eq(d) == d <= num \* mutant: off by one
InRange(d) == d < num

(* The next entry of the overflow log, if there is one. *)
LogFull == oflow_count >= num

(* hist_sample() *)
T_Hist ==
    /\ pc = "hist"
    /\ events' = events + 1
    /\ IF InRange(diff)
       THEN /\ buckets' = [buckets EXCEPT ![diff] = @ + 1]
            /\ UNCHANGED <<oflows, oflow_count, oflow_magnitude>>
       ELSE /\ LET sum == (oflow_magnitude + (diff - num)) % W IN
               oflow_magnitude' = IF sum > oflow_magnitude THEN sum ELSE oflow_magnitude
            /\ oflows' = IF LogFull THEN oflows ELSE [oflows EXCEPT ![oflow_count] = events]
            /\ oflow_count' = oflow_count + 1
            /\ UNCHANGED buckets
    /\ pc' = "count"
    /\ UNCHANGED <<diff, cycles, values, measured, mainvars>>

T_Count ==
    /\ pc = "count"
    /\ cycles' = cycles + 1
    /\ pc' = IF cycles + 1 = max_cycles THEN "done" ELSE "measure"
    /\ UNCHANGED <<diff, values, histvars, measured, mainvars>>

-----------------------------------------------------------------------------
(* main, in print_stat() with -v *)

(* while (stat->cycles != stat->cyclesread) *)
Unread_ahead == cyclesread <= cycles \* mutant: reads the cycle in progress
Unread == cycles # cyclesread

M_Test ==
    /\ mpc = "test"
    /\ mpc' = IF Unread THEN "read" ELSE "check"
    /\ UNCHANGED <<threadvars, mdiff, cyclesread, redmax, cycleofmax, reduce, lines>>

M_Read ==
    /\ mpc = "read"
    /\ mdiff' = values[Slot(cyclesread)]
    /\ mpc' = "reduce"
    /\ UNCHANGED <<threadvars, cyclesread, redmax, cycleofmax, reduce, lines>>

(* A new maximum of this group; a line is printed for its last cycle. *)
Larger_equal == mdiff >= redmax \* mutant: the last maximum, not the first
Larger == mdiff > redmax

M_Reduce ==
    /\ mpc = "reduce"
    /\ LET top == IF Larger THEN mdiff ELSE redmax
           at  == IF Larger THEN cyclesread ELSE cycleofmax
       IN /\ cycleofmax' = at
          /\ IF reduce + 1 = oscope_reduction
             THEN /\ lines' = Append(lines, [cycle |-> at, value |-> top])
                  /\ reduce' = 0 /\ redmax' = 0
             ELSE /\ reduce' = reduce + 1 /\ redmax' = top
                  /\ UNCHANGED lines
    /\ cyclesread' = cyclesread + 1
    /\ mpc' = "test"
    /\ UNCHANGED <<threadvars, mdiff>>

(* Back in the display loop: main leaves it once the last cycle is counted. *)
M_Check ==
    /\ mpc = "check"
    /\ mpc' = IF cycles >= max_cycles THEN "left" ELSE "test"
    /\ UNCHANGED <<threadvars, mdiff, cyclesread, redmax, cycleofmax, reduce, lines>>

Ended == pc = "done" /\ mpc = "left" /\ UNCHANGED vars

Next ==
    \/ T_Measure \/ T_Store \/ T_Hist \/ T_Count
    \/ M_Test \/ M_Read \/ M_Reduce \/ M_Check
    \/ Ended

Spec == Init /\ [][Next]_vars

-----------------------------------------------------------------------------
(* Types; the log has no more entries than it was allocated. *)
TypeOK ==
    /\ pc \in {"measure", "store", "hist", "count", "done"}
    /\ mpc \in {"test", "read", "reduce", "check", "left"}
    /\ diff \in Nat /\ mdiff \in Int /\ cycles \in 0 .. max_cycles
    /\ values \in [0 .. Size - 1 -> Int]
    /\ buckets \in [0 .. num - 1 -> Nat] /\ events \in Nat
    /\ oflows \in [0 .. num - 1 -> Nat]
    /\ oflow_count \in Nat /\ oflow_magnitude \in 0 .. W - 1
    /\ cyclesread \in 0 .. cycles
    /\ redmax \in Nat /\ cycleofmax \in Nat /\ reduce \in 0 .. oscope_reduction - 1

(* The latency measured in cycle c, cycles counting from 0 *)
Sample(c) == measured[c + 1]

(* ... and what the ring and print_stat make of it *)
Shown(c) == ToLong(Sample(c))

(* As long as the display is not lapped, a cycle that is counted and not    *)
(* yet read is still in the ring, also while the thread stores the next.    *)
UnreadKept ==
    KeepsUp => \A c \in cyclesread .. cycles - 1 : values[Slot(c)] = Shown(c)

(* The cycles that line i stands for *)
Group(i) == (i - 1) * oscope_reduction .. i * oscope_reduction - 1

(* Each line of -v -o shows the largest latency of its group of cycles, and *)
(* unless that is zero the first cycle of the group that had it; a latency  *)
(* that a long cannot hold is negative there and never shown.               *)
LinesShowMaxima ==
    KeepsUp => \A i \in 1 .. Len(lines) :
        LET v == lines[i].value
            c == lines[i].cycle
        IN /\ v = Max({0} \cup {Shown(k) : k \in Group(i)})
           /\ v > 0 => c = Min({k \in Group(i) : Shown(k) = v})

(* Cycles counted by the histogram so far, and those of them that overflow *)
Entered == 0 .. events - 1
Over == {c \in Entered : Sample(c) >= num}

(* Each bucket counts the latencies of its own. *)
BucketsExact ==
    \A b \in 0 .. num - 1 : buckets[b] = Cardinality({c \in Entered : Sample(c) = b})

(* The log holds the first overflows, in order. *)
LogExact ==
    /\ oflow_count = Cardinality(Over)
    /\ \A c \in Over : LET k == Cardinality({d \in Over : d < c})
                       IN  k < num => oflows[k] = c

(* The magnitude is the sum of the excesses, as long as a word can hold it. *)
MagnitudeExact ==
    LET excess == MapThenSumSet(LAMBDA c : Sample(c) - num, Over)
    IN  excess < W => oflow_magnitude = excess

(* The histogram agrees with the latencies measured. *)
HistogramExact == BucketsExact /\ LogExact /\ MagnitudeExact
=============================================================================
