---------------------------- MODULE Samples_proof ----------------------------
(***************************************************************************)
(* Proofs about Samples for any size of the ring, any reduction, any       *)
(* number of buckets and any set of latencies: the display never reads a   *)
(* slot that was overwritten, its lines show the maxima of their groups,   *)
(* and the buckets and the overflow log of the histogram are exact.        *)
(***************************************************************************)
EXTENDS Samples, FiniteSetTheorems, TLAPS

-----------------------------------------------------------------------------
(* The inductive invariant *)

(* Where the thread is in its cycle, and that the display is behind it. *)
CountInv ==
    /\ measured \in Seq(Latencies)
    /\ Len(measured) = IF pc \in {"measure", "done"} THEN cycles ELSE cycles + 1
    /\ pc \in {"store", "hist", "count"} => diff = Sample(cycles)
    /\ events = IF pc = "count" THEN cycles + 1 ELSE cycles
    /\ pc = "done" <=> cycles = max_cycles
    /\ mpc \in {"read", "reduce"} => cyclesread < cycles

(* The display is not lapped, a store in progress included. *)
RingInv ==
    KeepsUp =>
        /\ cycles - cyclesread <= Size
        /\ pc \in {"hist", "count"} => /\ cycles - cyclesread < Size
                                       /\ values[Slot(cycles)] = ToLong(diff)
        /\ mpc = "reduce" => mdiff = Shown(cyclesread)

(* The value v is the maximum of zero and the samples m, as longs, of the   *)
(* cycles a .. b - 1, and unless it is zero c is the first that has it.     *)
IsMaximum(m, v, c, a, b) ==
    /\ \A k \in a .. b - 1 : ToLong(m[k + 1]) <= v
    /\ \/ v = 0
       \/ /\ c \in a .. b - 1 /\ ToLong(m[c + 1]) = v
          /\ \A k \in a .. c - 1 : ToLong(m[k + 1]) # v

(* A line of -v: a cycle and the latency shown for it. *)
Line == [cycle : Nat, value : Nat]

(* The lines, and the group that is being read. *)
LinesInv ==
    KeepsUp =>
        /\ lines \in Seq(Line)
        /\ cyclesread = Len(lines) * oscope_reduction + reduce
        /\ IsMaximum(measured, redmax, cycleofmax, cyclesread - reduce, cyclesread)
        /\ \A i \in 1 .. Len(lines) :
              IsMaximum(measured, lines[i].value, lines[i].cycle,
                        (i - 1) * oscope_reduction, i * oscope_reduction)

IInv ==
    /\ TypeOK /\ CountInv /\ RingInv /\ UnreadKept
    /\ LinesInv /\ BucketsExact /\ LogExact

-----------------------------------------------------------------------------
(* Two cycles less than a ring apart have different slots. *)
LEMMA SlotsDiffer ==
    ASSUME NEW a \in Nat, NEW b \in Nat, a < b, b - a < Size
    PROVE  Slot(a) # Slot(b)
<1> SUFFICES ASSUME Slot(a) = Slot(b) PROVE FALSE
    OBVIOUS
<1>1. Size \in Nat \ {0}
    BY SamplesAssumption DEF SamplesAssumption
<1> DEFINE p == a \div Size
           q == b \div Size
<1>2. p \in Int /\ q \in Int
    BY <1>1
<1>3. a % Size = a - Size * p /\ b % Size = b - Size * q
    BY <1>1
<1>4. a % Size = b % Size /\ a % Size \in Int
    BY <1>1 DEF Slot
<1> HIDE DEF p, q
<1>5. b - a = (q - p) * Size
  <2>1. Size * p \in Int /\ Size * q \in Int
      BY <1>1, <1>2
  <2>2. b - a = Size * q - Size * p
      BY <1>3, <1>4, <2>1
  <2>3. Size * q - Size * p = (q - p) * Size
      BY <1>1, <1>2
  <2>4. QED
      BY <2>2, <2>3
<1>6. CASE q - p <= 0
  <2>1. (q - p) * Size <= 0
      BY <1>1, <1>2, <1>6
  <2>2. QED
      BY <1>5, <2>1
<1>7. CASE q - p >= 1
  <2>1. (q - p) * Size >= Size
      BY <1>1, <1>2, <1>7
  <2>2. QED
      BY <1>1, <1>5, <2>1
<1>8. QED
    BY <1>2, <1>6, <1>7

(* A latency as a long is a number. *)
LEMMA ToLongType == \A d \in Nat : ToLong(d) \in Int
BY SamplesAssumption DEF SamplesAssumption, ToLong

(* A slot is an index of the ring. *)
LEMMA SlotInRing ==
    ASSUME NEW a \in Nat
    PROVE  Slot(a) \in 0 .. Size - 1
BY SamplesAssumption DEF SamplesAssumption, Slot

(* The latencies measured before stay what they were. *)
LEMMA SamplesKept ==
    ASSUME CountInv, TypeOK, Next
    PROVE  /\ measured' \in Seq(Latencies)
           /\ \A k \in 0 .. Len(measured) - 1 : Sample(k)' = Sample(k) /\ Sample(k) \in Nat
           /\ pc # "measure" => measured' = measured
<1>1. /\ measured \in Seq(Latencies) /\ Latencies \subseteq Nat
      /\ Len(measured) \in Nat
    BY SamplesAssumption DEF SamplesAssumption, CountInv
<1>2. \A k \in 0 .. Len(measured) - 1 : measured[k + 1] \in Nat
  <2>1. \A i \in 1 .. Len(measured) : measured[i] \in Nat
    <3> SUFFICES ASSUME NEW i \in 1 .. Len(measured) PROVE measured[i] \in Nat
        OBVIOUS
    <3>1. measured[i] \in Latencies
        BY <1>1
    <3>2. QED
        BY <1>1, <3>1
  <2>2. QED
      BY <1>1, <2>1
<1>3. CASE T_Measure
  <2>1. PICK d \in Latencies : measured' = Append(measured, d)
      BY <1>3 DEF T_Measure
  <2>2. \A k \in 0 .. Len(measured) - 1 : measured'[k + 1] = measured[k + 1]
      BY <1>1, <2>1
  <2>3. measured' \in Seq(Latencies)
      BY <1>1, <2>1
  <2>4. QED
      BY <1>2, <1>3, <2>2, <2>3 DEF Sample, T_Measure
<1>4. CASE ~T_Measure
  <2>1. measured' = measured
      BY <1>4 DEF Next, T_Store, T_Hist, T_Count, M_Test, M_Read, M_Reduce, M_Check,
         Ended, threadvars, vars
  <2>2. QED
      BY <1>1, <1>2, <2>1 DEF Sample
<1>5. QED
    BY <1>3, <1>4

(* Every step keeps the types. *)
LEMMA TypeOKNext ==
    ASSUME TypeOK, CountInv, Next
    PROVE  TypeOK'
<1> USE SamplesAssumption DEF SamplesAssumption, TypeOK, threadvars, mainvars, histvars
<1>1. CASE T_Measure
    BY <1>1 DEF T_Measure
<1>2. CASE T_Store
    BY <1>2, SlotInRing, ToLongType DEF T_Store
<1>3. CASE T_Hist
  <2>1. pc = "hist" /\ pc' = "count" /\ events' = events + 1
        /\ UNCHANGED <<diff, cycles, values, measured, mainvars>>
      BY <1>3 DEF T_Hist
  <2>2. CASE InRange(diff)
    <3>1. /\ buckets' = [buckets EXCEPT ![diff] = @ + 1]
          /\ UNCHANGED <<oflows, oflow_count, oflow_magnitude>>
        BY <1>3, <2>2, Zenon DEF T_Hist
    <3>2. buckets' \in [0 .. num - 1 -> Nat]
        BY <2>2, <3>1 DEF InRange
    <3>3. QED
        BY <2>1, <3>1, <3>2
  <2>3. CASE ~InRange(diff)
    <3> DEFINE sum == (oflow_magnitude + (diff - num)) % W
    <3>1. sum \in 0 .. W - 1
        BY <2>3 DEF InRange
    <3>2. /\ oflow_magnitude' = IF sum > oflow_magnitude THEN sum ELSE oflow_magnitude
          /\ oflows' = IF LogFull THEN oflows ELSE [oflows EXCEPT ![oflow_count] = events]
          /\ oflow_count' = oflow_count + 1 /\ buckets' = buckets
        BY <1>3, <2>3 DEF T_Hist
    <3> HIDE DEF sum
    <3>3. oflow_magnitude' \in 0 .. W - 1
        BY <3>1, <3>2
    <3>4. oflows' \in [0 .. num - 1 -> Nat]
        BY <3>2 DEF LogFull
    <3>5. QED
        BY <2>1, <3>2, <3>3, <3>4
  <2>4. QED
      BY <2>2, <2>3
<1>4. CASE T_Count
    BY <1>4, SMTT(30) DEF T_Count, CountInv
<1>5. CASE M_Test
    BY <1>5 DEF M_Test
<1>6. CASE M_Read
  <2>1. Slot(cyclesread) \in 0 .. Size - 1
    <3>1. cyclesread \in Nat
        OBVIOUS
    <3>2. QED
        BY ONLY <3>1, SlotInRing
  <2>2. QED
      BY <1>6, <2>1 DEF M_Read
<1>7. CASE M_Reduce
  <2>1. redmax' \in Nat /\ cycleofmax' \in Nat
      BY <1>7 DEF M_Reduce, Larger
  <2>2. reduce' \in 0 .. oscope_reduction - 1
      BY <1>7 DEF M_Reduce
  <2>3. /\ mpc' = "test" /\ cyclesread' = cyclesread + 1 /\ cyclesread < cycles
        /\ UNCHANGED <<threadvars, mdiff>>
      BY <1>7 DEF M_Reduce, CountInv
  <2>4. QED
      BY <2>1, <2>2, <2>3, SMTT(30)
<1>8. CASE M_Check
    BY <1>8 DEF M_Check
<1>9. CASE Ended
    BY <1>9 DEF Ended, vars
<1>10. QED
    BY <1>1, <1>2, <1>3, <1>4, <1>5, <1>6, <1>7, <1>8, <1>9 DEF Next

(* Every step keeps the counts together. *)
LEMMA CountInvNext ==
    ASSUME TypeOK, CountInv, Next
    PROVE  CountInv'
<1> USE SamplesAssumption DEF SamplesAssumption, TypeOK, CountInv, threadvars, mainvars,
        histvars, Sample
<1>1. CASE T_Measure
  <2>1. PICK d \in Latencies : diff' = d /\ measured' = Append(measured, d)
      BY <1>1 DEF T_Measure
  <2>2. QED
      BY <1>1, <2>1, SMTT(30) DEF T_Measure
<1>2. CASE T_Store
    BY <1>2 DEF T_Store
<1>3. CASE T_Hist
  <2>1. /\ pc = "hist" /\ pc' = "count" /\ events' = events + 1
        /\ UNCHANGED <<diff, cycles, measured, mpc, cyclesread>>
      BY <1>3 DEF T_Hist
  <2>2. QED
      BY <2>1
<1>4. CASE T_Count
    BY <1>4 DEF T_Count
<1>5. CASE M_Test
    BY <1>5 DEF M_Test, Unread
<1>6. CASE M_Read
    BY <1>6 DEF M_Read
<1>7. CASE M_Reduce
  <2>1. mpc' = "test" /\ UNCHANGED threadvars
      BY <1>7 DEF M_Reduce
  <2>2. QED
      BY <2>1
<1>8. CASE M_Check
    BY <1>8 DEF M_Check
<1>9. CASE Ended
    BY <1>9 DEF Ended, vars
<1>10. QED
    BY <1>1, <1>2, <1>3, <1>4, <1>5, <1>6, <1>7, <1>8, <1>9 DEF Next

(* Every step keeps the unread cycles in the ring. *)
LEMMA RingNext ==
    ASSUME TypeOK, CountInv, RingInv, UnreadKept, Next
    PROVE  RingInv' /\ UnreadKept'
<1> SUFFICES ASSUME KeepsUp PROVE RingInv' /\ UnreadKept'
    BY DEF RingInv, UnreadKept
<1>0. /\ cycles \in Nat /\ cyclesread \in Nat /\ cyclesread <= cycles
      /\ Size \in Nat \ {0} /\ values \in [0 .. Size - 1 -> Int]
    BY SamplesAssumption DEF SamplesAssumption, TypeOK
<1>1. /\ cycles - cyclesread <= Size
      /\ pc \in {"hist", "count"} => /\ cycles - cyclesread < Size
                                     /\ values[Slot(cycles)] = ToLong(diff)
      /\ mpc = "reduce" => mdiff = Shown(cyclesread)
      /\ \A c \in cyclesread .. cycles - 1 : values[Slot(c)] = Shown(c)
    BY DEF RingInv, UnreadKept
<1>2. \A c \in 0 .. cycles - 1 : Shown(c)' = Shown(c)
  <2>1. Len(measured) >= cycles /\ Len(measured) \in Nat
      BY <1>0 DEF CountInv
  <2>2. QED
      BY <1>0, <2>1, SamplesKept DEF Shown, ToLong
<1>3. SUFFICES /\ (cycles - cyclesread <= Size)'
               /\ (pc \in {"hist", "count"} => /\ cycles - cyclesread < Size
                                               /\ values[Slot(cycles)] = ToLong(diff))'
               /\ (mpc = "reduce" => mdiff = Shown(cyclesread))'
               /\ \A c \in cyclesread' .. cycles' - 1 : values'[Slot(c)] = Shown(c)'
    BY DEF RingInv, UnreadKept
<1>4. CASE T_Measure
    BY <1>0, <1>1, <1>2, <1>4 DEF T_Measure, mainvars, CountInv
<1>5. CASE T_Store
  <2>1. /\ cycles - cyclesread < Size /\ pc' = "hist"
        /\ values' = [values EXCEPT ![Slot(cycles)] = ToLong(diff)]
        /\ UNCHANGED <<diff, cycles, measured, cyclesread, mpc, mdiff>>
      BY <1>5 DEF T_Store, mainvars
  <2>2. Slot(cycles) \in 0 .. Size - 1 /\ Slot(cycles)' = Slot(cycles)
      BY <1>0, <2>1, SlotInRing DEF Slot
  <2>3. \A c \in cyclesread .. cycles - 1 : Slot(c) # Slot(cycles) /\ Slot(c) \in 0 .. Size - 1
    <3> SUFFICES ASSUME NEW c \in cyclesread .. cycles - 1
                 PROVE  Slot(c) # Slot(cycles) /\ Slot(c) \in 0 .. Size - 1
        OBVIOUS
    <3>1. c \in Nat /\ c < cycles /\ cycles - c < Size
        BY <1>0, <2>1
    <3>2. QED
        BY <1>0, <3>1, SlotsDiffer, SlotInRing
  <2>4. \A c \in cyclesread .. cycles - 1 : values'[Slot(c)] = values[Slot(c)]
      BY <1>0, <2>1, <2>3
  <2>5. values'[Slot(cycles)] = ToLong(diff)
      BY <1>0, <2>1, <2>2
  <2>6. QED
      BY <1>0, <1>1, <2>1, <2>2, <2>4, <2>5 DEF Shown, Sample, ToLong
<1>6. CASE T_Hist
  <2>1. /\ pc = "hist" /\ UNCHANGED <<diff, cycles, values, measured, cyclesread, mpc, mdiff>>
      BY <1>6 DEF T_Hist, mainvars
  <2>2. QED
      BY <1>1, <2>1 DEF Shown, Sample, ToLong, Slot
<1>7. CASE T_Count
  <2>1. /\ pc = "count" /\ cycles' = cycles + 1 /\ pc' \notin {"hist", "count"}
        /\ UNCHANGED <<diff, values, measured, cyclesread, mpc, mdiff>>
      BY <1>7 DEF T_Count, mainvars
  <2>2. values[Slot(cycles)] = Shown(cycles)
      BY <1>1, <2>1 DEF CountInv, Shown
  <2>3. QED
      BY <1>0, <1>1, <2>1, <2>2 DEF Shown, Sample, ToLong
<1>8. CASE M_Test \/ M_Check \/ Ended
  <2>1. /\ UNCHANGED <<threadvars, cyclesread>>
        /\ mpc' = "reduce" => mpc = "reduce" /\ mdiff' = mdiff
      BY <1>8 DEF M_Test, M_Check, Ended, vars, mainvars
  <2>2. QED
      BY <1>1, <2>1 DEF Shown, Sample, ToLong, Slot, threadvars
<1>9. CASE M_Read
  <2>1. /\ mpc = "read" /\ mdiff' = values[Slot(cyclesread)]
        /\ UNCHANGED <<threadvars, cyclesread>>
      BY <1>9 DEF M_Read
  <2>2. mdiff' = Shown(cyclesread)
      BY <1>0, <1>1, <2>1 DEF CountInv
  <2>3. QED
      BY <1>1, <2>1, <2>2 DEF Shown, Sample, ToLong, Slot, threadvars
<1>10. CASE M_Reduce
  <2>1. mpc' = "test" /\ cyclesread' = cyclesread + 1 /\ UNCHANGED threadvars
      BY <1>10 DEF M_Reduce
  <2>2. UNCHANGED <<pc, cycles, values, diff, measured>>
      BY <2>1 DEF threadvars
  <2>3. /\ cycles' - cyclesread' <= Size
        /\ cycles - cyclesread < Size => cycles' - cyclesread' < Size
      BY <1>0, <1>1, <2>1, <2>2
  <2>4. (values[Slot(cycles)])' = values[Slot(cycles)]
      BY <2>2 DEF Slot
  <2>5. \A c \in cyclesread' .. cycles' - 1 : values'[Slot(c)] = Shown(c)'
      BY <1>0, <1>1, <2>1, <2>2 DEF Shown, Sample, ToLong
  <2>6. QED
      BY <1>1, <2>1, <2>2, <2>3, <2>4, <2>5
<1>11. QED
    BY <1>4, <1>5, <1>6, <1>7, <1>8, <1>9, <1>10 DEF Next

(* A maximum of the cycles of the past stays one. *)
LEMMA MaximumKept ==
    ASSUME NEW m, NEW n, NEW v \in Nat, NEW c \in Nat, NEW a \in Nat, NEW b \in Nat,
           IsMaximum(m, v, c, a, b), \A k \in 0 .. b - 1 : n[k + 1] = m[k + 1]
    PROVE  IsMaximum(n, v, c, a, b)
BY DEF IsMaximum

(* The next cycle is taken into the maximum. *)
LEMMA MaximumExtended ==
    ASSUME NEW m, NEW v \in Nat, NEW c \in Nat, NEW a \in Nat, NEW b \in Nat, a <= b,
           IsMaximum(m, v, c, a, b), \A k \in a .. b : ToLong(m[k + 1]) \in Int
    PROVE  IsMaximum(m, IF ToLong(m[b + 1]) > v THEN ToLong(m[b + 1]) ELSE v,
                     IF ToLong(m[b + 1]) > v THEN b ELSE c, a, b + 1)
<1>1. CASE ToLong(m[b + 1]) > v
    BY <1>1 DEF IsMaximum
<1>2. CASE ~(ToLong(m[b + 1]) > v)
    BY <1>2 DEF IsMaximum
<1>3. QED
    BY <1>1, <1>2

(* The arithmetic of the groups *)
LEMMA GroupBound ==
    ASSUME NEW n \in Nat, NEW i \in 1 .. n
    PROVE  /\ (i - 1) * oscope_reduction \in Nat /\ i * oscope_reduction \in Nat
           /\ (i - 1) * oscope_reduction < i * oscope_reduction
           /\ i * oscope_reduction <= n * oscope_reduction
<1>1. oscope_reduction \in Nat \ {0}
    BY SamplesAssumption DEF SamplesAssumption
<1>2. (i - 1) * oscope_reduction = i * oscope_reduction - oscope_reduction
    BY <1>1
<1>3. (n - i) * oscope_reduction >= 0 /\ (i - 1) * oscope_reduction >= 0
    BY <1>1
<1>4. (n - i) * oscope_reduction = n * oscope_reduction - i * oscope_reduction
    BY <1>1
<1>5. QED
    BY <1>1, <1>2, <1>3, <1>4

(* Every step keeps the lines, and the maximum of the group in progress. *)
LEMMA LinesInvNext ==
    ASSUME TypeOK, CountInv, RingInv, LinesInv, Next
    PROVE  LinesInv'
<1> SUFFICES ASSUME KeepsUp PROVE LinesInv'
    BY DEF LinesInv
<1> DEFINE R == oscope_reduction
<1>0. /\ cycles \in Nat /\ cyclesread \in Nat /\ cyclesread <= cycles
      /\ reduce \in 0 .. R - 1 /\ redmax \in Nat /\ cycleofmax \in Nat /\ mdiff \in Int
      /\ R \in Nat \ {0} /\ Len(measured) \in Nat /\ Len(measured) >= cycles
    BY SamplesAssumption DEF SamplesAssumption, TypeOK, CountInv
<1>1. /\ lines \in Seq(Line) /\ Len(lines) \in Nat
      /\ cyclesread = Len(lines) * R + reduce
      /\ IsMaximum(measured, redmax, cycleofmax, cyclesread - reduce, cyclesread)
      /\ \A i \in 1 .. Len(lines) :
            IsMaximum(measured, lines[i].value, lines[i].cycle, (i - 1) * R, i * R)
    BY DEF LinesInv
<1>2. \A k \in 0 .. cycles - 1 : measured'[k + 1] = measured[k + 1] /\ measured[k + 1] \in Nat
  <2>1. 0 .. cycles - 1 \subseteq 0 .. Len(measured) - 1
      BY <1>0
  <2>2. QED
      BY <2>1, SamplesKept DEF Sample
<1>3. /\ Len(lines) * R \in Nat /\ cyclesread - reduce = Len(lines) * R
      /\ cyclesread - reduce \in Nat /\ Len(lines) * R <= cyclesread
    BY <1>0, <1>1
<1>4. \A i \in 1 .. Len(lines) :
         /\ lines[i].value \in Nat /\ lines[i].cycle \in Nat
         /\ (i - 1) * R \in Nat /\ i * R \in Nat /\ i * R <= cyclesread
  <2> SUFFICES ASSUME NEW i \in 1 .. Len(lines)
               PROVE  /\ lines[i].value \in Nat /\ lines[i].cycle \in Nat
                      /\ (i - 1) * R \in Nat /\ i * R \in Nat /\ i * R <= cyclesread
      OBVIOUS
  <2>1. lines[i] \in Line
      BY <1>1
  <2>2. (i - 1) * R \in Nat /\ i * R \in Nat /\ i * R <= Len(lines) * R
      BY <1>1, GroupBound
  <2>3. i * R <= cyclesread
      BY <1>0, <1>3, <2>2
  <2>4. QED
      BY <2>1, <2>2, <2>3 DEF Line
<1>5. CASE UNCHANGED <<lines, cyclesread, reduce, redmax, cycleofmax>>
  <2>1. IsMaximum(measured', redmax, cycleofmax, cyclesread - reduce, cyclesread)
    <3>1. \A k \in 0 .. cyclesread - 1 : measured'[k + 1] = measured[k + 1]
        BY <1>0, <1>2
    <3>2. QED
        BY ONLY <1>0, <1>1, <1>3, <3>1, MaximumKept
  <2>2. ASSUME NEW i \in 1 .. Len(lines)
        PROVE  IsMaximum(measured', lines[i].value, lines[i].cycle, (i - 1) * R, i * R)
    <3>1. \A k \in 0 .. i * R - 1 : measured'[k + 1] = measured[k + 1]
        BY <1>0, <1>2, <1>4, SMTT(30)
    <3>2. QED
        BY <1>1, <1>4, <3>1, MaximumKept
  <2>3. QED
      BY <1>1, <1>5, <2>1, <2>2 DEF LinesInv
<1>6. CASE M_Reduce
  <2> DEFINE top == IF mdiff > redmax THEN mdiff ELSE redmax
             at  == IF mdiff > redmax THEN cyclesread ELSE cycleofmax
  <2>1. /\ mdiff = ToLong(measured[cyclesread + 1])
        /\ cyclesread < cycles /\ measured' = measured
      BY <1>6 DEF M_Reduce, RingInv, CountInv, Shown, Sample, threadvars
  <2>2. IsMaximum(measured, top, at, cyclesread - reduce, cyclesread + 1)
    <3>1. \A k \in cyclesread - reduce .. cyclesread : ToLong(measured[k + 1]) \in Int
      <4>1. \A k \in cyclesread - reduce .. cyclesread : measured[k + 1] \in Nat
          BY <1>0, <1>2, <1>3, <2>1
      <4>2. QED
          BY <4>1, ToLongType
    <3>2. cyclesread - reduce \in Nat /\ cyclesread - reduce <= cyclesread
        BY <1>0, <1>3
    <3>3. QED
        BY <1>0, <1>1, <2>1, <3>1, <3>2, MaximumExtended
  <2>3. top \in Nat /\ at \in Nat
      BY <1>0
  <2>4. /\ cycleofmax' = at /\ cyclesread' = cyclesread + 1
        /\ reduce + 1 = R => /\ lines' = Append(lines, [cycle |-> at, value |-> top])
                             /\ reduce' = 0 /\ redmax' = 0
        /\ reduce + 1 # R => reduce' = reduce + 1 /\ redmax' = top /\ lines' = lines
      BY <1>6 DEF M_Reduce, Larger
  <2> HIDE DEF top, at
  <2>5. CASE reduce + 1 = R
    <3> DEFINE n == Len(lines) + 1
    <3>1. /\ lines' \in Seq(Line) /\ Len(lines') = n
          /\ lines'[n] = [cycle |-> at, value |-> top]
          /\ \A i \in 1 .. Len(lines) : lines'[i] = lines[i]
      <4>1. [cycle |-> at, value |-> top] \in Line
          BY <2>3 DEF Line
      <4> DEFINE line == [cycle |-> at, value |-> top]
      <4>2. line \in Line /\ lines' = Append(lines, line)
          BY <2>4, <2>5, <4>1
      <4> HIDE DEF line
      <4>3. /\ lines' \in Seq(Line) /\ Len(lines') = n /\ lines'[n] = line
            /\ \A i \in 1 .. Len(lines) : lines'[i] = lines[i]
          BY <1>1, <4>2
      <4>4. QED
          BY <4>3 DEF line
    <3>2. n * R = Len(lines) * R + R
        BY <1>0, <1>1
    <3>3. cyclesread + 1 = n * R /\ (n - 1) * R = cyclesread - reduce
      <4>1. n - 1 = Len(lines)
          BY <1>1
      <4>2. cyclesread + 1 = Len(lines) * R + R
        <5> DEFINE x == Len(lines) * R
        <5>1. x \in Nat /\ cyclesread = x + reduce
            BY <1>1, <1>3
        <5> HIDE DEF x
        <5>2. cyclesread + 1 = x + R
            BY <1>0, <2>5, <5>1
        <5>3. QED
            BY <5>2 DEF x
      <4>3. QED
          BY <1>3, <3>2, <4>1, <4>2
    <3>4. cyclesread' = Len(lines') * R + reduce'
        BY <1>0, <1>1, <2>4, <2>5, <3>1, <3>3
    <3>5. IsMaximum(measured', redmax', cycleofmax', cyclesread' - reduce', cyclesread')
        BY <1>0, <2>4, <2>5 DEF IsMaximum
    <3>6. ASSUME NEW i \in 1 .. n
          PROVE  IsMaximum(measured', lines'[i].value, lines'[i].cycle, (i - 1) * R, i * R)
      <4>1. CASE i = n
        <5>1. lines'[i].value = top /\ lines'[i].cycle = at
            BY <3>1, <4>1
        <5>2. QED
            BY <2>1, <2>2, <3>3, <4>1, <5>1
      <4>2. CASE i # n
        <5>1. i \in 1 .. Len(lines)
            BY <1>1, <4>2
        <5>2. QED
            BY <1>1, <2>1, <3>1, <5>1
      <4>3. QED
          BY <4>1, <4>2
    <3>7. QED
        BY <3>1, <3>4, <3>5, <3>6 DEF LinesInv
  <2>6. CASE reduce + 1 # R
    <3>1. cyclesread' - reduce' = cyclesread - reduce
        BY <1>0, <2>4, <2>6
    <3>2. cyclesread' = Len(lines') * R + reduce'
        BY <1>0, <1>1, <1>3, <2>4, <2>6
    <3>3. IsMaximum(measured', redmax', cycleofmax', cyclesread' - reduce', cyclesread')
        BY <2>1, <2>2, <2>4, <2>6, <3>1
    <3>4. QED
        BY <1>1, <2>1, <2>4, <2>6, <3>2, <3>3 DEF LinesInv
  <2>7. QED
      BY <2>5, <2>6
<1>7. CASE ~M_Reduce
  <2>1. UNCHANGED <<lines, cyclesread, reduce, redmax, cycleofmax>>
      BY <1>7 DEF Next, T_Measure, T_Store, T_Hist, T_Count, M_Test, M_Read, M_Check,
         Ended, mainvars, vars
  <2>2. QED
      BY <1>5, <2>1
<1>8. QED
    BY <1>6, <1>7

(* The cycles entered so far, and how a step of hist_sample adds one. *)
LEMMA EnteredNext ==
    ASSUME TypeOK, CountInv, Next
    PROVE  /\ \A c \in Entered : Sample(c)' = Sample(c) /\ Sample(c) \in Nat
           /\ IsFiniteSet(Entered) /\ events \in Nat
           /\ ~T_Hist => UNCHANGED <<events, buckets, oflows, oflow_count>>
           /\ T_Hist => /\ Entered' = Entered \cup {events} /\ events \notin Entered
                        /\ \A c \in {events} : Sample(c)' = diff /\ Sample(c) = diff
<1>1. /\ events \in Nat /\ cycles \in Nat /\ Len(measured) \in Nat
      /\ events <= Len(measured)
    BY SamplesAssumption DEF SamplesAssumption, TypeOK, CountInv
<1>2. \A c \in Entered : Sample(c)' = Sample(c) /\ Sample(c) \in Nat
  <2>1. Entered \subseteq 0 .. Len(measured) - 1
      BY <1>1 DEF Entered
  <2>2. QED
      BY <2>1, SamplesKept
<1>3. IsFiniteSet(Entered)
    BY <1>1, FS_Interval DEF Entered
<1>4. ~T_Hist => UNCHANGED <<events, buckets, oflows, oflow_count>>
    BY DEF Next, T_Measure, T_Store, T_Count, M_Test, M_Read, M_Reduce, M_Check, Ended,
       threadvars, histvars, vars
<1>5. ASSUME T_Hist
      PROVE  /\ Entered' = Entered \cup {events} /\ events \notin Entered
             /\ \A c \in {events} : Sample(c)' = diff /\ Sample(c) = diff
  <2>1. pc = "hist" /\ events' = events + 1 /\ UNCHANGED measured
      BY <1>5 DEF T_Hist
  <2>2. events = cycles /\ diff = Sample(cycles)
      BY <2>1 DEF CountInv
  <2>3. Entered' = Entered \cup {events} /\ events \notin Entered
      BY <1>1, <2>1 DEF Entered
  <2>4. QED
      BY <2>1, <2>2, <2>3 DEF Sample
<1>6. QED
    BY <1>1, <1>2, <1>3, <1>4, <1>5

(* Every step keeps the buckets exact. *)
LEMMA BucketsNext ==
    ASSUME TypeOK, CountInv, BucketsExact, Next
    PROVE  BucketsExact'
<1> DEFINE In(b) == {c \in Entered : Sample(c) = b}
<1>1. /\ \A c \in Entered : Sample(c)' = Sample(c) /\ Sample(c) \in Nat
      /\ IsFiniteSet(Entered)
    BY EnteredNext
<1>2. CASE ~T_Hist
  <2>1. UNCHANGED <<events, buckets>>
      BY <1>2, EnteredNext
  <2>2. Entered' = Entered
      BY <2>1 DEF Entered
  <2>3. \A b \in 0 .. num - 1 : In(b)' = In(b)
      BY <1>1, <2>2
  <2>4. QED
      BY <2>1, <2>3 DEF BucketsExact
<1>3. CASE T_Hist
  <2>1. /\ Entered' = Entered \cup {events} /\ events \notin Entered
        /\ \A c \in {events} : Sample(c)' = diff /\ Sample(c) = diff
      BY <1>3, EnteredNext
  <2>2. ASSUME NEW b \in 0 .. num - 1
        PROVE  buckets'[b] = Cardinality(In(b)')
    <3>1. In(b)' = IF b = diff THEN In(b) \cup {events} ELSE In(b)
        BY <1>1, <2>1
    <3>2. IsFiniteSet(In(b)) /\ events \notin In(b) /\ buckets[b] = Cardinality(In(b))
        BY <1>1, <2>1, FS_Subset DEF BucketsExact
    <3>3. Cardinality(In(b) \cup {events}) = Cardinality(In(b)) + 1
        BY <3>2, FS_AddElement
    <3>4. buckets'[b] = IF b = diff THEN buckets[b] + 1 ELSE buckets[b]
      <4>1. CASE InRange(diff)
        <5>1. buckets' = [buckets EXCEPT ![diff] = @ + 1]
            BY <1>3, <4>1, Zenon DEF T_Hist
        <5>2. QED
            BY <4>1, <5>1 DEF TypeOK, InRange
      <4>2. CASE ~InRange(diff)
        <5>1. buckets' = buckets
            BY <1>3, <4>2, Zenon DEF T_Hist
        <5>2. b # diff
            BY <4>2, SamplesAssumption DEF SamplesAssumption, InRange, TypeOK
        <5>3. QED
            BY <5>1, <5>2
      <4>3. QED
          BY <4>1, <4>2
    <3>5. QED
        BY <3>1, <3>2, <3>3, <3>4
  <2>3. QED
      BY <2>2 DEF BucketsExact
<1>4. QED
    BY <1>2, <1>3

(* Every step keeps the overflow log exact. *)
LEMMA LogNext ==
    ASSUME TypeOK, CountInv, LogExact, Next
    PROVE  LogExact'
<1> DEFINE Before(c) == {d \in Over : d < c}
<1>1. /\ \A c \in Entered : Sample(c)' = Sample(c) /\ Sample(c) \in Nat /\ c \in Nat
      /\ IsFiniteSet(Entered) /\ events \in Nat /\ num \in Nat
      /\ \A c \in Entered : c < events
    BY EnteredNext, SamplesAssumption DEF SamplesAssumption, Entered
<1>2. /\ oflow_count = Cardinality(Over)
      /\ \A c \in Over : Cardinality(Before(c)) < num => oflows[Cardinality(Before(c))] = c
    BY DEF LogExact
<1>3. IsFiniteSet(Over) /\ Over \subseteq Entered
    BY <1>1, FS_Subset DEF Over
<1>4. SUFFICES /\ oflow_count' = Cardinality(Over')
               /\ \A c \in Over' : Cardinality(Before(c)') < num =>
                     oflows'[Cardinality(Before(c)')] = c
    BY DEF LogExact
<1>5. CASE ~T_Hist
  <2>1. UNCHANGED <<events, oflows, oflow_count>>
      BY <1>5, EnteredNext
  <2>2. Over' = Over
      BY <1>1, <2>1 DEF Over, Entered
  <2>3. QED
      BY <1>2, <2>1, <2>2
<1>6. CASE T_Hist
  <2>1. /\ Entered' = Entered \cup {events} /\ events \notin Entered
        /\ \A c \in {events} : Sample(c)' = diff /\ Sample(c) = diff
      BY <1>6, EnteredNext
  <2>2. CASE InRange(diff)
    <3>1. UNCHANGED <<oflows, oflow_count>>
        BY <1>6, <2>2, Zenon DEF T_Hist
    <3>2. ~(diff >= num)
        BY <1>1, <2>2 DEF InRange, TypeOK
    <3>3. Over' = Over
        BY <1>1, <2>1, <3>2 DEF Over
    <3>4. QED
        BY <1>2, <3>1, <3>3
  <2>3. CASE ~InRange(diff)
    <3>1. /\ oflows' = IF LogFull THEN oflows ELSE [oflows EXCEPT ![oflow_count] = events]
          /\ oflow_count' = oflow_count + 1
        BY <1>6, <2>3, Zenon DEF T_Hist
    <3>2. diff >= num
        BY <1>1, <2>3 DEF InRange, TypeOK
    <3>3. Over' = Over \cup {events} /\ events \notin Over
        BY <1>1, <2>1, <3>2 DEF Over
    <3>4. Cardinality(Over') = Cardinality(Over) + 1
        BY <1>3, <3>3, FS_AddElement
    <3>5. oflows \in [0 .. num - 1 -> Nat] /\ oflow_count \in Nat
        BY DEF TypeOK
    <3>6. ASSUME NEW c \in Over', Cardinality(Before(c)') < num
          PROVE  oflows'[Cardinality(Before(c)')] = c
      <4>1. CASE c = events
        <5>1. Before(c)' = Over
          <6>1. \A d \in Over : d < c
              BY <1>1, <1>3, <4>1
          <6>2. ~(c < c) /\ Over' = Over \cup {c}
              BY <1>1, <3>3, <4>1
          <6>3. \A d : d \in Before(c)' <=> d \in Over
              BY <6>1, <6>2
          <6>4. QED
              BY <6>3
        <5>2. Cardinality(Before(c)') = oflow_count
            BY <1>2, <5>1
        <5>3. ~LogFull /\ oflow_count \in 0 .. num - 1
            BY <1>1, <3>5, <3>6, <5>2 DEF LogFull
        <5>4. QED
            BY <3>1, <3>5, <4>1, <5>2, <5>3
      <4>2. CASE c # events
        <5>1. c \in Over /\ Before(c)' = Before(c)
            BY <1>1, <1>3, <3>3, <4>2
        <5>2. Cardinality(Before(c)) \in Nat /\ Cardinality(Before(c)) < oflow_count
          <6>1. Before(c) \subseteq Over \ {c}
              BY <1>1, <1>3
          <6>2. /\ IsFiniteSet(Over \ {c})
                /\ Cardinality(Over \ {c}) = Cardinality(Over) - 1
              BY <1>3, <5>1, FS_RemoveElement
          <6>3. /\ IsFiniteSet(Before(c))
                /\ Cardinality(Before(c)) <= Cardinality(Over \ {c})
              BY <6>1, <6>2, FS_Subset
          <6>4. Cardinality(Before(c)) \in Nat
              BY <6>3, FS_CardinalityType
          <6>5. QED
              BY <1>2, <3>5, <6>2, <6>3, <6>4
        <5>3. oflows'[Cardinality(Before(c))] = oflows[Cardinality(Before(c))]
            BY <1>1, <3>1, <3>5, <3>6, <5>1, <5>2
        <5>4. QED
            BY <1>2, <3>6, <5>1, <5>3
      <4>3. QED
          BY <4>1, <4>2
    <3>7. QED
        BY <1>2, <3>1, <3>4, <3>6
  <2>4. QED
      BY <2>2, <2>3
<1>7. QED
    BY <1>5, <1>6

-----------------------------------------------------------------------------
(* The invariant holds before the first measurement, ... *)
LEMMA IInvInit == Init => IInv
<1> SUFFICES ASSUME Init PROVE IInv
    OBVIOUS
<1> USE SamplesAssumption DEF SamplesAssumption, Init
<1>1. TypeOK
    BY DEF TypeOK
<1>2. CountInv /\ RingInv /\ UnreadKept
    BY DEF CountInv, RingInv, UnreadKept
<1>3. LinesInv
    BY DEF LinesInv, IsMaximum
<1>4. Entered = {}
    BY DEF Entered
<1>5. BucketsExact
  <2>1. \A b \in 0 .. num - 1 : {c \in Entered : Sample(c) = b} = {}
      BY <1>4
  <2>2. QED
      BY <2>1, FS_EmptySet DEF BucketsExact
<1>6. LogExact
  <2>1. Over = {}
      BY <1>4 DEF Over
  <2>2. QED
      BY <2>1, FS_EmptySet DEF LogExact
<1>7. QED
    BY <1>1, <1>2, <1>3, <1>5, <1>6 DEF IInv

(* ... and every step keeps it. *)
LEMMA IInvNext ==
    ASSUME IInv, [Next]_vars
    PROVE  IInv'
<1>1. CASE Next
    BY <1>1, TypeOKNext, CountInvNext, RingNext, LinesInvNext, BucketsNext, LogNext
       DEF IInv
<1>2. CASE UNCHANGED vars
  <2> USE <1>2 DEF IInv, vars, threadvars, mainvars, histvars
  <2>1. TypeOK' /\ CountInv' /\ RingInv' /\ UnreadKept' /\ LinesInv'
      BY DEF TypeOK, CountInv, RingInv, UnreadKept, LinesInv, Shown, Sample, Slot
  <2>2. BucketsExact' /\ LogExact'
      BY DEF BucketsExact, LogExact, Over, Entered, Sample
  <2>3. QED
      BY <2>1, <2>2
<1>3. QED
    BY <1>1, <1>2

(* So it holds in every state. *)
LEMMA IInvHolds == Spec => []IInv
<1>1. Init => IInv
    BY IInvInit
<1>2. IInv /\ [Next]_vars => IInv'
    BY IInvNext
<1>3. QED
    BY <1>1, <1>2, PTL DEF Spec

-----------------------------------------------------------------------------
(* Type correctness: no index of the ring, of the buckets or of the         *)
(* overflow log is out of range, and the display never reads ahead.         *)
THEOREM TypeCorrect == Spec => []TypeOK
<1>1. IInv => TypeOK
    BY DEF IInv
<1>2. QED
    BY <1>1, IInvHolds, PTL

(* As long as the display is not lapped, a cycle that is counted and not    *)
(* yet read is still in the ring, for any size of the ring.                 *)
THEOREM UnreadStayInRing == Spec => []UnreadKept
<1>1. IInv => UnreadKept
    BY DEF IInv
<1>2. QED
    BY <1>1, IInvHolds, PTL

(* Each line of -v -o shows the largest latency of its group of cycles and  *)
(* the first cycle that had it, for any reduction and any latencies.        *)
THEOREM LinesAreMaxima == Spec => []LinesShowMaxima
<1>1. IInv => LinesShowMaxima
  <2> SUFFICES ASSUME IInv, KeepsUp, NEW i \in 1 .. Len(lines)
               PROVE  LET v == lines[i].value
                          c == lines[i].cycle
                      IN  /\ v = Max({0} \cup {Shown(k) : k \in Group(i)})
                          /\ v > 0 => c = Min({k \in Group(i) : Shown(k) = v})
      BY DEF LinesShowMaxima
  <2> DEFINE v == lines[i].value
             c == lines[i].cycle
             R == oscope_reduction
             S == {0} \cup {Shown(k) : k \in Group(i)}
             F == {k \in Group(i) : Shown(k) = v}
  <2>1. /\ lines[i] \in Line /\ IsMaximum(measured, v, c, (i - 1) * R, i * R)
        /\ Len(lines) \in Nat /\ cyclesread = Len(lines) * R + reduce
      BY DEF IInv, LinesInv
  <2>2. /\ (i - 1) * R \in Nat /\ i * R \in Nat /\ (i - 1) * R < i * R
        /\ i * R <= Len(lines) * R
      BY <2>1, GroupBound
  <2>3. i * R <= Len(measured) /\ Len(measured) \in Nat
    <3> DEFINE x == Len(lines) * R
    <3>1. /\ x \in Nat /\ cyclesread = x + reduce /\ i * R <= x
        BY <2>1, <2>2, SamplesAssumption DEF SamplesAssumption
    <3> HIDE DEF x
    <3>2. reduce \in Nat /\ cyclesread <= cycles /\ cycles \in Nat
          /\ Len(measured) \in Nat /\ cycles <= Len(measured)
        BY SamplesAssumption DEF SamplesAssumption, IInv, TypeOK, CountInv
    <3>3. QED
        BY <2>2, <3>1, <3>2
  <2>4. \A k \in Group(i) : Shown(k) \in Int /\ k \in Nat
    <3>1. \A n \in 1 .. Len(measured) : measured[n] \in Latencies
        BY DEF IInv, CountInv
    <3>2. \A k \in Group(i) : k \in Nat /\ k + 1 \in 1 .. Len(measured)
        BY <2>2, <2>3 DEF Group
    <3>3. \A k \in Group(i) : Sample(k) \in Nat
      <4>1. \A d \in Latencies : d \in Nat
          BY SamplesAssumption DEF SamplesAssumption
      <4>2. QED
          BY ONLY <3>1, <3>2, <4>1 DEF Sample
    <3>4. QED
        BY <3>2, <3>3, ToLongType DEF Shown
  <2>5. /\ \A k \in Group(i) : Shown(k) <= v
        /\ \/ v = 0
           \/ /\ c \in Group(i) /\ Shown(c) = v
              /\ \A k \in (i - 1) * R .. c - 1 : Shown(k) # v
      BY <2>1 DEF IsMaximum, Group, Shown, Sample
  <2>6. v \in Nat /\ c \in Nat
      BY <2>1 DEF Line
  <2> HIDE DEF v, c
  <2>7. v \in S /\ \A x \in S : v >= x /\ x \in Int
    <3>1. \A x \in S : v >= x /\ x \in Int
        BY <2>4, <2>5, <2>6
    <3>2. CASE v = 0
        BY <3>1, <3>2
    <3>3. CASE v # 0
      <4>1. c \in Group(i) /\ v = Shown(c)
          BY <2>5, <3>3
      <4>2. v \in S
          BY <4>1, Zenon
      <4>3. QED
          BY <3>1, <4>2
    <3>4. QED
        BY <3>1, <3>2, <3>3
  <2>8. v = Max(S)
    <3>1. \A x \in S : (\A y \in S : x >= y) => x = v
        BY <2>6, <2>7
    <3>2. QED
        BY <2>7, <3>1 DEF Max
  <2>9. ASSUME v > 0 PROVE c = Min(F)
    <3>1. c \in F /\ \A x \in F : c =< x /\ x \in Nat
      <4>1. c \in F /\ \A k \in (i - 1) * R .. c - 1 : Shown(k) # v
          BY <2>5, <2>6, <2>9
      <4>2. \A x \in F : x \in Nat /\ x >= (i - 1) * R
          BY <2>2, <2>4 DEF Group
      <4>3. QED
          BY <2>2, <2>6, <4>1, <4>2
    <3>2. \A x \in F : (\A y \in F : x =< y) => x = c
        BY <2>6, <3>1
    <3>3. QED
        BY <3>1, <3>2 DEF Min
  <2>10. QED
      BY <2>8, <2>9 DEF v, c
<1>2. QED
    BY <1>1, IInvHolds, PTL

(* The histogram agrees with the latencies measured, for any number of      *)
(* buckets: each bucket counts its own, and the overflow log holds the      *)
(* first overflows in order.                                                *)
THEOREM HistogramCounts == Spec => [](BucketsExact /\ LogExact)
<1>1. IInv => BucketsExact /\ LogExact
    BY DEF IInv
<1>2. QED
    BY <1>1, IInvHolds, PTL
=============================================================================
