-------------------------- MODULE Timecounter_proof --------------------------
(***************************************************************************)
(* Proofs about Timecounter for any number of readers, any size of the     *)
(* counter or length of its interval, any settings of the clock and any    *)
(* number of updates that is less than the number of generations.          *)
(***************************************************************************)
EXTENDS Timecounter, TLAPS

-----------------------------------------------------------------------------
(* The inductive invariant *)

(* The types of a hand, of the writer and of a reader *)
HandSet == [gen : 0 .. MaxGen, offset : Int, count : 0 .. Modulus - 1, boot : Int, wall : Int]
WriterPC == {"idle", "copy", "count", "offset", "wall", "gen", "publish", "attick", "scount"}
WriterSet == [pc : WriterPC, th : Hands, ogen : 0 .. MaxGen, new : BOOLEAN, boot : Int,
              delta : Nat, count : Nat, truth : Int]
ReaderSet == [pc : {"idle", "hand", "gen", "base", "delta"},
              kind : {"none", "uptime", "wall", "get"}, th : Hands, gen : 0 .. MaxGen,
              val : Int, count : Nat, counter : Nat,
              left : SUBSET {"count", "counter", "pending"}, start : Int,
              walls : SUBSET Int, window : BOOLEAN]

(* TypeOK, and the types of the records of the writer and the readers *)
TypeInv ==
    /\ hw \in 0 .. MaxTime /\ pend \in BOOLEAN /\ simple \in BOOLEAN
    /\ hand \in [Hands -> HandSet] /\ live \in Hands
    /\ w \in WriterSet /\ rd \in [Readers -> ReaderSet]
    /\ updates \in 0 .. MaxUpdates /\ sets \in 0 .. MaxSets
    /\ truth \in Int /\ drift \in Nat

(* The writer has marked its hand and not yet made it valid again. *)
Writing == w.pc \in {"copy", "count", "offset", "wall", "gen", "scount"}

(* The update of a simple tick is done in the current hand; the copy of a   *)
(* windup is made in the other one.                                         *)
InPlace == w.th = live
WriterInv ==
    /\ w.pc \in {"attick", "scount"} => simple
    /\ w.pc = "attick" => updates < MaxUpdates /\ ~w.new
    /\ w.pc \in {"copy", "count"} => ~InPlace
    /\ w.pc = "scount" => InPlace
    /\ Writing \/ w.pc = "publish" => IF InPlace THEN simple /\ ~w.new ELSE simple => w.new
    /\ ~simple => drift = 0

(* The number of updates that a generation stands for *)
Rank(gen) == IF gen = MaxGen THEN 0 ELSE gen

(* The last valid generation of a hand *)
LastGen(h) == IF Writing /\ w.th = h THEN w.ogen ELSE hand[h].gen

(* The generation of a hand grows with each update and does not come again  *)
(* while a reader may still compare it with the one it read.                *)
GenInv ==
    /\ \A h \in Hands : Rank(LastGen(h)) <= updates
    /\ Writing => hand[w.th].gen = 0 /\ Rank(w.ogen) < updates
    /\ w.pc = "publish" => hand[w.th].gen # 0
    /\ ~(Writing /\ InPlace) => hand[live].gen # 0
    /\ \A r \in Readers :
          rd[r].pc \in {"base", "delta"} /\ rd[r].gen # 0
             => Rank(rd[r].gen) <= Rank(LastGen(rd[r].th))

(* How far the uptime by hand h is ahead of the true time *)
Error(h) == IF simple THEN hand[h].offset + Counter - hand[h].count - hw ELSE 0

(* The counter has not wrapped against hand h, ... *)
Fits(h) ==
    IF simple THEN hand[h].count <= Counter
    ELSE /\ hand[h].offset <= hw /\ hw - hand[h].offset < Size
         /\ hand[h].count = hand[h].offset % Size

(* ... by which the uptime is right, and the wall clock as it was set to b. *)
UptimeRight(h) == Fits(h) /\ Error(h) \in -Slack .. drift
BootRight(h, b) == hand[h].boot - b \in -drift .. Slack
WallRight(h, b) ==
    /\ BootRight(h, b)
    /\ Error(h) + hand[h].boot - b \in -Slack .. drift + Slack
    /\ hand[h].wall = hand[h].offset + hand[h].boot

(* The setting that the hand in the making stands for *)
NewTruth == IF w.new THEN w.truth ELSE truth

(* The current hand, which is right except while a simple tick is handled. *)
LiveInv ==
    /\ ~(InPlace /\ Writing) /\ w.pc # "attick"
          => UptimeRight(live) /\ WallRight(live, truth)
    /\ BootRight(live, truth)
    /\ hand[live].offset <= hw + drift
    /\ simple => hand[live].offset = hw - Counter + drift -
          IF w.pc \in {"attick", "scount"} \/ (w.pc = "offset" /\ InPlace) THEN Interval
          ELSE IF w.pc \in {"offset", "wall", "gen", "publish"} /\ ~InPlace THEN w.delta
          ELSE 0

(* An update in place by a simple tick *)
InPlaceInv ==
    /\ w.pc = "scount" => w.count \in 0 .. Interval - 1 /\ w.count <= Counter
    /\ w.pc \in {"offset", "wall", "gen"} /\ InPlace =>
          /\ hand[live].count < Interval /\ hand[live].count <= Counter
    /\ w.pc \in {"scount", "offset"} /\ InPlace => w.delta = Interval
    /\ w.pc = "gen" => hand[w.th].wall = hand[w.th].offset + hand[w.th].boot

(* A windup *)
WindupInv ==
    LET H == hand[w.th]
        L == hand[live]
    IN  (Writing \/ w.pc = "publish") /\ ~InPlace =>
        /\ w.new => w.boot = w.truth - Error(live)
        /\ w.pc # "copy" => H.boot = IF w.new THEN w.boot ELSE L.boot
        /\ w.pc = "count" => H.count = L.count
        /\ w.pc \in {"count", "offset"} => H.offset = L.offset
        /\ w.pc \in {"wall", "gen", "publish"} => H.offset = L.offset + w.delta
        /\ w.pc \in {"offset", "wall", "gen", "publish"} =>
              IF simple THEN H.count = L.count + w.delta /\ H.count <= Counter
              ELSE L.offset + w.delta <= hw /\ H.count = (L.offset + w.delta) % Size
        /\ w.pc \in {"gen", "publish"} => H.wall = H.offset + H.boot

(* What a read has to do with: the settings it may use, the time it began,  *)
(* and, when it is valid, its hand.                                         *)
HandRead(r) ==
    /\ rd[r].pc # "idle" => rd[r].kind # "none"
    /\ rd[r].kind = "wall" => truth \in rd[r].walls
    /\ rd[r].kind = "uptime" => rd[r].walls = {0}
    /\ rd[r].pc # "idle" =>
          rd[r].start <= IF rd[r].kind = "get" THEN hand[live].offset ELSE hw
    /\ rd[r].pc \in {"gen", "base", "delta"} /\ hand[rd[r].th].gen # 0 =>
          /\ rd[r].kind = "get" => hand[rd[r].th].offset \in rd[r].start .. hw + drift
          /\ rd[r].kind # "get" /\ ~rd[r].window => UptimeRight(rd[r].th)
          /\ rd[r].kind = "wall" /\ ~rd[r].window
                => \E b \in rd[r].walls : WallRight(rd[r].th, b)

(* What a reader has read belongs together, if its hand was not written     *)
(* meanwhile: the counter was read at some time t since the beginning, and  *)
(* not before the hand was updated.                                         *)
DataRead(r) ==
    LET h == hand[rd[r].th] IN
    /\ "pending" \in rd[r].left => simple
    /\ rd[r].pc = "delta" /\ Unchanged(r) =>
          /\ rd[r].val = IF rd[r].kind = "wall" THEN h.wall ELSE h.offset
          /\ rd[r].kind # "get" /\ "count" \notin rd[r].left => rd[r].count = h.count
          /\ rd[r].kind # "get" /\ ~rd[r].window /\ "counter" \notin rd[r].left =>
                /\ simple /\ ("pending" \notin rd[r].left \/ ~pend) =>
                      /\ rd[r].counter \in h.count .. Counter
                      /\ rd[r].start <= hw - Counter + rd[r].counter
                /\ ~simple => \E t \in rd[r].start .. hw :
                                 t >= h.offset /\ rd[r].counter = t % Size

ReadersInv == \A r \in Readers : HandRead(r) /\ DataRead(r)

IInv ==
    /\ TypeInv /\ WriterInv /\ GenInv /\ LiveInv /\ InPlaceInv /\ WindupInv
    /\ ReadersInv

-----------------------------------------------------------------------------
(* Quotient and remainder *)
LEMMA DivMod ==
    ASSUME NEW a \in Int, NEW n \in Nat \ {0}
    PROVE  /\ a % n \in 0 .. n - 1
           /\ \E q \in Int, r \in 0 .. n - 1 : r = a % n /\ a = n * q + r
<1>1. a \div n \in Int
    OBVIOUS
<1>2. a % n \in 0 .. n - 1
    OBVIOUS
<1>3. a % n = a - n * (a \div n)
    OBVIOUS
<1>4. PICK q \in Int : q = a \div n
    BY <1>1
<1>5. PICK r \in 0 .. n - 1 : r = a % n
    BY <1>2
<1>6. r = a - n * q
    BY <1>3, <1>4, <1>5, Zenon
<1>7. a = n * q + r
    BY <1>6
<1>8. QED
    BY <1>2, <1>5, <1>7, Zenon

(* The remainder is unique. *)
LEMMA ModUnique ==
    ASSUME NEW a \in Int, NEW n \in Nat \ {0}, NEW q \in Int, NEW r \in 0 .. n - 1,
           a = n * q + r
    PROVE  a % n = r
<1>1. PICK p \in Int, s \in 0 .. n - 1 : s = a % n /\ a = n * p + s
    BY DivMod
<1>2. n * (p - q) = r - s
    BY <1>1
<1>3. CASE p - q >= 1
  <2>1. n * (p - q) >= n
      BY <1>3
  <2>2. QED
      BY <1>2, <2>1
<1>4. CASE p - q <= -1
  <2>1. n * (p - q) <= -n
      BY <1>4
  <2>2. QED
      BY <1>2, <2>1
<1>5. CASE p - q = 0
  <2>1. n * (p - q) = 0
      BY <1>5
  <2>2. QED
      BY <1>1, <1>2, <2>1
<1>6. QED
    BY <1>3, <1>4, <1>5

(* The remainder of the successor *)
LEMMA ModNext ==
    ASSUME NEW a \in Int, NEW n \in Nat \ {0}
    PROVE  (a + 1) % n = IF (a % n) + 1 = n THEN 0 ELSE (a % n) + 1
<1>1. PICK q \in Int, r \in 0 .. n - 1 : r = a % n /\ a = n * q + r
    BY DivMod
<1>2. a = n * q + r
    BY <1>1
<1>3. CASE r + 1 = n
  <2>1. a + 1 = n * (q + 1) + 0 /\ a + 1 \in Int /\ q + 1 \in Int /\ 0 \in 0 .. n - 1
      BY <1>2, <1>3
  <2>2. (a + 1) % n = 0
      BY <2>1, ModUnique, Zenon
  <2>3. QED
      BY <1>1, <1>3, <2>2
<1>4. CASE r + 1 # n
  <2>1. a + 1 = n * q + (r + 1) /\ r + 1 \in 0 .. n - 1 /\ a + 1 \in Int
      BY <1>2, <1>4
  <2>2. (a + 1) % n = r + 1
      BY <2>1, ModUnique, Zenon
  <2>3. QED
      BY <1>1, <1>4, <2>2
<1>5. QED
    BY <1>3, <1>4

(* A difference is found from the remainders, if it is less than the        *)
(* divisor.                                                                 *)
LEMMA ModDifference ==
    ASSUME NEW a \in Int, NEW b \in Int, NEW n \in Nat \ {0}, a - b \in 0 .. n - 1
    PROVE  /\ ((a % n) - (b % n)) % n = a - b
           /\ ((b % n) + (a - b)) % n = a % n
<1>1. PICK p \in Int, r \in 0 .. n - 1 : r = a % n /\ a = n * p + r
    BY DivMod
<1>2. PICK q \in Int, s \in 0 .. n - 1 : s = b % n /\ b = n * q + s
    BY DivMod
<1>3. a = n * p + r /\ b = n * q + s
    BY <1>1, <1>2
<1>4. r - s = n * (q - p) + (a - b)
    BY <1>3
<1>5. (r - s) % n = a - b
    BY <1>4, ModUnique
<1>6. s + (a - b) = n * (p - q) + r
    BY <1>3
<1>7. (s + (a - b)) % n = r
    BY <1>6, ModUnique
<1>8. QED
    BY <1>1, <1>2, <1>5, <1>7, Zenon

(* A number below the divisor is its own remainder. *)
LEMMA ModSmall ==
    ASSUME NEW n \in Nat \ {0}, NEW r \in 0 .. n - 1
    PROVE  r % n = r
<1>1. r = n * 0 + r
    OBVIOUS
<1>2. QED
    BY <1>1, ModUnique

-----------------------------------------------------------------------------
(* The counter is within its modulus. *)
LEMMA CounterType ==
    ASSUME TypeInv
    PROVE  /\ Modulus \in Nat \ {0} /\ Counter \in 0 .. Modulus - 1
           /\ hw \in Nat /\ Interval \in Nat \ {0} /\ Size \in Nat \ {0} /\ Slack \in Nat
           /\ simple => Modulus = 2 * Interval /\ Slack = Interval - 1
           /\ ~simple => Modulus = Size /\ Slack = 0
<1>1. hw \in Nat /\ Interval \in Nat \ {0} /\ Size \in Nat \ {0, 1} /\ simple \in BOOLEAN
    BY TimecounterAssumption DEF TimecounterAssumption, TypeInv
<1>2. PICK x \in 0 .. Interval - 1 : x = hw % Interval
    BY <1>1, DivMod
<1>3. PICK y \in 0 .. Size - 1 : y = hw % Size
    BY <1>1, DivMod
<1>4. CASE simple
  <2>1. /\ Modulus = 2 * Interval /\ Slack = Interval - 1
        /\ Counter = x + IF pend THEN Interval ELSE 0
      BY <1>2, <1>4 DEF Modulus, Slack, Counter
  <2>2. CASE pend
      BY <1>1, <1>4, <2>1, <2>2
  <2>3. CASE ~pend
      BY <1>1, <1>4, <2>1, <2>3
  <2>4. QED
      BY <2>2, <2>3
<1>5. CASE ~simple
  <2>1. Modulus = Size /\ Slack = 0 /\ Counter = y
      BY <1>3, <1>5 DEF Modulus, Slack, Counter
  <2>2. QED
      BY <1>1, <1>5, <2>1
<1>6. QED
    BY <1>4, <1>5

(* While the hands are updated in time, the counter of a simple timecounter *)
(* moves with the time.                                                     *)
LEMMA CounterMoves ==
    ASSUME TypeInv, Advance, simple
    PROVE  Counter' = Counter + 1
<1>1. hw \in Nat /\ hw \in Int /\ Interval \in Nat \ {0} /\ pend \in BOOLEAN
    BY TimecounterAssumption DEF TimecounterAssumption, TypeInv
<1>2. PICK x \in 0 .. Interval - 1 : x = hw % Interval
    BY <1>1, DivMod
<1>3. hw' = hw + 1 /\ simple' = simple
    BY DEF Advance
<1>4. hw' % Interval = IF x + 1 = Interval THEN 0 ELSE x + 1
    BY <1>1, <1>2, <1>3, ModNext, Zenon
<1>5. Counter' = (hw' % Interval) + IF pend' THEN Interval ELSE 0
    BY <1>3 DEF Counter
<1>6. Counter = x + IF pend THEN Interval ELSE 0
    BY <1>2 DEF Counter
<1>7. CASE x + 1 = Interval
  <2>1. hw' % Interval = 0 /\ (hw + 1) % Interval = 0
      BY <1>3, <1>4, <1>7
  <2>2. ~pend /\ pend'
      BY <2>1 DEF Advance, InTime
  <2>3. QED
      BY <1>1, <1>5, <1>6, <1>7, <2>1, <2>2
<1>8. CASE x + 1 # Interval
  <2>1. hw' % Interval = x + 1 /\ hw' % Interval # 0
      BY <1>4, <1>8
  <2>2. pend' = pend
      BY <2>1 DEF Advance
  <2>3. CASE pend
      BY <1>1, <1>5, <1>6, <2>1, <2>2, <2>3
  <2>4. CASE ~pend
      BY <1>1, <1>5, <1>6, <2>1, <2>2, <2>4
  <2>5. QED
      BY <2>3, <2>4
<1>9. QED
    BY <1>7, <1>8

(* What tc_delta finds with a hand that fits: the uptime, up to the error. *)
LEMMA DeltaExact ==
    ASSUME TypeInv, NEW h \in Hands, Fits(h)
    PROVE  /\ Delta(hand[h].count) \in Nat
           /\ hand[h].offset + Delta(hand[h].count) = hw + Error(h)
           /\ simple => Delta(hand[h].count) = Counter - hand[h].count
           /\ (hand[h].count + Delta(hand[h].count)) % Modulus = Counter
<1>0. /\ hand[h].count \in 0 .. Modulus - 1 /\ hand[h].offset \in Int
    BY DEF TypeInv, HandSet
<1>1. CASE simple
  <2>1. Counter - hand[h].count \in 0 .. Modulus - 1
      BY <1>0, <1>1, CounterType DEF Fits
  <2>2. Delta(hand[h].count) = Counter - hand[h].count
      BY <2>1, CounterType, ModSmall DEF Delta
  <2>3. Error(h) = hand[h].offset + Counter - hand[h].count - hw
      BY <1>1 DEF Error
  <2>4. hand[h].count + (Counter - hand[h].count) = Counter
      BY <1>0, CounterType
  <2>5. Counter % Modulus = Counter
      BY CounterType, ModSmall
  <2>6. QED
      BY <1>0, <2>1, <2>2, <2>3, <2>4, <2>5, CounterType
<1>2. CASE ~simple
  <2>1. hw - hand[h].offset \in 0 .. Size - 1 /\ hand[h].count = hand[h].offset % Size
      BY <1>0, <1>2, CounterType DEF Fits
  <2>2. Counter = hw % Size /\ Modulus = Size /\ Error(h) = 0
      BY <1>2 DEF Counter, Modulus, Error
  <2>3. /\ Delta(hand[h].count) = hw - hand[h].offset
        /\ (hand[h].count + (hw - hand[h].offset)) % Modulus = Counter
    <3>1. PICK o \in Int : o = hand[h].offset
        BY <1>0
    <3>2. hw \in Int /\ Size \in Nat \ {0} /\ hw - o \in 0 .. Size - 1
        BY <2>1, <3>1, CounterType
    <3>3. /\ ((hw % Size) - (o % Size)) % Size = hw - o
          /\ ((o % Size) + (hw - o)) % Size = hw % Size
        BY <3>2, ModDifference, Zenon
    <3>4. Delta(hand[h].count) = ((hw % Size) - (o % Size)) % Size
        BY <2>1, <2>2, <3>1, Zenon DEF Delta
    <3>5. QED
        BY <2>1, <2>2, <3>1, <3>3, <3>4, Zenon
  <2>4. QED
      BY <1>0, <1>2, <2>1, <2>2, <2>3, CounterType
<1>3. QED
    BY <1>1, <1>2

-----------------------------------------------------------------------------
(* Every step keeps the types *)

(* The kind of the counter is fixed, and so are the sets of records. *)
LEMMA KindFixed ==
    ASSUME Next
    PROVE  simple' = simple /\ Modulus' = Modulus /\ HandSet' = HandSet /\ Slack' = Slack
<1>1. simple' = simple
    BY DEF Next, Advance, TickWindup, SetClock, AtTick, Writer, Copy, Count, Offset, Wall,
       Gen, Publish, TickSimple, SimpleCount, Reader, LoadHand, LoadGen, LoadBase,
       LoadCount, LoadCounter, LoadPending, Check, Start, Reads, ReaderOnly
<1>2. QED
    BY <1>1 DEF Modulus, HandSet, Slack

(* The records at rest *)
LEMMA AtRest ==
    /\ Idle \in WriterSet /\ NotReading \in ReaderSet
BY TimecounterAssumption
   DEF TimecounterAssumption, Idle, WriterSet, WriterPC, Hands, NotReading, ReaderSet

(* A field of one hand *)
LEMMA GenChange ==
    ASSUME TypeInv, NEW th \in Hands, NEW g \in 0 .. MaxGen,
           hand' = [hand EXCEPT ![th].gen = g]
    PROVE  /\ hand' \in [Hands -> HandSet] /\ hand'[th] = [hand[th] EXCEPT !.gen = g]
           /\ hand'[th].gen = g
           /\ \A h \in Hands : /\ h # th => hand'[h] = hand[h]
                               /\ hand'[h].offset = hand[h].offset
                               /\ hand'[h].count = hand[h].count
                               /\ hand'[h].boot = hand[h].boot
                               /\ hand'[h].wall = hand[h].wall
<1>1. hand \in [Hands -> HandSet]
    BY DEF TypeInv
<1>2. QED
    BY <1>1 DEF HandSet

(* The other hand *)
LEMMA OtherHand ==
    ASSUME NEW h \in Hands
    PROVE  1 - h \in Hands /\ 1 - h # h /\ \A g \in Hands : g # h => g = 1 - h
BY DEF Hands

(* What a step of the writer does *)
LEMMA BeginStep ==
    ASSUME TypeInv, NEW th \in Hands, NEW rec \in WriterSet, Begin(th, rec)
    PROVE  /\ hand' \in [Hands -> HandSet] /\ hand'[th].gen = 0
           /\ \A h \in Hands : /\ h # th => hand'[h] = hand[h]
                               /\ hand'[h].offset = hand[h].offset
                               /\ hand'[h].count = hand[h].count
                               /\ hand'[h].boot = hand[h].boot
                               /\ hand'[h].wall = hand[h].wall
           /\ w' = rec /\ updates' = updates + 1
<1>1. 0 \in 0 .. MaxGen /\ hand' = [hand EXCEPT ![th].gen = 0]
    BY TimecounterAssumption DEF TimecounterAssumption, Begin
<1>2. QED
    BY <1>1, GenChange DEF Begin

(* The types of the hands and of what the writer knows *)
LEMMA WriterFields ==
    ASSUME TypeInv
    PROVE  /\ w.th \in Hands /\ w.ogen \in 0 .. MaxGen /\ w.new \in BOOLEAN
           /\ w.boot \in Int /\ w.delta \in Nat /\ w.count \in Nat /\ w.truth \in Int
           /\ live \in Hands /\ hw \in Nat /\ drift \in Nat /\ truth \in Int
           /\ \A h \in Hands : /\ hand[h] \in HandSet /\ hand[h].gen \in 0 .. MaxGen
                               /\ hand[h].offset \in Int
                               /\ hand[h].count \in 0 .. Modulus - 1 /\ hand[h].count \in Nat
                               /\ hand[h].boot \in Int /\ hand[h].wall \in Int
<1>1. /\ w \in WriterSet /\ \A h \in Hands : hand[h] \in HandSet
      /\ Modulus \in Nat
    BY CounterType DEF TypeInv
<1>2. QED
    BY <1>1, TimecounterAssumption
       DEF TypeInv, WriterSet, HandSet, TimecounterAssumption

(* What the begin of a windup does: TickWindup or SetClock *)
LEMMA WindupStep ==
    ASSUME TypeInv, TickWindup \/ SetClock
    PROVE  /\ w.pc = "idle" /\ w'.pc = "copy" /\ w'.th = 1 - live
           /\ w'.ogen = hand[1 - live].gen /\ updates < MaxUpdates
           /\ w' \in WriterSet
           /\ w'.new => w'.boot = w'.truth + hw - (hand[live].offset + Delta(hand[live].count))
           /\ simple => w'.new
           /\ hand' \in [Hands -> HandSet] /\ hand'[1 - live].gen = 0
           /\ \A h \in Hands : /\ h # 1 - live => hand'[h] = hand[h]
                               /\ hand'[h].offset = hand[h].offset
                               /\ hand'[h].count = hand[h].count
                               /\ hand'[h].boot = hand[h].boot
                               /\ hand'[h].wall = hand[h].wall
           /\ updates' = updates + 1
           /\ sets' \in 0 .. MaxSets
           /\ UNCHANGED <<hw, pend, simple, live, rd, hist>>
<1> DEFINE th == 1 - live
<1>0. th \in Hands /\ hand[th].gen \in 0 .. MaxGen
    BY OtherHand, WriterFields
<1> HIDE DEF th
<1>1. CASE TickWindup
  <2> DEFINE rec == [Idle EXCEPT !.pc = "copy", !.th = th, !.ogen = hand[th].gen]
  <2>1. rec \in WriterSet
      BY <1>0, AtRest DEF WriterSet, WriterPC
  <2>2. /\ rec.pc = "copy" /\ rec.th = th /\ rec.ogen = hand[th].gen /\ rec.new = FALSE
      BY DEF Idle
  <2>3. Begin(th, rec) /\ ~simple /\ w.pc = "idle" /\ updates < MaxUpdates
        /\ UNCHANGED <<hw, pend, simple, live, rd, hist, sets>>
      BY <1>1 DEF TickWindup, th
  <2> HIDE DEF rec
  <2>4. QED
      BY <1>0, <2>1, <2>2, <2>3, BeginStep DEF th, TypeInv
<1>2. CASE SetClock
  <2> DEFINE up == hand[live].offset + Delta(hand[live].count)
  <2>0. up \in Int
    <3>1. Delta(hand[live].count) \in Int
        BY WriterFields, CounterType DEF Delta
    <3>2. QED
        BY <3>1, WriterFields
  <2> HIDE DEF up
  <2>1. PICK bt \in Walls :
          Begin(th, [Idle EXCEPT !.pc = "copy", !.th = th, !.ogen = hand[th].gen,
                                 !.new = TRUE, !.boot = bt - up, !.truth = bt - hw])
      BY <1>2 DEF SetClock, th, up
  <2> DEFINE rec == [Idle EXCEPT !.pc = "copy", !.th = th, !.ogen = hand[th].gen,
                                 !.new = TRUE, !.boot = bt - up, !.truth = bt - hw]
  <2>2. bt \in Int /\ bt - up \in Int /\ bt - hw \in Int /\ hw \in Int
      BY <2>0, WriterFields, TimecounterAssumption DEF TimecounterAssumption
  <2>3. rec \in WriterSet
      BY <1>0, <2>2, AtRest DEF WriterSet, WriterPC
  <2>4. /\ rec.pc = "copy" /\ rec.th = th /\ rec.ogen = hand[th].gen /\ rec.new = TRUE
        /\ rec.boot = bt - up /\ rec.truth = bt - hw
      BY DEF Idle
  <2>5. Begin(th, rec) /\ w.pc = "idle" /\ updates < MaxUpdates
        /\ sets < MaxSets /\ sets' = sets + 1 /\ UNCHANGED <<hw, pend, simple, live, rd, hist>>
      BY <1>2, <2>1 DEF SetClock
  <2> HIDE DEF rec
  <2>6. bt - up = (bt - hw) + hw - up
      BY <2>0, <2>2
  <2>7. sets' \in 0 .. MaxSets
      BY <2>5, TimecounterAssumption DEF TimecounterAssumption, TypeInv
  <2>8. QED
      BY <1>0, <2>3, <2>4, <2>5, <2>6, <2>7, BeginStep DEF th, up
<1>3. QED
    BY <1>1, <1>2

(* A step changes no other hand than th. *)
OnlyHand(th) ==
    /\ hand' \in [Hands -> HandSet]
    /\ \A h \in Hands : h # th => hand'[h] = hand[h]

(* The writer goes on to pc with the same update. *)
Proceeds(pc) ==
    /\ w' \in WriterSet /\ w'.pc = pc /\ w'.th = w.th /\ w'.ogen = w.ogen
    /\ w'.new = w.new /\ w'.boot = w.boot /\ w'.truth = w.truth /\ w'.count = w.count

(* The control point of the writer moves on. *)
LEMMA ProceedsTo ==
    ASSUME TypeInv, NEW pc \in WriterPC, w' = [w EXCEPT !.pc = pc]
    PROVE  Proceeds(pc) /\ w'.delta = w.delta
<1>1. w \in WriterSet
    BY DEF TypeInv
<1>2. QED
    BY <1>1 DEF Proceeds, WriterSet

(* What the copy of the current hand does *)
LEMMA CopyStep ==
    ASSUME TypeInv, Copy
    PROVE  /\ w.pc = "copy" /\ Proceeds("count") /\ OnlyHand(w.th)
           /\ hand'[w.th].gen = 0
           /\ hand'[w.th].offset = hand[live].offset /\ hand'[w.th].count = hand[live].count
           /\ hand'[w.th].boot = IF w.new THEN w.boot ELSE hand[live].boot
           /\ UNCHANGED <<hw, pend, simple, live, rd, updates, sets, hist>>
<1>1. /\ hand \in [Hands -> HandSet] /\ hand[live] \in HandSet /\ w.th \in Hands
      /\ w.boot \in Int /\ 0 \in 0 .. MaxGen
    BY WriterFields, TimecounterAssumption DEF TimecounterAssumption, TypeInv
<1> DEFINE b == IF w.new THEN w.boot ELSE hand[live].boot
           rec == [hand[live] EXCEPT !.gen = 0, !.boot = b]
<1>2. b \in Int
    BY <1>1 DEF HandSet
<1>3. hand' = [hand EXCEPT ![w.th] = rec]
    BY DEF Copy
<1>4. /\ rec \in HandSet /\ rec.gen = 0 /\ rec.offset = hand[live].offset
      /\ rec.count = hand[live].count /\ rec.boot = b
  <2> HIDE DEF b
  <2>1. QED
      BY <1>1, <1>2 DEF HandSet
<1> HIDE DEF rec
<1>5. hand'[w.th] = rec /\ OnlyHand(w.th)
    BY <1>1, <1>3, <1>4 DEF OnlyHand
<1>6. Proceeds("count")
    BY ProceedsTo DEF Copy, WriterPC
<1>7. QED
    BY <1>4, <1>5, <1>6 DEF Copy

(* What the update of th_offset_count does *)
LEMMA CountStep ==
    ASSUME TypeInv, Count
    PROVE  /\ w.pc = "count" /\ Proceeds("offset") /\ OnlyHand(w.th)
           /\ w'.delta = Delta(hand[w.th].count)
           /\ hand'[w.th].count = (hand[w.th].count + w'.delta) % Modulus
           /\ hand'[w.th].gen = hand[w.th].gen /\ hand'[w.th].offset = hand[w.th].offset
           /\ hand'[w.th].boot = hand[w.th].boot
           /\ drift' = (IF simple THEN drift + w'.delta ELSE drift) /\ drift' \in Nat
           /\ UNCHANGED <<hw, pend, simple, live, rd, updates, sets, truth>>
<1> DEFINE d == Delta(hand[w.th].count)
           c == (hand[w.th].count + d) % Modulus
<1>1. /\ hand \in [Hands -> HandSet] /\ hand[w.th] \in HandSet /\ w.th \in Hands
      /\ w \in WriterSet /\ hand[w.th].count \in Nat /\ drift \in Nat
    BY WriterFields DEF TypeInv
<1>2. Modulus \in Nat \ {0} /\ Counter \in Int
    BY CounterType
<1>3. d \in Nat
    BY <1>1, <1>2 DEF Delta
<1>4. /\ w' = [w EXCEPT !.pc = "offset", !.delta = d]
      /\ hand' = [hand EXCEPT ![w.th].count = c]
      /\ drift' = IF simple THEN drift + d ELSE drift
    BY DEF Count
<1> HIDE DEF d
<1>5. c \in 0 .. Modulus - 1
    BY <1>1, <1>2, <1>3
<1> HIDE DEF c
<1>6. /\ OnlyHand(w.th) /\ hand'[w.th].count = c
      /\ hand'[w.th].gen = hand[w.th].gen /\ hand'[w.th].offset = hand[w.th].offset
      /\ hand'[w.th].boot = hand[w.th].boot
    BY <1>1, <1>4, <1>5 DEF OnlyHand, HandSet
<1>7. Proceeds("offset") /\ w'.delta = d
    BY <1>1, <1>3, <1>4 DEF Proceeds, WriterSet, WriterPC
<1>8. drift' \in Nat
    BY <1>1, <1>3, <1>4
<1>9. QED
    BY <1>4, <1>6, <1>7, <1>8 DEF Count, d, c

(* What the update of th_offset does *)
LEMMA OffsetStep ==
    ASSUME TypeInv, Offset
    PROVE  /\ w.pc = "offset" /\ Proceeds("wall") /\ OnlyHand(w.th) /\ w'.delta = w.delta
           /\ hand'[w.th].offset = hand[w.th].offset + w.delta
           /\ hand'[w.th].gen = hand[w.th].gen /\ hand'[w.th].count = hand[w.th].count
           /\ hand'[w.th].boot = hand[w.th].boot
           /\ UNCHANGED <<hw, pend, simple, live, rd, updates, sets, hist>>
<1>1. /\ hand \in [Hands -> HandSet] /\ hand[w.th] \in HandSet /\ w.th \in Hands
      /\ hand[w.th].offset + w.delta \in Int
    BY WriterFields DEF TypeInv
<1> DEFINE o == hand[w.th].offset + w.delta
<1>2. hand' = [hand EXCEPT ![w.th].offset = o]
    BY DEF Offset
<1> HIDE DEF o
<1>3. /\ OnlyHand(w.th) /\ hand'[w.th].offset = o
      /\ hand'[w.th].gen = hand[w.th].gen /\ hand'[w.th].count = hand[w.th].count
      /\ hand'[w.th].boot = hand[w.th].boot
    BY <1>1, <1>2 DEF OnlyHand, HandSet, o
<1>4. Proceeds("wall") /\ w'.delta = w.delta
    BY ProceedsTo DEF Offset, WriterPC
<1>5. QED
    BY <1>3, <1>4 DEF Offset, o

(* What the update of th_bintime does *)
LEMMA WallStep ==
    ASSUME TypeInv, Wall
    PROVE  /\ w.pc = "wall" /\ Proceeds("gen") /\ OnlyHand(w.th) /\ w'.delta = w.delta
           /\ hand'[w.th].wall = hand[w.th].offset + hand[w.th].boot
           /\ hand'[w.th].gen = hand[w.th].gen /\ hand'[w.th].count = hand[w.th].count
           /\ hand'[w.th].boot = hand[w.th].boot /\ hand'[w.th].offset = hand[w.th].offset
           /\ UNCHANGED <<hw, pend, simple, live, rd, updates, sets, hist>>
<1>1. /\ hand \in [Hands -> HandSet] /\ hand[w.th] \in HandSet /\ w.th \in Hands
      /\ hand[w.th].offset + hand[w.th].boot \in Int
    BY WriterFields DEF TypeInv
<1> DEFINE o == hand[w.th].offset + hand[w.th].boot
<1>2. hand' = [hand EXCEPT ![w.th].wall = o]
    BY DEF Wall
<1> HIDE DEF o
<1>3. /\ OnlyHand(w.th) /\ hand'[w.th].wall = o
      /\ hand'[w.th].gen = hand[w.th].gen /\ hand'[w.th].count = hand[w.th].count
      /\ hand'[w.th].boot = hand[w.th].boot /\ hand'[w.th].offset = hand[w.th].offset
    BY <1>1, <1>2 DEF OnlyHand, HandSet, o
<1>4. Proceeds("gen") /\ w'.delta = w.delta
    BY ProceedsTo DEF Wall, WriterPC
<1>5. QED
    BY <1>3, <1>4 DEF Wall, o

(* What the readers meet when a setting becomes valid *)
Met(r) == IF w.new /\ rd[r].kind = "wall" THEN rd[r].walls \cup {w.truth} ELSE rd[r].walls

(* What the readers get when a setting becomes valid *)
LEMMA MeetStep ==
    ASSUME TypeInv, MeetNewSetting
    PROVE  /\ rd' \in [Readers -> ReaderSet]
           /\ \A r \in Readers :
                 /\ rd'[r].walls = Met(r)
                 /\ \A f \in {"pc", "kind", "th", "gen", "val", "count", "counter", "left",
                              "start", "window"} : rd'[r][f] = rd[r][f]
<1>1. /\ rd \in [Readers -> ReaderSet] /\ w.truth \in Int
    BY WriterFields DEF TypeInv
<1>2. \A r \in Readers : rd[r] \in ReaderSet /\ Met(r) \in SUBSET Int
    BY <1>1 DEF Met, ReaderSet
<1>3. rd' = [r \in Readers |-> [rd[r] EXCEPT !.walls = Met(r)]]
    BY DEF MeetNewSetting, Met
<1>4. ASSUME NEW r \in Readers
      PROVE  /\ rd'[r] \in ReaderSet /\ rd'[r].walls = Met(r)
             /\ \A f \in {"pc", "kind", "th", "gen", "val", "count", "counter", "left",
                          "start", "window"} : rd'[r][f] = rd[r][f]
  <2>1. rd'[r] = [rd[r] EXCEPT !.walls = Met(r)]
      BY <1>3
  <2>2. QED
      BY <1>2, <2>1 DEF ReaderSet
<1>5. QED
    BY <1>3, <1>4

(* What the next generation does; it has not been used before. *)
LEMMA GenStep ==
    ASSUME TypeInv, Gen, Rank(w.ogen) < updates
    PROVE  /\ w.pc = "gen" /\ Proceeds("publish") /\ OnlyHand(w.th) /\ w'.delta = w.delta
           /\ hand'[w.th].gen = NextGen(w.ogen) /\ hand'[w.th].gen # 0
           /\ Rank(hand'[w.th].gen) = Rank(w.ogen) + 1
           /\ \A h \in Hands : /\ hand'[h].offset = hand[h].offset
                               /\ hand'[h].count = hand[h].count
                               /\ hand'[h].boot = hand[h].boot
                               /\ hand'[h].wall = hand[h].wall
           /\ MeetNewSetting
           /\ UNCHANGED <<hw, pend, simple, live, updates, sets, hist>>
<1>0. /\ MaxGen \in Nat \ {0} /\ MaxUpdates < MaxGen /\ MaxUpdates \in Nat
      /\ updates \in 0 .. MaxUpdates /\ w.ogen \in 0 .. MaxGen /\ w.th \in Hands
    BY WriterFields, TimecounterAssumption DEF TimecounterAssumption, TypeInv
<1>1. /\ NextGen(w.ogen) \in 0 .. MaxGen /\ NextGen(w.ogen) # 0
      /\ Rank(NextGen(w.ogen)) = Rank(w.ogen) + 1
    BY <1>0 DEF NextGen, Rank
<1> DEFINE g == NextGen(w.ogen)
<1>2. hand' = [hand EXCEPT ![w.th].gen = g]
    BY DEF Gen
<1> HIDE DEF g
<1>3. /\ OnlyHand(w.th) /\ hand'[w.th].gen = g
      /\ \A h \in Hands : /\ hand'[h].offset = hand[h].offset
                          /\ hand'[h].count = hand[h].count
                          /\ hand'[h].boot = hand[h].boot
                          /\ hand'[h].wall = hand[h].wall
    BY <1>0, <1>1, <1>2, GenChange DEF OnlyHand, g
<1>4. Proceeds("publish") /\ w'.delta = w.delta
    BY ProceedsTo DEF Gen, WriterPC
<1>5. QED
    BY <1>1, <1>3, <1>4 DEF Gen, g

(* What the change of the current hand does *)
LEMMA PublishStep ==
    ASSUME TypeInv, Publish
    PROVE  /\ w.pc = "publish" /\ w' = Idle /\ w'.pc = "idle" /\ w' \in WriterSet
           /\ live' = w.th /\ truth' = NewTruth /\ MeetNewSetting
           /\ UNCHANGED <<hw, pend, simple, hand, updates, sets, drift>>
BY AtRest DEF Publish, Idle, NewTruth

(* What the handling of a simple tick does first *)
LEMMA AtTickStep ==
    ASSUME TypeInv, AtTick
    PROVE  /\ w.pc = "idle" /\ w'.pc = "attick" /\ ~w'.new /\ w' \in WriterSet
           /\ updates < MaxUpdates
           /\ simple /\ Counter' = Counter - Interval
           /\ rd' \in [Readers -> ReaderSet]
           /\ \A r \in Readers :
                 /\ rd'[r].window
                 /\ \A f \in {"pc", "kind", "th", "gen", "val", "count", "counter", "left",
                              "start", "walls"} : rd'[r][f] = rd[r][f]
           /\ pend' = FALSE
           /\ UNCHANGED <<hw, simple, hand, live, updates, sets, hist>>
<1>1. /\ simple /\ w.pc = "idle" /\ pend /\ updates < MaxUpdates
      /\ pend' = FALSE /\ UNCHANGED <<hw, simple, hand, live, updates, sets, hist>>
      /\ w' = [Idle EXCEPT !.pc = "attick"]
      /\ rd' = [r \in Readers |-> [rd[r] EXCEPT !.window = TRUE]]
    BY DEF AtTick
<1>2. w' \in WriterSet /\ w'.pc = "attick" /\ ~w'.new
    BY <1>1, AtRest DEF WriterSet, WriterPC, Idle
<1>3. Counter' = Counter - Interval
  <2>1. hw % Interval \in Int /\ Interval \in Int
      BY CounterType
  <2>2. PICK x \in Int : x = hw % Interval
      BY <2>1
  <2>3. Counter = x + Interval /\ Counter' = x + 0
      BY <1>1, <2>2 DEF Counter
  <2>4. QED
      BY <2>1, <2>3
<1>4. ASSUME NEW r \in Readers
      PROVE  /\ rd'[r] \in ReaderSet /\ rd'[r].window
             /\ \A f \in {"pc", "kind", "th", "gen", "val", "count", "counter", "left",
                          "start", "walls"} : rd'[r][f] = rd[r][f]
  <2>1. rd'[r] = [rd[r] EXCEPT !.window = TRUE] /\ rd[r] \in ReaderSet
      BY <1>1 DEF TypeInv
  <2>2. QED
      BY <2>1 DEF ReaderSet
<1>5. QED
    BY <1>1, <1>2, <1>3, <1>4

(* What the begin of an update in place does *)
LEMMA TickSimpleStep ==
    ASSUME TypeInv, TickSimple
    PROVE  /\ w.pc = "attick" /\ w'.pc = "scount" /\ w'.th = live
           /\ w'.ogen = hand[live].gen /\ w'.new = w.new /\ w' \in WriterSet
           /\ w'.delta = Interval /\ w'.count \in 0 .. Interval - 1
           /\ simple => w'.count <= Counter
           /\ hand' \in [Hands -> HandSet] /\ hand'[live].gen = 0
           /\ \A h \in Hands : /\ h # live => hand'[h] = hand[h]
                               /\ hand'[h].offset = hand[h].offset
                               /\ hand'[h].count = hand[h].count
                               /\ hand'[h].boot = hand[h].boot
                               /\ hand'[h].wall = hand[h].wall
           /\ updates' = updates + 1
           /\ UNCHANGED <<hw, pend, simple, live, rd, sets, hist>>
<1>1. /\ w \in WriterSet /\ live \in Hands /\ hand[live].gen \in 0 .. MaxGen
      /\ Interval \in Nat \ {0} /\ hw \in Int
    BY WriterFields, CounterType DEF TypeInv
<1>2. PICK c \in 0 .. Interval - 1 : c = hw % Interval
    BY <1>1, DivMod
<1> DEFINE rec == [w EXCEPT !.pc = "scount", !.th = live, !.ogen = hand[live].gen,
                            !.delta = Interval, !.count = c]
<1>3. Begin(live, rec)
    BY <1>2 DEF TickSimple
<1>4. rec \in WriterSet
  <2>1. c \in Nat /\ Interval \in Nat
      BY <1>1
  <2>2. QED
      BY <1>1, <2>1 DEF WriterSet, WriterPC
<1>5. /\ rec.pc = "scount" /\ rec.th = live /\ rec.ogen = hand[live].gen
      /\ rec.delta = Interval /\ rec.count = c /\ rec.new = w.new
    BY <1>1 DEF WriterSet
<1>6. simple => c <= Counter
  <2>1. CASE pend
      BY <1>1, <1>2, <2>1 DEF Counter
  <2>2. CASE ~pend
      BY <1>1, <1>2, <2>2 DEF Counter
  <2>3. QED
      BY <2>1, <2>2
<1> HIDE DEF rec
<1>7. QED
    BY <1>1, <1>3, <1>4, <1>5, <1>6, BeginStep DEF TickSimple, hist

(* What an update in place does to th_offset_count *)
LEMMA SimpleCountStep ==
    ASSUME TypeInv, SimpleCount, w.count \in 0 .. Modulus - 1
    PROVE  /\ w.pc = "scount" /\ Proceeds("offset") /\ OnlyHand(w.th) /\ w'.delta = w.delta
           /\ hand'[w.th].count = w.count
           /\ hand'[w.th].gen = hand[w.th].gen /\ hand'[w.th].offset = hand[w.th].offset
           /\ hand'[w.th].boot = hand[w.th].boot
           /\ UNCHANGED <<hw, pend, simple, live, rd, updates, sets, hist>>
<1>1. hand \in [Hands -> HandSet] /\ w.th \in Hands
    BY WriterFields DEF TypeInv
<1>2. hand' = [hand EXCEPT ![w.th].count = w.count]
    BY DEF SimpleCount
<1>3. /\ OnlyHand(w.th) /\ hand'[w.th].count = w.count
      /\ hand'[w.th].gen = hand[w.th].gen /\ hand'[w.th].offset = hand[w.th].offset
      /\ hand'[w.th].boot = hand[w.th].boot
    BY <1>1, <1>2 DEF OnlyHand, HandSet
<1>4. Proceeds("offset") /\ w'.delta = w.delta
    BY ProceedsTo DEF SimpleCount, WriterPC
<1>5. QED
    BY <1>3, <1>4 DEF SimpleCount

(* What a step of a reader does *)
LEMMA ReadsStep ==
    ASSUME TypeInv, NEW r \in Readers, NEW from, NEW rec \in ReaderSet, Reads(r, from, rec)
    PROVE  /\ rd[r].pc = from /\ rd' \in [Readers -> ReaderSet] /\ rd'[r] = rec
           /\ \A q \in Readers : q # r => rd'[q] = rd[q]
           /\ UNCHANGED ReaderOnly
<1>1. rd \in [Readers -> ReaderSet]
    BY DEF TypeInv
<1>2. QED
    BY <1>1 DEF Reads

(* Nothing but what the reader r has read changes, in the fields F at most. *)
ReaderFields == {"pc", "kind", "th", "gen", "val", "count", "counter", "left", "start",
                 "walls", "window"}
OnlyReader(r, F) ==
    /\ rd' \in [Readers -> ReaderSet]
    /\ \A q \in Readers : q # r => rd'[q] = rd[q]
    /\ \A f \in ReaderFields \ F : rd'[r][f] = rd[r][f]
    /\ UNCHANGED ReaderOnly

(* What the begin of a call does *)
LEMMA StartStep ==
    ASSUME TypeInv, NEW r \in Readers, NEW k \in {"uptime", "wall", "get"}, Start(r, k)
    PROVE  /\ rd[r].pc = "idle" /\ rd' \in [Readers -> ReaderSet]
           /\ \A q \in Readers : q # r => rd'[q] = rd[q]
           /\ UNCHANGED ReaderOnly
           /\ rd'[r].pc = "hand" /\ rd'[r].kind = k /\ rd'[r].gen = 0
           /\ rd'[r].left = {}
           /\ rd'[r].start = (IF k = "get" THEN hand[live].offset ELSE hw)
           /\ rd'[r].walls = {IF k = "wall" THEN truth ELSE 0}
<1>1. rd \in [Readers -> ReaderSet] /\ hand[live].offset \in Int /\ hw \in Int /\ truth \in Int
    BY WriterFields DEF TypeInv
<1> DEFINE s == IF k = "get" THEN hand[live].offset ELSE hw
           b == IF k = "wall" THEN truth ELSE 0
           rec == [NotReading EXCEPT !.pc = "hand", !.kind = k, !.start = s, !.walls = {b}]
<1>2. s \in Int /\ b \in Int
    BY <1>1
<1>3. rd' = [rd EXCEPT ![r] = rec] /\ rd[r].pc = "idle" /\ UNCHANGED ReaderOnly
    BY DEF Start
<1> HIDE DEF s, b
<1>4. /\ rec \in ReaderSet /\ rec.pc = "hand" /\ rec.kind = k /\ rec.gen = 0
      /\ rec.left = {}
      /\ rec.start = s /\ rec.walls = {b}
    BY <1>2, AtRest DEF ReaderSet, NotReading
<1> HIDE DEF rec
<1>5. QED
    BY <1>1, <1>3, <1>4 DEF s, b

(* What the read of the current hand does *)
LEMMA LoadHandStep ==
    ASSUME TypeInv, NEW r \in Readers, LoadHand(r)
    PROVE  /\ rd[r].pc = "hand" /\ OnlyReader(r, {"pc", "th", "window"})
           /\ rd'[r].pc = "gen" /\ rd'[r].th = live /\ rd'[r].window = (w.pc = "attick")
<1>1. rd[r] \in ReaderSet /\ live \in Hands
    BY DEF TypeInv
<1> DEFINE rec == [rd[r] EXCEPT !.pc = "gen", !.th = live, !.window = (w.pc = "attick")]
<1>2. /\ rec \in ReaderSet /\ rec.pc = "gen" /\ rec.th = live
      /\ rec.window = (w.pc = "attick")
      /\ \A f \in ReaderFields \ {"pc", "th", "window"} : rec[f] = rd[r][f]
    BY <1>1 DEF ReaderSet, ReaderFields
<1>3. Reads(r, "hand", rec)
    BY DEF LoadHand
<1> HIDE DEF rec
<1>4. QED
    BY <1>2, <1>3, ReadsStep DEF OnlyReader

(* What the read of the generation does *)
LEMMA LoadGenStep ==
    ASSUME TypeInv, NEW r \in Readers, LoadGen(r)
    PROVE  /\ rd[r].pc = "gen" /\ OnlyReader(r, {"pc", "gen"})
           /\ rd'[r].pc = "base" /\ rd'[r].gen = hand[rd[r].th].gen
<1>1. rd[r] \in ReaderSet /\ rd[r].th \in Hands
    BY DEF TypeInv, ReaderSet
<1>2. hand[rd[r].th].gen \in 0 .. MaxGen
    BY <1>1, WriterFields
<1> DEFINE rec == [rd[r] EXCEPT !.pc = "base", !.gen = hand[rd[r].th].gen]
<1>3. /\ rec \in ReaderSet /\ rec.pc = "base" /\ rec.gen = hand[rd[r].th].gen
      /\ \A f \in ReaderFields \ {"pc", "gen"} : rec[f] = rd[r][f]
    BY <1>1, <1>2 DEF ReaderSet, ReaderFields
<1>4. Reads(r, "gen", rec)
    BY DEF LoadGen
<1> HIDE DEF rec
<1>5. QED
    BY <1>3, <1>4, ReadsStep DEF OnlyReader

(* What the read of th_offset or th_bintime does *)
LEMMA LoadBaseStep ==
    ASSUME TypeInv, NEW r \in Readers, LoadBase(r)
    PROVE  /\ rd[r].pc = "base" /\ OnlyReader(r, {"pc", "val", "left"})
           /\ rd'[r].pc = "delta"
           /\ rd'[r].val = (IF rd[r].kind = "wall" THEN hand[rd[r].th].wall
                            ELSE hand[rd[r].th].offset)
           /\ rd'[r].left = (IF rd[r].kind = "get" THEN {} ELSE {"count", "counter"})
<1>1. rd[r] \in ReaderSet /\ rd[r].th \in Hands
    BY DEF TypeInv, ReaderSet
<1> DEFINE v == IF rd[r].kind = "wall" THEN hand[rd[r].th].wall ELSE hand[rd[r].th].offset
           l == IF rd[r].kind = "get" THEN {} ELSE {"count", "counter"}
           rec == [rd[r] EXCEPT !.val = v, !.pc = "delta", !.left = l]
<1>2. v \in Int /\ l \in SUBSET {"count", "counter", "pending"}
    BY <1>1, WriterFields
<1>3. Reads(r, "base", rec)
    BY DEF LoadBase
<1> HIDE DEF v, l
<1>4. /\ rec \in ReaderSet /\ rec.pc = "delta" /\ rec.val = v /\ rec.left = l
      /\ \A f \in ReaderFields \ {"pc", "val", "left"} : rec[f] = rd[r][f]
    BY <1>1, <1>2 DEF ReaderSet, ReaderFields
<1> HIDE DEF rec
<1>5. QED
    BY <1>3, <1>4, ReadsStep DEF OnlyReader, v, l

(* What the read of th_offset_count does *)
LEMMA LoadCountStep ==
    ASSUME TypeInv, NEW r \in Readers, LoadCount(r)
    PROVE  /\ rd[r].pc = "delta" /\ OnlyReader(r, {"count", "left"})
           /\ rd'[r].count = hand[rd[r].th].count /\ rd'[r].left = rd[r].left \ {"count"}
<1>1. rd[r] \in ReaderSet /\ rd[r].th \in Hands
    BY DEF TypeInv, ReaderSet
<1>2. hand[rd[r].th].count \in Nat
    BY <1>1, WriterFields
<1> DEFINE rec == [rd[r] EXCEPT !.count = hand[rd[r].th].count, !.left = @ \ {"count"}]
<1>3. /\ rec \in ReaderSet /\ rec.count = hand[rd[r].th].count
      /\ rec.left = rd[r].left \ {"count"}
      /\ \A f \in ReaderFields \ {"count", "left"} : rec[f] = rd[r][f]
    BY <1>1, <1>2 DEF ReaderSet, ReaderFields
<1>4. Reads(r, "delta", rec)
    BY DEF LoadCount
<1> HIDE DEF rec
<1>5. QED
    BY <1>3, <1>4, ReadsStep DEF OnlyReader

(* What the read of the counter does *)
LEMMA LoadCounterStep ==
    ASSUME TypeInv, NEW r \in Readers, LoadCounter(r)
    PROVE  /\ rd[r].pc = "delta" /\ OnlyReader(r, {"counter", "left"})
           /\ rd'[r].counter = (IF simple THEN hw % Interval ELSE hw % Size)
           /\ rd'[r].left = (rd[r].left \ {"counter"}) \cup (IF simple THEN {"pending"} ELSE {})
<1>1. rd[r] \in ReaderSet /\ hw \in Int /\ Interval \in Nat \ {0} /\ Size \in Nat \ {0}
    BY CounterType DEF TypeInv
<1> DEFINE c == IF simple THEN hw % Interval ELSE hw % Size
           l == (rd[r].left \ {"counter"}) \cup (IF simple THEN {"pending"} ELSE {})
           rec == [rd[r] EXCEPT !.counter = c, !.left = l]
<1>2. c \in Nat
    BY <1>1, DivMod
<1>3. l \in SUBSET {"count", "counter", "pending"}
    BY <1>1 DEF ReaderSet
<1>4. Reads(r, "delta", rec)
    BY DEF LoadCounter
<1> HIDE DEF c, l
<1>5. /\ rec \in ReaderSet /\ rec.counter = c /\ rec.left = l
      /\ \A f \in ReaderFields \ {"counter", "left"} : rec[f] = rd[r][f]
    BY <1>1, <1>2, <1>3 DEF ReaderSet, ReaderFields
<1> HIDE DEF rec
<1>6. QED
    BY <1>4, <1>5, ReadsStep DEF OnlyReader, c, l

(* What the read of the pending flag does *)
LEMMA LoadPendingStep ==
    ASSUME TypeInv, NEW r \in Readers, LoadPending(r)
    PROVE  /\ rd[r].pc = "delta" /\ OnlyReader(r, {"counter", "left"})
           /\ rd'[r].counter = (IF pend THEN Interval + (hw % Interval) ELSE rd[r].counter)
           /\ rd'[r].left = rd[r].left \ {"pending"} /\ "pending" \in rd[r].left
<1>1. rd[r] \in ReaderSet /\ hw \in Int /\ Interval \in Nat \ {0}
    BY CounterType DEF TypeInv
<1> DEFINE c == IF pend THEN Interval + (hw % Interval) ELSE rd[r].counter
           rec == [rd[r] EXCEPT !.counter = c, !.left = @ \ {"pending"}]
<1>2. c \in Nat
  <2>1. hw % Interval \in 0 .. Interval - 1
      BY <1>1, DivMod
  <2>2. CASE pend
      BY <1>1, <2>1, <2>2
  <2>3. CASE ~pend
      BY <1>1, <2>3 DEF ReaderSet
  <2>4. QED
      BY <2>2, <2>3
<1>3. Reads(r, "delta", rec) /\ "pending" \in rd[r].left
    BY DEF LoadPending
<1> HIDE DEF c
<1>4. /\ rec \in ReaderSet /\ rec.counter = c /\ rec.left = rd[r].left \ {"pending"}
      /\ \A f \in ReaderFields \ {"counter", "left"} : rec[f] = rd[r][f]
    BY <1>1, <1>2 DEF ReaderSet, ReaderFields
<1> HIDE DEF rec
<1>5. QED
    BY <1>3, <1>4, ReadsStep DEF OnlyReader, c

(* What the comparison of the generations does *)
LEMMA CheckStep ==
    ASSUME TypeInv, NEW r \in Readers, Check(r)
    PROVE  /\ rd[r].pc = "delta" /\ rd[r].left = {} /\ rd' \in [Readers -> ReaderSet]
           /\ \A q \in Readers : q # r => rd'[q] = rd[q]
           /\ UNCHANGED ReaderOnly
           /\ Unchanged(r) => rd'[r] = NotReading
           /\ ~Unchanged(r) => OnlyReader(r, {"pc", "th", "gen", "val", "count", "counter"})
                               /\ rd'[r].pc = "hand"
<1>1. rd[r] \in ReaderSet /\ 0 \in Hands /\ 0 \in 0 .. MaxGen
    BY TimecounterAssumption DEF TimecounterAssumption, TypeInv, Hands
<1> DEFINE again == [rd[r] EXCEPT !.pc = "hand", !.th = 0, !.gen = 0,
                                  !.val = 0, !.count = 0, !.counter = 0]
           rec == IF Unchanged(r) THEN NotReading ELSE again
<1>2. /\ again \in ReaderSet /\ again.pc = "hand"
      /\ \A f \in ReaderFields \ {"pc", "th", "gen", "val", "count", "counter"} :
            again[f] = rd[r][f]
  <2>1. again \in ReaderSet /\ again.pc = "hand"
    <3>1. \A v \in Int, c \in Nat, h \in Hands, g \in 0 .. MaxGen :
             [rd[r] EXCEPT !.pc = "hand", !.th = h, !.gen = g, !.val = v, !.count = c,
                           !.counter = c] \in ReaderSet
        BY <1>1, ZenonT(40) DEF ReaderSet
    <3>2. 0 \in Int /\ 0 \in Nat
        OBVIOUS
    <3>3. again \in ReaderSet
        BY <1>1, <3>1, <3>2, Zenon
    <3>4. QED
        BY <1>1, <3>3 DEF ReaderSet
  <2>2. ReaderFields \ {"pc", "th", "gen", "val", "count", "counter"}
           = {"kind", "left", "start", "walls", "window"}
      BY DEF ReaderFields
  <2>3. \A f \in {"kind", "left", "start", "walls", "window"} : again[f] = rd[r][f]
      BY <1>1 DEF ReaderSet
  <2>4. QED
      BY <2>1, <2>2, <2>3
<1>3. Reads(r, "delta", rec) /\ rd[r].left = {}
    BY DEF Check
<1> HIDE DEF again
<1>4. rec \in ReaderSet
    BY <1>2, AtRest
<1>5. /\ Unchanged(r) => rec = NotReading
      /\ ~Unchanged(r) => rec = again
    OBVIOUS
<1> HIDE DEF rec
<1>6. /\ rd[r].pc = "delta" /\ rd' \in [Readers -> ReaderSet] /\ rd'[r] = rec
      /\ \A q \in Readers : q # r => rd'[q] = rd[q]
      /\ UNCHANGED ReaderOnly
    BY <1>3, <1>4, ReadsStep
<1>7. QED
    BY <1>2, <1>3, <1>5, <1>6 DEF OnlyReader

(* A step of any reader *)
LEMMA ReaderStep ==
    ASSUME TypeInv, NEW r \in Readers,
           Reader(r) \/ \E k \in {"uptime", "wall", "get"} : Start(r, k)
    PROVE  /\ rd' \in [Readers -> ReaderSet]
           /\ \A q \in Readers : q # r => rd'[q] = rd[q]
           /\ UNCHANGED ReaderOnly
<1>1. CASE \E k \in {"uptime", "wall", "get"} : Start(r, k)
    BY <1>1, StartStep
<1>2. CASE Reader(r)
    BY <1>2, LoadHandStep, LoadGenStep, LoadBaseStep, LoadCountStep, LoadCounterStep,
       LoadPendingStep, CheckStep DEF Reader, OnlyReader
<1>3. QED
    BY <1>1, <1>2

-----------------------------------------------------------------------------
(* The invariant is kept *)

(* Every step keeps the types. *)
LEMMA TypeInvNext ==
    ASSUME TypeInv, WriterInv, GenInv, InPlaceInv, Next
    PROVE  TypeInv'
<1>0. HandSet' = HandSet /\ simple' = simple /\ simple \in BOOLEAN
    BY KindFixed DEF TypeInv
<1>1. CASE Advance
  <2>1. hw' \in 0 .. MaxTime
      BY <1>1, TimecounterAssumption DEF TimecounterAssumption, Advance, TypeInv
  <2>2. pend' \in BOOLEAN
    <3>1. pend' = TRUE \/ pend' = pend
        BY <1>1 DEF Advance
    <3>2. QED
        BY <3>1 DEF TypeInv
  <2>3. QED
      BY <1>0, <1>1, <2>1, <2>2 DEF Advance, TypeInv, hist
<1>2. CASE TickWindup \/ SetClock
  <2>1. updates' \in 0 .. MaxUpdates
      BY <1>2, WindupStep, TimecounterAssumption DEF TimecounterAssumption, TypeInv
  <2>2. QED
      BY <1>0, <1>2, <2>1, WindupStep DEF TypeInv, hist
<1>3. CASE AtTick
    BY <1>0, <1>3, AtTickStep DEF TypeInv, hist
<1>4. CASE Copy \/ Offset \/ Wall
    BY <1>0, <1>4, CopyStep, OffsetStep, WallStep DEF TypeInv, hist, OnlyHand, Proceeds
<1>5. CASE Count
    BY <1>0, <1>5, CountStep DEF TypeInv, hist, OnlyHand, Proceeds
<1>6. CASE Gen
  <2>1. Rank(w.ogen) < updates
      BY <1>6 DEF GenInv, Writing, Gen
  <2>2. QED
      BY <1>0, <1>6, <2>1, GenStep, MeetStep DEF TypeInv, hist, OnlyHand, Proceeds
<1>7. CASE Publish
  <2>1. truth' \in Int /\ live' \in Hands
      BY <1>7, PublishStep, WriterFields DEF NewTruth
  <2>2. QED
      BY <1>0, <1>7, <2>1, PublishStep, MeetStep DEF TypeInv
<1>8. CASE TickSimple
  <2>1. updates' \in 0 .. MaxUpdates
    <3>1. w.pc = "attick" /\ updates' = updates + 1
        BY <1>8, TickSimpleStep
    <3>2. QED
        BY <3>1, TimecounterAssumption DEF TimecounterAssumption, TypeInv, WriterInv
  <2>2. QED
      BY <1>0, <1>8, <2>1, TickSimpleStep DEF TypeInv, hist
<1>9. CASE SimpleCount
  <2>1. w.count \in 0 .. Modulus - 1
    <3>1. simple /\ w.count \in 0 .. Interval - 1
        BY <1>9 DEF SimpleCount, InPlaceInv, WriterInv
    <3>2. QED
        BY <3>1, CounterType
  <2>2. QED
      BY <1>0, <1>9, <2>1, SimpleCountStep DEF TypeInv, hist, OnlyHand, Proceeds
<1>10. CASE \E r \in Readers : Reader(r) \/ \E k \in {"uptime", "wall", "get"} : Start(r, k)
    BY <1>0, <1>10, ReaderStep DEF TypeInv, ReaderOnly, hist
<1>11. QED
    BY <1>1, <1>2, <1>3, <1>4, <1>5, <1>6, <1>7, <1>8, <1>9, <1>10 DEF Next, Writer

(* Every step keeps what the writer knows. *)
LEMMA WriterInvNext ==
    ASSUME TypeInv, WriterInv, GenInv, InPlaceInv, Next
    PROVE  WriterInv'
<1> USE DEF WriterInv, Writing, InPlace
<1>0. /\ updates \in 0 .. MaxUpdates /\ MaxUpdates \in Nat /\ live \in Hands /\ drift \in Nat
    BY TimecounterAssumption DEF TimecounterAssumption, TypeInv
<1>1. CASE Advance
    BY <1>1 DEF Advance, hist
<1>2. CASE TickWindup \/ SetClock
  <2>1. 1 - live # live
      BY <1>0, OtherHand
  <2>2. /\ w'.pc = "copy" /\ w'.th = 1 - live
        /\ simple => w'.new
        /\ UNCHANGED <<simple, live, hist>>
      BY <1>2, WindupStep
  <2>3. QED
      BY <2>1, <2>2 DEF hist
<1>3. CASE AtTick
    BY <1>3, AtTickStep DEF hist
<1>4. CASE Copy \/ Offset \/ Wall
    BY <1>4, CopyStep, OffsetStep, WallStep DEF hist, Proceeds
<1>5. CASE Count
    BY <1>5, CountStep DEF hist, Proceeds
<1>6. CASE Gen
  <2>1. Rank(w.ogen) < updates
      BY <1>6 DEF GenInv, Gen
  <2>2. QED
      BY <1>6, <2>1, GenStep DEF hist, Proceeds
<1>7. CASE Publish
    BY <1>7, PublishStep
<1>8. CASE TickSimple
  <2>1. /\ w.pc = "attick" /\ w'.pc = "scount" /\ w'.th = live /\ w'.new = w.new
        /\ UNCHANGED <<simple, live, hist>>
      BY <1>8, TickSimpleStep
  <2>2. QED
      BY <2>1 DEF hist
<1>9. CASE SimpleCount
  <2>1. w.count \in 0 .. Modulus - 1
    <3>1. simple /\ w.count \in 0 .. Interval - 1
        BY <1>9 DEF SimpleCount, InPlaceInv
    <3>2. QED
        BY <3>1, CounterType
  <2>2. QED
      BY <1>9, <2>1, SimpleCountStep DEF hist, Proceeds
<1>10. CASE \E r \in Readers : Reader(r) \/ \E k \in {"uptime", "wall", "get"} : Start(r, k)
    BY <1>10, ReaderStep DEF ReaderOnly, hist
<1>11. QED
    BY <1>1, <1>2, <1>3, <1>4, <1>5, <1>6, <1>7, <1>8, <1>9, <1>10 DEF Next, Writer

(* Every step keeps the generations in order. *)
LEMMA GenInvNext ==
    ASSUME TypeInv, WriterInv, GenInv, InPlaceInv, Next
    PROVE  GenInv'
<1>0. /\ updates \in 0 .. MaxUpdates /\ MaxUpdates \in Nat /\ live \in Hands
      /\ w.th \in Hands /\ MaxGen \in Nat \ {0} /\ MaxUpdates < MaxGen
      /\ w.ogen \in 0 .. MaxGen /\ \A h \in Hands : hand[h].gen \in 0 .. MaxGen
    BY WriterFields, TimecounterAssumption DEF TimecounterAssumption, TypeInv
<1>1. \A r \in Readers : rd[r].gen \in 0 .. MaxGen /\ rd[r].th \in Hands
    BY DEF TypeInv, ReaderSet
<1>2. /\ \A h \in Hands : Rank(LastGen(h)) <= updates
      /\ Writing => hand[w.th].gen = 0 /\ Rank(w.ogen) < updates
      /\ w.pc = "publish" => hand[w.th].gen # 0
      /\ ~(Writing /\ w.th = live) => hand[live].gen # 0
      /\ \A r \in Readers :
            rd[r].pc \in {"base", "delta"} /\ rd[r].gen # 0
               => Rank(rd[r].gen) <= Rank(LastGen(rd[r].th))
    BY DEF GenInv, InPlace
<1>3. \A g \in 0 .. MaxGen : Rank(g) \in Nat
    BY <1>0 DEF Rank
<1>4. \A h \in Hands : LastGen(h) \in 0 .. MaxGen
    BY <1>0 DEF LastGen
(* The steps that change neither the generations nor the writer's hand *)
<1>5. ASSUME UNCHANGED <<live, updates>>,
             \A h \in Hands : hand'[h].gen = hand[h].gen,
             Writing' <=> Writing, w'.pc = "publish" <=> w.pc = "publish",
             Writing \/ w.pc = "publish" => w'.th = w.th /\ w'.ogen = w.ogen,
             \A r \in Readers : rd'[r].pc \in {"base", "delta"} /\ rd'[r].gen # 0 =>
                \/ /\ rd[r].pc \in {"base", "delta"}
                   /\ rd'[r].gen = rd[r].gen /\ rd'[r].th = rd[r].th
                \/ /\ rd'[r].th = rd[r].th /\ rd'[r].gen = hand[rd[r].th].gen
      PROVE  GenInv'
  <2>1. \A h \in Hands : LastGen(h)' = LastGen(h)
      BY <1>5 DEF LastGen
  <2>2. ASSUME NEW r \in Readers, rd'[r].pc \in {"base", "delta"}, rd'[r].gen # 0
        PROVE  Rank(rd[r].gen)' <= Rank(LastGen(rd[r].th))'
    <3>1. PICK h \in Hands : h = rd[r].th
        BY <1>1
    <3>2. PICK g \in 0 .. MaxGen : g = LastGen(h)
        BY <1>4
    <3>3. rd'[r].th = h /\ LastGen(rd[r].th)' = g
        BY <1>5, <2>1, <2>2, <3>1, <3>2 DEF LastGen
    <3>4. CASE rd[r].pc \in {"base", "delta"} /\ rd'[r].gen = rd[r].gen
        BY <1>2, <2>2, <3>1, <3>2, <3>3, <3>4 DEF Rank
    <3>5. CASE rd'[r].gen = hand[rd[r].th].gen
      <4>1. g = hand[h].gen
          BY <1>2, <2>2, <3>1, <3>2, <3>5 DEF LastGen
      <4>2. Rank(g) <= Rank(g)
          BY <1>3
      <4>3. QED
          BY <3>1, <3>3, <3>5, <4>1, <4>2 DEF Rank
    <3>6. QED
        BY <1>5, <2>2, <3>4, <3>5
  <2>3. \A h \in Hands : Rank(LastGen(h))' <= updates'
      BY <1>2, <1>5, <2>1 DEF Rank
  <2>4. \A r \in Readers : (rd[r].pc \in {"base", "delta"} /\ rd[r].gen # 0
               => Rank(rd[r].gen) <= Rank(LastGen(rd[r].th)))'
      BY <2>2
  <2>5. QED
      BY <1>0, <1>2, <1>5, <2>3, <2>4 DEF GenInv, InPlace
<1>6. CASE Advance \/ AtTick
  <2>1. /\ UNCHANGED <<live, updates, hand>> /\ (Writing' <=> Writing)
        /\ w'.pc = "publish" <=> w.pc = "publish"
        /\ Writing \/ w.pc = "publish" => w' = w
      BY <1>6, AtTickStep DEF Advance, Writing
  <2>2. \A r \in Readers : rd'[r].pc = rd[r].pc /\ rd'[r].gen = rd[r].gen
                           /\ rd'[r].th = rd[r].th
      BY <1>6, AtTickStep DEF Advance
  <2>3. QED
      BY <1>5, <2>1, <2>2
<1>7. CASE Copy \/ Count \/ Offset \/ Wall \/ SimpleCount
  <2>0. SimpleCount => w.count \in 0 .. Modulus - 1
      BY CounterType DEF SimpleCount, InPlaceInv, WriterInv
  <2>1. UNCHANGED <<live, updates, rd>> /\ Writing' /\ Writing
        /\ w'.pc # "publish" /\ w.pc # "publish" /\ w'.th = w.th /\ w'.ogen = w.ogen
      BY <1>7, <2>0, CopyStep, CountStep, OffsetStep, WallStep, SimpleCountStep
         DEF Proceeds, Writing
  <2>2. \A h \in Hands : hand'[h].gen = hand[h].gen
    <3>1. OnlyHand(w.th) /\ hand'[w.th].gen = hand[w.th].gen
        BY <1>2, <1>7, <2>0, CopyStep, CountStep, OffsetStep, WallStep, SimpleCountStep
           DEF Writing
    <3>2. QED
        BY <3>1 DEF OnlyHand
  <2>3. QED
      BY <1>5, <2>1, <2>2
<1>8. CASE \E r \in Readers : Reader(r) \/ \E k \in {"uptime", "wall", "get"} : Start(r, k)
  <2>1. PICK r \in Readers : Reader(r) \/ \E k \in {"uptime", "wall", "get"} : Start(r, k)
      BY <1>8
  <2>2. UNCHANGED <<live, updates, hand, w>> /\ \A q \in Readers : q # r => rd'[q] = rd[q]
      BY <2>1, ReaderStep DEF ReaderOnly
  <2>3. rd'[r].pc \in {"base", "delta"} /\ rd'[r].gen # 0 =>
          \/ /\ rd[r].pc \in {"base", "delta"}
             /\ rd'[r].gen = rd[r].gen /\ rd'[r].th = rd[r].th
          \/ /\ rd'[r].th = rd[r].th /\ rd'[r].gen = hand[rd[r].th].gen
    <3>1. CASE LoadGen(r)
        BY <3>1, LoadGenStep DEF OnlyReader, ReaderFields
    <3>2. CASE LoadBase(r) \/ LoadCount(r) \/ LoadCounter(r) \/ LoadPending(r)
        BY <3>2, LoadBaseStep, LoadCountStep, LoadCounterStep, LoadPendingStep
           DEF OnlyReader, ReaderFields
    <3>3. CASE LoadHand(r) \/ Check(r) \/ \E k \in {"uptime", "wall", "get"} : Start(r, k)
      <4>1. rd'[r].pc \notin {"base", "delta"}
          BY <3>3, LoadHandStep, CheckStep, StartStep DEF NotReading
      <4>2. QED
          BY <4>1
    <3>4. QED
        BY <2>1, <3>1, <3>2, <3>3 DEF Reader
  <2>4. QED
      BY <1>5, <2>2, <2>3 DEF Writing
<1>9. CASE TickWindup \/ SetClock \/ TickSimple
  <2>1. PICK th \in Hands :
          /\ w'.th = th /\ w'.ogen = hand[th].gen /\ hand'[th].gen = 0
          /\ \A h \in Hands : h # th => hand'[h] = hand[h]
          /\ w'.pc \in {"copy", "scount"} /\ (w'.pc = "copy" => th # live)
          /\ updates' = updates + 1 /\ w.pc \in {"idle", "attick"}
          /\ UNCHANGED <<live, rd>>
    <3>1. CASE TickWindup \/ SetClock
        BY <1>0, <3>1, WindupStep, OtherHand
    <3>2. CASE TickSimple
        BY <1>0, <3>2, TickSimpleStep
    <3>3. QED
        BY <1>9, <3>1, <3>2
  <2>2. Writing' /\ ~Writing /\ w'.pc # "publish"
      BY <2>1 DEF Writing
  <2>3. \A h \in Hands : LastGen(h)' = LastGen(h)
      BY <2>1, <2>2 DEF LastGen
  <2>4. \A h \in Hands : Rank(LastGen(h))' <= updates'
      BY <1>0, <1>2, <1>3, <1>4, <2>1, <2>3 DEF Rank
  <2>5. Rank(w'.ogen) < updates'
    <3>1. LastGen(th) = hand[th].gen
        BY <2>2 DEF LastGen
    <3>2. QED
        BY <1>0, <1>2, <1>3, <1>4, <2>1, <3>1
  <2>6. \A r \in Readers : (rd[r].pc \in {"base", "delta"} /\ rd[r].gen # 0
               => Rank(rd[r].gen) <= Rank(LastGen(rd[r].th)))'
      BY <1>1, <1>2, <2>1, <2>3 DEF Rank
  <2>7. ~(w'.th = live') => hand'[live'].gen # 0
      BY <1>0, <1>2, <2>1, <2>2
  <2>8. QED
      BY <2>1, <2>2, <2>4, <2>5, <2>6, <2>7 DEF GenInv, InPlace, Rank
<1>10. CASE Gen
  <2>1. Writing /\ Rank(w.ogen) < updates
      BY <1>2, <1>10 DEF Writing, Gen
  <2>2. /\ w'.pc = "publish" /\ w'.th = w.th /\ hand'[w.th].gen # 0
        /\ Rank(hand'[w.th].gen) = Rank(w.ogen) + 1
        /\ \A h \in Hands : h # w.th => hand'[h] = hand[h]
        /\ UNCHANGED <<live, updates>>
      BY <1>10, <2>1, GenStep DEF Proceeds, OnlyHand
  <2>3. ~Writing'
      BY <2>2 DEF Writing
  <2>4. /\ LastGen(w.th) = w.ogen /\ LastGen(w.th)' = hand'[w.th].gen
        /\ \A h \in Hands : h # w.th => LastGen(h)' = LastGen(h)
      BY <2>1, <2>2, <2>3 DEF LastGen
  <2>5. \A h \in Hands : Rank(LastGen(h)') <= updates' /\ Rank(LastGen(h)) <= Rank(LastGen(h)')
    <3> SUFFICES ASSUME NEW h \in Hands
                 PROVE  Rank(LastGen(h)') <= updates' /\ Rank(LastGen(h)) <= Rank(LastGen(h)')
        OBVIOUS
    <3>1. CASE h = w.th
      <4>1. Rank(LastGen(h)) = Rank(w.ogen) /\ Rank(LastGen(h)') = Rank(w.ogen) + 1
          BY <2>2, <2>4, <3>1
      <4>2. QED
          BY <1>0, <1>3, <2>1, <2>2, <4>1
    <3>2. CASE h # w.th
        BY <1>0, <1>2, <1>3, <1>4, <2>2, <2>4, <3>2
    <3>3. QED
        BY <3>1, <3>2
  <2>6. \A r \in Readers : rd'[r].pc = rd[r].pc /\ rd'[r].gen = rd[r].gen
                           /\ rd'[r].th = rd[r].th
      BY <1>10, <2>1, GenStep, MeetStep
  <2>7. \A h \in Hands : LastGen(h)' \in 0 .. MaxGen
    <3>1. TypeInv'
        BY TypeInvNext
    <3>2. \A h \in Hands : hand'[h].gen \in 0 .. MaxGen
        BY <3>1 DEF TypeInv, HandSet
    <3>3. QED
        BY <2>3, <3>2 DEF LastGen
  <2>8. ASSUME NEW r \in Readers, rd'[r].pc \in {"base", "delta"}, rd'[r].gen # 0
        PROVE  Rank(rd[r].gen)' <= Rank(LastGen(rd[r].th))'
    <3>1. PICK h \in Hands : h = rd[r].th
        BY <1>1
    <3>2. PICK g \in 0 .. MaxGen : g = LastGen(h)'
        BY <2>7
    <3>3. rd'[r].th = h /\ rd'[r].gen = rd[r].gen /\ LastGen(rd[r].th)' = g
        BY <2>6, <3>1, <3>2 DEF LastGen
    <3>4. Rank(rd[r].gen) <= Rank(LastGen(h)) /\ Rank(LastGen(h)) <= Rank(g)
        BY <1>2, <2>5, <2>6, <2>8, <3>1, <3>2
    <3>5. Rank(rd[r].gen) <= Rank(g)
        BY <1>1, <1>3, <1>4, <3>4
    <3>6. QED
        BY <3>3, <3>5 DEF Rank
  <2>9. \A r \in Readers : (rd[r].pc \in {"base", "delta"} /\ rd[r].gen # 0
               => Rank(rd[r].gen) <= Rank(LastGen(rd[r].th)))'
      BY <2>8
  <2>10. hand'[live'].gen # 0
      BY <1>0, <1>2, <2>2
  <2>11. \A h \in Hands : Rank(LastGen(h))' <= updates'
      BY <2>5 DEF Rank
  <2>12. QED
      BY <2>2, <2>3, <2>9, <2>10, <2>11 DEF GenInv
<1>11. CASE Publish
  <2>1. /\ w.pc = "publish" /\ w'.pc = "idle" /\ live' = w.th /\ UNCHANGED <<hand, updates>>
      BY <1>11, PublishStep
  <2>2. ~Writing /\ ~Writing'
      BY <2>1 DEF Writing
  <2>3. \A h \in Hands : LastGen(h)' = LastGen(h)
      BY <2>1, <2>2 DEF LastGen
  <2>4. \A r \in Readers : rd'[r].pc = rd[r].pc /\ rd'[r].gen = rd[r].gen
                           /\ rd'[r].th = rd[r].th
      BY <1>11, PublishStep, MeetStep
  <2>5. \A r \in Readers : (rd[r].pc \in {"base", "delta"} /\ rd[r].gen # 0
               => Rank(rd[r].gen) <= Rank(LastGen(rd[r].th)))'
      BY <1>1, <1>2, <2>3, <2>4 DEF Rank
  <2>6. \A h \in Hands : Rank(LastGen(h))' <= updates'
      BY <1>2, <2>1, <2>3 DEF Rank
  <2>7. QED
      BY <1>2, <2>1, <2>2, <2>5, <2>6 DEF GenInv
<1>12. QED
    BY <1>6, <1>7, <1>8, <1>9, <1>10, <1>11 DEF Next, Writer

(* A hand that is not written stays as right as it was while time does not  *)
(* pass, ...                                                                *)
LEMMA HandKept ==
    ASSUME TypeInv, TypeInv', UNCHANGED <<hw, pend, simple>>, NEW h \in Hands,
           hand'[h].offset = hand[h].offset, hand'[h].count = hand[h].count,
           hand'[h].boot = hand[h].boot, hand'[h].wall = hand[h].wall, drift <= drift'
    PROVE  /\ Counter' = Counter /\ Error(h)' = Error(h)
           /\ UptimeRight(h) => UptimeRight(h)'
           /\ \A b \in Int : /\ BootRight(h, b) => BootRight(h, b)'
                             /\ WallRight(h, b) => WallRight(h, b)'
<1>1. /\ Counter' = Counter /\ Error(h)' = Error(h) /\ Slack' = Slack /\ Slack \in Nat
      /\ Counter \in Int
    BY CounterType DEF Counter, Error, Slack
<1>2. hand[h].offset \in Int /\ hand[h].count \in Int /\ hand[h].boot \in Int /\ hw \in Int
      /\ drift \in Nat /\ drift' \in Nat
    BY WriterFields DEF TypeInv
<1>3. Error(h) \in Int
    BY <1>1, <1>2 DEF Error
<1>4. Fits(h) => Fits(h)'
    BY <1>1 DEF Fits
<1>5. UptimeRight(h) => UptimeRight(h)'
    BY <1>1, <1>2, <1>3, <1>4 DEF UptimeRight
<1>6. ASSUME NEW b \in Int
      PROVE  /\ BootRight(h, b) => BootRight(h, b)'
             /\ WallRight(h, b) => WallRight(h, b)'
  <2>1. BootRight(h, b) => BootRight(h, b)'
      BY <1>1, <1>2 DEF BootRight
  <2>2. QED
      BY <1>1, <1>2, <1>3, <2>1 DEF WallRight
<1>7. QED
    BY <1>1, <1>5, <1>6

(* ... and also while it passes, if the hand is valid. *)
LEMMA HandMoves ==
    ASSUME TypeInv, TypeInv', Advance, NEW h \in Hands
    PROVE  /\ simple => Counter' = Counter + 1
           /\ Error(h)' = Error(h)
           /\ hand[h].gen # 0 /\ UptimeRight(h) => UptimeRight(h)'
           /\ \A b \in Int : /\ BootRight(h, b) => BootRight(h, b)'
                             /\ WallRight(h, b) => WallRight(h, b)'
<1>1. /\ hw' = hw + 1 /\ UNCHANGED <<simple, hand, drift>>
    BY DEF Advance, hist
<1>2. /\ hand[h].offset \in Int /\ hand[h].count \in Int /\ hand[h].boot \in Int
      /\ hw \in Int /\ Counter \in Int /\ Slack' = Slack
    BY <1>1, WriterFields, CounterType DEF Slack
<1>3. simple => Counter' = Counter + 1
    BY CounterMoves
<1>4. Error(h)' = Error(h)
  <2>1. CASE simple
    <3>1. /\ Error(h) = hand[h].offset + Counter - hand[h].count - hw
          /\ Error(h)' = hand[h].offset + (Counter + 1) - hand[h].count - (hw + 1)
        BY <1>1, <1>3, <2>1 DEF Error
    <3>2. QED
        BY <1>2, <3>1
  <2>2. CASE ~simple
      BY <1>1, <2>2 DEF Error
  <2>3. QED
      BY <2>1, <2>2
<1>5. hand[h].gen # 0 /\ Fits(h) => Fits(h)'
  <2>1. CASE simple
      BY <1>1, <1>2, <1>3, <2>1 DEF Fits
  <2>2. CASE ~simple
    <3>1. hand[h].gen # 0 => hw + 1 - hand[h].offset < Size
        BY <2>2 DEF Advance, InTime
    <3>2. QED
        BY <1>1, <1>2, <2>2, <3>1 DEF Fits
  <2>3. QED
      BY <2>1, <2>2
<1>6. hand[h].gen # 0 /\ UptimeRight(h) => UptimeRight(h)'
    BY <1>1, <1>2, <1>4, <1>5 DEF UptimeRight
<1>7. \A b \in Int : /\ BootRight(h, b) => BootRight(h, b)'
                     /\ WallRight(h, b) => WallRight(h, b)'
    BY <1>1, <1>2, <1>4 DEF BootRight, WallRight
<1>8. QED
    BY <1>3, <1>4, <1>6, <1>7

(* When an update has written all of its hand, the hand is right. *)
LEMMA NewHandRight ==
    ASSUME TypeInv, WriterInv, LiveInv, InPlaceInv, WindupInv, w.pc \in {"gen", "publish"}
    PROVE  /\ UptimeRight(w.th) /\ WallRight(w.th, NewTruth) /\ NewTruth \in Int
           /\ hand[w.th].offset >= hand[live].offset /\ hand[w.th].offset <= hw + drift
           /\ simple => hand[w.th].offset = hw - Counter + drift
<1> DEFINE H == hand[w.th]
           L == hand[live]
<1>1. /\ H.offset \in Int /\ H.count \in Nat /\ H.boot \in Int /\ hw \in Nat /\ drift \in Nat
      /\ L.offset \in Int /\ L.count \in Nat /\ L.boot \in Int /\ truth \in Int
      /\ w.truth \in Int /\ w.boot \in Int /\ w.delta \in Nat
      /\ w.th \in Hands /\ live \in Hands
    BY WriterFields
<1>2. Counter \in Nat /\ Slack \in Nat /\ Interval \in Nat \ {0} /\ Size \in Nat \ {0}
      /\ (simple => Slack = Interval - 1)
    BY CounterType
<1>3. NewTruth \in Int
    BY <1>1 DEF NewTruth
<1>4. CASE w.th = live
  <2>1. simple /\ ~w.new /\ NewTruth = truth
      BY <1>4 DEF WriterInv, InPlace, Writing, NewTruth
  <2>2. CASE w.pc = "gen"
    <3>1. /\ L.count < Interval /\ L.count <= Counter
          /\ L.wall = L.offset + L.boot
          /\ BootRight(live, truth) /\ L.offset = hw - Counter + drift
      <4>1. L.offset = hw - Counter + drift - 0
          BY <1>4, <2>1, <2>2 DEF LiveInv, InPlace
      <4>2. L.count < Interval /\ L.count <= Counter /\ L.wall = L.offset + L.boot
          BY <1>4, <2>2 DEF InPlaceInv, InPlace
      <4>3. QED
          BY <1>1, <1>2, <4>1, <4>2 DEF LiveInv
    <3>2. Error(live) = drift - L.count
        BY <1>1, <1>2, <2>1, <3>1 DEF Error
    <3>3. UptimeRight(live)
        BY <1>1, <1>2, <2>1, <3>1, <3>2 DEF UptimeRight, Fits
    <3>4. WallRight(live, truth)
      <4>1. L.boot - truth \in -drift .. Slack
          BY <3>1 DEF BootRight
      <4>2. Error(live) + L.boot - truth \in -Slack .. drift + Slack
          BY <1>1, <1>2, <2>1, <3>1, <3>2, <4>1
      <4>3. QED
          BY <3>1, <4>2 DEF WallRight
    <3>5. QED
        BY <1>1, <1>2, <1>3, <1>4, <2>1, <3>1, <3>3, <3>4
  <2>3. CASE w.pc = "publish"
    <3>1. UptimeRight(live) /\ WallRight(live, truth) /\ L.offset <= hw + drift
        BY <1>4, <2>3 DEF LiveInv, Writing
    <3>2. L.offset = hw - Counter + drift - 0
        BY <1>4, <2>1, <2>3 DEF LiveInv, InPlace
    <3>3. QED
        BY <1>1, <1>2, <1>3, <1>4, <2>1, <3>1, <3>2
  <2>4. QED
      BY <2>2, <2>3
<1>5. CASE w.th # live
  <2>1. /\ w.new => w.boot = w.truth - Error(live)
        /\ H.boot = IF w.new THEN w.boot ELSE L.boot
        /\ H.offset = L.offset + w.delta
        /\ simple => H.count = L.count + w.delta /\ H.count <= Counter
        /\ ~simple => L.offset + w.delta <= hw /\ H.count = (L.offset + w.delta) % Size
        /\ H.wall = H.offset + H.boot
      BY <1>5 DEF WindupInv, Writing, InPlace
  <2>2. UptimeRight(live) /\ WallRight(live, truth)
      BY <1>5 DEF LiveInv, InPlace
  <2>3. simple => H.offset = hw - Counter + drift
    <3>1. simple => L.offset = hw - Counter + drift - w.delta
        BY <1>5 DEF LiveInv, InPlace
    <3>2. QED
        BY <1>1, <1>2, <2>1, <3>1
  <2>4. Error(w.th) = Error(live) /\ Error(live) \in Int
    <3>1. CASE simple
      <4>1. /\ Error(live) = L.offset + Counter - L.count - hw
            /\ Error(w.th) = H.offset + Counter - H.count - hw
          BY <3>1 DEF Error
      <4>2. QED
          BY <1>1, <1>2, <2>1, <3>1, <4>1
    <3>2. CASE ~simple
        BY <3>2 DEF Error
    <3>3. QED
        BY <3>1, <3>2
  <2>5. Fits(w.th)
    <3>1. CASE simple
        BY <2>1, <3>1 DEF Fits
    <3>2. CASE ~simple
      <4>1. hw - L.offset < Size
          BY <2>2, <3>2 DEF UptimeRight, Fits
      <4>2. QED
          BY <1>1, <1>2, <2>1, <3>2, <4>1 DEF Fits
    <3>3. QED
        BY <3>1, <3>2
  <2>6. UptimeRight(w.th)
      BY <2>2, <2>4, <2>5 DEF UptimeRight
  <2>7. Error(live) \in -Slack .. drift
      BY <2>2 DEF UptimeRight
  <2>8. WallRight(w.th, NewTruth)
    <3>1. CASE w.new
      <4>1. NewTruth = w.truth /\ H.boot = w.truth - Error(live)
          BY <2>1, <3>1 DEF NewTruth
      <4>2. H.boot - NewTruth = -Error(live) /\ Error(w.th) + H.boot - NewTruth = 0
          BY <1>1, <2>4, <4>1
      <4>3. QED
          BY <1>1, <1>2, <2>1, <2>4, <2>7, <4>2 DEF WallRight, BootRight
    <3>2. CASE ~w.new
      <4>1. NewTruth = truth /\ H.boot = L.boot
          BY <2>1, <3>2 DEF NewTruth
      <4>2. QED
          BY <2>1, <2>2, <2>4, <4>1 DEF WallRight, BootRight
    <3>3. QED
        BY <3>1, <3>2
  <2>9. H.offset <= hw + drift
    <3>1. CASE simple
        BY <1>1, <1>2, <2>3, <3>1
    <3>2. CASE ~simple
        BY <1>1, <2>1, <3>2
    <3>3. QED
        BY <3>1, <3>2
  <2>10. QED
      BY <1>1, <1>3, <2>1, <2>3, <2>6, <2>8, <2>9
<1>6. QED
    BY <1>4, <1>5

(* What a step of a reader leaves alone *)
LEMMA ReaderKeeps ==
    ASSUME TypeInv,
           \E r \in Readers : Reader(r) \/ \E k \in {"uptime", "wall", "get"} : Start(r, k)
    PROVE  UNCHANGED <<hw, pend, simple, hand, live, w, updates, sets, truth, drift>>
BY ReaderStep DEF ReaderOnly, hist

(* Every step keeps the current hand. *)
LEMMA LiveInvNext ==
    ASSUME TypeInv, TypeInv', WriterInv, WriterInv', GenInv, LiveInv, InPlaceInv, WindupInv, Next
    PROVE  LiveInv'
<1> DEFINE Adj == IF w.pc \in {"attick", "scount"} \/ (w.pc = "offset" /\ InPlace) THEN Interval
                  ELSE IF w.pc \in {"offset", "wall", "gen", "publish"} /\ ~InPlace
                  THEN w.delta ELSE 0
<1>0. /\ live \in Hands /\ w.th \in Hands /\ hw \in Nat /\ drift \in Nat /\ truth \in Int
      /\ hand[live].offset \in Int /\ Counter \in Nat /\ Interval \in Nat \ {0}
      /\ w.delta \in Nat /\ simple' = simple
    BY WriterFields, CounterType, KindFixed
<1>1. /\ ~(w.th = live /\ Writing) /\ w.pc # "attick"
            => UptimeRight(live) /\ WallRight(live, truth)
      /\ BootRight(live, truth) /\ hand[live].offset <= hw + drift
      /\ simple => hand[live].offset = hw - Counter + drift - Adj
    BY DEF LiveInv, InPlace
<1>2. ASSUME (~(w.th = live /\ Writing) /\ w.pc # "attick"
                => UptimeRight(live) /\ WallRight(live, truth))',
             BootRight(live, truth)', (hand[live].offset <= hw + drift)',
             (simple => hand[live].offset = hw - Counter + drift - Adj)'
      PROVE  LiveInv'
    BY <1>2 DEF LiveInv, InPlace
<1> HIDE DEF Adj
(* The current hand is not written and goes on being current. *)
<1>3. ASSUME UNCHANGED <<hw, pend, live, truth>>, drift' >= drift,
             hand'[live].offset = hand[live].offset, hand'[live].count = hand[live].count,
             hand'[live].boot = hand[live].boot, hand'[live].wall = hand[live].wall,
             (~(w.th = live /\ Writing) /\ w.pc # "attick")
               \/ (w'.th = live /\ Writing') \/ w'.pc = "attick",
             simple => drift' - Adj' = drift - Adj, Adj \in Int, Adj' \in Int
      PROVE  LiveInv'
  <2>1. /\ Counter' = Counter
        /\ UptimeRight(live) => UptimeRight(live)'
        /\ BootRight(live, truth) => BootRight(live, truth)'
        /\ WallRight(live, truth) => WallRight(live, truth)'
    <3>1. PICK h \in Hands : h = live
        BY <1>0
    <3>2. PICK b \in Int : b = truth
        BY <1>0
    <3>3. drift <= drift' /\ drift' \in Nat
        BY <1>0, <1>3 DEF TypeInv
    <3>4. /\ Counter' = Counter
          /\ UptimeRight(h) => UptimeRight(h)'
          /\ BootRight(h, b) => BootRight(h, b)'
          /\ WallRight(h, b) => WallRight(h, b)'
        BY <1>0, <1>3, <3>1, <3>2, <3>3, HandKept
    <3>5. live' = h /\ truth' = b
        BY <1>3, <3>1, <3>2
    <3>6. QED
        BY <3>1, <3>2, <3>4, <3>5 DEF UptimeRight, BootRight, WallRight, Fits, Error
  <2>2. (~(w.th = live /\ Writing) /\ w.pc # "attick"
                     => UptimeRight(live) /\ WallRight(live, truth))'
      BY <1>1, <1>3, <2>1
  <2>3. (hand[live].offset <= hw + drift)'
    <3>1. drift' \in Nat
        BY DEF TypeInv
    <3>2. QED
        BY <1>0, <1>1, <1>3, <3>1
  <2>4. (simple => hand[live].offset = hw - Counter + drift - Adj)'
    <3>1. drift' \in Nat
        BY DEF TypeInv
    <3>2. ASSUME simple PROVE hand[live].offset = hw - Counter + drift' - Adj'
        BY <1>0, <1>1, <1>3, <3>1, <3>2
    <3>3. QED
        BY <1>0, <1>3, <2>1, <3>2
  <2>5. QED
      BY <1>1, <1>2, <2>1, <2>2, <2>3, <2>4
<1>4. CASE Advance
  <2>1. hw' = hw + 1 /\ UNCHANGED <<hand, live, w, truth, drift>>
      BY <1>4 DEF Advance, hist
  <2>2. PICK h \in Hands : h = live
      BY <1>0
  <2>3. PICK b \in Int : b = truth
      BY <1>0
  <2>4. /\ simple => Counter' = Counter + 1
        /\ hand[h].gen # 0 /\ UptimeRight(h) => UptimeRight(h)'
        /\ BootRight(h, b) => BootRight(h, b)'
        /\ WallRight(h, b) => WallRight(h, b)'
      BY <1>4, HandMoves
  <2>5. live' = h /\ truth' = b
      BY <2>1, <2>2, <2>3
  <2>6. /\ hand[live].gen # 0 /\ UptimeRight(live) => UptimeRight(live)'
        /\ BootRight(live, truth) => BootRight(live, truth)'
        /\ WallRight(live, truth) => WallRight(live, truth)'
      BY <2>2, <2>3, <2>4, <2>5 DEF UptimeRight, BootRight, WallRight, Fits, Error
  <2>7. ~(w.th = live /\ Writing) => hand[live].gen # 0
      BY DEF GenInv, InPlace
  <2>8. Writing' = Writing /\ Adj' = Adj
      BY <2>1 DEF Writing, Adj, InPlace
  <2>9. Adj \in Int
      BY <1>0 DEF Adj
  <2>10. (simple => hand[live].offset = hw - Counter + drift - Adj)'
    <3>1. ASSUME simple PROVE hand[live].offset = (hw + 1) - (Counter + 1) + drift - Adj
        BY <1>0, <1>1, <2>9, <3>1
    <3>2. QED
        BY <1>0, <2>1, <2>4, <2>8, <3>1
  <2>11. (hand[live].offset <= hw + drift)'
      BY <1>0, <1>1, <2>1
  <2>12. QED
      BY <1>1, <1>2, <2>1, <2>6, <2>7, <2>8, <2>10, <2>11
<1>5. CASE TickWindup \/ SetClock
  <2>1. /\ w.pc = "idle" /\ w'.pc = "copy" /\ w'.th # live
        /\ UNCHANGED <<hw, pend, live, truth, drift>>
        /\ hand'[live] = hand[live]
      BY <1>0, <1>5, WindupStep, OtherHand DEF hist
  <2>2. Adj = 0 /\ Adj' = 0
      BY <2>1 DEF Adj
  <2>3. ~Writing
      BY <2>1 DEF Writing
  <2>4. QED
      BY <1>0, <1>2, <1>3, <2>1, <2>2, <2>3
<1>6. CASE Copy
  <2>1. /\ w.pc = "copy" /\ w'.pc = "count" /\ w.th # live
        /\ UNCHANGED <<hw, pend, live, truth, drift>>
        /\ hand'[live] = hand[live]
      BY <1>0, <1>6, CopyStep DEF hist, Proceeds, OnlyHand, WriterInv, InPlace
  <2>2. Adj = 0 /\ Adj' = 0
      BY <2>1 DEF Adj
  <2>3. QED
      BY <1>0, <1>2, <1>3, <2>1, <2>2
<1>7. CASE Count
  <2>1. /\ w.pc = "count" /\ w'.pc = "offset" /\ w.th # live /\ w'.th = w.th
        /\ UNCHANGED <<hw, pend, live, truth>>
        /\ hand'[live] = hand[live]
        /\ drift' = IF simple THEN drift + w'.delta ELSE drift
      BY <1>0, <1>7, CountStep DEF hist, Proceeds, OnlyHand, WriterInv, InPlace
  <2>2. w'.delta \in Nat
      BY DEF TypeInv, WriterSet
  <2>3. Adj = 0 /\ Adj' = w'.delta
      BY <2>1 DEF Adj, InPlace
  <2>4. drift' >= drift /\ (simple => drift' - Adj' = drift - Adj)
      BY <1>0, <2>1, <2>2, <2>3
  <2>5. QED
      BY <1>0, <1>2, <1>3, <2>1, <2>2, <2>3, <2>4
<1>8. CASE Offset \/ Wall
  <2>0. /\ w.pc \in {"offset", "wall"} /\ w'.pc \in {"wall", "gen"} /\ w'.th = w.th
        /\ w'.delta = w.delta /\ UNCHANGED <<hw, pend, live, truth, drift>>
        /\ Writing /\ Writing' /\ OnlyHand(w.th)
        /\ hand'[w.th].boot = hand[w.th].boot
      BY <1>8, OffsetStep, WallStep DEF hist, Proceeds, Writing
  <2>1. CASE w.th # live
    <3>1. hand'[live] = hand[live]
        BY <1>0, <2>0, <2>1 DEF OnlyHand
    <3>2. Adj = w.delta /\ Adj' = w.delta
        BY <2>0, <2>1 DEF Adj, InPlace
    <3>3. QED
        BY <1>0, <1>2, <1>3, <2>0, <2>1, <3>1, <3>2
  <2>2. CASE w.th = live
    <3>1. simple /\ Counter' = Counter
        BY <2>0, <2>2 DEF WriterInv, InPlace, Counter
    <3>2. Adj' = 0
        BY <2>0, <2>2 DEF Adj, InPlace
    <3>3. hand'[live].offset = hw - Counter + drift
      <4>1. CASE Offset
        <5>1. Adj = Interval
            BY <2>2, <4>1, OffsetStep DEF Adj, InPlace
        <5>2. hand'[live].offset = hand[live].offset + w.delta /\ w.delta = Interval
            BY <2>2, <4>1, OffsetStep DEF InPlaceInv, InPlace
        <5>3. hand[live].offset = hw - Counter + drift - Interval
            BY <1>1, <3>1, <5>1
        <5>4. QED
            BY <1>0, <5>2, <5>3
      <4>2. CASE Wall
        <5>1. Adj = 0
            BY <2>2, <4>2, WallStep DEF Adj, InPlace
        <5>2. QED
            BY <1>0, <1>1, <2>2, <3>1, <4>2, <5>1, WallStep
      <4>3. QED
          BY <1>8, <4>1, <4>2
    <3>4. BootRight(live, truth)'
        BY <1>1, <2>0, <2>2, <3>1, KindFixed DEF BootRight
    <3>5. hand'[live].offset <= hw + drift
        BY <1>0, <3>3
    <3>6. hand'[live].offset = hw - Counter + drift - 0
        BY <1>0, <3>3
    <3>7. QED
        BY <1>2, <2>0, <2>2, <3>1, <3>2, <3>4, <3>5, <3>6
  <2>3. QED
      BY <2>1, <2>2
<1>9. CASE Gen
  <2>1. Rank(w.ogen) < updates
      BY <1>9 DEF GenInv, Writing, Gen
  <2>2. /\ w.pc = "gen" /\ w'.pc = "publish" /\ w'.th = w.th /\ w'.delta = w.delta
        /\ UNCHANGED <<hw, pend, live, truth, drift>>
        /\ \A h \in Hands : /\ hand'[h].offset = hand[h].offset
                            /\ hand'[h].count = hand[h].count
                            /\ hand'[h].boot = hand[h].boot
                            /\ hand'[h].wall = hand[h].wall
      BY <1>9, <2>1, GenStep DEF hist, Proceeds
  <2>3. Adj' = Adj /\ Adj \in Int
      BY <1>0, <2>2 DEF Adj, InPlace
  <2>4. CASE w.th # live
      BY <1>0, <1>2, <1>3, <2>2, <2>3, <2>4
  <2>5. CASE w.th = live
    <3>1. UptimeRight(live) /\ WallRight(live, truth)
        BY <2>2, <2>5, NewHandRight DEF NewTruth, WriterInv, Writing, InPlace
    <3>2. PICK h \in Hands : h = live
        BY <1>0
    <3>3. PICK b \in Int : b = truth
        BY <1>0
    <3>4. /\ Counter' = Counter /\ UptimeRight(h)' /\ BootRight(h, b)' /\ WallRight(h, b)'
        BY <1>0, <1>1, <2>2, <3>1, <3>2, <3>3, HandKept
    <3>5. live' = h /\ truth' = b
        BY <2>2, <3>2, <3>3
    <3>6. /\ UptimeRight(live)' /\ BootRight(live, truth)' /\ WallRight(live, truth)'
        BY <3>4, <3>5 DEF UptimeRight, BootRight, WallRight, Fits, Error
    <3>7. QED
        BY <1>0, <1>1, <1>2, <2>2, <2>3, <3>4, <3>6
  <2>6. QED
      BY <2>4, <2>5
<1>10. CASE Publish
  <2>1. /\ w.pc = "publish" /\ w'.pc = "idle" /\ live' = w.th /\ truth' = NewTruth
        /\ UNCHANGED <<hw, pend, hand, drift>>
      BY <1>10, PublishStep
  <2>2. /\ UptimeRight(w.th) /\ WallRight(w.th, NewTruth) /\ NewTruth \in Int
        /\ hand[w.th].offset <= hw + drift
        /\ simple => hand[w.th].offset = hw - Counter + drift
      BY <2>1, NewHandRight
  <2>3. PICK h \in Hands : h = w.th
      BY <1>0
  <2>4. PICK b \in Int : b = NewTruth
      BY <2>2
  <2>5. Counter' = Counter /\ UptimeRight(h)' /\ WallRight(h, b)'
      BY <1>0, <2>1, <2>2, <2>3, <2>4, HandKept
  <2>6. live' = h /\ truth' = b
      BY <2>1, <2>3, <2>4
  <2>7. UptimeRight(live)' /\ WallRight(live, truth)' /\ BootRight(live, truth)'
      BY <2>5, <2>6 DEF UptimeRight, BootRight, WallRight, Fits, Error
  <2>8. Adj' = 0
      BY <2>1 DEF Adj
  <2>9. (simple => hand[live].offset = hw - Counter + drift - Adj)'
      BY <1>0, <2>1, <2>2, <2>5, <2>8
  <2>10. QED
      BY <1>2, <2>1, <2>2, <2>7, <2>9
<1>11. CASE AtTick
  <2>1. /\ w.pc = "idle" /\ w'.pc = "attick" /\ simple /\ Counter' = Counter - Interval
        /\ UNCHANGED <<hw, hand, live, truth, drift>>
      BY <1>11, AtTickStep DEF hist
  <2>2. Adj = 0 /\ Adj' = Interval
      BY <2>1 DEF Adj
  <2>3. BootRight(live, truth)'
      BY <1>1, <2>1, KindFixed DEF BootRight
  <2>4. hand[live].offset = hw - (Counter - Interval) + drift - Interval
      BY <1>0, <1>1, <2>1, <2>2
  <2>5. QED
      BY <1>1, <1>2, <2>1, <2>2, <2>3, <2>4
<1>12. CASE TickSimple
  <2>1. /\ w.pc = "attick" /\ w'.pc = "scount" /\ w'.th = live
        /\ UNCHANGED <<hw, pend, live, truth, drift>>
        /\ hand'[live].offset = hand[live].offset /\ hand'[live].count = hand[live].count
        /\ hand'[live].boot = hand[live].boot /\ hand'[live].wall = hand[live].wall
      BY <1>0, <1>12, TickSimpleStep DEF hist
  <2>2. Adj = Interval /\ Adj' = Interval
      BY <2>1 DEF Adj
  <2>3. Writing'
      BY <2>1 DEF Writing
  <2>4. QED
      BY <1>0, <1>2, <1>3, <2>1, <2>2, <2>3
<1>13. CASE SimpleCount
  <2>0. w.count \in 0 .. Modulus - 1
      BY <1>13, CounterType DEF SimpleCount, InPlaceInv, WriterInv
  <2>1. /\ w.pc = "scount" /\ w'.pc = "offset" /\ w.th = live /\ w'.th = live
        /\ UNCHANGED <<hw, pend, live, truth, drift>>
        /\ hand'[live].offset = hand[live].offset /\ hand'[live].boot = hand[live].boot
      BY <1>0, <1>13, <2>0, SimpleCountStep DEF hist, Proceeds, WriterInv, InPlace
  <2>2. Adj = Interval /\ Adj' = Interval
      BY <2>1 DEF Adj, InPlace
  <2>3. Writing' /\ Counter' = Counter
      BY <1>0, <2>1 DEF Writing, Counter
  <2>4. BootRight(live, truth)'
      BY <1>1, <2>1, KindFixed DEF BootRight
  <2>5. QED
      BY <1>0, <1>1, <1>2, <2>1, <2>2, <2>3, <2>4
<1>14. CASE \E r \in Readers : Reader(r) \/ \E k \in {"uptime", "wall", "get"} : Start(r, k)
  <2>1. UNCHANGED <<hw, pend, simple, hand, live, w, truth, drift>>
      BY <1>14, ReaderKeeps
  <2>2. QED
      BY <2>1 DEF LiveInv, UptimeRight, WallRight, BootRight, Fits, Error, Counter, Slack,
         Writing, InPlace
<1>15. QED
    BY <1>2, <1>4, <1>5, <1>6, <1>7, <1>8, <1>9, <1>10, <1>11, <1>12, <1>13, <1>14
       DEF Next, Writer

(* Every step keeps the update in place, ... *)
LEMMA InPlaceInvNext ==
    ASSUME TypeInv, TypeInv', WriterInv, WriterInv', GenInv, InPlaceInv, Next
    PROVE  InPlaceInv'
<1>0. /\ live \in Hands /\ w.th \in Hands /\ Counter \in Nat /\ Interval \in Nat \ {0}
      /\ simple' = simple /\ w.count \in Nat /\ hand[live].count \in Nat
    BY WriterFields, CounterType, KindFixed
<1>1. /\ w.pc = "scount" => w.count \in 0 .. Interval - 1 /\ w.count <= Counter
      /\ w.pc \in {"offset", "wall", "gen"} /\ w.th = live =>
            /\ hand[live].count < Interval /\ hand[live].count <= Counter
      /\ w.pc \in {"scount", "offset"} /\ w.th = live => w.delta = Interval
      /\ w.pc = "gen" => hand[w.th].wall = hand[w.th].offset + hand[w.th].boot
    BY DEF InPlaceInv, InPlace
<1>2. CASE Advance
  <2>1. UNCHANGED <<hand, live, w>>
      BY <1>2 DEF Advance
  <2>2. simple => Counter' = Counter + 1
      BY <1>2, CounterMoves
  <2>3. w.pc = "scount" \/ (w.pc \in {"offset", "wall", "gen"} /\ w.th = live) => simple
      BY DEF WriterInv, Writing, InPlace
  <2>4. QED
      BY <1>0, <1>1, <2>1, <2>2, <2>3 DEF InPlaceInv, InPlace
<1>3. CASE TickWindup \/ SetClock \/ AtTick \/ Copy \/ Publish
  <2>1. w'.pc \in {"copy", "attick", "count", "idle"}
      BY <1>3, WindupStep, AtTickStep, CopyStep, PublishStep DEF Proceeds
  <2>2. QED
      BY <2>1 DEF InPlaceInv
<1>4. CASE Count
  <2>1. w.pc = "count" /\ w'.pc = "offset" /\ w'.th = w.th /\ live' = live
      BY <1>4, CountStep DEF Proceeds
  <2>2. w.th # live
      BY <2>1 DEF WriterInv, InPlace
  <2>3. QED
      BY <2>1, <2>2 DEF InPlaceInv, InPlace
<1>5. CASE Offset
  <2>1. /\ w.pc = "offset" /\ w'.pc = "wall" /\ w'.th = w.th
        /\ UNCHANGED <<live, hw, pend, simple>> /\ hand'[w.th].count = hand[w.th].count
      BY <1>5, OffsetStep DEF Proceeds
  <2>2. Counter' = Counter
      BY <2>1 DEF Counter
  <2>3. QED
      BY <1>1, <2>1, <2>2 DEF InPlaceInv, InPlace
<1>6. CASE Wall
  <2>1. /\ w.pc = "wall" /\ w'.pc = "gen" /\ w'.th = w.th
        /\ UNCHANGED <<live, hw, pend, simple>> /\ hand'[w.th].count = hand[w.th].count
        /\ hand'[w.th].wall = hand'[w.th].offset + hand'[w.th].boot
      BY <1>6, WallStep DEF Proceeds
  <2>2. Counter' = Counter
      BY <2>1 DEF Counter
  <2>3. QED
      BY <1>1, <2>1, <2>2 DEF InPlaceInv, InPlace
<1>7. CASE Gen
  <2>1. Rank(w.ogen) < updates
      BY <1>7 DEF GenInv, Writing, Gen
  <2>2. w'.pc = "publish"
      BY <1>7, <2>1, GenStep DEF Proceeds
  <2>3. QED
      BY <2>2 DEF InPlaceInv
<1>8. CASE TickSimple
  <2>1. /\ w.pc = "attick" /\ w'.pc = "scount" /\ w'.count \in 0 .. Interval - 1
        /\ w'.delta = Interval /\ UNCHANGED <<hw, pend, simple>>
        /\ simple => w'.count <= Counter
      BY <1>8, TickSimpleStep
  <2>2. simple /\ Counter' = Counter
      BY <2>1 DEF WriterInv, Counter
  <2>3. QED
      BY <2>1, <2>2 DEF InPlaceInv
<1>9. CASE SimpleCount
  <2>0. w.count \in 0 .. Modulus - 1
      BY <1>9, CounterType DEF SimpleCount, InPlaceInv, WriterInv
  <2>1. /\ w.pc = "scount" /\ w'.pc = "offset" /\ w'.th = w.th /\ w'.delta = w.delta
        /\ UNCHANGED <<live, hw, pend, simple>> /\ hand'[w.th].count = w.count
      BY <1>9, <2>0, SimpleCountStep DEF Proceeds
  <2>2. Counter' = Counter
      BY <2>1 DEF Counter
  <2>3. w.count < Interval /\ w.count <= Counter
      BY <1>0, <1>1, <2>1
  <2>4. QED
      BY <1>1, <2>1, <2>2, <2>3 DEF InPlaceInv, InPlace
<1>10. CASE \E r \in Readers : Reader(r) \/ \E k \in {"uptime", "wall", "get"} : Start(r, k)
  <2>1. UNCHANGED <<hw, pend, simple, hand, live, w>>
      BY <1>10, ReaderKeeps
  <2>2. Counter' = Counter
      BY <2>1 DEF Counter
  <2>3. QED
      BY <1>1, <2>1, <2>2 DEF InPlaceInv, InPlace
<1>11. QED
    BY <1>2, <1>3, <1>4, <1>5, <1>6, <1>7, <1>8, <1>9, <1>10 DEF Next, Writer

(* ... and a windup. *)
LEMMA WindupInvNext ==
    ASSUME TypeInv, TypeInv', WriterInv, WriterInv', GenInv, LiveInv, InPlaceInv, WindupInv, Next
    PROVE  WindupInv'
<1>0. /\ live \in Hands /\ w.th \in Hands /\ simple' = simple /\ hw \in Nat
      /\ Counter \in Nat /\ w.delta \in Nat /\ hand[live].offset \in Int
      /\ hand[live].count \in Nat /\ hand[w.th].count \in Nat /\ drift \in Nat
      /\ w'.delta \in Nat /\ drift' \in Nat
  <2>1. w' \in WriterSet /\ drift' \in Nat
      BY DEF TypeInv
  <2>2. w'.delta \in Nat
      BY <2>1 DEF WriterSet
  <2>3. QED
      BY <2>1, <2>2, WriterFields, CounterType, KindFixed
<1>1. ASSUME Writing \/ w.pc = "publish", w.th # live
      PROVE  /\ w.new => w.boot = w.truth - Error(live)
             /\ w.pc # "copy" => hand[w.th].boot = IF w.new THEN w.boot ELSE hand[live].boot
             /\ w.pc = "count" => hand[w.th].count = hand[live].count
             /\ w.pc \in {"count", "offset"} => hand[w.th].offset = hand[live].offset
             /\ w.pc \in {"wall", "gen", "publish"} =>
                   hand[w.th].offset = hand[live].offset + w.delta
             /\ w.pc \in {"offset", "wall", "gen", "publish"} =>
                   /\ simple => /\ hand[w.th].count = hand[live].count + w.delta
                                /\ hand[w.th].count <= Counter
                   /\ ~simple => /\ hand[live].offset + w.delta <= hw
                                 /\ hand[w.th].count = (hand[live].offset + w.delta) % Size
             /\ w.pc \in {"gen", "publish"} =>
                   hand[w.th].wall = hand[w.th].offset + hand[w.th].boot
    BY <1>1 DEF WindupInv, InPlace
<1>2. ASSUME (Writing \/ w.pc = "publish")' /\ w'.th # live' =>
             /\ w'.new => w'.boot = w'.truth - Error(live)'
             /\ w'.pc # "copy" => hand'[w'.th].boot = IF w'.new THEN w'.boot ELSE hand'[live'].boot
             /\ w'.pc = "count" => hand'[w'.th].count = hand'[live'].count
             /\ w'.pc \in {"count", "offset"} => hand'[w'.th].offset = hand'[live'].offset
             /\ w'.pc \in {"wall", "gen", "publish"} =>
                   hand'[w'.th].offset = hand'[live'].offset + w'.delta
             /\ w'.pc \in {"offset", "wall", "gen", "publish"} =>
                   /\ simple => /\ hand'[w'.th].count = hand'[live'].count + w'.delta
                                /\ hand'[w'.th].count <= Counter'
                   /\ ~simple => /\ hand'[live'].offset + w'.delta <= hw'
                                 /\ hand'[w'.th].count = (hand'[live'].offset + w'.delta) % Size
             /\ w'.pc \in {"gen", "publish"} =>
                   hand'[w'.th].wall = hand'[w'.th].offset + hand'[w'.th].boot
      PROVE  WindupInv'
    BY <1>0, <1>2 DEF WindupInv, InPlace
<1>3. CASE Advance
  <2>1. hw' = hw + 1 /\ UNCHANGED <<hand, live, w>>
      BY <1>3 DEF Advance
  <2>2. PICK h \in Hands : h = live
      BY <1>0
  <2>3. (simple => Counter' = Counter + 1) /\ Error(h)' = Error(h)
      BY <1>3, HandMoves
  <2>4. Error(live)' = Error(live)
      BY <2>1, <2>2, <2>3 DEF Error
  <2>5. Writing' <=> Writing
      BY <2>1 DEF Writing
  <2>6. QED
      BY <1>0, <1>1, <1>2, <2>1, <2>3, <2>4, <2>5
(* The steps that leave the current hand alone *)
<1>4. ASSUME UNCHANGED <<hw, pend, live>>, hand'[live].offset = hand[live].offset,
             hand'[live].count = hand[live].count, hand'[live].boot = hand[live].boot,
             hand'[live].wall = hand[live].wall, drift <= drift'
      PROVE  Error(live)' = Error(live) /\ Counter' = Counter
  <2>1. PICK h \in Hands : h = live
      BY <1>0
  <2>2. Counter' = Counter /\ Error(h)' = Error(h)
      BY <1>0, <1>4, <2>1, HandKept
  <2>3. QED
      BY <1>4, <2>1, <2>2 DEF Error
<1>5. CASE TickWindup \/ SetClock
  <2>1. /\ w.pc = "idle" /\ w'.pc = "copy" /\ UNCHANGED <<hw, pend, live, drift>>
        /\ hand'[live] = hand[live]
        /\ w'.new => w'.boot = w'.truth + hw - (hand[live].offset + Delta(hand[live].count))
      BY <1>0, <1>5, WindupStep, OtherHand DEF hist
  <2>2. Fits(live)
      BY <2>1 DEF LiveInv, UptimeRight, Writing
  <2>3. hand[live].offset + Delta(hand[live].count) = hw + Error(live)
      BY <1>0, <2>2, DeltaExact
  <2>4. Error(live)' = Error(live)
      BY <1>0, <1>4, <2>1
  <2>5. w'.new => w'.boot = w'.truth - Error(live)
    <3>1. Error(live) \in Int
        BY <1>0 DEF Error
    <3>2. w'.truth \in Int
        BY DEF TypeInv, WriterSet
    <3>3. QED
        BY <1>0, <2>1, <2>3, <3>1, <3>2
  <2>6. QED
      BY <1>2, <2>1, <2>4, <2>5
<1>6. CASE Copy
  <2>0. w.pc = "copy" /\ w.th # live /\ Writing
      BY <1>6, CopyStep DEF WriterInv, InPlace, Writing
  <2>1. /\ w'.pc = "count" /\ w'.th = w.th /\ w'.new = w.new /\ w'.boot = w.boot
        /\ w'.truth = w.truth /\ hand'[live] = hand[live]
        /\ UNCHANGED <<hw, pend, live, drift>>
        /\ hand'[w.th].offset = hand[live].offset /\ hand'[w.th].count = hand[live].count
        /\ hand'[w.th].boot = IF w.new THEN w.boot ELSE hand[live].boot
      BY <1>0, <1>6, <2>0, CopyStep DEF Proceeds, OnlyHand, hist
  <2>2. Error(live)' = Error(live)
      BY <1>0, <1>4, <2>1
  <2>3. QED
      BY <1>1, <1>2, <2>0, <2>1, <2>2
<1>7. CASE Count
  <2>0. w.pc = "count" /\ w.th # live /\ Writing
      BY <1>7, CountStep DEF WriterInv, InPlace, Writing
  <2>1. /\ w'.pc = "offset" /\ w'.th = w.th /\ w'.new = w.new /\ w'.boot = w.boot
        /\ w'.truth = w.truth /\ hand'[live] = hand[live]
        /\ UNCHANGED <<hw, pend, live>>
        /\ w'.delta = Delta(hand[live].count)
        /\ hand'[w.th].count = (hand[live].count + w'.delta) % Modulus
        /\ hand'[w.th].offset = hand[w.th].offset /\ hand'[w.th].boot = hand[w.th].boot
        /\ drift' = IF simple THEN drift + w'.delta ELSE drift
      BY <1>0, <1>1, <1>7, <2>0, CountStep DEF Proceeds, OnlyHand
  <2>2. drift <= drift'
      BY <1>0, <2>1
  <2>3. Error(live)' = Error(live) /\ Counter' = Counter
      BY <1>0, <1>4, <2>1, <2>2
  <2>4. Fits(live)
      BY <2>0 DEF LiveInv, UptimeRight, InPlace
  <2>5. /\ hand[live].offset + w'.delta = hw + Error(live)
        /\ simple => w'.delta = Counter - hand[live].count
        /\ hand'[w.th].count = Counter
      BY <1>0, <2>1, <2>4, DeltaExact
  <2>6. simple => /\ hand'[w.th].count = hand[live].count + w'.delta
                  /\ hand'[w.th].count <= Counter
      BY <1>0, <2>5
  <2>7. ~simple => /\ hand[live].offset + w'.delta <= hw
                   /\ hand'[w.th].count = (hand[live].offset + w'.delta) % Size
    <3>1. ASSUME ~simple
          PROVE hand[live].offset + w'.delta = hw /\ hand'[w.th].count = hw % Size
        BY <1>0, <2>5, <3>1 DEF Error, Counter
    <3>2. QED
        BY <1>0, <3>1
  <2>8. QED
      BY <1>1, <1>2, <2>0, <2>1, <2>3, <2>6, <2>7
<1>8. CASE (Offset \/ Wall \/ Gen) /\ w.th # live
  <2>1. Gen => Rank(w.ogen) < updates
      BY DEF GenInv, Writing, Gen
  <2>2. /\ w.pc \in {"offset", "wall", "gen"} /\ w'.th = w.th /\ w'.new = w.new
        /\ w'.boot = w.boot /\ w'.truth = w.truth /\ w'.delta = w.delta
        /\ UNCHANGED <<hw, pend, live, drift>> /\ OnlyHand(w.th)
        /\ hand'[w.th].count = hand[w.th].count /\ hand'[w.th].boot = hand[w.th].boot
      BY <1>0, <1>8, <2>1, OffsetStep, WallStep, GenStep DEF Proceeds, hist
  <2>3. hand'[live] = hand[live]
      BY <1>0, <1>8, <2>2 DEF OnlyHand
  <2>4. Writing
      BY <2>2 DEF Writing
  <2>5. Error(live)' = Error(live) /\ Counter' = Counter
      BY <1>0, <1>4, <2>2, <2>3
  <2>6. CASE Offset
    <3>1. /\ w.pc = "offset" /\ w'.pc = "wall"
          /\ hand'[w.th].offset = hand[w.th].offset + w.delta
        BY <2>6, OffsetStep DEF Proceeds
    <3>2. QED
        BY <1>1, <1>2, <1>8, <2>2, <2>3, <2>4, <2>5, <3>1
  <2>7. CASE Wall
    <3>1. /\ w.pc = "wall" /\ w'.pc = "gen" /\ hand'[w.th].offset = hand[w.th].offset
          /\ hand'[w.th].wall = hand[w.th].offset + hand[w.th].boot
        BY <2>7, WallStep DEF Proceeds
    <3>2. QED
        BY <1>1, <1>2, <1>8, <2>2, <2>3, <2>4, <2>5, <3>1
  <2>8. CASE Gen
    <3>1. /\ w.pc = "gen" /\ w'.pc = "publish" /\ hand'[w.th].offset = hand[w.th].offset
          /\ hand'[w.th].wall = hand[w.th].wall
        BY <1>0, <2>1, <2>8, GenStep DEF Proceeds
    <3>2. QED
        BY <1>1, <1>2, <1>8, <2>2, <2>3, <2>4, <2>5, <3>1
  <2>9. QED
      BY <1>8, <2>6, <2>7, <2>8
<1>9. CASE (Offset \/ Wall \/ Gen \/ SimpleCount) /\ w.th = live
  <2>1. Gen => Rank(w.ogen) < updates
      BY DEF GenInv, Writing, Gen
  <2>2. SimpleCount => w.count \in 0 .. Modulus - 1
      BY CounterType DEF SimpleCount, InPlaceInv, WriterInv
  <2>3. w'.th = live'
      BY <1>9, <2>1, <2>2, OffsetStep, WallStep, GenStep, SimpleCountStep DEF Proceeds
  <2>4. QED
      BY <2>3 DEF WindupInv, InPlace
<1>10. CASE Publish \/ AtTick
  <2>1. w'.pc \in {"idle", "attick"}
      BY <1>10, PublishStep, AtTickStep
  <2>2. QED
      BY <2>1 DEF WindupInv, Writing
<1>11. CASE TickSimple
  <2>1. w'.th = live'
      BY <1>11, TickSimpleStep
  <2>2. QED
      BY <2>1 DEF WindupInv, InPlace
<1>12. CASE \E r \in Readers : Reader(r) \/ \E k \in {"uptime", "wall", "get"} : Start(r, k)
  <2>1. UNCHANGED <<hw, pend, simple, hand, live, w, drift>>
      BY <1>12, ReaderKeeps
  <2>2. Error(live)' = Error(live) /\ Counter' = Counter
      BY <1>0, <1>4, <2>1
  <2>3. Writing' <=> Writing
      BY <2>1 DEF Writing
  <2>4. QED
      BY <1>1, <1>2, <2>1, <2>2, <2>3
<1>13. SimpleCount => w.th = live
    BY DEF SimpleCount, WriterInv, InPlace
<1>14. QED
    BY <1>3, <1>5, <1>6, <1>7, <1>8, <1>9, <1>10, <1>11, <1>12, <1>13 DEF Next, Writer

-----------------------------------------------------------------------------
(* The readers *)

(* The types of what a reader has read *)
LEMMA ReaderFieldTypes ==
    ASSUME TypeInv, NEW r \in Readers
    PROVE  /\ rd[r].th \in Hands /\ rd[r].gen \in 0 .. MaxGen /\ rd[r].start \in Int
           /\ rd[r].walls \in SUBSET Int /\ rd[r].counter \in Nat /\ rd[r].count \in Nat
           /\ rd[r].val \in Int /\ rd[r].window \in BOOLEAN
           /\ rd[r].left \subseteq {"count", "counter", "pending"}
           /\ rd[r].kind \in {"none", "uptime", "wall", "get"}
BY DEF TypeInv, ReaderSet

(* A read in progress keeps its hand, if the hand stays as right as it was. *)
LEMMA HandReadKept ==
    ASSUME TypeInv, TypeInv', NEW r \in Readers, HandRead(r),
           \A f \in {"pc", "kind", "th", "start"} : rd'[r][f] = rd[r][f],
           rd[r].window => rd'[r].window, rd[r].walls \subseteq rd'[r].walls,
           rd[r].kind = "uptime" => rd'[r].walls = rd[r].walls,
           rd[r].kind = "wall" => truth' \in rd'[r].walls,
           hw <= hw', drift <= drift', hand[live].offset <= hand'[live'].offset,
           NEW h \in Hands, h = rd[r].th,
           hand'[h].gen # 0 =>
              /\ hand[h].gen # 0 /\ hand'[h].offset = hand[h].offset
              /\ UptimeRight(h) /\ ~rd'[r].window => UptimeRight(h)'
              /\ \A b \in Int : WallRight(h, b) /\ ~rd'[r].window => WallRight(h, b)'
    PROVE  HandRead(r)'
<1>1. /\ rd[r].start \in Int /\ rd[r].walls \in SUBSET Int /\ hw \in Int /\ hw' \in Int
      /\ drift \in Int /\ drift' \in Int /\ hand[h].offset \in Int
      /\ hand[live].offset \in Int /\ hand'[live'].offset \in Int
  <2>1. hand'[live'] \in HandSet' /\ hw' \in 0 .. MaxTime /\ MaxTime \in Nat /\ drift' \in Nat
      BY TimecounterAssumption DEF TypeInv, TimecounterAssumption
  <2>2. QED
      BY <2>1, ReaderFieldTypes, WriterFields DEF HandSet
<1>2. /\ (rd[r].pc # "idle" => rd[r].kind # "none")'
      /\ (rd[r].kind = "wall" => truth \in rd[r].walls)'
      /\ (rd[r].kind = "uptime" => rd[r].walls = {0})'
    BY DEF HandRead
<1>3. (rd[r].pc # "idle" => rd[r].start <= IF rd[r].kind = "get" THEN hand[live].offset ELSE hw)'
    BY <1>1 DEF HandRead
<1>4. rd'[r].th = h
    OBVIOUS
<1>5. ASSUME rd'[r].pc \in {"gen", "base", "delta"}, hand'[h].gen # 0
      PROVE  /\ rd'[r].kind = "get" => hand'[h].offset \in rd'[r].start .. hw' + drift'
             /\ rd'[r].kind # "get" /\ ~rd'[r].window => UptimeRight(h)'
             /\ rd'[r].kind = "wall" /\ ~rd'[r].window
                   => \E b \in rd'[r].walls : WallRight(h, b)'
  <2>1. /\ rd[r].kind = "get" => hand[h].offset \in rd[r].start .. hw + drift
        /\ rd[r].kind # "get" /\ ~rd[r].window => UptimeRight(h)
        /\ rd[r].kind = "wall" /\ ~rd[r].window => \E b \in rd[r].walls : WallRight(h, b)
      BY <1>5 DEF HandRead
  <2>2. rd'[r].kind = "get" => hand'[h].offset \in rd'[r].start .. hw' + drift'
      BY <1>1, <1>5, <2>1
  <2>3. rd'[r].kind # "get" /\ ~rd'[r].window => UptimeRight(h)'
      BY <1>5, <2>1
  <2>4. ASSUME rd'[r].kind = "wall", ~rd'[r].window
        PROVE  \E b \in rd'[r].walls : WallRight(h, b)'
    <3>1. PICK b \in rd[r].walls : WallRight(h, b)
        BY <2>1, <2>4
    <3>2. b \in Int /\ b \in rd'[r].walls
        BY <1>1, <3>1
    <3>3. QED
        BY <1>5, <2>4, <3>1, <3>2
  <2>5. QED
      BY <2>2, <2>3, <2>4
<1>6. (rd[r].pc \in {"gen", "base", "delta"} /\ hand[rd[r].th].gen # 0 =>
          /\ rd[r].kind = "get" => hand[rd[r].th].offset \in rd[r].start .. hw + drift
          /\ rd[r].kind # "get" /\ ~rd[r].window => UptimeRight(rd[r].th)
          /\ rd[r].kind = "wall" /\ ~rd[r].window
                => \E b \in rd[r].walls : WallRight(rd[r].th, b))'
    BY <1>4, <1>5 DEF UptimeRight, WallRight, BootRight, Fits, Error
<1>7. QED
    BY <1>2, <1>3, <1>6 DEF HandRead

(* What it has read goes on belonging together, if the hand is not written. *)
LEMMA DataReadKept ==
    ASSUME TypeInv, NEW r \in Readers, DataRead(r), simple' = simple,
           \A f \in {"pc", "kind", "th", "gen", "val", "count", "counter", "left", "start"} :
              rd'[r][f] = rd[r][f],
           rd[r].window => rd'[r].window,
           NEW h \in Hands, h = rd[r].th,
           hand'[h].gen # 0 /\ hand'[h].gen = rd[r].gen =>
              /\ hand[h].gen = hand'[h].gen /\ hand'[h].offset = hand[h].offset
              /\ hand'[h].count = hand[h].count /\ hand'[h].wall = hand[h].wall,
           hw \in Nat, hw' \in Nat, hw <= hw',
           simple /\ ~rd'[r].window =>
              /\ hw' - Counter' = hw - Counter /\ Counter <= Counter' /\ Counter' \in Nat
              /\ pend => pend'
    PROVE  DataRead(r)'
<1>1. /\ rd[r].start \in Int /\ rd[r].counter \in Nat /\ hand[h].count \in Nat
      /\ Counter \in Nat
    BY ReaderFieldTypes, WriterFields, CounterType
<1>2. ("pending" \in rd[r].left => simple)'
    BY DEF DataRead
<1>3. ASSUME rd'[r].pc = "delta", Unchanged(r)'
      PROVE  /\ rd[r].pc = "delta" /\ Unchanged(r) /\ rd'[r].th = h
             /\ hand'[h].offset = hand[h].offset /\ hand'[h].count = hand[h].count
             /\ hand'[h].wall = hand[h].wall
    BY <1>3 DEF Unchanged
<1>4. ASSUME rd'[r].pc = "delta", Unchanged(r)'
      PROVE  /\ rd'[r].val = IF rd'[r].kind = "wall" THEN hand'[h].wall ELSE hand'[h].offset
             /\ rd'[r].kind # "get" /\ "count" \notin rd'[r].left => rd'[r].count = hand'[h].count
    BY <1>3, <1>4 DEF DataRead
<1>5. ASSUME rd'[r].pc = "delta", Unchanged(r)', rd'[r].kind # "get", ~rd'[r].window,
             "counter" \notin rd'[r].left
      PROVE  /\ simple /\ ("pending" \notin rd'[r].left \/ ~pend') =>
                   /\ rd'[r].counter \in hand'[h].count .. Counter'
                   /\ rd'[r].start <= hw' - Counter' + rd'[r].counter
             /\ ~simple => \E t \in rd'[r].start .. hw' :
                              t >= hand'[h].offset /\ rd'[r].counter = t % Size
  <2>1. /\ simple /\ ("pending" \notin rd[r].left \/ ~pend) =>
               /\ rd[r].counter \in hand[h].count .. Counter
               /\ rd[r].start <= hw - Counter + rd[r].counter
        /\ ~simple => \E t \in rd[r].start .. hw :
                         t >= hand[h].offset /\ rd[r].counter = t % Size
      BY <1>3, <1>5 DEF DataRead
  <2>2. CASE simple
      BY <1>1, <1>3, <1>5, <2>1, <2>2
  <2>3. CASE ~simple
    <3>1. PICK t \in rd[r].start .. hw : t >= hand[h].offset /\ rd[r].counter = t % Size
        BY <2>1, <2>3
    <3>2. t \in rd'[r].start .. hw' /\ t >= hand'[h].offset /\ rd'[r].counter = t % Size
      <4>1. t \in rd'[r].start .. hw'
          BY <1>1, <3>1
      <4>2. QED
          BY <1>3, <1>5, <3>1, <4>1
    <3>3. QED
        BY <2>3, <3>2
  <2>4. QED
      BY <2>2, <2>3
<1>6. QED
    BY <1>2, <1>3, <1>4, <1>5 DEF DataRead

(* A read in progress goes on as it was, if its hand is not written, or     *)
(* not valid, and no tick is about to be handled.                           *)
LEMMA ReadKept ==
    ASSUME TypeInv, TypeInv', NEW r \in Readers, HandRead(r), DataRead(r),
           UNCHANGED <<hw, pend, simple>>, drift <= drift',
           hand[live].offset <= hand'[live'].offset,
           \A f \in ReaderFields \ {"walls"} : rd'[r][f] = rd[r][f],
           rd[r].walls \subseteq rd'[r].walls,
           rd[r].kind = "uptime" => rd'[r].walls = rd[r].walls,
           rd[r].kind = "wall" => truth' \in rd'[r].walls,
           \A h \in Hands : hand'[h].gen # 0 => hand'[h] = hand[h]
    PROVE  HandRead(r)' /\ DataRead(r)'
<1>1. PICK h \in Hands : h = rd[r].th
    BY ReaderFieldTypes
<1>2. /\ \A f \in {"pc", "kind", "th", "gen", "val", "count", "counter", "left", "start"} :
            rd'[r][f] = rd[r][f]
      /\ rd'[r].window = rd[r].window
    BY DEF ReaderFields
<1>3. hw \in Nat /\ hw' = hw /\ Counter \in Nat /\ Counter' = Counter
    BY CounterType DEF Counter
<1>4. hand'[h].gen # 0 =>
         /\ hand[h].gen # 0 /\ hand'[h].offset = hand[h].offset
         /\ UptimeRight(h) /\ ~rd'[r].window => UptimeRight(h)'
         /\ \A b \in Int : WallRight(h, b) /\ ~rd'[r].window => WallRight(h, b)'
  <2>1. SUFFICES ASSUME hand'[h].gen # 0
                 PROVE  /\ hand[h].gen # 0 /\ hand'[h].offset = hand[h].offset
                        /\ UptimeRight(h) => UptimeRight(h)'
                        /\ \A b \in Int : WallRight(h, b) => WallRight(h, b)'
      OBVIOUS
  <2>2. hand'[h] = hand[h]
      BY <2>1
  <2>3. QED
      BY <2>1, <2>2, HandKept
<1>5. HandRead(r)'
    BY <1>1, <1>2, <1>3, <1>4, HandReadKept
<1>6. hand'[h].gen # 0 /\ hand'[h].gen = rd[r].gen =>
         /\ hand[h].gen = hand'[h].gen /\ hand'[h].offset = hand[h].offset
         /\ hand'[h].count = hand[h].count /\ hand'[h].wall = hand[h].wall
    BY <1>1
<1>7. simple /\ ~rd'[r].window =>
         /\ hw' - Counter' = hw - Counter /\ Counter <= Counter' /\ Counter' \in Nat
         /\ pend => pend'
    BY <1>3
<1>8. DataRead(r)'
    BY <1>1, <1>2, <1>3, <1>6, <1>7, DataReadKept
<1>9. QED
    BY <1>5, <1>8

(* A step of the writer that ends with its hand marked leaves the reads as  *)
(* they are.                                                                *)
LEMMA ReadersInvMarked ==
    ASSUME TypeInv, TypeInv', ReadersInv, UNCHANGED <<hw, pend, simple, rd, live, truth>>,
           drift <= drift', hand[live].offset <= hand'[live].offset,
           NEW th \in Hands, hand'[th].gen = 0,
           \A h \in Hands : h # th => hand'[h] = hand[h]
    PROVE  ReadersInv'
<1>1. SUFFICES ASSUME NEW r \in Readers
               PROVE  HandRead(r)' /\ DataRead(r)'
    BY DEF ReadersInv
<1>2. HandRead(r) /\ DataRead(r)
    BY DEF ReadersInv
<1>3. rd[r].kind = "wall" => truth' \in rd'[r].walls
    BY <1>2 DEF HandRead
<1>4. QED
    BY <1>2, <1>3, ReadKept

(* A step of one reader leaves the other reads as they are. *)
LEMMA ReadersInvOther ==
    ASSUME TypeInv, TypeInv', ReadersInv, NEW r \in Readers,
           \A q \in Readers : q # r => rd'[q] = rd[q],
           UNCHANGED ReaderOnly, HandRead(r)', DataRead(r)'
    PROVE  ReadersInv'
<1>0. UNCHANGED <<hw, pend, simple, hand, live, truth, drift>>
    BY DEF ReaderOnly, hist
<1>1. ASSUME NEW q \in Readers, q # r
      PROVE  HandRead(q)' /\ DataRead(q)'
  <2>1. HandRead(q) /\ DataRead(q) /\ rd'[q] = rd[q]
      BY <1>1 DEF ReadersInv
  <2>2. rd[q].kind = "wall" => truth' \in rd'[q].walls
      BY <1>0, <2>1 DEF HandRead
  <2>3. hand[live].offset <= hand'[live'].offset /\ drift <= drift'
      BY <1>0, WriterFields
  <2>4. QED
      BY <1>0, <1>1, <2>1, <2>2, <2>3, ReadKept
<1>2. QED
    BY <1>1 DEF ReadersInv

(* The steps of the writer while its hand is marked *)
LEMMA ReadersInvWriting ==
    ASSUME TypeInv, TypeInv', WriterInv, GenInv, InPlaceInv, ReadersInv,
           TickWindup \/ SetClock \/ TickSimple \/ Copy \/ Count \/ Offset \/ Wall \/ SimpleCount
    PROVE  ReadersInv'
<1>0. /\ live \in Hands /\ w.th \in Hands /\ drift \in Nat /\ w.delta \in Nat
      /\ hand[live].offset \in Int /\ 1 - live \in Hands /\ 1 - live # live
    BY WriterFields, OtherHand
<1>1. CASE TickWindup \/ SetClock
  <2>1. /\ UNCHANGED <<hw, pend, simple, rd, live, truth, drift>> /\ hand'[1 - live].gen = 0
        /\ \A h \in Hands : h # 1 - live => hand'[h] = hand[h]
      BY <1>1, WindupStep DEF hist
  <2>2. drift <= drift' /\ hand[live].offset <= hand'[live].offset
      BY <1>0, <2>1
  <2>3. QED
      BY <1>0, <2>1, <2>2, ReadersInvMarked
<1>2. CASE TickSimple
  <2>1. /\ UNCHANGED <<hw, pend, simple, rd, live, truth, drift>> /\ hand'[live].gen = 0
        /\ hand'[live].offset = hand[live].offset
        /\ \A h \in Hands : h # live => hand'[h] = hand[h]
      BY <1>0, <1>2, TickSimpleStep DEF hist
  <2>2. drift <= drift' /\ hand[live].offset <= hand'[live].offset
      BY <1>0, <2>1
  <2>3. QED
      BY <1>0, <2>1, <2>2, ReadersInvMarked
<1>3. CASE Copy \/ Count \/ Offset \/ Wall \/ SimpleCount
  <2>1. SimpleCount => w.count \in 0 .. Modulus - 1
      BY CounterType DEF SimpleCount, InPlaceInv, WriterInv
  <2>2. hand[w.th].gen = 0
      BY <1>3 DEF GenInv, Writing, Copy, Count, Offset, Wall, SimpleCount
  <2>3. /\ UNCHANGED <<hw, pend, simple, rd, live, truth>> /\ OnlyHand(w.th)
        /\ hand'[w.th].gen = 0
      BY <1>3, <2>1, <2>2, CopyStep, CountStep, OffsetStep, WallStep, SimpleCountStep DEF hist
  <2>4. drift <= drift'
    <3>1. CASE Count
        BY <1>0, <3>1, CountStep DEF Delta, TypeInv, WriterSet
    <3>2. CASE Copy \/ Offset \/ Wall \/ SimpleCount
        BY <1>0, <2>1, <3>2, CopyStep, OffsetStep, WallStep, SimpleCountStep DEF hist
    <3>3. QED
        BY <1>3, <3>1, <3>2
  <2>5. hand[live].offset <= hand'[live].offset
    <3>1. CASE w.th = live
      <4>1. ~Copy
          BY <3>1 DEF Copy, WriterInv, InPlace
      <4>2. \/ hand'[live].offset = hand[live].offset
            \/ hand'[live].offset = hand[live].offset + w.delta
          BY <1>3, <2>1, <3>1, <4>1, CountStep, OffsetStep, WallStep, SimpleCountStep
      <4>3. QED
          BY <1>0, <4>2
    <3>2. CASE w.th # live
        BY <1>0, <2>3, <3>2 DEF OnlyHand
    <3>3. QED
        BY <3>1, <3>2
  <2>6. QED
      BY <1>0, <2>3, <2>4, <2>5, ReadersInvMarked DEF OnlyHand
<1>4. QED
    BY <1>1, <1>2, <1>3

(* Time passes, or a tick is about to be handled. *)
LEMMA ReadersInvHardware ==
    ASSUME TypeInv, TypeInv', ReadersInv, Advance \/ AtTick
    PROVE  ReadersInv'
<1>1. SUFFICES ASSUME NEW r \in Readers
               PROVE  HandRead(r)' /\ DataRead(r)'
    BY DEF ReadersInv
<1>2. HandRead(r) /\ DataRead(r)
    BY DEF ReadersInv
<1>3. PICK h \in Hands : h = rd[r].th
    BY ReaderFieldTypes
<1>4. /\ hw \in Nat /\ hw' \in Nat /\ hw <= hw' /\ simple' = simple /\ drift <= drift'
      /\ UNCHANGED <<hand, live, truth>> /\ hand[live].offset <= hand'[live'].offset
  <2>1. UNCHANGED <<hand, live, truth, drift, simple>> /\ (hw' = hw + 1 \/ hw' = hw)
      BY DEF Advance, AtTick, hist
  <2>2. QED
      BY <2>1, WriterFields
<1>5. /\ \A f \in {"pc", "kind", "th", "gen", "val", "count", "counter", "left", "start"} :
            rd'[r][f] = rd[r][f]
      /\ rd'[r].walls = rd[r].walls
      /\ rd[r].window => rd'[r].window
      /\ AtTick => rd'[r].window
      /\ ~AtTick => rd'[r].window = rd[r].window
  <2>1. CASE AtTick
      BY <2>1, AtTickStep
  <2>2. CASE ~AtTick
      BY <2>2 DEF Advance
  <2>3. QED
      BY <2>1, <2>2
<1>6. rd[r].kind = "wall" => truth' \in rd'[r].walls
    BY <1>2, <1>4, <1>5 DEF HandRead
<1>7. hand'[h].gen # 0 =>
         /\ hand[h].gen # 0 /\ hand'[h].offset = hand[h].offset
         /\ UptimeRight(h) /\ ~rd'[r].window => UptimeRight(h)'
         /\ \A b \in Int : WallRight(h, b) /\ ~rd'[r].window => WallRight(h, b)'
  <2>1. CASE AtTick
      BY <1>4, <1>5, <2>1
  <2>2. CASE Advance
      BY <1>4, <2>2, HandMoves
  <2>3. QED
      BY <2>1, <2>2
<1>8. HandRead(r)'
    BY <1>2, <1>3, <1>4, <1>5, <1>6, <1>7, HandReadKept
<1>9. simple /\ ~rd'[r].window =>
         /\ hw' - Counter' = hw - Counter /\ Counter <= Counter' /\ Counter' \in Nat
         /\ pend => pend'
  <2>1. SUFFICES ASSUME simple, ~rd'[r].window
                 PROVE  /\ hw' - Counter' = hw - Counter /\ Counter <= Counter' /\ Counter' \in Nat
                        /\ pend => pend'
      OBVIOUS
  <2>2. Advance
      BY <1>5, <2>1
  <2>3. Counter' = Counter + 1 /\ hw' = hw + 1 /\ Counter \in Nat /\ hw \in Nat
      BY <2>1, <2>2, CounterMoves, CounterType DEF Advance
  <2>4. pend => pend'
      BY <2>2 DEF Advance
  <2>5. QED
      BY <2>3, <2>4
<1>10. DataRead(r)'
    BY <1>2, <1>3, <1>4, <1>5, <1>9, DataReadKept
<1>11. QED
    BY <1>8, <1>10

(* The new hand becomes current. *)
LEMMA ReadersInvPublish ==
    ASSUME TypeInv, TypeInv', WriterInv, LiveInv, InPlaceInv, WindupInv, ReadersInv, Publish
    PROVE  ReadersInv'
<1>1. SUFFICES ASSUME NEW r \in Readers
               PROVE  HandRead(r)' /\ DataRead(r)'
    BY DEF ReadersInv
<1>2. HandRead(r) /\ DataRead(r)
    BY DEF ReadersInv
<1>3. /\ w.pc = "publish" /\ live' = w.th /\ truth' = NewTruth
      /\ UNCHANGED <<hw, pend, simple, hand, drift>>
      /\ rd'[r].walls = Met(r)
      /\ \A f \in {"pc", "kind", "th", "gen", "val", "count", "counter", "left",
                   "start", "window"} : rd'[r][f] = rd[r][f]
    BY PublishStep, MeetStep
<1>4. \A f \in ReaderFields \ {"walls"} : rd'[r][f] = rd[r][f]
    BY <1>3 DEF ReaderFields
<1>5. drift <= drift' /\ hand[live].offset <= hand'[live'].offset
    BY <1>3, NewHandRight, WriterFields
<1>6. /\ rd[r].walls \subseteq rd'[r].walls
      /\ rd[r].kind = "uptime" => rd'[r].walls = rd[r].walls
      /\ rd[r].kind = "wall" => truth' \in rd'[r].walls
    BY <1>2, <1>3 DEF Met, NewTruth, HandRead
<1>7. QED
    BY <1>2, <1>3, <1>4, <1>5, <1>6, ReadKept

(* The new hand becomes valid.  A reader that still has it from an earlier  *)
(* update may use it, but one that compares generations finds another.      *)
LEMMA ReadersInvGen ==
    ASSUME TypeInv, TypeInv', WriterInv, GenInv, LiveInv, InPlaceInv, WindupInv, ReadersInv, Gen
    PROVE  ReadersInv'
<1>1. SUFFICES ASSUME NEW r \in Readers
               PROVE  HandRead(r)' /\ DataRead(r)'
    BY DEF ReadersInv
<1>2. HandRead(r) /\ DataRead(r)
    BY DEF ReadersInv
<1>3. PICK h \in Hands : h = rd[r].th
    BY ReaderFieldTypes
<1>4. /\ w.pc = "gen" /\ Writing /\ Rank(w.ogen) < updates /\ hand[w.th].gen = 0
    BY DEF GenInv, Writing, Gen
<1>5. /\ OnlyHand(w.th) /\ hand'[w.th].gen # 0
      /\ Rank(hand'[w.th].gen) = Rank(w.ogen) + 1
      /\ UNCHANGED <<hw, pend, simple, live, truth, drift>>
      /\ rd'[r].walls = Met(r)
      /\ \A f \in {"pc", "kind", "th", "gen", "val", "count", "counter", "left",
                   "start", "window"} : rd'[r][f] = rd[r][f]
      /\ \A g \in Hands : /\ hand'[g].offset = hand[g].offset
                          /\ hand'[g].count = hand[g].count
                          /\ hand'[g].boot = hand[g].boot
                          /\ hand'[g].wall = hand[g].wall
    BY <1>4, GenStep, MeetStep DEF hist
<1>6. /\ \A f \in ReaderFields \ {"walls"} : rd'[r][f] = rd[r][f]
      /\ rd[r].walls \subseteq rd'[r].walls
      /\ rd[r].kind = "uptime" => rd'[r].walls = rd[r].walls
      /\ rd[r].kind = "wall" => truth' \in rd'[r].walls /\ NewTruth \in rd'[r].walls
    BY <1>2, <1>5 DEF ReaderFields, Met, NewTruth, HandRead
<1>7. /\ drift <= drift' /\ hand[live].offset <= hand'[live'].offset
      /\ hw \in Nat /\ drift \in Nat /\ hand[live].offset \in Int /\ rd[r].start \in Int
      /\ hand[w.th].offset \in Int
    BY <1>5, WriterFields, ReaderFieldTypes
<1>8. CASE h # w.th
  <2>1. hand'[h].gen # 0 =>
           /\ hand[h].gen # 0 /\ hand'[h].offset = hand[h].offset
           /\ UptimeRight(h) /\ ~rd'[r].window => UptimeRight(h)'
           /\ \A b \in Int : WallRight(h, b) /\ ~rd'[r].window => WallRight(h, b)'
    <3>1. hand'[h] = hand[h]
        BY <1>8, <1>5 DEF OnlyHand
    <3>2. QED
        BY <1>5, <1>7, <3>1, HandKept
  <2>2. HandRead(r)'
      BY <1>2, <1>3, <1>5, <1>6, <1>7, <2>1, HandReadKept
  <2>3. /\ hand'[h] = hand[h] /\ Counter' = Counter /\ Counter \in Nat
      BY <1>5, <1>8, CounterType DEF OnlyHand, Counter
  <2>4. simple /\ ~rd'[r].window =>
         /\ hw' - Counter' = hw - Counter /\ Counter <= Counter' /\ Counter' \in Nat
         /\ pend => pend'
      BY <1>5, <2>3
  <2>5. DataRead(r)'
      BY <1>2, <1>3, <1>5, <1>7, <2>3, <2>4, DataReadKept
  <2>6. QED
      BY <2>2, <2>5
<1>9. CASE h = w.th
  <2>1. /\ UptimeRight(h) /\ WallRight(h, NewTruth) /\ NewTruth \in Int
        /\ hand[h].offset >= hand[live].offset /\ hand[h].offset <= hw + drift
      BY <1>4, <1>9, NewHandRight
  <2>2. UptimeRight(h)' /\ \A b \in Int : WallRight(h, b) => WallRight(h, b)'
      BY <1>5, <1>7, <2>1, HandKept
  <2>3. PICK b \in Int : b = NewTruth
      BY <2>1
  <2>4. WallRight(h, b)' /\ (rd[r].kind = "wall" => b \in rd'[r].walls)
      BY <1>6, <2>1, <2>2, <2>3
  <2>5. /\ (rd[r].pc # "idle" => rd[r].kind # "none")'
        /\ (rd[r].kind = "wall" => truth \in rd[r].walls)'
        /\ (rd[r].kind = "uptime" => rd[r].walls = {0})'
      BY <1>2, <1>5, <1>6 DEF HandRead
  <2>6. rd[r].pc # "idle" => rd[r].start <= IF rd[r].kind = "get" THEN hand[live].offset ELSE hw
      BY <1>2 DEF HandRead
  <2>7. (rd[r].pc # "idle" => rd[r].start <= IF rd[r].kind = "get" THEN hand[live].offset ELSE hw)'
      BY <1>5, <1>7, <2>6, WriterFields
  <2>8. rd[r].pc # "idle" /\ rd[r].kind = "get" =>
           hand'[h].offset \in rd'[r].start .. hw' + drift'
      BY <1>5, <1>7, <1>9, <2>1, <2>6
  <2>9. (rd[r].pc \in {"gen", "base", "delta"} /\ hand[rd[r].th].gen # 0 =>
          /\ rd[r].kind = "get" => hand[rd[r].th].offset \in rd[r].start .. hw + drift
          /\ rd[r].kind # "get" /\ ~rd[r].window => UptimeRight(rd[r].th)
          /\ rd[r].kind = "wall" /\ ~rd[r].window
                => \E c \in rd[r].walls : WallRight(rd[r].th, c))'
    <3>1. rd'[r].th = h
        BY <1>3, <1>5
    <3>2. QED
        BY <1>5, <2>2, <2>4, <2>8, <3>1 DEF UptimeRight, WallRight, BootRight, Fits, Error
  <2>10. HandRead(r)'
      BY <2>5, <2>7, <2>9 DEF HandRead
  <2>11. rd[r].pc = "delta" => ~Unchanged(r)'
    <3>1. SUFFICES ASSUME rd[r].pc = "delta", rd[r].gen # 0, rd[r].gen = hand'[w.th].gen
                   PROVE  FALSE
        BY <1>3, <1>5, <1>9 DEF Unchanged
    <3>2. LastGen(h) = w.ogen
        BY <1>4, <1>9 DEF LastGen
    <3>3. Rank(rd[r].gen) <= Rank(w.ogen)
        BY <1>3, <3>1, <3>2 DEF GenInv
    <3>4. Rank(w.ogen) \in Int
        BY WriterFields DEF Rank
    <3>5. Rank(rd[r].gen) = Rank(w.ogen) + 1
        BY <1>5, <3>1
    <3>6. QED
        BY <3>3, <3>4, <3>5
  <2>12. DataRead(r)'
      BY <1>2, <1>5, <2>11 DEF DataRead
  <2>13. QED
      BY <2>10, <2>12
<1>10. QED
    BY <1>8, <1>9

(* The reads of one pass leave the hand and the beginning of the read. *)
LEMMA HandReadSame ==
    ASSUME TypeInv, NEW r \in Readers, HandRead(r), UNCHANGED ReaderOnly,
           rd[r].pc \in {"gen", "base", "delta"}, rd'[r].pc \in {"gen", "base", "delta"},
           \A f \in {"kind", "th", "start", "walls", "window"} : rd'[r][f] = rd[r][f]
    PROVE  HandRead(r)'
<1>1. UNCHANGED <<hw, pend, simple, hand, live, truth, drift>>
    BY DEF ReaderOnly, hist
<1>2. /\ rd'[r].kind = rd[r].kind /\ rd'[r].th = rd[r].th /\ rd'[r].start = rd[r].start
      /\ rd'[r].walls = rd[r].walls /\ rd'[r].window = rd[r].window
    OBVIOUS
<1>3. PICK h : h = rd[r].th
    OBVIOUS
<1>4. UptimeRight(h)' <=> UptimeRight(h)
    BY <1>1 DEF UptimeRight, Fits, Error, Counter, Slack
<1>5. \A b : WallRight(h, b)' <=> WallRight(h, b)
    BY <1>1 DEF WallRight, BootRight, Error, Counter, Slack
<1>6. rd'[r].th = h
    BY <1>2, <1>3
<1>7. /\ (rd[r].pc # "idle" => rd[r].kind # "none")'
      /\ (rd[r].kind = "wall" => truth \in rd[r].walls)'
      /\ (rd[r].kind = "uptime" => rd[r].walls = {0})'
      /\ (rd[r].pc # "idle" =>
            rd[r].start <= IF rd[r].kind = "get" THEN hand[live].offset ELSE hw)'
    BY <1>1, <1>2 DEF HandRead
<1>8. hand[h].gen # 0 =>
         /\ rd[r].kind = "get" => hand[h].offset \in rd[r].start .. hw + drift
         /\ rd[r].kind # "get" /\ ~rd[r].window => UptimeRight(h)
         /\ rd[r].kind = "wall" /\ ~rd[r].window => \E b \in rd[r].walls : WallRight(h, b)
    BY <1>3 DEF HandRead
<1>9. hand'[h].gen # 0 =>
         /\ rd'[r].kind = "get" => hand'[h].offset \in rd'[r].start .. hw' + drift'
         /\ rd'[r].kind # "get" /\ ~rd'[r].window => UptimeRight(h)'
         /\ rd'[r].kind = "wall" /\ ~rd'[r].window => \E b \in rd'[r].walls : WallRight(h, b)'
    BY <1>1, <1>2, <1>4, <1>5, <1>8
<1>10. (hand[rd[r].th].gen # 0 =>
          /\ rd[r].kind = "get" => hand[rd[r].th].offset \in rd[r].start .. hw + drift
          /\ rd[r].kind # "get" /\ ~rd[r].window => UptimeRight(rd[r].th)
          /\ rd[r].kind = "wall" /\ ~rd[r].window
                => \E b \in rd[r].walls : WallRight(rd[r].th, b))'
    BY <1>6, <1>9 DEF UptimeRight, WallRight, BootRight, Fits, Error
<1>11. QED
    BY <1>7, <1>10 DEF HandRead

(* A call begins. *)
LEMMA ReadersInvStart ==
    ASSUME TypeInv, TypeInv', ReadersInv, NEW r \in Readers,
           NEW k \in {"uptime", "wall", "get"}, Start(r, k)
    PROVE  ReadersInv'
<1>1. /\ \A q \in Readers : q # r => rd'[q] = rd[q]
      /\ UNCHANGED ReaderOnly
      /\ rd'[r].pc = "hand" /\ rd'[r].kind = k /\ rd'[r].left = {}
      /\ rd'[r].start = (IF k = "get" THEN hand[live].offset ELSE hw)
      /\ rd'[r].walls = {IF k = "wall" THEN truth ELSE 0}
    BY StartStep
<1>2. UNCHANGED <<hw, hand, live, truth>> /\ hw \in Nat /\ hand[live].offset \in Int
    BY <1>1, WriterFields DEF ReaderOnly, hist
<1>3. HandRead(r)'
    BY <1>1, <1>2 DEF HandRead
<1>4. DataRead(r)'
    BY <1>1 DEF DataRead
<1>5. QED
    BY <1>1, <1>3, <1>4, ReadersInvOther

(* A reader takes the current hand, which is right if it is valid, unless   *)
(* a tick is about to be handled.                                           *)
LEMMA ReadersInvLoadHand ==
    ASSUME TypeInv, TypeInv', WriterInv, GenInv, LiveInv, ReadersInv,
           NEW r \in Readers, LoadHand(r)
    PROVE  ReadersInv'
<1>1. /\ rd[r].pc = "hand" /\ \A q \in Readers : q # r => rd'[q] = rd[q]
      /\ UNCHANGED ReaderOnly
      /\ rd'[r].pc = "gen" /\ rd'[r].th = live /\ rd'[r].window = (w.pc = "attick")
      /\ rd'[r].kind = rd[r].kind /\ rd'[r].start = rd[r].start /\ rd'[r].walls = rd[r].walls
      /\ rd'[r].left = rd[r].left
    BY LoadHandStep DEF OnlyReader, ReaderFields
<1>2. HandRead(r) /\ DataRead(r)
    BY DEF ReadersInv
<1>3. UNCHANGED <<hw, pend, simple, hand, live, truth, drift>>
    BY <1>1 DEF ReaderOnly, hist
<1>4. PICK h \in Hands : h = live
    BY WriterFields
<1>5. /\ hw \in Nat /\ drift \in Nat /\ hand[h].offset \in Int /\ rd[r].start \in Int
    BY <1>4, WriterFields, ReaderFieldTypes
<1>6. ASSUME hand[h].gen # 0
      PROVE  /\ rd[r].kind = "get" => hand[h].offset \in rd[r].start .. hw + drift
             /\ w.pc # "attick" => UptimeRight(h) /\ WallRight(h, truth)
  <2>1. hand[h].offset <= hw + drift
      BY <1>4 DEF LiveInv
  <2>2. rd[r].kind = "get" => rd[r].start <= hand[h].offset
      BY <1>1, <1>2, <1>4 DEF HandRead
  <2>3. ~(InPlace /\ Writing)
      BY <1>4, <1>6 DEF GenInv, InPlace
  <2>4. w.pc # "attick" => UptimeRight(h) /\ WallRight(h, truth)
      BY <1>4, <2>3 DEF LiveInv
  <2>5. QED
      BY <1>5, <2>1, <2>2, <2>4
<1>7. PICK b : b = truth
    OBVIOUS
<1>8. (UptimeRight(h)' <=> UptimeRight(h)) /\ (WallRight(h, b)' <=> WallRight(h, b))
    BY <1>3 DEF UptimeRight, WallRight, BootRight, Fits, Error, Counter, Slack
<1>9. rd[r].kind = "wall" => b \in rd'[r].walls
    BY <1>1, <1>2, <1>7 DEF HandRead
<1>10. hand'[h].gen # 0 =>
         /\ rd'[r].kind = "get" => hand'[h].offset \in rd'[r].start .. hw' + drift'
         /\ rd'[r].kind # "get" /\ ~rd'[r].window => UptimeRight(h)'
         /\ rd'[r].kind = "wall" /\ ~rd'[r].window => \E c \in rd'[r].walls : WallRight(h, c)'
    BY <1>1, <1>3, <1>6, <1>7, <1>8, <1>9
<1>11. rd'[r].th = h
    BY <1>1, <1>4
<1>12. (hand[rd[r].th].gen # 0 =>
          /\ rd[r].kind = "get" => hand[rd[r].th].offset \in rd[r].start .. hw + drift
          /\ rd[r].kind # "get" /\ ~rd[r].window => UptimeRight(rd[r].th)
          /\ rd[r].kind = "wall" /\ ~rd[r].window
                => \E c \in rd[r].walls : WallRight(rd[r].th, c))'
    BY <1>10, <1>11 DEF UptimeRight, WallRight, BootRight, Fits, Error
<1>13. /\ (rd[r].pc # "idle" => rd[r].kind # "none")'
       /\ (rd[r].kind = "wall" => truth \in rd[r].walls)'
       /\ (rd[r].kind = "uptime" => rd[r].walls = {0})'
       /\ (rd[r].pc # "idle" =>
             rd[r].start <= IF rd[r].kind = "get" THEN hand[live].offset ELSE hw)'
    BY <1>1, <1>2, <1>3 DEF HandRead
<1>14. HandRead(r)'
    BY <1>12, <1>13 DEF HandRead
<1>15. DataRead(r)'
    BY <1>1, <1>2, <1>3 DEF DataRead
<1>16. QED
    BY <1>1, <1>14, <1>15, ReadersInvOther

(* A reader returns, or begins another pass. *)
LEMMA ReadersInvCheck ==
    ASSUME TypeInv, TypeInv', ReadersInv, NEW r \in Readers, Check(r)
    PROVE  ReadersInv'
<1>1. /\ rd[r].pc = "delta" /\ rd[r].left = {}
      /\ \A q \in Readers : q # r => rd'[q] = rd[q]
      /\ UNCHANGED ReaderOnly
    BY CheckStep
<1>2. HandRead(r)
    BY DEF ReadersInv
<1>3. UNCHANGED <<hw, simple, hand, live, truth>>
    BY <1>1 DEF ReaderOnly, hist
<1>4. CASE Unchanged(r)
  <2>1. rd'[r].pc = "idle" /\ rd'[r].kind = "none" /\ rd'[r].left = {}
      BY <1>4, CheckStep DEF NotReading
  <2>2. QED
      BY <1>1, <2>1, ReadersInvOther DEF HandRead, DataRead
<1>5. CASE ~Unchanged(r)
  <2>1. /\ rd'[r].pc = "hand" /\ rd'[r].kind = rd[r].kind /\ rd'[r].start = rd[r].start
        /\ rd'[r].walls = rd[r].walls /\ rd'[r].left = {}
      BY <1>1, <1>5, CheckStep DEF OnlyReader, ReaderFields
  <2>2. HandRead(r)'
      BY <1>1, <1>2, <1>3, <2>1 DEF HandRead
  <2>3. DataRead(r)'
      BY <2>1 DEF DataRead
  <2>4. QED
      BY <1>1, <2>2, <2>3, ReadersInvOther
<1>6. QED
    BY <1>4, <1>5

(* A reader reads the generation, the base and the operands of tc_delta. *)
LEMMA ReadersInvLoad ==
    ASSUME TypeInv, TypeInv', ReadersInv, NEW r \in Readers,
           LoadGen(r) \/ LoadBase(r) \/ LoadCount(r) \/ LoadCounter(r) \/ LoadPending(r)
    PROVE  ReadersInv'
<1>1. HandRead(r) /\ DataRead(r)
    BY DEF ReadersInv
<1>2. /\ rd[r].pc \in {"gen", "base", "delta"} /\ rd'[r].pc \in {"gen", "base", "delta"}
      /\ \A f \in {"kind", "th", "start", "walls", "window"} : rd'[r][f] = rd[r][f]
      /\ \A q \in Readers : q # r => rd'[q] = rd[q]
      /\ UNCHANGED ReaderOnly
    BY LoadGenStep, LoadBaseStep, LoadCountStep, LoadCounterStep, LoadPendingStep
       DEF OnlyReader, ReaderFields
<1>3. HandRead(r)'
    BY <1>1, <1>2, HandReadSame
<1>4. /\ rd'[r].kind = rd[r].kind /\ rd'[r].th = rd[r].th /\ rd'[r].start = rd[r].start
      /\ rd'[r].window = rd[r].window
    BY <1>2
<1>5. UNCHANGED <<hw, pend, simple, hand>> /\ Counter' = Counter
    BY <1>2 DEF ReaderOnly, Counter
<1>6. PICK h \in Hands : h = rd[r].th
    BY ReaderFieldTypes
<1>7. /\ hw \in Nat /\ Counter \in Nat /\ hand[h].count \in Nat /\ hand[h].offset \in Int
      /\ rd[r].start \in Int /\ Interval \in Nat \ {0}
    BY CounterType, WriterFields, ReaderFieldTypes
(* What the counter shows while the hand is valid *)
<1>8. ASSUME hand[h].gen # 0, rd[r].pc = "delta", rd[r].kind # "get", ~rd[r].window
      PROVE  /\ rd[r].start <= hw
             /\ simple => hand[h].count <= Counter
             /\ ~simple => hand[h].offset <= hw
  <2>1. UptimeRight(h) /\ rd[r].start <= hw
      BY <1>1, <1>6, <1>8 DEF HandRead
  <2>2. QED
      BY <2>1 DEF UptimeRight, Fits
<1>9. CASE LoadGen(r)
  <2>1. rd'[r].pc = "base" /\ rd'[r].left = rd[r].left
      BY <1>9, LoadGenStep DEF OnlyReader, ReaderFields
  <2>2. DataRead(r)'
      BY <1>1, <1>5, <2>1 DEF DataRead
  <2>3. QED
      BY <1>2, <1>3, <2>2, ReadersInvOther
<1>10. CASE LoadBase(r)
  <2>1. /\ rd'[r].val = (IF rd[r].kind = "wall" THEN hand[h].wall ELSE hand[h].offset)
        /\ rd'[r].left = (IF rd[r].kind = "get" THEN {} ELSE {"count", "counter"})
      BY <1>6, <1>10, LoadBaseStep
  <2>2. DataRead(r)'
      BY <1>4, <1>5, <1>6, <2>1 DEF DataRead
  <2>3. QED
      BY <1>2, <1>3, <2>2, ReadersInvOther
<1>11. CASE LoadCount(r)
  <2>1. /\ rd[r].pc = "delta" /\ rd'[r].count = hand[h].count
        /\ rd'[r].left = rd[r].left \ {"count"}
        /\ rd'[r].pc = rd[r].pc /\ rd'[r].gen = rd[r].gen /\ rd'[r].val = rd[r].val
        /\ rd'[r].counter = rd[r].counter
      BY <1>6, <1>11, LoadCountStep DEF OnlyReader, ReaderFields
  <2>2. Unchanged(r)' <=> Unchanged(r)
      BY <1>4, <1>5, <2>1 DEF Unchanged
  <2>3. DataRead(r)'
      BY <1>1, <1>4, <1>5, <1>6, <2>1, <2>2 DEF DataRead
  <2>4. QED
      BY <1>2, <1>3, <2>3, ReadersInvOther
(* The counter is read, and h is valid at the time. *)
<1>12. ASSUME rd[r].pc = "delta", rd'[r].pc = rd[r].pc, rd'[r].gen = rd[r].gen,
              rd'[r].val = rd[r].val, rd'[r].count = rd[r].count,
              "pending" \in rd'[r].left => simple,
              "count" \in rd[r].left => "count" \in rd'[r].left,
              hand[h].gen # 0 /\ rd[r].gen = hand[h].gen /\ rd[r].kind # "get"
              /\ ~rd[r].window /\ "counter" \notin rd'[r].left =>
                 /\ simple /\ ("pending" \notin rd'[r].left \/ ~pend) =>
                       /\ rd'[r].counter \in hand[h].count .. Counter
                       /\ rd[r].start <= hw - Counter + rd'[r].counter
                 /\ ~simple => \E t \in rd[r].start .. hw :
                                  t >= hand[h].offset /\ rd'[r].counter = t % Size
       PROVE  ReadersInv'
  <2>1. Unchanged(r)' => Unchanged(r) /\ hand[h].gen # 0 /\ rd[r].gen = hand[h].gen
      BY <1>4, <1>5, <1>6, <1>12 DEF Unchanged
  <2>2. rd'[r].th = h /\ hand' = hand /\ hw' = hw /\ pend' = pend /\ simple' = simple
      BY <1>4, <1>5, <1>6
  <2>3. Unchanged(r)' =>
           /\ rd'[r].val = IF rd'[r].kind = "wall" THEN hand[h].wall ELSE hand[h].offset
           /\ rd'[r].kind # "get" /\ "count" \notin rd'[r].left => rd'[r].count = hand[h].count
      BY <1>1, <1>4, <1>6, <1>12, <2>1 DEF DataRead
  <2>4. DataRead(r)'
      BY <1>4, <1>5, <1>12, <2>1, <2>2, <2>3 DEF DataRead
  <2>5. QED
      BY <1>2, <1>3, <2>4, ReadersInvOther
<1>13. CASE LoadCounter(r)
  <2>1. /\ rd[r].pc = "delta"
        /\ rd'[r].counter = (IF simple THEN hw % Interval ELSE hw % Size)
        /\ rd'[r].left = (rd[r].left \ {"counter"}) \cup (IF simple THEN {"pending"} ELSE {})
        /\ rd'[r].pc = rd[r].pc /\ rd'[r].gen = rd[r].gen /\ rd'[r].val = rd[r].val
        /\ rd'[r].count = rd[r].count
      BY <1>13, LoadCounterStep DEF OnlyReader, ReaderFields
  <2>2. /\ "pending" \in rd'[r].left => simple
        /\ simple => "pending" \in rd'[r].left
        /\ "count" \in rd[r].left => "count" \in rd'[r].left
    <3>1. "pending" \in rd[r].left => simple
        BY <1>1 DEF DataRead
    <3>2. QED
        BY <2>1, <3>1
  <2>3. ASSUME hand[h].gen # 0, rd[r].kind # "get", ~rd[r].window
        PROVE  /\ simple /\ ~pend =>
                     /\ rd'[r].counter \in hand[h].count .. Counter
                     /\ rd[r].start <= hw - Counter + rd'[r].counter
               /\ ~simple => \E t \in rd[r].start .. hw :
                                t >= hand[h].offset /\ rd'[r].counter = t % Size
    <3>1. /\ rd[r].start <= hw
          /\ simple => hand[h].count <= Counter
          /\ ~simple => hand[h].offset <= hw
        BY <1>8, <2>1, <2>3
    <3>2. CASE simple /\ ~pend
      <4>1. PICK c \in Int : c = hw % Interval
          BY <1>7
      <4>2. Counter = c + 0
          BY <3>2, <4>1 DEF Counter
      <4>3. rd'[r].counter = c
          BY <2>1, <3>2, <4>1
      <4>4. QED
          BY <1>7, <3>1, <3>2, <4>2, <4>3
    <3>3. CASE ~simple
        BY <1>7, <2>1, <3>1, <3>3
    <3>4. CASE simple /\ pend
        BY <3>4
    <3>5. QED
        BY <3>2, <3>3, <3>4
  <2>4. QED
      BY <1>12, <2>1, <2>2, <2>3
<1>14. CASE LoadPending(r)
  <2>1. /\ rd[r].pc = "delta" /\ "pending" \in rd[r].left
        /\ rd'[r].counter = (IF pend THEN Interval + (hw % Interval) ELSE rd[r].counter)
        /\ rd'[r].left = rd[r].left \ {"pending"}
        /\ rd'[r].pc = rd[r].pc /\ rd'[r].gen = rd[r].gen /\ rd'[r].val = rd[r].val
        /\ rd'[r].count = rd[r].count
      BY <1>14, LoadPendingStep DEF OnlyReader, ReaderFields
  <2>2. simple
      BY <1>1, <2>1 DEF DataRead
  <2>3. ASSUME hand[h].gen # 0, rd[r].gen = hand[h].gen, rd[r].kind # "get", ~rd[r].window,
               "counter" \notin rd'[r].left
        PROVE  /\ rd'[r].counter \in hand[h].count .. Counter
               /\ rd[r].start <= hw - Counter + rd'[r].counter
    <3>1. CASE pend
      <4>1. PICK c \in Int : c = hw % Interval
          BY <1>7
      <4>2. Counter = c + Interval /\ rd'[r].counter = Interval + c
          BY <2>1, <2>2, <3>1, <4>1 DEF Counter
      <4>3. rd[r].start <= hw /\ hand[h].count <= Counter
          BY <1>8, <2>1, <2>2, <2>3
      <4>4. QED
          BY <1>7, <4>2, <4>3
    <3>2. CASE ~pend
      <4>1. Unchanged(r) /\ "counter" \notin rd[r].left
          BY <1>6, <2>1, <2>3 DEF Unchanged
      <4>2. /\ rd[r].counter \in hand[h].count .. Counter
            /\ rd[r].start <= hw - Counter + rd[r].counter
          BY <1>1, <1>6, <2>1, <2>2, <2>3, <3>2, <4>1 DEF DataRead
      <4>3. QED
          BY <2>1, <3>2, <4>2
    <3>3. QED
        BY <3>1, <3>2
  <2>4. /\ "pending" \in rd'[r].left => simple
        /\ "count" \in rd[r].left => "count" \in rd'[r].left
      BY <2>1
  <2>5. QED
      BY <1>12, <2>1, <2>2, <2>3, <2>4
<1>15. QED
    BY <1>9, <1>10, <1>11, <1>13, <1>14

(* Every step keeps what the readers have to do with. *)
LEMMA ReadersInvNext ==
    ASSUME TypeInv, TypeInv', WriterInv, GenInv, LiveInv, InPlaceInv, WindupInv, ReadersInv, Next
    PROVE  ReadersInv'
<1>1. CASE Advance \/ AtTick
    BY <1>1, ReadersInvHardware
<1>2. CASE TickWindup \/ SetClock \/ TickSimple \/ Copy \/ Count \/ Offset \/ Wall \/ SimpleCount
    BY <1>2, ReadersInvWriting
<1>3. CASE Gen
    BY <1>3, ReadersInvGen
<1>4. CASE Publish
    BY <1>4, ReadersInvPublish
<1>5. CASE \E r \in Readers : Reader(r) \/ \E k \in {"uptime", "wall", "get"} : Start(r, k)
  <2>1. PICK r \in Readers : Reader(r) \/ \E k \in {"uptime", "wall", "get"} : Start(r, k)
      BY <1>5
  <2>2. CASE \E k \in {"uptime", "wall", "get"} : Start(r, k)
      BY <2>2, ReadersInvStart
  <2>3. CASE LoadHand(r)
      BY <2>3, ReadersInvLoadHand
  <2>4. CASE Check(r)
      BY <2>4, ReadersInvCheck
  <2>5. CASE LoadGen(r) \/ LoadBase(r) \/ LoadCount(r) \/ LoadCounter(r) \/ LoadPending(r)
      BY <2>5, ReadersInvLoad
  <2>6. QED
      BY <2>1, <2>2, <2>3, <2>4, <2>5 DEF Reader
<1>6. QED
    BY <1>1, <1>2, <1>3, <1>4, <1>5 DEF Next, Writer

-----------------------------------------------------------------------------
(* The invariant holds *)

(* At boot the first hand is valid and the second one is not. *)
LEMMA IInvInit ==
    ASSUME Init
    PROVE  IInv
<1>1. /\ MaxGen \in Nat \ {0} /\ MaxTime \in Nat /\ MaxUpdates \in Nat /\ MaxSets \in Nat
      /\ Simple \subseteq BOOLEAN /\ Interval \in Nat \ {0} /\ Size \in Nat \ {0, 1}
    BY TimecounterAssumption DEF TimecounterAssumption
<1>2. /\ hw = 0 /\ pend = FALSE /\ simple \in BOOLEAN /\ live = 0 /\ w = Idle
      /\ rd = [r \in Readers |-> NotReading]
      /\ updates = 0 /\ sets = 0 /\ truth = 0 /\ drift = 0
      /\ hand = [h \in Hands |-> [gen |-> IF h = 0 THEN MaxGen ELSE 0,
                                  offset |-> 0, count |-> 0, boot |-> 0, wall |-> 0]]
    BY <1>1 DEF Init
<1>3. /\ w.pc = "idle" /\ w \in WriterSet /\ ~Writing
    BY <1>2, AtRest DEF Idle, Writing
<1>4. Modulus \in Nat \ {0} /\ 0 \in 0 .. Modulus - 1 /\ Slack \in Nat
    BY <1>1, <1>2 DEF Modulus, Slack
<1>5. /\ hand[0].gen = MaxGen /\ hand[1].gen = 0
      /\ \A h \in Hands : hand[h].offset = 0 /\ hand[h].count = 0 /\ hand[h].boot = 0
                          /\ hand[h].wall = 0
    BY <1>2 DEF Hands
<1>6. hand \in [Hands -> HandSet]
    BY <1>1, <1>2, <1>4 DEF HandSet
<1>7. \A r \in Readers : rd[r] = NotReading
    BY <1>2
<1>8. TypeInv
  <2>1. rd \in [Readers -> ReaderSet]
      BY <1>2, AtRest
  <2>2. hw \in 0 .. MaxTime /\ updates \in 0 .. MaxUpdates /\ sets \in 0 .. MaxSets
      BY <1>1, <1>2
  <2>3. live \in Hands /\ truth \in Int /\ drift \in Nat
      BY <1>2 DEF Hands
  <2>4. pend \in BOOLEAN
      BY <1>2, Zenon
  <2>5. QED
      BY <1>2, <1>3, <1>6, <2>1, <2>2, <2>3, <2>4 DEF TypeInv
<1>9. WriterInv /\ InPlaceInv /\ WindupInv
    BY <1>2, <1>3 DEF WriterInv, InPlaceInv, WindupInv
<1>10. \A r \in Readers : rd[r].pc = "idle" /\ rd[r].kind = "none" /\ rd[r].left = {}
  <2>1. NotReading.pc = "idle" /\ NotReading.kind = "none" /\ NotReading.left = {}
      BY DEF NotReading
  <2>2. QED
      BY <1>7, <2>1
<1>11. GenInv
    BY <1>1, <1>2, <1>3, <1>5, <1>10 DEF GenInv, Rank, LastGen, Hands
<1>12. Counter = 0
  <2>1. 0 % Interval = 0 /\ 0 % Size = 0
      BY <1>1, ModSmall
  <2>2. QED
      BY <1>2, <2>1 DEF Counter
<1>13. LiveInv
  <2>1. Fits(live) /\ Error(live) = 0
    <3>1. 0 % Size = 0 /\ live \in Hands
        BY <1>1, <1>2, ModSmall DEF Hands
    <3>2. QED
        BY <1>1, <1>2, <1>5, <1>12, <3>1 DEF Fits, Error
  <2>2. live \in Hands
      BY <1>2 DEF Hands
  <2>3. BootRight(live, truth)
      BY <1>2, <1>4, <1>5, <2>2 DEF BootRight
  <2>4. UptimeRight(live)
      BY <1>2, <1>4, <2>1 DEF UptimeRight
  <2>5. WallRight(live, truth)
    <3>1. hand[live].boot = 0 /\ hand[live].offset = 0 /\ hand[live].wall = 0 /\ truth = 0
        BY <1>2, <1>5, <2>2
    <3>2. Error(live) + hand[live].boot - truth = 0
        BY <2>1, <3>1
    <3>3. 0 \in -Slack .. drift + Slack
        BY <1>2, <1>4
    <3>4. QED
        BY <2>3, <3>1, <3>2, <3>3 DEF WallRight
  <2>6. QED
      BY <1>2, <1>3, <1>5, <1>12, <2>2, <2>3, <2>4, <2>5 DEF LiveInv
<1>14. ReadersInv
    BY <1>10 DEF ReadersInv, HandRead, DataRead
<1>15. QED
    BY <1>8, <1>9, <1>11, <1>13, <1>14 DEF IInv

(* The invariant is inductive. *)
LEMMA IInvNext ==
    ASSUME IInv, [Next]_vars
    PROVE  IInv'
<1>1. CASE Next
  <2>1. TypeInv'
      BY <1>1, TypeInvNext DEF IInv
  <2>2. WriterInv' /\ GenInv'
      BY <1>1, WriterInvNext, GenInvNext DEF IInv
  <2>3. LiveInv' /\ InPlaceInv' /\ WindupInv'
      BY <1>1, <2>1, <2>2, LiveInvNext, InPlaceInvNext, WindupInvNext DEF IInv
  <2>4. ReadersInv'
      BY <1>1, <2>1, ReadersInvNext DEF IInv
  <2>5. QED
      BY <2>1, <2>2, <2>3, <2>4 DEF IInv
<1>2. CASE UNCHANGED vars
  <2> USE <1>2 DEF vars
  <2>1. TypeInv' /\ WriterInv' /\ InPlaceInv'
      BY DEF IInv, TypeInv, HandSet, Modulus, WriterInv, InPlaceInv, Writing, InPlace, Counter
  <2>2. GenInv'
      BY DEF IInv, GenInv, Writing, InPlace, LastGen
  <2>3. LiveInv' /\ WindupInv'
      BY DEF IInv, LiveInv, WindupInv, Writing, InPlace, UptimeRight, WallRight, BootRight,
         Fits, Error, Counter, Slack
  <2>4. ReadersInv'
    <3>1. SUFFICES ASSUME NEW r \in Readers
                   PROVE  HandRead(r)' /\ DataRead(r)'
        BY DEF ReadersInv
    <3>2. TypeInv /\ HandRead(r) /\ DataRead(r)
        BY DEF IInv, ReadersInv
    <3>3. UNCHANGED <<hw, pend, simple, hand, live, rd, truth, drift>>
        BY DEF hist
    <3>4. drift <= drift' /\ hand[live].offset <= hand'[live'].offset
        BY <3>2, <3>3, WriterFields
    <3>5. rd[r].kind = "wall" => truth' \in rd'[r].walls
        BY <3>2, <3>3 DEF HandRead
    <3>6. QED
        BY <2>1, <3>2, <3>3, <3>4, <3>5, ReadKept
  <2>5. QED
      BY <2>1, <2>2, <2>3, <2>4 DEF IInv
<1>3. QED
    BY <1>1, <1>2

(* The invariant holds in every reachable state. *)
LEMMA IInvHolds == Spec => []IInv
<1>1. Init => IInv
    BY IInvInit
<1>2. IInv /\ [Next]_vars => IInv'
    BY IInvNext
<1>3. QED
    BY <1>1, <1>2, PTL DEF Spec

-----------------------------------------------------------------------------
(* The theorems *)

(* The state of the clock has its types at every step, and between two      *)
(* updates the generation of the current hand is not zero, also after it    *)
(* has wrapped from UINT_MAX to 1.                                          *)
THEOREM TypeCorrect == Spec => []TypeOK
<1>1. ASSUME IInv
      PROVE  TypeOK
  <2>1. TypeInv /\ (w.pc = "idle" => hand[live].gen # 0)
      BY <1>1 DEF IInv, GenInv, Writing
  <2>2. \A r \in Readers : rd[r].pc \in {"idle", "hand", "gen", "base", "delta"}
      BY <2>1 DEF TypeInv, ReaderSet
  <2>3. w.pc \in {"idle", "copy", "count", "offset", "wall", "gen", "publish", "attick",
                  "scount"}
      BY <2>1 DEF TypeInv, WriterSet, WriterPC
  <2>4. QED
      BY <2>1, <2>2, <2>3 DEF TypeInv, TypeOK, HandSet
<1>2. QED
    BY <1>1, IInvHolds, PTL

(* Only a reader whose hand has not been written meanwhile returns. *)
LEMMA ReturnsUnchanged ==
    ASSUME TypeInv, WriterInv, GenInv, InPlaceInv, Next, NEW r \in Readers, Returns(r)
    PROVE  rd[r].pc = "delta" /\ rd[r].left = {} /\ Unchanged(r)
<1>0. rd[r].pc = "delta" /\ rd'[r].pc = "idle"
    BY DEF Returns
<1>1. CASE \E q \in Readers : Reader(q) \/ \E k \in {"uptime", "wall", "get"} : Start(q, k)
  <2>1. PICK q \in Readers : Reader(q) \/ \E k \in {"uptime", "wall", "get"} : Start(q, k)
      BY <1>1
  <2>2. q = r
      BY <1>0, <2>1, ReaderStep
  <2>3. ~\E k \in {"uptime", "wall", "get"} : Start(r, k)
      BY <1>0 DEF Start
  <2>4. ~LoadHand(r) /\ ~LoadGen(r) /\ ~LoadBase(r)
      BY <1>0, LoadHandStep, LoadGenStep, LoadBaseStep
  <2>5. ~LoadCount(r) /\ ~LoadCounter(r) /\ ~LoadPending(r)
      BY <1>0, LoadCountStep, LoadCounterStep, LoadPendingStep DEF OnlyReader, ReaderFields
  <2>6. Check(r)
      BY <2>1, <2>2, <2>3, <2>4, <2>5 DEF Reader
  <2>7. QED
      BY <1>0, <2>6, CheckStep
<1>2. CASE ~\E q \in Readers : Reader(q) \/ \E k \in {"uptime", "wall", "get"} : Start(q, k)
  <2>1. rd'[r].pc = rd[r].pc
    <3>1. CASE AtTick
        BY <3>1, AtTickStep
    <3>2. CASE Gen \/ Publish
        BY <3>2, MeetStep DEF Gen, Publish
    <3>3. CASE Advance \/ TickWindup \/ SetClock \/ Copy \/ Count \/ Offset \/ Wall
               \/ TickSimple \/ SimpleCount
        BY <3>3 DEF Advance, TickWindup, SetClock, Copy, Count, Offset, Wall, TickSimple,
           SimpleCount
    <3>4. QED
        BY <1>2, <3>1, <3>2, <3>3 DEF Next, Writer
  <2>2. QED
      BY <1>0, <2>1
<1>3. QED
    BY <1>1, <1>2

(* The operands that a reader has read give the time of an instant of the   *)
(* read, as its hand shows it.                                              *)
LEMMA OperandsBelongTogether ==
    ASSUME TypeInv, NEW r \in Readers, HandRead(r), DataRead(r), rd[r].pc = "delta",
           rd[r].left = {}, Unchanged(r), rd[r].kind # "get", ~rd[r].window,
           NEW h \in Hands, h = rd[r].th
    PROVE  \E t \in rd[r].start .. hw :
              hand[h].offset + ((rd[r].counter - rd[r].count) % Modulus) = t + Error(h)
<1>1. /\ rd[r].count = hand[h].count /\ UptimeRight(h) /\ Fits(h)
    BY DEF DataRead, HandRead, Unchanged, UptimeRight
<1>2. /\ hw \in Nat /\ Counter \in 0 .. Modulus - 1 /\ Modulus \in Nat \ {0}
      /\ hand[h].offset \in Int /\ hand[h].count \in Nat /\ rd[r].start \in Int
      /\ rd[r].counter \in Nat /\ Size \in Nat \ {0}
    BY CounterType, WriterFields, ReaderFieldTypes
<1>3. CASE simple
  <2>1. /\ rd[r].counter \in hand[h].count .. Counter
        /\ rd[r].start <= hw - Counter + rd[r].counter
      BY <1>3 DEF DataRead
  <2>2. rd[r].counter - hand[h].count \in 0 .. Modulus - 1
      BY <1>2, <2>1
  <2>3. (rd[r].counter - hand[h].count) % Modulus = rd[r].counter - hand[h].count
      BY <1>2, <2>2, ModSmall
  <2>4. Error(h) = hand[h].offset + Counter - hand[h].count - hw
      BY <1>3 DEF Error
  <2>5. hw - Counter + rd[r].counter \in rd[r].start .. hw
      BY <1>2, <2>1
  <2>6. hand[h].offset + (rd[r].counter - hand[h].count)
           = (hw - Counter + rd[r].counter) + Error(h)
      BY <1>2, <2>4
  <2>7. QED
      BY <1>1, <2>3, <2>5, <2>6
<1>4. CASE ~simple
  <2>1. PICK t \in rd[r].start .. hw : t >= hand[h].offset /\ rd[r].counter = t % Size
      BY <1>4 DEF DataRead
  <2>2. /\ hand[h].offset <= hw /\ hw - hand[h].offset < Size
        /\ hand[h].count = hand[h].offset % Size /\ Modulus = Size /\ Error(h) = 0
      BY <1>1, <1>4 DEF Fits, Modulus, Error
  <2>3. PICK o \in Int : o = hand[h].offset
      BY <1>2
  <2>4. t \in Int /\ t - o \in 0 .. Size - 1
      BY <1>2, <2>1, <2>2, <2>3
  <2>5. ((t % Size) - (o % Size)) % Size = t - o
      BY <1>2, <2>4, ModDifference
  <2>6. (rd[r].counter - rd[r].count) % Modulus = t - o
      BY <1>1, <2>1, <2>2, <2>3, <2>5
  <2>7. hand[h].offset + (t - o) = t + Error(h)
      BY <2>2, <2>3, <2>4
  <2>8. QED
      BY <2>1, <2>6, <2>7
<1>5. QED
    BY <1>3, <1>4

(* A read of the uptime or of the wall clock returns the time of an instant *)
(* of the read, on the clock as it was set at some instant of the read,     *)
(* whatever windup, Set_clock or simple tick it meets.                      *)
THEOREM ReadsAreTrue == Spec => ReadsTrueTime
<1>1. ASSUME IInv, Next, NEW r \in Readers, Returns(r), rd[r].kind # "get", ~rd[r].window
      PROVE  \E b \in rd[r].walls :
                Result(r) - b \in (rd[r].start - Slack)..(hw + drift + Ahead(rd[r].kind))
  <2>1. /\ TypeInv /\ HandRead(r) /\ DataRead(r)
        /\ rd[r].pc = "delta" /\ rd[r].left = {} /\ Unchanged(r)
      BY <1>1, ReturnsUnchanged DEF IInv, ReadersInv
  <2>2. PICK h \in Hands : h = rd[r].th
      BY <2>1, ReaderFieldTypes
  <2>3. /\ hw \in Nat /\ drift \in Nat /\ Slack \in Nat /\ hand[h].offset \in Int
        /\ hand[h].boot \in Int /\ rd[r].start \in Int /\ rd[r].walls \subseteq Int
        /\ Modulus \in Nat \ {0} /\ rd[r].counter - rd[r].count \in Int
      BY <2>1, CounterType, WriterFields, ReaderFieldTypes
  <2>4. PICK d \in Int : d = (rd[r].counter - rd[r].count) % Modulus
      BY <2>3
  <2>5. PICK t \in rd[r].start .. hw : hand[h].offset + d = t + Error(h)
      BY <1>1, <2>1, <2>2, <2>4, OperandsBelongTogether
  <2>6. /\ hand[h].gen # 0 /\ rd[r].kind \in {"uptime", "wall"}
        /\ UptimeRight(h) /\ Error(h) \in -Slack .. drift
      BY <1>1, <2>1, <2>2, ReaderFieldTypes DEF HandRead, Unchanged, UptimeRight
  <2>7. Result(r) = rd[r].val + d
      BY <1>1, <2>4 DEF Result
  <2>8. CASE rd[r].kind = "uptime"
    <3>1. rd[r].val = hand[h].offset /\ 0 \in rd[r].walls
        BY <2>1, <2>2, <2>8 DEF DataRead, HandRead
    <3>2. Result(r) - 0 = t + Error(h)
        BY <2>3, <2>5, <2>7, <3>1
    <3>3. t + Error(h) \in (rd[r].start - Slack)..(hw + drift + Ahead(rd[r].kind))
        BY <2>3, <2>5, <2>6, <2>8 DEF Ahead
    <3>4. QED
        BY <3>1, <3>2, <3>3
  <2>9. CASE rd[r].kind = "wall"
    <3>1. PICK b \in rd[r].walls : WallRight(h, b)
        BY <1>1, <2>1, <2>2, <2>6, <2>9 DEF HandRead
    <3>2. /\ b \in Int /\ Error(h) + hand[h].boot - b \in -Slack .. drift + Slack
          /\ hand[h].wall = hand[h].offset + hand[h].boot
        BY <2>3, <3>1 DEF WallRight
    <3>3. rd[r].val = hand[h].wall
        BY <2>1, <2>2, <2>9 DEF DataRead
    <3>4. Result(r) - b = t + (Error(h) + hand[h].boot - b)
        BY <2>3, <2>5, <2>6, <2>7, <3>2, <3>3
    <3>5. t + (Error(h) + hand[h].boot - b)
             \in (rd[r].start - Slack)..(hw + drift + Ahead(rd[r].kind))
        BY <2>3, <2>5, <2>9, <3>2 DEF Ahead
    <3>6. QED
        BY <3>4, <3>5
  <2>10. QED
      BY <2>6, <2>8, <2>9
<1>2. IInv /\ [Next]_vars =>
         [\A r \in Readers :
            Returns(r) /\ rd[r].kind # "get" /\ ~rd[r].window =>
              \E b \in rd[r].walls :
                Result(r) - b \in (rd[r].start - Slack)..(hw + drift + Ahead(rd[r].kind))]_vars
    BY <1>1
<1>3. QED
    BY <1>2, IInvHolds, PTL DEF Spec, ReadsTrueTime

(* A get returns the uptime of an update no older than the one that was     *)
(* current when it was called, and none from the future.                    *)
THEOREM GetsAreCurrent == Spec => GetsCurrentUpdate
<1>1. ASSUME IInv, Next, NEW r \in Readers, Returns(r), rd[r].kind = "get"
      PROVE  Result(r) \in rd[r].start..(hw + drift)
  <2>1. /\ TypeInv /\ HandRead(r) /\ DataRead(r)
        /\ rd[r].pc = "delta" /\ rd[r].left = {} /\ Unchanged(r)
      BY <1>1, ReturnsUnchanged DEF IInv, ReadersInv
  <2>2. PICK h \in Hands : h = rd[r].th
      BY <2>1, ReaderFieldTypes
  <2>3. hand[h].offset \in rd[r].start .. hw + drift /\ rd[r].val = hand[h].offset
      BY <1>1, <2>1, <2>2 DEF HandRead, DataRead, Unchanged
  <2>4. hand[h].offset \in Int
      BY <2>1, WriterFields
  <2>5. QED
      BY <1>1, <2>3, <2>4 DEF Result
<1>2. IInv /\ [Next]_vars =>
         [\A r \in Readers : Returns(r) /\ rd[r].kind = "get" =>
            Result(r) \in rd[r].start..(hw + drift)]_vars
    BY <1>1
<1>3. QED
    BY <1>2, IInvHolds, PTL DEF Spec, GetsCurrentUpdate
=============================================================================
