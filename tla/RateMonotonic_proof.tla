------------------------ MODULE RateMonotonic_proof ------------------------
(***************************************************************************)
(* Proofs about RateMonotonic for any number of periods and processors,    *)
(* any period lengths and any limit of the counter of postponed jobs.      *)
(***************************************************************************)
EXTENDS RateMonotonic, TLAPS

-----------------------------------------------------------------------------
(* The inductive invariant *)

(* The wait flags, the return argument and the state of the owner follow    *)
(* its way into the wait; only a timeout can have run ahead of it.          *)
OwnerInv ==
    /\ (at = Nobody) <=> (pc = "run")
    /\ pc \in {"run", "enter"} => flags = "READY" /\ ready
    /\ pc = "setstate" => flags # "BLOCKED" /\ ready
    /\ pc = "tryblock" => flags # "BLOCKED" /\ ~ready
    /\ pc = "self" => flags = "READY" /\ ~ready
    /\ pc = "wait" => flags # "INTEND" /\ (flags = "BLOCKED" => ~ready)
    /\ flags = "READY" => arg = Nobody
    /\ flags # "READY" => arg \in {at, Nobody}

(* A timeout that has found the owner waiting holds the lock of the period  *)
(* and has taken the return argument, so that it is the only one; and so is *)
(* the one that still has to unblock the owner.                             *)
TimeoutInv ==
    /\ \A c \in CPUs : (fired[c] = Nobody) <=> (cpc[c] = "idle")
    /\ \A c \in CPUs : cpc[c] = "looked" =>
         flags # "READY" /\ arg = Nobody /\ fired[c] = at /\ lock[at] = c
    /\ \A p \in Periods : lock[p] # Nobody =>
         cpc[lock[p]] = "looked" /\ fired[lock[p]] = p
    /\ flags # "READY" /\ arg = Nobody => lock[at] # Nobody
    /\ \A c \in CPUs : cpc[c] = "unblock" => pc = "wait" /\ flags = "READY" /\ ~ready
    /\ \A c, d \in CPUs : cpc[c] = "unblock" /\ cpc[d] = "unblock" => c = d

(* The state of a period and its postponed jobs, also after a race. *)
StateInv ==
    \A p \in Periods :
        /\ period[p].state = "EXPIRED" => period[p].postponed > 0
        /\ period[p].state = "INACTIVE" => period[p].postponed = 0

(* The watchdog of a period that has not raced expires once at a time. *)
Flies(c, p) == cpc[c] \in {"fired", "looked"} /\ fired[c] = p

WatchdogInv ==
    \A p \in Periods : raced[p] \/
        /\ period[p].state # "INACTIVE" <=>
             (period[p].timer # NoTimer \/ \E c \in CPUs : Flies(c, p))
        /\ \A c \in CPUs : Flies(c, p) => period[p].timer = NoTimer
        /\ \A c, d \in CPUs : Flies(c, p) /\ Flies(d, p) => c = d
        /\ ~exists[p] => period[p].state = "INACTIVE" /\ at # p

JobsInv ==
    \A p \in Periods : raced[p] \/
        /\ period[p].postponed = IF jobs[p] > 1 THEN jobs[p] - 1 ELSE 0
        /\ period[p].state = "INACTIVE" => jobs[p] = 0
        /\ period[p].state # "INACTIVE" =>
             (jobs[p] = 0 <=> flags # "READY" /\ at = p)
        /\ flags # "READY" /\ at = p => period[p].state = "ACTIVE"

IInv ==
    /\ TypeOK /\ OwnerInv /\ TimeoutInv /\ StateInv /\ WatchdogInv /\ JobsInv
    /\ MissesCounted /\ AssertionsHold

-----------------------------------------------------------------------------
(* What the operators of the model do to a period and to its histories *)

PeriodSet == [state : {"INACTIVE", "ACTIVE", "EXPIRED"},
              postponed : 0..MaxPostponed, next_length : Lengths \cup {0},
              timer : Nat \cup {NoTimer}, stat : {"none", "met", "missed"}]

(* A length is a number of ticks. *)
LEMMA LengthsNat == \A n \in Lengths \cup {0} : n \in Nat
BY RateMonotonicAssumption DEF RateMonotonicAssumption

(* A new value of one period leaves the others alone. *)
LEMMA PeriodChange ==
    ASSUME TypeOK, NEW p \in Periods, NEW r \in PeriodSet,
           period' = [period EXCEPT ![p] = r]
    PROVE  /\ period' \in [Periods -> PeriodSet] /\ period'[p] = r
           /\ \A q \in Periods : q # p => period'[q] = period[q]
BY DEF TypeOK, PeriodSet

(* A cancelled period is inactive, without a timer and without a backlog. *)
LEMMA CancelledPeriod ==
    ASSUME NEW r \in PeriodSet
    PROVE  /\ Cancelled(r) \in PeriodSet /\ Cancelled(r).state = "INACTIVE"
           /\ Cancelled(r).timer = NoTimer /\ Cancelled(r).postponed = 0
           /\ Cancelled(r).stat = r.stat
<1>0. 0 \in 0..MaxPostponed
    BY RateMonotonicAssumption DEF RateMonotonicAssumption
<1>1. Cancelled(r) \in PeriodSet
    BY <1>0 DEF Cancelled, PeriodSet
<1>2. QED
    BY <1>1 DEF Cancelled, PeriodSet

(* A renewed period is expired; it is timed anew and one job longer behind. *)
LEMMA RenewedPeriod ==
    ASSUME NEW r \in PeriodSet
    PROVE  /\ Renewed(r) \in PeriodSet /\ Renewed(r).state = "EXPIRED"
           /\ Renewed(r).timer = r.next_length
           /\ Renewed(r).postponed = (IF r.postponed = MaxPostponed THEN MaxPostponed
                                      ELSE r.postponed + 1)
           /\ Renewed(r).stat = r.stat
<1> DEFINE n == IF r.postponed = MaxPostponed THEN MaxPostponed ELSE r.postponed + 1
<1>0. r.postponed \in 0..MaxPostponed /\ r.next_length \in Lengths \cup {0}
    BY DEF PeriodSet
<1>1. n \in 0..MaxPostponed
    BY <1>0, RateMonotonicAssumption DEF RateMonotonicAssumption
<1>t. r.next_length \in Nat
    BY <1>0, LengthsNat, Zenon
<1>2. Renewed(r) = [r EXCEPT !.postponed = n, !.state = "EXPIRED", !.timer = r.next_length]
    BY DEF Renewed
<1> HIDE DEF n
<1>3. Renewed(r) \in PeriodSet
    BY <1>1, <1>t, <1>2 DEF PeriodSet
<1>4. /\ Renewed(r).state = "EXPIRED" /\ Renewed(r).timer = r.next_length
      /\ Renewed(r).postponed = n /\ Renewed(r).stat = r.stat
    BY <1>2 DEF PeriodSet
<1>5. QED
    BY <1>3, <1>4 DEF n

(* A completion takes one job away, a release adds one up to the limit. *)
LEMMA Completion ==
    ASSUME TypeOK, NEW p \in Periods, JobCompleted(p), raced[p] \/ jobs[p] > 0
    PROVE  /\ jobs' \in [Periods -> 0..(MaxPostponed + 1)]
           /\ late' \in [Periods -> {"none", "met", "missed"}]
           /\ ~raced[p] => jobs'[p] = jobs[p] - 1
           /\ ~raced[p] /\ jobs[p] > 1 => late'[p] = "missed"
           /\ ~raced[p] /\ ~(jobs[p] > 1) => late'[p] = "met"
           /\ \A q \in Periods : q # p => jobs'[q] = jobs[q] /\ late'[q] = late[q]
<1>1. CASE raced[p]
  <2>1. jobs' = jobs /\ late' = late
      BY <1>1, Zenon DEF JobCompleted
  <2>2. QED
      BY <1>1, <2>1 DEF TypeOK
<1>2. CASE ~raced[p]
  <2>1. /\ jobs' = [jobs EXCEPT ![p] = @ - 1]
        /\ late' = [late EXCEPT ![p] = IF jobs[p] > 1 THEN "missed" ELSE "met"]
      BY <1>2, Zenon DEF JobCompleted
  <2>2. QED
      BY <1>2, <2>1, RateMonotonicAssumption DEF TypeOK, RateMonotonicAssumption
<1>3. QED
    BY <1>1, <1>2

(* A release adds one job, up to the limit of the counter. *)
LEMMA Release ==
    ASSUME TypeOK, NEW p \in Periods, JobReleased(p)
    PROVE  /\ jobs' \in [Periods -> 0..(MaxPostponed + 1)]
           /\ raced[p] \/ jobs'[p] = IF jobs[p] > MaxPostponed THEN jobs[p]
                                     ELSE jobs[p] + 1
           /\ \A q \in Periods : q # p => jobs'[q] = jobs[q]
<1>1. CASE raced[p]
  <2>1. jobs' = [jobs EXCEPT ![p] = @]
      BY <1>1, Zenon DEF JobReleased
  <2>2. QED
      BY <1>1, <2>1 DEF TypeOK
<1>2. CASE ~raced[p]
  <2>1. jobs' = [jobs EXCEPT ![p] = IF @ > MaxPostponed THEN @ ELSE @ + 1]
      BY <1>2, Zenon DEF JobReleased
  <2>2. QED
      BY <1>2, <2>1, RateMonotonicAssumption DEF TypeOK, RateMonotonicAssumption
<1>3. QED
    BY <1>1, <1>2

(* Cancelling drops the jobs, and in a race gives up the history. *)
LEMMA Dropping ==
    ASSUME TypeOK, NEW p \in Periods, NEW race \in BOOLEAN, JobsDropped(p, race)
    PROVE  /\ raced' \in [Periods -> BOOLEAN] /\ (race => raced'[p])
           /\ ~race => raced'[p] = raced[p]
           /\ jobs' \in [Periods -> 0..(MaxPostponed + 1)] /\ jobs'[p] = 0
           /\ late' \in [Periods -> {"none", "met", "missed"}]
           /\ race \/ late'[p] = late[p]
           /\ \A q \in Periods : q # p =>
                raced'[q] = raced[q] /\ jobs'[q] = jobs[q] /\ late'[q] = late[q]
<1>1. CASE race
  <2>1. /\ raced' = [raced EXCEPT ![p] = TRUE]
        /\ jobs' = [jobs EXCEPT ![p] = 0]
        /\ late' = [late EXCEPT ![p] = "none"]
      BY <1>1, Zenon DEF JobsDropped
  <2>2. QED
      BY <1>1, <2>1, RateMonotonicAssumption DEF TypeOK, RateMonotonicAssumption
<1>2. CASE ~race
  <2>1. /\ raced' = [raced EXCEPT ![p] = @]
        /\ jobs' = [jobs EXCEPT ![p] = 0]
        /\ late' = [late EXCEPT ![p] = @]
      BY <1>2 DEF JobsDropped, TypeOK
  <2>2. QED
      BY <1>2, <2>1, RateMonotonicAssumption DEF TypeOK, RateMonotonicAssumption
<1>3. QED
    BY <1>1, <1>2


-----------------------------------------------------------------------------
(* Every step keeps the invariant *)

(* The steps that change no period *)
LEMMA QuietStep ==
    ASSUME IInv,
           \/ \E p \in Periods : Enter(p)
           \/ SetState \/ TryBlock \/ SelfUnblock \/ Resume
           \/ \E c \in CPUs : TimeoutLook(c) \/ TimeoutUnblock(c)
    PROVE  IInv'
<1> USE DEF IInv, ovars, cvars, hvars
<1>1. ASSUME NEW p \in Periods, Enter(p) PROVE IInv'
  <2>1. TypeOK' /\ StateInv' /\ MissesCounted' /\ AssertionsHold'
      BY <1>1 DEF Enter, TypeOK, StateInv, MissesCounted, AssertionsHold
  <2>2. OwnerInv' /\ TimeoutInv'
      BY <1>1, RateMonotonicAssumption
         DEF RateMonotonicAssumption, Enter, TypeOK, OwnerInv, TimeoutInv
  <2>3. WatchdogInv' /\ JobsInv'
      BY <1>1 DEF Enter, WatchdogInv, Flies, JobsInv, OwnerInv
  <2>4. QED
      BY <2>1, <2>2, <2>3
<1>2. CASE SetState
  <2>1. TypeOK' /\ StateInv' /\ MissesCounted' /\ AssertionsHold'
      BY <1>2 DEF SetState, TypeOK, StateInv, MissesCounted, AssertionsHold
  <2>2. OwnerInv' /\ TimeoutInv'
      BY <1>2 DEF SetState, TypeOK, OwnerInv, TimeoutInv
  <2>3. WatchdogInv' /\ JobsInv'
      BY <1>2 DEF SetState, WatchdogInv, Flies, JobsInv
  <2>4. QED
      BY <2>1, <2>2, <2>3
<1>3. CASE TryBlock
  <2>1. TypeOK' /\ StateInv' /\ MissesCounted' /\ AssertionsHold'
      BY <1>3 DEF TryBlock, TypeOK, StateInv, MissesCounted, AssertionsHold
  <2>2. OwnerInv' /\ TimeoutInv'
      BY <1>3 DEF TryBlock, TypeOK, OwnerInv, TimeoutInv
  <2>3. WatchdogInv' /\ JobsInv'
      BY <1>3 DEF TryBlock, WatchdogInv, Flies, JobsInv
  <2>4. QED
      BY <2>1, <2>2, <2>3
<1>4. CASE SelfUnblock
  <2>1. TypeOK' /\ StateInv' /\ MissesCounted'
      BY <1>4 DEF SelfUnblock, Leave, TypeOK, StateInv, MissesCounted
  <2>2. OwnerInv' /\ TimeoutInv'
      BY <1>4 DEF SelfUnblock, Leave, TypeOK, OwnerInv, TimeoutInv
  <2>3. WatchdogInv' /\ JobsInv'
      BY <1>4, RateMonotonicAssumption
         DEF RateMonotonicAssumption, SelfUnblock, Leave, WatchdogInv, Flies,
             JobsInv, OwnerInv
  <2>4. AssertionsHold'
      BY <1>4 DEF SelfUnblock, AssertionsHold, OwnerInv
  <2>5. QED
      BY <2>1, <2>2, <2>3, <2>4
<1>5. CASE Resume
  <2>1. TypeOK' /\ StateInv' /\ MissesCounted' /\ AssertionsHold'
      BY <1>5 DEF Resume, Leave, TypeOK, StateInv, MissesCounted, AssertionsHold
  <2>2. OwnerInv' /\ TimeoutInv'
      BY <1>5 DEF Resume, Leave, TypeOK, OwnerInv, TimeoutInv
  <2>3. WatchdogInv' /\ JobsInv'
      BY <1>5, RateMonotonicAssumption
         DEF RateMonotonicAssumption, Resume, Leave, WatchdogInv, Flies, JobsInv,
             OwnerInv, TypeOK
  <2>4. QED
      BY <2>1, <2>2, <2>3
<1>6. ASSUME NEW c \in CPUs, TimeoutLook(c) PROVE IInv'
  <2>1. fired[c] \in Periods
      BY <1>6 DEF TimeoutLook, TypeOK, TimeoutInv
  <2>2. TypeOK' /\ StateInv' /\ MissesCounted' /\ AssertionsHold'
      BY <1>6, <2>1 DEF TimeoutLook, TypeOK, StateInv, MissesCounted, AssertionsHold
  <2>3. OwnerInv' /\ TimeoutInv'
      BY <1>6, <2>1, RateMonotonicAssumption
         DEF RateMonotonicAssumption, TimeoutLook, WaitsFor, TypeOK, OwnerInv,
             TimeoutInv
  <2>4. WatchdogInv' /\ JobsInv'
      BY <1>6, <2>1 DEF TimeoutLook, TypeOK, WatchdogInv, Flies, JobsInv
  <2>5. QED
      BY <2>2, <2>3, <2>4
<1>7. ASSUME NEW c \in CPUs, TimeoutUnblock(c) PROVE IInv'
  <2>1. TypeOK' /\ StateInv' /\ MissesCounted' /\ AssertionsHold'
      BY <1>7 DEF TimeoutUnblock, TypeOK, StateInv, MissesCounted, AssertionsHold
  <2>2. OwnerInv' /\ TimeoutInv'
      BY <1>7, RateMonotonicAssumption
         DEF RateMonotonicAssumption, TimeoutUnblock, TypeOK, OwnerInv, TimeoutInv
  <2>3. WatchdogInv' /\ JobsInv'
      BY <1>7 DEF TimeoutUnblock, TypeOK, WatchdogInv, Flies, JobsInv
  <2>4. QED
      BY <2>1, <2>2, <2>3
<1>8. QED
    BY <1>1, <1>2, <1>3, <1>4, <1>5, <1>6, <1>7

(* The owner's steps that change a period *)
LEMMA OwnerChange ==
    ASSUME IInv, NEW p \in Periods,
           Create(p) \/ Activate(p) \/ Block_while_active(p) \/ Block_while_expired(p)
    PROVE  IInv'
<1> USE DEF IInv
<1>1. period \in [Periods -> PeriodSet] /\ period[p] \in PeriodSet
    BY DEF TypeOK, PeriodSet
<1>2. CASE Create(p)
  <2> DEFINE r == NewPeriod(period[p].next_length)
  <2>1. r \in PeriodSet /\ r.state = "INACTIVE" /\ r.timer = NoTimer
        /\ r.postponed = 0 /\ r.stat = "none"
      BY <1>1, RateMonotonicAssumption
         DEF RateMonotonicAssumption, NewPeriod, PeriodSet
  <2>2. period' = [period EXCEPT ![p] = r]
      BY <1>2, Zenon DEF Create
  <2> HIDE DEF r
  <2>3. /\ period' \in [Periods -> PeriodSet] /\ period'[p] = r
        /\ \A q \in Periods : q # p => period'[q] = period[q]
      BY <2>1, <2>2, PeriodChange
  <2>4. /\ pc = "run" /\ ~exists[p]
        /\ exists' = [exists EXCEPT ![p] = TRUE]
        /\ jobs' = [jobs EXCEPT ![p] = 0] /\ late' = [late EXCEPT ![p] = "none"]
        /\ UNCHANGED <<pc, at, flags, arg, ready, lock, cpc, fired, raced, fault>>
      BY <1>2 DEF Create, ovars, cvars
  <2>5. TypeOK'
      BY <2>3, <2>4, RateMonotonicAssumption
         DEF RateMonotonicAssumption, TypeOK, PeriodSet
  <2>6. OwnerInv' /\ TimeoutInv' /\ AssertionsHold'
      BY <2>4 DEF OwnerInv, TimeoutInv, AssertionsHold
  <2>7. StateInv' /\ MissesCounted'
      BY <2>1, <2>3, <2>4 DEF StateInv, MissesCounted, TypeOK
  <2>8. WatchdogInv'
      BY <2>1, <2>3, <2>4 DEF WatchdogInv, Flies, TypeOK
  <2>9. JobsInv'
      BY <2>1, <2>3, <2>4 DEF JobsInv, OwnerInv, TypeOK
  <2>10. QED
      BY <2>5, <2>6, <2>7, <2>8, <2>9
<1>3. CASE Activate(p)
  <2>1. PICK length \in Lengths :
          period' = [period EXCEPT ![p] = [period[p] EXCEPT
                       !.state = "ACTIVE", !.next_length = length, !.timer = length]]
      BY <1>3, Zenon DEF Activate
  <2> DEFINE r == [period[p] EXCEPT !.state = "ACTIVE", !.next_length = length,
                                    !.timer = length]
  <2>2. length \in Nat /\ length # NoTimer
      BY RateMonotonicAssumption DEF RateMonotonicAssumption, NoTimer
  <2>3. /\ r \in PeriodSet /\ r.state = "ACTIVE" /\ r.timer # NoTimer
        /\ r.postponed = period[p].postponed /\ r.stat = period[p].stat
      BY <1>1, <2>2 DEF PeriodSet
  <2> HIDE DEF r
  <2>4. /\ period' \in [Periods -> PeriodSet] /\ period'[p] = r
        /\ \A q \in Periods : q # p => period'[q] = period[q]
      BY <2>1, <2>3, PeriodChange DEF r
  <2>5. /\ pc = "enter" /\ at = p /\ period[p].state = "INACTIVE"
        /\ jobs' = [jobs EXCEPT ![p] = IF raced[p] THEN 0 ELSE 1]
        /\ pc' = "run" /\ at' = Nobody
        /\ UNCHANGED <<exists, flags, arg, ready, lock, cpc, fired, late, raced>>
      BY <1>3 DEF Activate, Entered, Leave, cvars
  <2>6. /\ jobs' \in [Periods -> 0..(MaxPostponed + 1)] /\ (raced[p] \/ jobs'[p] = 1)
        /\ \A q \in Periods : q # p => jobs'[q] = jobs[q]
    <3>1. CASE raced[p]
      <4>1. jobs' = [jobs EXCEPT ![p] = 0]
          BY <2>5, <3>1, Zenon
      <4>2. QED
          BY <4>1, <3>1, RateMonotonicAssumption DEF RateMonotonicAssumption, TypeOK
    <3>2. CASE ~raced[p]
      <4>1. jobs' = [jobs EXCEPT ![p] = 1]
          BY <2>5, <3>2, Zenon
      <4>2. QED
          BY <4>1, RateMonotonicAssumption DEF RateMonotonicAssumption, TypeOK
    <3>3. QED
        BY <3>1, <3>2
  <2>7. TypeOK'
      BY <2>4, <2>5, <2>6 DEF TypeOK, PeriodSet
  <2>8. OwnerInv' /\ TimeoutInv'
      BY <2>5 DEF TypeOK, OwnerInv, TimeoutInv
  <2>9. StateInv' /\ MissesCounted'
      BY <2>3, <2>4, <2>5 DEF StateInv, MissesCounted
  <2>10. WatchdogInv'
      BY <2>3, <2>4, <2>5, RateMonotonicAssumption
         DEF RateMonotonicAssumption, WatchdogInv, Flies
  <2>11. JobsInv'
      BY <2>3, <2>4, <2>5, <2>6, RateMonotonicAssumption
         DEF RateMonotonicAssumption, JobsInv, TypeOK, StateInv, OwnerInv
  <2>12. AssertionsHold'
      BY <1>3, <2>5 DEF Activate, InsertFault, AssertionsHold, StateInv, WatchdogInv
  <2>13. QED
      BY <2>7, <2>8, <2>9, <2>10, <2>11, <2>12
<1>4. CASE Block_while_active(p)
  <2>1. PICK length \in Lengths :
          period' = [period EXCEPT ![p] = [period[p] EXCEPT
                       !.stat = "met", !.next_length = length]]
      BY <1>4, Zenon DEF Block_while_active
  <2> DEFINE r == [period[p] EXCEPT !.stat = "met", !.next_length = length]
  <2>2. /\ r \in PeriodSet /\ r.state = period[p].state /\ r.timer = period[p].timer
        /\ r.postponed = period[p].postponed /\ r.stat = "met"
      BY <1>1 DEF PeriodSet
  <2> HIDE DEF r
  <2>3. /\ period' \in [Periods -> PeriodSet] /\ period'[p] = r
        /\ \A q \in Periods : q # p => period'[q] = period[q]
      BY <2>1, <2>2, PeriodChange DEF r
  <2>4. /\ pc = "enter" /\ at = p /\ lock[p] = Nobody /\ period[p].state = "ACTIVE"
        /\ period[p].postponed = 0
        /\ arg' = p /\ flags' = "INTEND" /\ pc' = "setstate"
        /\ JobCompleted(p)
        /\ UNCHANGED <<exists, at, ready, lock, cpc, fired, raced, fault>>
    <3>1. period[p].postponed \in Nat
        BY <1>1 DEF PeriodSet
    <3>2. QED
        BY <1>4, <3>1 DEF Block_while_active, Entered, Postponed, cvars
  <2>5. flags = "READY" /\ ready
      BY <2>4 DEF OwnerInv
  <2>6. raced[p] \/ jobs[p] = 1
    <3>1. jobs[p] \in Nat
        BY RateMonotonicAssumption DEF RateMonotonicAssumption, TypeOK
    <3>2. raced[p] \/ (/\ 0 = IF jobs[p] > 1 THEN jobs[p] - 1 ELSE 0
                       /\ jobs[p] # 0)
        BY <2>4, <2>5 DEF JobsInv
    <3>3. QED
        BY <3>1, <3>2
  <2>7. /\ jobs' \in [Periods -> 0..(MaxPostponed + 1)]
        /\ late' \in [Periods -> {"none", "met", "missed"}]
        /\ raced[p] \/ (jobs'[p] = 0 /\ late'[p] = "met")
        /\ \A q \in Periods : q # p => jobs'[q] = jobs[q] /\ late'[q] = late[q]
    <3>1. raced[p] \/ jobs[p] > 0
        BY <2>6
    <3>2. /\ jobs' \in [Periods -> 0..(MaxPostponed + 1)]
          /\ late' \in [Periods -> {"none", "met", "missed"}]
          /\ ~raced[p] => jobs'[p] = jobs[p] - 1
          /\ ~raced[p] /\ jobs[p] > 1 => late'[p] = "missed"
          /\ ~raced[p] /\ ~(jobs[p] > 1) => late'[p] = "met"
          /\ \A q \in Periods : q # p => jobs'[q] = jobs[q] /\ late'[q] = late[q]
        BY <2>4, <3>1, Completion
    <3>3. QED
        BY <2>6, <3>2
  <2>8. TypeOK'
      BY <2>3, <2>4, <2>7 DEF TypeOK, PeriodSet
  <2>9. OwnerInv' /\ TimeoutInv'
      BY <2>4, <2>5, RateMonotonicAssumption
         DEF RateMonotonicAssumption, TypeOK, OwnerInv, TimeoutInv
  <2>10. StateInv' /\ MissesCounted' /\ AssertionsHold'
      BY <2>2, <2>3, <2>4, <2>7 DEF StateInv, MissesCounted, AssertionsHold
  <2>11. WatchdogInv'
      BY <2>2, <2>3, <2>4 DEF WatchdogInv, Flies
  <2>12. JobsInv'
      BY <2>2, <2>3, <2>4, <2>5, <2>7 DEF JobsInv
  <2>13. QED
      BY <2>8, <2>9, <2>10, <2>11, <2>12
<1>5. CASE Block_while_expired(p)
  <2>1. PICK length \in Lengths :
          period' = [period EXCEPT ![p] = [period[p] EXCEPT
                       !.stat = "missed", !.state = "ACTIVE",
                       !.next_length = length, !.postponed = @ - 1]]
      BY <1>5, Zenon DEF Block_while_expired
  <2>2. /\ pc = "enter" /\ at = p /\ lock[p] = Nobody /\ period[p].state # "INACTIVE"
        /\ period[p].postponed > 0
        /\ pc' = "run" /\ at' = Nobody
        /\ JobCompleted(p)
        /\ UNCHANGED <<exists, flags, arg, ready, lock, cpc, fired, raced, fault>>
      BY <1>5 DEF Block_while_expired, Entered, Postponed, Leave, StateInv, cvars
  <2> DEFINE r == [period[p] EXCEPT !.stat = "missed", !.state = "ACTIVE",
                                    !.next_length = length, !.postponed = @ - 1]
  <2>3. period[p].postponed \in 1..MaxPostponed
      BY <1>1, <2>2 DEF PeriodSet
  <2>4. period[p].postponed - 1 \in 0..MaxPostponed
      BY <2>3, RateMonotonicAssumption DEF RateMonotonicAssumption
  <2>5. /\ r \in PeriodSet /\ r.state = "ACTIVE" /\ r.timer = period[p].timer
        /\ r.postponed = period[p].postponed - 1 /\ r.stat = "missed"
      BY <1>1, <2>4 DEF PeriodSet
  <2> HIDE DEF r
  <2>6. /\ period' \in [Periods -> PeriodSet] /\ period'[p] = r
        /\ \A q \in Periods : q # p => period'[q] = period[q]
      BY <2>1, <2>5, PeriodChange DEF r
  <2>7. flags = "READY" /\ ready
      BY <2>2 DEF OwnerInv
  <2>8. raced[p] \/ (jobs[p] > 1 /\ period[p].postponed = jobs[p] - 1)
      BY <2>2, <2>3 DEF JobsInv, TypeOK
  <2>9. /\ jobs' \in [Periods -> 0..(MaxPostponed + 1)]
        /\ late' \in [Periods -> {"none", "met", "missed"}]
        /\ raced[p] \/ (jobs'[p] = jobs[p] - 1 /\ late'[p] = "missed")
        /\ \A q \in Periods : q # p => jobs'[q] = jobs[q] /\ late'[q] = late[q]
    <3>1. raced[p] \/ jobs[p] > 0
        BY <2>8 DEF TypeOK
    <3>2. /\ jobs' \in [Periods -> 0..(MaxPostponed + 1)]
          /\ late' \in [Periods -> {"none", "met", "missed"}]
          /\ ~raced[p] => jobs'[p] = jobs[p] - 1
          /\ ~raced[p] /\ jobs[p] > 1 => late'[p] = "missed"
          /\ ~raced[p] /\ ~(jobs[p] > 1) => late'[p] = "met"
          /\ \A q \in Periods : q # p => jobs'[q] = jobs[q] /\ late'[q] = late[q]
        BY <2>2, <3>1, Completion
    <3>3. QED
        BY <2>8, <3>2
  <2>10. TypeOK'
      BY <2>2, <2>6, <2>9 DEF TypeOK, PeriodSet
  <2>11. OwnerInv' /\ TimeoutInv'
      BY <2>2, <2>7 DEF TypeOK, OwnerInv, TimeoutInv
  <2>12. StateInv' /\ MissesCounted' /\ AssertionsHold'
      BY <2>2, <2>5, <2>6, <2>9 DEF StateInv, MissesCounted, AssertionsHold
  <2>13. WatchdogInv'
      BY <2>2, <2>5, <2>6, RateMonotonicAssumption
         DEF RateMonotonicAssumption, WatchdogInv, Flies
  <2>14. JobsInv'
      BY <2>2, <2>5, <2>6, <2>7, <2>8, <2>9, RateMonotonicAssumption
         DEF RateMonotonicAssumption, JobsInv, TypeOK
  <2>15. QED
      BY <2>10, <2>11, <2>12, <2>13, <2>14
<1>6. QED
    BY <1>2, <1>3, <1>4, <1>5


(* A cancellation or deletion; it races when the owner or a timeout is in   *)
(* the middle of using the period.                                          *)
LEMMA CancelChange ==
    ASSUME IInv, NEW p \in Periods, Cancel(p) \/ Delete(p)
    PROVE  IInv'
<1> USE DEF IInv
<1>1. PICK race \in BOOLEAN :
        /\ JobsDropped(p, race)
        /\ ~race => \A c \in CPUs : ~Flies(c, p)
        /\ Delete(p) /\ ~race => at # p
  <2>1. CASE Cancel(p) /\ ~Delete(p)
    <3>1. InFlight(p) \in BOOLEAN /\ JobsDropped(p, InFlight(p))
        BY <2>1 DEF Cancel, InFlight
    <3>2. QED
        BY <2>1, <3>1 DEF InFlight, Flies
  <2>2. CASE Delete(p)
    <3>1. /\ (InFlight(p) \/ Inside(p)) \in BOOLEAN
          /\ JobsDropped(p, InFlight(p) \/ Inside(p))
        BY <2>2 DEF Delete, InFlight, Inside
    <3>2. ~Inside(p) => at # p
        BY RateMonotonicAssumption DEF RateMonotonicAssumption, Inside, OwnerInv
    <3>3. QED
        BY <3>1, <3>2 DEF InFlight, Flies
  <2>3. QED
      BY <2>1, <2>2
<1>2. /\ raced' \in [Periods -> BOOLEAN] /\ (race => raced'[p])
      /\ ~race => raced'[p] = raced[p]
      /\ jobs' \in [Periods -> 0..(MaxPostponed + 1)] /\ jobs'[p] = 0
      /\ late' \in [Periods -> {"none", "met", "missed"}]
      /\ race \/ late'[p] = late[p]
      /\ \A q \in Periods : q # p =>
           raced'[q] = raced[q] /\ jobs'[q] = jobs[q] /\ late'[q] = late[q]
    BY <1>1, Dropping
<1>3. period[p] \in PeriodSet
    BY DEF TypeOK, PeriodSet
<1> DEFINE r == Cancelled(period[p])
<1>4. /\ r \in PeriodSet /\ r.state = "INACTIVE" /\ r.timer = NoTimer
      /\ r.postponed = 0 /\ r.stat = period[p].stat
    BY <1>3, CancelledPeriod
<1>5. period' = [period EXCEPT ![p] = r]
    BY Zenon DEF Cancel, Delete
<1> HIDE DEF r
<1>6. /\ period' \in [Periods -> PeriodSet] /\ period'[p] = r
      /\ \A q \in Periods : q # p => period'[q] = period[q]
    BY <1>4, <1>5, PeriodChange
<1>7. /\ lock[p] = Nobody
      /\ \/ /\ pc = "enter" /\ at = p /\ pc' = "run" /\ at' = Nobody
            /\ UNCHANGED exists
         \/ /\ exists[p] /\ exists' = [exists EXCEPT ![p] = FALSE] /\ UNCHANGED <<pc, at>>
            /\ ~race => at # p
      /\ UNCHANGED <<flags, arg, ready, lock, cpc, fired, fault>>
    BY <1>1 DEF Cancel, Delete, Entered, Leave, ovars, cvars
<1>8. TypeOK'
    BY <1>2, <1>6, <1>7 DEF TypeOK, PeriodSet
<1>9. OwnerInv' /\ TimeoutInv'
    BY <1>7 DEF TypeOK, OwnerInv, TimeoutInv
<1>10. StateInv'
    BY <1>4, <1>6 DEF StateInv
<1>11. MissesCounted' /\ AssertionsHold'
    BY <1>2, <1>4, <1>6, <1>7 DEF MissesCounted, AssertionsHold
<1>12. WatchdogInv'
  <2> SUFFICES ASSUME NEW q \in Periods, ~raced'[q]
               PROVE  /\ period'[q].state # "INACTIVE" <=>
                           period'[q].timer # NoTimer \/ \E c \in CPUs : Flies(c, q)'
                      /\ \A c \in CPUs : Flies(c, q)' => period'[q].timer = NoTimer
                      /\ \A c, d \in CPUs : Flies(c, q)' /\ Flies(d, q)' => c = d
                      /\ ~exists'[q] => period'[q].state = "INACTIVE" /\ at' # q
      BY DEF WatchdogInv
  <2>1. \A c \in CPUs : Flies(c, q)' <=> Flies(c, q)
      BY <1>7 DEF Flies
  <2>2. CASE q = p
      BY <1>1, <1>2, <1>4, <1>6, <1>7, <2>1, <2>2, RateMonotonicAssumption
         DEF RateMonotonicAssumption, WatchdogInv
  <2>3. CASE q # p
      BY <1>2, <1>6, <1>7, <2>1, <2>3, RateMonotonicAssumption
         DEF RateMonotonicAssumption, WatchdogInv, TypeOK
  <2>4. QED
      BY <2>2, <2>3
<1>13. JobsInv'
  <2> SUFFICES ASSUME NEW q \in Periods, ~raced'[q]
               PROVE  /\ period'[q].postponed = IF jobs'[q] > 1 THEN jobs'[q] - 1 ELSE 0
                      /\ period'[q].state = "INACTIVE" => jobs'[q] = 0
                      /\ period'[q].state # "INACTIVE" =>
                           (jobs'[q] = 0 <=> flags' # "READY" /\ at' = q)
                      /\ flags' # "READY" /\ at' = q => period'[q].state = "ACTIVE"
      BY DEF JobsInv
  <2>1. CASE q = p
    <3>1. at' # p
        BY <1>2, <1>7, <2>1, RateMonotonicAssumption DEF RateMonotonicAssumption
    <3>2. QED
        BY <1>2, <1>4, <1>6, <2>1, <3>1
  <2>2. CASE q # p
    <3>1. flags' # "READY" /\ at' = q <=> flags # "READY" /\ at = q
        BY <1>7, <2>2, RateMonotonicAssumption DEF RateMonotonicAssumption
    <3>2. QED
        BY <1>2, <1>6, <2>2, <3>1 DEF JobsInv
  <2>3. QED
      BY <2>1, <2>2
<1>14. QED
    BY <1>8, <1>9, <1>10, <1>11, <1>12, <1>13

(* Statistics, the clock tick and the expiration of a watchdog *)
LEMMA ClockChange ==
    ASSUME IInv,
           \/ \E p \in Periods : Reset_statistics(p)
           \/ Tick
           \/ \E c \in CPUs, p \in Periods : Fire(c, p)
    PROVE  IInv'
<1> USE DEF IInv
<1>1. ASSUME NEW p \in Periods, Reset_statistics(p) PROVE IInv'
  <2>1. period[p] \in PeriodSet
      BY DEF TypeOK, PeriodSet
  <2> DEFINE r == [period[p] EXCEPT !.stat = "none"]
  <2>2. /\ r \in PeriodSet /\ r.state = period[p].state /\ r.timer = period[p].timer
        /\ r.postponed = period[p].postponed /\ r.stat = "none"
      BY <2>1 DEF PeriodSet
  <2>3. period' = [period EXCEPT ![p] = r]
      BY <1>1, Zenon DEF Reset_statistics
  <2> HIDE DEF r
  <2>4. /\ period' \in [Periods -> PeriodSet] /\ period'[p] = r
        /\ \A q \in Periods : q # p => period'[q] = period[q]
      BY <2>2, <2>3, PeriodChange
  <2>5. /\ late' = [late EXCEPT ![p] = "none"]
        /\ UNCHANGED <<exists, pc, at, flags, arg, ready, lock, cpc, fired, jobs, raced,
                       fault>>
      BY <1>1 DEF Reset_statistics, ovars, cvars
  <2>6. TypeOK'
      BY <2>4, <2>5 DEF TypeOK, PeriodSet
  <2>7. OwnerInv' /\ TimeoutInv' /\ AssertionsHold'
      BY <2>5 DEF OwnerInv, TimeoutInv, AssertionsHold
  <2>8. StateInv' /\ MissesCounted'
      BY <2>2, <2>4, <2>5 DEF StateInv, MissesCounted, TypeOK
  <2>9. WatchdogInv' /\ JobsInv'
      BY <2>2, <2>4, <2>5 DEF WatchdogInv, Flies, JobsInv
  <2>10. QED
      BY <2>6, <2>7, <2>8, <2>9
<1>2. CASE Tick
  <2>1. /\ period' \in [Periods -> PeriodSet]
        /\ \A q \in Periods :
             /\ period'[q].state = period[q].state
             /\ period'[q].postponed = period[q].postponed
             /\ period'[q].stat = period[q].stat
             /\ period'[q].timer = NoTimer <=> period[q].timer = NoTimer
    <3> DEFINE n(q) == IF period[q].timer = NoTimer THEN NoTimer
                       ELSE period[q].timer - 1
    <3>1. \A q \in Periods : period[q] \in PeriodSet
        BY DEF TypeOK, PeriodSet
    <3>2. \A q \in Periods : /\ n(q) \in Nat \cup {NoTimer}
                             /\ n(q) = NoTimer <=> period[q].timer = NoTimer
      <4> SUFFICES ASSUME NEW q \in Periods
                   PROVE  /\ n(q) \in Nat \cup {NoTimer}
                          /\ n(q) = NoTimer <=> period[q].timer = NoTimer
          OBVIOUS
      <4>1. period[q].timer \in Nat \cup {NoTimer} /\ period[q].timer # 0
          BY <1>2, <3>1 DEF Tick, Due, PeriodSet
      <4> HIDE DEF n
      <4>2. QED
          BY <4>1 DEF NoTimer, n
    <3>3. period' = [q \in Periods |-> [period[q] EXCEPT !.timer = n(q)]]
        BY <1>2 DEF Tick
    <3> HIDE DEF n
    <3>4. QED
        BY <3>1, <3>2, <3>3 DEF PeriodSet
  <2>2. UNCHANGED <<exists, pc, at, flags, arg, ready, lock, cpc, fired, jobs, late,
                    raced, fault>>
      BY <1>2 DEF Tick, ovars, cvars, hvars
  <2>3. TypeOK'
      BY <2>1, <2>2 DEF TypeOK, PeriodSet
  <2>4. OwnerInv' /\ TimeoutInv' /\ AssertionsHold'
      BY <2>2 DEF OwnerInv, TimeoutInv, AssertionsHold
  <2>5. StateInv' /\ MissesCounted'
      BY <2>1, <2>2 DEF StateInv, MissesCounted
  <2>6. WatchdogInv' /\ JobsInv'
      BY <2>1, <2>2 DEF WatchdogInv, Flies, JobsInv
  <2>7. QED
      BY <2>3, <2>4, <2>5, <2>6
<1>3. ASSUME NEW c \in CPUs, NEW p \in Periods, Fire(c, p) PROVE IInv'
  <2>1. period[p] \in PeriodSet /\ period[p].timer = 0 /\ cpc[c] = "idle"
      BY <1>3 DEF TypeOK, PeriodSet, Fire, Due
  <2> DEFINE r == [period[p] EXCEPT !.timer = NoTimer]
  <2>2. /\ r \in PeriodSet /\ r.state = period[p].state /\ r.timer = NoTimer
        /\ r.postponed = period[p].postponed /\ r.stat = period[p].stat
      BY <2>1 DEF PeriodSet
  <2>3. period' = [period EXCEPT ![p] = r]
      BY <1>3, Zenon DEF Fire
  <2> HIDE DEF r
  <2>4. /\ period' \in [Periods -> PeriodSet] /\ period'[p] = r
        /\ \A q \in Periods : q # p => period'[q] = period[q]
      BY <2>2, <2>3, PeriodChange
  <2>5. /\ cpc' = [cpc EXCEPT ![c] = "fired"] /\ fired' = [fired EXCEPT ![c] = p]
        /\ UNCHANGED <<exists, pc, at, flags, arg, ready, lock, jobs, late, raced, fault>>
      BY <1>3 DEF Fire, ovars, hvars
  <2>6. TypeOK'
      BY <2>4, <2>5 DEF TypeOK, PeriodSet
  <2>7. OwnerInv' /\ TimeoutInv' /\ AssertionsHold'
      BY <2>1, <2>5, RateMonotonicAssumption
         DEF RateMonotonicAssumption, TypeOK, OwnerInv, TimeoutInv, AssertionsHold
  <2>8. StateInv' /\ MissesCounted' /\ JobsInv'
      BY <2>2, <2>4, <2>5 DEF StateInv, MissesCounted, JobsInv
  <2>9. \A d \in CPUs, q \in Periods :
          Flies(d, q)' <=> Flies(d, q) \/ (d = c /\ q = p)
      BY <2>1, <2>5, RateMonotonicAssumption
         DEF RateMonotonicAssumption, Flies, TypeOK, TimeoutInv
  <2>10. WatchdogInv'
      BY <2>1, <2>2, <2>4, <2>5, <2>9 DEF WatchdogInv, NoTimer
  <2>11. QED
      BY <2>6, <2>7, <2>8, <2>10
<1>4. QED
    BY <1>1, <1>2, <1>3


(* The timeout routine of an expired watchdog *)
LEMMA TimeoutChange ==
    ASSUME IInv, NEW c \in CPUs, TimeoutRestart(c) \/ TimeoutRenew(c)
    PROVE  IInv'
<1> USE DEF IInv
<1>1. fired[c] \in Periods /\ Flies(c, fired[c])
  <2>1. cpc[c] \in {"fired", "looked"}
      BY DEF TimeoutRestart, TimeoutRenew
  <2>2. QED
      BY <2>1 DEF TypeOK, TimeoutInv, Flies
<1>2. PICK p \in Periods : p = fired[c]
    BY <1>1
<1>3. period[p] \in PeriodSet /\ period[p].next_length \in Nat
  <2>1. period[p] \in PeriodSet /\ period[p].next_length \in Lengths \cup {0}
      BY DEF TypeOK, PeriodSet
  <2>2. QED
      BY <2>1, LengthsNat, Zenon
<1>4. JobReleased(p)
    BY <1>2 DEF TimeoutRestart, TimeoutRenew
<1>5. /\ jobs' \in [Periods -> 0..(MaxPostponed + 1)]
      /\ raced[p] \/ jobs'[p] = IF jobs[p] > MaxPostponed THEN jobs[p] ELSE jobs[p] + 1
      /\ \A q \in Periods : q # p => jobs'[q] = jobs[q]
    BY <1>4, Release
<1>6. raced[p] \/ (period[p].timer = NoTimer /\ period[p].state # "INACTIVE")
    BY <1>1, <1>2 DEF WatchdogInv
<1>7. CASE TimeoutRestart(c)
  <2> DEFINE r == [period[p] EXCEPT !.timer = period[p].next_length]
  <2>1. /\ r \in PeriodSet /\ r.state = period[p].state
        /\ r.timer = period[p].next_length
        /\ r.postponed = period[p].postponed /\ r.stat = period[p].stat
      BY <1>3 DEF PeriodSet
  <2>2. period' = [period EXCEPT ![p] = r]
      BY <1>2, <1>7, Zenon DEF TimeoutRestart
  <2> HIDE DEF r
  <2>3. /\ period' \in [Periods -> PeriodSet] /\ period'[p] = r
        /\ \A q \in Periods : q # p => period'[q] = period[q]
      BY <2>1, <2>2, PeriodChange
  <2>4. /\ cpc[c] = "looked" /\ flags' = "READY"
        /\ lock' = [lock EXCEPT ![p] = Nobody]
        /\ \/ /\ flags # "INTEND" /\ cpc' = [cpc EXCEPT ![c] = "unblock"]
              /\ UNCHANGED fired
           \/ /\ flags = "INTEND" /\ cpc' = [cpc EXCEPT ![c] = "idle"]
              /\ fired' = [fired EXCEPT ![c] = Nobody]
        /\ UNCHANGED <<exists, pc, at, arg, ready, late, raced>>
      BY <1>2, <1>7 DEF TimeoutRestart
  <2>5. fault' = fault \/ raced[p]
    <3>1. flags # "READY"
        BY <2>4 DEF TimeoutInv
    <3>2. fault' = InsertFault(p)
        BY <1>2, <1>7, <3>1 DEF TimeoutRestart, TypeOK
    <3>3. QED
        BY <1>6, <3>2 DEF InsertFault
  <2>6. at = p /\ flags # "READY" /\ arg = Nobody /\ lock[p] = c
      BY <1>2, <2>4 DEF TimeoutInv
  <2>7. TypeOK'
      BY <1>5, <2>3, <2>4 DEF TypeOK, PeriodSet
  <2>8. OwnerInv'
      BY <2>4, <2>6 DEF TypeOK, OwnerInv
  <2>9. TimeoutInv'
    <3>1. \A d \in CPUs : /\ cpc[d] # "unblock" /\ (cpc[d] = "looked" => d = c)
                          /\ d # c => cpc'[d] = cpc[d] /\ fired'[d] = fired[d]
        BY <2>4, <2>6 DEF TypeOK, TimeoutInv
    <3>2. \A q \in Periods : lock'[q] = Nobody
        BY <1>2, <2>4, <2>6, <3>1, RateMonotonicAssumption
           DEF RateMonotonicAssumption, TypeOK, TimeoutInv
    <3>3. /\ \A d \in CPUs : fired'[d] = Nobody <=> cpc'[d] = "idle"
          /\ \A d \in CPUs : cpc'[d] # "looked" /\ (cpc'[d] = "unblock" => d = c)
        BY <1>1, <2>4, <3>1, RateMonotonicAssumption
           DEF RateMonotonicAssumption, TypeOK, TimeoutInv
    <3>4. cpc'[c] = "unblock" => pc = "wait" /\ ~ready
        BY <2>4, <2>6 DEF TypeOK, OwnerInv
    <3>5. QED
        BY <2>4, <3>2, <3>3, <3>4 DEF TimeoutInv
  <2>10. StateInv' /\ MissesCounted'
      BY <2>1, <2>3, <2>4 DEF StateInv, MissesCounted
  <2>11. AssertionsHold'
      BY <2>4, <2>5 DEF AssertionsHold
  <2>12. \A d \in CPUs, q \in Periods : Flies(d, q)' <=> Flies(d, q) /\ d # c
      BY <1>2, <2>4, RateMonotonicAssumption
         DEF RateMonotonicAssumption, TypeOK, Flies
  <2>13. WatchdogInv'
      BY <1>1, <1>2, <1>3, <1>6, <2>1, <2>3, <2>4, <2>12 DEF WatchdogInv, Flies, NoTimer
  <2>14. JobsInv'
    <3>1. raced[p] \/ (/\ period[p].state = "ACTIVE" /\ jobs[p] = 0
                       /\ period[p].postponed = 0)
        BY <2>6 DEF JobsInv
    <3>2. raced[p] \/ jobs'[p] = 1
        BY <1>5, <3>1, RateMonotonicAssumption DEF RateMonotonicAssumption
    <3>3. \A q \in Periods : q # p => at # q
        BY <2>6
    <3>4. QED
        BY <1>5, <2>1, <2>3, <2>4, <2>6, <3>1, <3>2, <3>3 DEF JobsInv
  <2>15. QED
      BY <2>7, <2>8, <2>9, <2>10, <2>11, <2>13, <2>14
<1>8. CASE TimeoutRenew(c)
  <2> DEFINE r == Renewed(period[p])
  <2>1. /\ r \in PeriodSet /\ r.state = "EXPIRED"
        /\ r.timer = period[p].next_length
        /\ r.postponed = (IF period[p].postponed = MaxPostponed THEN MaxPostponed
                          ELSE period[p].postponed + 1)
        /\ r.stat = period[p].stat
      BY <1>3, RenewedPeriod
  <2>2. period' = [period EXCEPT ![p] = r]
      BY <1>2, <1>8, Zenon DEF TimeoutRenew
  <2> HIDE DEF r
  <2>3. /\ period' \in [Periods -> PeriodSet] /\ period'[p] = r
        /\ \A q \in Periods : q # p => period'[q] = period[q]
      BY <2>1, <2>2, PeriodChange
  <2>4. /\ cpc[c] = "fired" /\ lock[p] = Nobody /\ ~WaitsFor(p)
        /\ cpc' = [cpc EXCEPT ![c] = "idle"] /\ fired' = [fired EXCEPT ![c] = Nobody]
        /\ UNCHANGED <<exists, lock, pc, at, flags, arg, ready, late, raced>>
      BY <1>2, <1>8 DEF TimeoutRenew, ovars
  <2>5. fault' = fault \/ raced[p]
      BY <1>2, <1>6, <1>8 DEF TimeoutRenew, InsertFault
  <2>6. ~(flags # "READY" /\ at = p)
      BY <2>4 DEF WaitsFor, OwnerInv, TimeoutInv
  <2>7. TypeOK'
      BY <1>5, <2>3, <2>4 DEF TypeOK, PeriodSet
  <2>8. OwnerInv' /\ TimeoutInv'
      BY <1>2, <2>4, RateMonotonicAssumption
         DEF RateMonotonicAssumption, TypeOK, OwnerInv, TimeoutInv
  <2>9. period[p].postponed \in 0..MaxPostponed /\ MaxPostponed \in Nat \ {0}
      BY <1>3, RateMonotonicAssumption DEF RateMonotonicAssumption, PeriodSet
  <2>10. StateInv'
    <3>1. r.postponed > 0
        BY <2>1, <2>9
    <3>2. QED
        BY <2>1, <2>3, <3>1 DEF StateInv
  <2>11. MissesCounted'
      BY <2>1, <2>3, <2>4 DEF MissesCounted
  <2>12. AssertionsHold'
      BY <2>4, <2>5 DEF AssertionsHold
  <2>13. \A d \in CPUs, q \in Periods : Flies(d, q)' <=> Flies(d, q) /\ d # c
      BY <1>2, <2>4, RateMonotonicAssumption
         DEF RateMonotonicAssumption, TypeOK, Flies
  <2>14. WatchdogInv'
      BY <1>1, <1>2, <1>3, <1>6, <2>1, <2>3, <2>4, <2>13 DEF WatchdogInv, Flies, NoTimer
  <2>15. JobsInv'
    <3>1. jobs[p] \in 0..(MaxPostponed + 1)
        BY DEF TypeOK
    <3>2. raced[p] \/ (/\ jobs[p] # 0
                       /\ period[p].postponed = IF jobs[p] > 1 THEN jobs[p] - 1 ELSE 0)
        BY <1>6, <2>6 DEF JobsInv
    <3>3. raced[p] \/ (/\ jobs'[p] > 1
                       /\ r.postponed = jobs'[p] - 1)
      <4>1. CASE jobs[p] > MaxPostponed /\ ~raced[p]
        <5>1. jobs'[p] = jobs[p] /\ jobs[p] = MaxPostponed + 1
            BY <1>5, <2>9, <3>1, <4>1
        <5>2. QED
            BY <2>1, <2>9, <3>1, <3>2, <4>1, <5>1
      <4>2. CASE ~(jobs[p] > MaxPostponed) /\ ~raced[p]
        <5>1. jobs'[p] = jobs[p] + 1
            BY <1>5, <4>2
        <5>2. QED
            BY <2>1, <2>9, <3>1, <3>2, <4>2, <5>1
      <4>3. QED
          BY <4>1, <4>2
    <3>4. QED
        BY <1>5, <2>1, <2>3, <2>4, <2>6, <3>3 DEF JobsInv
  <2>16. QED
      BY <2>7, <2>8, <2>10, <2>11, <2>12, <2>14, <2>15
<1>9. QED
    BY <1>7, <1>8

(* The invariant holds at the start, ... *)
LEMMA IInvInit == Init => IInv
<1> SUFFICES ASSUME Init PROVE IInv
    OBVIOUS
<1> USE RateMonotonicAssumption DEF RateMonotonicAssumption, Init
<1>1. NewPeriod(0) \in PeriodSet
    BY DEF NewPeriod, PeriodSet
<1>2. TypeOK
    BY <1>1 DEF TypeOK, PeriodSet
<1>3. OwnerInv /\ TimeoutInv /\ MissesCounted /\ AssertionsHold
    BY DEF OwnerInv, TimeoutInv, MissesCounted, AssertionsHold, NewPeriod
<1>4. StateInv /\ WatchdogInv /\ JobsInv
    BY DEF StateInv, WatchdogInv, Flies, JobsInv, NewPeriod
<1>5. QED
    BY <1>2, <1>3, <1>4 DEF IInv

(* ... every step keeps it, ... *)
LEMMA IInvNext == IInv /\ [Next]_vars => IInv'
<1> SUFFICES ASSUME IInv, [Next]_vars PROVE IInv'
    OBVIOUS
<1>1. CASE UNCHANGED vars
    BY <1>1 DEF vars, ovars, cvars, hvars, IInv, TypeOK, OwnerInv, TimeoutInv,
           StateInv, WatchdogInv, Flies, JobsInv, MissesCounted, AssertionsHold
<1>2. CASE Runs
    BY <1>2, QuietStep, OwnerChange, CancelChange, ClockChange, TimeoutChange
       DEF Runs, OwnerStep, Blocking, Timeout
<1>3. QED
    BY <1>1, <1>2 DEF Next, Halted

(* ... and so it always holds. *)
LEMMA IInvHolds == Spec => []IInv
BY IInvInit, IInvNext, PTL DEF Spec

-----------------------------------------------------------------------------
(* The theorems *)

(* Types: the counter of postponed jobs never leaves the range of its       *)
(* uint32_t, at its maximum or when a postponed job is taken off it, and the *)
(* jobs accounted for never exceed what it can count.                       *)
THEOREM TypeCorrect == Spec => []TypeOK
BY IInvHolds, PTL DEF IInv

(* rtems_rate_monotonic_period and the timeouts lose no job and do none     *)
(* twice, whatever the order of completions and expirations.                *)
THEOREM JobsNeverLost == Spec => []JobsConserved
<1>1. IInv => JobsConserved
    BY DEF IInv, JobsInv, StateInv, JobsConserved
<1>2. QED
    BY <1>1, IInvHolds, PTL

(* The missed_count of the statistics goes up exactly for the jobs that     *)
(* complete after their deadline.                                           *)
THEOREM MissesAreCounted == Spec => []MissesCounted
BY IInvHolds, PTL DEF IInv

(* A period that is not inactive has a running watchdog or an expiration on *)
(* its way to _Rate_monotonic_Timeout; an inactive one has neither.         *)
THEOREM WatchdogRuns == Spec => []WatchdogMatchesState
<1>1. IInv => WatchdogMatchesState
    BY DEF IInv, WatchdogInv, WatchdogMatchesState, InFlight, Flies
<1>2. QED
    BY <1>1, IInvHolds, PTL

(* The assertions of ratemonperiod.c, ratemontimeout.c and the watchdogs    *)
(* hold as long as no period is cancelled or deleted while a timeout of it  *)
(* is on its way or the owner is inside a call on it.                       *)
THEOREM AssertionsNeverFail == Spec => []AssertionsHold
BY IInvHolds, PTL DEF IInv
=============================================================================
