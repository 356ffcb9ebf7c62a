---------------------------- MODULE RateMonotonic ----------------------------
(***************************************************************************)
(* The rate monotonic periods of the RTEMS classic API on SMP:             *)
(* rtems_rate_monotonic_create, _period, _cancel, _delete and              *)
(* _reset_statistics against the timeout routine of the period's watchdog  *)
(* (ratemonperiod.c, ratemontimeout.c, ratemoncancel.c, ratemondelete.c).  *)
(*                                                                         *)
(* A task owns the periods.  It waits for at most one of them at a time    *)
(* while the watchdogs of all of them go on expiring, on processors other  *)
(* than its own.  An expiration is first extracted from the watchdog tree, *)
(* then handled under the period's lock: Cancel and Delete can slip in     *)
(* between, and so can a deletion by another task between the owner's      *)
(* lookup of the period and its acquisition of the lock.                   *)
(*                                                                         *)
(* An atomic step is a section under a lock or a single access to the wait *)
(* flags.  Left out: the priority a released job gets from the scheduler,  *)
(* the deadline passed to it, and the wall and CPU times of the statistics,*)
(* of whose counts stat keeps what the last completion added: nothing yet, *)
(* a period met, or a period missed.                                       *)
(***************************************************************************)
EXTENDS Integers

CONSTANTS
    Periods,      \* the owner's periods
    CPUs,         \* processors whose clock tick runs expired watchdogs
    Lengths,      \* period lengths in ticks
    MaxPostponed, \* UINT32_MAX, where postponed_jobs stays (scaled down)
    Nobody        \* no period, no lock holder

NoTimer == -1 \* WATCHDOG_INACTIVE

ASSUME RateMonotonicAssumption ==
    /\ Nobody \notin Periods /\ Nobody \notin CPUs
    /\ Lengths \subseteq Nat \ {0} /\ Lengths # {}
    /\ MaxPostponed \in Nat \ {0}

VARIABLES
    exists,  \* the identifier of the period is valid
    period,  \* Rate_monotonic_Control
    lock,    \* the processor whose timeout routine holds the period's lock
    pc, at,  \* control point of the owner and the period it works on
    flags,   \* Wait.flags: "READY", "INTEND" or "BLOCKED" (class period)
    arg,     \* Wait.return_argument
    ready,   \* the owner's current_state is STATES_READY
    cpc, fired, \* control point of a processor's timeout, its period
    jobs,    \* history: jobs released (or running) and not yet completed
    late,    \* history: whether the last completion was past the job's deadline
    raced,   \* history: the period was cancelled or deleted in mid-use
    fault    \* an assertion of the code does not hold

ovars == <<pc, at, flags, arg, ready>>
cvars == <<lock, cpc, fired>>
hvars == <<jobs, late, raced>>
vars == <<exists, period, ovars, cvars, hvars, fault>>

(* What rtems_rate_monotonic_create sets; next_length keeps what the object *)
(* held before, 0 for one that was never used.                              *)
NewPeriod(length) ==
    [state |-> "INACTIVE", postponed |-> 0, next_length |-> length,
     timer |-> NoTimer, stat |-> "none"]

Init ==
    /\ exists = [p \in Periods |-> FALSE]
    /\ period = [p \in Periods |-> NewPeriod(0)]
    /\ lock = [p \in Periods |-> Nobody]
    /\ pc = "run" /\ at = Nobody
    /\ flags = "READY" /\ arg = Nobody /\ ready = TRUE
    /\ cpc = [c \in CPUs |-> "idle"]
    /\ fired = [c \in CPUs |-> Nobody]
    /\ jobs = [p \in Periods |-> 0]
    /\ late = [p \in Periods |-> "none"]
    /\ raced = [p \in Periods |-> FALSE]
    /\ fault = "none"

(* An expiration of p is extracted from the tree and not handled yet. *)
InFlight(p) == \E c \in CPUs : cpc[c] \in {"fired", "looked"} /\ fired[c] = p

(* The owner is inside a call on p, or waits for it. *)
Inside(p) == pc # "run" /\ at = p

-----------------------------------------------------------------------------
(* Operations of the owner *)

Create(p) ==
    /\ pc = "run" /\ ~exists[p]
    /\ exists' = [exists EXCEPT ![p] = TRUE]
    /\ period' = [period EXCEPT ![p] = NewPeriod(@.next_length)]
    /\ jobs' = [jobs EXCEPT ![p] = 0]
    /\ late' = [late EXCEPT ![p] = "none"]
    /\ UNCHANGED <<ovars, cvars, raced, fault>>

(* _Rate_monotonic_Get succeeds and the caller is the owner: it will now    *)
(* acquire the lock, without looking at the identifier again.               *)
Enter(p) ==
    /\ pc = "run" /\ exists[p]
    /\ pc' = "enter" /\ at' = p
    /\ UNCHANGED <<exists, period, flags, arg, ready, cvars, hvars, fault>>

Entered(p) == pc = "enter" /\ at = p /\ lock[p] = Nobody

Leave == pc' = "run" /\ at' = Nobody

(* _Watchdog_Per_CPU_insert_ticks asserts that the watchdog is inactive. *)
InsertFault(p) ==
    IF period[p].timer = NoTimer THEN fault ELSE "inserted twice"

(* _Rate_monotonic_Activate: the first job starts. *)
Activate(p) ==
    /\ Entered(p) /\ period[p].state = "INACTIVE"
    /\ \E length \in Lengths :
         period' = [period EXCEPT ![p].state = "ACTIVE",
                                  ![p].next_length = length,
                                  ![p].timer = length]
    /\ fault' = IF period[p].postponed = 0 THEN InsertFault(p)
                ELSE "activated with postponed jobs"
    /\ jobs' = [jobs EXCEPT ![p] = IF raced[p] THEN 0 ELSE 1]
    /\ Leave
    /\ UNCHANGED <<exists, flags, arg, ready, cvars, late, raced>>

(* rtems_rate_monotonic_period does not block: the deadline of the job that *)
(* completes has passed, or jobs released after it are still to be done.    *)
Postponed_activeonly(p) == period[p].state = "EXPIRED" \* mutant: backlog ignored
Postponed(p) ==
    \/ period[p].state = "EXPIRED"
    \/ period[p].state = "ACTIVE" /\ period[p].postponed > 0

(* The histories are kept while the period has not raced. *)
JobCompleted(p) ==
    IF raced[p] THEN UNCHANGED <<jobs, late>>
    ELSE /\ jobs' = [jobs EXCEPT ![p] = @ - 1]
         /\ late' = [late EXCEPT ![p] = IF jobs[p] > 1 THEN "missed" ELSE "met"]

(* _Rate_monotonic_Block_while_active, up to the release of the lock *)
Block_while_active(p) ==
    /\ Entered(p) /\ period[p].state = "ACTIVE" /\ ~Postponed(p)
    /\ \E length \in Lengths :
         period' = [period EXCEPT ![p].stat = "met",
                                  ![p].next_length = length]
    /\ arg' = p
    /\ flags' = "INTEND"
    /\ pc' = "setstate"
    /\ JobCompleted(p)
    /\ UNCHANGED <<exists, at, ready, cvars, raced, fault>>

(* _Rate_monotonic_Block_while_expired: the next postponed job starts. *)
Block_while_expired(p) ==
    /\ Entered(p) /\ Postponed(p)
    /\ \E length \in Lengths :
         period' = [period EXCEPT ![p].stat = "missed",
                                  ![p].state = "ACTIVE",
                                  ![p].next_length = length,
                                  ![p].postponed = @ - 1]
    /\ JobCompleted(p)
    /\ Leave
    /\ UNCHANGED <<exists, flags, arg, ready, cvars, raced, fault>>

(* _Thread_Set_state( STATES_WAITING_FOR_PERIOD ) *)
SetState ==
    /\ pc = "setstate"
    /\ ready' = FALSE /\ pc' = "tryblock"
    /\ UNCHANGED <<exists, period, at, flags, arg, cvars, hvars, fault>>

(* _Thread_Wait_flags_try_change_acquire( INTEND_TO_BLOCK, BLOCKED ) *)
TryBlock_fallsthrough == \* mutant: a failed change is taken for a success
    /\ pc = "tryblock" /\ pc' = "wait"
    /\ flags' = IF flags = "INTEND" THEN "BLOCKED" ELSE flags
    /\ UNCHANGED <<exists, period, at, arg, ready, cvars, hvars, fault>>
TryBlock ==
    /\ pc = "tryblock"
    /\ \/ flags = "INTEND" /\ flags' = "BLOCKED" /\ pc' = "wait"
       \/ flags # "INTEND" /\ UNCHANGED flags /\ pc' = "self"
    /\ UNCHANGED <<exists, period, at, arg, ready, cvars, hvars, fault>>

(* The timeout came first: the owner cancels its blocking. *)
SelfUnblock ==
    /\ pc = "self"
    /\ ready' = TRUE
    /\ fault' = IF flags = "READY" THEN fault ELSE "flags not ready"
    /\ Leave
    /\ UNCHANGED <<exists, period, flags, arg, cvars, hvars>>

(* Dispatched again: the call returns and the job runs. *)
Resume ==
    /\ pc = "wait" /\ ready
    /\ Leave
    /\ UNCHANGED <<exists, period, flags, arg, ready, cvars, hvars, fault>>

(* _Rate_monotonic_Cancel, the part under the lock *)
Cancelled_backlog(r) == \* mutant: postponed jobs survive
    [r EXCEPT !.timer = NoTimer, !.state = "INACTIVE"]
Cancelled(r) ==
    [r EXCEPT !.timer = NoTimer, !.postponed = 0, !.state = "INACTIVE"]

JobsDropped(p, race) ==
    /\ raced' = [raced EXCEPT ![p] = @ \/ race]
    /\ jobs' = [jobs EXCEPT ![p] = 0]
    /\ late' = [late EXCEPT ![p] = IF race THEN "none" ELSE @]

(* rtems_rate_monotonic_cancel by the owner *)
Cancel(p) ==
    /\ Entered(p)
    /\ period' = [period EXCEPT ![p] = Cancelled(@)]
    /\ JobsDropped(p, InFlight(p))
    /\ Leave
    /\ UNCHANGED <<exists, flags, arg, ready, cvars, fault>>

-----------------------------------------------------------------------------
(* Operations of any task *)

(* rtems_rate_monotonic_delete *)
Delete(p) ==
    /\ exists[p] /\ lock[p] = Nobody
    /\ exists' = [exists EXCEPT ![p] = FALSE]
    /\ period' = [period EXCEPT ![p] = Cancelled(@)]
    /\ JobsDropped(p, InFlight(p) \/ Inside(p))
    /\ UNCHANGED <<ovars, cvars, fault>>

(* rtems_rate_monotonic_reset_statistics *)
Reset_statistics(p) ==
    /\ exists[p] /\ lock[p] = Nobody
    /\ period' = [period EXCEPT ![p].stat = "none"]
    /\ late' = [late EXCEPT ![p] = "none"]
    /\ UNCHANGED <<exists, ovars, cvars, jobs, raced, fault>>

-----------------------------------------------------------------------------
(* The clock ticks and the timeouts *)

Due(p) == period[p].timer = 0

(* A tick passes; due watchdogs are extracted in the tick that makes them due. *)
Tick ==
    /\ \A p \in Periods : ~Due(p)
    /\ period' = [p \in Periods |->
                    [period[p] EXCEPT !.timer = IF @ = NoTimer THEN @ ELSE @ - 1]]
    /\ UNCHANGED <<exists, ovars, cvars, hvars, fault>>

(* _Watchdog_Do_tickle extracts the watchdog and calls its routine. *)
Fire(c, p) ==
    /\ cpc[c] = "idle" /\ Due(p)
    /\ period' = [period EXCEPT ![p].timer = NoTimer]
    /\ cpc' = [cpc EXCEPT ![c] = "fired"]
    /\ fired' = [fired EXCEPT ![c] = p]
    /\ UNCHANGED <<exists, ovars, lock, hvars, fault>>

(* The owner waits, or is about to wait, for period p. *)
WaitsFor_any(p) == flags # "READY" \* mutant: return_argument not compared
WaitsFor(p) == flags # "READY" /\ arg = p

JobReleased(p) ==
    jobs' = [jobs EXCEPT ![p] = IF raced[p] \/ @ > MaxPostponed THEN @ ELSE @ + 1]

(* _Rate_monotonic_Timeout under the lock: the owner waits for this period. *)
TimeoutLook(c) ==
    LET p == fired[c] IN
    /\ cpc[c] = "fired" /\ lock[p] = Nobody /\ WaitsFor(p)
    /\ lock' = [lock EXCEPT ![p] = c]
    /\ arg' = Nobody
    /\ cpc' = [cpc EXCEPT ![c] = "looked"]
    /\ UNCHANGED <<exists, period, pc, at, flags, ready, fired, hvars, fault>>

(* _Thread_Wait_flags_try_change_release( INTEND_TO_BLOCK, READY ), then    *)
(* _Rate_monotonic_Restart, which releases the lock.                        *)
TimeoutRestart(c) ==
    LET p == fired[c]
        unblock == flags # "INTEND" IN
    /\ cpc[c] = "looked"
    /\ flags' = "READY"
    /\ period' = [period EXCEPT ![p].timer = period[p].next_length]
    /\ lock' = [lock EXCEPT ![p] = Nobody]
    /\ fault' = IF unblock /\ flags # "BLOCKED" THEN "not blocked"
                ELSE InsertFault(p)
    /\ JobReleased(p)
    /\ IF unblock
       THEN cpc' = [cpc EXCEPT ![c] = "unblock"] /\ UNCHANGED fired
       ELSE cpc' = [cpc EXCEPT ![c] = "idle"] /\ fired' = [fired EXCEPT ![c] = Nobody]
    /\ UNCHANGED <<exists, pc, at, arg, ready, late, raced>>

(* _Thread_Unblock *)
TimeoutUnblock(c) ==
    /\ cpc[c] = "unblock"
    /\ ready' = TRUE
    /\ cpc' = [cpc EXCEPT ![c] = "idle"]
    /\ fired' = [fired EXCEPT ![c] = Nobody]
    /\ UNCHANGED <<exists, period, lock, pc, at, flags, arg, hvars, fault>>

(* The job is not completed: _Rate_monotonic_Renew_deadline. *)
Renewed_stopped(r) == \* mutant: the watchdog is not inserted again
    [r EXCEPT !.postponed = IF @ = MaxPostponed THEN @ ELSE @ + 1,
              !.state = "EXPIRED"]
Renewed_unlimited(r) == \* mutant: the counter does not stay at its maximum
    [r EXCEPT !.postponed = @ + 1, !.state = "EXPIRED", !.timer = r.next_length]
Renewed(r) ==
    [r EXCEPT !.postponed = IF @ = MaxPostponed THEN @ ELSE @ + 1,
              !.state = "EXPIRED", !.timer = r.next_length]

TimeoutRenew(c) ==
    LET p == fired[c] IN
    /\ cpc[c] = "fired" /\ lock[p] = Nobody /\ ~WaitsFor(p)
    /\ period' = [period EXCEPT ![p] = Renewed(@)]
    /\ fault' = InsertFault(p)
    /\ JobReleased(p)
    /\ cpc' = [cpc EXCEPT ![c] = "idle"]
    /\ fired' = [fired EXCEPT ![c] = Nobody]
    /\ UNCHANGED <<exists, lock, ovars, late, raced>>

-----------------------------------------------------------------------------
Blocking == SetState \/ TryBlock \/ SelfUnblock \/ Resume

OwnerStep ==
    \/ \E p \in Periods : Activate(p) \/ Block_while_active(p) \/ Block_while_expired(p)
    \/ Blocking

Timeout(c) ==
    TimeoutLook(c) \/ TimeoutRestart(c) \/ TimeoutUnblock(c) \/ TimeoutRenew(c)

Runs ==
    /\ fault = "none"
    /\ \/ OwnerStep
       \/ \E p \in Periods :
            \/ Create(p) \/ Enter(p) \/ Cancel(p) \/ Delete(p) \/ Reset_statistics(p)
       \/ \E c \in CPUs : Timeout(c) \/ \E p \in Periods : Fire(c, p)
       \/ Tick

(* A failed assertion ends in the fatal error handler. *)
Halted == fault # "none" /\ UNCHANGED vars

Next == Runs \/ Halted

(* The clock ticks, a due watchdog is extracted and its routine runs to its *)
(* end, and the owner, once in the blocking code, gets through it.          *)
Fairness ==
    /\ WF_vars(Tick /\ fault = "none")
    /\ WF_vars(Blocking /\ fault = "none")
    /\ \A c \in CPUs : WF_vars(Timeout(c) /\ fault = "none")
    /\ \A p \in Periods : WF_vars(fault = "none" /\ \E c \in CPUs : Fire(c, p))

Spec == Init /\ [][Next]_vars /\ Fairness

-----------------------------------------------------------------------------
(* Properties *)

TypeOK ==
    /\ exists \in [Periods -> BOOLEAN]
    /\ period \in [Periods -> [state : {"INACTIVE", "ACTIVE", "EXPIRED"},
                               postponed : 0..MaxPostponed,
                               next_length : Lengths \cup {0},
                               timer : Nat \cup {NoTimer},
                               stat : {"none", "met", "missed"}]]
    /\ lock \in [Periods -> CPUs \cup {Nobody}]
    /\ pc \in {"run", "enter", "setstate", "tryblock", "self", "wait"}
    /\ at \in Periods \cup {Nobody}
    /\ flags \in {"READY", "INTEND", "BLOCKED"}
    /\ arg \in Periods \cup {Nobody}
    /\ ready \in BOOLEAN
    /\ cpc \in [CPUs -> {"idle", "fired", "looked", "unblock"}]
    /\ fired \in [CPUs -> Periods \cup {Nobody}]
    /\ jobs \in [Periods -> 0..(MaxPostponed + 1)]
    /\ late \in [Periods -> {"none", "met", "missed"}]
    /\ raced \in [Periods -> BOOLEAN]

(* No job is lost and none is done twice: whatever the order of completions *)
(* and expirations, the postponed jobs are those released since the one the *)
(* owner is doing, up to the value at which the counter stays; and the      *)
(* owner is in a wait for the period exactly when no job is left to do.     *)
(* The state told to the application agrees: an expired period has a        *)
(* postponed job, one that is waited for is active.                         *)
JobsConserved ==
    \A p \in Periods : raced[p] \/
        /\ period[p].postponed = IF jobs[p] > 1 THEN jobs[p] - 1 ELSE 0
        /\ period[p].state # "INACTIVE" =>
             (jobs[p] = 0 <=> flags # "READY" /\ at = p)
        /\ period[p].state = "EXPIRED" => period[p].postponed > 0
        /\ flags # "READY" /\ at = p => period[p].state = "ACTIVE"

(* A completed job is counted as missed exactly when its deadline passed    *)
(* before, the jobs done while the period is active again included.         *)
MissesCounted == \A p \in Periods : raced[p] \/ period[p].stat = late[p]

(* An active period has its watchdog running, or its expiration is on its   *)
(* way; an inactive one has neither, so that nothing restarts it.           *)
WatchdogMatchesState ==
    \A p \in Periods : raced[p] \/
        (period[p].state # "INACTIVE") = (period[p].timer # NoTimer \/ InFlight(p))

(* The assertions of the code (no postponed job at activation, the owner's  *)
(* flags in both blocking paths, an inactive watchdog when it is inserted)  *)
(* fail only after a period was cancelled or deleted in mid-use.            *)
AssertionsHold == fault = "none" \/ \E p \in Periods : raced[p]

(* A task that waits for its period is released by the period's expiration, *)
(* also when that comes between any two steps of the task's way into the    *)
(* wait.                                                                    *)
EveryWaitEnds ==
    \A p \in Periods :
        (pc = "wait" /\ at = p) ~> (pc = "run" \/ raced[p] \/ fault # "none")
=============================================================================
