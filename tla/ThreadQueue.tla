----------------------------- MODULE ThreadQueue -----------------------------
(***************************************************************************)
(* The blocking protocol of the RTEMS thread queues on SMP, as used by the *)
(* counting semaphores: _CORE_semaphore_Seize and _Surrender               *)
(* (coresemimpl.h), _Thread_queue_Enqueue, _Resume and _Flush_critical     *)
(* (threadqenqueue.c, threadqflush.c), _Thread_Continue (threadtimeout.c), *)
(* the wait lock with its pending requests and the tranquilizer gate       *)
(* (threadimpl.h), and the thread's timer (watchdogtick.c).                *)
(*                                                                         *)
(* A thread that blocks publishes itself on the queue, releases the queue  *)
(* lock and only then arms its timer and blocks, so a surrender, a flush   *)
(* and a timeout can each come at any point of it, on other processors.    *)
(*                                                                         *)
(* An atomic step is a section under one lock, or a single atomic access;  *)
(* a section under a thread's default wait lock is one step unless the     *)
(* lock is kept (dlock).  The order among the waiters (FIFO or priority)   *)
(* is abstracted to a choice, and scheduling to ready or blocked.          *)
(***************************************************************************)
EXTENDS Integers, FiniteSets

CONSTANTS
    Threads,  \* threads that use the semaphore
    CPUs,     \* processors whose clock tick runs expired timers
    InitCount, \* initial count of the semaphore
    Timeouts, \* what a wait may ask for: subset of {"none", "ticks", "past"}
    Flushes,  \* rtems_semaphore_flush() is used
    Prompt,   \* environment: an expired timer's routine has finished before
              \* its thread begins another wait
    Free      \* value of a lock nobody holds

Ctx == Threads \cup CPUs \* whoever can run _Thread_Continue

ASSUME QueueAssumption ==
    /\ IsFiniteSet(Threads) /\ Threads # {}
    /\ Threads \cap CPUs = {} /\ Free \notin Ctx
    /\ InitCount \in Nat
    /\ Timeouts \subseteq {"none", "ticks", "past"} /\ Timeouts # {}
    /\ Flushes \in BOOLEAN /\ Prompt \in BOOLEAN

VARIABLES
    qlock,    \* holder of the thread queue lock
    count, waiters, \* the semaphore's count and its queue
    wq,       \* Wait.queue != NULL
    flags,    \* Wait.flags
    rc,       \* Wait.return_code
    state,    \* current_state: "ready" or "blocked"
    timer,    \* Timer.Watchdog is scheduled
    dlock,    \* Wait.Lock.Default, when kept over several steps
    pending,  \* Wait.Lock.Pending_requests
    tranq,    \* Wait.Lock.Tranquilizer: "closed", "chained" or "open"
    tpc, kind, \* a thread's control point and the timeout of its wait
    victim, ulist, \* whom a thread makes ready, whom it has to unblock
    cpc, target, cqueue, unblock, \* _Thread_Continue and its locals
    granted   \* history: handed a unit, not yet back from the wait

semvars   == <<qlock, count, waiters>>
waitvars  == <<wq, flags, rc, state, timer>>
gatevars  == <<dlock, pending, tranq>>
tvars     == <<tpc, kind, victim, ulist>>
cvars     == <<cpc, target, cqueue, unblock>>
vars == <<semvars, waitvars, gatevars, tvars, cvars, granted>>

Owners == {t \in Threads : tpc[t] = "own"}

Init ==
    /\ qlock = Free /\ count = InitCount /\ waiters = {}
    /\ wq = [t \in Threads |-> FALSE]
    /\ flags = [t \in Threads |-> "READY"]
    /\ rc = [t \in Threads |-> "SUCCESSFUL"]
    /\ state = [t \in Threads |-> "ready"]
    /\ timer = [t \in Threads |-> FALSE]
    /\ dlock = [t \in Threads |-> Free]
    /\ pending = [t \in Threads |-> {}]
    /\ tranq = [t \in Threads |-> "open"]
    /\ tpc = [t \in Threads |-> "run"]
    /\ kind = [t \in Threads |-> "none"]
    /\ victim = [t \in Threads |-> t]
    /\ ulist = [t \in Threads |-> {}]
    /\ cpc = [c \in Ctx |-> "idle"]
    /\ target = [c \in Ctx |-> Free]
    /\ cqueue = [c \in Ctx |-> FALSE]
    /\ unblock = [c \in Ctx |-> FALSE]
    /\ granted = {}

-----------------------------------------------------------------------------
(* Seizing the semaphore and waiting for it *)

(* _Thread_queue_Queue_acquire, by a thread or by an interrupt *)
QueueLockFree == qlock = Free

HasUnit_ignored == TRUE \* mutant: the count is not looked at
HasUnit == count # 0

(* _CORE_semaphore_Seize: a unit is taken at once ... *)
SeizeUnit(t) ==
    /\ tpc[t] = "run" /\ QueueLockFree /\ HasUnit
    /\ count' = count - 1
    /\ tpc' = [tpc EXCEPT ![t] = "own"]
    /\ UNCHANGED <<qlock, waiters, waitvars, gatevars, kind, victim, ulist,
                   cvars, granted>>

(* ... or the thread will wait, and keeps the queue lock for that. *)
SeizeWait(t) ==
    /\ tpc[t] = "run" /\ QueueLockFree /\ ~HasUnit
    /\ qlock' = t
    /\ \E k \in Timeouts : kind' = [kind EXCEPT ![t] = k]
    /\ tpc' = [tpc EXCEPT ![t] = "claim"]
    /\ UNCHANGED <<count, waiters, waitvars, gatevars, victim, ulist, cvars,
                   granted>>

(* An expired timer of an earlier wait of t is still to be processed. *)
LateTimeout(t) == \E c \in CPUs : cpc[c] # "idle" /\ target[c] = t

(* _Thread_Wait_claim *)
Claim(t) ==
    /\ tpc[t] = "claim" /\ dlock[t] = Free
    /\ Prompt => ~LateTimeout(t)
    /\ pending' = [pending EXCEPT ![t] = {}]
    /\ tranq' = [tranq EXCEPT ![t] = "closed"]
    /\ wq' = [wq EXCEPT ![t] = TRUE]
    /\ tpc' = [tpc EXCEPT ![t] = "enqueue"]
    /\ UNCHANGED <<semvars, flags, rc, state, timer, dlock, kind, victim, ulist,
                   cvars, granted>>

(* operations->enqueue, the wait flags, release of the queue lock *)
Enqueue(t) ==
    /\ tpc[t] = "enqueue"
    /\ waiters' = waiters \cup {t}
    /\ rc' = [rc EXCEPT ![t] = "SUCCESSFUL"]
    /\ flags' = [flags EXCEPT ![t] = "INTEND"]
    /\ qlock' = Free
    /\ tpc' = [tpc EXCEPT ![t] = "callout"]
    /\ UNCHANGED <<count, wq, state, timer, gatevars, kind, victim, ulist, cvars,
                   granted>>

(* The enqueue callout: nothing for RTEMS_NO_TIMEOUT, ... *)
CalloutNone(t) ==
    /\ tpc[t] = "callout" /\ kind[t] = "none"
    /\ tpc' = [tpc EXCEPT ![t] = "setstate"]
    /\ UNCHANGED <<semvars, waitvars, gatevars, kind, victim, ulist, cvars,
                   granted>>

(* ... insertion of the thread's timer, ... *)
CalloutTicks(t) ==
    /\ tpc[t] = "callout" /\ kind[t] = "ticks"
    /\ timer' = [timer EXCEPT ![t] = TRUE]
    /\ tpc' = [tpc EXCEPT ![t] = "setstate"]
    /\ UNCHANGED <<semvars, wq, flags, rc, state, gatevars, kind, victim, ulist,
                   cvars, granted>>

(* ... or, for an absolute time that has passed, a call of                  *)
(* _Thread_Continue by the thread itself, ...                               *)
CalloutPast(t) ==
    /\ tpc[t] = "callout" /\ kind[t] = "past"
    /\ cpc' = [cpc EXCEPT ![t] = "default"]
    /\ target' = [target EXCEPT ![t] = t]
    /\ tpc' = [tpc EXCEPT ![t] = "calling"]
    /\ UNCHANGED <<semvars, waitvars, gatevars, kind, victim, ulist, cqueue,
                   unblock, granted>>

(* ... which returns. *)
CalloutReturn(t) ==
    /\ tpc[t] = "calling" /\ cpc[t] = "idle"
    /\ tpc' = [tpc EXCEPT ![t] = "setstate"]
    /\ UNCHANGED <<semvars, waitvars, gatevars, kind, victim, ulist, cvars,
                   granted>>

(* _Thread_Set_state *)
SetState(t) ==
    /\ tpc[t] = "setstate"
    /\ state' = [state EXCEPT ![t] = "blocked"]
    /\ tpc' = [tpc EXCEPT ![t] = "tryblock"]
    /\ UNCHANGED <<semvars, wq, flags, rc, timer, gatevars, kind, victim, ulist,
                   cvars, granted>>

StillIntends(t) == flags[t] = "INTEND"

(* _Thread_Wait_flags_try_change_acquire( INTEND_TO_BLOCK, BLOCKED ) *)
TryBlock(t) ==
    /\ tpc[t] = "tryblock"
    /\ IF StillIntends(t)
       THEN /\ flags' = [flags EXCEPT ![t] = "BLOCKED"]
            /\ tpc' = [tpc EXCEPT ![t] = "blocked"]
       ELSE /\ tpc' = [tpc EXCEPT ![t] = "self"]
            /\ UNCHANGED flags
    /\ UNCHANGED <<semvars, wq, rc, state, timer, gatevars, kind, victim, ulist,
                   cvars, granted>>

(* _Thread_Wait_tranquilize: the busy wait of a gate is over. *)
Tranquil_nowait(t) == TRUE \* mutant: the gate is not waited for
Tranquil(t) == tranq[t] = "open"

(* _Thread_Timer_remove: the timer afterwards *)
TimerLeft(w) == FALSE

(* The wait ended before the thread was blocked: it cancels the blocking    *)
(* itself (_Thread_Remove_timer_and_unblock).                               *)
SelfUnblock(t) ==
    /\ tpc[t] = "self" /\ Tranquil(t)
    /\ timer' = [timer EXCEPT ![t] = TimerLeft(t)]
    /\ state' = [state EXCEPT ![t] = "ready"]
    /\ tpc' = [tpc EXCEPT ![t] = "blocked"]
    /\ UNCHANGED <<semvars, wq, flags, rc, gatevars, kind, victim, ulist, cvars,
                   granted>>

(* The thread is dispatched again and returns _Thread_Wait_get_status. *)
Resume(t) ==
    /\ tpc[t] = "blocked" /\ state[t] = "ready"
    /\ tpc' = [tpc EXCEPT ![t] = IF rc[t] = "SUCCESSFUL" THEN "own" ELSE "run"]
    /\ kind' = [kind EXCEPT ![t] = "none"]
    /\ granted' = granted \ {t}
    /\ UNCHANGED <<semvars, waitvars, gatevars, victim, ulist, cvars>>

-----------------------------------------------------------------------------
(* Ending the wait of another thread *)

(* The wait flags of w under the queue lock (_Thread_queue_Make_ready_again): *)
(* w must be unblocked by the caller iff it had got to BLOCKED.             *)
MustUnblock_never(w) == FALSE \* mutant: left to the thread in any case
MustUnblock(w) == flags[w] # "INTEND"

(* _Thread_Wait_restore_default, under w's default lock: the requests that  *)
(* wait for the queue lock are told that the queue is gone, and the last of *)
(* them will open the tranquilizer.                                         *)
QueueAfter_kept(w) == wq[w] \* mutant: Wait.queue is not reset
QueueAfter(w) == FALSE

RestoreDefault(w) ==
    /\ dlock[w] = Free
    /\ wq' = [wq EXCEPT ![w] = QueueAfter(w)]
    /\ tranq' = [tranq EXCEPT ![w] = IF pending[w] = {} THEN "open" ELSE "chained"]

(* The caller has extracted w from the queue and makes it ready. *)
MakeReady(t, w, pc) ==
    /\ waiters' = waiters \ {w}
    /\ flags' = [flags EXCEPT ![w] = "READY"]
    /\ victim' = [victim EXCEPT ![t] = w]
    /\ ulist' = IF MustUnblock(w) THEN [ulist EXCEPT ![t] = @ \cup {w}] ELSE ulist
    /\ tpc' = [tpc EXCEPT ![t] = pc]

(* _CORE_semaphore_Surrender without waiters ... *)
SurrenderUnit(t) ==
    /\ tpc[t] = "own" /\ QueueLockFree /\ waiters = {}
    /\ count' = count + 1
    /\ tpc' = [tpc EXCEPT ![t] = "run"]
    /\ UNCHANGED <<qlock, waiters, waitvars, gatevars, kind, victim, ulist,
                   cvars, granted>>

(* ... or with one that gets the unit (_Thread_queue_Surrender_no_priority). *)
SurrenderTo(t, w) ==
    /\ tpc[t] = "own" /\ QueueLockFree /\ w \in waiters
    /\ qlock' = t
    /\ granted' = granted \cup {w}
    /\ MakeReady(t, w, "restore")
    /\ UNCHANGED <<count, wq, rc, state, timer, gatevars, kind, cvars>>

(* _Thread_queue_Flush_critical: take the lock, ... *)
FlushBegin(t) ==
    /\ Flushes /\ tpc[t] = "run" /\ QueueLockFree /\ waiters # {}
    /\ qlock' = t
    /\ tpc' = [tpc EXCEPT ![t] = "flush"]
    /\ UNCHANGED <<count, waiters, waitvars, gatevars, kind, victim, ulist,
                   cvars, granted>>

(* ... make every waiter ready with STATUS_UNAVAILABLE, ... *)
FlushOne(t, w) ==
    /\ tpc[t] = "flush" /\ w \in waiters
    /\ rc' = [rc EXCEPT ![w] = "UNAVAILABLE"]
    /\ MakeReady(t, w, "flushrestore")
    /\ UNCHANGED <<qlock, count, wq, state, timer, gatevars, kind, cvars, granted>>

(* ... and release the lock. *)
FlushEnd(t) ==
    /\ tpc[t] = "flush" /\ waiters = {}
    /\ qlock' = Free
    /\ tpc' = [tpc EXCEPT ![t] = "wake"]
    /\ UNCHANGED <<count, waiters, waitvars, gatevars, kind, victim, ulist,
                   cvars, granted>>

(* The victim gets its default wait queue back; a surrender then releases   *)
(* the queue lock, a flush goes on with the next waiter.                    *)
Restore(t) ==
    /\ tpc[t] \in {"restore", "flushrestore"}
    /\ RestoreDefault(victim[t])
    /\ cqueue' = [c \in Ctx |-> cqueue[c] /\ c \notin pending[victim[t]]]
    /\ qlock' = IF tpc[t] = "restore" THEN Free ELSE qlock
    /\ tpc' = [tpc EXCEPT ![t] = IF @ = "restore" THEN "wake" ELSE "flush"]
    /\ UNCHANGED <<count, waiters, flags, rc, state, timer, dlock, pending, kind,
                   victim, ulist, cpc, target, unblock, granted>>

(* _Thread_Remove_timer_and_unblock, first the gate and the timer, ... *)
RemoveTimer(t, w) ==
    /\ tpc[t] = "wake" /\ w \in ulist[t] /\ Tranquil(w)
    /\ timer' = [timer EXCEPT ![w] = TimerLeft(w)]
    /\ victim' = [victim EXCEPT ![t] = w]
    /\ tpc' = [tpc EXCEPT ![t] = "unblock"]
    /\ UNCHANGED <<semvars, wq, flags, rc, state, gatevars, kind, ulist, cvars,
                   granted>>

(* ... then the state. *)
Unblock(t) ==
    /\ tpc[t] = "unblock"
    /\ state' = [state EXCEPT ![victim[t]] = "ready"]
    /\ ulist' = [ulist EXCEPT ![t] = @ \ {victim[t]}]
    /\ tpc' = [tpc EXCEPT ![t] = "wake"]
    /\ UNCHANGED <<semvars, wq, flags, rc, timer, gatevars, kind, victim, cvars,
                   granted>>

WakeEnd(t) ==
    /\ tpc[t] = "wake" /\ ulist[t] = {}
    /\ tpc' = [tpc EXCEPT ![t] = "run"]
    /\ victim' = [victim EXCEPT ![t] = t]
    /\ UNCHANGED <<semvars, waitvars, gatevars, kind, ulist, cvars, granted>>

-----------------------------------------------------------------------------
(* _Thread_Continue, run by the clock tick of a processor for an expired    *)
(* timer, or by a thread in its own enqueue callout                         *)

(* _Watchdog_Do_tickle extracts the timer and calls its routine unlocked. *)
Fire(c, t) ==
    /\ cpc[c] = "idle" /\ timer[t]
    /\ timer' = [timer EXCEPT ![t] = FALSE]
    /\ target' = [target EXCEPT ![c] = t]
    /\ cpc' = [cpc EXCEPT ![c] = "default"]
    /\ UNCHANGED <<semvars, wq, flags, rc, state, gatevars, tvars, cqueue,
                   unblock, granted>>

(* _Thread_Wait_acquire_critical: with the thread's default lock either     *)
(* that is the lock, or the request is put on record for the queue lock.    *)
AcquireDefault(c) ==
    /\ cpc[c] = "default"
    /\ LET t == target[c] IN
        /\ dlock[t] = Free
        /\ cqueue' = [cqueue EXCEPT ![c] = wq[t]]
        /\ IF wq[t]
           THEN /\ pending' = [pending EXCEPT ![t] = @ \cup {c}]
                /\ cpc' = [cpc EXCEPT ![c] = "queue"]
                /\ UNCHANGED dlock
           ELSE /\ dlock' = [dlock EXCEPT ![t] = c]
                /\ cpc' = [cpc EXCEPT ![c] = "critical"]
                /\ UNCHANGED pending
    /\ UNCHANGED <<semvars, waitvars, tranq, tvars, target, unblock,
                   granted>>

(* The queue lock is obtained; if the thread has left the queue meanwhile   *)
(* it is given back at once.                                                *)
AcquireQueue(c) ==
    /\ cpc[c] = "queue" /\ QueueLockFree
    /\ IF ~cqueue[c]
       THEN /\ cpc' = [cpc EXCEPT ![c] = "backoff"] /\ UNCHANGED qlock
       ELSE /\ cpc' = [cpc EXCEPT ![c] = "critical"] /\ qlock' = c
    /\ UNCHANGED <<count, waiters, waitvars, gatevars, tvars, target,
                   cqueue, unblock, granted>>

(* _Thread_Wait_remove_request_locked, under t's default lock *)
RemoveRequest(c, t) ==
    /\ pending' = [pending EXCEPT ![t] = @ \ {c}]
    /\ tranq' = [tranq EXCEPT ![t] =
                    IF @ = "chained" /\ pending[t] = {c} THEN "open" ELSE @]

(* The default lock is the thread's lock again. *)
Backoff(c) ==
    /\ cpc[c] = "backoff" /\ dlock[target[c]] = Free
    /\ dlock' = [dlock EXCEPT ![target[c]] = c]
    /\ RemoveRequest(c, target[c])
    /\ cpc' = [cpc EXCEPT ![c] = "critical"]
    /\ UNCHANGED <<semvars, waitvars, tvars, target, cqueue, unblock,
                   granted>>

(* wait_flags != THREAD_WAIT_STATE_READY *)
Waits_assumed(c) == TRUE \* mutant: the wait flags are not looked at
Waits(c) == flags[target[c]] # "READY"

(* Nothing to do for a thread that does not wait any more. *)
NotWaiting(c) ==
    /\ cpc[c] = "critical" /\ ~Waits(c)
    /\ unblock' = [unblock EXCEPT ![c] = FALSE]
    /\ cpc' = [cpc EXCEPT ![c] = "release"]
    /\ UNCHANGED <<semvars, waitvars, gatevars, tvars, target, cqueue,
                   granted>>

(* _Thread_Wait_cancel and the return code.  Restoring the default marks    *)
(* all requests, so the code puts this one's queue back.                    *)
Cancel(c) ==
    /\ cpc[c] = "critical" /\ Waits(c)
    /\ LET t == target[c] IN
        /\ rc' = [rc EXCEPT ![t] = "TIMEOUT"]
        /\ IF wq[t]
           THEN /\ waiters' = waiters \ {t}
                /\ RestoreDefault(t)
                /\ cqueue' = [d \in Ctx |-> d = c \/ (cqueue[d] /\ d \notin pending[t])]
           ELSE UNCHANGED <<waiters, wq, tranq, cqueue>>
    /\ cpc' = [cpc EXCEPT ![c] = "change"]
    /\ UNCHANGED <<qlock, count, flags, state, timer, dlock, pending, tvars,
                   target, unblock, granted>>

(* _Thread_Wait_flags_try_change_release, or the store after it failed *)
Change(c) ==
    /\ cpc[c] = "change"
    /\ unblock' = [unblock EXCEPT ![c] = (flags[target[c]] # "INTEND")]
    /\ flags' = [flags EXCEPT ![target[c]] = "READY"]
    /\ cpc' = [cpc EXCEPT ![c] = "release"]
    /\ UNCHANGED <<semvars, wq, rc, state, timer, gatevars, tvars, target,
                   cqueue, granted>>

(* The lock is released: on to the unblocking, or back to the caller. *)
Released(c) ==
    IF unblock[c]
    THEN cpc' = [cpc EXCEPT ![c] = "tranquilize"] /\ UNCHANGED target
    ELSE cpc' = [cpc EXCEPT ![c] = "idle"] /\ target' = [target EXCEPT ![c] = Free]

(* _Thread_Wait_release_critical: the default lock ... *)
ReleaseDefault(c) ==
    /\ cpc[c] = "release" /\ ~cqueue[c]
    /\ dlock' = [dlock EXCEPT ![target[c]] = Free]
    /\ Released(c)
    /\ UNCHANGED <<semvars, waitvars, pending, tranq, tvars,
                   cqueue, unblock, granted>>

(* ... or the queue lock, and then the request is taken off the record. *)
ReleaseQueue(c) ==
    /\ cpc[c] = "release" /\ cqueue[c]
    /\ qlock' = Free
    /\ cpc' = [cpc EXCEPT ![c] = "remove"]
    /\ UNCHANGED <<count, waiters, waitvars, gatevars, tvars, target,
                   cqueue, unblock, granted>>

Remove(c) ==
    /\ cpc[c] = "remove" /\ dlock[target[c]] = Free
    /\ RemoveRequest(c, target[c])
    /\ cqueue' = [cqueue EXCEPT ![c] = FALSE]
    /\ Released(c)
    /\ UNCHANGED <<semvars, waitvars, dlock, tvars, unblock, granted>>

(* _Thread_Wait_tranquilize, then _Thread_Unblock; the timer is not removed *)
(* here.                                                                    *)
Tranquilize(c) ==
    /\ cpc[c] = "tranquilize" /\ Tranquil(target[c])
    /\ cpc' = [cpc EXCEPT ![c] = "unblock"]
    /\ UNCHANGED <<semvars, waitvars, gatevars, tvars, target, cqueue,
                   unblock, granted>>

UnblockTarget(c) ==
    /\ cpc[c] = "unblock"
    /\ state' = [state EXCEPT ![target[c]] = "ready"]
    /\ unblock' = [unblock EXCEPT ![c] = FALSE]
    /\ cpc' = [cpc EXCEPT ![c] = "idle"]
    /\ target' = [target EXCEPT ![c] = Free]
    /\ UNCHANGED <<semvars, wq, flags, rc, timer, gatevars, tvars, cqueue,
                   granted>>

Continue(c) ==
    \/ AcquireDefault(c) \/ AcquireQueue(c) \/ Backoff(c) \/ NotWaiting(c)
    \/ Cancel(c) \/ Change(c) \/ ReleaseDefault(c) \/ ReleaseQueue(c)
    \/ Remove(c) \/ Tranquilize(c) \/ UnblockTarget(c)

-----------------------------------------------------------------------------
(* What a thread does inside the directives, once it has begun one *)
Inside(t) ==
    \/ Claim(t) \/ Enqueue(t) \/ CalloutNone(t) \/ CalloutTicks(t)
    \/ CalloutPast(t) \/ CalloutReturn(t) \/ SetState(t) \/ TryBlock(t)
    \/ SelfUnblock(t) \/ Resume(t)
    \/ (\E w \in Threads : FlushOne(t, w)) \/ FlushEnd(t) \/ Restore(t)
    \/ (\E w \in Threads : RemoveTimer(t, w)) \/ Unblock(t) \/ WakeEnd(t)

(* What the application begins *)
Begin(t) ==
    \/ SeizeUnit(t) \/ SeizeWait(t) \/ SurrenderUnit(t)
    \/ (\E w \in Threads : SurrenderTo(t, w)) \/ FlushBegin(t)

Next ==
    \/ \E t \in Threads : Begin(t) \/ Inside(t)
    \/ \E c \in CPUs, t \in Threads : Fire(c, t)
    \/ \E c \in Ctx : Continue(c)

(* A directive that has begun goes on, and so does an interrupt; the locks  *)
(* are ticket locks, so whoever waits for one gets it.                      *)
Fairness ==
    /\ \A t \in Threads : SF_vars(Inside(t))
    /\ \A c \in Ctx : SF_vars(Continue(c))

Spec == Init /\ [][Next]_vars /\ Fairness

-----------------------------------------------------------------------------
ThreadPC == {"run", "own", "claim", "enqueue", "callout", "calling", "setstate",
             "tryblock", "self", "blocked", "restore", "flush", "flushrestore",
             "wake", "unblock"}
ContinuePC == {"idle", "default", "queue", "backoff", "critical", "change",
               "release", "remove", "tranquilize", "unblock"}
Status == {"SUCCESSFUL", "TIMEOUT", "UNAVAILABLE"}

TypeOK ==
    /\ qlock \in Ctx \cup {Free} /\ count \in Nat /\ waiters \subseteq Threads
    /\ wq \in [Threads -> BOOLEAN]
    /\ flags \in [Threads -> {"READY", "INTEND", "BLOCKED"}]
    /\ rc \in [Threads -> Status]
    /\ state \in [Threads -> {"ready", "blocked"}]
    /\ timer \in [Threads -> BOOLEAN]
    /\ dlock \in [Threads -> Ctx \cup {Free}]
    /\ pending \in [Threads -> SUBSET Ctx]
    /\ tranq \in [Threads -> {"closed", "chained", "open"}]
    /\ tpc \in [Threads -> ThreadPC]
    /\ kind \in [Threads -> {"none", "ticks", "past"}]
    /\ victim \in [Threads -> Threads] /\ ulist \in [Threads -> SUBSET Threads]
    /\ cpc \in [Ctx -> ContinuePC] /\ target \in [Ctx -> Threads \cup {Free}]
    /\ \A c \in Ctx : target[c] = Free <=> cpc[c] = "idle"
    /\ cqueue \in [Ctx -> BOOLEAN]
    /\ unblock \in [Ctx -> BOOLEAN] /\ granted \subseteq Threads

(* A thread that is back in its own code has left nothing behind: it is on  *)
(* no queue, in no pending unblock operation and its timer is not running.  *)
(* And none of its requests is left when it claims the next wait, where     *)
(* _Thread_Wait_claim empties the chain of pending requests without a look: *)
(* the tranquilizer has seen to that.                                       *)
CleanReturn ==
    \A t \in Threads :
        /\ tpc[t] \in {"run", "own"} =>
            /\ t \notin waiters /\ ~wq[t] /\ flags[t] = "READY" /\ state[t] = "ready"
            /\ \A u \in Threads : t \notin ulist[u]
            /\ \A c \in Ctx : target[c] = t => cpc[c] \notin {"tranquilize", "unblock"}
        /\ tpc[t] = "claim" => pending[t] = {}

(* The assertions of _Thread_queue_Make_ready_again and _Thread_Continue:   *)
(* flags that are not INTEND_TO_BLOCK are BLOCKED.                          *)
AssertBlocked ==
    /\ \A t \in waiters : tpc[t] # "enqueue" => flags[t] # "READY"
    /\ \A c \in Ctx : cpc[c] = "change" => flags[target[c]] # "READY"

(* The assertion of _Thread_Wait_acquire_critical: once a request has been  *)
(* told that the queue is gone, and has t's default lock, it is gone.       *)
AssertQueueGone ==
    \A c \in Ctx : cpc[c] = "critical" /\ ~cqueue[c] => ~wq[target[c]]

(* The assertion of _Watchdog_Insert: a timer that is inserted is inactive. *)
AssertInactive ==
    \A t \in Threads : tpc[t] = "callout" /\ kind[t] = "ticks" => ~timer[t]

(* Two sections under the queue lock never overlap, although a timeout may  *)
(* find its lock replaced (the thread's default lock for the queue lock, or *)
(* back) while it waits for it: who is in such a section holds the lock.    *)
QueueLockHeld ==
    /\ \A t \in Threads :
        tpc[t] \in {"claim", "enqueue", "restore", "flush", "flushrestore"} => qlock = t
    /\ \A c \in Ctx : cpc[c] \in {"critical", "change", "release"} /\ cqueue[c]
        => qlock = c

(* What the wait protocol takes for granted, asserted in the code or not,   *)
(* holds in every interleaving of enqueueing, surrender, flush and timeout. *)
AssertionsHold ==
    AssertBlocked /\ AssertQueueGone /\ AssertInactive /\ QueueLockHeld

(* A wait with RTEMS_NO_TIMEOUT never ends with a timeout. *)
NoTimeoutHonoured ==
    \A t \in Threads : tpc[t] = "blocked" /\ state[t] = "ready" /\ kind[t] = "none"
        => rc[t] # "TIMEOUT"

-----------------------------------------------------------------------------
(* The semaphore as its users see it.  A thread waits from its enqueueing   *)
(* on; who takes it off the queue decides how the wait ends, except that a  *)
(* flush decides it for all waiters when it takes the queue lock.           *)
Flushing == \E t \in Threads : tpc[t] \in {"flush", "flushrestore"}
InWait(t) == tpc[t] \in {"callout", "calling", "setstate", "tryblock", "self",
                         "blocked"}
Stage(t) ==
    CASE tpc[t] = "own" -> "own"
      [] t \in granted -> "granted"
      [] t \in waiters -> IF Flushing THEN "unavailable" ELSE "wait"
      [] t \notin waiters \cup granted /\ InWait(t) ->
            IF rc[t] = "TIMEOUT" THEN "timeout" ELSE "unavailable"
      [] OTHER -> "run"

Sem == INSTANCE Semaphore WITH
    stage <- [t \in Threads |-> Stage(t)],
    timed <- {t \in Threads : InWait(t) /\ kind[t] # "none"}

(* Obtain, release, flush and timeout appear to happen at once, whatever    *)
(* the interleaving of the wait protocol: no unit is lost or made up when a *)
(* surrender, a timeout and a flush meet at one wait, a thread has a unit   *)
(* exactly when it is told so, a release never passes over a waiter, a      *)
(* flush catches all of them, only a timed wait times out.                  *)
ActsAsSemaphore == Sem!Safety

(* ... and whoever's wait has ended returns from it. *)
ReturnsAsSemaphore == Sem!Spec
=============================================================================
