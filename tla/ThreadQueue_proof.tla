-------------------------- MODULE ThreadQueue_proof --------------------------
(***************************************************************************)
(* Proofs about ThreadQueue, for any number of threads and processors, any *)
(* initial count and any mix of timeouts and flushes, under the condition  *)
(* Prompt: an expired timer's routine has finished before its thread       *)
(* begins another wait.                                                    *)
(*                                                                         *)
(* The inductive invariant IInv says who is allowed to touch a waiting     *)
(* thread: one context at a time works on its timeout, whose lock requests *)
(* and default lock are its own; the wait flags, the queue and the gate    *)
(* tell each party how far the others are; and the duty to unblock the     *)
(* thread is with one party only.  It is proved part by part, each part    *)
(* from the parts it needs, and the properties and the refinement of       *)
(* Semaphore follow from it.                                               *)
(***************************************************************************)
EXTENDS ThreadQueue, TLAPS

(* Nobody runs _Thread_Continue for t. *)
NoTarget(t) == \A c \in Ctx : target[c] # t

(* Who runs _Thread_Continue, and for whom: one context for a thread, the   *)
(* thread itself only in its callout.                                       *)
ContextInv ==
    /\ \A t \in Threads : cpc[t] # "idle" => tpc[t] = "calling" /\ target[t] = t
    /\ \A c, d \in Ctx : target[c] = target[d] /\ target[c] # Free => c = d

(* No context works on a thread before its callout, and none while its     *)
(* timer runs; a wait without a timeout never meets one.                    *)
TimerInv ==
    /\ \A t \in Threads : tpc[t] \in {"enqueue", "callout"} => NoTarget(t)
    /\ \A t \in Threads : timer[t] =>
          /\ tpc[t] \in {"setstate", "tryblock", "self", "blocked"}
          /\ kind[t] = "ticks" /\ NoTarget(t)
    /\ \A t \in Threads : InWait(t) /\ kind[t] = "none" => NoTarget(t)

(* Which lock a context holds or asks for. *)
RequestInv ==
    /\ \A c \in Ctx :
          /\ cpc[c] \in {"idle", "default", "backoff", "tranquilize", "unblock"}
                => ~cqueue[c]
          /\ cpc[c] \in {"change", "remove"} => cqueue[c]
    /\ \A c \in Ctx, t \in Threads : target[c] = t =>
          /\ cpc[c] \in {"queue", "critical"} => (cqueue[c] <=> wq[t])
          /\ cpc[c] \in {"backoff", "change", "release", "remove", "tranquilize",
                         "unblock"} => ~wq[t]
          /\ cpc[c] = "change" => flags[t] # "READY"

(* A thread's pending requests and its default lock are those of the       *)
(* context that works on it.                                                *)
PendingInv ==
    \A c \in Ctx, t \in Threads :
        /\ c \in pending[t] <=>
              /\ target[c] = t
              /\ \/ cpc[c] \in {"queue", "backoff", "change", "remove"}
                 \/ cpc[c] \in {"critical", "release"} /\ cqueue[c]
        /\ dlock[t] = c <=>
              target[c] = t /\ cpc[c] \in {"critical", "release"} /\ ~cqueue[c]

(* The gate is open exactly when no request is left. *)
GateInv ==
    \A t \in Threads :
        tranq[t] = IF wq[t] THEN "closed"
                   ELSE IF pending[t] = {} THEN "open" ELSE "chained"

(* The wait flags follow the thread's own progress. *)
FlagsInv ==
    \A t \in Threads :
        /\ t \in waiters => wq[t] /\ flags[t] # "READY"
        /\ flags[t] = "INTEND" => tpc[t] \in {"callout", "calling", "setstate", "tryblock"}
        /\ flags[t] = "BLOCKED" => tpc[t] = "blocked"
        /\ flags[t] # "READY" =>
              t \in waiters \/ \E c \in Ctx : target[c] = t /\ cpc[c] = "change"

(* The thread queue is a thread's wait queue from its claim to the restore. *)
QueueInv ==
    /\ \A t \in Threads : wq[t] =>
          \/ t \in waiters \/ tpc[t] = "enqueue"
          \/ \E u \in Threads : tpc[u] \in {"restore", "flushrestore"} /\ victim[u] = t
    /\ \A t \in Threads : tpc[t] = "enqueue" => wq[t]
    /\ \A u \in Threads : tpc[u] \in {"restore", "flushrestore"} =>
          /\ wq[victim[u]] /\ flags[victim[u]] = "READY" /\ InWait(victim[u])

(* A thread is unblocked by one other thread at most, not before the gate *)
(* is open, ...                                                             *)
DutyInv ==
    /\ \A t, u \in Threads : t \in ulist[u] =>
          /\ tpc[t] = "blocked" /\ state[t] = "blocked" /\ flags[t] = "READY"
          /\ tpc[u] \in {"restore", "flush", "flushrestore", "wake", "unblock"}
          /\ \A v \in Threads : t \in ulist[v] => v = u
    /\ \A u \in Threads : tpc[u] = "unblock" =>
          /\ victim[u] \in ulist[u] /\ ~timer[victim[u]] /\ ~wq[victim[u]]
          /\ pending[victim[u]] = {}

(* ... or by the context of its timeout, never by both. *)
UnblockInv ==
    /\ \A c \in Ctx :
          /\ unblock[c] => cpc[c] \in {"release", "remove", "tranquilize", "unblock"}
          /\ cpc[c] \in {"tranquilize", "unblock"} => unblock[c]
          /\ unblock[c] /\ cpc[c] = "release" => cqueue[c]
    /\ \A c \in Ctx, t \in Threads : unblock[c] /\ target[c] = t =>
          /\ tpc[t] = "blocked" /\ state[t] = "blocked" /\ flags[t] = "READY"
          /\ \A u \in Threads : t \notin ulist[u]

(* A thread outside a wait, or about to return from it, has left it all. *)
LeftInv ==
    \A t \in Threads :
        /\ state[t] = "blocked" => tpc[t] \in {"tryblock", "self", "blocked"}
        /\ tpc[t] \in {"tryblock", "self"} => state[t] = "blocked"
        /\ (tpc[t] = "blocked" /\ state[t] = "ready") \/ ~(InWait(t) \/ tpc[t] = "enqueue")
              => ~wq[t] /\ pending[t] = {} /\ ~timer[t]

(* A wait ends in one way, and it is told so: the unit goes with           *)
(* SUCCESSFUL, only a timed wait ends with TIMEOUT, and while a thread is   *)
(* about to be enqueued no unit comes back.                                 *)
OutcomeInv ==
    \A t \in Threads :
        /\ t \in granted => InWait(t)
        /\ InWait(t) => /\ t \in waiters => t \notin granted /\ rc[t] = "SUCCESSFUL"
                        /\ t \notin waiters => (t \in granted <=> rc[t] = "SUCCESSFUL")
                        /\ rc[t] = "TIMEOUT" => kind[t] # "none"
        /\ tpc[t] \in {"claim", "enqueue"} => count = 0

IInv ==
    /\ TypeOK /\ QueueLockHeld /\ ContextInv /\ TimerInv /\ RequestInv
    /\ PendingInv /\ GateInv /\ FlagsInv /\ QueueInv /\ DutyInv /\ UnblockInv
    /\ LeftInv /\ OutcomeInv

-----------------------------------------------------------------------------
(* What the steps do, where the definition leaves it to a case distinction. *)

(* _Thread_Wait_acquire_critical has two outcomes. *)
LEMMA AcquireDefaultCases ==
    ASSUME TypeOK, NEW c \in Ctx, AcquireDefault(c)
    PROVE  /\ target[c] \in Threads /\ cpc[c] = "default" /\ dlock[target[c]] = Free
           /\ UNCHANGED <<semvars, waitvars, tranq, tvars, target, unblock, granted>>
           /\ \/ /\ wq[target[c]] /\ cqueue' = [cqueue EXCEPT ![c] = TRUE]
                 /\ pending' = [pending EXCEPT ![target[c]] = @ \cup {c}]
                 /\ cpc' = [cpc EXCEPT ![c] = "queue"] /\ dlock' = dlock
              \/ /\ ~wq[target[c]] /\ cqueue' = [cqueue EXCEPT ![c] = FALSE]
                 /\ dlock' = [dlock EXCEPT ![target[c]] = c]
                 /\ cpc' = [cpc EXCEPT ![c] = "critical"] /\ pending' = pending
<1>1. /\ target[c] \in Threads /\ cpc[c] = "default" /\ dlock[target[c]] = Free
      /\ wq[target[c]] \in BOOLEAN
    BY QueueAssumption DEF QueueAssumption, TypeOK, AcquireDefault
<1>2. CASE wq[target[c]]
  <2>1. wq[target[c]] = TRUE
      BY <1>1, <1>2
  <2>2. QED
      BY <1>1, <2>1, Zenon DEF AcquireDefault
<1>3. CASE ~wq[target[c]]
  <2>1. wq[target[c]] = FALSE
      BY <1>1, <1>3
  <2>2. QED
      BY <1>1, <2>1, Zenon DEF AcquireDefault
<1>4. QED
    BY <1>2, <1>3

(* The lock is released with or without somebody to unblock. *)
LEMMA ReleasedCases ==
    ASSUME TypeOK, NEW c \in Ctx, Released(c)
    PROVE  \/ unblock[c] /\ cpc' = [cpc EXCEPT ![c] = "tranquilize"] /\ target' = target
           \/ ~unblock[c] /\ cpc' = [cpc EXCEPT ![c] = "idle"]
                /\ target' = [target EXCEPT ![c] = Free]
BY Zenon DEF Released

(* A timeout that finds its thread waiting takes it off the queue; only a  *)
(* thread that has lost its queue already is left where it is.             *)
LEMMA CancelCases ==
    ASSUME TypeOK, NEW c \in Ctx, Cancel(c)
    PROVE  /\ target[c] \in Threads /\ cpc[c] = "critical" /\ flags[target[c]] # "READY"
           /\ rc' = [rc EXCEPT ![target[c]] = "TIMEOUT"]
           /\ cpc' = [cpc EXCEPT ![c] = "change"]
           /\ UNCHANGED <<qlock, count, flags, state, timer, dlock, pending, tvars,
                          target, unblock, granted>>
           /\ \/ /\ wq[target[c]] /\ waiters' = waiters \ {target[c]}
                 /\ dlock[target[c]] = Free
                 /\ wq' = [wq EXCEPT ![target[c]] = FALSE]
                 /\ tranq' = [tranq EXCEPT ![target[c]] =
                                IF pending[target[c]] = {} THEN "open" ELSE "chained"]
                 /\ cqueue' \in [Ctx -> BOOLEAN] /\ cqueue'[c]
                 /\ \A d \in Ctx : d # c =>
                        (cqueue'[d] <=> (cqueue[d] /\ d \notin pending[target[c]]))
              \/ ~wq[target[c]] /\ UNCHANGED <<waiters, wq, tranq, cqueue>>
<1>1. target[c] \in Threads /\ cpc[c] = "critical" /\ wq[target[c]] \in BOOLEAN
    BY QueueAssumption DEF QueueAssumption, TypeOK, Cancel
<1>2. /\ flags[target[c]] # "READY"
      /\ rc' = [rc EXCEPT ![target[c]] = "TIMEOUT"]
      /\ cpc' = [cpc EXCEPT ![c] = "change"]
      /\ UNCHANGED <<qlock, count, flags, state, timer, dlock, pending, tvars,
                     target, unblock, granted>>
    BY Zenon DEF Cancel, Waits
<1>3. CASE wq[target[c]]
  <2>1. wq[target[c]] = TRUE
      BY <1>1, <1>3
  <2>2. /\ waiters' = waiters \ {target[c]} /\ dlock[target[c]] = Free
        /\ wq' = [wq EXCEPT ![target[c]] = FALSE]
        /\ tranq' = [tranq EXCEPT ![target[c]] =
                       IF pending[target[c]] = {} THEN "open" ELSE "chained"]
        /\ cqueue' = [d \in Ctx |-> d = c \/ (cqueue[d] /\ d \notin pending[target[c]])]
      BY <2>1, Zenon DEF Cancel, RestoreDefault, QueueAfter
  <2>3. /\ cqueue' \in [Ctx -> BOOLEAN] /\ cqueue'[c]
        /\ \A d \in Ctx : d # c =>
               (cqueue'[d] <=> (cqueue[d] /\ d \notin pending[target[c]]))
      BY <2>2, Zenon
  <2>4. QED
      BY <1>1, <1>2, <1>3, <2>2, <2>3
<1>4. CASE ~wq[target[c]]
  <2>1. wq[target[c]] = FALSE
      BY <1>1, <1>4
  <2>2. UNCHANGED <<waiters, wq, tranq, cqueue>>
      BY <2>1, Zenon DEF Cancel
  <2>3. QED
      BY <1>1, <1>2, <1>4, <2>2
<1>5. QED
    BY <1>3, <1>4

(* The thread blocks, or finds that its wait has ended already. *)
LEMMA TryBlockCases ==
    ASSUME NEW t \in Threads, TryBlock(t)
    PROVE  \/ /\ StillIntends(t) /\ flags' = [flags EXCEPT ![t] = "BLOCKED"]
              /\ tpc' = [tpc EXCEPT ![t] = "blocked"]
           \/ ~StillIntends(t) /\ flags' = flags /\ tpc' = [tpc EXCEPT ![t] = "self"]
BY Zenon DEF TryBlock

(* With Prompt nobody works on a thread that claims its next wait. *)
LEMMA ClaimAlone ==
    ASSUME TypeOK, ContextInv, Prompt, NEW t \in Threads, Claim(t)
    PROVE  NoTarget(t)
<1> SUFFICES ASSUME NEW c \in Ctx, target[c] = t PROVE FALSE
    BY DEF NoTarget
<1>1. cpc[c] # "idle"
    BY QueueAssumption DEF QueueAssumption, TypeOK, Ctx
<1>2. c \notin Threads
    BY <1>1 DEF ContextInv, Claim
<1>3. c \in CPUs
    BY <1>2 DEF Ctx
<1>4. QED
    BY <1>1, <1>3 DEF Claim, LateTimeout

(* A context that has the queue lock and finds its thread waiting is the   *)
(* only one, and the thread is on the queue.                               *)
LEMMA CancelFacts ==
    ASSUME TypeOK, ContextInv, TimerInv, RequestInv, PendingInv, FlagsInv, QueueInv,
           NEW c \in Ctx, Cancel(c)
    PROVE  /\ target[c] \in waiters /\ wq[target[c]] /\ cqueue[c]
           /\ pending[target[c]] = {c} /\ UNCHANGED cqueue
           /\ waiters' = waiters \ {target[c]}
           /\ wq' = [wq EXCEPT ![target[c]] = FALSE]
           /\ tranq' = [tranq EXCEPT ![target[c]] = "chained"]
<1> DEFINE t == target[c]
<1>1. /\ t \in Threads /\ cpc[c] = "critical" /\ flags[t] # "READY"
    BY CancelCases
<1>2. t \in waiters
  <2>1. \A d \in Ctx : target[d] = t => d = c
      BY <1>1, QueueAssumption DEF ContextInv, QueueAssumption, Ctx
  <2>2. QED
      BY <1>1, <2>1 DEF FlagsInv
<1>3. wq[t] /\ cqueue[c] /\ c \in pending[t]
    BY <1>1, <1>2 DEF FlagsInv, RequestInv, PendingInv
<1>4. pending[t] = {c}
  <2>1. \A d \in Ctx : d \in pending[t] => d = c
      BY <1>1, QueueAssumption DEF PendingInv, ContextInv, QueueAssumption, Ctx
  <2>2. pending[t] \subseteq Ctx
      BY <1>1 DEF TypeOK
  <2>3. QED
      BY <1>3, <2>1, <2>2
<1>5. /\ waiters' = waiters \ {t} /\ wq' = [wq EXCEPT ![t] = FALSE]
      /\ tranq' = [tranq EXCEPT ![t] = IF pending[t] = {} THEN "open" ELSE "chained"]
      /\ cqueue' \in [Ctx -> BOOLEAN] /\ cqueue'[c]
      /\ \A d \in Ctx : d # c => (cqueue'[d] <=> (cqueue[d] /\ d \notin pending[t]))
    BY <1>3, CancelCases
<1>6. cqueue' = cqueue
  <2>1. \A d \in Ctx : cqueue'[d] = cqueue[d]
    <3> SUFFICES ASSUME NEW d \in Ctx PROVE cqueue'[d] = cqueue[d]
        OBVIOUS
    <3>1. cqueue'[d] \in BOOLEAN /\ cqueue[d] \in BOOLEAN
        BY <1>5 DEF TypeOK
    <3>2. cqueue'[d] <=> cqueue[d]
        BY <1>3, <1>4, <1>5
    <3>3. QED
        BY <3>1, <3>2
  <2>2. QED
      BY <1>5, <2>1 DEF TypeOK
<1>7. tranq' = [tranq EXCEPT ![t] = "chained"]
    BY <1>4, <1>5
<1>8. QED
    BY <1>2, <1>3, <1>4, <1>5, <1>6, <1>7

(* The restore of a victim takes the queue away from its requests. *)
LEMMA RestoreFacts ==
    ASSUME TypeOK, QueueInv, NEW t \in Threads, Restore(t)
    PROVE  /\ victim[t] \in Threads /\ wq[victim[t]] /\ flags[victim[t]] = "READY"
           /\ dlock[victim[t]] = Free
           /\ wq' = [wq EXCEPT ![victim[t]] = FALSE]
           /\ cqueue' \in [Ctx -> BOOLEAN]
           /\ \A c \in Ctx : cqueue'[c] <=> (cqueue[c] /\ c \notin pending[victim[t]])
           /\ \E q \in {"wake", "flush"} : tpc' = [tpc EXCEPT ![t] = q]
           /\ tpc[t] \in {"restore", "flushrestore"}
           /\ UNCHANGED <<count, waiters, flags, rc, state, timer, dlock, pending, kind,
                          victim, ulist, cpc, target, unblock, granted>>
<1>1. victim[t] \in Threads /\ tpc[t] \in {"restore", "flushrestore"}
    BY DEF TypeOK, Restore
<1>2. cqueue' = [c \in Ctx |-> cqueue[c] /\ c \notin pending[victim[t]]]
    BY DEF Restore
<1>3. /\ cqueue' \in [Ctx -> BOOLEAN]
      /\ \A c \in Ctx : cqueue'[c] <=> (cqueue[c] /\ c \notin pending[victim[t]])
    BY <1>2, Zenon
<1>4. \E q \in {"wake", "flush"} : tpc' = [tpc EXCEPT ![t] = q]
    BY DEF Restore
<1>5. /\ wq' = [wq EXCEPT ![victim[t]] = FALSE] /\ dlock[victim[t]] = Free
      /\ UNCHANGED <<count, waiters, flags, rc, state, timer, dlock, pending, kind,
                     victim, ulist, cpc, target, unblock, granted>>
    BY DEF Restore, RestoreDefault, QueueAfter
<1>6. QED
    BY <1>1, <1>3, <1>4, <1>5 DEF QueueInv

(* A waiting thread is in its callout or before it if its flags say INTEND, *)
(* and blocked otherwise.                                                   *)
LEMMA WaiterFacts ==
    ASSUME TypeOK, FlagsInv, LeftInv, NEW w \in waiters
    PROVE  /\ w \in Threads /\ wq[w] /\ flags[w] # "READY" /\ InWait(w)
           /\ flags[w] # "INTEND" => tpc[w] = "blocked" /\ state[w] = "blocked"
BY DEF TypeOK, FlagsInv, LeftInv, InWait

(* Every step keeps the types. *)
LEMMA TypeOKNext ==
    ASSUME TypeOK, Prompt, Next
    PROVE  TypeOK'
<1> USE QueueAssumption DEF QueueAssumption, Ctx, semvars, waitvars, gatevars,
        tvars, cvars, TypeOK, ThreadPC, ContinuePC, Status
<1>1. ASSUME NEW t \in Threads, SeizeUnit(t)
      PROVE  TypeOK'
    BY <1>1 DEF SeizeUnit, QueueLockFree, HasUnit
<1>2. ASSUME NEW t \in Threads, SeizeWait(t)
      PROVE  TypeOK'
    BY <1>2 DEF SeizeWait, QueueLockFree, HasUnit
<1>3. ASSUME NEW t \in Threads, Claim(t)
      PROVE  TypeOK'
    BY <1>3 DEF Claim, LateTimeout
<1>4. ASSUME NEW t \in Threads, Enqueue(t)
      PROVE  TypeOK'
    BY <1>4 DEF Enqueue
<1>5. ASSUME NEW t \in Threads, CalloutNone(t)
      PROVE  TypeOK'
    BY <1>5 DEF CalloutNone
<1>6. ASSUME NEW t \in Threads, CalloutTicks(t)
      PROVE  TypeOK'
    BY <1>6 DEF CalloutTicks
<1>7. ASSUME NEW t \in Threads, CalloutPast(t)
      PROVE  TypeOK'
    BY <1>7 DEF CalloutPast
<1>8. ASSUME NEW t \in Threads, CalloutReturn(t)
      PROVE  TypeOK'
    BY <1>8 DEF CalloutReturn
<1>9. ASSUME NEW t \in Threads, SetState(t)
      PROVE  TypeOK'
    BY <1>9 DEF SetState
<1>10. ASSUME NEW t \in Threads, SelfUnblock(t)
      PROVE  TypeOK'
    BY <1>10 DEF SelfUnblock, Tranquil, TimerLeft
<1>11. ASSUME NEW t \in Threads, Resume(t)
      PROVE  TypeOK'
    BY <1>11 DEF Resume
<1>12. ASSUME NEW t \in Threads, SurrenderUnit(t)
      PROVE  TypeOK'
    BY <1>12 DEF SurrenderUnit, QueueLockFree
<1>13. ASSUME NEW t \in Threads, NEW w \in Threads, SurrenderTo(t, w)
      PROVE  TypeOK'
    BY <1>13 DEF SurrenderTo, QueueLockFree, MakeReady, MustUnblock
<1>14. ASSUME NEW t \in Threads, FlushBegin(t)
      PROVE  TypeOK'
    BY <1>14 DEF FlushBegin, QueueLockFree
<1>15. ASSUME NEW t \in Threads, NEW w \in Threads, FlushOne(t, w)
      PROVE  TypeOK'
    BY <1>15 DEF FlushOne, MakeReady, MustUnblock
<1>16. ASSUME NEW t \in Threads, FlushEnd(t)
      PROVE  TypeOK'
    BY <1>16 DEF FlushEnd
<1>17. ASSUME NEW t \in Threads, Restore(t)
      PROVE  TypeOK'
    BY <1>17 DEF Restore, RestoreDefault, QueueAfter
<1>18. ASSUME NEW t \in Threads, NEW w \in Threads, RemoveTimer(t, w)
      PROVE  TypeOK'
    BY <1>18 DEF RemoveTimer, Tranquil, TimerLeft
<1>19. ASSUME NEW t \in Threads, Unblock(t)
      PROVE  TypeOK'
    BY <1>19 DEF Unblock
<1>20. ASSUME NEW t \in Threads, WakeEnd(t)
      PROVE  TypeOK'
    BY <1>20 DEF WakeEnd
<1>21. ASSUME NEW c \in CPUs, NEW t \in Threads, Fire(c, t)
      PROVE  TypeOK'
    BY <1>21 DEF Fire
<1>22. ASSUME NEW c \in Ctx, AcquireQueue(c)
      PROVE  TypeOK'
    BY <1>22 DEF AcquireQueue, QueueLockFree
<1>23. ASSUME NEW c \in Ctx, Backoff(c)
      PROVE  TypeOK'
    BY <1>23 DEF Backoff, RemoveRequest
<1>24. ASSUME NEW c \in Ctx, NotWaiting(c)
      PROVE  TypeOK'
    BY <1>24 DEF NotWaiting, Waits
<1>25. ASSUME NEW c \in Ctx, Change(c)
      PROVE  TypeOK'
    BY <1>25 DEF Change
<1>26. ASSUME NEW c \in Ctx, ReleaseQueue(c)
      PROVE  TypeOK'
    BY <1>26 DEF ReleaseQueue
<1>27. ASSUME NEW c \in Ctx, Tranquilize(c)
      PROVE  TypeOK'
    BY <1>27 DEF Tranquilize, Tranquil
<1>28. ASSUME NEW c \in Ctx, UnblockTarget(c)
      PROVE  TypeOK'
    BY <1>28 DEF UnblockTarget
<1>29. ASSUME NEW t \in Threads, TryBlock(t)
      PROVE  TypeOK'
  <2>1. /\ flags' \in [Threads -> {"READY", "INTEND", "BLOCKED"}]
        /\ tpc' \in [Threads -> ThreadPC]
    <3>1. \/ /\ flags' = [flags EXCEPT ![t] = "BLOCKED"]
             /\ tpc' = [tpc EXCEPT ![t] = "blocked"]
          \/ flags' = flags /\ tpc' = [tpc EXCEPT ![t] = "self"]
        BY <1>29, TryBlockCases
    <3>2. flags' \in [Threads -> {"READY", "INTEND", "BLOCKED"}]
        BY <3>1
    <3>3. tpc' \in [Threads -> ThreadPC]
        BY <3>1
    <3>4. QED
        BY <3>2, <3>3
  <2>2. UNCHANGED <<semvars, wq, rc, state, timer, gatevars, kind, victim, ulist,
                    cvars, granted>>
      BY <1>29 DEF TryBlock
  <2>3. QED
      BY <2>1, <2>2
<1>30. ASSUME NEW c \in Ctx, AcquireDefault(c)
      PROVE  TypeOK'
  <2>1. target[c] \in Threads /\ cpc[c] = "default"
      BY <1>30, AcquireDefaultCases
  <2>2. UNCHANGED <<semvars, waitvars, tranq, tvars, target, unblock, granted>>
      BY <1>30, AcquireDefaultCases
  <2>3. \/ /\ cqueue' = [cqueue EXCEPT ![c] = TRUE]
           /\ pending' = [pending EXCEPT ![target[c]] = @ \cup {c}]
           /\ cpc' = [cpc EXCEPT ![c] = "queue"] /\ dlock' = dlock
        \/ /\ cqueue' = [cqueue EXCEPT ![c] = FALSE]
           /\ dlock' = [dlock EXCEPT ![target[c]] = c]
           /\ cpc' = [cpc EXCEPT ![c] = "critical"] /\ pending' = pending
      BY <1>30, AcquireDefaultCases
  <2>4. /\ cqueue' \in [Ctx -> BOOLEAN] /\ pending' \in [Threads -> SUBSET Ctx]
        /\ dlock' \in [Threads -> Ctx \cup {Free}]
    <3>1. cqueue' \in [Ctx -> BOOLEAN]
      <4>1. CASE cqueue' = [cqueue EXCEPT ![c] = TRUE]
          BY <4>1
      <4>2. CASE cqueue' = [cqueue EXCEPT ![c] = FALSE]
          BY <4>2
      <4>3. QED
          BY <2>3, <4>1, <4>2
    <3>2. pending' \in [Threads -> SUBSET Ctx]
        BY <2>1, <2>3, SMTT(30)
    <3>3. dlock' \in [Threads -> Ctx \cup {Free}]
        BY <2>1, <2>3, SMTT(30)
    <3>4. QED
        BY <3>1, <3>2, <3>3
  <2>5. /\ cpc' \in [Ctx -> ContinuePC]
        /\ \A d \in Ctx : target[d] = Free <=> cpc'[d] = "idle"
      BY <2>1, <2>3
  <2>6. QED
      BY <2>2, <2>4, <2>5
<1>31. ASSUME NEW c \in Ctx, Cancel(c)
      PROVE  TypeOK'
  <2>1. /\ target[c] \in Threads /\ cpc[c] = "critical"
        /\ rc' = [rc EXCEPT ![target[c]] = "TIMEOUT"]
        /\ cpc' = [cpc EXCEPT ![c] = "change"]
      BY <1>31, CancelCases
  <2>2. UNCHANGED <<qlock, count, flags, state, timer, dlock, pending, tvars,
                    target, unblock, granted>>
      BY <1>31, CancelCases
  <2>3. \/ /\ waiters' = waiters \ {target[c]}
           /\ wq' = [wq EXCEPT ![target[c]] = FALSE]
           /\ tranq' = [tranq EXCEPT ![target[c]] =
                          IF pending[target[c]] = {} THEN "open" ELSE "chained"]
           /\ cqueue' \in [Ctx -> BOOLEAN]
        \/ UNCHANGED <<waiters, wq, tranq, cqueue>>
      BY <1>31, CancelCases
  <2>4. /\ waiters' \subseteq Threads /\ wq' \in [Threads -> BOOLEAN]
        /\ tranq' \in [Threads -> {"closed", "chained", "open"}]
        /\ cqueue' \in [Ctx -> BOOLEAN]
    <3>1. waiters' \subseteq Threads
        BY <2>3
    <3>2. wq' \in [Threads -> BOOLEAN]
      <4>1. CASE wq' = [wq EXCEPT ![target[c]] = FALSE]
          BY <2>1, <4>1
      <4>2. CASE wq' = wq
          BY <4>2
      <4>3. QED
          BY <2>3, <4>1, <4>2
    <3>3. tranq' \in [Threads -> {"closed", "chained", "open"}]
        BY <2>1, <2>3
    <3>4. cqueue' \in [Ctx -> BOOLEAN]
        BY <2>3
    <3>5. QED
        BY <3>1, <3>2, <3>3, <3>4
  <2>5. /\ rc' \in [Threads -> Status] /\ cpc' \in [Ctx -> ContinuePC]
        /\ \A d \in Ctx : target[d] = Free <=> cpc'[d] = "idle"
      BY <2>1
  <2>6. QED
      BY <2>2, <2>4, <2>5
<1>32. ASSUME NEW c \in Ctx, ReleaseDefault(c)
      PROVE  TypeOK'
  <2>1. /\ cpc' \in [Ctx -> ContinuePC] /\ target' \in [Ctx -> Threads \cup {Free}]
        /\ \A d \in Ctx : target'[d] = Free <=> cpc'[d] = "idle"
    <3>1. /\ cpc[c] # "idle"
          /\ \/ cpc' = [cpc EXCEPT ![c] = "tranquilize"] /\ target' = target
             \/ /\ cpc' = [cpc EXCEPT ![c] = "idle"]
                /\ target' = [target EXCEPT ![c] = Free]
        BY <1>32, ReleasedCases DEF ReleaseDefault
    <3>2. QED
        BY <3>1, SMTT(30)
  <2>2. dlock' \in [Threads -> Ctx \cup {Free}]
      BY <1>32 DEF ReleaseDefault
  <2>3. UNCHANGED <<semvars, waitvars, tvars, pending, tranq, cqueue, unblock, granted>>
      BY <1>32 DEF ReleaseDefault
  <2>4. QED
      BY <2>1, <2>2, <2>3
<1>33. ASSUME NEW c \in Ctx, Remove(c)
      PROVE  TypeOK'
  <2>1. /\ cpc' \in [Ctx -> ContinuePC] /\ target' \in [Ctx -> Threads \cup {Free}]
        /\ \A d \in Ctx : target'[d] = Free <=> cpc'[d] = "idle"
    <3>1. /\ cpc[c] # "idle"
          /\ \/ cpc' = [cpc EXCEPT ![c] = "tranquilize"] /\ target' = target
             \/ /\ cpc' = [cpc EXCEPT ![c] = "idle"]
                /\ target' = [target EXCEPT ![c] = Free]
        BY <1>33, ReleasedCases DEF Remove
    <3>2. QED
        BY <3>1, SMTT(30)
  <2>2. /\ pending' \in [Threads -> SUBSET Ctx]
        /\ tranq' \in [Threads -> {"closed", "chained", "open"}]
        /\ cqueue' \in [Ctx -> BOOLEAN]
      BY <1>33 DEF Remove, RemoveRequest
  <2>3. UNCHANGED <<semvars, waitvars, tvars, dlock, unblock, granted>>
      BY <1>33 DEF Remove
  <2>4. QED
      BY <2>1, <2>2, <2>3
<1>34. QED
    BY ONLY Next, <1>1, <1>2, <1>3, <1>4, <1>5, <1>6, <1>7, <1>8, <1>9, <1>10,
       <1>11, <1>12, <1>13, <1>14, <1>15, <1>16, <1>17, <1>18, <1>19, <1>20,
       <1>21, <1>22, <1>23, <1>24, <1>25, <1>26, <1>27, <1>28, <1>29, <1>30,
       <1>31, <1>32, <1>33 DEF Next, Begin, Inside, Continue

(* Every step leaves the queue lock to whoever is in a section under it. *)
LEMMA QueueLockHeldNext ==
    ASSUME TypeOK, QueueLockHeld, ContextInv, RequestInv, QueueInv, Prompt,
           Next
    PROVE  QueueLockHeld'
<1> USE DEF semvars, waitvars, gatevars, tvars, cvars, TypeOK, QueueLockHeld
<1>1. ASSUME NEW t \in Threads, SeizeUnit(t) \/ SeizeWait(t) \/ Claim(t) \/
             CalloutNone(t) \/ CalloutTicks(t) \/ CalloutPast(t)
      PROVE  QueueLockHeld'
    BY <1>1, QueueAssumption DEF SeizeUnit, QueueLockFree, HasUnit, SeizeWait,
       Claim, LateTimeout, CalloutNone, CalloutTicks, CalloutPast,
       QueueAssumption, Ctx
<1>2. ASSUME NEW t \in Threads, CalloutReturn(t) \/ SetState(t) \/ TryBlock(t)
             \/ SelfUnblock(t) \/ Resume(t) \/ SurrenderUnit(t)
      PROVE  QueueLockHeld'
    BY <1>2 DEF CalloutReturn, SetState, TryBlock, StillIntends, SelfUnblock,
       Tranquil, TimerLeft, Resume, SurrenderUnit, QueueLockFree
<1>3. ASSUME NEW t \in Threads, FlushBegin(t) \/ Unblock(t) \/ WakeEnd(t)
      PROVE  QueueLockHeld'
    BY <1>3, QueueAssumption DEF FlushBegin, QueueLockFree, Unblock, WakeEnd,
       QueueAssumption, Ctx
<1>4. ASSUME NEW t \in Threads, NEW w \in Threads, SurrenderTo(t, w) \/
             FlushOne(t, w) \/ RemoveTimer(t, w)
      PROVE  QueueLockHeld'
    BY <1>4, QueueAssumption DEF SurrenderTo, QueueLockFree, MakeReady,
       MustUnblock, FlushOne, RemoveTimer, Tranquil, TimerLeft,
       QueueAssumption, Ctx
<1>5. ASSUME NEW t \in Threads, Enqueue(t) \/ FlushEnd(t)
      PROVE  QueueLockHeld'
  <2>1. qlock = t /\ qlock' = Free /\ UNCHANGED <<cpc, cqueue>>
      BY <1>5 DEF Enqueue, FlushEnd
  <2>2. cpc[t] = "idle"
      BY <1>5 DEF Enqueue, FlushEnd, ContextInv
  <2>3. \E q \in {"callout", "wake"} : tpc' = [tpc EXCEPT ![t] = q]
      BY <1>5 DEF Enqueue, FlushEnd
  <2>4. QED
      BY <2>1, <2>2, <2>3
<1>6. ASSUME NEW t \in Threads, Restore(t)
      PROVE  QueueLockHeld'
  <2>1. qlock = t /\ cpc[t] = "idle"
      BY <1>6 DEF Restore, ContextInv
  <2>2. \A c \in Ctx : cpc'[c] = cpc[c] /\ (cqueue'[c] => cqueue[c])
      BY <1>6, RestoreFacts
  <2>3. \/ tpc[t] = "restore" /\ qlock' = Free /\ tpc' = [tpc EXCEPT ![t] = "wake"]
        \/ tpc[t] = "flushrestore" /\ qlock' = t /\ tpc' = [tpc EXCEPT ![t] = "flush"]
      BY <1>6, <2>1 DEF Restore
  <2>4. QED
      BY <2>1, <2>2, <2>3
<1>7. ASSUME NEW c \in Ctx, AcquireDefault(c) \/ AcquireQueue(c) \/
             NotWaiting(c) \/ Change(c)
      PROVE  QueueLockHeld'
    BY <1>7, QueueAssumption DEF AcquireDefault, AcquireQueue, QueueLockFree,
       NotWaiting, Waits, Change, QueueAssumption, Ctx
<1>8. ASSUME NEW c \in Ctx, ReleaseDefault(c) \/ Remove(c) \/ Tranquilize(c) \/
             UnblockTarget(c)
      PROVE  QueueLockHeld'
    BY <1>8, QueueAssumption DEF ReleaseDefault, Released, Remove,
       RemoveRequest, Tranquilize, Tranquil, UnblockTarget, QueueAssumption,
       Ctx
<1>9. ASSUME NEW c \in Ctx, Backoff(c)
      PROVE  QueueLockHeld'
    BY <1>9, QueueAssumption DEF Backoff, RemoveRequest, RequestInv,
       QueueAssumption, Ctx
<1>10. ASSUME NEW c \in Ctx, Cancel(c)
      PROVE  QueueLockHeld'
    BY <1>10, QueueAssumption, SMTT(30) DEF Cancel, Waits, RestoreDefault, QueueAfter,
       RequestInv, QueueAssumption, Ctx
<1>11. ASSUME NEW c \in CPUs, NEW t \in Threads, Fire(c, t)
      PROVE  QueueLockHeld'
    BY <1>11, QueueAssumption DEF Fire, QueueAssumption, Ctx
<1>12. ASSUME NEW c \in Ctx, ReleaseQueue(c)
      PROVE  QueueLockHeld'
    BY <1>12, QueueAssumption DEF ReleaseQueue, ContextInv, QueueAssumption,
       Ctx
<1>13. QED
    BY ONLY Next, <1>1, <1>2, <1>3, <1>4, <1>5, <1>6, <1>7, <1>8, <1>9, <1>10,
       <1>11, <1>12 DEF Next, Begin, Inside, Continue

(* Every step keeps one context for a thread. *)
LEMMA ContextInvNext ==
    ASSUME TypeOK, ContextInv, TimerInv, Prompt, Next
    PROVE  ContextInv'
<1> USE DEF semvars, waitvars, gatevars, tvars, cvars, TypeOK, ContextInv
<1>1. ASSUME NEW t \in Threads, SeizeUnit(t) \/ SeizeWait(t) \/ Claim(t) \/
             Enqueue(t) \/ CalloutNone(t) \/ CalloutTicks(t)
      PROVE  ContextInv'
    BY <1>1 DEF SeizeUnit, QueueLockFree, HasUnit, SeizeWait, Claim,
       LateTimeout, Enqueue, CalloutNone, CalloutTicks
<1>2. ASSUME NEW t \in Threads, CalloutReturn(t) \/ SetState(t) \/ TryBlock(t)
             \/ SelfUnblock(t) \/ Resume(t) \/ SurrenderUnit(t)
      PROVE  ContextInv'
    BY <1>2 DEF CalloutReturn, SetState, TryBlock, StillIntends, SelfUnblock,
       Tranquil, TimerLeft, Resume, SurrenderUnit, QueueLockFree
<1>3. ASSUME NEW t \in Threads, FlushBegin(t) \/ FlushEnd(t) \/ Restore(t) \/
             Unblock(t) \/ WakeEnd(t)
      PROVE  ContextInv'
    BY <1>3 DEF FlushBegin, QueueLockFree, FlushEnd, Restore, RestoreDefault,
       QueueAfter, Unblock, WakeEnd
<1>4. ASSUME NEW t \in Threads, NEW w \in Threads, SurrenderTo(t, w) \/
             FlushOne(t, w) \/ RemoveTimer(t, w)
      PROVE  ContextInv'
    BY <1>4 DEF SurrenderTo, QueueLockFree, MakeReady, MustUnblock, FlushOne,
       RemoveTimer, Tranquil, TimerLeft
<1>5. ASSUME NEW t \in Threads, CalloutPast(t)
      PROVE  ContextInv'
    BY <1>5, QueueAssumption DEF CalloutPast, TimerInv, QueueAssumption, Ctx,
       InWait, NoTarget
<1>6. ASSUME NEW c \in CPUs, NEW t \in Threads, Fire(c, t)
      PROVE  ContextInv'
    BY <1>6, QueueAssumption DEF Fire, TimerInv, QueueAssumption, Ctx, InWait,
       NoTarget
<1>7. ASSUME NEW c \in Ctx, AcquireDefault(c) \/ AcquireQueue(c) \/ Backoff(c)
             \/ NotWaiting(c) \/ Cancel(c) \/ Change(c)
      PROVE  ContextInv'
    BY <1>7, QueueAssumption DEF AcquireDefault, AcquireQueue, QueueLockFree,
       Backoff, RemoveRequest, NotWaiting, Waits, Cancel, RestoreDefault,
       QueueAfter, Change, QueueAssumption, Ctx
<1>8. ASSUME NEW c \in Ctx, ReleaseQueue(c) \/ Tranquilize(c)
      PROVE  ContextInv'
    BY <1>8, QueueAssumption DEF ReleaseQueue, Tranquilize, Tranquil,
       QueueAssumption, Ctx
<1>9. ASSUME NEW c \in Ctx, ReleaseDefault(c) \/ Remove(c) \/ UnblockTarget(c)
      PROVE  ContextInv'
  <2>1. /\ cpc[c] # "idle" /\ UNCHANGED tpc
        /\ \/ cpc' = [cpc EXCEPT ![c] = "tranquilize"] /\ target' = target
           \/ /\ cpc' = [cpc EXCEPT ![c] = "idle"]
              /\ target' = [target EXCEPT ![c] = Free]
      BY <1>9, ReleasedCases DEF ReleaseDefault, Remove, UnblockTarget
  <2>2. \A d \in Ctx : target'[d] # Free => target'[d] = target[d]
      BY <2>1
  <2>3. \A d \in Ctx : cpc'[d] # "idle" => cpc[d] # "idle" /\ target'[d] = target[d]
      BY <2>1
  <2>4. \A t \in Threads : t \in Ctx
      BY DEF Ctx
  <2>5. QED
      BY <2>1, <2>2, <2>3, <2>4
<1>10. QED
    BY ONLY Next, <1>1, <1>2, <1>3, <1>4, <1>5, <1>6, <1>7, <1>8, <1>9 DEF
       Next, Begin, Inside, Continue

(* Every step keeps the timeouts of a wait apart from the next one. *)
LEMMA TimerInvNext ==
    ASSUME TypeOK, ContextInv, TimerInv, LeftInv, Prompt, Next
    PROVE  TimerInv'
<1> USE DEF semvars, waitvars, gatevars, tvars, cvars, TypeOK, TimerInv,
        InWait, NoTarget
<1>1. ASSUME NEW t \in Threads, SeizeUnit(t) \/ SeizeWait(t)
      PROVE  TimerInv'
    BY <1>1 DEF SeizeUnit, QueueLockFree, HasUnit, SeizeWait
<1>2. ASSUME NEW t \in Threads, SurrenderUnit(t) \/ FlushBegin(t) \/
             FlushEnd(t)
      PROVE  TimerInv'
    BY <1>2 DEF SurrenderUnit, QueueLockFree, FlushBegin, FlushEnd
<1>3. ASSUME NEW t \in Threads, Claim(t)
      PROVE  TimerInv'
  <2>1. NoTarget(t)
      BY <1>3, ClaimAlone
  <2>2. QED
      BY <1>3, <2>1 DEF Claim, NoTarget
<1>4. ASSUME NEW t \in Threads, Enqueue(t)
      PROVE  TimerInv'
    BY <1>4 DEF Enqueue
<1>5. ASSUME NEW t \in Threads, CalloutNone(t)
      PROVE  TimerInv'
    BY <1>5 DEF CalloutNone
<1>6. ASSUME NEW t \in Threads, CalloutTicks(t)
      PROVE  TimerInv'
    BY <1>6 DEF CalloutTicks
<1>7. ASSUME NEW t \in Threads, CalloutPast(t)
      PROVE  TimerInv'
    BY <1>7 DEF CalloutPast
<1>8. ASSUME NEW t \in Threads, CalloutReturn(t)
      PROVE  TimerInv'
    BY <1>8 DEF CalloutReturn
<1>9. ASSUME NEW t \in Threads, SetState(t)
      PROVE  TimerInv'
    BY <1>9 DEF SetState
<1>10. ASSUME NEW t \in Threads, TryBlock(t)
      PROVE  TimerInv'
  <2>1. /\ tpc[t] = "tryblock" /\ UNCHANGED <<timer, kind, target>>
        /\ \E q \in {"blocked", "self"} : tpc' = [tpc EXCEPT ![t] = q]
      BY <1>10 DEF TryBlock
  <2>2. QED
      BY <2>1
<1>11. ASSUME NEW t \in Threads, SelfUnblock(t)
      PROVE  TimerInv'
    BY <1>11 DEF SelfUnblock, Tranquil, TimerLeft
<1>12. ASSUME NEW t \in Threads, Resume(t)
      PROVE  TimerInv'
    BY <1>12, QueueAssumption DEF Resume, LeftInv, QueueAssumption, Ctx
<1>13. ASSUME NEW t \in Threads, Restore(t)
      PROVE  TimerInv'
    BY <1>13 DEF Restore, RestoreDefault, QueueAfter
<1>14. ASSUME NEW t \in Threads, Unblock(t)
      PROVE  TimerInv'
    BY <1>14 DEF Unblock
<1>15. ASSUME NEW t \in Threads, WakeEnd(t)
      PROVE  TimerInv'
    BY <1>15 DEF WakeEnd
<1>16. ASSUME NEW t \in Threads, NEW w \in Threads, SurrenderTo(t, w) \/
             FlushOne(t, w) \/ RemoveTimer(t, w)
      PROVE  TimerInv'
    BY <1>16, SMTT(30) DEF SurrenderTo, QueueLockFree, MakeReady, MustUnblock, FlushOne,
       RemoveTimer, Tranquil, TimerLeft
<1>17. ASSUME NEW c \in CPUs, NEW t \in Threads, Fire(c, t)
      PROVE  TimerInv'
    BY <1>17 DEF Fire
<1>18. ASSUME NEW c \in Ctx, ReleaseDefault(c) \/ Remove(c) \/ UnblockTarget(c)
      PROVE  TimerInv'
    BY <1>18, QueueAssumption DEF ReleaseDefault, Released, Remove,
       RemoveRequest, UnblockTarget, QueueAssumption, Ctx
<1>19. ASSUME NEW c \in Ctx, AcquireDefault(c) \/ AcquireQueue(c) \/ Backoff(c)
             \/ NotWaiting(c) \/ Cancel(c) \/ Change(c) \/ ReleaseQueue(c) \/
             Tranquilize(c)
      PROVE  TimerInv'
  <2>1. UNCHANGED <<tpc, target, timer, kind>>
      BY <1>19 DEF AcquireDefault, AcquireQueue, Backoff, RemoveRequest,
         NotWaiting, Cancel, RestoreDefault, Change, ReleaseQueue, Tranquilize
  <2>2. QED
      BY <2>1
<1>20. QED
    BY ONLY Next, <1>1, <1>2, <1>3, <1>4, <1>5, <1>6, <1>7, <1>8, <1>9, <1>10,
       <1>11, <1>12, <1>13, <1>14, <1>15, <1>16, <1>17, <1>18, <1>19 DEF Next,
       Begin, Inside, Continue

(* Every step keeps a context's view of the wait queue up to date. *)
LEMMA RequestInvNext ==
    ASSUME TypeOK, QueueLockHeld, ContextInv, TimerInv, RequestInv, PendingInv,
           FlagsInv, QueueInv, Prompt, Next
    PROVE  RequestInv'
<1> USE DEF semvars, waitvars, gatevars, tvars, cvars, TypeOK, RequestInv
<1>1. ASSUME NEW t \in Threads, Claim(t)
      PROVE  RequestInv'
  <2>1. NoTarget(t)
      BY <1>1, ClaimAlone
  <2>2. QED
      BY <1>1, <2>1 DEF Claim, NoTarget
<1>2. ASSUME NEW t \in Threads, Enqueue(t) \/ TryBlock(t)
      PROVE  RequestInv'
    BY <1>2 DEF Enqueue, TryBlock, StillIntends
<1>3. ASSUME NEW t \in Threads, CalloutPast(t)
      PROVE  RequestInv'
    BY <1>3, QueueAssumption DEF CalloutPast, ContextInv, QueueAssumption, Ctx
<1>4. ASSUME NEW t \in Threads, NEW w \in Threads, SurrenderTo(t, w)
      PROVE  RequestInv'
    BY <1>4, QueueAssumption DEF SurrenderTo, QueueLockFree, MakeReady,
       MustUnblock, FlagsInv, QueueAssumption, Ctx
<1>5. ASSUME NEW t \in Threads, NEW w \in Threads, FlushOne(t, w)
      PROVE  RequestInv'
    BY <1>5, QueueAssumption DEF FlushOne, MakeReady, MustUnblock, FlagsInv,
       QueueAssumption, Ctx
<1>6. ASSUME NEW t \in Threads, Restore(t)
      PROVE  RequestInv'
  <2>1. \A c \in Ctx : c \in pending[victim[t]] => target[c] = victim[t] /\ wq[victim[t]]
      BY <1>6, RestoreFacts DEF PendingInv
  <2>2. \A c \in Ctx : target[c] = victim[t] /\ cpc[c] \in {"queue", "critical"}
           => cqueue[c] /\ c \in pending[victim[t]]
      BY <1>6, RestoreFacts DEF PendingInv
  <2>3. \A c \in Ctx : target[c] # victim[t] => (cqueue'[c] <=> cqueue[c])
      BY <1>6, <2>1, RestoreFacts
  <2>4. \A c \in Ctx : cpc[c] \in {"change", "remove"} => (cqueue'[c] <=> cqueue[c])
      BY <1>6, <2>1, RestoreFacts
  <2>5. QED
      BY <1>6, <2>1, <2>2, <2>3, <2>4, RestoreFacts
<1>7. ASSUME NEW c \in CPUs, NEW t \in Threads, Fire(c, t)
      PROVE  RequestInv'
    BY <1>7 DEF Fire
<1>8. ASSUME NEW c \in Ctx, AcquireDefault(c) \/ AcquireQueue(c)
      PROVE  RequestInv'
    BY <1>8 DEF AcquireDefault, AcquireQueue, QueueLockFree
<1>9. ASSUME NEW c \in Ctx, ReleaseDefault(c) \/ ReleaseQueue(c)
      PROVE  RequestInv'
    BY <1>9, SMTT(30) DEF ReleaseDefault, Released, ReleaseQueue
<1>10. ASSUME NEW c \in Ctx, Tranquilize(c) \/ UnblockTarget(c)
      PROVE  RequestInv'
    BY <1>10 DEF Tranquilize, Tranquil, UnblockTarget
<1>11. ASSUME NEW c \in Ctx, Backoff(c)
      PROVE  RequestInv'
    BY <1>11 DEF Backoff, RemoveRequest
<1>12. ASSUME NEW c \in Ctx, Remove(c)
      PROVE  RequestInv'
    BY <1>12 DEF Remove, RemoveRequest, Released
<1>13. ASSUME NEW c \in Ctx, NotWaiting(c)
      PROVE  RequestInv'
  <2>1. /\ target[c] \in Threads /\ cpc[c] = "critical" /\ flags[target[c]] = "READY"
      BY <1>13, QueueAssumption DEF NotWaiting, Waits, QueueAssumption
  <2>2. ASSUME wq[target[c]] PROVE FALSE
    <3>1. cqueue[c] /\ qlock = c
        BY <2>1, <2>2 DEF QueueLockHeld
    <3>2. \A u \in Threads : tpc[u] \notin {"restore", "flushrestore"}
        BY <2>1, <3>1 DEF QueueLockHeld, ContextInv
    <3>3. tpc[target[c]] # "enqueue"
        BY <2>1 DEF TimerInv, NoTarget
    <3>4. QED
        BY <2>1, <2>2, <3>2, <3>3 DEF QueueInv, FlagsInv
  <2>3. QED
      BY <1>13, <2>1, <2>2 DEF NotWaiting
<1>14. ASSUME NEW c \in Ctx, Cancel(c)
      PROVE  RequestInv'
  <2>1. /\ target[c] \in Threads /\ flags[target[c]] # "READY"
        /\ cpc' = [cpc EXCEPT ![c] = "change"] /\ UNCHANGED <<target, flags>>
      BY <1>14, CancelCases
  <2>2. cqueue[c] /\ cqueue' = cqueue /\ wq' = [wq EXCEPT ![target[c]] = FALSE]
      BY <1>14, CancelFacts
  <2>3. \A d \in Ctx : target[d] = target[c] => d = c
      BY <2>1, QueueAssumption DEF ContextInv, QueueAssumption, Ctx
  <2>4. QED
      BY <2>1, <2>2, <2>3
<1>15. ASSUME NEW c \in Ctx, Change(c)
      PROVE  RequestInv'
    BY <1>15, QueueAssumption DEF Change, ContextInv, QueueAssumption, Ctx
<1>16. ASSUME NEW t \in Threads, SeizeUnit(t) \/ SeizeWait(t) \/ CalloutNone(t)
             \/ CalloutTicks(t) \/ CalloutReturn(t) \/ SetState(t) \/
             SelfUnblock(t) \/ Resume(t) \/ SurrenderUnit(t) \/ FlushBegin(t)
             \/ FlushEnd(t) \/ Unblock(t) \/ WakeEnd(t)
      PROVE  RequestInv'
  <2>1. UNCHANGED <<target, cpc, cqueue, wq, flags>>
      BY <1>16 DEF SeizeUnit, SeizeWait, CalloutNone, CalloutTicks,
         CalloutReturn, SetState, SelfUnblock, Resume, SurrenderUnit,
         FlushBegin, FlushEnd, Unblock, WakeEnd
  <2>2. QED
      BY <2>1
<1>17. ASSUME NEW t \in Threads, NEW w \in Threads, RemoveTimer(t, w)
      PROVE  RequestInv'
  <2>1. UNCHANGED <<target, cpc, cqueue, wq, flags>>
      BY <1>17 DEF RemoveTimer
  <2>2. QED
      BY <2>1
<1>18. QED
    BY ONLY Next, <1>1, <1>2, <1>3, <1>4, <1>5, <1>6, <1>7, <1>8, <1>9, <1>10,
       <1>11, <1>12, <1>13, <1>14, <1>15, <1>16, <1>17 DEF Next, Begin, Inside,
       Continue

(* Every step keeps requests and default locks with their contexts. *)
LEMMA PendingInvNext ==
    ASSUME TypeOK, QueueLockHeld, ContextInv, TimerInv, RequestInv, PendingInv,
           FlagsInv, QueueInv, Prompt, Next
    PROVE  PendingInv'
<1> USE DEF semvars, waitvars, gatevars, tvars, cvars, TypeOK, PendingInv
<1>1. ASSUME NEW t \in Threads, Claim(t)
      PROVE  PendingInv'
  <2>1. NoTarget(t)
      BY <1>1, ClaimAlone
  <2>2. QED
      BY <1>1, <2>1 DEF Claim, NoTarget
<1>2. ASSUME NEW t \in Threads, CalloutPast(t)
      PROVE  PendingInv'
    BY <1>2, QueueAssumption DEF CalloutPast, ContextInv, QueueAssumption, Ctx
<1>3. ASSUME NEW t \in Threads, Restore(t)
      PROVE  PendingInv'
  <2>1. \A c \in Ctx : cpc[c] \in {"critical", "release"} /\ cqueue[c] => FALSE
      BY <1>3 DEF Restore, QueueLockHeld, ContextInv
  <2>2. \A c \in Ctx : cpc[c] \in {"critical", "release"} => ~cqueue[c] /\ ~cqueue'[c]
      BY <1>3, <2>1, RestoreFacts
  <2>3. UNCHANGED <<pending, dlock, target, cpc>>
      BY <1>3, RestoreFacts
  <2>4. QED
      BY <2>2, <2>3
<1>4. ASSUME NEW c \in CPUs, NEW t \in Threads, Fire(c, t)
      PROVE  PendingInv'
    BY <1>4 DEF Fire
<1>5. ASSUME NEW c \in Ctx, AcquireDefault(c) \/ AcquireQueue(c) \/
             NotWaiting(c)
      PROVE  PendingInv'
    BY <1>5, QueueAssumption, SMTT(30) DEF AcquireDefault, AcquireQueue, QueueLockFree,
       NotWaiting, Waits, QueueAssumption, Ctx
<1>6. ASSUME NEW c \in Ctx, Backoff(c)
      PROVE  PendingInv'
    BY <1>6, QueueAssumption DEF Backoff, RemoveRequest, RequestInv,
       QueueAssumption, Ctx
<1>7. ASSUME NEW c \in Ctx, Cancel(c)
      PROVE  PendingInv'
  <2>1. cpc[c] = "critical" /\ cpc' = [cpc EXCEPT ![c] = "change"]
      BY <1>7, CancelCases
  <2>2. UNCHANGED <<pending, dlock, target>>
      BY <1>7, CancelCases
  <2>3. cqueue[c] /\ cqueue' = cqueue
      BY <1>7, CancelFacts
  <2>4. QED
      BY <2>1, <2>2, <2>3
<1>8. ASSUME NEW c \in Ctx, Change(c)
      PROVE  PendingInv'
    BY <1>8, QueueAssumption DEF Change, RequestInv, QueueAssumption, Ctx
<1>9. ASSUME NEW c \in Ctx, ReleaseDefault(c) \/ ReleaseQueue(c)
      PROVE  PendingInv'
    BY <1>9, QueueAssumption DEF ReleaseDefault, Released, ReleaseQueue,
       QueueAssumption, Ctx
<1>10. ASSUME NEW c \in Ctx, Remove(c)
      PROVE  PendingInv'
    BY <1>10 DEF Remove, RemoveRequest, Released
<1>11. ASSUME NEW c \in Ctx, Tranquilize(c) \/ UnblockTarget(c)
      PROVE  PendingInv'
    BY <1>11 DEF Tranquilize, Tranquil, UnblockTarget
<1>12. ASSUME NEW t \in Threads, SeizeUnit(t) \/ SeizeWait(t) \/ Enqueue(t) \/
             CalloutNone(t) \/ CalloutTicks(t) \/ CalloutReturn(t) \/
             SetState(t) \/ TryBlock(t) \/ SelfUnblock(t) \/ Resume(t) \/
             SurrenderUnit(t) \/ FlushBegin(t) \/ FlushEnd(t) \/ Unblock(t) \/
             WakeEnd(t)
      PROVE  PendingInv'
  <2>1. UNCHANGED <<pending, target, cpc, cqueue, dlock>>
      BY <1>12 DEF SeizeUnit, SeizeWait, Enqueue, CalloutNone, CalloutTicks,
         CalloutReturn, SetState, TryBlock, SelfUnblock, Resume, SurrenderUnit,
         FlushBegin, FlushEnd, Unblock, WakeEnd
  <2>2. QED
      BY <2>1
<1>13. ASSUME NEW t \in Threads, NEW w \in Threads, SurrenderTo(t, w) \/
             FlushOne(t, w) \/ RemoveTimer(t, w)
      PROVE  PendingInv'
  <2>1. UNCHANGED <<pending, target, cpc, cqueue, dlock>>
      BY <1>13 DEF SurrenderTo, MakeReady, FlushOne, RemoveTimer
  <2>2. QED
      BY <2>1
<1>14. QED
    BY ONLY Next, <1>1, <1>2, <1>3, <1>4, <1>5, <1>6, <1>7, <1>8, <1>9, <1>10,
       <1>11, <1>12, <1>13 DEF Next, Begin, Inside, Continue

(* Every step keeps the gate in step with the requests. *)
LEMMA GateInvNext ==
    ASSUME TypeOK, GateInv, Prompt, Next
    PROVE  GateInv'
<1> USE DEF semvars, waitvars, gatevars, tvars, cvars, TypeOK, GateInv
<1>1. ASSUME NEW t \in Threads, Claim(t)
      PROVE  GateInv'
    BY <1>1 DEF Claim, LateTimeout
<1>2. ASSUME NEW t \in Threads, Restore(t)
      PROVE  GateInv'
    BY <1>2 DEF Restore, RestoreDefault, QueueAfter
<1>3. ASSUME NEW c \in Ctx, AcquireDefault(c)
      PROVE  GateInv'
    BY <1>3 DEF AcquireDefault
<1>4. ASSUME NEW c \in Ctx, Backoff(c)
      PROVE  GateInv'
    BY <1>4 DEF Backoff, RemoveRequest
<1>5. ASSUME NEW c \in Ctx, Cancel(c)
      PROVE  GateInv'
  <2>1. target[c] \in Threads /\ pending' = pending
      BY <1>5, CancelCases
  <2>2. \/ /\ wq' = [wq EXCEPT ![target[c]] = FALSE]
           /\ tranq' = [tranq EXCEPT ![target[c]] =
                          IF pending[target[c]] = {} THEN "open" ELSE "chained"]
        \/ UNCHANGED <<wq, tranq>>
      BY <1>5, CancelCases
  <2>3. QED
      BY <2>1, <2>2
<1>6. ASSUME NEW c \in Ctx, Remove(c)
      PROVE  GateInv'
  <2>1. RemoveRequest(c, target[c]) /\ wq' = wq
      BY <1>6 DEF Remove
  <2>2. QED
      BY <2>1 DEF RemoveRequest
<1>7. ASSUME NEW t \in Threads, SeizeUnit(t) \/ SeizeWait(t) \/ Enqueue(t) \/
             CalloutNone(t) \/ CalloutTicks(t) \/ CalloutPast(t) \/
             CalloutReturn(t) \/ SetState(t) \/ TryBlock(t) \/ SelfUnblock(t)
             \/ Resume(t) \/ SurrenderUnit(t) \/ FlushBegin(t) \/ FlushEnd(t)
             \/ Unblock(t) \/ WakeEnd(t)
      PROVE  GateInv'
  <2>1. UNCHANGED <<tranq, wq, pending>>
      BY <1>7 DEF SeizeUnit, SeizeWait, Enqueue, CalloutNone, CalloutTicks,
         CalloutPast, CalloutReturn, SetState, TryBlock, SelfUnblock, Resume,
         SurrenderUnit, FlushBegin, FlushEnd, Unblock, WakeEnd
  <2>2. QED
      BY <2>1
<1>8. ASSUME NEW t \in Threads, NEW w \in Threads, SurrenderTo(t, w) \/
             FlushOne(t, w) \/ RemoveTimer(t, w)
      PROVE  GateInv'
  <2>1. UNCHANGED <<tranq, wq, pending>>
      BY <1>8 DEF SurrenderTo, MakeReady, FlushOne, RemoveTimer
  <2>2. QED
      BY <2>1
<1>9. ASSUME NEW c \in CPUs, NEW t \in Threads, Fire(c, t)
      PROVE  GateInv'
  <2>1. UNCHANGED <<tranq, wq, pending>>
      BY <1>9 DEF Fire
  <2>2. QED
      BY <2>1
<1>10. ASSUME NEW c \in Ctx, AcquireQueue(c) \/ NotWaiting(c) \/ Change(c) \/
             ReleaseDefault(c) \/ ReleaseQueue(c) \/ Tranquilize(c) \/
             UnblockTarget(c)
      PROVE  GateInv'
  <2>1. UNCHANGED <<tranq, wq, pending>>
      BY <1>10 DEF AcquireQueue, NotWaiting, Change, ReleaseDefault, Released,
         ReleaseQueue, Tranquilize, UnblockTarget
  <2>2. QED
      BY <2>1
<1>11. QED
    BY ONLY Next, <1>1, <1>2, <1>3, <1>4, <1>5, <1>6, <1>7, <1>8, <1>9, <1>10
       DEF Next, Begin, Inside, Continue

(* Every step keeps the wait flags in step with the thread. *)
LEMMA FlagsInvNext ==
    ASSUME TypeOK, ContextInv, RequestInv, PendingInv, FlagsInv, QueueInv,
           LeftInv, Prompt, Next
    PROVE  FlagsInv'
<1> USE DEF semvars, waitvars, gatevars, tvars, cvars, TypeOK, FlagsInv
<1>1. ASSUME NEW t \in Threads, SeizeUnit(t) \/ SeizeWait(t) \/ Claim(t) \/
             CalloutNone(t) \/ CalloutTicks(t) \/ CalloutReturn(t)
      PROVE  FlagsInv'
    BY <1>1 DEF SeizeUnit, QueueLockFree, HasUnit, SeizeWait, Claim,
       LateTimeout, CalloutNone, CalloutTicks, CalloutReturn
<1>2. ASSUME NEW t \in Threads, SetState(t) \/ TryBlock(t) \/ SelfUnblock(t) \/
             SurrenderUnit(t) \/ FlushBegin(t) \/ FlushEnd(t)
      PROVE  FlagsInv'
    BY <1>2 DEF SetState, TryBlock, StillIntends, SelfUnblock, Tranquil,
       TimerLeft, SurrenderUnit, QueueLockFree, FlushBegin, FlushEnd
<1>3. ASSUME NEW t \in Threads, Unblock(t) \/ WakeEnd(t)
      PROVE  FlagsInv'
    BY <1>3, SMTT(30) DEF Unblock, WakeEnd
<1>4. ASSUME NEW t \in Threads, Enqueue(t)
      PROVE  FlagsInv'
  <2>1. wq[t]
      BY <1>4 DEF Enqueue, QueueInv
  <2>2. /\ waiters' = waiters \cup {t} /\ flags' = [flags EXCEPT ![t] = "INTEND"]
        /\ tpc' = [tpc EXCEPT ![t] = "callout"] /\ UNCHANGED <<wq, target, cpc>>
      BY <1>4 DEF Enqueue
  <2>3. QED
      BY <2>1, <2>2
<1>5. ASSUME NEW t \in Threads, CalloutPast(t)
      PROVE  FlagsInv'
  <2>1. /\ cpc[t] = "idle" /\ tpc[t] = "callout"
        /\ target' = [target EXCEPT ![t] = t] /\ cpc' = [cpc EXCEPT ![t] = "default"]
        /\ tpc' = [tpc EXCEPT ![t] = "calling"] /\ UNCHANGED <<waiters, wq, flags>>
      BY <1>5 DEF CalloutPast, ContextInv
  <2>2. \A c \in Ctx : cpc[c] = "change" => cpc'[c] = "change" /\ target'[c] = target[c]
      BY <2>1 DEF Ctx
  <2>3. QED
      BY <2>1, <2>2
<1>6. ASSUME NEW t \in Threads, Resume(t)
      PROVE  FlagsInv'
  <2>1. ~wq[t] /\ pending[t] = {}
      BY <1>6 DEF Resume, LeftInv
  <2>2. flags[t] = "READY"
      BY <2>1 DEF RequestInv, PendingInv
  <2>3. /\ \E q \in {"own", "run"} : tpc' = [tpc EXCEPT ![t] = q]
        /\ UNCHANGED <<waiters, wq, flags, target, cpc>>
      BY <1>6 DEF Resume
  <2>4. QED
      BY <2>2, <2>3
<1>7. ASSUME NEW t \in Threads, NEW w \in Threads, SurrenderTo(t, w) \/
             FlushOne(t, w)
      PROVE  FlagsInv'
    BY <1>7, SMTT(30) DEF SurrenderTo, QueueLockFree, MakeReady, MustUnblock, FlushOne
<1>8. ASSUME NEW t \in Threads, NEW w \in Threads, RemoveTimer(t, w)
      PROVE  FlagsInv'
    BY <1>8 DEF RemoveTimer, Tranquil, TimerLeft
<1>9. ASSUME NEW t \in Threads, Restore(t)
      PROVE  FlagsInv'
  <2>1. /\ victim[t] \in Threads /\ flags[victim[t]] = "READY"
        /\ wq' = [wq EXCEPT ![victim[t]] = FALSE]
        /\ tpc[t] \in {"restore", "flushrestore"}
        /\ \E q \in {"wake", "flush"} : tpc' = [tpc EXCEPT ![t] = q]
        /\ UNCHANGED <<waiters, flags, target, cpc>>
      BY <1>9, RestoreFacts
  <2>2. QED
      BY <2>1
<1>10. ASSUME NEW c \in CPUs, NEW t \in Threads, Fire(c, t)
      PROVE  FlagsInv'
    BY <1>10 DEF Fire
<1>11. ASSUME NEW c \in Ctx, AcquireDefault(c) \/ AcquireQueue(c) \/ Backoff(c)
             \/ NotWaiting(c) \/ Cancel(c) \/ ReleaseDefault(c)
      PROVE  FlagsInv'
    BY <1>11 DEF AcquireDefault, AcquireQueue, QueueLockFree, Backoff,
       RemoveRequest, NotWaiting, Waits, Cancel, RestoreDefault, QueueAfter,
       ReleaseDefault, Released
<1>12. ASSUME NEW c \in Ctx, ReleaseQueue(c) \/ Remove(c)
      PROVE  FlagsInv'
    BY <1>12 DEF ReleaseQueue, Remove, RemoveRequest, Released
<1>13. ASSUME NEW c \in Ctx, Tranquilize(c) \/ UnblockTarget(c)
      PROVE  FlagsInv'
    BY <1>13 DEF Tranquilize, Tranquil, UnblockTarget
<1>14. ASSUME NEW c \in Ctx, Change(c)
      PROVE  FlagsInv'
    BY <1>14, QueueAssumption DEF Change, RequestInv, QueueAssumption, Ctx
<1>15. QED
    BY ONLY Next, <1>1, <1>2, <1>3, <1>4, <1>5, <1>6, <1>7, <1>8, <1>9, <1>10,
       <1>11, <1>12, <1>13, <1>14 DEF Next, Begin, Inside, Continue

(* Every step keeps Wait.queue until its restore. *)
LEMMA QueueInvNext ==
    ASSUME TypeOK, QueueLockHeld, ContextInv, TimerInv, RequestInv, PendingInv,
           FlagsInv, QueueInv, LeftInv, Prompt, Next
    PROVE  QueueInv'
<1> USE DEF semvars, waitvars, gatevars, tvars, cvars, TypeOK, QueueInv, InWait
<1>1. ASSUME NEW t \in Threads, SeizeUnit(t)
      PROVE  QueueInv'
    BY <1>1 DEF SeizeUnit, QueueLockFree, HasUnit
<1>2. ASSUME NEW t \in Threads, SeizeWait(t)
      PROVE  QueueInv'
    BY <1>2 DEF SeizeWait, QueueLockFree, HasUnit
<1>3. ASSUME NEW t \in Threads, Claim(t)
      PROVE  QueueInv'
    BY <1>3 DEF Claim, LateTimeout
<1>4. ASSUME NEW t \in Threads, Enqueue(t)
      PROVE  QueueInv'
    BY <1>4 DEF Enqueue
<1>5. ASSUME NEW t \in Threads, CalloutTicks(t)
      PROVE  QueueInv'
    BY <1>5 DEF CalloutTicks
<1>6. ASSUME NEW t \in Threads, CalloutReturn(t)
      PROVE  QueueInv'
    BY <1>6 DEF CalloutReturn
<1>7. ASSUME NEW t \in Threads, SetState(t)
      PROVE  QueueInv'
    BY <1>7, SMTT(30) DEF SetState
<1>8. ASSUME NEW t \in Threads, SelfUnblock(t)
      PROVE  QueueInv'
    BY <1>8 DEF SelfUnblock, Tranquil, TimerLeft
<1>9. ASSUME NEW t \in Threads, SurrenderUnit(t)
      PROVE  QueueInv'
    BY <1>9 DEF SurrenderUnit, QueueLockFree
<1>10. ASSUME NEW t \in Threads, FlushEnd(t)
      PROVE  QueueInv'
    BY <1>10 DEF FlushEnd
<1>11. ASSUME NEW t \in Threads, Unblock(t)
      PROVE  QueueInv'
    BY <1>11 DEF Unblock
<1>12. ASSUME NEW t \in Threads, NEW w \in Threads, RemoveTimer(t, w)
      PROVE  QueueInv'
    BY <1>12 DEF RemoveTimer, Tranquil, TimerLeft
<1>13. ASSUME NEW c \in Ctx, Change(c)
      PROVE  QueueInv'
    BY <1>13 DEF Change
<1>14. ASSUME NEW t \in Threads, CalloutNone(t) \/ FlushBegin(t) \/ WakeEnd(t)
      PROVE  QueueInv'
  <2>1. /\ tpc[t] \in {"callout", "run", "wake"} /\ UNCHANGED <<waiters, wq, flags>>
        /\ \A s \in Threads : s # t => victim'[s] = victim[s]
        /\ \E q \in {"setstate", "flush", "run"} :
              /\ q = "setstate" <=> tpc[t] = "callout"
              /\ tpc' = [tpc EXCEPT ![t] = q]
      BY <1>14 DEF CalloutNone, FlushBegin, WakeEnd
  <2>2. QED
      BY <2>1, SMTT(30)
<1>15. ASSUME NEW t \in Threads, CalloutPast(t)
      PROVE  QueueInv'
    BY <1>15 DEF CalloutPast
<1>16. ASSUME NEW t \in Threads, TryBlock(t)
      PROVE  QueueInv'
  <2>1. /\ tpc[t] = "tryblock" /\ UNCHANGED <<waiters, wq, victim>>
        /\ \E q \in {"blocked", "self"} : tpc' = [tpc EXCEPT ![t] = q]
        /\ \A s \in Threads : flags[s] = "READY" => flags'[s] = "READY"
      BY <1>16 DEF TryBlock, StillIntends
  <2>2. QED
      BY <2>1
<1>17. ASSUME NEW t \in Threads, Resume(t)
      PROVE  QueueInv'
    BY <1>17, QueueAssumption DEF Resume, LeftInv, QueueAssumption, Ctx
<1>18. ASSUME NEW t \in Threads, NEW w \in Threads, SurrenderTo(t, w) \/
             FlushOne(t, w)
      PROVE  QueueInv'
  <2>1. /\ flags[w] # "READY" /\ InWait(w) /\ w \in waiters
        /\ flags[w] # "INTEND" => tpc[w] = "blocked" /\ state[w] = "blocked"
      BY <1>18, WaiterFacts DEF SurrenderTo, FlushOne

  <2>2. /\ waiters' = waiters \ {w} /\ flags' = [flags EXCEPT ![w] = "READY"]
        /\ victim' = [victim EXCEPT ![t] = w] /\ wq' = wq
        /\ tpc[t] \in {"own", "flush"}
        /\ \E q \in {"restore", "flushrestore"} : tpc' = [tpc EXCEPT ![t] = q]
      BY <1>18 DEF SurrenderTo, FlushOne, MakeReady
  <2>3. wq[w] /\ t # w
      BY <2>1, <2>2 DEF FlagsInv
  <2>4. QED
      BY <2>1, <2>2, <2>3
<1>19. ASSUME NEW t \in Threads, Restore(t)
      PROVE  QueueInv'
    BY <1>19, QueueAssumption DEF Restore, RestoreDefault, QueueAfter,
       QueueLockHeld, QueueAssumption, Ctx
<1>20. ASSUME NEW c \in Ctx, Cancel(c)
      PROVE  QueueInv'
  <2>1. /\ target[c] \in Threads /\ flags[target[c]] # "READY"
        /\ UNCHANGED <<tpc, victim, flags>>
      BY <1>20, CancelCases
  <2>2. /\ waiters' = waiters \ {target[c]} /\ wq' = [wq EXCEPT ![target[c]] = FALSE]
      BY <1>20, CancelFacts
  <2>3. tpc[target[c]] # "enqueue"
      BY <2>1 DEF TimerInv, NoTarget
  <2>4. QED
      BY <2>1, <2>2, <2>3
<1>21. ASSUME NEW c \in CPUs, NEW t \in Threads, Fire(c, t)
      PROVE  QueueInv'
  <2>1. UNCHANGED <<wq, waiters, tpc, victim, flags>>
      BY <1>21 DEF Fire
  <2>2. QED
      BY <2>1
<1>22. ASSUME NEW c \in Ctx, AcquireDefault(c) \/ AcquireQueue(c) \/ Backoff(c)
             \/ NotWaiting(c) \/ ReleaseDefault(c) \/ ReleaseQueue(c) \/
             Remove(c) \/ Tranquilize(c) \/ UnblockTarget(c)
      PROVE  QueueInv'
  <2>1. UNCHANGED <<wq, waiters, tpc, victim, flags>>
      BY <1>22 DEF AcquireDefault, AcquireQueue, Backoff, RemoveRequest,
         NotWaiting, ReleaseDefault, Released, ReleaseQueue, Remove,
         Tranquilize, UnblockTarget
  <2>2. QED
      BY <2>1
<1>23. QED
    BY ONLY Next, <1>1, <1>2, <1>3, <1>4, <1>5, <1>6, <1>7, <1>8, <1>9, <1>10,
       <1>11, <1>12, <1>13, <1>14, <1>15, <1>16, <1>17, <1>18, <1>19, <1>20,
       <1>21, <1>22 DEF Next, Begin, Inside, Continue

(* Every step keeps one thread with the duty to unblock another. *)
LEMMA DutyInvNext ==
    ASSUME TypeOK, PendingInv, GateInv, FlagsInv, DutyInv, UnblockInv, LeftInv,
           Prompt, Next
    PROVE  DutyInv'
<1> USE DEF semvars, waitvars, gatevars, tvars, cvars, TypeOK, DutyInv
<1>1. ASSUME NEW t \in Threads, SeizeUnit(t)
      PROVE  DutyInv'
    BY <1>1 DEF SeizeUnit, QueueLockFree, HasUnit
<1>2. ASSUME NEW t \in Threads, SeizeWait(t)
      PROVE  DutyInv'
    BY <1>2 DEF SeizeWait, QueueLockFree, HasUnit
<1>3. ASSUME NEW t \in Threads, Claim(t)
      PROVE  DutyInv'
    BY <1>3 DEF Claim, LateTimeout
<1>4. ASSUME NEW t \in Threads, Enqueue(t)
      PROVE  DutyInv'
    BY <1>4 DEF Enqueue
<1>5. ASSUME NEW t \in Threads, CalloutNone(t)
      PROVE  DutyInv'
    BY <1>5 DEF CalloutNone
<1>6. ASSUME NEW t \in Threads, CalloutTicks(t)
      PROVE  DutyInv'
    BY <1>6 DEF CalloutTicks
<1>7. ASSUME NEW t \in Threads, CalloutPast(t)
      PROVE  DutyInv'
    BY <1>7 DEF CalloutPast
<1>8. ASSUME NEW t \in Threads, CalloutReturn(t)
      PROVE  DutyInv'
    BY <1>8 DEF CalloutReturn
<1>9. ASSUME NEW t \in Threads, SetState(t)
      PROVE  DutyInv'
    BY <1>9 DEF SetState
<1>10. ASSUME NEW t \in Threads, SelfUnblock(t)
      PROVE  DutyInv'
    BY <1>10 DEF SelfUnblock, Tranquil, TimerLeft
<1>11. ASSUME NEW t \in Threads, Resume(t)
      PROVE  DutyInv'
    BY <1>11 DEF Resume
<1>12. ASSUME NEW t \in Threads, SurrenderUnit(t)
      PROVE  DutyInv'
    BY <1>12 DEF SurrenderUnit, QueueLockFree
<1>13. ASSUME NEW t \in Threads, FlushBegin(t) \/ FlushEnd(t)
      PROVE  DutyInv'
    BY <1>13 DEF FlushBegin, QueueLockFree, FlushEnd
<1>14. ASSUME NEW t \in Threads, Restore(t)
      PROVE  DutyInv'
    BY <1>14 DEF Restore, RestoreDefault, QueueAfter
<1>15. ASSUME NEW t \in Threads, Unblock(t)
      PROVE  DutyInv'
    BY <1>15 DEF Unblock
<1>16. ASSUME NEW t \in Threads, WakeEnd(t)
      PROVE  DutyInv'
    BY <1>16 DEF WakeEnd
<1>17. ASSUME NEW c \in CPUs, NEW t \in Threads, Fire(c, t)
      PROVE  DutyInv'
    BY <1>17 DEF Fire
<1>18. ASSUME NEW c \in Ctx, Backoff(c)
      PROVE  DutyInv'
    BY <1>18 DEF Backoff, RemoveRequest
<1>19. ASSUME NEW c \in Ctx, Change(c)
      PROVE  DutyInv'
    BY <1>19 DEF Change
<1>20. ASSUME NEW c \in Ctx, Remove(c)
      PROVE  DutyInv'
    BY <1>20 DEF Remove, RemoveRequest, Released
<1>21. ASSUME NEW t \in Threads, TryBlock(t)
      PROVE  DutyInv'
  <2>1. /\ tpc[t] = "tryblock"
        /\ UNCHANGED <<state, ulist, victim, timer, wq, pending>>
        /\ \E q \in {"blocked", "self"} : tpc' = [tpc EXCEPT ![t] = q]
        /\ \A s \in Threads : s # t => flags'[s] = flags[s]
      BY <1>21 DEF TryBlock
  <2>2. QED
      BY <2>1
<1>22. ASSUME NEW t \in Threads, NEW w \in Threads, SurrenderTo(t, w) \/
             FlushOne(t, w)
      PROVE  DutyInv'
  <2>1. /\ flags[w] # "READY" /\ InWait(w) /\ w \in waiters
        /\ flags[w] # "INTEND" => tpc[w] = "blocked" /\ state[w] = "blocked"
      BY <1>22, WaiterFacts DEF SurrenderTo, FlushOne

  <2>2. /\ flags' = [flags EXCEPT ![w] = "READY"] /\ victim' = [victim EXCEPT ![t] = w]
        /\ ulist' = ulist \/ (flags[w] # "INTEND"
                               /\ ulist' = [ulist EXCEPT ![t] = @ \cup {w}])
        /\ tpc[t] \in {"own", "flush"}
        /\ \E q \in {"restore", "flushrestore"} : tpc' = [tpc EXCEPT ![t] = q]
        /\ UNCHANGED <<state, timer, wq, pending>>
      BY <1>22 DEF SurrenderTo, FlushOne, MakeReady, MustUnblock
  <2>3. t # w
      BY <2>1, <2>2 DEF FlagsInv
  <2>4. \A u \in Threads : w \notin ulist[u]
      BY <2>1
  <2>5. QED
      BY <2>1, <2>2, <2>3, <2>4
<1>23. ASSUME NEW t \in Threads, NEW w \in Threads, RemoveTimer(t, w)
      PROVE  DutyInv'
  <2>1. ~wq[w] /\ pending[w] = {}
      BY <1>23 DEF RemoveTimer, Tranquil, GateInv
  <2>2. /\ tpc[t] = "wake" /\ w \in ulist[t] /\ timer' = [timer EXCEPT ![w] = FALSE]
        /\ victim' = [victim EXCEPT ![t] = w] /\ tpc' = [tpc EXCEPT ![t] = "unblock"]
        /\ UNCHANGED <<state, flags, ulist, wq, pending>>
      BY <1>23 DEF RemoveTimer, TimerLeft
  <2>3. QED
      BY <2>1, <2>2
<1>24. ASSUME NEW c \in Ctx, AcquireDefault(c)
      PROVE  DutyInv'
  <2>1. /\ UNCHANGED <<tpc, state, flags, ulist, victim, timer, wq>>
        /\ target[c] \in Threads
      BY <1>24, AcquireDefaultCases
  <2>2. \/ /\ wq[target[c]]
           /\ pending' = [pending EXCEPT ![target[c]] = @ \cup {c}]
        \/ pending' = pending
      BY <1>24, AcquireDefaultCases
  <2>3. \A t \in Threads : ~wq[t] => pending'[t] = pending[t]
      BY <2>1, <2>2
  <2>4. QED
      BY <2>1, <2>3
<1>25. ASSUME NEW c \in Ctx, Cancel(c)
      PROVE  DutyInv'
    BY <1>25, QueueAssumption DEF Cancel, Waits, RestoreDefault, QueueAfter,
       PendingInv, QueueAssumption, Ctx
<1>26. ASSUME NEW c \in Ctx, UnblockTarget(c)
      PROVE  DutyInv'
  <2>1. /\ target[c] \in Threads /\ unblock[c]
      BY <1>26, QueueAssumption DEF UnblockTarget, UnblockInv, QueueAssumption
  <2>2. \A u \in Threads : target[c] \notin ulist[u]
      BY <2>1 DEF UnblockInv
  <2>3. /\ state' = [state EXCEPT ![target[c]] = "ready"]
        /\ UNCHANGED <<tpc, flags, ulist, victim, timer, wq, pending>>
      BY <1>26 DEF UnblockTarget
  <2>4. QED
      BY <2>1, <2>2, <2>3
<1>27. ASSUME NEW c \in Ctx, AcquireQueue(c) \/ NotWaiting(c) \/
             ReleaseDefault(c) \/ ReleaseQueue(c) \/ Tranquilize(c)
      PROVE  DutyInv'
  <2>1. UNCHANGED <<tpc, state, flags, ulist, victim, timer, wq, pending>>
      BY <1>27 DEF AcquireQueue, NotWaiting, ReleaseDefault, Released,
         ReleaseQueue, Tranquilize
  <2>2. QED
      BY <2>1
<1>28. QED
    BY ONLY Next, <1>1, <1>2, <1>3, <1>4, <1>5, <1>6, <1>7, <1>8, <1>9, <1>10,
       <1>11, <1>12, <1>13, <1>14, <1>15, <1>16, <1>17, <1>18, <1>19, <1>20,
       <1>21, <1>22, <1>23, <1>24, <1>25, <1>26, <1>27 DEF Next, Begin, Inside,
       Continue

(* Every step keeps the duty of a timeout apart from those of the threads. *)
LEMMA UnblockInvNext ==
    ASSUME TypeOK, ContextInv, TimerInv, RequestInv, PendingInv, FlagsInv,
           QueueInv, DutyInv, UnblockInv, LeftInv, Prompt, Next
    PROVE  UnblockInv'
<1> USE DEF semvars, waitvars, gatevars, tvars, cvars, TypeOK, UnblockInv
<1>1. ASSUME NEW t \in Threads, SeizeUnit(t) \/ SeizeWait(t) \/ Claim(t) \/
             Enqueue(t) \/ CalloutNone(t) \/ CalloutTicks(t)
      PROVE  UnblockInv'
    BY <1>1 DEF SeizeUnit, QueueLockFree, HasUnit, SeizeWait, Claim,
       LateTimeout, Enqueue, CalloutNone, CalloutTicks
<1>2. ASSUME NEW t \in Threads, CalloutReturn(t) \/ SetState(t) \/ TryBlock(t)
             \/ SelfUnblock(t) \/ Resume(t) \/ SurrenderUnit(t)
      PROVE  UnblockInv'
    BY <1>2 DEF CalloutReturn, SetState, TryBlock, StillIntends, SelfUnblock,
       Tranquil, TimerLeft, Resume, SurrenderUnit, QueueLockFree
<1>3. ASSUME NEW t \in Threads, FlushBegin(t) \/ FlushEnd(t) \/ WakeEnd(t)
      PROVE  UnblockInv'
    BY <1>3 DEF FlushBegin, QueueLockFree, FlushEnd, WakeEnd
<1>4. ASSUME NEW t \in Threads, CalloutPast(t)
      PROVE  UnblockInv'
  <2>1. cpc[t] = "idle" /\ tpc[t] = "callout"
      BY <1>4 DEF CalloutPast, ContextInv
  <2>2. ~unblock[t]
      BY <2>1 DEF Ctx
  <2>3. /\ target' = [target EXCEPT ![t] = t] /\ cpc' = [cpc EXCEPT ![t] = "default"]
        /\ tpc' = [tpc EXCEPT ![t] = "calling"]
        /\ UNCHANGED <<unblock, cqueue, state, flags, ulist>>
      BY <1>4 DEF CalloutPast
  <2>4. QED
      BY <2>1, <2>2, <2>3
<1>5. ASSUME NEW t \in Threads, NEW w \in Threads, SurrenderTo(t, w) \/
             FlushOne(t, w)
      PROVE  UnblockInv'
  <2>1. /\ flags[w] # "READY" /\ InWait(w) /\ w \in waiters
        /\ flags[w] # "INTEND" => tpc[w] = "blocked" /\ state[w] = "blocked"
      BY <1>5, WaiterFacts DEF SurrenderTo, FlushOne

  <2>2. \A c \in Ctx : target[c] = w => ~unblock[c]
      BY <2>1
  <2>3. /\ flags' = [flags EXCEPT ![w] = "READY"]
        /\ \A s, u \in Threads : s # w => (s \in ulist'[u] <=> s \in ulist[u])
        /\ tpc[t] \in {"own", "flush"}
        /\ \E q \in {"restore", "flushrestore"} : tpc' = [tpc EXCEPT ![t] = q]
        /\ UNCHANGED <<state, unblock, cpc, cqueue, target>>
      BY <1>5 DEF SurrenderTo, FlushOne, MakeReady, MustUnblock
  <2>4. QED
      BY <2>1, <2>2, <2>3
<1>6. ASSUME NEW t \in Threads, Restore(t)
      PROVE  UnblockInv'
  <2>1. /\ victim[t] \in Threads /\ wq[victim[t]] /\ tpc[t] \in {"restore", "flushrestore"}
        /\ \A c \in Ctx : cqueue'[c] <=> (cqueue[c] /\ c \notin pending[victim[t]])
        /\ \E q \in {"wake", "flush"} : tpc' = [tpc EXCEPT ![t] = q]
        /\ UNCHANGED <<state, flags, unblock, cpc, target, ulist>>
      BY <1>6, RestoreFacts
  <2>2. \A c \in Ctx : cpc[c] = "release" => c \notin pending[victim[t]]
      BY <2>1 DEF PendingInv, RequestInv
  <2>3. QED
      BY <2>1, <2>2
<1>7. ASSUME NEW t \in Threads, NEW w \in Threads, RemoveTimer(t, w)
      PROVE  UnblockInv'
    BY <1>7 DEF RemoveTimer, Tranquil, TimerLeft
<1>8. ASSUME NEW t \in Threads, Unblock(t)
      PROVE  UnblockInv'
    BY <1>8, QueueAssumption DEF Unblock, DutyInv, QueueAssumption, Ctx
<1>9. ASSUME NEW c \in CPUs, NEW t \in Threads, Fire(c, t)
      PROVE  UnblockInv'
    BY <1>9, SMTT(30) DEF Fire
<1>10. ASSUME NEW c \in Ctx, AcquireDefault(c)
      PROVE  UnblockInv'
    BY <1>10 DEF AcquireDefault
<1>11. ASSUME NEW c \in Ctx, AcquireQueue(c)
      PROVE  UnblockInv'
    BY <1>11, QueueAssumption DEF AcquireQueue, QueueLockFree, QueueAssumption,
       Ctx
<1>12. ASSUME NEW c \in Ctx, NotWaiting(c) \/ ReleaseQueue(c)
      PROVE  UnblockInv'
    BY <1>12, SMTT(30) DEF NotWaiting, Waits, ReleaseQueue
<1>13. ASSUME NEW c \in Ctx, Backoff(c)
      PROVE  UnblockInv'
    BY <1>13 DEF Backoff, RemoveRequest
<1>14. ASSUME NEW c \in Ctx, Cancel(c)
      PROVE  UnblockInv'
  <2>1. /\ cpc[c] = "critical" /\ cpc' = [cpc EXCEPT ![c] = "change"]
        /\ UNCHANGED <<unblock, target, tpc, state, flags, ulist>>
      BY <1>14, CancelCases
  <2>2. cqueue' = cqueue
      BY <1>14, CancelFacts
  <2>3. QED
      BY <2>1, <2>2
<1>15. ASSUME NEW c \in Ctx, Change(c)
      PROVE  UnblockInv'
  <2> DEFINE t == target[c]
  <2>1. /\ t \in Threads /\ cpc[c] = "change" /\ cqueue[c] /\ flags[t] # "READY"
        /\ c \in pending[t]
      BY <1>15, QueueAssumption DEF Change, QueueAssumption, RequestInv, PendingInv
  <2>2. flags[t] # "INTEND" => tpc[t] = "blocked" /\ state[t] = "blocked"
      BY <2>1 DEF FlagsInv, LeftInv
  <2>3. \A u \in Threads : t \notin ulist[u]
      BY <2>1 DEF DutyInv
  <2> DEFINE b == flags[t] # "INTEND"
  <2>6. b \in BOOLEAN /\ unblock' = [unblock EXCEPT ![c] = b]
      BY <1>15 DEF Change
  <2> HIDE DEF b
  <2>7. (unblock'[c] <=> b) /\ \A d \in Ctx : d # c => unblock'[d] = unblock[d]
      BY <2>6
  <2> USE DEF b
  <2>4. /\ flags' = [flags EXCEPT ![t] = "READY"] /\ cpc' = [cpc EXCEPT ![c] = "release"]
        /\ UNCHANGED <<cqueue, target, tpc, state, ulist>>
      BY <1>15 DEF Change
  <2>5. QED
      BY <2>1, <2>2, <2>3, <2>4, <2>7, SMTT(30)
<1>16. ASSUME NEW c \in Ctx, ReleaseDefault(c) \/ Remove(c)
      PROVE  UnblockInv'
  <2>1. /\ \/ unblock[c] /\ cpc' = [cpc EXCEPT ![c] = "tranquilize"] /\ target' = target
           \/ /\ ~unblock[c] /\ cpc' = [cpc EXCEPT ![c] = "idle"]
              /\ target' = [target EXCEPT ![c] = Free]
      BY <1>16, ReleasedCases DEF ReleaseDefault, Remove
  <2>2. /\ UNCHANGED <<tpc, state, flags, ulist, unblock>>
        /\ \A d \in Ctx : d # c => cqueue'[d] = cqueue[d]
      BY <1>16 DEF ReleaseDefault, Remove
  <2>3. \A d \in Ctx : unblock'[d] => target'[d] = target[d]
      BY <2>1, <2>2
  <2>4. \A d \in Ctx : d # c => cpc'[d] = cpc[d]
      BY <2>1
  <2>5. /\ unblock[c] => cpc'[c] = "tranquilize"
        /\ ~unblock[c] => cpc'[c] = "idle"
      BY <2>1
  <2>6. \A d \in Ctx :
          /\ unblock'[d] => cpc'[d] \in {"release", "remove", "tranquilize", "unblock"}
          /\ cpc'[d] \in {"tranquilize", "unblock"} => unblock'[d]
          /\ unblock'[d] /\ cpc'[d] = "release" => cqueue'[d]
    <3>1. ASSUME NEW d \in Ctx, d # c
          PROVE  cpc'[d] = cpc[d] /\ unblock'[d] = unblock[d] /\ cqueue'[d] = cqueue[d]
        BY <2>2, <2>4, <3>1
    <3>2. unblock'[c] = unblock[c]
        BY <2>2
    <3>3. QED
        BY <2>5, <3>1, <3>2
  <2>7. \A d \in Ctx, t \in Threads : unblock'[d] /\ target'[d] = t =>
           /\ tpc'[t] = "blocked" /\ state'[t] = "blocked" /\ flags'[t] = "READY"
           /\ \A u \in Threads : t \notin ulist'[u]
      BY <2>2, <2>3
  <2>8. QED
      BY <2>6, <2>7
<1>17. ASSUME NEW c \in Ctx, Tranquilize(c)
      PROVE  UnblockInv'
    BY <1>17 DEF Tranquilize, Tranquil
<1>18. ASSUME NEW c \in Ctx, UnblockTarget(c)
      PROVE  UnblockInv'
    BY <1>18, QueueAssumption DEF UnblockTarget, ContextInv, QueueAssumption,
       Ctx
<1>19. QED
    BY ONLY Next, <1>1, <1>2, <1>3, <1>4, <1>5, <1>6, <1>7, <1>8, <1>9, <1>10,
       <1>11, <1>12, <1>13, <1>14, <1>15, <1>16, <1>17, <1>18 DEF Next, Begin,
       Inside, Continue

(* Every step keeps the returning threads clean. *)
LEMMA LeftInvNext ==
    ASSUME TypeOK, ContextInv, TimerInv, RequestInv, PendingInv, GateInv,
           DutyInv, UnblockInv, LeftInv, Prompt, Next
    PROVE  LeftInv'
<1> USE DEF semvars, waitvars, gatevars, tvars, cvars, TypeOK, LeftInv, InWait
<1>1. ASSUME NEW t \in Threads, SeizeUnit(t) \/ SeizeWait(t) \/ Claim(t) \/
             Enqueue(t) \/ CalloutNone(t) \/ CalloutTicks(t)
      PROVE  LeftInv'
    BY <1>1 DEF SeizeUnit, QueueLockFree, HasUnit, SeizeWait, Claim,
       LateTimeout, Enqueue, CalloutNone, CalloutTicks
<1>2. ASSUME NEW t \in Threads, CalloutPast(t) \/ CalloutReturn(t) \/
             SetState(t) \/ TryBlock(t) \/ Resume(t) \/ SurrenderUnit(t)
      PROVE  LeftInv'
    BY <1>2 DEF CalloutPast, CalloutReturn, SetState, TryBlock, StillIntends,
       Resume, SurrenderUnit, QueueLockFree
<1>3. ASSUME NEW t \in Threads, FlushBegin(t)
      PROVE  LeftInv'
    BY <1>3 DEF FlushBegin, QueueLockFree
<1>4. ASSUME NEW t \in Threads, FlushEnd(t)
      PROVE  LeftInv'
    BY <1>4 DEF FlushEnd
<1>5. ASSUME NEW t \in Threads, Restore(t)
      PROVE  LeftInv'
    BY <1>5 DEF Restore, RestoreDefault, QueueAfter
<1>6. ASSUME NEW t \in Threads, WakeEnd(t)
      PROVE  LeftInv'
    BY <1>6 DEF WakeEnd
<1>7. ASSUME NEW t \in Threads, NEW w \in Threads, SurrenderTo(t, w) \/
             FlushOne(t, w) \/ RemoveTimer(t, w)
      PROVE  LeftInv'
    BY <1>7 DEF SurrenderTo, QueueLockFree, MakeReady, MustUnblock, FlushOne,
       RemoveTimer, Tranquil, TimerLeft
<1>8. ASSUME NEW t \in Threads, SelfUnblock(t)
      PROVE  LeftInv'
  <2>1. ~wq[t] /\ pending[t] = {}
      BY <1>8 DEF SelfUnblock, Tranquil, GateInv
  <2>2. /\ timer' = [timer EXCEPT ![t] = FALSE] /\ state' = [state EXCEPT ![t] = "ready"]
        /\ tpc[t] = "self" /\ tpc' = [tpc EXCEPT ![t] = "blocked"]
        /\ UNCHANGED <<wq, pending>>
      BY <1>8 DEF SelfUnblock, TimerLeft
  <2>3. QED
      BY <2>1, <2>2
<1>9. ASSUME NEW t \in Threads, Unblock(t)
      PROVE  LeftInv'
    BY <1>9, QueueAssumption DEF Unblock, DutyInv, QueueAssumption, Ctx
<1>10. ASSUME NEW c \in CPUs, NEW t \in Threads, Fire(c, t)
      PROVE  LeftInv'
    BY <1>10 DEF Fire
<1>11. ASSUME NEW c \in Ctx, AcquireDefault(c) \/ Backoff(c) \/ Remove(c)
      PROVE  LeftInv'
    BY <1>11, QueueAssumption DEF AcquireDefault, Backoff, RemoveRequest,
       Remove, Released, QueueAssumption, Ctx
<1>12. ASSUME NEW c \in Ctx, Cancel(c)
      PROVE  LeftInv'
    BY <1>12, QueueAssumption DEF Cancel, Waits, RestoreDefault, QueueAfter,
       TimerInv, QueueAssumption, Ctx, NoTarget
<1>13. ASSUME NEW c \in Ctx, UnblockTarget(c)
      PROVE  LeftInv'
  <2> DEFINE t == target[c]
  <2>1. t \in Threads /\ cpc[c] = "unblock" /\ unblock[c]
      BY <1>13, QueueAssumption DEF UnblockTarget, QueueAssumption, UnblockInv
  <2>2. \A d \in Ctx : target[d] = t => d = c
      BY <2>1, QueueAssumption DEF ContextInv, QueueAssumption, Ctx
  <2>3. pending[t] = {}
    <3>1. pending[t] \subseteq Ctx
        BY <2>1
    <3>2. c \notin pending[t]
        BY <2>1, SMTT(30) DEF PendingInv
    <3>3. \A d \in Ctx : d \in pending[t] => target[d] = t
        BY <2>1 DEF PendingInv
    <3>4. QED
        BY <2>2, <3>1, <3>2, <3>3
  <2>4. ~wq[t] /\ ~timer[t] /\ tpc[t] = "blocked"
      BY <2>1 DEF RequestInv, TimerInv, NoTarget, UnblockInv
  <2>5. /\ state' = [state EXCEPT ![t] = "ready"]
        /\ UNCHANGED <<tpc, wq, pending, timer>>
      BY <1>13 DEF UnblockTarget
  <2>6. QED
      BY <2>1, <2>3, <2>4, <2>5
<1>14. ASSUME NEW c \in Ctx, AcquireQueue(c) \/ NotWaiting(c) \/ Change(c) \/
             ReleaseDefault(c) \/ ReleaseQueue(c) \/ Tranquilize(c)
      PROVE  LeftInv'
  <2>1. UNCHANGED <<state, tpc, wq, pending, timer>>
      BY <1>14 DEF AcquireQueue, NotWaiting, Change, ReleaseDefault, Released,
         ReleaseQueue, Tranquilize
  <2>2. QED
      BY <2>1
<1>15. QED
    BY ONLY Next, <1>1, <1>2, <1>3, <1>4, <1>5, <1>6, <1>7, <1>8, <1>9, <1>10,
       <1>11, <1>12, <1>13, <1>14 DEF Next, Begin, Inside, Continue

(* Every step keeps one outcome for a wait. *)
LEMMA OutcomeInvNext ==
    ASSUME TypeOK, QueueLockHeld, ContextInv, TimerInv, RequestInv, PendingInv,
           FlagsInv, QueueInv, OutcomeInv, Prompt, Next
    PROVE  OutcomeInv'
<1> USE DEF semvars, waitvars, gatevars, tvars, cvars, TypeOK, OutcomeInv,
        InWait
<1>1. ASSUME NEW t \in Threads, SeizeUnit(t) \/ SeizeWait(t) \/ Claim(t) \/
             Enqueue(t) \/ CalloutNone(t) \/ CalloutTicks(t)
      PROVE  OutcomeInv'
    BY <1>1 DEF SeizeUnit, QueueLockFree, HasUnit, SeizeWait, Claim,
       LateTimeout, Enqueue, CalloutNone, CalloutTicks
<1>2. ASSUME NEW t \in Threads, CalloutPast(t) \/ CalloutReturn(t) \/
             SetState(t) \/ TryBlock(t) \/ SelfUnblock(t) \/ Resume(t)
      PROVE  OutcomeInv'
    BY <1>2 DEF CalloutPast, CalloutReturn, SetState, TryBlock, StillIntends,
       SelfUnblock, Tranquil, TimerLeft, Resume
<1>3. ASSUME NEW t \in Threads, FlushBegin(t) \/ FlushEnd(t) \/ Restore(t) \/
             Unblock(t) \/ WakeEnd(t)
      PROVE  OutcomeInv'
    BY <1>3 DEF FlushBegin, QueueLockFree, FlushEnd, Restore, RestoreDefault,
       QueueAfter, Unblock, WakeEnd
<1>4. ASSUME NEW t \in Threads, SurrenderUnit(t)
      PROVE  OutcomeInv'
    BY <1>4, QueueAssumption DEF SurrenderUnit, QueueLockFree, QueueLockHeld,
       QueueAssumption, Ctx
<1>5. ASSUME NEW t \in Threads, NEW w \in Threads, SurrenderTo(t, w)
      PROVE  OutcomeInv'
    BY <1>5, QueueAssumption DEF SurrenderTo, QueueLockFree, MakeReady,
       MustUnblock, FlagsInv, QueueAssumption, Ctx
<1>6. ASSUME NEW t \in Threads, NEW w \in Threads, FlushOne(t, w) \/
             RemoveTimer(t, w)
      PROVE  OutcomeInv'
    BY <1>6 DEF FlushOne, MakeReady, MustUnblock, RemoveTimer, Tranquil,
       TimerLeft
<1>7. ASSUME NEW c \in Ctx, Cancel(c)
      PROVE  OutcomeInv'
  <2>1. /\ target[c] \in Threads /\ rc' = [rc EXCEPT ![target[c]] = "TIMEOUT"]
        /\ UNCHANGED <<granted, tpc, kind, count>>
      BY <1>7, CancelCases
  <2>2. /\ target[c] \in waiters /\ waiters' = waiters \ {target[c]}
      BY <1>7, CancelFacts
  <2>3. InWait(target[c]) => kind[target[c]] # "none"
      BY <2>1 DEF TimerInv, NoTarget
  <2>4. QED
      BY <2>1, <2>2, <2>3
<1>8. ASSUME NEW c \in CPUs, NEW t \in Threads, Fire(c, t)
      PROVE  OutcomeInv'
  <2>1. UNCHANGED <<granted, tpc, waiters, rc, kind, count>>
      BY <1>8 DEF Fire
  <2>2. QED
      BY <2>1
<1>9. ASSUME NEW c \in Ctx, AcquireDefault(c) \/ AcquireQueue(c) \/ Backoff(c)
             \/ NotWaiting(c) \/ Change(c) \/ ReleaseDefault(c) \/
             ReleaseQueue(c) \/ Remove(c) \/ Tranquilize(c) \/ UnblockTarget(c)
      PROVE  OutcomeInv'
  <2>1. UNCHANGED <<granted, tpc, waiters, rc, kind, count>>
      BY <1>9 DEF AcquireDefault, AcquireQueue, Backoff, RemoveRequest,
         NotWaiting, Change, ReleaseDefault, Released, ReleaseQueue, Remove,
         Tranquilize, UnblockTarget
  <2>2. QED
      BY <2>1
<1>10. QED
    BY ONLY Next, <1>1, <1>2, <1>3, <1>4, <1>5, <1>6, <1>7, <1>8, <1>9 DEF
       Next, Begin, Inside, Continue

-----------------------------------------------------------------------------
(* The invariant holds when nobody has called yet, ... *)
LEMMA IInvInit == Init => IInv
<1> SUFFICES ASSUME Init PROVE IInv
    OBVIOUS
<1> USE QueueAssumption DEF QueueAssumption, Init, Ctx
<1>1. TypeOK
    BY DEF TypeOK, ThreadPC, ContinuePC, Status
<1>2. QueueLockHeld /\ ContextInv /\ RequestInv /\ PendingInv /\ GateInv
    BY DEF QueueLockHeld, ContextInv, RequestInv, PendingInv, GateInv
<1>3. TimerInv /\ FlagsInv /\ QueueInv
    BY DEF TimerInv, FlagsInv, QueueInv, NoTarget, InWait
<1>4. DutyInv /\ UnblockInv /\ LeftInv /\ OutcomeInv
    BY DEF DutyInv, UnblockInv, LeftInv, OutcomeInv, InWait
<1>5. QED
    BY <1>1, <1>2, <1>3, <1>4 DEF IInv

(* ... every step keeps it, and so does a step that changes nothing. *)
LEMMA IInvNext ==
    ASSUME IInv, Prompt, [Next]_vars
    PROVE  IInv'
<1>1. CASE Next
  <2> USE <1>1 DEF IInv
  <2>1. TypeOK' /\ QueueLockHeld' /\ ContextInv' /\ TimerInv'
      BY TypeOKNext, QueueLockHeldNext, ContextInvNext, TimerInvNext
  <2>2. RequestInv' /\ PendingInv' /\ GateInv' /\ FlagsInv'
      BY RequestInvNext, PendingInvNext, GateInvNext, FlagsInvNext
  <2>3. QueueInv' /\ DutyInv' /\ UnblockInv'
      BY QueueInvNext, DutyInvNext, UnblockInvNext
  <2>4. LeftInv' /\ OutcomeInv'
      BY LeftInvNext, OutcomeInvNext
  <2>5. QED
      BY <2>1, <2>2, <2>3, <2>4
<1>2. CASE UNCHANGED vars
  <2> USE <1>2 DEF IInv, vars, semvars, waitvars, gatevars, tvars, cvars
  <2>1. TypeOK' /\ QueueLockHeld' /\ ContextInv' /\ RequestInv' /\ PendingInv'
      BY DEF TypeOK, QueueLockHeld, ContextInv, RequestInv, PendingInv
  <2>2. GateInv' /\ TimerInv' /\ FlagsInv' /\ QueueInv'
      BY DEF GateInv, TimerInv, FlagsInv, QueueInv, NoTarget, InWait
  <2>3. DutyInv' /\ UnblockInv' /\ LeftInv' /\ OutcomeInv'
      BY DEF DutyInv, UnblockInv, LeftInv, OutcomeInv, InWait
  <2>4. QED
      BY <2>1, <2>2, <2>3
<1>3. QED
    BY <1>1, <1>2

(* What all the theorems rest on. *)
LEMMA IInvHolds == ASSUME Prompt PROVE Spec => []IInv
<1>1. Init => IInv
    BY IInvInit
<1>2. IInv /\ [Next]_vars => IInv'
    BY IInvNext
<1>3. QED
    BY <1>1, <1>2, PTL DEF Spec

-----------------------------------------------------------------------------
(* Type correctness: locks have one holder, the count does not go below     *)
(* zero, and a context of _Thread_Continue has a thread to work on until it *)
(* is done.                                                                 *)
THEOREM TypeCorrect == ASSUME Prompt PROVE Spec => []TypeOK
<1>1. IInv => TypeOK
    BY DEF IInv
<1>2. QED
    BY <1>1, IInvHolds, PTL

(* A thread that is back in its own code is on no queue, nobody is about to *)
(* unblock it, and its next claim finds no old request: however surrender,  *)
(* flush and timeout met in its wait.                                       *)
THEOREM ReturnsClean == ASSUME Prompt PROVE Spec => []CleanReturn
<1>1. IInv => CleanReturn
  <2> SUFFICES ASSUME IInv, NEW t \in Threads,
                      tpc[t] \in {"run", "own", "claim"}
               PROVE  /\ t \notin waiters /\ ~wq[t] /\ flags[t] = "READY"
                      /\ state[t] = "ready" /\ \A u \in Threads : t \notin ulist[u]
                      /\ \A c \in Ctx : target[c] = t =>
                            cpc[c] \notin {"tranquilize", "unblock"}
                      /\ pending[t] = {}
      BY DEF CleanReturn
  <2>1. ~wq[t] /\ pending[t] = {} /\ state[t] = "ready"
      BY DEF IInv, TypeOK, LeftInv, InWait
  <2>2. t \notin waiters /\ flags[t] = "READY"
      BY <2>1 DEF IInv, TypeOK, FlagsInv
  <2>3. \A u \in Threads : t \notin ulist[u]
      BY DEF IInv, DutyInv
  <2>4. \A c \in Ctx : target[c] = t => cpc[c] \notin {"tranquilize", "unblock"}
      BY DEF IInv, UnblockInv
  <2>5. QED
      BY <2>1, <2>2, <2>3, <2>4
<1>2. QED
    BY <1>1, IInvHolds, PTL

(* The assertions of the wait protocol never fail, and no two sections      *)
(* under the queue lock overlap, whichever lock a timeout ends up with.     *)
THEOREM WaitAssertionsHold == ASSUME Prompt PROVE Spec => []AssertionsHold
<1>1. IInv => AssertionsHold
  <2> SUFFICES ASSUME IInv PROVE AssertionsHold
      OBVIOUS
  <2>1. \A c \in Ctx : cpc[c] # "idle" => target[c] \in Threads
      BY QueueAssumption DEF QueueAssumption, IInv, TypeOK
  <2>2. AssertBlocked
      BY <2>1 DEF AssertBlocked, IInv, TypeOK, FlagsInv, RequestInv
  <2>3. AssertQueueGone
      BY <2>1 DEF AssertQueueGone, IInv, RequestInv
  <2>4. AssertInactive
      BY DEF AssertInactive, IInv, TimerInv
  <2>5. QED
      BY <2>2, <2>3, <2>4 DEF AssertionsHold, IInv
<1>2. QED
    BY <1>1, IInvHolds, PTL

(* When no expired timer outlives the wait it was set for, a wait without a *)
(* timeout never ends with one.  (Without that condition it may: that is    *)
(* the counterexample of the run ThreadQueue_late_timeout.)                 *)
THEOREM TimeoutsHonoured == ASSUME Prompt PROVE Spec => []NoTimeoutHonoured
<1>1. IInv => NoTimeoutHonoured
    BY DEF IInv, OutcomeInv, NoTimeoutHonoured, InWait
<1>2. QED
    BY <1>1, IInvHolds, PTL

-----------------------------------------------------------------------------
(* The refinement.  The stage of a thread is decided by its control point,  *)
(* the queue and the history variable; the same now and after a step.       *)
LEMMA StageIs ==
    ASSUME IInv, NEW t \in Threads
    PROVE  /\ tpc[t] = "own" => Stage(t) = "own"
           /\ t \in granted => Stage(t) = "granted"
           /\ t \in waiters => Stage(t) = IF Flushing THEN "unavailable" ELSE "wait"
           /\ InWait(t) /\ t \notin waiters \cup granted =>
                 Stage(t) = IF rc[t] = "TIMEOUT" THEN "timeout" ELSE "unavailable"
           /\ ~InWait(t) /\ tpc[t] # "own" => Stage(t) = "run"
<1>1. (t \in granted \/ t \in waiters => InWait(t)) /\ (InWait(t) => tpc[t] # "own")
    BY WaiterFacts DEF IInv, OutcomeInv, InWait
<1>2. t \in waiters => t \notin granted
    BY <1>1 DEF IInv, OutcomeInv
<1>3. QED
    BY <1>1, <1>2 DEF Stage

(* The same for the stages after a step. *)
LEMMA StageIsNext ==
    ASSUME IInv', NEW t \in Threads
    PROVE  /\ tpc'[t] = "own" => Stage(t)' = "own"
           /\ t \in granted' => Stage(t)' = "granted"
           /\ t \in waiters' => Stage(t)' = IF Flushing' THEN "unavailable" ELSE "wait"
           /\ InWait(t)' /\ t \notin waiters' \cup granted' =>
                 Stage(t)' = IF rc'[t] = "TIMEOUT" THEN "timeout" ELSE "unavailable"
           /\ ~InWait(t)' /\ tpc'[t] # "own" => Stage(t)' = "run"
<1>1. /\ t \in granted' => InWait(t)'
      /\ InWait(t)' => tpc'[t] # "own"
    BY DEF IInv, OutcomeInv, InWait
<1>2. t \in waiters' => InWait(t)'
    BY DEF IInv, TypeOK, FlagsInv, LeftInv, InWait
<1>3. t \in waiters' => t \notin granted'
    BY <1>2 DEF IInv, OutcomeInv
<1>4. QED
    BY <1>1, <1>2, <1>3 DEF Stage

(* A section under the queue lock excludes a flush. *)
LEMMA NotFlushing ==
    ASSUME IInv, NEW h \in Ctx \cup {Free}, qlock = h,
           h \in Threads => tpc[h] \notin {"flush", "flushrestore"}
    PROVE  ~Flushing
BY QueueAssumption DEF QueueAssumption, Ctx, IInv, QueueLockHeld, Flushing

(* A step that the users of the semaphore do not see: no thread enters or   *)
(* leaves a wait, and whom a flush takes off the queue it had caught before. *)
LEMMA Unseen ==
    ASSUME IInv, IInv', UNCHANGED <<count, granted>>,
           waiters # {} => (Flushing' <=> Flushing),
           waiters' \subseteq waiters,
           \A t \in Threads :
              /\ InWait(t)' <=> InWait(t)
              /\ tpc'[t] = "own" <=> tpc[t] = "own"
              /\ InWait(t) => kind'[t] = kind[t]
              /\ IF t \in waiters \ waiters' THEN Flushing /\ rc'[t] = "UNAVAILABLE"
                 ELSE rc'[t] = rc[t]
    PROVE  UNCHANGED Sem!vars
<1>1. ASSUME NEW t \in Threads PROVE Stage(t)' = Stage(t)
  <2>1. CASE ~InWait(t)
      BY <2>1, StageIs, StageIsNext
  <2>2. CASE t \in granted
      BY <2>2, StageIs, StageIsNext
  <2>3. CASE t \in waiters'
      BY <2>3, StageIs, StageIsNext
  <2>4. CASE t \in waiters \ waiters'
    <3>1. InWait(t) /\ t \notin granted
        BY <2>4, WaiterFacts DEF IInv, OutcomeInv
    <3>2. Stage(t) = "unavailable"
        BY <2>4, StageIs
    <3>3. Stage(t)' = "unavailable"
        BY <2>4, <3>1, StageIsNext
    <3>4. QED
        BY <3>2, <3>3
  <2>5. CASE InWait(t) /\ t \notin waiters \cup granted
      BY <2>5, StageIs, StageIsNext
  <2>6. QED
      BY <2>1, <2>2, <2>3, <2>4, <2>5
<1>2. [t \in Threads |-> Stage(t)]' = [t \in Threads |-> Stage(t)]
    BY <1>1
<1>3. {t \in Threads : InWait(t) /\ kind[t] # "none"}'
        = {t \in Threads : InWait(t) /\ kind[t] # "none"}
    OBVIOUS
<1>4. QED
    BY <1>2, <1>3 DEF Sem!vars

(* A thread that takes no part in a step keeps its stage, ... *)
LEMMA SameStage ==
    ASSUME IInv, IInv', NEW s \in Threads, tpc'[s] = tpc[s], rc'[s] = rc[s],
           s \in waiters' <=> s \in waiters, s \in granted' <=> s \in granted,
           s \in waiters => (Flushing' <=> Flushing)
    PROVE  Stage(s)' = Stage(s) /\ (InWait(s)' <=> InWait(s))
<1>1. InWait(s)' <=> InWait(s)
    BY DEF InWait
<1>2. Stage(s)' = Stage(s)
  <2>1. CASE tpc[s] = "own" \/ s \in granted \/ s \in waiters
      BY <2>1, StageIs, StageIsNext
  <2>2. CASE InWait(s) /\ s \notin waiters \cup granted
      BY <1>1, <2>2, StageIs, StageIsNext
  <2>3. CASE ~InWait(s) /\ tpc[s] # "own"
      BY <1>1, <2>3, StageIs, StageIsNext
  <2>4. QED
      BY <2>1, <2>2, <2>3
<1>3. QED
    BY <1>1, <1>2

(* ... so a step is known by what becomes of the stages of those who do.    *)
(* A unit is taken: Obtain.                                                 *)
LEMMA SeizeIsObtain ==
    ASSUME IInv, IInv', NEW t \in Threads, SeizeUnit(t)
    PROVE  Sem!Obtain(t)
<1>1. /\ tpc[t] = "run" /\ tpc' = [tpc EXCEPT ![t] = "own"]
      /\ count # 0 /\ count' = count - 1
      /\ UNCHANGED <<waiters, granted, rc, kind>>
    BY DEF SeizeUnit, HasUnit, waitvars
<1>2. /\ tpc \in [Threads -> ThreadPC] /\ count \in Nat
    BY DEF IInv, TypeOK
<1>3. ~InWait(t) /\ ~InWait(t)' /\ (Flushing' <=> Flushing)
    BY <1>1, <1>2 DEF InWait, Flushing
<1>4. Stage(t) = "run" /\ Stage(t)' = "own"
    BY <1>1, <1>2, <1>3, StageIs, StageIsNext
<1>5. \A s \in Threads : s # t => Stage(s)' = Stage(s) /\ (InWait(s)' <=> InWait(s))
    BY <1>1, <1>2, <1>3, SameStage
<1>6. [s \in Threads |-> Stage(s)]'
        = [[s \in Threads |-> Stage(s)] EXCEPT ![t] = "own"]
    BY <1>4, <1>5
<1>7. {s \in Threads : InWait(s) /\ kind[s] # "none"}'
        = {s \in Threads : InWait(s) /\ kind[s] # "none"}
    BY <1>1, <1>3, <1>5
<1>8. QED
    BY <1>1, <1>2, <1>4, <1>6, <1>7 DEF Sem!Obtain

(* A thread is enqueued: Wait. *)
LEMMA EnqueueIsWait ==
    ASSUME IInv, IInv', NEW t \in Threads, Enqueue(t)
    PROVE  Sem!Wait(t)
<1>1. /\ tpc[t] = "enqueue" /\ tpc' = [tpc EXCEPT ![t] = "callout"]
      /\ waiters' = waiters \cup {t} /\ rc' = [rc EXCEPT ![t] = "SUCCESSFUL"]
      /\ UNCHANGED <<count, granted, kind>>
    BY DEF Enqueue
<1>2. tpc \in [Threads -> ThreadPC] /\ rc \in [Threads -> Status] /\ count = 0
    BY <1>1 DEF IInv, TypeOK, OutcomeInv
<1>3. ~InWait(t) /\ InWait(t)' /\ (Flushing' <=> Flushing)
    BY <1>1, <1>2 DEF InWait, Flushing
<1>4. ~Flushing
    BY <1>1 DEF IInv, QueueLockHeld, Flushing
<1>5. Stage(t) = "run" /\ Stage(t)' = "wait"
    BY <1>1, <1>3, <1>4, StageIs, StageIsNext
<1>6. \A s \in Threads : s # t => Stage(s)' = Stage(s) /\ (InWait(s)' <=> InWait(s))
    BY <1>1, <1>2, <1>3, SameStage
<1>7. [s \in Threads |-> Stage(s)]'
        = [[s \in Threads |-> Stage(s)] EXCEPT ![t] = "wait"]
    BY <1>5, <1>6
<1> DEFINE T == {s \in Threads : InWait(s) /\ kind[s] # "none"}
<1>8. T' = IF kind[t] # "none" THEN T \cup {t} ELSE T
    BY <1>1, <1>3, <1>6
<1>9. QED
    BY <1>1, <1>2, <1>5, <1>7, <1>8 DEF Sem!Wait

(* A unit goes back into the count: Release. *)
LEMMA SurrenderIsRelease ==
    ASSUME IInv, IInv', NEW t \in Threads, SurrenderUnit(t)
    PROVE  Sem!Release(t)
<1>1. /\ tpc[t] = "own" /\ tpc' = [tpc EXCEPT ![t] = "run"]
      /\ waiters = {} /\ count' = count + 1
      /\ UNCHANGED <<waiters, granted, rc, kind>>
    BY DEF SurrenderUnit, waitvars
<1>2. tpc \in [Threads -> ThreadPC]
    BY DEF IInv, TypeOK
<1>3. ~InWait(t) /\ ~InWait(t)'
    BY <1>1, <1>2 DEF InWait
<1>4. Stage(t) = "own" /\ Stage(t)' = "run"
    BY <1>1, <1>2, <1>3, StageIs, StageIsNext
<1>5. \A s \in Threads : s # t => Stage(s)' = Stage(s) /\ (InWait(s)' <=> InWait(s))
    BY <1>1, <1>2, SameStage
<1>6. [s \in Threads |-> Stage(s)]'
        = [[s \in Threads |-> Stage(s)] EXCEPT ![t] = "run"]
    BY <1>4, <1>5
<1>7. {s \in Threads : InWait(s) /\ kind[s] # "none"}'
        = {s \in Threads : InWait(s) /\ kind[s] # "none"}
    BY <1>1, <1>3, <1>5
<1>8. \A s \in Threads : Stage(s) # "wait"
    BY <1>1, Zenon DEF Stage
<1>9. QED
    BY <1>1, <1>4, <1>6, <1>7, <1>8 DEF Sem!Release, Sem!Waiting

(* A unit is handed over: ReleaseTo. *)
LEMMA SurrenderIsReleaseTo ==
    ASSUME IInv, IInv', NEW t \in Threads, NEW w \in Threads, SurrenderTo(t, w)
    PROVE  Sem!ReleaseTo(t, w)
<1>1. /\ tpc[t] = "own" /\ tpc' = [tpc EXCEPT ![t] = "restore"] /\ w \in waiters
      /\ waiters' = waiters \ {w} /\ granted' = granted \cup {w}
      /\ UNCHANGED <<count, rc, kind>>
    BY DEF SurrenderTo, MakeReady
<1>2. tpc \in [Threads -> ThreadPC]
    BY DEF IInv, TypeOK
<1>3. ~InWait(t) /\ ~InWait(t)' /\ InWait(w)
    BY <1>1, <1>2, WaiterFacts DEF InWait, IInv
<1>4. t # w /\ tpc'[w] = tpc[w] /\ InWait(w)'
    BY <1>1, <1>2, <1>3 DEF InWait
<1>5. ~Flushing /\ ~Flushing'
  <2>1. ~Flushing
      BY QueueAssumption
         DEF QueueAssumption, Ctx, SurrenderTo, QueueLockFree, IInv, QueueLockHeld,
             Flushing
  <2>2. QED
      BY <1>1, <1>2, <2>1 DEF Flushing
<1>6. Stage(t) = "own" /\ Stage(t)' = "run"
    BY <1>1, <1>2, <1>3, StageIs, StageIsNext
<1>7. Stage(w) = "wait" /\ Stage(w)' = "granted"
    BY <1>1, <1>5, StageIs, StageIsNext
<1>8. \A s \in Threads : s \notin {t, w} =>
         Stage(s)' = Stage(s) /\ (InWait(s)' <=> InWait(s))
    BY <1>1, <1>2, <1>5, SameStage
<1>9. [s \in Threads |-> Stage(s)]'
        = [[s \in Threads |-> Stage(s)] EXCEPT ![t] = "run", ![w] = "granted"]
    BY <1>4, <1>6, <1>7, <1>8
<1>10. {s \in Threads : InWait(s) /\ kind[s] # "none"}'
        = {s \in Threads : InWait(s) /\ kind[s] # "none"}
    BY <1>1, <1>3, <1>4, <1>8
<1>11. QED
    BY <1>1, <1>6, <1>7, <1>9, <1>10 DEF Sem!ReleaseTo, Sem!Waiting

(* A flush takes the queue lock: all who wait are caught, Flush. *)
LEMMA FlushBeginIsFlush ==
    ASSUME IInv, IInv', NEW t \in Threads, FlushBegin(t)
    PROVE  Sem!Flush
<1>1. /\ tpc[t] = "run" /\ tpc' = [tpc EXCEPT ![t] = "flush"] /\ waiters # {}
      /\ UNCHANGED <<count, waiters, granted, rc, kind>>
    BY DEF FlushBegin, waitvars
<1>2. tpc \in [Threads -> ThreadPC] /\ waiters \subseteq Threads
    BY DEF IInv, TypeOK
<1>3. ~Flushing /\ Flushing'
  <2>1. ~Flushing
      BY QueueAssumption
         DEF QueueAssumption, Ctx, FlushBegin, QueueLockFree, IInv, QueueLockHeld,
             Flushing
  <2>2. QED
      BY <1>1, <1>2, <2>1 DEF Flushing
<1>4. \A s \in Threads : (InWait(s)' <=> InWait(s)) /\ (tpc'[s] = "own" <=> tpc[s] = "own")
    BY <1>1, <1>2 DEF InWait
<1>5. \A s \in Threads : s \in waiters => Stage(s) = "wait" /\ Stage(s)' = "unavailable"
    BY <1>1, <1>3, StageIs, StageIsNext
<1>6. ASSUME NEW s \in Threads, s \notin waiters
      PROVE  Stage(s) # "wait" /\ Stage(s)' = Stage(s)
  <2>1. CASE tpc[s] = "own" \/ s \in granted
      BY <1>1, <1>4, <2>1, StageIs, StageIsNext
  <2>2. CASE InWait(s) /\ s \notin waiters \cup granted
      BY <1>1, <1>4, <2>2, StageIs, StageIsNext
  <2>3. CASE ~InWait(s) /\ tpc[s] # "own"
      BY <1>1, <1>4, <2>3, StageIs, StageIsNext
  <2>4. QED
      BY <1>6, <2>1, <2>2, <2>3
<1> DEFINE S == [s \in Threads |-> Stage(s)]
<1>7. Sem!Waiting = waiters
    BY <1>2, <1>5, <1>6 DEF Sem!Waiting
<1>8. S' = [s \in Threads |-> IF s \in Sem!Waiting THEN "unavailable" ELSE S[s]]
    BY <1>5, <1>6, <1>7
<1>9. {s \in Threads : InWait(s) /\ kind[s] # "none"}'
        = {s \in Threads : InWait(s) /\ kind[s] # "none"}
    BY <1>1, <1>4
<1>10. QED
    BY <1>1, <1>7, <1>8, <1>9 DEF Sem!Flush

(* A timeout takes its thread off the queue: Expire. *)
LEMMA CancelIsExpire ==
    ASSUME IInv, IInv', NEW c \in Ctx, Cancel(c), NEW t \in Threads, target[c] = t
    PROVE  Sem!Expire(t)
<1>1. /\ cpc[c] = "critical"
      /\ rc' = [rc EXCEPT ![t] = "TIMEOUT"] /\ UNCHANGED <<count, granted, tpc, kind>>
    BY CancelCases DEF IInv, tvars
<1>2. t \in waiters /\ waiters' = waiters \ {t} /\ cqueue[c]
    BY CancelFacts DEF IInv
<1>3. rc \in [Threads -> Status]
    BY DEF IInv, TypeOK
<1>4. InWait(t) /\ kind[t] # "none"
    BY <1>1, <1>2, WaiterFacts DEF IInv, TimerInv, NoTarget
<1>5. t \notin granted
    BY <1>1, <1>2, <1>4 DEF IInv, OutcomeInv
<1>6. ~Flushing /\ ~Flushing'
  <2>1. ~Flushing
      BY <1>1, <1>2, NotFlushing DEF IInv, QueueLockHeld, ContextInv, Flushing
  <2>2. QED
      BY <1>1, <2>1 DEF Flushing
<1>7. \A s \in Threads : InWait(s)' <=> InWait(s)
    BY <1>1 DEF InWait
<1>8. Stage(t) = "wait" /\ Stage(t)' = "timeout"
    BY <1>1, <1>2, <1>3, <1>4, <1>5, <1>6, <1>7, StageIs, StageIsNext
<1>9. \A s \in Threads : s # t => Stage(s)' = Stage(s)
    BY <1>1, <1>2, <1>3, <1>6, SameStage
<1>10. [s \in Threads |-> Stage(s)]'
        = [[s \in Threads |-> Stage(s)] EXCEPT ![t] = "timeout"]
    BY <1>8, <1>9
<1>11. {s \in Threads : InWait(s) /\ kind[s] # "none"}'
        = {s \in Threads : InWait(s) /\ kind[s] # "none"}
    BY <1>1, <1>7
<1>12. QED
    BY <1>1, <1>4, <1>8, <1>10, <1>11 DEF Sem!Expire, Sem!Waiting

(* A thread is dispatched again: Return. *)
LEMMA ResumeIsReturn ==
    ASSUME IInv, IInv', NEW t \in Threads, Resume(t)
    PROVE  Sem!Return(t)
<1>1. /\ tpc[t] = "blocked" /\ state[t] = "ready"
      /\ tpc' = [tpc EXCEPT ![t] = IF rc[t] = "SUCCESSFUL" THEN "own" ELSE "run"]
      /\ kind' = [kind EXCEPT ![t] = "none"] /\ granted' = granted \ {t}
      /\ UNCHANGED <<count, waiters, rc>>
    BY DEF Resume, semvars, waitvars
<1>2. /\ tpc \in [Threads -> ThreadPC] /\ kind \in [Threads -> {"none", "ticks", "past"}]
      /\ rc \in [Threads -> Status]
    BY DEF IInv, TypeOK
<1>3. InWait(t) /\ ~InWait(t)' /\ (Flushing' <=> Flushing)
    BY <1>1, <1>2 DEF InWait, Flushing
<1>4. t \notin waiters
    BY <1>1 DEF IInv, LeftInv, FlagsInv
<1>5. t \in granted <=> rc[t] = "SUCCESSFUL"
    BY <1>3, <1>4 DEF IInv, OutcomeInv
<1>6. /\ Stage(t) \in {"granted", "timeout", "unavailable"}
      /\ Stage(t) = "granted" <=> rc[t] = "SUCCESSFUL"
    BY <1>3, <1>4, <1>5, StageIs
<1>7. Stage(t)' = IF Stage(t) = "granted" THEN "own" ELSE "run"
    BY <1>1, <1>2, <1>3, <1>6, StageIsNext
<1>8. \A s \in Threads : s # t => Stage(s)' = Stage(s) /\ (InWait(s)' <=> InWait(s))
    BY <1>1, <1>2, <1>3, SameStage
<1> DEFINE S == [s \in Threads |-> Stage(s)]
<1>9. S' = [S EXCEPT ![t] = IF @ = "granted" THEN "own" ELSE "run"]
    BY <1>7, <1>8
<1> DEFINE T == {s \in Threads : InWait(s) /\ kind[s] # "none"}
<1>10. T' = T \ {t}
    BY <1>1, <1>2, <1>3, <1>8
<1>11. QED
    BY <1>1, <1>6, <1>9, <1>10 DEF Sem!Return, Sem!Outcome

(* Every step of the wait protocol is a step of the semaphore, or none. *)
LEMMA StepRefines ==
    ASSUME IInv, IInv', [Next]_vars
    PROVE  [Sem!Next]_(Sem!vars)
<1> USE DEF semvars, waitvars, gatevars, tvars, cvars
<1>0. /\ tpc \in [Threads -> ThreadPC] /\ kind \in [Threads -> {"none", "ticks", "past"}]
      /\ rc \in [Threads -> Status]
    BY DEF IInv, TypeOK
<1>1. ASSUME NEW t \in Threads,
             SeizeUnit(t) \/ Enqueue(t) \/ SurrenderUnit(t) \/ FlushBegin(t) \/ Resume(t)
      PROVE  Sem!Next
    BY <1>1, SeizeIsObtain, EnqueueIsWait, SurrenderIsRelease, FlushBeginIsFlush,
       ResumeIsReturn DEF Sem!Next
<1>2. ASSUME NEW t \in Threads, NEW w \in Threads, SurrenderTo(t, w)
      PROVE  Sem!Next
    BY <1>2, SurrenderIsReleaseTo DEF Sem!Next
<1>3. ASSUME NEW c \in Ctx, Cancel(c)
      PROVE  Sem!Next
  <2>1. PICK t \in Threads : target[c] = t
      BY <1>3, CancelCases DEF IInv
  <2>2. QED
      BY <1>3, <2>1, CancelIsExpire DEF Sem!Next
<1>4. ASSUME NEW t \in Threads, SeizeWait(t)
      PROVE  UNCHANGED Sem!vars
  <2>1. /\ tpc[t] = "run" /\ tpc' = [tpc EXCEPT ![t] = "claim"]
        /\ \E k \in Timeouts : kind' = [kind EXCEPT ![t] = k]
        /\ UNCHANGED <<count, granted, waiters, rc>>
      BY <1>4 DEF SeizeWait
  <2>2. /\ Flushing' <=> Flushing
        /\ \A s \in Threads : /\ InWait(s)' <=> InWait(s)
                              /\ tpc'[s] = "own" <=> tpc[s] = "own"
                              /\ InWait(s) => kind'[s] = kind[s]
      BY <1>0, <2>1 DEF Flushing, InWait
  <2>3. QED
      BY <2>1, <2>2, Unseen
<1>5. ASSUME NEW t \in Threads,
             \/ Claim(t) \/ CalloutNone(t) \/ CalloutTicks(t) \/ CalloutPast(t)
             \/ CalloutReturn(t) \/ SetState(t) \/ TryBlock(t) \/ SelfUnblock(t)
             \/ Unblock(t) \/ WakeEnd(t) \/ (\E w \in Threads : RemoveTimer(t, w))
      PROVE  UNCHANGED Sem!vars
  <2>1. /\ UNCHANGED <<count, granted, waiters, rc, kind>>
        /\ \/ /\ InWait(t) /\ \E q \in {"calling", "setstate", "tryblock", "self", "blocked"} :
                    tpc' = [tpc EXCEPT ![t] = q]
           \/ /\ tpc[t] \in {"claim", "unblock", "wake"}
              /\ \E q \in {"enqueue", "wake", "run", "unblock"} :
                    tpc' = [tpc EXCEPT ![t] = q]
      BY <1>5 DEF Claim, CalloutNone, CalloutTicks, CalloutPast, CalloutReturn, SetState,
         TryBlock, SelfUnblock, Unblock, WakeEnd, RemoveTimer, InWait
  <2>2. /\ Flushing' <=> Flushing
        /\ \A s \in Threads : /\ InWait(s)' <=> InWait(s)
                              /\ tpc'[s] = "own" <=> tpc[s] = "own"
      BY <1>0, <2>1 DEF Flushing, InWait
  <2>3. QED
      BY <2>1, <2>2, Unseen
<1>6. ASSUME NEW t \in Threads, NEW w \in Threads, FlushOne(t, w)
      PROVE  UNCHANGED Sem!vars
  <2>1. /\ tpc[t] = "flush" /\ tpc' = [tpc EXCEPT ![t] = "flushrestore"]
        /\ w \in waiters /\ waiters' = waiters \ {w}
        /\ rc' = [rc EXCEPT ![w] = "UNAVAILABLE"]
        /\ UNCHANGED <<count, granted, kind>>
      BY <1>6 DEF FlushOne, MakeReady
  <2>2. /\ Flushing /\ Flushing'
        /\ \A s \in Threads : /\ InWait(s)' <=> InWait(s)
                              /\ tpc'[s] = "own" <=> tpc[s] = "own"
      BY <1>0, <2>1 DEF Flushing, InWait
  <2>3. \A s \in Threads : IF s \in waiters \ waiters' THEN rc'[s] = "UNAVAILABLE"
                           ELSE rc'[s] = rc[s]
      BY <1>0, <2>1
  <2>4. QED
      BY <2>1, <2>2, <2>3, Unseen
<1>7. ASSUME NEW t \in Threads, FlushEnd(t) \/ Restore(t)
      PROVE  UNCHANGED Sem!vars
  <2>1. /\ tpc[t] \in {"flush", "restore", "flushrestore"}
        /\ tpc' = [tpc EXCEPT ![t] = IF @ = "flushrestore" THEN "flush" ELSE "wake"]
        /\ UNCHANGED <<count, granted, waiters, rc, kind>>
        /\ tpc[t] = "flush" => waiters = {}
      BY <1>7, <1>0 DEF FlushEnd, Restore
  <2>2. \A s \in Threads : /\ InWait(s)' <=> InWait(s)
                           /\ tpc'[s] = "own" <=> tpc[s] = "own"
      BY <1>0, <2>1 DEF InWait
  <2>3. waiters # {} => (Flushing' <=> Flushing)
      BY <1>0, <2>1 DEF Flushing
  <2>4. QED
      BY <2>1, <2>2, <2>3, Unseen
<1>8. ASSUME UNCHANGED <<count, granted, waiters, rc, kind, tpc>>
      PROVE  UNCHANGED Sem!vars
    BY <1>8, Unseen DEF InWait, Flushing
<1>9. ASSUME NEW c \in Ctx,
             \/ AcquireDefault(c) \/ AcquireQueue(c) \/ Backoff(c) \/ NotWaiting(c)
             \/ Change(c) \/ ReleaseDefault(c) \/ ReleaseQueue(c) \/ Remove(c)
             \/ Tranquilize(c) \/ UnblockTarget(c) \/ (\E t \in Threads : Fire(c, t))
      PROVE  UNCHANGED Sem!vars
  <2>1. UNCHANGED <<count, granted, waiters, rc, kind, tpc>>
      BY <1>9 DEF AcquireDefault, AcquireQueue, Backoff, NotWaiting, Change,
         ReleaseDefault, ReleaseQueue, Remove, Tranquilize, UnblockTarget, Fire
  <2>2. QED
      BY <1>8, <2>1
<1>10. CASE UNCHANGED vars
    BY <1>8, <1>10 DEF vars
<1>11. CASE \E t \in Threads : Begin(t) \/ Inside(t)
    BY <1>1, <1>2, <1>4, <1>5, <1>6, <1>7, <1>11 DEF Begin, Inside
<1>12. CASE \E c \in CPUs, t \in Threads : Fire(c, t)
    BY <1>9, <1>12 DEF Ctx
<1>13. CASE \E c \in Ctx : Continue(c)
    BY <1>3, <1>9, <1>13 DEF Continue
<1>14. QED
    BY <1>10, <1>11, <1>12, <1>13 DEF Next

(* The wait protocol implements the semaphore of module Semaphore: obtain,  *)
(* release, flush and timeout appear to happen at once, each wait ends in   *)
(* one way, and the unit goes with it, for any number of threads and        *)
(* processors and in every interleaving.                                    *)
THEOREM ImplementsSemaphore == ASSUME Prompt PROVE Spec => ActsAsSemaphore
<1>1. Init => Sem!Init
  <2> SUFFICES ASSUME Init PROVE Sem!Init
      OBVIOUS
  <2>1. \A t \in Threads : Stage(t) = "run" /\ ~InWait(t)
      BY IInvInit, StageIs DEF Init, InWait
  <2>2. QED
      BY <2>1 DEF Sem!Init, Init
<1>2. IInv /\ IInv' /\ [Next]_vars => [Sem!Next]_(Sem!vars)
    BY StepRefines
<1>3. QED
    BY <1>1, <1>2, IInvHolds, PTL DEF Spec, ActsAsSemaphore, Sem!Safety
=============================================================================
