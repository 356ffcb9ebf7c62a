------------------------------ MODULE Semaphore ------------------------------
(***************************************************************************)
(* What a counting semaphore of the RTEMS score promises its users         *)
(* (coresemimpl.h): obtain, release, flush and the expiration of a wait    *)
(* are each a single step, and every wait ends in exactly one way.         *)
(* ThreadQueue, where the same operations are made of locks, wait flags    *)
(* and interrupts on several processors, is shown to implement it.         *)
(***************************************************************************)
EXTENDS Integers, FiniteSets

CONSTANTS
    Threads,  \* users of the semaphore
    InitCount \* its initial count

VARIABLES
    count,    \* free units
    stage,    \* a thread's stage: "run", "own", "wait", or how its wait has
              \* ended: "granted", "timeout", "unavailable"
    timed     \* the threads whose wait was begun with a timeout

vars == <<count, stage, timed>>

Waiting == {t \in Threads : stage[t] = "wait"}
Outcome == {"granted", "timeout", "unavailable"}

Init ==
    /\ count = InitCount
    /\ stage = [t \in Threads |-> "run"]
    /\ timed = {}

(* A unit is free and is taken. *)
Obtain(t) ==
    /\ stage[t] = "run" /\ count > 0
    /\ count' = count - 1
    /\ stage' = [stage EXCEPT ![t] = "own"]
    /\ UNCHANGED timed

(* None is free: the thread waits, for ever or for some time. *)
Wait(t) ==
    /\ stage[t] = "run" /\ count = 0
    /\ stage' = [stage EXCEPT ![t] = "wait"]
    /\ timed' \in {timed, timed \cup {t}}
    /\ UNCHANGED count

(* A unit goes to one of the waiting threads, ... *)
ReleaseTo(t, w) ==
    /\ stage[t] = "own" /\ w \in Waiting
    /\ stage' = [stage EXCEPT ![t] = "run", ![w] = "granted"]
    /\ UNCHANGED <<count, timed>>

(* ... and back into the count only if there is none. *)
Release(t) ==
    /\ stage[t] = "own" /\ Waiting = {}
    /\ count' = count + 1
    /\ stage' = [stage EXCEPT ![t] = "run"]
    /\ UNCHANGED timed

(* A flush ends all the waits there are, at once. *)
Flush ==
    /\ Waiting # {}
    /\ stage' = [t \in Threads |-> IF t \in Waiting THEN "unavailable" ELSE stage[t]]
    /\ UNCHANGED <<count, timed>>

(* The time is over, for a wait that was begun with a timeout. *)
Expire(t) ==
    /\ t \in Waiting \cap timed
    /\ stage' = [stage EXCEPT ![t] = "timeout"]
    /\ UNCHANGED <<count, timed>>

(* The thread learns how its wait has ended. *)
Return(t) ==
    /\ stage[t] \in Outcome
    /\ stage' = [stage EXCEPT ![t] = IF @ = "granted" THEN "own" ELSE "run"]
    /\ timed' = timed \ {t}
    /\ UNCHANGED count

Next ==
    \/ \E t \in Threads :
        \/ Obtain(t) \/ Wait(t) \/ Release(t) \/ Expire(t) \/ Return(t)
        \/ \E w \in Threads : ReleaseTo(t, w)
    \/ Flush

(* A wait that has ended does return. *)
Fairness == \A t \in Threads : WF_vars(Return(t))

Safety == Init /\ [][Next]_vars
Spec == Safety /\ Fairness

-----------------------------------------------------------------------------
(* The count is never negative, and a thread is in one stage at a time. *)
TypeOK ==
    /\ count \in Nat
    /\ stage \in [Threads -> {"run", "own", "wait"} \cup Outcome]
    /\ timed \subseteq Threads

(* Units are neither lost nor made: each is free, owned or on its way. *)
Holders == {t \in Threads : stage[t] \in {"own", "granted"}}
UnitsKept == count + Cardinality(Holders) = InitCount

(* No thread waits while a unit is free. *)
NoneWaitsInVain == count > 0 => Waiting = {}

(* A thread told that its time is over had asked for a timeout. *)
TimeoutAsked == \A t \in Threads : stage[t] = "timeout" => t \in timed
=============================================================================
