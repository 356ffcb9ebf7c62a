--------------------------- MODULE Semaphore_proof ---------------------------
(***************************************************************************)
(* What follows from the promise of Semaphore, for any finite set of       *)
(* threads and any number of units.  ThreadQueue implements the promise,   *)
(* so it inherits these facts.                                             *)
(***************************************************************************)
EXTENDS Semaphore, FiniteSetTheorems, TLAPS

Inv == TypeOK /\ UnitsKept /\ NoneWaitsInVain /\ TimeoutAsked

(* Taking a holder away, or adding one, changes their number by one. *)
LEMMA HoldersChange ==
    ASSUME IsFiniteSet(Threads), NEW t \in Threads
    PROVE  /\ IsFiniteSet(Holders) /\ Cardinality(Holders) \in Nat
           /\ t \notin Holders => Cardinality(Holders \cup {t}) = Cardinality(Holders) + 1
           /\ t \in Holders => Cardinality(Holders \ {t}) = Cardinality(Holders) - 1
<1>1. IsFiniteSet(Holders)
  BY FS_Subset DEF Holders
<1> QED
  BY <1>1, FS_CardinalityType, FS_AddElement, FS_RemoveElement

(* The invariant holds at the start, ... *)
LEMMA InitInv ==
    ASSUME InitCount \in Nat, Init
    PROVE  Inv
<1>1. TypeOK /\ NoneWaitsInVain /\ TimeoutAsked
  BY DEF Init, TypeOK, NoneWaitsInVain, Waiting, TimeoutAsked, Outcome
<1>2. Holders = {}
  BY DEF Init, Holders
<1> QED
  BY <1>1, <1>2, FS_EmptySet DEF Inv, UnitsKept, Init

(* Every operation keeps the invariant; the number of holders is the part   *)
(* that needs an argument, because a unit changes hands in four ways.       *)
LEMMA NextInv ==
    ASSUME IsFiniteSet(Threads), InitCount \in Nat, Inv, Next
    PROVE  Inv'
<1> USE DEF Inv, TypeOK, Outcome
<1>1. ASSUME NEW t \in Threads, Obtain(t) PROVE Inv'
  <2>1. t \notin Holders /\ Holders' = Holders \cup {t}
    BY <1>1 DEF Obtain, Holders
  <2>2. UnitsKept'
    BY <1>1, <2>1, HoldersChange DEF Obtain, UnitsKept
  <2> QED
    BY <1>1, <2>2 DEF Obtain, NoneWaitsInVain, Waiting, TimeoutAsked
<1>2. ASSUME NEW t \in Threads, Wait(t) PROVE Inv'
  <2>1. Holders' = Holders
    BY <1>2 DEF Wait, Holders
  <2> QED
    BY <1>2, <2>1 DEF Wait, UnitsKept, NoneWaitsInVain, TimeoutAsked
<1>3. ASSUME NEW t \in Threads, NEW w \in Threads, ReleaseTo(t, w) PROVE Inv'
  <2>1. t \in Holders /\ w \notin Holders \ {t} /\ t # w
    BY <1>3 DEF ReleaseTo, Holders, Waiting
  <2>2. Holders' = (Holders \ {t}) \cup {w}
    BY <1>3, <2>1 DEF ReleaseTo, Holders
  <2>3. Cardinality(Holders') = Cardinality(Holders)
    <3>1. IsFiniteSet(Holders) /\ Cardinality(Holders) \in Nat
      BY HoldersChange
    <3>2. /\ IsFiniteSet(Holders \ {t})
          /\ Cardinality(Holders \ {t}) = Cardinality(Holders) - 1
      BY <2>1, <3>1, FS_RemoveElement
    <3>3. Cardinality((Holders \ {t}) \cup {w}) = Cardinality(Holders \ {t}) + 1
      BY <2>1, <3>2, FS_AddElement
    <3> QED
      BY <2>2, <3>1, <3>2, <3>3
  <2>4. UnitsKept'
    BY <1>3, <2>3 DEF ReleaseTo, UnitsKept
  <2> QED
    BY <1>3, <2>1, <2>4 DEF ReleaseTo, NoneWaitsInVain, Waiting, TimeoutAsked
<1>4. ASSUME NEW t \in Threads, Release(t) PROVE Inv'
  <2>1. t \in Holders /\ Holders' = Holders \ {t}
    BY <1>4 DEF Release, Holders
  <2>2. UnitsKept'
    BY <1>4, <2>1, HoldersChange DEF Release, UnitsKept
  <2> QED
    BY <1>4, <2>2 DEF Release, NoneWaitsInVain, Waiting, TimeoutAsked
<1>5. ASSUME NEW t \in Threads, Expire(t) PROVE Inv'
  <2>1. Holders' = Holders
    BY <1>5 DEF Expire, Holders, Waiting
  <2> QED
    BY <1>5, <2>1 DEF Expire, UnitsKept, NoneWaitsInVain, Waiting, TimeoutAsked
<1>6. ASSUME NEW t \in Threads, Return(t) PROVE Inv'
  <2>1. Holders' = Holders
    BY <1>6 DEF Return, Holders
  <2> QED
    BY <1>6, <2>1 DEF Return, UnitsKept, NoneWaitsInVain, Waiting, TimeoutAsked
<1>7. CASE Flush
  <2>1. Holders' = Holders
    BY <1>7 DEF Flush, Holders, Waiting
  <2> QED
    BY <1>7, <2>1 DEF Flush, UnitsKept, NoneWaitsInVain, Waiting, TimeoutAsked
<1> QED
  BY <1>1, <1>2, <1>3, <1>4, <1>5, <1>6, <1>7 DEF Next

(* ... and survives a step of nobody. *)
LEMMA StutterInv ==
    ASSUME Inv, UNCHANGED vars
    PROVE  Inv'
BY DEF Inv, TypeOK, UnitsKept, NoneWaitsInVain, TimeoutAsked, Holders, Waiting, vars

(* _CORE_semaphore_Surrender and _CORE_semaphore_Seize: units are neither   *)
(* lost nor made, whatever releases, flushes and timeouts end the waits.    *)
THEOREM SemaphoreKeepsUnits ==
    ASSUME IsFiniteSet(Threads), InitCount \in Nat
    PROVE  Safety => []UnitsKept
<1>1. Init => Inv
  BY InitInv
<1>2. Inv /\ [Next]_vars => Inv'
  BY NextInv, StutterInv
<1>3. Inv => UnitsKept
  BY DEF Inv
<1> QED
  BY <1>1, <1>2, <1>3, PTL DEF Safety

(* A release hands its unit to a waiter if there is one, so nobody waits    *)
(* while a unit is free; and only a wait with a timeout times out.          *)
THEOREM SemaphoreServes ==
    ASSUME IsFiniteSet(Threads), InitCount \in Nat
    PROVE  Safety => [](NoneWaitsInVain /\ TimeoutAsked)
<1>1. Init => Inv
  BY InitInv
<1>2. Inv /\ [Next]_vars => Inv'
  BY NextInv, StutterInv
<1>3. Inv => NoneWaitsInVain /\ TimeoutAsked
  BY DEF Inv
<1> QED
  BY <1>1, <1>2, <1>3, PTL DEF Safety
=============================================================================
