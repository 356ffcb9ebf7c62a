-------------------------- MODULE Cyclictest_proof --------------------------
(***************************************************************************)
(* Proofs about Cyclictest for any number of threads, any options and any  *)
(* number of signals.                                                      *)
(***************************************************************************)
EXTENDS Cyclictest, TLAPS

-----------------------------------------------------------------------------
(* The inductive strengthening of TypeOK. *)

(* TypeOK in groups that a step changes together; the flags apart. *)
FlagsOK ==
    /\ shutdown \in BOOLEAN /\ allstopped \in BOOLEAN /\ signalled \in BOOLEAN
    /\ stopped \in [Threads -> BOOLEAN]
    /\ globalt \in BOOLEAN /\ started_at \in [Threads -> BOOLEAN]

ControlOK ==
    /\ mpc \in MainPC /\ mi \in 0 .. N
    /\ fpc \in FifoPC /\ fi \in 0 .. N
    /\ fault \in {"none", "null", "null_status", "status", "fifo"}
    /\ nsig \in 0 .. MaxSignals /\ why \subseteq Reasons

ThreadsOK ==
    /\ stat \in [Threads -> {"null", "live", "freed"}]
    /\ threadstarted \in [Threads -> -1 .. 2]
    /\ cycles \in [Threads -> 0 .. (IF max_cycles = 0 THEN CycleBound ELSE max_cycles)]
    /\ max \in [Threads -> Nat]
    /\ tpc \in [Threads -> TimerPC]
    /\ diff \in [Threads -> Nat]
    /\ arrived \in [{"globalt_barr", "align_barr"} -> SUBSET Threads]

RecordsOK ==
    /\ current \in 0 .. trigger_list_size /\ node \in [Nodes -> Int]
    /\ spikes \in Nat /\ trig_by \in Threads \cup {NoThread}
    /\ break_id \in Threads \cup {NoThread} /\ break_value \in Nat
    /\ break_by \in Threads \cup {NoThread}

(* A loop index names a thread while its loop runs, and the creation loop  *)
(* has not touched the threads it has still to create.                     *)
IndexInv ==
    /\ mpc \in {"create", "print", "json", "kill", "join", "free"} => mi < N
    /\ mpc = "create" => \A t \in Threads : t >= mi => tpc[t] = "none"
    /\ fi < N

(* threadstarted follows the thread's progress. *)
StartedInv ==
    \A t \in Threads :
        /\ tpc[t] = "none" => threadstarted[t] = 0
        /\ tpc[t] \in {"start", "globalt", "align"} => threadstarted[t] = 1
        /\ tpc[t] = "done" => threadstarted[t] = -1
        /\ tpc[t] \notin {"none", "start", "globalt", "align", "done"}
              => threadstarted[t] = 2

(* A thread that goes on has cycles left. *)
CyclesInv ==
    max_cycles # 0 => \A t \in Threads :
        tpc[t] \notin {"out", "fin", "done"} => cycles[t] < max_cycles

TypeInv ==
    /\ FlagsOK /\ ControlOK /\ ThreadsOK /\ RecordsOK
    /\ IndexInv /\ StartedInv /\ CyclesInv

(* The invariant of the types is the stronger one, ... *)
LEMMA TypeInvTypeOK == TypeInv => TypeOK
BY Zenon DEF TypeInv, TypeOK, FlagsOK, ControlOK, ThreadsOK, RecordsOK

(* A latency narrowed to an int is a number. *)
LEMMA ToIntType == \A d \in Nat : ToInt(d) \in Int
<1>1. IntSize \in Nat \ {0}
    BY ConstantsAssumption DEF ConstantsAssumption
<1>2. IntSize \div 2 \in Int
    BY <1>1
<1>3. \A e \in Int : e % IntSize \in Int
    BY <1>1
<1>4. QED
    BY <1>2, <1>3 DEF ToInt

(* ... survives a step of nobody, ... *)
LEMMA TypeInvStutter == TypeInv /\ UNCHANGED vars => TypeInv'
BY DEF TypeInv, vars, mainvars, statvars, timervars, startvars, trigvars,
       breakvars, fifovars, histvars, FlagsOK, ControlOK, ThreadsOK, RecordsOK,
       IndexInv, StartedInv, CyclesInv

(* ... and holds at the start. *)
LEMMA TypeInvInit == Init => TypeInv
<1> SUFFICES ASSUME Init PROVE TypeInv
    OBVIOUS
<1> USE ConstantsAssumption DEF ConstantsAssumption, Init
<1>1. FlagsOK
    BY DEF FlagsOK
<1>2. ControlOK /\ ThreadsOK /\ RecordsOK
    BY DEF ControlOK, ThreadsOK, RecordsOK, Threads, NoThread, MainPC,
           TimerPC, FifoPC
<1>3. IndexInv /\ StartedInv /\ CyclesInv
    BY DEF IndexInv, StartedInv, CyclesInv
<1>4. QED
    BY <1>1, <1>2, <1>3 DEF TypeInv

(* Every step keeps the types. *)
LEMMA TypeInvNext ==
    ASSUME TypeInv, Next
    PROVE  TypeInv'
<1> USE ConstantsAssumption
        DEF ConstantsAssumption, TypeInv, mainvars, statvars, timervars,
            startvars, trigvars, breakvars, fifovars, histvars, MoreThreads
<1>1. CASE M_Create
  <2> mi \in Threads
      BY <1>1 DEF M_Create, IndexInv, ControlOK, Threads
  <2>1. ControlOK'
      BY <1>1 DEF M_Create, ControlOK, MainPC, FifoPC, Reasons, MoreThreads,
             IndexInv, Threads
  <2>2. ThreadsOK'
      BY <1>1 DEF M_Create, ThreadsOK, TimerPC
  <2>3. IndexInv'
      BY <1>1 DEF M_Create, IndexInv, ControlOK, ThreadsOK, MoreThreads,
             Threads
  <2>4. StartedInv'
      BY <1>1 DEF M_Create, StartedInv, ThreadsOK, IndexInv, ControlOK
  <2>5. CyclesInv'
      BY <1>1 DEF M_Create, CyclesInv, ThreadsOK, IndexInv, ControlOK
  <2>6. FlagsOK' /\ RecordsOK'
      BY <1>1 DEF M_Create, FlagsOK, RecordsOK
  <2>7. QED
      BY <2>1, <2>2, <2>3, <2>4, <2>5, <2>6
<1>2. CASE M_Test
  <2>1. FlagsOK'
      BY <1>2 DEF M_Test, FlagsOK
  <2>2. ControlOK'
      BY <1>2 DEF M_Test, ControlOK, MainPC, FifoPC, Reasons
  <2>3. IndexInv'
      BY <1>2 DEF M_Test, IndexInv, ControlOK, ThreadsOK
  <2>4. ThreadsOK' /\ RecordsOK' /\ StartedInv' /\ CyclesInv'
      BY <1>2 DEF M_Test, ThreadsOK, RecordsOK, StartedInv, CyclesInv
  <2>5. QED
      BY <2>1, <2>2, <2>3, <2>4
<1>3. CASE M_Print
  <2>1. FlagsOK'
      BY <1>3 DEF M_Print, FlagsOK, ReachedMax
  <2>2. ControlOK'
      BY <1>3 DEF M_Print, ControlOK, MainPC, FifoPC, Reasons, IndexInv
  <2>3. IndexInv'
      BY <1>3 DEF M_Print, IndexInv, ControlOK, ThreadsOK
  <2>4. ThreadsOK' /\ RecordsOK' /\ StartedInv' /\ CyclesInv'
      BY <1>3 DEF M_Print, ThreadsOK, RecordsOK, StartedInv, CyclesInv
  <2>5. QED
      BY <2>1, <2>2, <2>3, <2>4
<1>4. CASE M_Check
  <2>1. ControlOK'
      BY <1>4 DEF M_Check, ControlOK, MainPC, FifoPC, Reasons
  <2>2. IndexInv'
      BY <1>4 DEF M_Check, IndexInv, ControlOK, ThreadsOK
  <2>3. FlagsOK' /\ ThreadsOK' /\ RecordsOK' /\ StartedInv' /\ CyclesInv'
      BY <1>4 DEF M_Check, FlagsOK, ThreadsOK, RecordsOK, StartedInv, CyclesInv
  <2>4. QED
      BY <2>1, <2>2, <2>3
<1>5. CASE M_Lock
  <2>1. ControlOK'
      BY <1>5 DEF M_Lock, ControlOK, MainPC, FifoPC, Reasons
  <2>2. IndexInv'
      BY <1>5 DEF M_Lock, IndexInv, ControlOK, ThreadsOK
  <2>3. FlagsOK' /\ ThreadsOK' /\ RecordsOK' /\ StartedInv' /\ CyclesInv'
      BY <1>5 DEF M_Lock, FlagsOK, ThreadsOK, RecordsOK, StartedInv, CyclesInv
  <2>4. QED
      BY <2>1, <2>2, <2>3
<1>6. CASE M_Locked
  <2>1. ControlOK'
      BY <1>6 DEF M_Locked, ControlOK, MainPC, FifoPC, Reasons
  <2>2. IndexInv'
      BY <1>6 DEF M_Locked, IndexInv, ControlOK, ThreadsOK
  <2>3. FlagsOK' /\ ThreadsOK' /\ RecordsOK' /\ StartedInv' /\ CyclesInv'
      BY <1>6 DEF M_Locked, FlagsOK, ThreadsOK, RecordsOK, StartedInv,
             CyclesInv
  <2>4. QED
      BY <2>1, <2>2, <2>3
<1>7. CASE M_CondWait
  <2>1. FlagsOK'
      BY <1>7 DEF M_CondWait, FlagsOK
  <2>2. ControlOK'
      BY <1>7 DEF M_CondWait, ControlOK, MainPC, FifoPC, Reasons
  <2>3. IndexInv'
      BY <1>7 DEF M_CondWait, IndexInv, ControlOK, ThreadsOK
  <2>4. ThreadsOK' /\ RecordsOK' /\ StartedInv' /\ CyclesInv'
      BY <1>7 DEF M_CondWait, ThreadsOK, RecordsOK, StartedInv, CyclesInv
  <2>5. QED
      BY <2>1, <2>2, <2>3, <2>4
<1>8. CASE M_Return
  <2>1. FlagsOK'
      BY <1>8 DEF M_Return, FlagsOK
  <2>2. ControlOK'
      BY <1>8 DEF M_Return, ControlOK, MainPC, FifoPC, Reasons
  <2>3. IndexInv'
      BY <1>8 DEF M_Return, IndexInv, ControlOK, ThreadsOK
  <2>4. ThreadsOK' /\ RecordsOK' /\ StartedInv' /\ CyclesInv'
      BY <1>8 DEF M_Return, ThreadsOK, RecordsOK, StartedInv, CyclesInv
  <2>5. QED
      BY <2>1, <2>2, <2>3, <2>4
<1>9. CASE M_OutAll
  <2>1. FlagsOK'
      BY <1>9 DEF M_OutAll, FlagsOK
  <2>2. ControlOK'
      BY <1>9 DEF M_OutAll, ControlOK, MainPC, FifoPC, Reasons
  <2>3. IndexInv'
      BY <1>9 DEF M_OutAll, IndexInv, ControlOK, ThreadsOK
  <2>4. ThreadsOK' /\ RecordsOK' /\ StartedInv' /\ CyclesInv'
      BY <1>9 DEF M_OutAll, ThreadsOK, RecordsOK, StartedInv, CyclesInv
  <2>5. QED
      BY <2>1, <2>2, <2>3, <2>4
<1>10. CASE M_Json
  <2> mi \in Threads
      BY <1>10 DEF M_Json, IndexInv, ControlOK, Threads
  <2>1. ControlOK'
      BY <1>10 DEF M_Json, ControlOK, MainPC, FifoPC, Reasons, IndexInv
  <2>2. IndexInv'
      BY <1>10 DEF M_Json, IndexInv, ControlOK, ThreadsOK
  <2>3. FlagsOK' /\ ThreadsOK' /\ RecordsOK' /\ StartedInv' /\ CyclesInv'
      BY <1>10 DEF M_Json, FlagsOK, ThreadsOK, RecordsOK, StartedInv, CyclesInv
  <2>4. QED
      BY <2>1, <2>2, <2>3
<1>11. CASE M_Kill
  <2> mi \in Threads
      BY <1>11 DEF M_Kill, IndexInv, ControlOK, Threads
  <2>1. ControlOK'
      BY <1>11 DEF M_Kill, ControlOK, MainPC, FifoPC, Reasons
  <2>2. ThreadsOK'
      BY <1>11 DEF M_Kill, ThreadsOK, TimerPC, IndexInv, ControlOK
  <2>3. IndexInv'
      BY <1>11 DEF M_Kill, IndexInv, ControlOK, ThreadsOK
  <2>4. StartedInv'
      BY <1>11 DEF M_Kill, StartedInv, ThreadsOK, IndexInv, ControlOK
  <2>5. CyclesInv'
      BY <1>11 DEF M_Kill, CyclesInv, ThreadsOK, IndexInv, ControlOK
  <2>6. FlagsOK' /\ RecordsOK'
      BY <1>11 DEF M_Kill, FlagsOK, RecordsOK
  <2>7. QED
      BY <2>1, <2>2, <2>3, <2>4, <2>5, <2>6
<1>12. CASE M_Join
  <2>1. ControlOK'
      BY <1>12 DEF M_Join, ControlOK, MainPC, FifoPC, Reasons, IndexInv
  <2>2. IndexInv'
      BY <1>12 DEF M_Join, IndexInv, ControlOK, ThreadsOK
  <2>3. FlagsOK' /\ ThreadsOK' /\ RecordsOK' /\ StartedInv' /\ CyclesInv'
      BY <1>12 DEF M_Join, FlagsOK, ThreadsOK, RecordsOK, StartedInv, CyclesInv
  <2>4. QED
      BY <2>1, <2>2, <2>3
<1>13. CASE M_Free
  <2> mi \in Threads
      BY <1>13 DEF M_Free, IndexInv, ControlOK, Threads
  <2>1. ControlOK'
      BY <1>13 DEF M_Free, ControlOK, MainPC, FifoPC, Reasons, IndexInv
  <2>2. ThreadsOK'
      BY <1>13 DEF M_Free, ThreadsOK, TimerPC
  <2>3. IndexInv'
      BY <1>13 DEF M_Free, IndexInv, ControlOK, ThreadsOK
  <2>4. FlagsOK' /\ RecordsOK' /\ StartedInv' /\ CyclesInv'
      BY <1>13 DEF M_Free, FlagsOK, RecordsOK, StartedInv, CyclesInv
  <2>5. QED
      BY <2>1, <2>2, <2>3, <2>4
<1>14. CASE M_Exit
  <2>1. ControlOK'
      BY <1>14 DEF M_Exit, ControlOK, MainPC, FifoPC, Reasons
  <2>2. IndexInv'
      BY <1>14 DEF M_Exit, IndexInv, ControlOK, ThreadsOK
  <2>3. FlagsOK' /\ ThreadsOK' /\ RecordsOK' /\ StartedInv' /\ CyclesInv'
      BY <1>14 DEF M_Exit, FlagsOK, ThreadsOK, RecordsOK, StartedInv, CyclesInv
  <2>4. QED
      BY <2>1, <2>2, <2>3
<1>15. CASE M_ValuesFail
  <2>1. ControlOK'
      BY <1>15 DEF M_ValuesFail, ControlOK, MainPC, FifoPC, Reasons
  <2>2. ThreadsOK'
      BY <1>15 DEF M_ValuesFail, ThreadsOK, TimerPC
  <2>3. IndexInv'
      BY <1>15 DEF M_ValuesFail, IndexInv, ControlOK, ThreadsOK
  <2>4. FlagsOK' /\ RecordsOK' /\ StartedInv' /\ CyclesInv'
      BY <1>15 DEF M_ValuesFail, FlagsOK, RecordsOK, StartedInv, CyclesInv
  <2>5. QED
      BY <2>1, <2>2, <2>3, <2>4
<1>16. CASE Fatal
  <2>1. ControlOK'
      BY <1>16 DEF Fatal, ControlOK, MainPC, FifoPC, Reasons
  <2>2. IndexInv'
      BY <1>16 DEF Fatal, IndexInv, ControlOK, ThreadsOK
  <2>3. FlagsOK' /\ ThreadsOK' /\ RecordsOK' /\ StartedInv' /\ CyclesInv'
      BY <1>16 DEF Fatal, FlagsOK, ThreadsOK, RecordsOK, StartedInv, CyclesInv
  <2>4. QED
      BY <2>1, <2>2, <2>3
<1>17. CASE F_Mkfifo
  <2>1. ControlOK'
      BY <1>17 DEF F_Mkfifo, ControlOK, MainPC, FifoPC, Reasons
  <2>2. FlagsOK' /\ ThreadsOK' /\ RecordsOK' /\ IndexInv' /\ StartedInv' /\ CyclesInv'
      BY <1>17 DEF F_Mkfifo, FlagsOK, ThreadsOK, RecordsOK, IndexInv,
             StartedInv, CyclesInv
  <2>3. QED
      BY <2>1, <2>2
<1>18. CASE F_Test
  <2>1. ControlOK'
      BY <1>18 DEF F_Test, ControlOK, MainPC, FifoPC, Reasons
  <2>2. FlagsOK' /\ ThreadsOK' /\ RecordsOK' /\ IndexInv' /\ StartedInv' /\ CyclesInv'
      BY <1>18 DEF F_Test, FlagsOK, ThreadsOK, RecordsOK, IndexInv, StartedInv,
             CyclesInv
  <2>3. QED
      BY <2>1, <2>2
<1>19. CASE F_Open
  <2>1. ControlOK'
      BY <1>19 DEF F_Open, ControlOK, MainPC, FifoPC, Reasons
  <2>2. IndexInv'
      BY <1>19 DEF F_Open, IndexInv, ControlOK, ThreadsOK
  <2>3. FlagsOK' /\ ThreadsOK' /\ RecordsOK' /\ StartedInv' /\ CyclesInv'
      BY <1>19 DEF F_Open, FlagsOK, ThreadsOK, RecordsOK, StartedInv, CyclesInv
  <2>4. QED
      BY <2>1, <2>2, <2>3
<1>20. CASE F_Print
  <2>1. ControlOK'
      BY <1>20 DEF F_Print, ControlOK, MainPC, FifoPC, Reasons, IndexInv
  <2>2. IndexInv'
      BY <1>20 DEF F_Print, IndexInv, ControlOK, ThreadsOK
  <2>3. FlagsOK' /\ ThreadsOK' /\ RecordsOK' /\ StartedInv' /\ CyclesInv'
      BY <1>20 DEF F_Print, FlagsOK, ThreadsOK, RecordsOK, StartedInv,
             CyclesInv
  <2>4. QED
      BY <2>1, <2>2, <2>3
<1>21. CASE Sighand
  <2>1. FlagsOK'
      BY <1>21 DEF Sighand, FlagsOK, CondSignalled
  <2>2. ControlOK'
      BY <1>21 DEF Sighand, ControlOK, MainPC, FifoPC, Reasons
  <2>3. ThreadsOK'
      BY <1>21 DEF Sighand, ThreadsOK, TimerPC
  <2>4. IndexInv'
      BY <1>21 DEF Sighand, IndexInv, ControlOK, ThreadsOK
  <2>5. StartedInv'
      BY <1>21 DEF Sighand, StartedInv, ThreadsOK
  <2>6. CyclesInv'
      BY <1>21 DEF Sighand, CyclesInv, ThreadsOK
  <2>7. RecordsOK'
      BY <1>21 DEF Sighand, RecordsOK
  <2>8. QED
      BY <2>1, <2>2, <2>3, <2>4, <2>5, <2>6, <2>7
<1>22. CASE SighandStatus
  <2>1. ControlOK'
      BY <1>22 DEF SighandStatus, ControlOK, MainPC, FifoPC, Reasons
  <2>2. IndexInv'
      BY <1>22 DEF SighandStatus, IndexInv, ControlOK, ThreadsOK
  <2>3. FlagsOK' /\ ThreadsOK' /\ RecordsOK' /\ StartedInv' /\ CyclesInv'
      BY <1>22 DEF SighandStatus, FlagsOK, ThreadsOK, RecordsOK, StartedInv,
             CyclesInv
  <2>4. QED
      BY <2>1, <2>2, <2>3
<1>23. ASSUME NEW t \in Threads, T_Start(t) PROVE TypeInv'
  <2>1. ThreadsOK'
      BY <1>23 DEF T_Start, ThreadsOK, TimerPC, StartedInv
  <2>2. IndexInv'
      BY <1>23 DEF T_Start, IndexInv, ControlOK, ThreadsOK
  <2>3. StartedInv'
      BY <1>23 DEF T_Start, StartedInv, ThreadsOK
  <2>4. CyclesInv'
      BY <1>23 DEF T_Start, CyclesInv, ThreadsOK
  <2>5. FlagsOK' /\ ControlOK' /\ RecordsOK'
      BY <1>23 DEF T_Start, FlagsOK, ControlOK, RecordsOK
  <2>6. QED
      BY <2>1, <2>2, <2>3, <2>4, <2>5
<1>24. ASSUME NEW t \in Threads, T_Globalt(t) PROVE TypeInv'
  <2>1. FlagsOK'
      BY <1>24 DEF T_Globalt, FlagsOK
  <2>2. ThreadsOK'
      BY <1>24 DEF T_Globalt, ThreadsOK, TimerPC
  <2>3. IndexInv'
      BY <1>24 DEF T_Globalt, IndexInv, ControlOK, ThreadsOK
  <2>4. StartedInv'
      BY <1>24 DEF T_Globalt, StartedInv, ThreadsOK
  <2>5. CyclesInv'
      BY <1>24 DEF T_Globalt, CyclesInv, ThreadsOK
  <2>6. ControlOK' /\ RecordsOK'
      BY <1>24 DEF T_Globalt, ControlOK, RecordsOK
  <2>7. QED
      BY <2>1, <2>2, <2>3, <2>4, <2>5, <2>6
<1>25. ASSUME NEW t \in Threads, T_Align(t) PROVE TypeInv'
  <2>1. FlagsOK'
      BY <1>25 DEF T_Align, FlagsOK
  <2>2. ThreadsOK'
      BY <1>25 DEF T_Align, ThreadsOK, TimerPC, StartedInv
  <2>3. IndexInv'
      BY <1>25 DEF T_Align, IndexInv, ControlOK, ThreadsOK
  <2>4. StartedInv'
      BY <1>25 DEF T_Align, StartedInv, ThreadsOK
  <2>5. CyclesInv'
      BY <1>25 DEF T_Align, CyclesInv, ThreadsOK
  <2>6. ControlOK' /\ RecordsOK'
      BY <1>25 DEF T_Align, ControlOK, RecordsOK
  <2>7. QED
      BY <2>1, <2>2, <2>3, <2>4, <2>5, <2>6
<1>26. ASSUME NEW t \in Threads, T_Test(t) PROVE TypeInv'
  <2>1. ThreadsOK'
      BY <1>26 DEF T_Test, ThreadsOK, TimerPC
  <2>2. IndexInv'
      BY <1>26 DEF T_Test, IndexInv, ControlOK, ThreadsOK
  <2>3. StartedInv'
      BY <1>26 DEF T_Test, StartedInv, ThreadsOK
  <2>4. CyclesInv'
      BY <1>26 DEF T_Test, CyclesInv, ThreadsOK
  <2>5. FlagsOK' /\ ControlOK' /\ RecordsOK'
      BY <1>26 DEF T_Test, FlagsOK, ControlOK, RecordsOK
  <2>6. QED
      BY <2>1, <2>2, <2>3, <2>4, <2>5
<1>27. ASSUME NEW t \in Threads, T_Wake(t) PROVE TypeInv'
  <2>1. FlagsOK'
      BY <1>27 DEF T_Wake, FlagsOK, CondSignalled
  <2>2. ThreadsOK'
      BY <1>27 DEF T_Wake, ThreadsOK, TimerPC
  <2>3. IndexInv'
      BY <1>27 DEF T_Wake, IndexInv, ControlOK, ThreadsOK
  <2>4. StartedInv'
      BY <1>27 DEF T_Wake, StartedInv, ThreadsOK
  <2>5. CyclesInv'
      BY <1>27 DEF T_Wake, CyclesInv, ThreadsOK
  <2>6. ControlOK' /\ RecordsOK'
      BY <1>27 DEF T_Wake, ControlOK, RecordsOK
  <2>7. QED
      BY <2>1, <2>2, <2>3, <2>4, <2>5, <2>6
<1>28. ASSUME NEW t \in Threads, T_Error(t) PROVE TypeInv'
  <2>1. ControlOK'
      BY <1>28 DEF T_Error, ControlOK, MainPC, FifoPC, Reasons
  <2>2. ThreadsOK'
      BY <1>28 DEF T_Error, ThreadsOK, TimerPC
  <2>3. IndexInv'
      BY <1>28 DEF T_Error, IndexInv, ControlOK, ThreadsOK
  <2>4. StartedInv'
      BY <1>28 DEF T_Error, StartedInv, ThreadsOK
  <2>5. CyclesInv'
      BY <1>28 DEF T_Error, CyclesInv, ThreadsOK
  <2>6. FlagsOK' /\ RecordsOK'
      BY <1>28 DEF T_Error, FlagsOK, RecordsOK
  <2>7. QED
      BY <2>1, <2>2, <2>3, <2>4, <2>5, <2>6
<1>29. ASSUME NEW t \in Threads, T_TriggerLock(t) PROVE TypeInv'
  <2>1. ThreadsOK'
      BY <1>29 DEF T_TriggerLock, ThreadsOK, TimerPC
  <2>2. RecordsOK'
    <3>1. ToInt(diff[t]) \in Int
        BY ToIntType DEF ThreadsOK
    <3>2. QED
        BY <1>29, <3>1 DEF T_TriggerLock, RecordsOK
  <2>3. IndexInv'
      BY <1>29 DEF T_TriggerLock, IndexInv, ControlOK, ThreadsOK
  <2>4. StartedInv'
      BY <1>29 DEF T_TriggerLock, StartedInv, ThreadsOK
  <2>5. CyclesInv'
      BY <1>29 DEF T_TriggerLock, CyclesInv, ThreadsOK
  <2>6. FlagsOK' /\ ControlOK'
      BY <1>29 DEF T_TriggerLock, FlagsOK, ControlOK
  <2>7. QED
      BY <2>1, <2>2, <2>3, <2>4, <2>5, <2>6
<1>30. ASSUME NEW t \in Threads, T_TriggerUnlock(t) PROVE TypeInv'
  <2>1. ThreadsOK'
      BY <1>30 DEF T_TriggerUnlock, ThreadsOK, TimerPC
  <2>2. RecordsOK'
      BY <1>30 DEF T_TriggerUnlock, RecordsOK, NoThread, Nodes
  <2>3. IndexInv'
      BY <1>30 DEF T_TriggerUnlock, IndexInv, ControlOK, ThreadsOK
  <2>4. StartedInv'
      BY <1>30 DEF T_TriggerUnlock, StartedInv, ThreadsOK
  <2>5. CyclesInv'
      BY <1>30 DEF T_TriggerUnlock, CyclesInv, ThreadsOK
  <2>6. FlagsOK' /\ ControlOK'
      BY <1>30 DEF T_TriggerUnlock, FlagsOK, ControlOK
  <2>7. QED
      BY <2>1, <2>2, <2>3, <2>4, <2>5, <2>6
<1>31. ASSUME NEW t \in Threads, T_Limit(t) PROVE TypeInv'
  <2>1. FlagsOK'
      BY <1>31 DEF T_Limit, FlagsOK, ExceedsLimit
  <2>2. ControlOK'
      BY <1>31 DEF T_Limit, ControlOK, MainPC, FifoPC, Reasons
  <2>3. ThreadsOK'
      BY <1>31 DEF T_Limit, ThreadsOK, TimerPC
  <2>4. IndexInv'
      BY <1>31 DEF T_Limit, IndexInv, ControlOK, ThreadsOK
  <2>5. StartedInv'
      BY <1>31 DEF T_Limit, StartedInv, ThreadsOK
  <2>6. CyclesInv'
      BY <1>31 DEF T_Limit, CyclesInv, ThreadsOK
  <2>7. RecordsOK'
      BY <1>31 DEF T_Limit, RecordsOK
  <2>8. QED
      BY <2>1, <2>2, <2>3, <2>4, <2>5, <2>6, <2>7
<1>32. ASSUME NEW t \in Threads, T_BreakLock(t) PROVE TypeInv'
  <2>1. ThreadsOK'
      BY <1>32 DEF T_BreakLock, ThreadsOK, TimerPC
  <2>2. RecordsOK'
      BY <1>32 DEF T_BreakLock, RecordsOK, NoThread, Nodes, Threads
  <2>3. IndexInv'
      BY <1>32 DEF T_BreakLock, IndexInv, ControlOK, ThreadsOK
  <2>4. StartedInv'
      BY <1>32 DEF T_BreakLock, StartedInv, ThreadsOK
  <2>5. CyclesInv'
      BY <1>32 DEF T_BreakLock, CyclesInv, ThreadsOK
  <2>6. FlagsOK' /\ ControlOK'
      BY <1>32 DEF T_BreakLock, FlagsOK, ControlOK
  <2>7. QED
      BY <2>1, <2>2, <2>3, <2>4, <2>5, <2>6
<1>33. ASSUME NEW t \in Threads, T_BreakUnlock(t) PROVE TypeInv'
  <2>1. ThreadsOK'
      BY <1>33 DEF T_BreakUnlock, ThreadsOK, TimerPC
  <2>2. RecordsOK'
      BY <1>33 DEF T_BreakUnlock, RecordsOK, NoThread, Nodes, ThreadsOK,
             BreakValue
  <2>3. IndexInv'
      BY <1>33 DEF T_BreakUnlock, IndexInv, ControlOK, ThreadsOK
  <2>4. StartedInv'
      BY <1>33 DEF T_BreakUnlock, StartedInv, ThreadsOK
  <2>5. CyclesInv'
      BY <1>33 DEF T_BreakUnlock, CyclesInv, ThreadsOK
  <2>6. FlagsOK' /\ ControlOK'
      BY <1>33 DEF T_BreakUnlock, FlagsOK, ControlOK
  <2>7. QED
      BY <2>1, <2>2, <2>3, <2>4, <2>5, <2>6
<1>34. ASSUME NEW t \in Threads, T_Commit(t) PROVE TypeInv'
  <2>1. ControlOK'
      BY <1>34 DEF T_Commit, ControlOK, MainPC, FifoPC, Reasons
  <2>2. ThreadsOK'
      BY <1>34 DEF T_Commit, ThreadsOK, TimerPC, CyclesInv
  <2>3. IndexInv'
      BY <1>34 DEF T_Commit, IndexInv, ControlOK, ThreadsOK
  <2>4. StartedInv'
      BY <1>34 DEF T_Commit, StartedInv, ThreadsOK
  <2>5. CyclesInv'
      BY <1>34 DEF T_Commit, CyclesInv, ThreadsOK, LastCycle
  <2>6. FlagsOK' /\ RecordsOK'
      BY <1>34 DEF T_Commit, FlagsOK, RecordsOK
  <2>7. QED
      BY <2>1, <2>2, <2>3, <2>4, <2>5, <2>6
<1>35. ASSUME NEW t \in Threads, T_Out(t) PROVE TypeInv'
  <2>1. FlagsOK'
      BY <1>35 DEF T_Out, FlagsOK, CondSignalled
  <2>2. ThreadsOK'
      BY <1>35 DEF T_Out, ThreadsOK, TimerPC
  <2>3. IndexInv'
      BY <1>35 DEF T_Out, IndexInv, ControlOK, ThreadsOK
  <2>4. StartedInv'
      BY <1>35 DEF T_Out, StartedInv, ThreadsOK
  <2>5. CyclesInv'
      BY <1>35 DEF T_Out, CyclesInv, ThreadsOK
  <2>6. ControlOK' /\ RecordsOK'
      BY <1>35 DEF T_Out, ControlOK, RecordsOK
  <2>7. QED
      BY <2>1, <2>2, <2>3, <2>4, <2>5, <2>6
<1>36. ASSUME NEW t \in Threads, T_Fin(t) PROVE TypeInv'
  <2>1. ThreadsOK'
      BY <1>36 DEF T_Fin, ThreadsOK, TimerPC
  <2>2. IndexInv'
      BY <1>36 DEF T_Fin, IndexInv, ControlOK, ThreadsOK
  <2>3. StartedInv'
      BY <1>36 DEF T_Fin, StartedInv, ThreadsOK
  <2>4. CyclesInv'
      BY <1>36 DEF T_Fin, CyclesInv, ThreadsOK
  <2>5. FlagsOK' /\ ControlOK' /\ RecordsOK'
      BY <1>36 DEF T_Fin, FlagsOK, ControlOK, RecordsOK
  <2>6. QED
      BY <2>1, <2>2, <2>3, <2>4, <2>5
<1>37. CASE UNCHANGED vars
    BY <1>37 DEF vars, FlagsOK, ControlOK, ThreadsOK, RecordsOK, IndexInv,
                 StartedInv, CyclesInv
<1>38. QED
    BY ONLY TypeInv, Next, <1>1, <1>2, <1>3, <1>4, <1>5, <1>6, <1>7, <1>8,
       <1>9, <1>10, <1>11, <1>12, <1>13, <1>14, <1>15, <1>16, <1>17, <1>18,
       <1>19, <1>20, <1>21, <1>22, <1>23, <1>24, <1>25, <1>26, <1>27, <1>28,
       <1>29, <1>30, <1>31, <1>32, <1>33, <1>34, <1>35, <1>36, <1>37
       DEF Next, Main, Timer, Fifo, Ended, M_Woken, M_Spurious

(* In every state of every run the types hold; in particular no thread     *)
(* counts more cycles than -l allows it.                                   *)
THEOREM TypeCorrect == Spec => []TypeOK
<1>1. Init => TypeInv
    BY TypeInvInit
<1>2. TypeInv /\ [Next]_vars => TypeInv'
    BY TypeInvNext, TypeInvStutter
<1>3. TypeInv => TypeOK
    BY TypeInvTypeOK
<1>4. QED
    BY <1>1, <1>2, <1>3, PTL DEF Spec

-----------------------------------------------------------------------------
(* The life of the threads and of their statistics blocks. *)

(* A timer thread's step moves that thread alone, never to "none". *)
LEMMA TimerStep ==
    ASSUME TypeInv, NEW t \in Threads, Timer(t) \/ T_Error(t)
    PROVE  /\ tpc[t] \notin {"none", "done"}
           /\ \E q \in TimerPC \ {"none"} : tpc' = [tpc EXCEPT ![t] = q]
           /\ UNCHANGED <<mpc, mi, stat>>
BY DEF TypeInv, ThreadsOK, TimerPC, Timer, T_Start, T_Globalt, T_Align, T_Test,
       T_Wake, T_Error, T_TriggerLock, T_TriggerUnlock, T_Limit, T_BreakLock,
       T_BreakUnlock, T_Commit, T_Out, T_Fin, mainvars

(* No thread is left once the kill loop is behind it. *)
JoinedInv ==
    /\ mpc \in {"kill", "join"} =>
          \A t \in Threads : t < mi => tpc[t] \in {"none", "done"}
    /\ mpc \in {"free", "out", "exited"} =>
          \A t \in Threads : tpc[t] \in {"none", "done"}

LifeInv == JoinedInv /\ StatsLive

(* Every step keeps the record of joined threads and live statistics, ... *)
LEMMA LifeInvNext ==
    ASSUME TypeInv, LifeInv, [Next]_vars
    PROVE  LifeInv'
<1> USE ConstantsAssumption
        DEF ConstantsAssumption, LifeInv, JoinedInv, StatsLive, TypeInv,
            ControlOK, ThreadsOK, MainPC, TimerPC, MoreThreads, mainvars, statvars,
            timervars
<1>1. ASSUME NEW t \in Threads, Timer(t) \/ T_Error(t) PROVE LifeInv'
    BY <1>1, TimerStep
<1>2. CASE M_Create \/ M_ValuesFail
  <2>1. mi \in Threads
      BY <1>2 DEF M_Create, M_ValuesFail, IndexInv, Threads
  <2>2. QED
      BY <1>2, <2>1 DEF M_Create, M_ValuesFail, IndexInv
<1>3. CASE M_OutAll \/ M_Json
  <2>1. \A t \in Threads : ~(t < 0)
      BY DEF Threads
  <2>2. QED
      BY <1>3, <2>1 DEF M_OutAll, M_Json
<1>4. CASE M_Kill
  <2>1. mi \in Threads
      BY <1>4 DEF M_Kill, IndexInv, Threads
  <2>2. QED
      BY <1>4, <2>1 DEF M_Kill
<1>5. CASE M_Join
  <2>1. mi \in Threads
      BY <1>5 DEF M_Join, IndexInv, Threads
  <2>2. tpc[mi] \in {"none", "done"}
      BY <1>5, <2>1 DEF M_Join, Joined, StartedInv
  <2>3. /\ \A t \in Threads : t < mi + 1 => t < mi \/ t = mi
        /\ ~(mi + 1 < N) => \A t \in Threads : t < mi \/ t = mi
        /\ \A t \in Threads : ~(t < 0)
      BY DEF Threads
  <2>4. QED
      BY <1>5, <2>2, <2>3 DEF M_Join
<1>6. CASE M_Free \/ M_Exit
    BY <1>6 DEF M_Free, M_Exit
<1>7. CASE M_Test \/ M_Print \/ M_Check \/ M_Lock \/ M_Locked \/ M_CondWait \/ M_Return
    BY <1>7 DEF M_Test, M_Print, M_Check, M_Lock, M_Locked, M_CondWait, M_Return
<1>8. CASE Sighand
    BY <1>8 DEF Sighand
<1>9. CASE SighandStatus \/ Fatal \/ Fifo \/ UNCHANGED vars
    BY <1>9 DEF SighandStatus, Fatal, Fifo, F_Mkfifo, F_Test, F_Open, F_Print, vars
<1>10. QED
    BY ONLY [Next]_vars, <1>1, <1>2, <1>3, <1>4, <1>5, <1>6, <1>7, <1>8, <1>9
       DEF Next, Main, Ended, M_Woken, M_Spurious

(* Whatever ends the test and wherever the signals arrive, no timer thread *)
(* outlives its statistics block: it is allocated before pthread_create    *)
(* and freed after the join.                                               *)
THEOREM StatsOutliveThreads == Spec => []StatsLive
<1>1. Init => TypeInv /\ LifeInv
  <2>1. Init => LifeInv
      BY DEF Init, LifeInv, JoinedInv, StatsLive
  <2>2. QED
      BY <2>1, TypeInvInit
<1>2. TypeInv /\ LifeInv /\ [Next]_vars => TypeInv' /\ LifeInv'
    BY TypeInvNext, TypeInvStutter, LifeInvNext
<1>3. LifeInv => StatsLive
    BY DEF LifeInv
<1>4. QED
    BY <1>1, <1>2, <1>3, PTL DEF Spec

-----------------------------------------------------------------------------
(* The condition variable of -M. *)

(* main takes the lock only with -M; a thread past `out' has set shutdown;  *)
(* and main, which looked at shutdown under the lock, goes to sleep, and    *)
(* stays asleep unsignalled, only while some thread has its `out' to do.    *)
WakeInv ==
    /\ mpc \in {"lock", "locked", "condwait", "waiting"} => refresh_on_max
    /\ refresh_on_max /\ (\E t \in Threads : tpc[t] \in {"fin", "done"})
          => shutdown
    /\ mpc = "condwait" \/ (mpc = "waiting" /\ ~signalled)
          => \E t \in Threads : tpc[t] \notin {"fin", "done"}

(* ... and the wake-up of main in sight. *)
LEMMA WakeInvNext ==
    ASSUME TypeInv, WakeInv, [Next]_vars
    PROVE  WakeInv'
<1> USE ConstantsAssumption
        DEF ConstantsAssumption, WakeInv, TypeInv, ThreadsOK, ControlOK,
            mainvars, statvars, timervars
<1>1. ASSUME NEW t \in Threads, T_Out(t) PROVE WakeInv'
    BY <1>1 DEF T_Out, RefreshLockFree, CondSignalled
<1>2. ASSUME NEW t \in Threads, T_Fin(t) PROVE WakeInv'
    BY <1>2 DEF T_Fin
<1>3. ASSUME NEW t \in Threads, T_Wake(t) PROVE WakeInv'
    BY <1>3 DEF T_Wake, CondSignalled
<1>4. ASSUME NEW t \in Threads, T_Limit(t) PROVE WakeInv'
    BY <1>4 DEF T_Limit
<1>5. ASSUME NEW t \in Threads,
             T_Start(t) \/ T_Globalt(t) \/ T_Align(t) \/ T_Test(t) \/ T_Error(t)
      PROVE  WakeInv'
    BY <1>5 DEF T_Start, T_Globalt, T_Align, T_Test, T_Error
<1>6. ASSUME NEW t \in Threads,
             T_TriggerLock(t) \/ T_TriggerUnlock(t) \/ T_BreakLock(t)
                \/ T_BreakUnlock(t) \/ T_Commit(t)
      PROVE  WakeInv'
    BY <1>6 DEF T_TriggerLock, T_TriggerUnlock, T_BreakLock, T_BreakUnlock, T_Commit
<1>7. CASE M_Create
  <2>1. mi \in Threads
      BY <1>7 DEF M_Create, IndexInv, Threads
  <2>2. QED
      BY <1>7, <2>1 DEF M_Create
<1>8. CASE M_Locked
  <2>1. 0 \in Threads
      BY DEF Threads
  <2>2. QED
      BY <1>8, <2>1 DEF M_Locked
<1>9. CASE M_CondWait \/ M_Return
    BY <1>9 DEF M_CondWait, M_Return
<1>10. CASE M_Kill
    BY <1>10 DEF M_Kill
<1>11. CASE M_Test \/ M_Print \/ M_Check \/ M_Lock \/ M_OutAll
    BY <1>11 DEF M_Test, M_Print, M_Check, M_Lock, M_OutAll
<1>12. CASE M_Json \/ M_Join \/ M_Free \/ M_Exit \/ M_ValuesFail \/ Fatal
    BY <1>12 DEF M_Json, M_Join, M_Free, M_Exit, M_ValuesFail, Fatal
<1>13. CASE Sighand
    BY <1>13 DEF Sighand, CondSignalled
<1>14. CASE SighandStatus \/ Fifo \/ UNCHANGED vars
    BY <1>14 DEF SighandStatus, Fifo, F_Mkfifo, F_Test, F_Open, F_Print, vars
<1>15. QED
    BY ONLY [Next]_vars, <1>1, <1>2, <1>3, <1>4, <1>5, <1>6, <1>7, <1>8, <1>9,
       <1>10, <1>11, <1>12, <1>13, <1>14
       DEF Next, Main, Timer, Ended, M_Woken, M_Spurious

(* With -M the end of the test is never missed by a main that waits on the *)
(* condition variable: the lock that the `out' section and main's test of  *)
(* shutdown share is what makes it so.                                     *)
THEOREM WakeupNeverLost == Spec => []NoLostWakeup
<1>1. Init => TypeInv /\ WakeInv
  <2>1. Init => WakeInv
      BY DEF Init, WakeInv
  <2>2. QED
      BY <2>1, TypeInvInit
<1>2. TypeInv /\ WakeInv /\ [Next]_vars => TypeInv' /\ WakeInv'
    BY TypeInvNext, TypeInvStutter, WakeInvNext
<1>3. WakeInv => NoLostWakeup
    BY DEF WakeInv, NoLostWakeup
<1>4. QED
    BY <1>1, <1>2, <1>3, PTL DEF Spec

-----------------------------------------------------------------------------
(* The aligned start of -A. *)

(* Thread 0 reaches the second barrier with the common time written, so    *)
(* whoever leaves that barrier finds it.                                   *)
AlignInv ==
    /\ 0 \in arrived["align_barr"] => globalt
    /\ AlignedStart

(* Every step keeps the rule of the second barrier. *)
LEMMA AlignInvNext ==
    ASSUME TypeInv, AlignInv, [Next]_vars
    PROVE  AlignInv'
<1> USE ConstantsAssumption
        DEF ConstantsAssumption, AlignInv, AlignedStart, TypeInv, ThreadsOK,
            mainvars, statvars, timervars, startvars
<1>1. ASSUME NEW t \in Threads, T_Start(t) PROVE AlignInv'
    BY <1>1 DEF T_Start
<1>2. ASSUME NEW t \in Threads, T_Globalt(t) PROVE AlignInv'
    BY <1>2 DEF T_Globalt
<1>3. ASSUME NEW t \in Threads, T_Align(t) PROVE AlignInv'
  <2>1. 0 \in Threads
      BY DEF Threads
  <2>2. globalt
      BY <1>3, <2>1 DEF T_Align, BarrierOpen
  <2>3. started_at' = [started_at EXCEPT ![t] = TRUE]
      BY <1>3, <2>2, Zenon DEF T_Align, FlagsOK
  <2>4. QED
      BY <1>3, <2>2, <2>3 DEF T_Align, FlagsOK
<1>4. ASSUME NEW t \in Threads,
             T_Test(t) \/ T_Wake(t) \/ T_Error(t) \/ T_TriggerLock(t)
                \/ T_TriggerUnlock(t) \/ T_Limit(t)
      PROVE  AlignInv'
    BY <1>4 DEF T_Test, T_Wake, T_Error, T_TriggerLock, T_TriggerUnlock, T_Limit
<1>5. ASSUME NEW t \in Threads,
             T_BreakLock(t) \/ T_BreakUnlock(t) \/ T_Commit(t) \/ T_Out(t)
                \/ T_Fin(t)
      PROVE  AlignInv'
    BY <1>5 DEF T_BreakLock, T_BreakUnlock, T_Commit, T_Out, T_Fin
<1>6. CASE M_Create
  <2>1. mi \in Threads
      BY <1>6 DEF M_Create, IndexInv, ControlOK, Threads
  <2>2. QED
      BY <1>6, <2>1 DEF M_Create
<1>7. CASE M_Kill \/ Sighand
    BY <1>7 DEF M_Kill, Sighand
<1>8. CASE M_Test \/ M_Print \/ M_Check \/ M_Lock \/ M_Locked \/ M_CondWait
              \/ M_Return \/ M_OutAll
    BY <1>8 DEF M_Test, M_Print, M_Check, M_Lock, M_Locked, M_CondWait,
                M_Return, M_OutAll
<1>9. CASE M_Json \/ M_Join \/ M_Free \/ M_Exit \/ M_ValuesFail \/ Fatal
    BY <1>9 DEF M_Json, M_Join, M_Free, M_Exit, M_ValuesFail, Fatal
<1>10. CASE SighandStatus \/ Fifo \/ UNCHANGED vars
    BY <1>10 DEF SighandStatus, Fifo, F_Mkfifo, F_Test, F_Open, F_Print, vars
<1>11. QED
    BY ONLY [Next]_vars, <1>1, <1>2, <1>3, <1>4, <1>5, <1>6, <1>7, <1>8, <1>9,
       <1>10
       DEF Next, Main, Timer, Ended, M_Woken, M_Spurious

(* With -A no thread, whatever the order in which the N of them are        *)
(* scheduled around the two barriers, starts from the stale globalt.       *)
THEOREM AlignedThreadsShareStart == Spec => []AlignedStart
<1>1. Init => TypeInv /\ AlignInv
  <2>1. Init => AlignInv
      BY DEF Init, AlignInv, AlignedStart
  <2>2. QED
      BY <2>1, TypeInvInit
<1>2. TypeInv /\ AlignInv /\ [Next]_vars => TypeInv' /\ AlignInv'
    BY TypeInvNext, TypeInvStutter, AlignInvNext
<1>3. AlignInv => AlignedStart
    BY DEF AlignInv
<1>4. QED
    BY <1>1, <1>2, <1>3, PTL DEF Spec

-----------------------------------------------------------------------------
(* The trigger list of --spike. *)

(* The number n stands for a latency above the trigger. *)
Spike(n) == \E d \in Latencies : d > trigger /\ n = ToInt(d)

(* trigger_lock is held by the thread inside trigger_update, the node it   *)
(* has filled in is the current one, and only a spike gets there.          *)
TriggerInv ==
    /\ \A t \in Threads : trig_by = t <=> tpc[t] = "trigged"
    /\ \A t \in Threads : tpc[t] \in {"trig", "trigged"} =>
          diff[t] \in Latencies /\ diff[t] > trigger
    /\ trig_by # NoThread /\ current \in Nodes => Spike(node[current])
    /\ \A i \in Nodes : i < current => Spike(node[i])
    /\ current = IF spikes < trigger_list_size THEN spikes ELSE trigger_list_size

(* Every step keeps the trigger list in order. *)
LEMMA TriggerInvNext ==
    ASSUME TypeInv, TriggerInv, [Next]_vars
    PROVE  TriggerInv'
<1> USE ConstantsAssumption
        DEF ConstantsAssumption, TriggerInv, TypeInv, ThreadsOK,
            mainvars, statvars, timervars, trigvars
<1>1. ASSUME NEW t \in Threads, T_Wake(t) PROVE TriggerInv'
    BY <1>1 DEF T_Wake
<1>2. ASSUME NEW t \in Threads, T_TriggerLock(t) PROVE TriggerInv'
  <2>1. \A s \in Threads : s # NoThread
      BY DEF Threads, NoThread
  <2>2. /\ current \in 0 .. trigger_list_size /\ node \in [Nodes -> Int]
        /\ tpc[t] = "trig" /\ trig_by = NoThread
        /\ trig_by' = t /\ tpc' = [tpc EXCEPT ![t] = "trigged"]
        /\ current \in Nodes => node' = [node EXCEPT ![current] = ToInt(diff[t])]
        /\ current \notin Nodes => node' = node
        /\ UNCHANGED <<diff, current, spikes>>
      BY <1>2 DEF T_TriggerLock, TriggerLockFree, RecordsOK
  <2>3. \A s \in Threads : trig_by' = s <=> tpc'[s] = "trigged"
      BY <2>1, <2>2
  <2>4. \A s \in Threads : tpc'[s] \in {"trig", "trigged"} =>
           diff'[s] \in Latencies /\ diff'[s] > trigger
      BY <2>2
  <2>5. Spike(ToInt(diff[t]))
      BY <2>2 DEF Spike
  <2>6. current' \in Nodes => Spike(node'[current'])
      BY <2>2, <2>5
  <2>7. \A i \in Nodes : i < current' => Spike(node'[i])
      BY <2>2 DEF Nodes
  <2>8. QED
      BY <2>2, <2>3, <2>4, <2>6, <2>7
<1>3. ASSUME NEW t \in Threads, T_TriggerUnlock(t) PROVE TriggerInv'
  <2>1. \A s \in Threads : s # NoThread
      BY DEF Threads, NoThread
  <2>2. /\ current \in 0 .. trigger_list_size /\ spikes \in Nat
        /\ tpc[t] = "trigged" /\ trig_by = t
        /\ trig_by' = NoThread /\ tpc' = [tpc EXCEPT ![t] = "limit"]
        /\ current' = IF current \in Nodes THEN current + 1 ELSE current
        /\ spikes' = spikes + 1
        /\ UNCHANGED <<diff, node>>
      BY <1>3 DEF T_TriggerUnlock, RecordsOK
  <2>3. \A s \in Threads : trig_by' = s <=> tpc'[s] = "trigged"
      BY <2>1, <2>2
  <2>4. \A s \in Threads : tpc'[s] \in {"trig", "trigged"} =>
           diff'[s] \in Latencies /\ diff'[s] > trigger
      BY <2>2
  <2>5. \A i \in Nodes : i < current' => Spike(node'[i])
      BY <2>1, <2>2 DEF Nodes
  <2>6. current' = IF spikes' < trigger_list_size THEN spikes' ELSE trigger_list_size
      BY <2>2 DEF Nodes
  <2>7. QED
      BY <2>2, <2>3, <2>4, <2>5, <2>6
<1>4. ASSUME NEW t \in Threads,
             T_Start(t) \/ T_Globalt(t) \/ T_Align(t) \/ T_Test(t) \/ T_Error(t)
                \/ T_Limit(t)
      PROVE  TriggerInv'
    BY <1>4 DEF T_Start, T_Globalt, T_Align, T_Test, T_Error, T_Limit
<1>5. ASSUME NEW t \in Threads,
             T_BreakLock(t) \/ T_BreakUnlock(t) \/ T_Commit(t) \/ T_Out(t)
                \/ T_Fin(t)
      PROVE  TriggerInv'
    BY <1>5 DEF T_BreakLock, T_BreakUnlock, T_Commit, T_Out, T_Fin
<1>6. CASE M_Create
  <2>1. mi \in Threads /\ tpc[mi] = "none"
      BY <1>6 DEF M_Create, IndexInv, ControlOK, Threads
  <2>2. QED
      BY <1>6, <2>1 DEF M_Create
<1>7. CASE M_Kill \/ Sighand
    BY <1>7 DEF M_Kill, Sighand
<1>8. CASE M_Test \/ M_Print \/ M_Check \/ M_Lock \/ M_Locked \/ M_CondWait
              \/ M_Return \/ M_OutAll
    BY <1>8 DEF M_Test, M_Print, M_Check, M_Lock, M_Locked, M_CondWait,
                M_Return, M_OutAll
<1>9. CASE M_Json \/ M_Join \/ M_Free \/ M_Exit \/ M_ValuesFail \/ Fatal
    BY <1>9 DEF M_Json, M_Join, M_Free, M_Exit, M_ValuesFail, Fatal
<1>10. CASE SighandStatus \/ Fifo \/ UNCHANGED vars
    BY <1>10 DEF SighandStatus, Fifo, F_Mkfifo, F_Test, F_Open, F_Print, vars
<1>11. QED
    BY ONLY [Next]_vars, <1>1, <1>2, <1>3, <1>4, <1>5, <1>6, <1>7, <1>8, <1>9,
       <1>10
       DEF Next, Main, Timer, Ended, M_Woken, M_Spurious

(* However many threads meet spikes at once, the list that trigger_print   *)
(* shows holds the first spikes, each the int that trigger_update makes of *)
(* a latency above the trigger: the node is filled in and the list         *)
(* advanced under one hold of trigger_lock.                                *)
THEOREM SpikesAllLogged == Spec => []TriggerLog
<1>1. Init => TypeInv /\ TriggerInv
  <2>1. Init => TriggerInv
      BY ConstantsAssumption
         DEF ConstantsAssumption, Init, TriggerInv, Threads, Nodes,
             NoThread
  <2>2. QED
      BY <2>1, TypeInvInit
<1>2. TypeInv /\ TriggerInv /\ [Next]_vars => TypeInv' /\ TriggerInv'
    BY TypeInvNext, TypeInvStutter, TriggerInvNext
<1>3. TriggerInv => TriggerLog
    BY DEF TriggerInv, TriggerLog, Spike
<1>4. QED
    BY <1>1, <1>2, <1>3, PTL DEF Spec

-----------------------------------------------------------------------------
(* The break record of -b. *)

(* A thread that met the limit never measures again, so its `diff' stays   *)
(* what the record says once the value has followed the thread id.         *)
BreakInv ==
    /\ \A t \in Threads : break_by = t <=> tpc[t] = "breaking"
    /\ \A t \in Threads : tpc[t] \in {"break", "breaking"} => stopped[t]
    /\ \A t \in Threads : stopped[t] =>
          /\ shutdown /\ diff[t] > tracelimit
          /\ tpc[t] \notin {"sleep", "trig", "trigged", "limit"}
          /\ tpc[t] = "break" \/ break_id # NoThread
    /\ \A t \in Threads : break_id = t =>
          stopped[t] /\ (tpc[t] = "breaking" \/ break_value = diff[t])

(* Every step keeps the record and the threads it is about together. *)
LEMMA BreakInvNext ==
    ASSUME TypeInv, BreakInv, [Next]_vars
    PROVE  BreakInv'
<1> USE ConstantsAssumption
        DEF ConstantsAssumption, BreakInv, TypeInv, ThreadsOK,
            mainvars, statvars, timervars, breakvars
<1>n. \A s \in Threads : s # NoThread
    BY DEF Threads, NoThread
<1>1. ASSUME NEW t \in Threads, T_Limit(t) PROVE BreakInv'
  <2>1. CASE ExceedsLimit(t)
    <3>1. /\ shutdown' /\ diff[t] > tracelimit /\ tpc[t] = "limit"
          /\ stopped' = [stopped EXCEPT ![t] = TRUE]
          /\ tpc' = [tpc EXCEPT ![t] = "break"]
          /\ UNCHANGED <<diff, break_id, break_value, break_by>>
        BY <1>1, <2>1, Zenon DEF T_Limit, ExceedsLimit
    <3>2. QED
        BY <3>1 DEF FlagsOK
  <2>2. CASE ~ExceedsLimit(t)
    <3>1. /\ shutdown => shutdown'
          /\ tpc[t] = "limit"
          /\ stopped' = [stopped EXCEPT ![t] = stopped[t]]
          /\ tpc' = [tpc EXCEPT ![t] = "commit"]
          /\ UNCHANGED <<diff, break_id, break_value, break_by>>
        BY <1>1, <2>2, Zenon DEF T_Limit, FlagsOK
    <3>2. stopped' = stopped
        BY <3>1 DEF FlagsOK
    <3>3. QED
        BY <3>1, <3>2
  <2>3. QED
      BY <2>1, <2>2
<1>2. ASSUME NEW t \in Threads, T_BreakLock(t) PROVE BreakInv'
    BY <1>2, <1>n DEF T_BreakLock, BreakUnsigned
<1>3. ASSUME NEW t \in Threads, T_BreakUnlock(t) PROVE BreakInv'
    BY <1>3, <1>n DEF T_BreakUnlock, BreakValue
<1>4. ASSUME NEW t \in Threads, T_Test(t) PROVE BreakInv'
    BY <1>4 DEF T_Test
<1>5. ASSUME NEW t \in Threads, T_Wake(t) PROVE BreakInv'
    BY <1>5 DEF T_Wake
<1>6. ASSUME NEW t \in Threads,
             T_Start(t) \/ T_Globalt(t) \/ T_Align(t) \/ T_Error(t)
                \/ T_TriggerLock(t) \/ T_TriggerUnlock(t)
      PROVE  BreakInv'
    BY <1>6 DEF T_Start, T_Globalt, T_Align, T_Error, T_TriggerLock, T_TriggerUnlock
<1>7. ASSUME NEW t \in Threads, T_Commit(t) \/ T_Out(t) \/ T_Fin(t)
      PROVE  BreakInv'
  <2>1. shutdown => shutdown'
      BY <1>7, Zenon DEF T_Commit, T_Out, T_Fin
  <2>2. /\ tpc[t] \in {"commit", "out", "fin"}
        /\ \E q \in {"out", "test", "fin", "done"} : tpc' = [tpc EXCEPT ![t] = q]
        /\ UNCHANGED <<diff, stopped, break_id, break_value, break_by>>
      BY <1>7 DEF T_Commit, T_Out, T_Fin
  <2>3. QED
      BY <2>1, <2>2
<1>8. CASE M_Create
  <2>1. mi \in Threads /\ tpc[mi] = "none"
      BY <1>8 DEF M_Create, IndexInv, ControlOK, Threads
  <2>2. QED
      BY <1>8, <2>1 DEF M_Create
<1>9. CASE M_Kill \/ Sighand
    BY <1>9 DEF M_Kill, Sighand
<1>10. CASE M_Test \/ M_Print \/ M_Check \/ M_Lock \/ M_Locked \/ M_CondWait
               \/ M_Return \/ M_OutAll
    BY <1>10 DEF M_Test, M_Print, M_Check, M_Lock, M_Locked, M_CondWait,
                 M_Return, M_OutAll
<1>11. CASE M_Json \/ M_Join \/ M_Free \/ M_Exit \/ M_ValuesFail \/ Fatal
    BY <1>11 DEF M_Json, M_Join, M_Free, M_Exit, M_ValuesFail, Fatal
<1>12. CASE SighandStatus \/ Fifo \/ UNCHANGED vars
    BY <1>12 DEF SighandStatus, Fifo, F_Mkfifo, F_Test, F_Open, F_Print, vars
<1>13. QED
    BY ONLY [Next]_vars, <1>1, <1>2, <1>3, <1>4, <1>5, <1>6, <1>7, <1>8, <1>9,
       <1>10, <1>11, <1>12
       DEF Next, Main, Timer, Ended, M_Woken, M_Spurious

(* The break thread and break value that main prints after the joins are   *)
(* one thread's last latency, above the -b limit, for any number of        *)
(* threads that meet the limit together; and some thread did meet it.      *)
THEOREM BreakRecordBelongsTogether == Spec => []BreakRecord
<1>1. Init => TypeInv /\ LifeInv /\ BreakInv
  <2>1. Init => LifeInv
      BY DEF Init, LifeInv, JoinedInv, StatsLive
  <2>2. Init => BreakInv
      BY DEF Init, BreakInv, Threads, NoThread
  <2>3. QED
      BY <2>1, <2>2, TypeInvInit
<1>2. TypeInv /\ LifeInv /\ BreakInv /\ [Next]_vars
         => TypeInv' /\ LifeInv' /\ BreakInv'
    BY TypeInvNext, TypeInvStutter, LifeInvNext, BreakInvNext
<1>3. TypeInv /\ LifeInv /\ BreakInv => BreakRecord
  <2> SUFFICES ASSUME TypeInv, LifeInv, BreakInv, mpc \in {"free", "out", "exited"}
               PROVE  /\ (\E t \in Threads : stopped[t]) <=> break_id # NoThread
                      /\ break_id # NoThread => /\ break_value = diff[break_id]
                                                /\ break_value > tracelimit
      BY DEF BreakRecord
  <2>1. \A t \in Threads : tpc[t] \in {"none", "done"}
      BY DEF LifeInv, JoinedInv
  <2>2. break_id \in Threads \cup {NoThread}
      BY DEF TypeInv, RecordsOK
  <2>3. (\E t \in Threads : stopped[t]) => break_id # NoThread
      BY <2>1 DEF BreakInv
  <2>4. break_id # NoThread =>
           stopped[break_id] /\ break_value = diff[break_id]
      BY <2>1, <2>2 DEF BreakInv
  <2>5. QED
      BY <2>2, <2>3, <2>4 DEF BreakInv
<1>4. QED
    BY <1>1, <1>2, <1>3, PTL DEF Spec

-----------------------------------------------------------------------------
(* The reasons for the end of the test. *)

(* Everything that leads to the end of the test has its reason behind it.  *)
ReasonInv ==
    /\ shutdown \/ allstopped => why # {}
    /\ mpc \in {"outall", "json", "kill", "join"} => why # {}
    /\ \A t \in Threads : ReachedMax(t) \/ tpc[t] \in {"out", "fin"} => why # {}

(* Every step keeps the reason behind what it does. *)
LEMMA ReasonInvNext ==
    ASSUME TypeInv, ReasonInv, [Next]_vars
    PROVE  ReasonInv'
<1> USE ConstantsAssumption
        DEF ConstantsAssumption, ReasonInv, ReachedMax, TypeInv, ThreadsOK,
            mainvars, statvars, timervars, histvars
<1>1. ASSUME NEW t \in Threads, T_Commit(t) PROVE ReasonInv'
  <2>1. CASE LastCycle(t)
      BY <1>1, <2>1 DEF T_Commit
  <2>2. CASE ~LastCycle(t)
    <3>1. max_cycles # 0 => cycles[t] + 1 < max_cycles
        BY <1>1, <2>2 DEF T_Commit, LastCycle, CyclesInv
    <3>2. QED
        BY <1>1, <2>2, <3>1 DEF T_Commit
  <2>3. QED
      BY <2>1, <2>2
<1>2. ASSUME NEW t \in Threads, T_Limit(t) PROVE ReasonInv'
    BY <1>2 DEF T_Limit
<1>3. ASSUME NEW t \in Threads, T_Out(t) \/ T_Test(t) \/ T_Error(t) PROVE ReasonInv'
    BY <1>3 DEF T_Out, T_Test, T_Error
<1>4. ASSUME NEW t \in Threads,
             T_Start(t) \/ T_Globalt(t) \/ T_Align(t) \/ T_Wake(t)
      PROVE  ReasonInv'
    BY <1>4 DEF T_Start, T_Globalt, T_Align, T_Wake
<1>5. ASSUME NEW t \in Threads,
             T_TriggerLock(t) \/ T_TriggerUnlock(t) \/ T_BreakLock(t)
                \/ T_BreakUnlock(t) \/ T_Fin(t)
      PROVE  ReasonInv'
    BY <1>5 DEF T_TriggerLock, T_TriggerUnlock, T_BreakLock, T_BreakUnlock, T_Fin
<1>6. CASE M_Create
    BY <1>6 DEF M_Create
<1>7. CASE M_Print
  <2>1. mi \in Threads
      BY <1>7 DEF M_Print, IndexInv, ControlOK, Threads
  <2>2. QED
      BY <1>7, <2>1 DEF M_Print
<1>8. CASE M_Kill \/ Sighand
    BY <1>8 DEF M_Kill, Sighand
<1>9. CASE M_Test \/ M_Check \/ M_Lock \/ M_Locked \/ M_CondWait \/ M_Return
              \/ M_OutAll
    BY <1>9 DEF M_Test, M_Check, M_Lock, M_Locked, M_CondWait, M_Return, M_OutAll
<1>10. CASE M_Json \/ M_Join \/ M_Free \/ M_Exit \/ M_ValuesFail \/ Fatal
    BY <1>10 DEF M_Json, M_Join, M_Free, M_Exit, M_ValuesFail, Fatal
<1>11. CASE SighandStatus \/ Fifo \/ UNCHANGED vars
    BY <1>11 DEF SighandStatus, Fifo, F_Mkfifo, F_Test, F_Open, F_Print, vars
<1>12. QED
    BY ONLY [Next]_vars, <1>1, <1>2, <1>3, <1>4, <1>5, <1>6, <1>7, <1>8, <1>9,
       <1>10, <1>11
       DEF Next, Main, Timer, Ended, M_Woken, M_Spurious

(* The test is wound up only for one of its five reasons; main's unlocked  *)
(* look at the cycle counters never ends it too early.                     *)
THEOREM NeverStopsUnasked == Spec => []StopReason
<1>1. Init => TypeInv /\ ReasonInv
  <2>1. Init => ReasonInv
      BY ConstantsAssumption
         DEF ConstantsAssumption, Init, ReasonInv, ReachedMax
  <2>2. QED
      BY <2>1, TypeInvInit
<1>2. TypeInv /\ ReasonInv /\ [Next]_vars => TypeInv' /\ ReasonInv'
    BY TypeInvNext, TypeInvStutter, ReasonInvNext
<1>3. ReasonInv => StopReason
    BY DEF ReasonInv, StopReason
<1>4. QED
    BY <1>1, <1>2, <1>3, PTL DEF Spec

-----------------------------------------------------------------------------
(* The readers of the statistics blocks. *)

(* Unless the creation loop was left early, every thread has been created  *)
(* when main goes on, and when the fifo thread runs; a created thread has  *)
(* a block until main frees; and a NULL pointer ends the process.          *)
ReadInv ==
    /\ mpc = "create" => \A t \in Threads : t < mi => tpc[t] # "none"
    /\ "error" \notin why /\ mpc \notin {"create", "fatal", "crashed"}
          => \A t \in Threads : tpc[t] # "none"
    /\ fpc # "none" => \A t \in Threads : tpc[t] # "none"
    /\ \A t \in Threads : /\ tpc[t] # "none" => stat[t] # "null"
                          /\ stat[t] = "freed" => mpc \in {"free", "out", "exited"}
    /\ fault \in {"null", "null_status"} => mpc = "crashed"
    /\ ExposedReads

(* A created thread's block can be read unless it has been freed. *)
LEMMA CreatedReadable ==
    ASSUME TypeInv, ReadInv, NEW t \in Threads, tpc[t] # "none"
    PROVE  Readable(t) \/ stat[t] = "freed"
BY DEF TypeInv, ThreadsOK, TimerPC, StartedInv, ReadInv, Readable

(* What is behind a block that cannot be read. *)
LEMMA UnreadableBlock ==
    ASSUME TypeInv, ReadInv, NEW t \in Threads, ~Readable(t)
    PROVE  tpc[t] = "none" \/ stat[t] = "freed"
BY CreatedReadable

(* Every step keeps the readers where the blocks are. *)
LEMMA ReadInvNext ==
    ASSUME TypeInv, LifeInv, ReadInv, [Next]_vars
    PROVE  ReadInv'
<1> USE ConstantsAssumption
        DEF ConstantsAssumption, ReadInv, ExposedReads, MoreThreads, mainvars,
            statvars, timervars, fifovars, histvars
<1>t. /\ tpc \in [Threads -> TimerPC]
      /\ stat \in [Threads -> {"null", "live", "freed"}]
      /\ mpc \in MainPC /\ mi \in 0 .. N /\ fi \in 0 .. N - 1
    BY DEF TypeInv, ThreadsOK, ControlOK, IndexInv
<1>1. ASSUME NEW t \in Threads, Timer(t) \/ T_Error(t), Running PROVE ReadInv'
  <2>1. /\ tpc[t] \notin {"none", "done"}
        /\ \E q \in TimerPC \ {"none"} : tpc' = [tpc EXCEPT ![t] = q]
        /\ UNCHANGED <<mpc, mi, stat>>
      BY <1>1, TimerStep
  <2>2. UNCHANGED <<fpc, fault>> /\ why \subseteq why'
      BY <1>1 DEF Timer, T_Start, T_Globalt, T_Align, T_Test, T_Wake, T_Error,
              T_TriggerLock, T_TriggerUnlock, T_Limit, T_BreakLock,
              T_BreakUnlock, T_Commit, T_Out, T_Fin
  <2>3. \A s \in Threads : tpc'[s] # "none" <=> tpc[s] # "none"
      BY <1>t, <2>1
  <2>4. fault \notin {"null", "null_status"}
      BY <1>1 DEF Running
  <2>5. QED
      BY <2>1, <2>2, <2>3, <2>4
<1>2. CASE M_Create /\ Running
  <2>1. mi \in Threads
      BY <1>2 DEF M_Create, TypeInv, IndexInv, ControlOK, Threads
  <2>2. /\ ~(mi + 1 < N) => \A t \in Threads : t < mi \/ t = mi
        /\ \A t \in Threads : t < mi + 1 => t < mi \/ t = mi
      BY <1>t DEF Threads
  <2>3. fault \notin {"null", "null_status", "fifo", "status"}
      BY <1>2 DEF M_Create, Running, TypeInv, ControlOK
  <2>4. /\ mpc = "create" /\ tpc' = [tpc EXCEPT ![mi] = "start"]
        /\ stat' = [stat EXCEPT ![mi] = "live"] /\ mi' = mi + 1
        /\ mpc' = "create" \/ (mpc' = "test" /\ ~(mi + 1 < N))
        /\ fpc' = fpc \/ ~(mi + 1 < N)
        /\ UNCHANGED <<why, fault>>
      BY <1>2 DEF M_Create, MoreThreads
  <2>5. mpc' = "create" => \A t \in Threads : t < mi' => tpc'[t] # "none"
      BY <1>t, <2>1, <2>2, <2>4
  <2>6. ~(mi + 1 < N) => \A t \in Threads : tpc'[t] # "none"
      BY <1>t, <2>1, <2>2, <2>4
  <2>7. fpc' # "none" => \A t \in Threads : tpc'[t] # "none"
      BY <1>t, <2>1, <2>4, <2>6
  <2>8. QED
      BY <1>t, <2>1, <2>3, <2>4, <2>5, <2>6, <2>7
<1>3. CASE M_ValuesFail /\ Running
    BY <1>3, <1>t DEF M_ValuesFail, Running, TypeInv, IndexInv, ControlOK
<1>4. CASE Fatal /\ Running
  <2>1. mpc \notin {"free", "out", "exited"}
      BY <1>4 DEF Fatal, LifeInv, JoinedInv
  <2>2. QED
      BY <1>4, <2>1 DEF Fatal, Running
<1>5. CASE (M_Json \/ M_Kill) /\ Running
  <2>1. mi \in Threads
      BY <1>5 DEF M_Json, M_Kill, TypeInv, IndexInv, ControlOK, Threads
  <2>2. mpc \in {"json", "kill"} /\ mpc' \in {"json", "kill", "join", "crashed"}
      BY <1>5 DEF M_Json, M_Kill
  <2>3. tpc[mi] # "none" => Readable(mi) /\ stat[mi] = "live"
      BY <2>1, <2>2, CreatedReadable DEF Readable
  <2>4. fault' = fault \/ (fault' = "null" /\ mpc' = "crashed" /\ tpc[mi] = "none")
      BY <1>5, <2>3 DEF M_Json, M_Kill
  <2>5. \A s \in Threads : tpc'[s] # "none" <=> tpc[s] # "none"
      BY <1>5, <1>t, <2>1 DEF M_Json, M_Kill
  <2>6. UNCHANGED <<stat, fpc, why>>
      BY <1>5 DEF M_Json, M_Kill
  <2>7. QED
      BY <1>5, <2>1, <2>2, <2>4, <2>5, <2>6 DEF Running
<1>6. CASE (M_Free \/ M_Exit) /\ Running
    BY <1>6, <1>t DEF M_Free, M_Exit, Running
<1>7. CASE (M_Test \/ M_Print \/ M_Check \/ M_Lock \/ M_Locked \/ M_CondWait) /\ Running
    BY <1>7 DEF M_Test, M_Print, M_Check, M_Lock, M_Locked, M_CondWait, Running
<1>8. CASE ((mpc = "waiting" /\ M_Return) \/ M_OutAll) /\ Running
    BY <1>8 DEF M_Return, M_OutAll, Running
<1>j. CASE M_Join /\ Running
  <2>1. mpc = "join" /\ mpc' \in {"kill", "free", "crashed"}
      BY <1>j DEF M_Join
  <2>2. \A t \in Threads : stat[t] # "freed"
      BY <2>1
  <2>3. ResultsReadable \/ \E t \in Threads : tpc[t] = "none"
      BY <2>2, UnreadableBlock DEF ResultsReadable
  <2>4. \/ fault' = fault
        \/ fault' = "null" /\ mpc' = "crashed" /\ \E t \in Threads : tpc[t] = "none"
      BY <1>j, <2>3 DEF M_Join
  <2>5. UNCHANGED <<stat, tpc, fpc, why>>
      BY <1>j DEF M_Join
  <2>6. QED
      BY <2>1, <2>2, <2>4, <2>5
<1>9. CASE F_Print /\ Running
  <2>1. fi \in Threads
      BY <1>t DEF Threads
  <2>2. Readable(fi) \/ stat[fi] = "freed"
      BY <1>9, <2>1, CreatedReadable DEF F_Print
  <2>3. fault' = fault \/ (fault' = "fifo" /\ stat[fi] = "freed")
      BY <1>9, <2>2 DEF F_Print
  <2>4. stat[fi] = "freed" => \A t \in Threads : tpc[t] \in {"none", "done"}
      BY <2>1 DEF LifeInv, JoinedInv
  <2>5. QED
      BY <1>9, <2>1, <2>3, <2>4 DEF F_Print, Running
<1>10. CASE (F_Mkfifo \/ F_Test \/ F_Open) /\ Running
    BY <1>10 DEF F_Mkfifo, F_Test, F_Open, Running
<1>11. CASE Sighand /\ Running
    BY <1>11, <1>t DEF Sighand, Running
<1>12. CASE SighandStatus /\ Running
  <2>1. CASE \E i \in Threads : stat[i] = "freed"
    <3>1. fault' = "status" /\ UNCHANGED mpc
        BY <1>12, <2>1 DEF SighandStatus
    <3>2. \A t \in Threads : tpc[t] \in {"none", "done"}
        BY <2>1 DEF LifeInv, JoinedInv
    <3>3. QED
        BY <1>12, <2>1, <3>1, <3>2 DEF SighandStatus
  <2>2. CASE ~\E i \in Threads : stat[i] = "freed"
    <3>1. fault' = "null_status" /\ mpc' = "crashed"
        BY <1>12, <2>2 DEF SighandStatus
    <3>2. \E i \in Threads : tpc[i] = "none"
        BY <1>12, <2>2, UnreadableBlock DEF SighandStatus
    <3>3. QED
        BY <1>12, <2>2, <3>1, <3>2 DEF SighandStatus
  <2>3. QED
      BY <2>1, <2>2
<1>13. CASE UNCHANGED vars
    BY <1>13 DEF vars
<1>14. QED
    BY ONLY [Next]_vars, <1>1, <1>2, <1>3, <1>4, <1>5, <1>6, <1>7, <1>8, <1>j,
       <1>9, <1>10, <1>11, <1>12, <1>13
       DEF Next, Main, Ended, Fifo, M_Woken, M_Spurious

(* The unjoined fifo thread and the status signals meet freed blocks only  *)
(* after main has joined every timer thread and freed its first block, and *)
(* missing ones only before all threads exist; main itself, in             *)
(* write_stats, in the kill loop, in print_hist and in print_tids, follows *)
(* a NULL pointer only after a failed allocation.                          *)
THEOREM ReadsExposedOnlyAtTheEnds == Spec => []ExposedReads
<1>1. Init => TypeInv /\ LifeInv /\ ReadInv
  <2>1. Init => LifeInv
      BY DEF Init, LifeInv, JoinedInv, StatsLive
  <2>2. Init => ReadInv
      BY DEF Init, ReadInv, ExposedReads, Threads
  <2>3. QED
      BY <2>1, <2>2, TypeInvInit
<1>2. TypeInv /\ LifeInv /\ ReadInv /\ [Next]_vars
         => TypeInv' /\ LifeInv' /\ ReadInv'
    BY TypeInvNext, TypeInvStutter, LifeInvNext, ReadInvNext
<1>3. ReadInv => ExposedReads
    BY DEF ReadInv
<1>4. QED
    BY <1>1, <1>2, <1>3, PTL DEF Spec
=============================================================================
