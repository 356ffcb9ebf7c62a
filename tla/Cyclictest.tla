----------------------------- MODULE Cyclictest -----------------------------
(***************************************************************************)
(* The life cycle of the cyclictest process                                *)
(* (rt-tests-2.10/src/cyclictest/cyclictest.c): main() creates N timer     *)
(* threads and an optional fifo thread, displays statistics until          *)
(* something sets `shutdown', then kills, joins and frees what it created. *)
(*                                                                         *)
(* What is kept: every write of the shared words that the threads use to   *)
(* talk to each other (shutdown, threadstarted, the refresh condition      *)
(* variable, the break record, the trigger list, the two start barriers,   *)
(* the statistics blocks), in the order in which the code makes them.      *)
(* What is abstracted: a measured latency is a member of Latencies, the    *)
(* instant at which the -D duration ends is a nondeterministic choice, and *)
(* text output is left out.  The arithmetic of a period is in CyclicTimer. *)
(***************************************************************************)
EXTENDS Integers, FiniteSets

CONSTANTS
    N,                 \* num_threads
    max_cycles,        \* -l, 0: endless
    CycleBound,        \* bound: an endless run stops counting cycles here
    refresh_on_max,    \* -M
    aligned,           \* -A or --secaligned
    tracelimit,        \* -b, 0: off
    trigger,           \* --spike, 0: off
    trigger_list_size, \* --spike-nodes
    duration,          \* -D given
    verbose,           \* -v
    use_fifo,          \* -F given
    jsonfile,          \* --json: TRUE for given, FALSE for not, or either
    histogram,         \* -h given
    Latencies,         \* values `diff' can take
    IntSize,           \* how many values an `int' has
    MaxSignals,        \* bound: SIGINT/SIGTERM received from outside
    StatusSignals,     \* SIGUSR1/SIGUSR2 may be received
    Failures           \* allocations and system calls may fail

Threads == 0 .. N - 1
NoThread == -1
Nodes == 0 .. trigger_list_size - 1 \* the list; index trigger_list_size is NULL

ASSUME ConstantsAssumption ==
    /\ N \in Nat \ {0}
    /\ max_cycles \in Nat
    /\ CycleBound \in Nat \ {0}
    /\ tracelimit \in Nat
    /\ trigger \in Nat
    /\ trigger_list_size \in Nat
    /\ Latencies \subseteq Nat
    /\ Latencies # {}
    /\ IntSize \in Nat \ {0}
    /\ MaxSignals \in Nat
    /\ jsonfile \subseteq BOOLEAN /\ jsonfile # {}
    /\ {refresh_on_max, aligned, duration, verbose, use_fifo, histogram,
        StatusSignals, Failures} \subseteq BOOLEAN

VARIABLES
    shutdown,      \* the flag, as its users read it: zero or not
    mpc, mi,       \* main(): control point, index of its current for loop
    allstopped,    \* main(): local of the display loop
    signalled,     \* refresh_on_max_cond has been signalled to a waiting main
    stat,          \* statistics[i]: "null", "live" or "freed"
    threadstarted, \* statistics[i]->threadstarted
    cycles, max,   \* statistics[i]->cycles, ->max
    tpc, diff,     \* timerthread(): control point, its local latency
    stopped,       \* timerthread(): its local flag
    arrived,       \* who has reached globalt_barr and align_barr
    globalt,       \* the common start time has been written
    started_at,    \* timerthread(): it started from the common time
    current, node, spikes, trig_by,  \* trigger list, trigger_lock's holder
    break_id, break_value, break_by, \* break record and its lock's holder
    fpc, fi,       \* fifothread(): control point, index
    fault,         \* a pointer was used that was NULL or freed
    nsig,          \* outside signals so far
    why            \* history: what asked for the end of the test

mainvars  == <<mpc, mi, allstopped>>
statvars  == <<threadstarted, cycles, max>>
timervars == <<tpc, diff, stopped>>
startvars == <<arrived, globalt, started_at>>
trigvars  == <<current, node, spikes, trig_by>>
breakvars == <<break_id, break_value, break_by>>
fifovars  == <<fpc, fi>>
histvars  == <<fault, nsig, why>>
vars == <<shutdown, mainvars, signalled, stat, statvars, timervars, startvars,
          trigvars, breakvars, fifovars, histvars>>

MainPC  == {"create", "test", "print", "check", "lock", "locked", "condwait",
            "waiting", "outall", "json", "kill", "join", "free",
            "out", "exited", "fatal", "crashed"}
TimerPC == {"none", "start", "globalt", "align", "test", "sleep", "trig",
            "trigged", "limit", "break", "breaking", "commit", "out", "fin",
            "done"}
FifoPC  == {"none", "mkfifo", "test", "open", "print", "end"}
Reasons == {"signal", "latency", "cycles", "duration", "error"}

(* exit(), fatal() and a fault end every thread of the process. *)
Running == mpc \notin {"exited", "fatal", "crashed"}

(* main() is between pthread_mutex_lock and _unlock of refresh_on_max_lock; *)
(* the timer threads' only critical section is the single step T_Out.       *)
RefreshLockFree_unlocked == TRUE \* mutant: `out' signals without the lock
RefreshLockFree == mpc \notin {"locked", "condwait"}

(* pthread_cond_signal(&refresh_on_max_cond): lost unless main waits. *)
CondSignalled == signalled \/ (refresh_on_max /\ mpc = "waiting")

(* main's loop over the threads has another turn to do. *)
MoreThreads == mi + 1 < N

(* max_cycles && statistics[i]->cycles >= max_cycles *)
ReachedMax_endless(i) == cycles[i] >= max_cycles \* mutant: 0 is no limit forgotten
ReachedMax(i) == max_cycles # 0 /\ cycles[i] >= max_cycles

(* par->max_cycles && par->max_cycles == stat->cycles, after cycles++ *)
LastCycle_off(t) == max_cycles # 0 /\ cycles[t] = max_cycles \* mutant: before ++
LastCycle(t) == max_cycles # 0 /\ cycles[t] + 1 = max_cycles

(* pthread_join of thread i, when it was created, has returned. *)
Joined_ready(i) == threadstarted[i] > 1 => tpc[i] = "done" \* mutant: skips starters
Joined(i) == threadstarted[i] # 0 => tpc[i] = "done"

(* A barrier lets its threads go once all N of them have arrived. *)
BarrierOpen_any(b) == arrived[b] # {} \* mutant: initialised with the count 1
BarrierOpen(b) == arrived[b] = Threads

TriggerLockFree_none == TRUE \* mutant: trigger_update without its lock
TriggerLockFree == trig_by = NoThread

(* break_thread_id == 0 *)
BreakUnsigned == break_id = NoThread

(* A block can be read through parameters[i]->stats once main has filled in *)
(* the parameter block, just before it creates the thread.                  *)
Readable(i) == stat[i] = "live" /\ threadstarted[i] # 0

(* print_hist and print_tids follow parameters[i]->stats of all threads. *)
ResultsReadable ==
    histogram \/ tracelimit # 0 => \A i \in Threads : Readable(i)

(* The uint64_t latency d as the int parameter of trigger_update. *)
ToInt(d) == ((d + IntSize \div 2) % IntSize) - IntSize \div 2

Init ==
    /\ shutdown = FALSE
    /\ mpc = "create" /\ mi = 0 /\ allstopped = FALSE
    /\ signalled = FALSE
    /\ stat = [t \in Threads |-> "null"]
    /\ threadstarted = [t \in Threads |-> 0]
    /\ cycles = [t \in Threads |-> 0]
    /\ max = [t \in Threads |-> 0]
    /\ tpc = [t \in Threads |-> "none"]
    /\ diff = [t \in Threads |-> 0]
    /\ stopped = [t \in Threads |-> FALSE]
    /\ arrived = [b \in {"globalt_barr", "align_barr"} |-> {}]
    /\ globalt = FALSE
    /\ started_at = [t \in Threads |-> FALSE]
    /\ current = 0 /\ node = [i \in Nodes |-> 0] /\ spikes = 0
    /\ trig_by = NoThread
    /\ break_id = NoThread /\ break_value = 0 /\ break_by = NoThread
    /\ fpc = "none" /\ fi = 0
    /\ fault = "none" /\ nsig = 0 /\ why = {}

-----------------------------------------------------------------------------
(* main() *)

M_Create_fifo_first == \* mutant: the fifo thread is created before the others
    /\ mpc = "create"
    /\ stat' = [stat EXCEPT ![mi] = "live"]
    /\ threadstarted' = [threadstarted EXCEPT ![mi] = 1]
    /\ tpc' = [tpc EXCEPT ![mi] = "start"]
    /\ mi' = mi + 1
    /\ mpc' = IF MoreThreads THEN mpc ELSE "test"
    /\ fpc' = IF use_fifo /\ mi = 0 THEN "mkfifo" ELSE fpc
    /\ UNCHANGED <<shutdown, allstopped, signalled, cycles, max, diff, stopped,
                   startvars, trigvars, breakvars, fi, histvars>>

(* One turn of the creation loop: the blocks of thread mi are allocated and *)
(* the thread is created; after the last one the fifo thread is.            *)
M_Create ==
    /\ mpc = "create"
    /\ stat' = [stat EXCEPT ![mi] = "live"]
    /\ threadstarted' = [threadstarted EXCEPT ![mi] = 1]
    /\ tpc' = [tpc EXCEPT ![mi] = "start"]
    /\ mi' = mi + 1
    /\ IF MoreThreads
       THEN UNCHANGED <<mpc, fpc>>
       ELSE /\ mpc' = "test"
            /\ fpc' = IF use_fifo THEN "mkfifo" ELSE "none"
    /\ UNCHANGED <<shutdown, allstopped, signalled, cycles, max, diff, stopped,
                   startvars, trigvars, breakvars, fi, histvars>>

(* The buffer for -v cannot be allocated: goto outall, with the blocks of   *)
(* thread mi allocated and zeroed and no thread mi.                         *)
M_ValuesFail ==
    /\ mpc = "create" /\ verbose /\ Failures
    /\ stat' = [stat EXCEPT ![mi] = "live"]
    /\ mpc' = "outall"
    /\ why' = why \cup {"error"}
    /\ UNCHANGED <<shutdown, mi, allstopped, signalled, statvars, timervars,
                   startvars, trigvars, breakvars, fifovars, fault, nsig>>

(* fatal(): allocation of the blocks, pthread_create, or, in a timer        *)
(* thread, setscheduler failed; err_exit(): the JSON file cannot be opened. *)
Fatal ==
    /\ Failures
    /\ \/ mpc = "create" \/ (mpc = "json" /\ mi = 0)
       \/ \E t \in Threads : tpc[t] = "start"
    /\ mpc' = "fatal"
    /\ UNCHANGED <<shutdown, mi, allstopped, signalled, stat, statvars,
                   timervars, startvars, trigvars, breakvars, fifovars, histvars>>

(* while (!shutdown) *)
M_Test ==
    /\ mpc = "test"
    /\ mpc' = IF shutdown THEN "outall" ELSE "print"
    /\ mi' = 0 /\ allstopped' = FALSE
    /\ UNCHANGED <<shutdown, signalled, stat, statvars, timervars, startvars,
                   trigvars, breakvars, fifovars, histvars>>

(* The display loop: print_stat, then the unlocked look at cycles. *)
M_Print ==
    /\ mpc = "print"
    /\ allstopped' = (allstopped \/ ReachedMax(mi))
    /\ mi' = mi + 1
    /\ mpc' = IF MoreThreads THEN "print" ELSE "check"
    /\ UNCHANGED <<shutdown, signalled, stat, statvars, timervars, startvars,
                   trigvars, breakvars, fifovars, histvars>>

(* After usleep(10000). *)
M_Check ==
    /\ mpc = "check"
    /\ mpc' = IF shutdown \/ allstopped THEN "outall"
              ELSE IF refresh_on_max THEN "lock" ELSE "test"
    /\ UNCHANGED <<shutdown, mi, allstopped, signalled, stat, statvars,
                   timervars, startvars, trigvars, breakvars, fifovars, histvars>>

M_Lock ==
    /\ mpc = "lock"
    /\ mpc' = "locked"
    /\ UNCHANGED <<shutdown, mi, allstopped, signalled, stat, statvars,
                   timervars, startvars, trigvars, breakvars, fifovars, histvars>>

(* if (!shutdown) under the lock; a signal handler can still run between    *)
(* this test and the wait.                                                  *)
M_Locked ==
    /\ mpc = "locked"
    /\ mpc' = IF shutdown THEN "test" ELSE "condwait"
    /\ UNCHANGED <<shutdown, mi, allstopped, signalled, stat, statvars,
                   timervars, startvars, trigvars, breakvars, fifovars, histvars>>

M_CondWait ==
    /\ mpc = "condwait"
    /\ mpc' = "waiting"
    /\ signalled' = FALSE
    /\ UNCHANGED <<shutdown, mi, allstopped, stat, statvars, timervars,
                   startvars, trigvars, breakvars, fifovars, histvars>>

(* pthread_cond_wait returns; the loop starts again after the unlock. *)
M_Return ==
    /\ mpc' = "test"
    /\ signalled' = FALSE
    /\ UNCHANGED <<shutdown, mi, allstopped, stat, statvars, timervars,
                   startvars, trigvars, breakvars, fifovars, histvars>>

M_Woken == mpc = "waiting" /\ signalled /\ M_Return

(* POSIX lets pthread_cond_wait return without a signal. *)
M_Spurious == mpc = "waiting" /\ ~signalled /\ M_Return

(* outall: shutdown = 1; usleep(50000); the JSON file comes first. *)
M_OutAll ==
    /\ mpc = "outall"
    /\ shutdown' = TRUE
    /\ mi' = 0
    /\ \E given \in jsonfile : mpc' = IF given THEN "json" ELSE "kill"
    /\ UNCHANGED <<allstopped, signalled, stat, statvars, timervars, startvars,
                   trigvars, breakvars, fifovars, histvars>>

(* write_stats(), one thread: it follows parameters[i]->stats unchecked. *)
M_Json ==
    /\ mpc = "json"
    /\ IF Readable(mi)
       THEN /\ mi' = IF MoreThreads THEN mi + 1 ELSE 0
            /\ mpc' = IF MoreThreads THEN "json" ELSE "kill"
            /\ UNCHANGED fault
       ELSE /\ mpc' = "crashed" /\ fault' = "null"
            /\ UNCHANGED mi
    /\ UNCHANGED <<shutdown, allstopped, signalled, stat, statvars, timervars,
                   startvars, trigvars, breakvars, fifovars, nsig, why>>

(* First half of the kill loop: statistics[i] is followed unchecked, and    *)
(* SIGTERM sent to a thread that has not ended; its handler finds main out  *)
(* of the condition wait, so all it can do is interrupt the thread's sleep. *)
M_Kill ==
    /\ mpc = "kill"
    /\ IF stat[mi] = "live"
       THEN /\ mpc' = "join"
            /\ \/ UNCHANGED tpc
               \/ /\ threadstarted[mi] > 0 /\ tpc[mi] = "sleep"
                  /\ tpc' = [tpc EXCEPT ![mi] = "out"]
            /\ UNCHANGED fault
       ELSE /\ mpc' = "crashed" /\ fault' = "null" /\ UNCHANGED tpc
    /\ UNCHANGED <<shutdown, mi, allstopped, signalled, stat, statvars, diff,
                   stopped, startvars, trigvars, breakvars, fifovars, nsig, why>>

(* Second half: join whatever was created, then the next thread; after the  *)
(* last one the results are printed, of a thread without one too.           *)
M_Join ==
    /\ mpc = "join"
    /\ Joined(mi)
    /\ mi' = IF MoreThreads THEN mi + 1 ELSE 0
    /\ IF MoreThreads \/ ResultsReadable
       THEN mpc' = (IF MoreThreads THEN "kill" ELSE "free") /\ UNCHANGED fault
       ELSE mpc' = "crashed" /\ fault' = "null"
    /\ UNCHANGED <<shutdown, allstopped, signalled, stat, statvars, timervars,
                   startvars, trigvars, breakvars, fifovars, nsig, why>>

(* One turn of the loop that frees the statistics blocks.  The loop over    *)
(* the parameter blocks comes after it: what it frees leads to freed blocks *)
(* already.                                                                 *)
M_Free ==
    /\ mpc = "free"
    /\ stat' = [stat EXCEPT ![mi] = IF @ = "live" THEN "freed" ELSE @]
    /\ mi' = IF MoreThreads THEN mi + 1 ELSE 0
    /\ mpc' = IF MoreThreads THEN "free" ELSE "out"
    /\ UNCHANGED <<shutdown, allstopped, signalled, statvars, timervars,
                   startvars, trigvars, breakvars, fifovars, histvars>>

M_Exit ==
    /\ mpc = "out"
    /\ mpc' = "exited"
    /\ UNCHANGED <<shutdown, mi, allstopped, signalled, stat, statvars,
                   timervars, startvars, trigvars, breakvars, fifovars, histvars>>

-----------------------------------------------------------------------------
(* timerthread() *)

(* Set-up; with -A the thread goes to the first barrier, otherwise it takes *)
(* the time by itself and starts.                                           *)
T_Start(t) ==
    /\ tpc[t] = "start"
    /\ IF aligned
       THEN /\ arrived' = [arrived EXCEPT !["globalt_barr"] = @ \cup {t}]
            /\ tpc' = [tpc EXCEPT ![t] = "globalt"]
            /\ UNCHANGED threadstarted
       ELSE /\ threadstarted' = [threadstarted EXCEPT ![t] = @ + 1]
            /\ tpc' = [tpc EXCEPT ![t] = "test"]
            /\ UNCHANGED arrived
    /\ UNCHANGED <<shutdown, mainvars, signalled, stat, cycles, max, diff,
                   stopped, globalt, started_at, trigvars, breakvars, fifovars,
                   histvars>>

(* Thread 0 reads the clock for everyone, and all go to the second barrier. *)
T_Globalt(t) ==
    /\ tpc[t] = "globalt"
    /\ BarrierOpen("globalt_barr")
    /\ globalt' = (globalt \/ t = 0)
    /\ arrived' = [arrived EXCEPT !["align_barr"] = @ \cup {t}]
    /\ tpc' = [tpc EXCEPT ![t] = "align"]
    /\ UNCHANGED <<shutdown, mainvars, signalled, stat, statvars, diff, stopped,
                   started_at, trigvars, breakvars, fifovars, histvars>>

(* now = globalt; threadstarted++ *)
T_Align(t) ==
    /\ tpc[t] = "align"
    /\ BarrierOpen("align_barr")
    /\ started_at' = [started_at EXCEPT ![t] = globalt]
    /\ threadstarted' = [threadstarted EXCEPT ![t] = @ + 1]
    /\ tpc' = [tpc EXCEPT ![t] = "test"]
    /\ UNCHANGED <<shutdown, mainvars, signalled, stat, cycles, max, diff,
                   stopped, arrived, globalt, trigvars, breakvars, fifovars,
                   histvars>>

(* while (!shutdown) *)
T_Test(t) ==
    /\ tpc[t] = "test"
    /\ tpc' = [tpc EXCEPT ![t] = IF shutdown THEN "out" ELSE "sleep"]
    /\ UNCHANGED <<shutdown, mainvars, signalled, stat, statvars, diff, stopped,
                   startvars, trigvars, breakvars, fifovars, histvars>>

(* The period ends: the latency is computed and entered in min and max. *)
T_Wake(t) ==
    /\ tpc[t] = "sleep"
    /\ \E d \in Latencies :
        /\ diff' = [diff EXCEPT ![t] = d]
        /\ max' = [max EXCEPT ![t] = IF d > @ THEN d ELSE @]
        /\ signalled' = IF d > max[t] THEN CondSignalled ELSE signalled
        /\ tpc' = [tpc EXCEPT ![t] =
                    IF trigger # 0 /\ d > trigger THEN "trig" ELSE "limit"]
    /\ UNCHANGED <<shutdown, mainvars, stat, threadstarted, cycles, stopped,
                   startvars, trigvars, breakvars, fifovars, histvars>>

(* clock_nanosleep or clock_gettime reports an error: goto out. *)
T_Error(t) ==
    /\ tpc[t] = "sleep" /\ Failures
    /\ tpc' = [tpc EXCEPT ![t] = "out"]
    /\ why' = why \cup {"error"}
    /\ UNCHANGED <<shutdown, mainvars, signalled, stat, statvars, diff, stopped,
                   startvars, trigvars, breakvars, fifovars, fault, nsig>>

(* trigger_update: take trigger_lock, fill in the current node ... *)
T_TriggerLock(t) ==
    /\ tpc[t] = "trig"
    /\ TriggerLockFree
    /\ trig_by' = t
    /\ node' = IF current \in Nodes
               THEN [node EXCEPT ![current] = ToInt(diff[t])] ELSE node
    /\ tpc' = [tpc EXCEPT ![t] = "trigged"]
    /\ UNCHANGED <<shutdown, mainvars, signalled, stat, statvars, diff, stopped,
                   startvars, current, spikes, breakvars, fifovars, histvars>>

(* ... and advance to the next one, count the spike, release the lock. *)
T_TriggerUnlock(t) ==
    /\ tpc[t] = "trigged"
    /\ current' = IF current \in Nodes THEN current + 1 ELSE current
    /\ spikes' = spikes + 1
    /\ trig_by' = NoThread
    /\ tpc' = [tpc EXCEPT ![t] = "limit"]
    /\ UNCHANGED <<shutdown, mainvars, signalled, stat, statvars, diff, stopped,
                   startvars, node, breakvars, fifovars, histvars>>

ExceedsLimit(t) == ~stopped[t] /\ tracelimit # 0 /\ diff[t] > tracelimit

(* The end of the -D duration and the -b latency limit. *)
T_Limit(t) ==
    /\ tpc[t] = "limit"
    /\ \E over \in IF duration THEN BOOLEAN ELSE {FALSE} :
        /\ shutdown' = (shutdown \/ over \/ ExceedsLimit(t))
        /\ why' = why \cup (IF over THEN {"duration"} ELSE {})
                      \cup (IF ExceedsLimit(t) THEN {"latency"} ELSE {})
    /\ stopped' = [stopped EXCEPT ![t] = @ \/ ExceedsLimit(t)]
    /\ tpc' = [tpc EXCEPT ![t] = IF ExceedsLimit(t) THEN "break" ELSE "commit"]
    /\ UNCHANGED <<mainvars, signalled, stat, statvars, diff, startvars,
                   trigvars, breakvars, fifovars, fault, nsig>>

(* break_thread_id_lock is taken; the first thread to get here signs. *)
T_BreakLock(t) ==
    /\ tpc[t] = "break"
    /\ break_by = NoThread
    /\ break_by' = t
    /\ break_id' = IF BreakUnsigned THEN t ELSE break_id
    /\ tpc' = [tpc EXCEPT ![t] = "breaking"]
    /\ UNCHANGED <<shutdown, mainvars, signalled, stat, statvars, diff, stopped,
                   startvars, trigvars, break_value, fifovars, histvars>>

BreakValue_any(t) == diff[t] \* mutant: the value is stored outside the if
BreakValue(t) == IF break_id = t THEN diff[t] ELSE break_value

(* After tracing_stop() the value follows, and the lock is released. *)
T_BreakUnlock(t) ==
    /\ tpc[t] = "breaking"
    /\ break_value' = BreakValue(t)
    /\ break_by' = NoThread
    /\ tpc' = [tpc EXCEPT ![t] = "commit"]
    /\ UNCHANGED <<shutdown, mainvars, signalled, stat, statvars, diff, stopped,
                   startvars, trigvars, break_id, fifovars, histvars>>

(* The sample is stored, cycles++, and the loop ends after max_cycles. *)
T_Commit(t) ==
    /\ tpc[t] = "commit"
    /\ cycles' = [cycles EXCEPT ![t] =
                    IF max_cycles = 0 /\ @ = CycleBound THEN @ ELSE @ + 1]
    /\ tpc' = [tpc EXCEPT ![t] = IF LastCycle(t) THEN "out" ELSE "test"]
    /\ why' = IF LastCycle(t) THEN why \cup {"cycles"} ELSE why
    /\ UNCHANGED <<shutdown, mainvars, signalled, stat, threadstarted, max,
                   diff, stopped, startvars, trigvars, breakvars, fifovars,
                   fault, nsig>>

T_Out_silent(t) == \* mutant: the thread leaves without asking for the end
    /\ tpc[t] = "out"
    /\ refresh_on_max => RefreshLockFree
    /\ signalled' = CondSignalled
    /\ tpc' = [tpc EXCEPT ![t] = "fin"]
    /\ UNCHANGED <<shutdown, mainvars, stat, statvars, diff, stopped, startvars,
                   trigvars, breakvars, fifovars, histvars>>

(* out: with -M, tell main under refresh_on_max_lock. *)
T_Out(t) ==
    /\ tpc[t] = "out"
    /\ refresh_on_max => RefreshLockFree
    /\ shutdown' = (shutdown \/ refresh_on_max)
    /\ signalled' = CondSignalled
    /\ tpc' = [tpc EXCEPT ![t] = "fin"]
    /\ UNCHANGED <<mainvars, stat, statvars, diff, stopped, startvars, trigvars,
                   breakvars, fifovars, histvars>>

(* timer_delete, back to SCHED_OTHER, threadstarted = -1, return. *)
T_Fin(t) ==
    /\ tpc[t] = "fin"
    /\ threadstarted' = [threadstarted EXCEPT ![t] = -1]
    /\ tpc' = [tpc EXCEPT ![t] = "done"]
    /\ UNCHANGED <<shutdown, mainvars, signalled, stat, cycles, max, diff,
                   stopped, startvars, trigvars, breakvars, fifovars, histvars>>

Timer(t) ==
    \/ T_Start(t) \/ T_Globalt(t) \/ T_Align(t) \/ T_Test(t) \/ T_Wake(t)
    \/ T_TriggerLock(t) \/ T_TriggerUnlock(t) \/ T_Limit(t)
    \/ T_BreakLock(t) \/ T_BreakUnlock(t) \/ T_Commit(t) \/ T_Out(t) \/ T_Fin(t)

-----------------------------------------------------------------------------
(* fifothread(); nobody joins it. *)

(* mkfifo() succeeds, or fails and the thread returns. *)
F_Mkfifo ==
    /\ fpc = "mkfifo"
    /\ fpc' \in IF Failures THEN {"test", "end"} ELSE {"test"}
    /\ UNCHANGED <<shutdown, mainvars, signalled, stat, statvars, timervars,
                   startvars, trigvars, breakvars, fi, histvars>>

F_Test ==
    /\ fpc = "test"
    /\ fpc' = IF shutdown THEN "end" ELSE "open"
    /\ UNCHANGED <<shutdown, mainvars, signalled, stat, statvars, timervars,
                   startvars, trigvars, breakvars, fi, histvars>>

(* open() finds a reader, or fails and is tried again later. *)
F_Open ==
    /\ fpc = "open"
    /\ fpc' \in {"print", "test"}
    /\ fi' = 0
    /\ UNCHANGED <<shutdown, mainvars, signalled, stat, statvars, timervars,
                   startvars, trigvars, breakvars, histvars>>

(* print_stat() of one thread through parameters[i]->stats. *)
F_Print ==
    /\ fpc = "print"
    /\ fault' = IF Readable(fi) THEN fault ELSE "fifo"
    /\ fi' = IF fi + 1 < N THEN fi + 1 ELSE 0
    /\ fpc' = IF fi + 1 < N THEN "print" ELSE "test"
    /\ UNCHANGED <<shutdown, mainvars, signalled, stat, statvars, timervars,
                   startvars, trigvars, breakvars, nsig, why>>

Fifo == F_Mkfifo \/ F_Test \/ F_Open \/ F_Print

-----------------------------------------------------------------------------
(* sighand(), run by any thread of the process *)

(* SIGINT or SIGTERM; a timer thread that sleeps gets EINTR and leaves. *)
Sighand ==
    /\ nsig < MaxSignals
    /\ nsig' = nsig + 1
    /\ shutdown' = TRUE
    /\ why' = why \cup {"signal"}
    /\ signalled' = CondSignalled
    /\ \/ UNCHANGED tpc
       \/ \E t \in Threads : /\ tpc[t] = "sleep"
                             /\ tpc' = [tpc EXCEPT ![t] = "out"]
    /\ UNCHANGED <<mainvars, stat, statvars, diff, stopped, startvars, trigvars,
                   breakvars, fifovars, fault>>

(* SIGUSR1 or SIGUSR2: print_stat() of all threads.  Before main has set a  *)
(* thread up this follows a NULL pointer; once main frees, a dangling one.  *)
SighandStatus ==
    /\ StatusSignals
    /\ \E i \in Threads : ~Readable(i)
    /\ IF \E i \in Threads : stat[i] = "freed"
       THEN fault' = "status" /\ UNCHANGED mpc
       ELSE fault' = "null_status" /\ mpc' = "crashed"
    /\ UNCHANGED <<shutdown, mi, allstopped, signalled, stat, statvars,
                   timervars, startvars, trigvars, breakvars, fifovars, nsig, why>>

-----------------------------------------------------------------------------
Main ==
    \/ M_Create \/ M_Test \/ M_Print \/ M_Check \/ M_Lock \/ M_Locked
    \/ M_CondWait \/ M_Woken \/ M_OutAll \/ M_Json \/ M_Kill \/ M_Join
    \/ M_Free \/ M_Exit

(* The process is gone. *)
Ended == ~Running /\ UNCHANGED vars

Next ==
    \/ Ended
    \/ Running /\ \/ Main \/ M_ValuesFail \/ M_Spurious
                   \/ \E t \in Threads : Timer(t) \/ T_Error(t)
                   \/ Fifo
                   \/ Sighand \/ SighandStatus \/ Fatal

(* Every thread is scheduled and a period always ends; nothing obliges the  *)
(* environment to send signals, to fail, or to wake main without a reason.  *)
(* main sleeps between its turns without refresh_on_max_lock, so a thread   *)
(* that wants the lock again and again finds it free gets it.               *)
Fairness ==
    /\ WF_vars(Running /\ Main)
    /\ \A t \in Threads : WF_vars(Running /\ Timer(t))
                         /\ SF_vars(Running /\ T_Out(t))

Spec == Init /\ [][Next]_vars /\ Fairness

-----------------------------------------------------------------------------
(* Types, with the limit that -l puts on the cycle counters. *)
TypeOK ==
    /\ shutdown \in BOOLEAN
    /\ mpc \in MainPC /\ mi \in 0 .. N /\ allstopped \in BOOLEAN
    /\ signalled \in BOOLEAN
    /\ stat \in [Threads -> {"null", "live", "freed"}]
    /\ threadstarted \in [Threads -> -1 .. 2]
    /\ cycles \in [Threads -> 0 .. (IF max_cycles = 0 THEN CycleBound ELSE max_cycles)]
    /\ max \in [Threads -> Nat]
    /\ tpc \in [Threads -> TimerPC]
    /\ diff \in [Threads -> Nat]
    /\ stopped \in [Threads -> BOOLEAN]
    /\ arrived \in [{"globalt_barr", "align_barr"} -> SUBSET Threads]
    /\ globalt \in BOOLEAN /\ started_at \in [Threads -> BOOLEAN]
    /\ current \in 0 .. trigger_list_size /\ node \in [Nodes -> Int]
    /\ spikes \in Nat /\ trig_by \in Threads \cup {NoThread}
    /\ break_id \in Threads \cup {NoThread} /\ break_value \in Nat
    /\ break_by \in Threads \cup {NoThread}
    /\ fpc \in FifoPC /\ fi \in 0 .. N
    /\ fault \in {"none", "null", "null_status", "status", "fifo"}
    /\ nsig \in 0 .. MaxSignals /\ why \subseteq Reasons

(* A thread that can still touch its statistics block has one: main frees   *)
(* the blocks only when every thread it created has returned.               *)
StatsLive ==
    \A t \in Threads : tpc[t] \notin {"none", "done"} => stat[t] = "live"

(* With -M, a main that waits on the condition variable while the end has   *)
(* been asked for is either signalled or will be: some timer thread has not *)
(* passed its `out' section yet.  (sighand and the -b and -D paths set      *)
(* shutdown without the lock, so their own signal can be lost.)             *)
NoLostWakeup ==
    mpc = "waiting" /\ shutdown /\ ~signalled
        => \E t \in Threads : tpc[t] \notin {"fin", "done"}

(* What main prints as break thread and break value belongs together: it is *)
(* the last latency that thread measured and it is above the limit; and it  *)
(* is printed whenever some thread met a latency above the limit.           *)
BreakRecord ==
    mpc \in {"free", "out", "exited"} =>
        /\ (\E t \in Threads : stopped[t]) <=> break_id # NoThread
        /\ break_id # NoThread => /\ break_value = diff[break_id]
                                  /\ break_value > tracelimit

(* With -A every thread starts its periods from the one time that thread 0  *)
(* has taken, never from the value globalt had before.                      *)
AlignedStart ==
    aligned => \A t \in Threads :
        tpc[t] \notin {"none", "start", "globalt", "align"} => started_at[t]

(* Every node trigger_print will show holds a latency above the trigger, as *)
(* the int that trigger_update makes of it, and the first spikes are all in *)
(* the list, none lost to a race.  (A latency that does not fit an int, 2.2 *)
(* seconds with -N, is recorded as another number, which may be negative.)  *)
TriggerLog ==
    /\ \A i \in Nodes : i < current =>
          \E d \in Latencies : d > trigger /\ node[i] = ToInt(d)
    /\ current = IF spikes < trigger_list_size THEN spikes ELSE trigger_list_size

(* The test never ends unasked: main winds it up only after a signal, a     *)
(* latency above the limit, the end of the duration, a thread's last cycle  *)
(* or an error.                                                             *)
StopReason == shutdown \/ mpc = "outall" => why # {}

(* Statistics that exist are read: the fifo thread and the status signals   *)
(* meet freed blocks at most after every timer thread has ended, between    *)
(* main's first free and its exit, and missing ones only while main still   *)
(* creates threads or gave that up; and main, in write_stats, in its kill   *)
(* loop or in its results, follows a NULL pointer at most when the -v       *)
(* buffer of a thread could not be allocated and the creation loop was left *)
(* early.                                                                   *)
ExposedReads ==
    /\ fault = "null" => "error" \in why
    /\ fault \in {"fifo", "status"} =>
          /\ \E t \in Threads : stat[t] = "freed"
          /\ \A t \in Threads : tpc[t] \in {"none", "done"}
    /\ fault \in {"null", "null_status"} => \E t \in Threads : tpc[t] = "none"

(* Threads wait in a barrier for one that main has not created. *)
Stranded ==
    /\ mpc \notin {"create", "test"}
    /\ \E t, s \in Threads : tpc[t] = "globalt" /\ tpc[s] = "none"

(* With -M and -l the test ends by itself, however the signals interleave   *)
(* with main's condition wait, and also when a timer thread leaves on an    *)
(* error; unless main gave up creating threads while those of -A wait for   *)
(* the missing ones: then main waits with them.                             *)
EndsByItself == <>(~Running \/ Stranded)
=============================================================================
