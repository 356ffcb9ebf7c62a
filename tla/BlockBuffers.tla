---------------------------- MODULE BlockBuffers ----------------------------
(***************************************************************************)
(* The block device buffer cache of RTEMS (cpukit/libblock/src/bdbuf.c):   *)
(* users get, read, release, synchronize and purge buffers, the swap-out   *)
(* task and its workers write modified buffers, the read-ahead task reads. *)
(*                                                                         *)
(* One mutex protects the cache.  It is given up in condition waits and    *)
(* during transfers, so a step is a section under the mutex; a user keeps  *)
(* it over several steps where one function hands over to the next (lock). *)
(*                                                                         *)
(* A buffer is <<group, index>>.  What is in it is abstracted to whether   *)
(* it is the latest released contents of its block, the hold timer to the  *)
(* periods that are left, the AVL tree to a set.  The conversion of block  *)
(* numbers, the statistics and the positions of the read-ahead trigger are *)
(* left out; a read-ahead transfer has one block, a user at most one       *)
(* buffer.                                                                 *)
(***************************************************************************)
EXTENDS Integers, FiniteSets, SequencesExt

CONSTANTS
    Users,      \* tasks that use the cache
    Workers,    \* swap-out worker tasks
    Devices, Nums, \* disk devices, their block numbers
    Groups,     \* groups of buffer descriptors
    MaxPer,     \* max_bds_per_group
    Sizes,      \* bds_per_group values of the block sizes in use
    Hold,       \* swap_block_hold, in periods of the swap-out task
    max_write_blocks,
    continuous, \* RTEMS_BLKDEV_CAP_MULTISECTOR_CONT
    ReadAhead,  \* read-ahead is configured
    Errors,     \* transfers may fail
    Purges, Resizes, \* purge_dev and set_block_size are used
    MaxCalls,   \* bound: directives begun by the users, but for releases
    AfterRace,  \* bound: go on when a purge has hit a directive of another user
    None

ASSUME CacheAssumption ==
    /\ IsFiniteSet(Users) /\ IsFiniteSet(Groups) /\ Nums \subseteq Int
    /\ MaxPer \in Nat \ {0} /\ Hold \in Nat /\ max_write_blocks \in Nat \ {0}
    /\ Sizes # {} /\ \A n \in Sizes : n \in 1 .. MaxPer /\ MaxPer % n = 0
    /\ {continuous, ReadAhead, Errors, Purges, Resizes, AfterRace} \subseteq BOOLEAN
    /\ MaxCalls \in Nat

Bds == Groups \X (0 .. MaxPer - 1)
Keys == Devices \X Nums
Writers == Workers \cup {"swapout"}
RA == "read_ahead"

(* What stands for nothing or for the tasks of the cache is nothing else.   *)
ASSUME NoneAssumption ==
    /\ None \notin Users \cup Devices \cup Bds \cup Keys \cup {RA}
    /\ RA \notin Users /\ "swapout" \notin Workers

(* The descriptors of a group that is divided into n buffers *)
GroupBds(g, n) == {<<g, i>> : i \in {j * (MaxPer \div n) : j \in 0 .. n - 1}}

VARIABLES
    lock,       \* who keeps bdbuf_cache.lock between two steps
    state, key, hold, \* per buffer: state, dd and block, hold_timer
    tree, lru, modified, syncq, \* the lookup tree and the lists
    users, per, \* per group: users, bds_per_group
    dsize,      \* dd->bds_per_group
    pc, op, want, bd, cv, ret, \* a user: control point, directive and block,
                \* its buffer, the condition it waits for and where it goes on
    synclock, sync_active, sync_device, sdone, \* sdone: the requester's event
    wlist,      \* the transfer chain of the swap-out task and of each worker
    wpc,        \* a worker: on the free chain, with a transfer, or neither
    spc, upd,   \* swap-out task: control point, update_timers
    rachain, raevent, rapc, rabd, \* read-ahead: chain, event, task and buffer
    cur, dcur,  \* a buffer, the disk, has the latest contents of the block
    lost,       \* blocks whose latest contents were discarded unwritten
    calls, fault, raced, resized, promised \* history

bufvars  == <<state, key, hold, tree>>
listvars == <<lru, modified, syncq>>
grpvars  == <<users, per, dsize>>
waitvars == <<cv, ret>>
syncvars == <<synclock, sync_active, sync_device, sdone>>
swapvars == <<wlist, wpc, spc, upd>>
ravars   == <<rachain, raevent, rapc, rabd>>
datavars == <<cur, dcur, lost>>
racevars == <<raced, resized>>
vars == <<lock, bufvars, listvars, grpvars, pc, op, want, bd, waitvars,
          syncvars, swapvars, ravars, datavars, calls, fault, racevars,
          promised>>

Valid == {b \in Bds : b \in GroupBds(b[1], per[b[1]])}

(* bd->waiters and the counts of the condition variables: a thread counts   *)
(* until it has the mutex again.                                            *)
Asleep(u) == pc[u] \in {"sleep", "woken"}
Waited(b) == \E u \in Users : Asleep(u) /\ bd[u] = b
BufferWaiters == \E u \in Users : Asleep(u) /\ cv[u] = "buffer"

(* rtems_bdbuf_wake for the condition variables cs, after pc became p *)
Wake(p, cs) ==
    [u \in Users |-> IF p[u] = "sleep" /\ cv[u] \in cs THEN "woken" ELSE p[u]]

(* Who is woken when buffer b changes hands *)
Waker_buffer(b, c) == {"buffer"} \* mutant: the waiters of b are forgotten
Waker(b, c) == IF Waited(b) THEN {c} ELSE {"buffer"}

(* The elements of S in the order of the numbers f gives them *)
Ranked(S, f) ==
    [i \in 1 .. Cardinality(S) |->
        CHOOSE x \in S : Cardinality({y \in S : f[y] < f[x]}) = i - 1]

(* rtems_chain_extract_unprotected of the buffers in S *)
Without(s, S) ==
    LET left == {i \in DOMAIN s : s[i] \notin S}
        at == Ranked(left, [i \in left |-> i])
    IN  [j \in DOMAIN at |-> s[at[j]]]

UsersLess(S) == [g \in Groups |-> users[g] - Cardinality({b \in S : b[1] = g})]
Dev(b) == key[b][1]

(* rtems_bdbuf_remove_from_tree *)
Untree(S) ==
    /\ tree' = tree \ S
    /\ fault' = IF S \subseteq tree THEN fault ELSE "TREE_RM"

Init ==
    /\ lock = None
    /\ state = [b \in Bds |-> "FREE"]
    /\ key = [b \in Bds |-> None]
    /\ hold = [b \in Bds |-> 0]
    /\ tree = {} /\ lru = SetToSeq(Bds) /\ modified = <<>> /\ syncq = <<>>
    /\ users = [g \in Groups |-> 0] /\ per = [g \in Groups |-> MaxPer]
    /\ dsize \in [Devices -> Sizes]
    /\ pc = [u \in Users |-> "idle"]
    /\ op = [u \in Users |-> None] /\ want = [u \in Users |-> None]
    /\ bd = [u \in Users |-> None]
    /\ cv = [u \in Users |-> None] /\ ret = [u \in Users |-> None]
    /\ synclock = None /\ sync_active = FALSE /\ sync_device = None
    /\ sdone = FALSE
    /\ wlist = [w \in Writers |-> {}]
    /\ wpc = [w \in Workers |-> "free"]
    /\ spc = "scan" /\ upd = TRUE
    /\ rachain = {} /\ raevent = FALSE /\ rapc = "idle" /\ rabd = None
    /\ cur = [b \in Bds |-> FALSE] /\ dcur = [k \in Keys |-> TRUE]
    /\ lost = {}
    /\ calls = 0 /\ fault = "none" /\ raced = FALSE /\ resized = FALSE
    /\ promised = {}

-----------------------------------------------------------------------------
(* rtems_bdbuf_get and rtems_bdbuf_read: finding the buffer *)

Call(u) ==
    /\ pc[u] = "idle" /\ lock = None /\ calls < MaxCalls
    /\ calls' = calls + 1
    /\ \E o \in {"get", "read"}, k \in Keys :
        op' = [op EXCEPT ![u] = o] /\ want' = [want EXCEPT ![u] = k]
    /\ lock' = u
    /\ pc' = [pc EXCEPT ![u] = "find"]
    /\ UNCHANGED <<bufvars, listvars, grpvars, bd, waitvars, syncvars,
                   swapvars, ravars, datavars, fault, racevars, promised>>

(* rtems_bdbuf_avl_search *)
Search(k) == {b \in tree : key[b] = k}

(* rtems_bdbuf_get_buffer_from_lru_list: nobody waits for the buffer, and   *)
(* it has the right size or its group is not in use.                        *)
Recyclable_waited(b, d) == per[b[1]] = dsize[d] \/ users[b[1]] = 0 \* mutant
Recyclable(b, d) == ~Waited(b) /\ (per[b[1]] = dsize[d] \/ users[b[1]] = 0)
Candidates(d) == {i \in DOMAIN lru : Recyclable(lru[i], d)}
First(I) == CHOOSE i \in I : \A j \in I : i <= j

(* The first of them becomes buffer b of block k, in state s and in the     *)
(* tree; if its size is wrong rtems_bdbuf_group_realloc divides the group   *)
(* anew.                                                                    *)
Recycled(k, b, s) ==
    LET x == lru[First(Candidates(k[1]))]
        g == x[1]
        n == dsize[k[1]]
        fits == per[g] = n
        old == IF fits THEN {x} ELSE GroupBds(g, per[g])
        new == [j \in 1 .. n - 1 |-> <<g, (n - j) * (MaxPer \div n)>>]
    IN  /\ b = IF fits THEN x ELSE <<g, 0>>
        /\ fault' = IF \A y \in old : state[y] \in {"FREE", "CACHED"}
                    THEN IF \A y \in old : state[y] = "CACHED" => y \in tree
                         THEN fault ELSE "TREE_RM"
                    ELSE "STATE_10"
        /\ tree' = (tree \ old) \cup {b}
        /\ key' = [y \in Bds |-> IF y = b THEN k ELSE IF y \in old THEN None ELSE key[y]]
        /\ lru' = (IF fits THEN <<>> ELSE new) \o Without(lru, old)
        /\ per' = [per EXCEPT ![g] = n]
        /\ state' = [y \in Bds |-> IF y = b THEN s
                                   ELSE IF y \in old THEN "FREE" ELSE state[y]]
        /\ cur' = [y \in Bds |-> cur[y] /\ y \notin old]

RecycleWakes(d) ==
    LET x == lru[First(Candidates(d))]
    IN  IF per[x[1]] # dsize[d] /\ dsize[d] > 1 THEN {"buffer"} ELSE {}

(* The block is not in the cache, and a buffer can be had, ... *)
FindMiss(u) ==
    /\ pc[u] = "find"
    /\ Search(want[u]) = {} /\ Candidates(want[u][1]) # {}
    /\ \E b \in Bds : Recycled(want[u], b, "EMPTY") /\ bd' = [bd EXCEPT ![u] = b]
    /\ pc' = Wake([pc EXCEPT ![u] = "access"], RecycleWakes(want[u][1]))
    /\ UNCHANGED <<lock, hold, modified, syncq, users, dsize, op, want,
                   waitvars, syncvars, swapvars, ravars, dcur, lost, calls,
                   racevars, promised>>

(* rtems_bdbuf_anonymous_wait and rtems_bdbuf_wait: u gives up the mutex.   *)
Sleep(u, c, b, r) ==
    /\ pc' = [pc EXCEPT ![u] = "sleep"]
    /\ cv' = [cv EXCEPT ![u] = c] /\ ret' = [ret EXCEPT ![u] = r]
    /\ bd' = [bd EXCEPT ![u] = b]
    /\ users' = IF b = None THEN users ELSE [users EXCEPT ![b[1]] = @ + 1]
    /\ lock' = None

(* It is woken and has the mutex again. *)
Resume(u) ==
    /\ pc[u] = "woken" /\ lock = None
    /\ lock' = u
    /\ pc' = [pc EXCEPT ![u] = ret[u]]
    /\ cv' = [cv EXCEPT ![u] = None] /\ ret' = [ret EXCEPT ![u] = None]
    /\ users' = IF bd[u] = None THEN users ELSE [users EXCEPT ![bd[u][1]] = @ - 1]
    /\ UNCHANGED <<bufvars, listvars, per, dsize, op, want, bd, syncvars,
                   swapvars, ravars, datavars, calls, fault, racevars,
                   promised>>

(* ... or not (rtems_bdbuf_wait_for_buffer). *)
FindWait(u) ==
    /\ pc[u] = "find"
    /\ Search(want[u]) = {} /\ Candidates(want[u][1]) = {}
    /\ Sleep(u, "buffer", None, "find")
    /\ UNCHANGED <<bufvars, listvars, per, dsize, op, want, syncvars,
                   swapvars, ravars, datavars, calls, fault, racevars,
                   promised>>

(* The block is in the cache, in a buffer of the right or the wrong size. *)
FindHit(u) ==
    /\ pc[u] = "find"
    /\ \E b \in Search(want[u]) :
        /\ bd' = [bd EXCEPT ![u] = b]
        /\ pc' = [pc EXCEPT ![u] =
                    IF per[b[1]] = dsize[want[u][1]] THEN "access" ELSE "recycle"]
    /\ UNCHANGED <<lock, bufvars, listvars, grpvars, op, want, waitvars,
                   syncvars, swapvars, ravars, datavars, calls, fault,
                   racevars, promised>>

InAccess == {"ACCESS_CACHED", "ACCESS_MODIFIED", "ACCESS_EMPTY", "ACCESS_PURGED"}
InTransfer == {"SYNC", "TRANSFER", "TRANSFER_PURGED"}

(* The condition on which a buffer in use is waited for *)
Awaits(b) == IF state[b] \in InAccess THEN "access" ELSE "transfer"

(* rtems_bdbuf_wait_for_recycle: wait until the buffer is not in use ... *)
RecycleWait(u) ==
    /\ pc[u] = "recycle"
    /\ \/ /\ state[bd[u]] \in InAccess \cup InTransfer
          /\ Sleep(u, Awaits(bd[u]), bd[u], "recycle")
       \/ /\ state[bd[u]] \in {"CACHED", "EMPTY"} /\ Waited(bd[u])
          /\ Sleep(u, "buffer", None, "find")
    /\ UNCHANGED <<bufvars, listvars, per, dsize, op, want, syncvars,
                   swapvars, ravars, datavars, calls, fault, racevars,
                   promised>>

(* ... or written ... *)
RecycleSync(u) ==
    /\ pc[u] = "recycle" /\ state[bd[u]] = "MODIFIED"
    /\ state' = [state EXCEPT ![bd[u]] = "SYNC"]
    /\ modified' = Without(modified, {bd[u]})
    /\ syncq' = Append(syncq, bd[u])
    /\ UNCHANGED <<lock, key, hold, tree, lru, grpvars, pc, op, want, bd,
                   waitvars, syncvars, swapvars, ravars, datavars, calls,
                   fault, racevars, promised>>

(* ... and make it free.  An EMPTY buffer is not expected here. *)
RecycleFree(u) ==
    /\ pc[u] = "recycle"
    /\ state[bd[u]] \in {"FREE", "CACHED", "EMPTY"} /\ ~Waited(bd[u])
    /\ LET b == bd[u] IN
        /\ fault' = IF state[b] = "EMPTY" THEN "STATE_10"
                    ELSE IF state[b] = "CACHED" /\ b \notin tree THEN "TREE_RM"
                    ELSE fault
        /\ tree' = tree \ {b}
        /\ lru' = <<b>> \o Without(lru, {b})
        /\ state' = [state EXCEPT ![b] = "FREE"]
        /\ key' = [key EXCEPT ![b] = None]
    /\ pc' = Wake([pc EXCEPT ![u] = "find"], {"buffer"})
    /\ bd' = [bd EXCEPT ![u] = None]
    /\ UNCHANGED <<lock, hold, modified, syncq, grpvars, op, want, waitvars,
                   syncvars, swapvars, ravars, datavars, calls, racevars,
                   promised>>

-----------------------------------------------------------------------------
(* rtems_bdbuf_get and rtems_bdbuf_read: taking the buffer *)

(* rtems_bdbuf_wait_for_access *)
AccessWait(u) ==
    /\ pc[u] = "access" /\ state[bd[u]] \in InAccess \cup InTransfer
    /\ Sleep(u, Awaits(bd[u]), bd[u], "access")
    /\ UNCHANGED <<bufvars, listvars, per, dsize, op, want, syncvars,
                   swapvars, ravars, datavars, calls, fault, racevars,
                   promised>>

AccessState_clean == \* mutant: a modified buffer is taken as a cached one
    [MODIFIED |-> "ACCESS_CACHED", CACHED |-> "ACCESS_CACHED",
     EMPTY |-> "ACCESS_EMPTY"]
AccessState ==
    [MODIFIED |-> "ACCESS_MODIFIED", CACHED |-> "ACCESS_CACHED",
     EMPTY |-> "ACCESS_EMPTY"]

(* rtems_bdbuf_check_read_ahead_trigger and _set_read_ahead_trigger: whether *)
(* the block is the trigger is left open.                                   *)
Trigger(d) ==
    \/ UNCHANGED <<rachain, raevent>>
    \/ /\ ReadAhead /\ d \notin rachain
       /\ raevent' = (raevent \/ rachain = {})
       /\ rachain' = rachain \cup {d}

(* The buffer is off its list and with the user.  A modified one was in use *)
(* by the cache already.                                                    *)
AccessTake(u) ==
    /\ pc[u] = "access" /\ state[bd[u]] \in DOMAIN AccessState
    /\ ~(op[u] = "read" /\ state[bd[u]] = "EMPTY")
    /\ LET b == bd[u] IN
        /\ state' = [state EXCEPT ![b] = AccessState[@]]
        /\ lru' = Without(lru, {b}) /\ modified' = Without(modified, {b})
        /\ users' = IF state[b] = "MODIFIED" THEN users
                    ELSE [users EXCEPT ![b[1]] = @ + 1]
        /\ promised' = promised \ {key[b]}
    /\ pc' = [pc EXCEPT ![u] = "hold"] /\ op' = [op EXCEPT ![u] = None]
    /\ lock' = None
    /\ IF op[u] = "read" THEN Trigger(want[u][1]) ELSE UNCHANGED <<rachain, raevent>>
    /\ UNCHANGED <<key, hold, tree, syncq, per, dsize, want, bd, waitvars,
                   syncvars, swapvars, rapc, rabd, datavars, calls, fault,
                   racevars>>

(* rtems_bdbuf_execute_read_request: the mutex is released for the transfer. *)
AccessRead(u) ==
    /\ pc[u] = "access" /\ op[u] = "read" /\ state[bd[u]] = "EMPTY"
    /\ state' = [state EXCEPT ![bd[u]] = "TRANSFER"]
    /\ users' = [users EXCEPT ![bd[u][1]] = @ + 1]
    /\ pc' = [pc EXCEPT ![u] = "reading"]
    /\ rachain' \in {rachain, rachain \ {want[u][1]}}
    /\ lock' = None
    /\ UNCHANGED <<key, hold, tree, listvars, per, dsize, op, want, bd,
                   waitvars, syncvars, swapvars, raevent, rapc, rabd,
                   datavars, calls, fault, racevars, promised>>

Discarded(b) == IF Waited(b) THEN "EMPTY" ELSE "FREE"
FreeOf(S) == {b \in S : ~Waited(b)}

(* The transfer of the user's read is done.  rtems_bdbuf_read goes on with  *)
(* the buffer as if it was CACHED and on the LRU list, whatever             *)
(* rtems_bdbuf_execute_transfer_request has made of it.                     *)
ReadDone(u) ==
    /\ pc[u] = "reading" /\ lock = None
    /\ LET b == bd[u] IN
        /\ state' = [state EXCEPT ![b] = "ACCESS_CACHED"]
        /\ IF state[b] = "TRANSFER"
           THEN UNCHANGED <<tree, fault>>
           ELSE IF Waited(b) THEN fault' = "LINK" /\ UNCHANGED tree
           ELSE Untree({b})
        /\ cur' = [cur EXCEPT ![b] = dcur[key[b]]]
        /\ pc' = Wake([pc EXCEPT ![u] = "hold"], Waker(b, "transfer"))
    /\ op' = [op EXCEPT ![u] = None]
    /\ Trigger(want[u][1])
    /\ UNCHANGED <<lock, key, hold, listvars, grpvars, want, bd, waitvars,
                   syncvars, swapvars, rapc, rabd, dcur, lost, calls, racevars,
                   promised>>

(* A buffer nobody has any more: empty for those who wait, otherwise free.  *)
Discard(S) ==
    /\ state' = [b \in Bds |-> IF b \in S THEN Discarded(b) ELSE state[b]]
    /\ key' = [b \in Bds |-> IF b \in FreeOf(S) THEN None ELSE key[b]]
    /\ Untree(FreeOf(S))
    /\ lru' = SetToSeq(FreeOf(S)) \o lru

ReadError(u) ==
    /\ pc[u] = "reading" /\ lock = None /\ Errors
    /\ Discard({bd[u]})
    /\ users' = UsersLess({bd[u]})
    /\ pc' = Wake([pc EXCEPT ![u] = "idle"], Waker(bd[u], "transfer"))
    /\ op' = [op EXCEPT ![u] = None] /\ want' = [want EXCEPT ![u] = None]
    /\ bd' = [bd EXCEPT ![u] = None]
    /\ Trigger(want[u][1])
    /\ UNCHANGED <<lock, hold, modified, syncq, per, dsize, waitvars,
                   syncvars, swapvars, rapc, rabd, datavars, calls, racevars,
                   promised>>

-----------------------------------------------------------------------------
(* Giving the buffer back *)

Idle(u) ==
    /\ bd' = [bd EXCEPT ![u] = None] /\ want' = [want EXCEPT ![u] = None]

(* rtems_bdbuf_release of an unmodified buffer *)
Release(u) ==
    /\ pc[u] = "hold" /\ lock = None /\ state[bd[u]] = "ACCESS_CACHED"
    /\ users' = UsersLess({bd[u]})
    /\ state' = [state EXCEPT ![bd[u]] = "CACHED"]
    /\ lru' = Append(lru, bd[u])
    /\ pc' = Wake([pc EXCEPT ![u] = "idle"], Waker(bd[u], "access"))
    /\ Idle(u)
    /\ UNCHANGED <<lock, key, hold, tree, modified, syncq, per, dsize, op,
                   waitvars, syncvars, swapvars, ravars, datavars, calls,
                   fault, racevars, promised>>

(* Any way of giving back a purged buffer, or releasing one never filled *)
ReleaseDiscard(u) ==
    /\ pc[u] = "hold" /\ lock = None
    /\ state[bd[u]] \in {"ACCESS_EMPTY", "ACCESS_PURGED"}
    /\ users' = UsersLess({bd[u]})
    /\ Discard({bd[u]})
    /\ pc' = Wake([pc EXCEPT ![u] = "idle"], Waker(bd[u], "access"))
    /\ Idle(u)
    /\ UNCHANGED <<lock, hold, modified, syncq, per, dsize, op, waitvars,
                   syncvars, swapvars, ravars, datavars, calls, racevars,
                   promised>>

(* The user has filled in new contents, or releases what is modified. *)
Filled(u, new) ==
    LET b == bd[u] IN
    IF new
    THEN /\ cur' = [x \in Bds |-> x = b \/ (cur[x] /\ key[x] # key[b])]
         /\ dcur' = [dcur EXCEPT ![key[b]] = FALSE]
         /\ lost' = lost \ {key[b]} /\ promised' = promised \ {key[b]}
    ELSE UNCHANGED <<datavars, promised>>

Modifiable == {"ACCESS_CACHED", "ACCESS_MODIFIED", "ACCESS_EMPTY"}
NewContents(u) == IF state[bd[u]] = "ACCESS_MODIFIED" THEN BOOLEAN ELSE {TRUE}

(* The second half of rtems_bdbuf_add_to_modified_list_after_access *)
Modified(u) ==
    LET b == bd[u] IN
    /\ hold' = IF state[b] \in {"ACCESS_CACHED", "ACCESS_EMPTY"}
               THEN [hold EXCEPT ![b] = Hold] ELSE hold
    /\ state' = [state EXCEPT ![b] = "MODIFIED"]
    /\ modified' = Append(modified, b)
    /\ pc' = Wake([pc EXCEPT ![u] = "idle"], IF Waited(b) THEN {"access"} ELSE {})
    /\ Idle(u)

SyncBlocks(b) == sync_active /\ sync_device = Dev(b)

(* rtems_bdbuf_release_modified, and rtems_bdbuf_release of a modified one *)
ReleaseModified(u) ==
    /\ pc[u] = "hold" /\ lock = None /\ state[bd[u]] \in Modifiable
    /\ ~SyncBlocks(bd[u])
    /\ \E new \in NewContents(u) : Filled(u, new)
    /\ Modified(u)
    /\ UNCHANGED <<lock, key, tree, lru, syncq, grpvars, op, waitvars,
                   syncvars, swapvars, ravars, calls, fault, racevars>>

(* While the device is being synchronized: wait for the sync lock, ... *)
ReleaseBlocked(u) ==
    /\ pc[u] = "hold" /\ lock = None /\ state[bd[u]] \in Modifiable
    /\ SyncBlocks(bd[u])
    /\ \E new \in NewContents(u) : Filled(u, new)
    /\ pc' = [pc EXCEPT ![u] = "synclock"]
    /\ UNCHANGED <<lock, bufvars, listvars, grpvars, op, want, bd, waitvars,
                   syncvars, swapvars, ravars, calls, fault, racevars>>

(* ... let it go at once, ... *)
SyncLocked(u) ==
    /\ pc[u] = "synclock" /\ synclock = None
    /\ pc' = [pc EXCEPT ![u] = "relock"]
    /\ UNCHANGED <<lock, bufvars, listvars, grpvars, op, want, bd, waitvars,
                   syncvars, swapvars, ravars, datavars, calls, fault,
                   racevars, promised>>

(* ... take the mutex again and go on; the state is not looked at again. *)
ReleaseUnblocked(u) ==
    /\ pc[u] = "relock" /\ lock = None
    /\ Modified(u)
    /\ UNCHANGED <<lock, key, tree, lru, syncq, grpvars, op, waitvars,
                   syncvars, swapvars, ravars, datavars, calls, fault,
                   racevars, promised>>

(* rtems_bdbuf_sync *)
Sync(u) ==
    /\ pc[u] = "hold" /\ lock = None /\ state[bd[u]] \in Modifiable
    /\ \E new \in NewContents(u) : Filled(u, new)
    /\ state' = [state EXCEPT ![bd[u]] = "SYNC"]
    /\ syncq' = Append(syncq, bd[u])
    /\ users' = [users EXCEPT ![bd[u][1]] = @ + 1]
    /\ pc' = Wake([pc EXCEPT ![u] = "sleep"], IF Waited(bd[u]) THEN {"access"} ELSE {})
    /\ cv' = [cv EXCEPT ![u] = "transfer"] /\ ret' = [ret EXCEPT ![u] = "syncwait"]
    /\ UNCHANGED <<lock, key, hold, tree, lru, modified, per, dsize, op,
                   want, bd, syncvars, swapvars, ravars, calls, fault,
                   racevars>>

(* rtems_bdbuf_wait_for_sync_done: not written yet, ... *)
SyncWait(u) ==
    /\ pc[u] = "syncwait" /\ state[bd[u]] \in InTransfer
    /\ Sleep(u, "transfer", bd[u], "syncwait")
    /\ UNCHANGED <<bufvars, listvars, per, dsize, op, want, syncvars,
                   swapvars, ravars, datavars, calls, fault, racevars,
                   promised>>

(* ... or written, and nobody else may be there to recycle the buffer. *)
SyncDone(u) ==
    /\ pc[u] = "syncwait" /\ state[bd[u]] \notin InTransfer
    /\ LET b == bd[u]
           last == ~Waited(b) /\ state[b] \in {"CACHED", "EMPTY"}
       IN  /\ IF last /\ state[b] = "EMPTY"
              THEN Discard({b})
              ELSE /\ fault' = IF state[b] = "FREE" THEN "STATE_9" ELSE fault
                   /\ UNCHANGED <<state, key, tree, lru>>
           /\ pc' = Wake([pc EXCEPT ![u] = "idle"], IF last THEN {"buffer"} ELSE {})
    /\ Idle(u)
    /\ lock' = None
    /\ UNCHANGED <<hold, modified, syncq, grpvars, op, waitvars, syncvars,
                   swapvars, ravars, datavars, calls, racevars, promised>>

-----------------------------------------------------------------------------
(* rtems_bdbuf_syncdev, rtems_bdbuf_purge_dev, rtems_bdbuf_set_block_size *)

(* First the sync lock; op remembers what comes after it. *)
SyncdevLock(u) ==
    /\ pc[u] = "idle" /\ synclock = None /\ calls < MaxCalls
    /\ calls' = calls + 1
    /\ synclock' = u
    /\ \E d \in Devices : want' = [want EXCEPT ![u] = d]
    /\ \E o \in {"syncdev"} \cup (IF Resizes THEN {"resize"} ELSE {}) :
        op' = [op EXCEPT ![u] = o]
    /\ pc' = [pc EXCEPT ![u] = "request"]
    /\ UNCHANGED <<lock, bufvars, listvars, grpvars, bd, waitvars,
                   sync_active, sync_device, sdone, swapvars, ravars,
                   datavars, fault, racevars, promised>>

(* What is to be on the disk when the call returns: the buffers that are    *)
(* modified now, those in transfer included, without what a user has taken. *)
SyncPromise(d) ==
    {key[b] : b \in {x \in tree : /\ Dev(x) = d
                                  /\ \/ state[x] \in {"MODIFIED", "SYNC"}
                                     \/ \E w \in Writers : x \in wlist[w]}}

SyncdevRequest(u) ==
    /\ pc[u] = "request" /\ lock = None
    /\ sync_active' = TRUE /\ sync_device' = want[u]
    /\ promised' = SyncPromise(want[u])
    /\ pc' = [pc EXCEPT ![u] = "event"]
    /\ UNCHANGED <<lock, bufvars, listvars, grpvars, op, want, bd, waitvars,
                   synclock, sdone, swapvars, ravars, datavars, calls, fault,
                   racevars>>

SyncdevReturn(u) ==
    /\ pc[u] = "event" /\ sdone
    /\ sdone' = FALSE
    /\ synclock' = None
    /\ promised' = {}
    /\ IF op[u] = "resize"
       THEN pc' = [pc EXCEPT ![u] = "resize"] /\ UNCHANGED <<op, want>>
       ELSE /\ pc' = [pc EXCEPT ![u] = "idle"]
            /\ op' = [op EXCEPT ![u] = None] /\ want' = [want EXCEPT ![u] = None]
    /\ UNCHANGED <<lock, bufvars, listvars, grpvars, bd, waitvars,
                   sync_active, sync_device, swapvars, ravars, datavars,
                   calls, fault, racevars>>

Cached(d) == {b \in tree : Dev(b) = d}

(* A directive of another user is in the middle of what a purge undoes:     *)
(* its read is in progress, or it waits for the sync lock with the buffer.  *)
InDirective(d) ==
    \E u \in Users : /\ pc[u] \in {"reading", "synclock", "relock"}
                     /\ bd[u] \in Cached(d)

(* rtems_bdbuf_gather_for_purge and rtems_bdbuf_purge_list *)
PurgedState_busy(b) == Discarded(b) \* mutant: also a buffer in transfer
PurgedState(b) ==
    CASE state[b] \in {"CACHED", "MODIFIED", "SYNC"} -> Discarded(b)
      [] state[b] = "TRANSFER" -> "TRANSFER_PURGED"
      [] state[b] \in Modifiable -> "ACCESS_PURGED"
      [] OTHER -> state[b]

GroupUser_cached(b) == TRUE \* mutant: the fall through is put too high
GroupUser(b) == state[b] \in {"SYNC", "MODIFIED"}

Purged(d, p) ==
    LET drop == {b \in Cached(d) : state[b] \in {"CACHED", "MODIFIED", "SYNC"}}
        used == {b \in drop : GroupUser(b)}
    IN  /\ state' = [b \in Bds |-> IF b \in Cached(d) THEN PurgedState(b) ELSE state[b]]
        /\ key' = [b \in Bds |-> IF b \in FreeOf(drop) THEN None ELSE key[b]]
        /\ tree' = tree \ FreeOf(drop)
        /\ \E q \in SetToSeqs(FreeOf(drop)) : lru' = q \o Without(lru, drop)
        /\ modified' = Without(modified, drop)
        /\ syncq' = Without(syncq, drop)
        /\ users' = UsersLess(used)
        /\ lost' = lost \cup {key[b] : b \in {x \in Cached(d) :
                                state[x] \in {"MODIFIED", "SYNC", "ACCESS_MODIFIED"}}}
        /\ rachain' = rachain \ {d}
        /\ pc' = Wake(p, (IF \E b \in drop : state[b] = "SYNC" THEN {"transfer"} ELSE {})
                          \cup (IF FreeOf(drop) # {} THEN {"buffer"} ELSE {}))

Purge(u) ==
    /\ pc[u] \in {"idle", "hold"} /\ lock = None /\ Purges /\ calls < MaxCalls
    /\ calls' = calls + 1
    /\ \E d \in Devices :
        /\ Purged(d, pc)
        /\ raced' = (raced \/ InDirective(d))
    /\ UNCHANGED <<lock, hold, per, dsize, op, want, bd, waitvars, syncvars,
                   swapvars, raevent, rapc, rabd, cur, dcur, fault, resized,
                   promised>>

(* The new size is in force at once, buffers in use keep the old one.  Who  *)
(* waits for one of them, or has still to find it, meets the wrong size.    *)
Outdated(d) ==
    \E b \in Cached(d) :
        \/ PurgedState(b) \in {"ACCESS_PURGED", "TRANSFER_PURGED"}
        \/ \E u \in Users : Asleep(u) /\ bd[u] = b /\ ret[u] # "syncwait"

SetBlockSize(d, n, p) ==
    /\ dsize' = [dsize EXCEPT ![d] = n]
    /\ Purged(d, p)
    /\ raced' = (raced \/ InDirective(d))
    /\ resized' = (resized \/ Outdated(d))

(* rtems_bdbuf_set_block_size without and with synchronization *)
Resize(u) ==
    /\ pc[u] \in {"idle", "hold"} /\ lock = None /\ Resizes /\ calls < MaxCalls
    /\ calls' = calls + 1
    /\ \E d \in Devices, n \in Sizes : SetBlockSize(d, n, pc)
    /\ UNCHANGED <<lock, hold, per, op, want, bd, waitvars, syncvars,
                   swapvars, raevent, rapc, rabd, cur, dcur, fault, promised>>

ResizeSynced(u) ==
    /\ pc[u] = "resize" /\ lock = None
    /\ \E n \in Sizes : SetBlockSize(want[u], n, [pc EXCEPT ![u] = "idle"])
    /\ op' = [op EXCEPT ![u] = None] /\ want' = [want EXCEPT ![u] = None]
    /\ UNCHANGED <<lock, hold, per, bd, waitvars, syncvars, swapvars,
                   raevent, rapc, rabd, cur, dcur, fault, calls, promised>>

-----------------------------------------------------------------------------
(* The swap-out task, its workers and the read-ahead task *)

(* rtems_bdbuf_swapout_modified_processing of the modified list, for device *)
(* d or, if that is None, for the device of the first buffer that is due.   *)
Forced(b, d) == BufferWaiters \/ (sync_active /\ d = Dev(b))
HoldLeft(b, d) ==
    IF Forced(b, d) THEN 0 ELSE IF upd /\ hold[b] > 0 THEN hold[b] - 1 ELSE hold[b]
Due(d) == Without(modified, {b \in ToSet(modified) : HoldLeft(b, d) > 0})

(* The device and the buffers that rtems_bdbuf_swapout_processing selects:  *)
(* first from the sync list, all of it without regard to the hold timers.   *)
SyncListDevice_first == IF syncq # <<>> THEN Dev(syncq[1]) ELSE None \* mutant
SyncListDevice ==
    IF sync_active THEN sync_device
    ELSE IF syncq # <<>> THEN Dev(syncq[1]) ELSE None
ScanDevice ==
    IF SyncListDevice # None THEN SyncListDevice
    ELSE IF Due(None) # <<>> THEN Dev(Due(None)[1]) ELSE None
ScanBuffers ==
    {b \in ToSet(syncq) \cup ToSet(Due(SyncListDevice)) : Dev(b) = ScanDevice}

(* The scan is done for worker w, or by the task itself.  A worker that was *)
(* taken from its chain for nothing does not get back.                      *)
ScanBy(w) ==
    /\ state' = [b \in Bds |-> IF b \in ScanBuffers THEN "TRANSFER" ELSE state[b]]
    /\ hold' = [b \in Bds |-> IF b \in ToSet(modified)
                              THEN HoldLeft(b, SyncListDevice) ELSE hold[b]]
    /\ modified' = Without(modified, ScanBuffers)
    /\ syncq' = Without(syncq, ScanBuffers)
    /\ wlist' = [wlist EXCEPT ![w] = ScanBuffers]
    /\ wpc' = [x \in Workers |-> IF x # w THEN wpc[x]
                                 ELSE IF ScanBuffers # {} THEN "busy" ELSE "lost"]
    /\ spc' = IF ScanBuffers # {} THEN IF w = "swapout" THEN "write" ELSE "scan"
              ELSE IF sync_active THEN "syncdone" ELSE "idle"
    /\ upd' = FALSE

FreeWorkers == {w \in Workers : wpc[w] = "free"}

Scan ==
    /\ spc = "scan" /\ lock = None
    /\ \E w \in IF sync_active \/ FreeWorkers = {} THEN {"swapout"} ELSE FreeWorkers :
        ScanBy(w)
    /\ UNCHANGED <<lock, key, tree, lru, grpvars, pc, op, want, bd, waitvars,
                   syncvars, ravars, datavars, calls, fault, racevars,
                   promised>>

Writing(w) == IF w = "swapout" THEN spc = "write" ELSE wpc[w] = "busy"

InOrder(S) ==
    CHOOSE q \in SetToSeqs(S) :
        \A i, j \in DOMAIN q : i < j => key[q[i]][2] <= key[q[j]][2]

(* rtems_bdbuf_swapout_write: the buffers of one request, in block order *)
Batch(S) ==
    LET q == InOrder(S)
        fits(n) == /\ n <= max_write_blocks
                   /\ continuous => \A i \in 1 .. n - 1 : key[q[i + 1]][2] = key[q[i]][2] + 1
    IN  {q[i] : i \in {j \in DOMAIN q : fits(j)}}

(* rtems_bdbuf_execute_transfer_request for a write of the buffers S: what  *)
(* was purged meanwhile, or could not be written, is discarded.             *)
Kept_failed(S, ok) == {b \in S : state[b] = "TRANSFER"} \* mutant
Kept(S, ok) == {b \in S : ok /\ state[b] = "TRANSFER"}

Written(S, ok) ==
    LET gone == S \ Kept(S, ok) IN
    /\ users' = UsersLess(S)
    /\ state' = [b \in Bds |-> IF b \in Kept(S, ok) THEN "CACHED"
                               ELSE IF b \in gone THEN Discarded(b) ELSE state[b]]
    /\ key' = [b \in Bds |-> IF b \in FreeOf(gone) THEN None ELSE key[b]]
    /\ Untree(FreeOf(gone))
    /\ lru' = Reverse(InOrder(FreeOf(gone))) \o lru \o InOrder(Kept(S, ok))
    /\ pc' = Wake(pc, UNION {Waker(b, "transfer") : b \in S})

(* One write request is done; after the last one the swap-out task scans    *)
(* again, a worker returns to its chain.  A request that failed has left    *)
(* its blocks unwritten, or half written, and the contents are discarded.   *)
WriteDone(w) ==
    /\ Writing(w) /\ lock = None
    /\ LET S == Batch(wlist[w])
           rest == wlist[w] \ S
           blocks == {key[b] : b \in S}
       IN  /\ \E ok \in IF Errors THEN BOOLEAN ELSE {TRUE} :
                /\ Written(S, ok)
                /\ IF ok
                   THEN /\ dcur' = [k \in Keys |->
                             IF k \in blocks THEN \E b \in S : key[b] = k /\ cur[b]
                             ELSE dcur[k]]
                        /\ promised' = promised \ blocks
                        /\ UNCHANGED lost
                   ELSE /\ lost' = lost \cup blocks
                        /\ UNCHANGED <<dcur, promised>>
           /\ wlist' = [wlist EXCEPT ![w] = rest]
           /\ spc' = IF w = "swapout" /\ rest = {} THEN "scan" ELSE spc
           /\ wpc' = [x \in Workers |-> IF x = w /\ rest = {} THEN "free" ELSE wpc[x]]
    /\ UNCHANGED <<lock, hold, modified, syncq, per, dsize, op, want, bd,
                   waitvars, syncvars, upd, ravars, cur, calls, racevars>>

(* The end of a device's synchronization *)
SyncEnd ==
    /\ spc = "syncdone" /\ lock = None
    /\ sync_active' = FALSE
    /\ sdone' = TRUE
    /\ spc' = "idle"
    /\ UNCHANGED <<lock, bufvars, listvars, grpvars, pc, op, want, bd,
                   waitvars, synclock, sync_device, wlist, wpc, upd, ravars,
                   datavars, calls, fault, racevars, promised>>

(* rtems_event_receive with the period as timeout, which can always be over *)
(* before rtems_bdbuf_wake_swapper makes it end early.                      *)
SwapoutWake ==
    /\ spc = "idle"
    /\ spc' = "scan" /\ upd' = TRUE
    /\ UNCHANGED <<lock, bufvars, listvars, grpvars, pc, op, want, bd,
                   waitvars, syncvars, wlist, wpc, ravars, datavars, calls,
                   fault, racevars, promised>>

(* rtems_bdbuf_peek *)
Peek(u) ==
    /\ ReadAhead /\ pc[u] = "idle" /\ lock = None /\ calls < MaxCalls
    /\ calls' = calls + 1
    /\ \E d \in Devices :
        /\ rachain' = rachain \cup {d}
        /\ raevent' = (raevent \/ rachain \subseteq {d})
    /\ UNCHANGED <<lock, bufvars, listvars, grpvars, pc, op, want, bd,
                   waitvars, syncvars, swapvars, rapc, rabd, datavars, fault,
                   racevars, promised>>

RaWake ==
    /\ rapc = "idle" /\ raevent /\ lock = None
    /\ raevent' = FALSE
    /\ rapc' = "loop"
    /\ lock' = RA
    /\ UNCHANGED <<bufvars, listvars, grpvars, pc, op, want, bd, waitvars,
                   syncvars, swapvars, rachain, rabd, datavars, calls, fault,
                   racevars, promised>>

(* The chain is empty, or its next device needs nothing, ... *)
RaSkip ==
    /\ rapc = "loop" /\ lock = RA
    /\ IF rachain = {}
       THEN rapc' = "idle" /\ lock' = None /\ UNCHANGED rachain
       ELSE /\ \E d \in rachain :
                /\ \E n \in Nums : Search(<<d, n>>) # {} \/ Candidates(d) = {}
                /\ rachain' = rachain \ {d}
            /\ UNCHANGED <<rapc, lock>>
    /\ UNCHANGED <<bufvars, listvars, grpvars, pc, op, want, bd, waitvars,
                   syncvars, swapvars, raevent, rabd, datavars, calls, fault,
                   racevars, promised>>

(* ... or a block of it is read, the mutex released for the transfer. *)
RaRead ==
    /\ rapc = "loop" /\ lock = RA
    /\ \E d \in rachain, n \in Nums, b \in Bds :
        /\ Search(<<d, n>>) = {} /\ Candidates(d) # {}
        /\ Recycled(<<d, n>>, b, "TRANSFER")
        /\ users' = [users EXCEPT ![b[1]] = @ + 1]
        /\ rachain' = rachain \ {d}
        /\ rabd' = b
        /\ pc' = Wake(pc, RecycleWakes(d))
    /\ rapc' = "reading"
    /\ lock' = None
    /\ UNCHANGED <<hold, modified, syncq, dsize, op, want, bd, waitvars,
                   syncvars, swapvars, raevent, dcur, lost, calls, racevars,
                   promised>>

RaDone ==
    /\ rapc = "reading" /\ lock = None
    /\ \E ok \in IF Errors THEN BOOLEAN ELSE {TRUE} :
        /\ Written({rabd}, ok)
        /\ cur' = [cur EXCEPT ![rabd] = ok /\ dcur[key[rabd]]]
    /\ rapc' = "loop" /\ rabd' = None
    /\ lock' = RA
    /\ UNCHANGED <<hold, modified, syncq, per, dsize, op, want, bd, waitvars,
                   syncvars, swapvars, rachain, raevent, dcur, lost, calls,
                   racevars, promised>>

-----------------------------------------------------------------------------
(* What a user may begin ... *)
Begin(u) == Call(u) \/ SyncdevLock(u) \/ Purge(u) \/ Resize(u) \/ Peek(u)

(* ... and what goes on once it has, the release of a buffer included. *)
Proceed(u) ==
    \/ Resume(u) \/ FindMiss(u) \/ FindWait(u) \/ FindHit(u)
    \/ RecycleWait(u) \/ RecycleSync(u) \/ RecycleFree(u)
    \/ AccessWait(u) \/ AccessTake(u) \/ AccessRead(u) \/ ReadDone(u)
    \/ ReadError(u)
    \/ Release(u) \/ ReleaseDiscard(u) \/ ReleaseModified(u)
    \/ ReleaseBlocked(u) \/ SyncLocked(u) \/ ReleaseUnblocked(u)
    \/ Sync(u) \/ SyncWait(u) \/ SyncDone(u)
    \/ SyncdevRequest(u) \/ SyncdevReturn(u) \/ ResizeSynced(u)

Swapout == Scan \/ WriteDone("swapout") \/ SyncEnd \/ SwapoutWake
ReadAheadTask == RaWake \/ RaSkip \/ RaRead \/ RaDone

Running == fault = "none" /\ (AfterRace \/ ~raced)
Halted == ~Running /\ UNCHANGED vars

Next ==
    \/ Running /\ \/ \E u \in Users : Begin(u) \/ Proceed(u)
                  \/ Swapout \/ ReadAheadTask
                  \/ \E w \in Workers : WriteDone(w)
    \/ Halted

(* Every task gets to run, drivers finish their transfers, the swap-out     *)
(* period elapses, and a user gives its buffer back.                        *)
Fairness ==
    /\ \A u \in Users : WF_vars(Running /\ Proceed(u))
    /\ WF_vars(Running /\ Swapout) /\ WF_vars(Running /\ ReadAheadTask)
    /\ \A w \in Workers : WF_vars(Running /\ WriteDone(w))

Spec == Init /\ [][Next]_vars /\ Fairness

-----------------------------------------------------------------------------
States == {"FREE", "EMPTY", "CACHED", "MODIFIED"} \cup InAccess \cup InTransfer
UserPC == {"idle", "find", "recycle", "access", "reading", "hold", "sleep",
           "woken", "synclock", "relock", "syncwait", "request", "event",
           "resize"}

TypeOK ==
    /\ lock \in Users \cup {None, RA}
    /\ state \in [Bds -> States] /\ key \in [Bds -> Keys \cup {None}]
    /\ hold \in [Bds -> 0 .. Hold] /\ tree \subseteq Bds
    /\ {lru, modified, syncq} \subseteq Seq(Bds)
    /\ users \in [Groups -> Nat]
    /\ per \in [Groups -> Sizes \cup {MaxPer}] /\ dsize \in [Devices -> Sizes]
    /\ pc \in [Users -> UserPC] /\ bd \in [Users -> Bds \cup {None}]
    /\ op \in [Users -> {None, "get", "read", "syncdev", "resize"}]
    /\ want \in [Users -> Keys \cup Devices \cup {None}]
    /\ cv \in [Users -> {None, "access", "transfer", "buffer"}]
    /\ ret \in [Users -> {None, "find", "access", "recycle", "syncwait"}]
    /\ synclock \in Users \cup {None} /\ sync_device \in Devices \cup {None}
    /\ {sync_active, sdone, upd, raevent, raced, resized} \subseteq BOOLEAN
    /\ wlist \in [Writers -> SUBSET Bds]
    /\ wpc \in [Workers -> {"free", "busy", "lost"}]
    /\ spc \in {"scan", "write", "syncdone", "idle"}
    /\ rachain \subseteq Devices /\ rapc \in {"idle", "loop", "reading"}
    /\ rabd \in Bds \cup {None}
    /\ cur \in [Bds -> BOOLEAN] /\ dcur \in [Keys -> BOOLEAN]
    /\ calls \in 0 .. MaxCalls /\ {promised, lost} \subseteq SUBSET Keys
    /\ fault \in {"none", "STATE_9", "STATE_10", "TREE_RM", "LINK"}

Count(b, s) == Cardinality({i \in DOMAIN s : s[i] = b})
UsesGroup == InAccess \cup InTransfer \cup {"MODIFIED"}

(* The table of states in bdbuf.h: the tree, the list and the group users   *)
(* that belong to each state of a buffer, when nobody has the mutex.        *)
FollowsTable ==
    lock = None =>
        /\ \A b \in Valid :
            /\ b \in tree <=> state[b] # "FREE"
            /\ Count(b, lru) = IF state[b] \in {"FREE", "CACHED"} THEN 1 ELSE 0
            /\ Count(b, modified) = IF state[b] = "MODIFIED" THEN 1 ELSE 0
            /\ Count(b, syncq) = IF state[b] = "SYNC" THEN 1 ELSE 0
        /\ \A g \in Groups : users[g] =
            Cardinality({b \in GroupBds(g, per[g]) : state[b] \in UsesGroup})
            + Cardinality({u \in Users : Asleep(u) /\ bd[u] \in {g} \X (0 .. MaxPer - 1)})

(* As long as no purge hits a directive of another user in the middle the   *)
(* table is right, and the fatal errors of the code do not happen, but for  *)
(* the one when a buffer of the old size that others still had or waited    *)
(* for is found EMPTY after a change of the block size.                     *)
TableUnlessRaced ==
    ~raced => FollowsTable /\ (fault = "none" \/ (resized /\ fault = "STATE_10"))

(* A user with a buffer has it alone, it is the one for the block it asked  *)
(* for, of the device's size, and a second one for that block does not      *)
(* exist.                                                                   *)
Exclusive ==
    ~raced => \A u \in Users : pc[u] \in {"hold", "reading", "synclock", "relock"} =>
        /\ key[bd[u]] = want[u] /\ Search(want[u]) = {bd[u]}
        /\ resized \/ per[bd[u][1]] = dsize[want[u][1]]
        /\ \A v \in Users \ {u} :
            bd[v] = bd[u] => Asleep(v) \/ pc[v] \in {"access", "recycle", "syncwait"}

(* What a user reads is what was last released as modified, unless that was *)
(* discarded before: purged, or lost to a failing write.                    *)
ReadsLatest ==
    ~raced => \A u \in Users :
        pc[u] = "hold" /\ state[bd[u]] \in {"ACCESS_CACHED", "ACCESS_MODIFIED"}
            => cur[bd[u]] \/ want[u] \in lost

(* Modified contents are on the disk or in one buffer that will be written, *)
(* unless a purge discarded them or a write of them failed: the code does   *)
(* not put them back on the modified list, as the comment of                *)
(* rtems_bdbuf_swapout_processing says, it gives them up.                   *)
NothingLost ==
    ~raced => \A k \in Keys : dcur[k] \/ k \in lost \/ \E b \in Search(k) :
        /\ cur[b]
        /\ \/ state[b] \in {"MODIFIED", "SYNC", "ACCESS_MODIFIED"}
           \/ \E w \in Writers : b \in wlist[w]
           \/ \E u \in Users : bd[u] = b /\ pc[u] \in {"synclock", "relock"}

(* When rtems_bdbuf_syncdev is told that it is done, what was modified or   *)
(* in transfer when it began has been written.  Not so, and the caller is   *)
(* not told, if another user took the buffer before it was written, if it   *)
(* was purged, if its write failed, or if a worker had begun to write it    *)
(* and still does: bdbuf.h promises to wait until the transfers have        *)
(* completed, the swap-out task waits for its own only.                     *)
SyncWritten ==
    sdone => \A k \in promised :
        k \in lost \/ \E w \in Workers, b \in Search(k) : b \in wlist[w]

(* Every directive returns: no wake-up is lost and nobody waits for ever.   *)
EveryCallReturns ==
    \A u \in Users : pc[u] # "idle" ~> (pc[u] = "idle" \/ raced \/ fault # "none")
=============================================================================
