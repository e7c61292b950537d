------------------------------ MODULE LockCond ------------------------------
(***************************************************************************)
(* Lock and Condition of threads/synch.cc: a lock, and a condition used     *)
(* with it.  P and V are the indivisible operations of module Semaphores,   *)
(* which Threads implements.  A thread may be preempted after each of them, *)
(* so an action is one P or V with the code around it; code that follows a  *)
(* P is protected by the unit just taken.  The callers are any threads that *)
(* respect the convention of synch.h: Release and Wait by the holder only.  *)
(* Broadcast and Signal are also called without the lock                    *)
(* (userprocess.cc).                                                        *)
(***************************************************************************)
EXTENDS Integers, FiniteSets

CONSTANTS Thread,
          Tid        \* Thread::tid, not unique: each process numbers its own

ASSUME LockAssumption ==
    /\ IsFiniteSet(Thread)
    /\ Tid \in [Thread -> Nat]
    /\ "FREE" \notin Thread

VARIABLES
    pc,              \* the next P or V of the thread
    ret,             \* where its pending Release, Signal or Broadcast returns
    value,           \* values of the four semaphores
    ownerID,         \* Lock::ownerID
    totalSleepers    \* Condition::totalSleepers

lockVars == <<pc, ret, value, ownerID, totalSleepers>>

(* Lock::lock, Lock::innerLock, Condition::innerLock, Condition::sleepLock *)
Sem == {"lock", "lockInner", "condInner", "sleepLock"}

NoOwner == -1

LockInit ==
    /\ pc = [t \in Thread |-> "out"]
    /\ ret = [t \in Thread |-> "out"]
    /\ value = [s \in Sem |-> IF s = "sleepLock" THEN 0 ELSE 1]
    /\ ownerID = NoOwner
    /\ totalSleepers = 0

P(s) == value[s] > 0 /\ value' = [value EXCEPT ![s] = @ - 1]
V(s) == value' = [value EXCEPT ![s] = @ + 1]

Goto(t, from, to) == pc[t] = from /\ pc' = [pc EXCEPT ![t] = to]

-----------------------------------------------------------------------------
(* Lock::Acquire: lock->P, innerLock->P, set the owner, innerLock->V. *)

(* Mistake: Acquire does not wait for the lock. *)
AcquireNoWait(t) ==
    /\ Goto(t, "acquire1", "acquire2")
    /\ UNCHANGED <<ret, value, ownerID, totalSleepers>>

AcquireLock(t) ==
    /\ Goto(t, "acquire1", "acquire2")
    /\ P("lock")
    /\ UNCHANGED <<ret, ownerID, totalSleepers>>

AcquireInner(t) ==
    /\ Goto(t, "acquire2", "acquire3")
    /\ P("lockInner")
    /\ UNCHANGED <<ret, ownerID, totalSleepers>>

(* The ELSE branch gives both units back and returns without the lock; it is *)
(* one step here because OwnerMatches shows that no thread takes it.         *)
AcquireSetOwner(t) ==
    /\ IF ownerID = NoOwner
       THEN /\ Goto(t, "acquire3", "in")
            /\ ownerID' = Tid[t]
            /\ V("lockInner")
       ELSE /\ Goto(t, "acquire3", "in")
            /\ value' = [value EXCEPT !["lock"] = @ + 1, !["lockInner"] = @ + 1]
            /\ UNCHANGED ownerID
    /\ UNCHANGED <<ret, totalSleepers>>

(* Lock::Release: innerLock->P, clear the owner and lock->V, innerLock->V. *)

ReleaseInner(t) ==
    /\ Goto(t, "release1", "release2")
    /\ P("lockInner")
    /\ UNCHANGED <<ret, ownerID, totalSleepers>>

ReleaseClearOwner(t) ==
    /\ IF ownerID = Tid[t]
       THEN /\ Goto(t, "release2", "release3")
            /\ ownerID' = NoOwner
            /\ V("lock")
       ELSE /\ Goto(t, "release2", ret[t])
            /\ V("lockInner")
            /\ UNCHANGED ownerID
    /\ UNCHANGED <<ret, totalSleepers>>

ReleaseReturn(t) ==
    /\ Goto(t, "release3", ret[t])
    /\ V("lockInner")
    /\ UNCHANGED <<ret, ownerID, totalSleepers>>

-----------------------------------------------------------------------------
(* Condition::Wait: count oneself and Release under innerLock, then          *)
(* sleepLock->P and Acquire.                                                 *)

WaitInner(t) ==
    /\ Goto(t, "wait1", "release1")
    /\ P("condInner")
    /\ totalSleepers' = totalSleepers + 1
    /\ ret' = [ret EXCEPT ![t] = "wait2"]
    /\ UNCHANGED ownerID

WaitLeaveInner(t) ==
    /\ Goto(t, "wait2", "wait3")
    /\ V("condInner")
    /\ UNCHANGED <<ret, ownerID, totalSleepers>>

WaitSleep(t) ==
    /\ Goto(t, "wait3", "acquire1")
    /\ P("sleepLock")
    /\ UNCHANGED <<ret, ownerID, totalSleepers>>

(* Condition::Signal *)

SignalInner(t) ==
    /\ Goto(t, "signal1", "signal2")
    /\ P("condInner")
    /\ UNCHANGED <<ret, ownerID, totalSleepers>>

SignalWake(t) ==
    /\ IF totalSleepers > 0
       THEN Goto(t, "signal2", "signal3") /\ V("sleepLock")
       ELSE Goto(t, "signal2", ret[t]) /\ V("condInner")
    /\ UNCHANGED <<ret, ownerID, totalSleepers>>

(* Mistake: Signal does not count the thread it wakes. *)
SignalNoDecrement(t) ==
    /\ Goto(t, "signal3", ret[t])
    /\ V("condInner")
    /\ UNCHANGED <<ret, ownerID, totalSleepers>>

SignalReturn(t) ==
    /\ Goto(t, "signal3", ret[t])
    /\ totalSleepers' = totalSleepers - 1
    /\ V("condInner")
    /\ UNCHANGED <<ret, ownerID>>

(* Condition::Broadcast: at broadcast3 a sleepLock->V has been done whose    *)
(* decrement comes next.                                                     *)

BroadcastInner(t) ==
    /\ Goto(t, "broadcast1", "broadcast2")
    /\ P("condInner")
    /\ UNCHANGED <<ret, ownerID, totalSleepers>>

(* Mistake: Broadcast gives one unit and forgets the other sleepers. *)
BroadcastOnce(t) ==
    /\ pc[t] \in {"broadcast2", "broadcast3"}
    /\ totalSleepers' = IF pc[t] = "broadcast3" THEN 0 ELSE totalSleepers
    /\ IF totalSleepers' > 0
       THEN pc' = [pc EXCEPT ![t] = "broadcast3"] /\ V("sleepLock")
       ELSE pc' = [pc EXCEPT ![t] = ret[t]] /\ V("condInner")
    /\ UNCHANGED <<ret, ownerID>>

BroadcastLoop(t) ==
    /\ pc[t] \in {"broadcast2", "broadcast3"}
    /\ totalSleepers' = IF pc[t] = "broadcast3" THEN totalSleepers - 1 ELSE totalSleepers
    /\ IF totalSleepers' > 0
       THEN pc' = [pc EXCEPT ![t] = "broadcast3"] /\ V("sleepLock")
       ELSE pc' = [pc EXCEPT ![t] = ret[t]] /\ V("condInner")
    /\ UNCHANGED <<ret, ownerID>>

(* The steps a thread inside Lock or Condition code takes by itself. *)
KernelStep(t) ==
    \/ AcquireLock(t) \/ AcquireInner(t) \/ AcquireSetOwner(t)
    \/ ReleaseInner(t) \/ ReleaseClearOwner(t) \/ ReleaseReturn(t)
    \/ WaitInner(t) \/ WaitLeaveInner(t) \/ WaitSleep(t)
    \/ SignalInner(t) \/ SignalWake(t) \/ SignalReturn(t)
    \/ BroadcastInner(t) \/ BroadcastLoop(t)

-----------------------------------------------------------------------------
(* The calls.  "in": the caller holds the lock; "out": it does not. *)

Call(t, from, to) ==
    /\ Goto(t, from, to)
    /\ ret' = [ret EXCEPT ![t] = IF to = "release1" THEN "out" ELSE from]
    /\ UNCHANGED <<value, ownerID, totalSleepers>>

Acquire(t)   == Call(t, "out", "acquire1")
Release(t)   == Call(t, "in", "release1")
Wait(t)      == Call(t, "in", "wait1")
Signal(t)    == \E from \in {"in", "out"} : Call(t, from, "signal1")
Broadcast(t) == \E from \in {"in", "out"} : Call(t, from, "broadcast1")

(* Every thread sleeps and nobody is left to signal: the machine idles. *)
AllAsleep ==
    /\ \A t \in Thread : pc[t] = "wait3"
    /\ value["sleepLock"] = 0
    /\ UNCHANGED lockVars

LockNext ==
    \/ \E t \in Thread : \/ KernelStep(t)
                         \/ Acquire(t) \/ Release(t) \/ Wait(t)
                         \/ Signal(t) \/ Broadcast(t)
    \/ AllAsleep

LockSpec == LockInit /\ [][LockNext]_lockVars

(* The scheduler is fair to each thread inside a Lock or Condition; callers  *)
(* owe nothing.                                                              *)
LockFairSpec == LockSpec /\ \A t \in Thread : WF_lockVars(KernelStep(t))

-----------------------------------------------------------------------------
(* Places in the code. *)

InCondCall(t) == pc[t] \in {"signal1", "signal2", "signal3",
                            "broadcast1", "broadcast2", "broadcast3"}

InRelease(t) == pc[t] \in {"release1", "release2", "release3"}

(* From the end of Acquire to the step of Release that clears ownerID. *)
HoldsLock(t) ==
    \/ pc[t] \in {"in", "wait1", "release1", "release2"}
    \/ InCondCall(t) /\ ret[t] = "in"

(* The threads that Wait has counted and no sleepLock->P has let through. *)
Waiting == {t \in Thread : \/ pc[t] \in {"wait2", "wait3"}
                           \/ InRelease(t) /\ ret[t] = "wait2"}

(* The threads that have given a unit of sleepLock and not yet decremented   *)
(* totalSleepers.                                                            *)
Paying == {t \in Thread : pc[t] \in {"signal3", "broadcast3"}}

LockTypeOK ==
    /\ pc \in [Thread -> {"out", "in", "acquire1", "acquire2", "acquire3",
                          "release1", "release2", "release3", "wait1", "wait2", "wait3",
                          "signal1", "signal2", "signal3",
                          "broadcast1", "broadcast2", "broadcast3"}]
    /\ ret \in [Thread -> {"out", "in", "wait2"}]
    /\ value \in [Sem -> Nat]
    /\ ownerID \in Nat \cup {NoOwner}
    /\ totalSleepers \in Nat

(* Lock::Acquire lets one thread at a time past it. *)
MutualExclusion ==
    \A t, u \in Thread : HoldsLock(t) /\ HoldsLock(u) => t = u

(* The tests of ownerID never fail: Acquire finds it clear, and Release      *)
(* finds the caller's tid although tids are not unique, so neither of them   *)
(* silently does nothing.                                                    *)
OwnerMatches ==
    \A t \in Thread :
        /\ HoldsLock(t) => ownerID = Tid[t]
        /\ pc[t] = "acquire3" => ownerID = NoOwner

(* Every thread inside Wait is either still counted in totalSleepers or has  *)
(* a unit of sleepLock waiting: Signal and Broadcast never pay for a thread  *)
(* twice, nor forget one that has counted itself but does not sleep yet.     *)
SleepersCounted ==
    totalSleepers + value["sleepLock"] = Cardinality(Waiting) + Cardinality(Paying)

-----------------------------------------------------------------------------
(* Strengthenings that make the invariants above inductive. *)

RetOK ==
    \A t \in Thread : /\ InRelease(t) => ret[t] \in {"out", "wait2"}
                      /\ InCondCall(t) => ret[t] \in {"in", "out"}

(* Which threads have taken the unit of a semaphore and not given it back. *)
UsesLock(t) == pc[t] \in {"acquire2", "acquire3"} \/ HoldsLock(t)

UsesLockInner(t) == pc[t] \in {"acquire3", "release2", "release3"}

UsesCondInner(t) ==
    \/ pc[t] \in {"signal2", "signal3", "broadcast2", "broadcast3", "wait2"}
    \/ InRelease(t) /\ ret[t] = "wait2"

(* The unit is in the semaphore, or with exactly one thread. *)
LockUnit ==
    \/ value["lock"] = 1 /\ \A t \in Thread : ~UsesLock(t)
    \/ value["lock"] = 0 /\ \E t \in Thread : UsesLock(t) /\ \A u \in Thread : UsesLock(u) => u = t

LockInnerUnit ==
    \/ value["lockInner"] = 1 /\ \A t \in Thread : ~UsesLockInner(t)
    \/ value["lockInner"] = 0 /\ \E t \in Thread :
           UsesLockInner(t) /\ \A u \in Thread : UsesLockInner(u) => u = t

CondInnerUnit ==
    \/ value["condInner"] = 1 /\ \A t \in Thread : ~UsesCondInner(t)
    \/ value["condInner"] = 0 /\ \E t \in Thread :
           UsesCondInner(t) /\ \A u \in Thread : UsesCondInner(u) => u = t

FreeOK == (\A t \in Thread : ~HoldsLock(t)) => ownerID = NoOwner

(* A unit of sleepLock was given for a sleeper that is still counted. *)
DecrementDue == Paying # {} => totalSleepers > 0

LockInv ==
    /\ LockTypeOK
    /\ RetOK
    /\ LockUnit
    /\ LockInnerUnit
    /\ CondInnerUnit
    /\ OwnerMatches
    /\ FreeOK
    /\ DecrementDue

-----------------------------------------------------------------------------

(* When every thread inside Wait has been paid for, each wakes up, unless    *)
(* another thread begins to wait meanwhile (and may take the unit).          *)
PaidWaitersWake ==
    \A t \in Thread :
        (pc[t] = "wait3" /\ totalSleepers = 0) ~> (pc[t] # "wait3" \/ totalSleepers > 0)

(* synch.h:105, "Broadcast() -- wake up all threads waiting on the           *)
(* condition": a thread that waits when Broadcast runs is woken.  The code   *)
(* does not keep it: a unit goes to the first thread to reach sleepLock.     *)
BroadcastWakesAll ==
    \A t, b \in Thread :
        (pc[b] = "broadcast2" /\ t \in Waiting) ~> (t \notin Waiting)

(* Lock implements Mutex: seen from outside, Acquire and Release are each    *)
(* one indivisible step, and Wait is a Release and later an Acquire.         *)
FreeLock == "FREE"
Holder == IF \E t \in Thread : HoldsLock(t)
          THEN CHOOSE t \in Thread : HoldsLock(t)
          ELSE FreeLock

AbstractLock == INSTANCE Mutex WITH FREE <- FreeLock, holder <- Holder

MutexImplemented == AbstractLock!MutexSpec
=============================================================================
