--------------------------- MODULE Monitor_proofs ---------------------------
(***************************************************************************)
(* Proofs of the safety of Lock and Condition, and of SynchList, which is  *)
(* a monitor built on them, for any number of threads and items.           *)
(*                                                                         *)
(* A step of SynchList is a step of Lock and Condition, or none at all, so *)
(* LockInv carries over; OpOK and TestedEmpty tie what a thread is doing   *)
(* to the list to where it is inside the lock.                             *)
(***************************************************************************)
EXTENDS SynchList, FiniteSetTheorems, TLAPS

-----------------------------------------------------------------------------
(* Lock and Condition. *)

LEMMA InitLock == LockInit => LockInv
BY LockAssumption DEF LockInit, LockInv, LockTypeOK, RetOK, LockUnit, LockInnerUnit,
   CondInnerUnit, OwnerMatches, FreeOK, DecrementDue, Paying, UsesLock, UsesLockInner,
   UsesCondInner, HoldsLock, InRelease, InCondCall, Sem, NoOwner

LEMMA NextLock == LockInv /\ [LockNext]_lockVars => LockInv'
<1> SUFFICES ASSUME LockInv, [LockNext]_lockVars PROVE LockInv'
  OBVIOUS
<1> USE LockAssumption DEF LockInv, LockTypeOK, RetOK, LockUnit, LockInnerUnit,
   CondInnerUnit, OwnerMatches, FreeOK, DecrementDue, Paying, UsesLock, UsesLockInner,
   UsesCondInner, HoldsLock, InRelease, InCondCall, Sem, NoOwner, P, V, Goto
<1>1. ASSUME NEW t \in Thread, AcquireLock(t) PROVE LockInv'
  BY <1>1 DEF AcquireLock
<1>2. ASSUME NEW t \in Thread, AcquireInner(t) PROVE LockInv'
  BY <1>2 DEF AcquireInner
<1>3. ASSUME NEW t \in Thread, AcquireSetOwner(t) PROVE LockInv'
  BY <1>3 DEF AcquireSetOwner
<1>4. ASSUME NEW t \in Thread, ReleaseInner(t) PROVE LockInv'
  BY <1>4 DEF ReleaseInner
<1>5. ASSUME NEW t \in Thread, ReleaseClearOwner(t) PROVE LockInv'
  BY <1>5 DEF ReleaseClearOwner
<1>6. ASSUME NEW t \in Thread, ReleaseReturn(t) PROVE LockInv'
  BY <1>6 DEF ReleaseReturn
<1>7. ASSUME NEW t \in Thread, WaitInner(t) PROVE LockInv'
  BY <1>7 DEF WaitInner
<1>8. ASSUME NEW t \in Thread, WaitLeaveInner(t) PROVE LockInv'
  BY <1>8 DEF WaitLeaveInner
<1>9. ASSUME NEW t \in Thread, WaitSleep(t) PROVE LockInv'
  BY <1>9 DEF WaitSleep
<1>10. ASSUME NEW t \in Thread, SignalInner(t) PROVE LockInv'
  BY <1>10 DEF SignalInner
<1>11. ASSUME NEW t \in Thread, SignalWake(t) PROVE LockInv'
  BY <1>11 DEF SignalWake
<1>12. ASSUME NEW t \in Thread, SignalReturn(t) PROVE LockInv'
  BY <1>12 DEF SignalReturn
<1>13. ASSUME NEW t \in Thread, BroadcastInner(t) PROVE LockInv'
  BY <1>13 DEF BroadcastInner
<1>14. ASSUME NEW t \in Thread, BroadcastLoop(t) PROVE LockInv'
  BY <1>14 DEF BroadcastLoop
<1>15. ASSUME NEW t \in Thread, Acquire(t) \/ Release(t) \/ Wait(t) PROVE LockInv'
  BY <1>15 DEF Acquire, Release, Wait, Call
<1>16. ASSUME NEW t \in Thread, Signal(t) \/ Broadcast(t) PROVE LockInv'
  <2>1. PICK from \in {"in", "out"} : Call(t, from, "signal1") \/ Call(t, from, "broadcast1")
    BY <1>16 DEF Signal, Broadcast
  <2>2. CASE from = "in"
    BY <2>1, <2>2 DEF Call
  <2>3. CASE from = "out"
    BY <2>1, <2>3 DEF Call
  <2> QED BY <2>1, <2>2, <2>3
<1>17. CASE AllAsleep \/ UNCHANGED lockVars
  BY <1>17 DEF AllAsleep, lockVars
<1> QED
  BY <1>1, <1>2, <1>3, <1>4, <1>5, <1>6, <1>7, <1>8, <1>9, <1>10, <1>11, <1>12, <1>13,
     <1>14, <1>15, <1>16, <1>17 DEF LockNext, KernelStep

(* One thread at a time holds the lock, and ownerID always names it. *)
THEOREM LockSafe == LockSpec => [](LockTypeOK /\ MutualExclusion /\ OwnerMatches)
<1>1. LockInv => LockTypeOK /\ MutualExclusion /\ OwnerMatches
  <2> SUFFICES ASSUME LockInv PROVE MutualExclusion
    BY DEF LockInv
  <2>1. \A t \in Thread : HoldsLock(t) => UsesLock(t)
    BY DEF UsesLock
  <2> QED BY <2>1 DEF LockInv, LockUnit, MutualExclusion
<1> QED BY <1>1, InitLock, NextLock, PTL DEF LockSpec

-----------------------------------------------------------------------------
(* Sleepers and units of sleepLock. *)

LEMMA SetsFinite ==
    /\ IsFiniteSet(Waiting) /\ Cardinality(Waiting) \in Nat
    /\ IsFiniteSet(Paying) /\ Cardinality(Paying) \in Nat
<1>1. Waiting \subseteq Thread /\ Paying \subseteq Thread
  BY DEF Waiting, Paying
<1> QED BY <1>1, LockAssumption, FS_Subset, FS_CardinalityType

LEMMA InitCounted == LockInit => SleepersCounted
<1> SUFFICES ASSUME LockInit PROVE SleepersCounted
  OBVIOUS
<1>1. Waiting = {} /\ Paying = {}
  BY DEF LockInit, Waiting, Paying, InRelease
<1> QED BY <1>1, FS_EmptySet DEF LockInit, SleepersCounted, Sem

(* Steps that leave both sides of the equation alone. *)
LEMMA CountedUnchanged ==
    ASSUME SleepersCounted, Waiting' = Waiting, Paying' = Paying,
           totalSleepers' = totalSleepers, value'["sleepLock"] = value["sleepLock"]
    PROVE  SleepersCounted'
BY DEF SleepersCounted

LEMMA NextCounted == LockInv /\ SleepersCounted /\ [LockNext]_lockVars => SleepersCounted'
<1> SUFFICES ASSUME LockInv, SleepersCounted, [LockNext]_lockVars PROVE SleepersCounted'
  OBVIOUS
<1>0. /\ totalSleepers \in Nat /\ value["sleepLock"] \in Nat
      /\ totalSleepers + value["sleepLock"] = Cardinality(Waiting) + Cardinality(Paying)
  BY DEF LockInv, LockTypeOK, Sem, SleepersCounted
<1>1. ASSUME NEW t \in Thread,
             \/ AcquireLock(t) \/ AcquireInner(t) \/ AcquireSetOwner(t)
             \/ ReleaseInner(t) \/ ReleaseClearOwner(t) \/ ReleaseReturn(t)
      PROVE  SleepersCounted'
  <2> USE <1>1 DEF AcquireLock, AcquireInner, AcquireSetOwner, ReleaseInner,
      ReleaseClearOwner, ReleaseReturn, Goto, P, V, LockInv, LockTypeOK, RetOK, InRelease, Sem
  <2>1. Waiting' = Waiting
    BY DEF Waiting
  <2>2. Paying' = Paying
    BY DEF Paying
  <2>3. totalSleepers' = totalSleepers /\ value'["sleepLock"] = value["sleepLock"]
    OBVIOUS
  <2> QED BY <2>1, <2>2, <2>3, CountedUnchanged
<1>2. ASSUME NEW t \in Thread, WaitInner(t) PROVE SleepersCounted'
  <2> USE <1>2 DEF WaitInner, Goto, P, LockInv, LockTypeOK, InRelease, Sem
  <2>1. Waiting' = Waiting \cup {t} /\ t \notin Waiting
    BY DEF Waiting
  <2>2. Paying' = Paying
    BY DEF Paying
  <2>3. totalSleepers' = totalSleepers + 1 /\ value'["sleepLock"] = value["sleepLock"]
    OBVIOUS
  <2>4. Cardinality(Waiting') = Cardinality(Waiting) + 1
    BY <2>1, SetsFinite, FS_AddElement
  <2> QED BY <1>0, <2>2, <2>3, <2>4, SetsFinite DEF SleepersCounted
<1>3. ASSUME NEW t \in Thread, WaitSleep(t) PROVE SleepersCounted'
  <2> USE <1>3 DEF WaitSleep, Goto, P, LockInv, LockTypeOK, InRelease, Sem
  <2>1. Waiting' = Waiting \ {t} /\ t \in Waiting
    BY DEF Waiting
  <2>2. Paying' = Paying
    BY DEF Paying
  <2>3. totalSleepers' = totalSleepers /\ value'["sleepLock"] = value["sleepLock"] - 1
    OBVIOUS
  <2>4. Cardinality(Waiting') = Cardinality(Waiting) - 1
    BY <2>1, SetsFinite, FS_RemoveElement
  <2> QED BY <1>0, <2>2, <2>3, <2>4, SetsFinite DEF SleepersCounted
<1>4. ASSUME NEW t \in Thread, \/ WaitLeaveInner(t) \/ SignalInner(t) \/ BroadcastInner(t)
                               \/ Acquire(t) \/ Release(t) \/ Wait(t)
      PROVE  SleepersCounted'
  <2> USE <1>4 DEF WaitLeaveInner, SignalInner, BroadcastInner, Acquire, Release, Wait, Call,
      Goto, P, V, LockInv, LockTypeOK, InRelease, Sem
  <2>1. Waiting' = Waiting
    BY DEF Waiting
  <2>2. Paying' = Paying
    BY DEF Paying
  <2>3. totalSleepers' = totalSleepers /\ value'["sleepLock"] = value["sleepLock"]
    OBVIOUS
  <2> QED BY <2>1, <2>2, <2>3, CountedUnchanged
<1>5. ASSUME NEW t \in Thread, NEW from \in {"in", "out"},
             NEW to \in {"signal1", "broadcast1"}, Call(t, from, to)
      PROVE  SleepersCounted'
  <2> USE <1>5 DEF Call, Goto, LockInv, LockTypeOK, InRelease
  <2>1. Waiting' = Waiting
    BY DEF Waiting
  <2>2. Paying' = Paying
    BY DEF Paying
  <2> QED BY <2>1, <2>2, CountedUnchanged
<1>6. ASSUME NEW t \in Thread, SignalWake(t) \/ BroadcastLoop(t) \/ SignalReturn(t)
      PROVE  SleepersCounted'
  <2>1. /\ pc[t] \in {"signal2", "signal3", "broadcast2", "broadcast3"}
        /\ pc'[t] \in {"signal3", "broadcast3", "in", "out"}
        /\ \A u \in Thread \ {t} : pc'[u] = pc[u]
        /\ ret' = ret
    BY <1>6 DEF SignalWake, BroadcastLoop, SignalReturn, Goto, LockInv, LockTypeOK, RetOK, InCondCall
  <2>2. Waiting' = Waiting
    BY <2>1 DEF Waiting, InRelease
  <2>3. CASE pc[t] \in {"signal2", "broadcast2"} /\ pc'[t] \in {"signal3", "broadcast3"}
    <3>1. Paying' = Paying \cup {t} /\ t \notin Paying
      BY <2>1, <2>3 DEF Paying
    <3>2. Cardinality(Paying') = Cardinality(Paying) + 1
      BY <3>1, SetsFinite, FS_AddElement
    <3>3. totalSleepers' = totalSleepers /\ value'["sleepLock"] = value["sleepLock"] + 1
      BY <1>6, <2>3 DEF SignalWake, BroadcastLoop, SignalReturn, Goto, V, LockInv, LockTypeOK,
         Sem, RetOK, InCondCall
    <3> QED BY <1>0, <2>2, <3>2, <3>3, SetsFinite DEF SleepersCounted
  <2>4. CASE pc[t] \in {"signal2", "broadcast2"} /\ pc'[t] \in {"in", "out"}
    <3>1. Paying' = Paying
      BY <2>1, <2>4 DEF Paying
    <3>2. totalSleepers' = totalSleepers /\ value'["sleepLock"] = value["sleepLock"]
      BY <1>6, <2>4 DEF SignalWake, BroadcastLoop, SignalReturn, Goto, V, LockInv, LockTypeOK, Sem
    <3> QED BY <2>2, <3>1, <3>2, CountedUnchanged
  <2>5. CASE pc[t] \in {"signal3", "broadcast3"} /\ pc'[t] \in {"signal3", "broadcast3"}
    <3>1. Paying' = Paying
      BY <2>1, <2>5 DEF Paying
    <3>2. /\ totalSleepers' = totalSleepers - 1
          /\ value'["sleepLock"] = value["sleepLock"] + 1
      BY <1>6, <2>5 DEF SignalWake, BroadcastLoop, SignalReturn, Goto, V, LockInv, LockTypeOK,
         Sem, RetOK, InCondCall
    <3> QED BY <1>0, <2>2, <3>1, <3>2, SetsFinite DEF SleepersCounted
  <2>6. CASE pc[t] \in {"signal3", "broadcast3"} /\ pc'[t] \in {"in", "out"}
    <3>1. Paying' = Paying \ {t} /\ t \in Paying
      BY <2>1, <2>6 DEF Paying
    <3>2. Cardinality(Paying') = Cardinality(Paying) - 1
      BY <3>1, SetsFinite, FS_RemoveElement
    <3>3. totalSleepers' = totalSleepers - 1 /\ value'["sleepLock"] = value["sleepLock"]
      BY <1>6, <2>6 DEF SignalWake, BroadcastLoop, SignalReturn, Goto, V, LockInv, LockTypeOK, Sem
    <3> QED BY <1>0, <2>2, <3>2, <3>3, SetsFinite DEF SleepersCounted
  <2> QED BY <2>1, <2>3, <2>4, <2>5, <2>6
<1>7. CASE AllAsleep \/ UNCHANGED lockVars
  <2>1. UNCHANGED lockVars
    BY <1>7 DEF AllAsleep
  <2> QED BY <2>1, CountedUnchanged DEF lockVars, Waiting, Paying, InRelease
<1> QED
  BY <1>1, <1>2, <1>3, <1>4, <1>5, <1>6, <1>7 DEF LockNext, KernelStep, Signal, Broadcast

(* No Signal or Broadcast pays for a sleeper twice or forgets one. *)
THEOREM SleepersAlwaysCounted == LockSpec => []SleepersCounted
<1>1. LockInit => LockInv /\ SleepersCounted
  BY InitLock, InitCounted
<1>2. LockInv /\ SleepersCounted /\ [LockNext]_lockVars => (LockInv /\ SleepersCounted)'
  BY NextLock, NextCounted
<1> QED BY <1>1, <1>2, PTL DEF LockSpec

-----------------------------------------------------------------------------
(* Lock implements Mutex. *)

LEMMA HolderLemma ==
    ASSUME LockInv
    PROVE  /\ \A t \in Thread : HoldsLock(t) => Holder = t
           /\ (\A t \in Thread : ~HoldsLock(t)) => Holder = "FREE"
<1>1. \A t, u \in Thread : HoldsLock(t) /\ HoldsLock(u) => t = u
  BY DEF LockInv, LockUnit, UsesLock
<1>2. ASSUME NEW t \in Thread, HoldsLock(t) PROVE Holder = t
  <2>1. Holder = CHOOSE u \in Thread : HoldsLock(u)
    BY <1>2 DEF Holder
  <2>2. HoldsLock(CHOOSE u \in Thread : HoldsLock(u)) /\ (CHOOSE u \in Thread : HoldsLock(u)) \in Thread
    BY <1>2
  <2> QED BY <1>1, <1>2, <2>1, <2>2
<1> QED BY <1>2 DEF Holder, FreeLock

LEMMA HolderLemmaPrime ==
    ASSUME LockInv'
    PROVE  /\ \A t \in Thread : HoldsLock(t)' => Holder' = t
           /\ (\A t \in Thread : ~HoldsLock(t)') => Holder' = "FREE"
<1>1. \A t, u \in Thread : HoldsLock(t)' /\ HoldsLock(u)' => t = u
  BY DEF LockInv, LockUnit, UsesLock
<1>2. ASSUME NEW t \in Thread, HoldsLock(t)' PROVE Holder' = t
  <2>1. Holder' = CHOOSE u \in Thread : HoldsLock(u)'
    BY <1>2 DEF Holder
  <2>2. /\ (CHOOSE u \in Thread : HoldsLock(u)') \in Thread
        /\ \E u \in Thread : HoldsLock(u)' /\ u = CHOOSE v \in Thread : HoldsLock(v)'
    BY <1>2
  <2> QED BY <1>1, <1>2, <2>1, <2>2
<1> QED BY <1>2 DEF Holder, FreeLock

(* The lock changes hands only where ownerID is set and cleared. *)
LEMMA NextMutex == LockInv /\ [LockNext]_lockVars => [AbstractLock!MutexNext]_Holder
<1> SUFFICES ASSUME LockInv, [LockNext]_lockVars PROVE [AbstractLock!MutexNext]_Holder
  OBVIOUS
<1>0. LockInv'
  BY NextLock
<1>1. ASSUME NEW t \in Thread, AcquireSetOwner(t) PROVE AbstractLock!MutexNext
  <2>1. \A u \in Thread : ~HoldsLock(u)
    BY <1>1 DEF AcquireSetOwner, Goto, LockInv, LockUnit, UsesLock, HoldsLock, InCondCall
  <2>2. HoldsLock(t)'
    BY <1>1 DEF AcquireSetOwner, Goto, HoldsLock, LockInv, LockTypeOK
  <2>3. Holder = "FREE" /\ Holder' = t
    BY <1>0, <2>1, <2>2, HolderLemma, HolderLemmaPrime
  <2>4. AbstractLock!MutexAcquire(t)
    BY <2>3 DEF AbstractLock!MutexAcquire, FreeLock
  <2> QED BY <2>4 DEF AbstractLock!MutexNext
<1>2. ASSUME NEW t \in Thread, ReleaseClearOwner(t) PROVE AbstractLock!MutexNext
  <2>1. HoldsLock(t)
    BY <1>2 DEF ReleaseClearOwner, Goto, HoldsLock
  <2>2. \A u \in Thread : HoldsLock(u) => u = t
    BY <2>1 DEF LockInv, LockUnit, UsesLock
  <2>3. ownerID = Tid[t]
    BY <2>1 DEF LockInv, OwnerMatches
  <2>4. \A u \in Thread : ~HoldsLock(u)'
    BY <1>2, <2>2, <2>3 DEF ReleaseClearOwner, Goto, HoldsLock, InCondCall, LockInv, LockTypeOK
  <2>5. Holder = t /\ Holder' = "FREE"
    BY <1>0, <2>1, <2>4, HolderLemma, HolderLemmaPrime
  <2>6. AbstractLock!MutexRelease(t)
    BY <2>5 DEF AbstractLock!MutexRelease, FreeLock
  <2> QED BY <2>6 DEF AbstractLock!MutexNext
<1>3. ASSUME \A u \in Thread : HoldsLock(u)' <=> HoldsLock(u) PROVE UNCHANGED Holder
  <2>1. CASE \E t \in Thread : HoldsLock(t)
    BY <1>0, <1>3, <2>1, HolderLemma, HolderLemmaPrime
  <2>2. CASE \A t \in Thread : ~HoldsLock(t)
    BY <1>0, <1>3, <2>2, HolderLemma, HolderLemmaPrime
  <2> QED BY <2>1, <2>2
<1>4. ASSUME NEW t \in Thread,
             \/ AcquireLock(t) \/ AcquireInner(t) \/ ReleaseInner(t) \/ ReleaseReturn(t)
             \/ WaitInner(t) \/ WaitLeaveInner(t) \/ WaitSleep(t)
             \/ Acquire(t) \/ Release(t) \/ Wait(t)
      PROVE  \A u \in Thread : HoldsLock(u)' <=> HoldsLock(u)
  BY <1>4 DEF AcquireLock, AcquireInner, ReleaseInner, ReleaseReturn, WaitInner,
     WaitLeaveInner, WaitSleep, Acquire, Release, Wait, Call, Goto, HoldsLock, InCondCall,
     InRelease, LockInv, LockTypeOK, RetOK
<1>5. ASSUME NEW t \in Thread,
             \/ SignalInner(t) \/ SignalWake(t) \/ SignalReturn(t)
             \/ BroadcastInner(t) \/ BroadcastLoop(t)
      PROVE  \A u \in Thread : HoldsLock(u)' <=> HoldsLock(u)
  BY <1>5 DEF SignalInner, SignalWake, SignalReturn, BroadcastInner, BroadcastLoop, Goto,
     HoldsLock, InCondCall, LockInv, LockTypeOK, RetOK
<1>6. ASSUME NEW t \in Thread, NEW from \in {"in", "out"},
             NEW to \in {"signal1", "broadcast1"}, Call(t, from, to)
      PROVE  \A u \in Thread : HoldsLock(u)' <=> HoldsLock(u)
  BY <1>6 DEF Call, Goto, HoldsLock, InCondCall, LockInv, LockTypeOK
<1>7. ASSUME AllAsleep \/ UNCHANGED lockVars
      PROVE  \A u \in Thread : HoldsLock(u)' <=> HoldsLock(u)
  BY <1>7 DEF AllAsleep, lockVars, HoldsLock, InCondCall
<1> QED
  BY <1>1, <1>2, <1>3, <1>4, <1>5, <1>6, <1>7 DEF LockNext, KernelStep, Signal, Broadcast

(* Seen from outside, Acquire and Release are each one indivisible step. *)
THEOREM LockImplementsMutex == LockSpec => MutexImplemented
<1>1. LockInit => Holder = "FREE"
  BY DEF LockInit, Holder, HoldsLock, InCondCall, FreeLock
<1>2. LockInit => AbstractLock!MutexInit
  BY <1>1 DEF AbstractLock!MutexInit, FreeLock
<1> QED BY <1>2, InitLock, NextLock, NextMutex, PTL
        DEF LockSpec, MutexImplemented, AbstractLock!MutexSpec

-----------------------------------------------------------------------------
(* The synchronised list. *)

Acquiring(t) == pc[t] \in {"acquire1", "acquire2", "acquire3"}

ListTypeOK ==
    /\ list \in Seq(Item)
    /\ op \in [Thread -> {"none", "append", "appended", "remove", "mapcar"}]
    /\ item \in [Thread -> Item \cup {NULL}]

(* Where a thread can be in each operation. *)
OpOK ==
    \A t \in Thread :
        /\ op[t] = "none" => pc[t] = "out" \/ (InRelease(t) /\ ret[t] = "out")
        /\ op[t] \in {"append", "mapcar"} => Acquiring(t) \/ pc[t] = "in"
        /\ op[t] = "appended" =>
               \/ pc[t] = "in"
               \/ pc[t] \in {"signal1", "signal2", "signal3"} /\ ret[t] = "in"
        /\ op[t] = "remove" =>
               Acquiring(t) \/ pc[t] \in {"in", "wait1"} \/ t \in Waiting

(* A consumer that is about to count itself in Wait has kept the lock since  *)
(* it found the list empty, so the list is still empty.                      *)
TestedEmpty == \A t \in Thread : pc[t] = "wait1" => list = <<>>

ListInv == LockInv /\ ListTypeOK /\ OpOK /\ TestedEmpty

-----------------------------------------------------------------------------
(* SynchList uses the lock and the condition as LockCond expects. *)

LEMMA ListStepIsLockStep == [SynchListNext]_synchListVars => [LockNext]_lockVars
<1> SUFFICES ASSUME [SynchListNext]_synchListVars PROVE [LockNext]_lockVars
  OBVIOUS
<1>1. ASSUME NEW t \in Thread, KernelStep(t) PROVE LockNext
  BY <1>1 DEF LockNext
<1>2. ASSUME NEW t \in Thread, AppendCall(t) \/ RemoveCall(t) \/ MapcarCall(t) PROVE LockNext
  BY <1>2 DEF AppendCall, RemoveCall, MapcarCall, Enter, LockNext
<1>3. ASSUME NEW t \in Thread, AppendBody(t) PROVE LockNext
  BY <1>3 DEF AppendBody, Signal, LockNext
<1>4. ASSUME NEW t \in Thread, AppendReturn(t) \/ MapcarBody(t) PROVE LockNext
  BY <1>4 DEF AppendReturn, MapcarBody, Leave, LockNext
<1>5. ASSUME NEW t \in Thread, RemoveBody(t) PROVE LockNext
  BY <1>5 DEF RemoveBody, Leave, LockNext
<1>6. CASE AllAsleep
  BY <1>6 DEF LockNext
<1>7. CASE UNCHANGED synchListVars
  BY <1>7 DEF synchListVars
<1> QED
  BY <1>1, <1>2, <1>3, <1>4, <1>5, <1>6, <1>7 DEF SynchListNext

(* SynchList is one of the callers that LockCond allows for: what is proved  *)
(* of the lock and the condition holds inside Append, Remove and Mapcar.     *)
THEOREM SynchListUsesLock == SynchListSpec => LockSpec
<1>1. SynchListInit => LockInit
  BY DEF SynchListInit
<1> QED BY <1>1, ListStepIsLockStep, PTL DEF SynchListSpec, LockSpec

LEMMA NextListType == ListTypeOK /\ [SynchListNext]_synchListVars => ListTypeOK'
<1> SUFFICES ASSUME ListTypeOK, [SynchListNext]_synchListVars PROVE ListTypeOK'
  OBVIOUS
<1>1. ASSUME UNCHANGED listVars PROVE ListTypeOK'
  BY <1>1 DEF listVars, ListTypeOK
<1>2. ASSUME NEW t \in Thread, AppendCall(t) \/ RemoveCall(t) \/ MapcarCall(t) PROVE ListTypeOK'
  BY <1>2 DEF AppendCall, RemoveCall, MapcarCall, Enter, ListTypeOK
<1>3. ASSUME NEW t \in Thread, AppendBody(t) PROVE ListTypeOK'
  BY <1>3 DEF AppendBody, ListTypeOK
<1>4. ASSUME NEW t \in Thread, AppendReturn(t) \/ MapcarBody(t) PROVE ListTypeOK'
  BY <1>4 DEF AppendReturn, MapcarBody, Leave, ListTypeOK
<1>5. ASSUME NEW t \in Thread, RemoveBody(t) PROVE ListTypeOK'
  <2>1. CASE list = <<>>
    BY <1>1, <1>5, <2>1 DEF RemoveBody
  <2>2. CASE list # <<>>
    BY <1>5, <2>2 DEF RemoveBody, Leave, Removed, Rest, ListTypeOK
  <2> QED BY <2>1, <2>2
<1>6. CASE UNCHANGED synchListVars
  BY <1>1, <1>6 DEF synchListVars
<1> QED
  BY <1>1, <1>2, <1>3, <1>4, <1>5, <1>6 DEF SynchListNext

LEMMA InitList == SynchListInit => ListInv
<1> SUFFICES ASSUME SynchListInit PROVE ListInv
  OBVIOUS
<1>1. LockInv
  BY InitLock DEF SynchListInit
<1>2. ListTypeOK
  BY DEF SynchListInit, ListTypeOK
<1>3. OpOK /\ TestedEmpty
  BY DEF SynchListInit, LockInit, OpOK, TestedEmpty
<1> QED BY <1>1, <1>2, <1>3 DEF ListInv

(* What a thread does inside Lock and Condition keeps it within the places   *)
(* of its operation.                                                         *)
LEMMA KernelKeepsOp ==
    ASSUME ListInv, NEW t \in Thread, KernelStep(t), UNCHANGED listVars
    PROVE  OpOK' /\ TestedEmpty'
<1> USE DEF ListInv, LockInv, LockTypeOK, RetOK, Goto, InRelease, InCondCall, listVars
<1>1. /\ op' = op /\ list' = list
      /\ \A u \in Thread \ {t} : pc'[u] = pc[u] /\ ret'[u] = ret[u]
      /\ pc'[t] # "wait1"
  BY DEF KernelStep, AcquireLock, AcquireInner, AcquireSetOwner, ReleaseInner,
     ReleaseClearOwner, ReleaseReturn, WaitInner, WaitLeaveInner, WaitSleep, SignalInner,
     SignalWake, SignalReturn, BroadcastInner, BroadcastLoop
<1>2. CASE AcquireLock(t) \/ AcquireInner(t) \/ AcquireSetOwner(t)
  BY <1>1, <1>2 DEF AcquireLock, AcquireInner, AcquireSetOwner, OpOK, TestedEmpty, Acquiring,
     Waiting
<1>3. CASE ReleaseInner(t) \/ ReleaseClearOwner(t) \/ ReleaseReturn(t)
  BY <1>1, <1>3 DEF ReleaseInner, ReleaseClearOwner, ReleaseReturn, OpOK, TestedEmpty,
     Acquiring, Waiting
<1>4. CASE WaitInner(t) \/ WaitLeaveInner(t) \/ WaitSleep(t)
  BY <1>1, <1>4 DEF WaitInner, WaitLeaveInner, WaitSleep, OpOK, TestedEmpty, Acquiring, Waiting
<1>5. CASE SignalInner(t) \/ SignalWake(t) \/ SignalReturn(t)
  BY <1>1, <1>5 DEF SignalInner, SignalWake, SignalReturn, OpOK, TestedEmpty, Acquiring, Waiting
<1>6. CASE BroadcastInner(t) \/ BroadcastLoop(t)
  BY <1>6 DEF BroadcastInner, BroadcastLoop, OpOK, Acquiring, Waiting, ListTypeOK
<1> QED
  BY <1>2, <1>3, <1>4, <1>5, <1>6 DEF KernelStep

LEMMA NextList == ListInv /\ [SynchListNext]_synchListVars => ListInv'
<1> SUFFICES ASSUME ListInv, [SynchListNext]_synchListVars PROVE OpOK' /\ TestedEmpty'
  BY ListStepIsLockStep, NextLock, NextListType DEF ListInv
<1>1. \A t, u \in Thread : pc[t] = "in" /\ pc[u] = "wait1" => FALSE
  BY DEF ListInv, LockInv, LockUnit, UsesLock, HoldsLock
<1> USE DEF ListInv, LockInv, LockTypeOK, ListTypeOK, Call, Goto, InRelease
<1>2. ASSUME NEW t \in Thread, AppendCall(t) \/ RemoveCall(t) \/ MapcarCall(t)
      PROVE  OpOK' /\ TestedEmpty'
  BY <1>2 DEF AppendCall, RemoveCall, MapcarCall, Enter, Acquire, OpOK, TestedEmpty,
     Acquiring, Waiting
<1>3. ASSUME NEW t \in Thread, AppendBody(t) PROVE OpOK' /\ TestedEmpty'
  BY <1>1, <1>3 DEF AppendBody, OpOK, TestedEmpty, Acquiring, Waiting
<1>4. ASSUME NEW t \in Thread, AppendReturn(t) \/ MapcarBody(t) PROVE OpOK' /\ TestedEmpty'
  BY <1>4 DEF AppendReturn, MapcarBody, Leave, Release, OpOK, TestedEmpty, Acquiring, Waiting
<1>5. ASSUME NEW t \in Thread, RemoveBody(t) PROVE OpOK' /\ TestedEmpty'
  <2>1. CASE list = <<>>
    BY <1>5, <2>1 DEF RemoveBody, Wait, listVars, OpOK, TestedEmpty, Acquiring, Waiting
  <2>2. CASE list # <<>>
    BY <1>5, <2>2 DEF RemoveBody, Leave, Release, OpOK, TestedEmpty, Acquiring, Waiting
  <2> QED BY <2>1, <2>2
<1>6. CASE UNCHANGED synchListVars \/ (AllAsleep /\ UNCHANGED listVars)
  BY <1>6 DEF synchListVars, AllAsleep, lockVars, listVars, OpOK, TestedEmpty, Acquiring, Waiting
<1> QED
  BY <1>2, <1>3, <1>4, <1>5, <1>6, KernelKeepsOp DEF SynchListNext

(* ASSERT (item != NULL) of Remove never fails: whatever woke the consumer,  *)
(* it tests the list again before it takes the head of it.                   *)
THEOREM RemoveGetsItemProved == SynchListSpec => RemoveGetsItem
<1>1. ASSUME ListTypeOK, [SynchListNext]_synchListVars, NEW t \in Thread,
             op[t] = "remove", op'[t] = "none"
      PROVE  item'[t] # NULL
  <2> USE DEF ListTypeOK
  <2>1. PICK u \in Thread : \/ AppendCall(u) \/ AppendBody(u) \/ AppendReturn(u)
                            \/ RemoveCall(u) \/ RemoveBody(u)
                            \/ MapcarCall(u) \/ MapcarBody(u)
    BY <1>1 DEF SynchListNext, synchListVars, listVars
  <2>2. RemoveBody(u) /\ u = t /\ list # <<>>
    BY <1>1, <2>1 DEF AppendCall, AppendBody, AppendReturn, RemoveCall, RemoveBody, MapcarCall,
       MapcarBody, Enter, Leave, listVars
  <2>3. item'[t] = Head(list)
    BY <1>1, <2>2 DEF RemoveBody, Removed
  <2> QED BY <1>1, <2>2, <2>3, ItemAssumption
<1>2. ListTypeOK /\ [SynchListNext]_synchListVars
          => [\A t \in Thread : op[t] = "remove" /\ op'[t] = "none" => item'[t] # NULL]_listVars
  BY <1>1
<1>3. SynchListInit => ListTypeOK
  BY DEF SynchListInit, ListTypeOK
<1> QED
  BY <1>2, <1>3, NextListType, PTL DEF SynchListSpec, RemoveGetsItem

-----------------------------------------------------------------------------
(* Items and their takers. *)

LEMMA TakersFinite ==
    /\ IsFiniteSet(Consumers) /\ Cardinality(Consumers) \in Nat
    /\ IsFiniteSet(Signalling) /\ Cardinality(Signalling) \in Nat
<1>1. Consumers \subseteq Thread /\ Signalling \subseteq Thread
  BY DEF Consumers, Signalling
<1> QED BY <1>1, LockAssumption, FS_Subset, FS_CardinalityType

(* Signal turns a signalling thread into one that pays for a sleeper. *)
LEMMA OneWoken ==
    ASSUME ItemsHaveTakers, list' = list, Len(list) \in Nat,
           totalSleepers \in Nat, totalSleepers' = totalSleepers,
           value["sleepLock"] \in Nat, value'["sleepLock"] = value["sleepLock"] + 1,
           Consumers' = Consumers,
           Cardinality(Signalling') = Cardinality(Signalling) - 1,
           Cardinality(Paying') = Cardinality(Paying) + 1
    PROVE  ItemsHaveTakers'
<1>1. PICK c \in Nat : c = Cardinality(Consumers)
  BY TakersFinite
<1>2. PICK g \in Nat : g = Cardinality(Signalling)
  BY TakersFinite
<1>3. PICK p \in Nat : p = Cardinality(Paying)
  BY SetsFinite
<1>4. PICK n \in Nat : n = Len(list)
  OBVIOUS
<1>5. PICK v \in Nat : v = value["sleepLock"]
  OBVIOUS
<1>6. PICK w \in Nat : w = totalSleepers
  OBVIOUS
<1>7. w > p => n <= c + v + g
  BY <1>1, <1>2, <1>3, <1>4, <1>5, <1>6 DEF ItemsHaveTakers
<1>8. w > p + 1 => n <= c + (v + 1) + (g - 1)
  BY <1>7
<1>9. ItemsHaveTakers' <=> (w > p + 1 => n <= c + (v + 1) + (g - 1))
  BY <1>1, <1>2, <1>3, <1>4, <1>5, <1>6 DEF ItemsHaveTakers
<1> QED BY <1>8, <1>9

LEMMA InitTakers == SynchListInit => ItemsHaveTakers
<1> SUFFICES ASSUME SynchListInit PROVE ItemsHaveTakers
  OBVIOUS
<1>1. totalSleepers = 0 /\ Cardinality(Paying) \in Nat
  BY SetsFinite DEF SynchListInit, LockInit
<1> QED BY <1>1 DEF ItemsHaveTakers

(* With an empty list there is nothing to take. *)
LEMMA NoItems ==
    ASSUME LockInv', list' = <<>>
    PROVE  ItemsHaveTakers'
<1>1. value'["sleepLock"] \in Nat
  BY DEF LockInv, LockTypeOK, Sem
<1>2. Cardinality(Consumers') \in Nat /\ Cardinality(Signalling') \in Nat
  <2>1. Consumers' \subseteq Thread /\ Signalling' \subseteq Thread
    BY DEF Consumers, Signalling
  <2> QED BY <2>1, LockAssumption, FS_Subset, FS_CardinalityType
<1> QED BY <1>1, <1>2 DEF ItemsHaveTakers

(* Steps that leave all of it alone. *)
LEMMA TakersUnchanged ==
    ASSUME ItemsHaveTakers, list' = list, totalSleepers' = totalSleepers, Paying' = Paying,
           value'["sleepLock"] = value["sleepLock"], Consumers' = Consumers,
           Signalling' = Signalling
    PROVE  ItemsHaveTakers'
BY DEF ItemsHaveTakers

LEMMA KernelKeepsTakers ==
    ASSUME ListInv, LockInv', ItemsHaveTakers, NEW t \in Thread, KernelStep(t),
           UNCHANGED listVars
    PROVE  ItemsHaveTakers'
<1>0. /\ totalSleepers \in Nat /\ value["sleepLock"] \in Nat /\ Len(list) \in Nat
      /\ list' = list /\ op' = op
  BY DEF ListInv, LockInv, LockTypeOK, ListTypeOK, Sem, listVars
<1>1. ASSUME \/ AcquireLock(t) \/ AcquireInner(t) \/ AcquireSetOwner(t)
             \/ ReleaseInner(t) \/ ReleaseClearOwner(t) \/ ReleaseReturn(t)
             \/ WaitLeaveInner(t) \/ SignalInner(t)
      PROVE  ItemsHaveTakers'
  <2> USE <1>1 DEF AcquireLock, AcquireInner, AcquireSetOwner, ReleaseInner,
      ReleaseClearOwner, ReleaseReturn, WaitLeaveInner, SignalInner, Goto, P, V, ListInv,
      LockInv, LockTypeOK, RetOK, InRelease, Sem
  <2>1. Waiting' = Waiting
    BY DEF Waiting
  <2>2. Paying' = Paying
    BY DEF Paying
  <2>3. totalSleepers' = totalSleepers /\ value'["sleepLock"] = value["sleepLock"]
    OBVIOUS
  <2>4. Consumers' = Consumers
    BY <1>0, <2>1 DEF Consumers
  <2>5. Signalling' = Signalling
    BY <1>0 DEF Signalling
  <2> QED BY <1>0, <2>2, <2>3, <2>4, <2>5, TakersUnchanged
<1>2. ASSUME WaitInner(t) PROVE ItemsHaveTakers'
  <2>1. list' = <<>>
    BY <1>0, <1>2 DEF WaitInner, Goto, ListInv, TestedEmpty
  <2> QED BY <2>1, NoItems
<1>3. ASSUME WaitSleep(t) PROVE ItemsHaveTakers'
  <2> USE <1>3 DEF WaitSleep, Goto, P, ListInv, LockInv, LockTypeOK, InRelease, Sem
  <2>1. t \in Waiting /\ Waiting' = Waiting \ {t}
    BY DEF Waiting
  <2>2. op[t] = "remove"
    BY DEF OpOK, ListTypeOK, Acquiring
  <2>3. Consumers' = Consumers \cup {t} /\ t \notin Consumers
    BY <1>0, <2>1, <2>2 DEF Consumers
  <2>4. Paying' = Paying /\ Signalling' = Signalling
    BY <1>0 DEF Paying, Signalling
  <2>5. totalSleepers' = totalSleepers /\ value'["sleepLock"] = value["sleepLock"] - 1
    OBVIOUS
  <2>6. Cardinality(Consumers') = Cardinality(Consumers) + 1
    BY <2>3, TakersFinite, FS_AddElement
  <2> QED BY <1>0, <2>4, <2>5, <2>6, TakersFinite DEF ItemsHaveTakers
<1>4. ASSUME SignalWake(t) PROVE ItemsHaveTakers'
  <2> USE <1>4 DEF SignalWake, Goto, V, ListInv, LockInv, LockTypeOK, RetOK, InCondCall, Sem
  <2>1. pc[t] = "signal2" /\ op[t] = "appended" /\ ret[t] = "in"
    BY DEF OpOK, ListTypeOK, Acquiring, InRelease, Waiting
  <2>2. CASE totalSleepers > 0
    <3>1. Waiting' = Waiting
      BY <2>1, <2>2 DEF Waiting, InRelease
    <3>2. Consumers' = Consumers
      BY <1>0, <2>1, <2>2, <3>1 DEF Consumers
    <3>3. Signalling' = Signalling \ {t} /\ t \in Signalling
      BY <1>0, <2>1, <2>2 DEF Signalling
    <3>4. Paying' = Paying \cup {t} /\ t \notin Paying
      BY <2>1, <2>2 DEF Paying
    <3>5. totalSleepers' = totalSleepers /\ value'["sleepLock"] = value["sleepLock"] + 1
      BY <2>2
    <3>6. Cardinality(Signalling') = Cardinality(Signalling) - 1
      BY <3>3, TakersFinite, FS_RemoveElement
    <3>7. Cardinality(Paying') = Cardinality(Paying) + 1
      BY <3>4, SetsFinite, FS_AddElement
    <3>8. list' = list /\ Len(list) \in Nat /\ totalSleepers \in Nat
      BY <1>0 DEF ListTypeOK, listVars
    <3>9. value["sleepLock"] \in Nat
      OBVIOUS
    <3> QED BY <3>2, <3>5, <3>6, <3>7, <3>8, <3>9, OneWoken
  <2>3. CASE ~(totalSleepers > 0)
    <3>1. totalSleepers' = 0
      BY <1>0, <2>3
    <3>2. Cardinality(Paying') \in Nat
      <4>1. Paying' \subseteq Thread
        BY DEF Paying
      <4> QED BY <4>1, LockAssumption, FS_Subset, FS_CardinalityType
    <3> QED BY <3>1, <3>2 DEF ItemsHaveTakers
  <2> QED BY <2>2, <2>3
<1>5. ASSUME SignalReturn(t) PROVE ItemsHaveTakers'
  <2> USE <1>5 DEF SignalReturn, Goto, V, ListInv, LockInv, LockTypeOK, RetOK, InCondCall, Sem
  <2>1. pc[t] = "signal3" /\ op[t] = "appended" /\ ret[t] = "in"
    BY DEF OpOK, ListTypeOK, Acquiring, InRelease, Waiting
  <2>2. Waiting' = Waiting
    BY <2>1 DEF Waiting, InRelease
  <2>3. Consumers' = Consumers /\ Signalling' = Signalling
    BY <1>0, <2>1, <2>2 DEF Consumers, Signalling
  <2>4. Paying' = Paying \ {t} /\ t \in Paying
    BY <2>1 DEF Paying
  <2>5. Cardinality(Paying') = Cardinality(Paying) - 1
    BY <2>4, SetsFinite, FS_RemoveElement
  <2>6. totalSleepers' = totalSleepers - 1 /\ value'["sleepLock"] = value["sleepLock"]
    OBVIOUS
  <2> QED BY <1>0, <2>3, <2>5, <2>6, TakersFinite, SetsFinite DEF ItemsHaveTakers
<1>6. ~BroadcastInner(t) /\ ~BroadcastLoop(t)
  BY DEF BroadcastInner, BroadcastLoop, Goto, ListInv, ListTypeOK, OpOK, Acquiring, InRelease,
     Waiting
<1> QED
  BY <1>1, <1>2, <1>3, <1>4, <1>5, <1>6 DEF KernelStep

LEMMA NextTakers ==
    ListInv /\ ItemsHaveTakers /\ [SynchListNext]_synchListVars => ItemsHaveTakers'
<1> SUFFICES ASSUME ListInv, ItemsHaveTakers, [SynchListNext]_synchListVars
             PROVE  ItemsHaveTakers'
  OBVIOUS
<1>0. /\ LockInv'
      /\ totalSleepers \in Nat /\ value["sleepLock"] \in Nat
      /\ list \in Seq(Item) /\ Len(list) \in Nat
  BY ListStepIsLockStep, NextLock DEF ListInv, LockInv, LockTypeOK, ListTypeOK, Sem
<1>1. ASSUME NEW t \in Thread, NEW from, NEW to \in {"acquire1", "signal1", "release1"},
             Call(t, from, to), from \in {"in", "out"}
      PROVE  /\ totalSleepers' = totalSleepers /\ value' = value
             /\ Paying' = Paying
             /\ \A u \in Thread \ {t} : pc'[u] = pc[u] /\ (u \in Waiting' <=> u \in Waiting)
             /\ t \notin Waiting /\ t \notin Waiting'
             /\ pc[t] = from /\ pc'[t] = to
  BY <1>1 DEF Call, Goto, Paying, Waiting, InRelease, ListInv, LockInv, LockTypeOK
<1>2. ASSUME NEW t \in Thread, AppendCall(t) \/ RemoveCall(t) \/ MapcarCall(t)
      PROVE  ItemsHaveTakers'
  <2>1. /\ Call(t, "out", "acquire1") /\ op[t] = "none" /\ list' = list
        /\ \E o \in {"append", "remove", "mapcar"} : op' = [op EXCEPT ![t] = o]
    BY <1>2 DEF AppendCall, RemoveCall, MapcarCall, Enter, Acquire
  <2>2. Signalling' = Signalling
    BY <1>1, <2>1 DEF Signalling, ListInv, ListTypeOK
  <2>3. Consumers \subseteq Consumers'
    BY <1>1, <2>1 DEF Consumers, ListInv, ListTypeOK
  <2>4. Cardinality(Consumers) <= Cardinality(Consumers') /\ Cardinality(Consumers') \in Nat
    <3>1. Consumers' \subseteq Thread
      BY DEF Consumers
    <3> QED BY <2>3, <3>1, LockAssumption, FS_Subset, FS_CardinalityType
  <2> QED BY <1>0, <1>1, <2>1, <2>2, <2>4, TakersFinite DEF ItemsHaveTakers
<1>3. ASSUME NEW t \in Thread, AppendBody(t) PROVE ItemsHaveTakers'
  <2>1. /\ Call(t, "in", "signal1") /\ op[t] = "append" /\ op' = [op EXCEPT ![t] = "appended"]
        /\ \E i \in Item : list' = Append(list, i)
    BY <1>3 DEF AppendBody
  <2>2. Signalling' = Signalling \cup {t} /\ t \notin Signalling
    BY <1>1, <2>1 DEF Signalling, ListInv, ListTypeOK
  <2>3. Consumers' = Consumers
    BY <1>1, <2>1 DEF Consumers, ListInv, ListTypeOK
  <2>4. Cardinality(Signalling') = Cardinality(Signalling) + 1
    BY <2>2, TakersFinite, FS_AddElement
  <2>5. Len(list') = Len(list) + 1
    BY <1>0, <2>1
  <2>6. value' = value /\ totalSleepers' = totalSleepers /\ Paying' = Paying
    BY <1>1, <2>1
  <2> QED BY <1>0, <2>3, <2>4, <2>5, <2>6, TakersFinite DEF ItemsHaveTakers
<1>4. ASSUME NEW t \in Thread, AppendReturn(t) \/ MapcarBody(t) PROVE ItemsHaveTakers'
  <2>1. /\ Call(t, "in", "release1") /\ op[t] \in {"appended", "mapcar"} /\ list' = list
        /\ op' = [op EXCEPT ![t] = "none"]
    BY <1>4 DEF AppendReturn, MapcarBody, Leave, Release
  <2>2. Signalling' = Signalling /\ Consumers' = Consumers
    BY <1>1, <2>1 DEF Signalling, Consumers, ListInv, ListTypeOK
  <2> QED BY <1>1, <2>1, <2>2, TakersUnchanged
<1>5. ASSUME NEW t \in Thread, RemoveBody(t) PROVE ItemsHaveTakers'
  <2>1. CASE list = <<>>
    BY <1>0, <1>5, <2>1, NoItems DEF RemoveBody, listVars
  <2>2. CASE list # <<>>
    <3>1. /\ Call(t, "in", "release1") /\ op[t] = "remove" /\ list' = Tail(list)
          /\ op' = [op EXCEPT ![t] = "none"]
      BY <1>5, <2>2 DEF RemoveBody, Leave, Release, Rest
    <3>2. Signalling' = Signalling
      BY <1>1, <3>1 DEF Signalling, ListInv, ListTypeOK
    <3>3. Consumers' = Consumers \ {t} /\ t \in Consumers
      BY <1>1, <3>1 DEF Consumers, ListInv, ListTypeOK
    <3>4. Cardinality(Consumers') = Cardinality(Consumers) - 1
      BY <3>3, TakersFinite, FS_RemoveElement
    <3>5. Len(list') = Len(list) - 1
      BY <1>0, <2>2, <3>1
    <3>6. value' = value /\ totalSleepers' = totalSleepers /\ Paying' = Paying
      BY <1>1, <3>1
    <3> QED BY <1>0, <3>2, <3>4, <3>5, <3>6, TakersFinite DEF ItemsHaveTakers
  <2> QED BY <2>1, <2>2
<1>6. CASE UNCHANGED synchListVars \/ (AllAsleep /\ UNCHANGED listVars)
  BY <1>6, TakersUnchanged DEF synchListVars, AllAsleep, lockVars, listVars, Paying, Waiting,
     Consumers, Signalling, InRelease
<1> QED
  BY <1>0, <1>2, <1>3, <1>4, <1>5, <1>6, KernelKeepsTakers DEF SynchListNext

(* No item is forgotten while a consumer sleeps, however Append falls        *)
(* between a consumer's test of the list and its sleep.                      *)
THEOREM ItemsHaveTakersProved == SynchListSpec => []ItemsHaveTakers
<1> QED
  BY InitList, InitTakers, NextList, NextTakers, PTL DEF SynchListSpec
=============================================================================
