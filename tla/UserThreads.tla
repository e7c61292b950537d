---------------------------- MODULE UserThreads ----------------------------
(***************************************************************************)
(* The user threads of one address space (userprog/userthread.cc, the      *)
(* thread tables of userprog/addrspace.cc) and the end of the process      *)
(* (do_UserProcessExit).                                                   *)
(*                                                                         *)
(* What a thread does under threadIDLock or threadStackLock is one step:   *)
(* LockCond shows that Lock implements Mutex.  A condition is the pair     *)
(* LockCond found to matter: the sleepers it has counted and the units of  *)
(* its sleepLock.  A Wait counts its caller while it still has the lock,   *)
(* takes a unit later, and has the lock again only after that.             *)
(*                                                                         *)
(* A thread is known by its tid, which no other thread of the space ever   *)
(* gets.  The tables lie in memory one after the other (addrspace.h, built *)
(* for 32 bits): threadConditions, threadStackPointer, nbThreads,          *)
(* maxTIDGiven; a write outside threadStackPointer changes its neighbours. *)
(***************************************************************************)
EXTENDS Integers, FiniteSets, FiniteSetsExt

CONSTANTS
    PageSize,     \* 128 bytes
    StackPages,   \* UserStackSize, in pages: 16 of them
    CodePages,    \* pages of the program's code and data
    MaxTid,       \* bound on the tids given out
    MainExits     \* whether main may call UserThreadExit

(* The macros of addrspace.h, expanded as the compiler does it: they have    *)
(* no parentheses.                                                           *)
UserStackSize == StackPages * PageSize
UserThreadMax == (UserStackSize \div PageSize) * 3
numPages      == CodePages + StackPages

(* Division in C rounds towards zero. *)
CDiv(a, b) == IF a >= 0 THEN a \div b ELSE -((-a) \div b)

(* GetThreadStackPointer: the stack pointer that goes with slot i. *)
StackPointer(i) == numPages * PageSize - 16 - (i + 1) * PageSize * 3

(* RemoveThreadStackPointer: (UserStackSize - sp) / UserThreadStackSize. *)
FreedIndex(stackPointer) == CDiv(UserStackSize - stackPointer, PageSize) * 3

(* Offsets from the start of threadStackPointer, in bytes. *)
NbThreadsAt   == 4 * ((UserThreadMax + 3) \div 4)
MaxTIDGivenAt == NbThreadsAt + 4
LastByteKnown == NbThreadsAt + 11

Slot == 0..(UserThreadMax - 1)
Tid  == 1..MaxTid

(* Frees within the bound touch nothing but the tables named above. *)
ASSUME LayoutAssumption ==
    /\ PageSize \in Nat /\ PageSize > 16
    /\ StackPages \in Nat \ {0} /\ CodePages \in Nat /\ MaxTid \in Nat \ {0}
    /\ MainExits \in BOOLEAN
    /\ \A i \in Slot : i + 2 <= MaxTid =>
          FreedIndex(StackPointer(i)) \in (-4 * UserThreadMax)..LastByteKnown

(* The byte that the exit of a thread clears is not one of nbThreads or of   *)
(* maxTIDGiven.  With the sizes of the code it depends on the program: the   *)
(* eighth stack of a program of eight pages clears nbThreads.                *)
CountersSafe ==
    \A i \in Slot : FreedIndex(StackPointer(i)) \notin {NbThreadsAt, MaxTIDGivenAt}

VARIABLES
    threadIDs, nbThreads, maxTIDGiven,
    threadStackPointer,
    broken,       \* the threadConditions whose pointer was overwritten
    sleepers,     \* Condition::totalSleepers of each condition
    units,        \* value of each condition's sleepLock
    pc,           \* where the thread is
    sp,           \* Thread::sp
    arg,          \* the tid the thread is creating or joining
    stopped       \* why the simulator died, or "no"

tableVars == <<threadIDs, nbThreads, maxTIDGiven>>
stackVars == <<threadStackPointer, broken>>
condVars  == <<sleepers, units>>
userThreadVars == <<tableVars, stackVars, condVars, pc, sp, arg, stopped>>

ExitCond == -1     \* threadExitCond
Cond == Slot \cup {ExitCond}
MainTid == 1

UserThreadsInit ==
    /\ threadIDs = [i \in Slot |-> IF i = 0 THEN MainTid ELSE 0]
    /\ nbThreads = 1
    /\ maxTIDGiven = 1
    /\ threadStackPointer = [i \in Slot |-> FALSE]
    /\ broken = {}
    /\ sleepers = [c \in Cond |-> 0]
    /\ units = [c \in Cond |-> 0]
    /\ pc = [t \in Tid |-> IF t = MainTid THEN "user" ELSE "none"]
    /\ sp = [t \in Tid |-> 0]
    /\ arg = [t \in Tid |-> 0]
    /\ stopped = "no"

-----------------------------------------------------------------------------
(* The tables. *)

Used == 0..(nbThreads - 1)

ContainThreadID(id) == \E i \in Used : threadIDs[i] = id

AddThreadID(id) ==
    IF ContainThreadID(id)
    THEN UNCHANGED <<threadIDs, nbThreads>>
    ELSE /\ threadIDs' = [threadIDs EXCEPT ![nbThreads] = id]
         /\ nbThreads' = nbThreads + 1

(* The array after entry i is removed and the others are shifted. *)
Without(i) ==
    [j \in Slot |-> IF j \in i..(nbThreads - 2) THEN threadIDs[j + 1] ELSE threadIDs[j]]

(* threadConditions[id] can be used. *)
HasCondition(id) == id \in Slot \ broken

(* Mistake: Signal where Broadcast is meant. *)
BroadcastToOne(conds) ==
    LET paid(c) == IF c \in conds /\ sleepers[c] > 0 THEN 1 ELSE 0 IN
    /\ units' = [c \in Cond |-> units[c] + paid(c)]
    /\ sleepers' = [c \in Cond |-> sleepers[c] - paid(c)]

(* Mistake: the thread waiting in Exit is not told. *)
BroadcastNoExit(conds) ==
    /\ units' = [c \in Cond |-> units[c] + IF c \in conds \ {ExitCond} THEN sleepers[c] ELSE 0]
    /\ sleepers' = [c \in Cond |-> IF c \in conds \ {ExitCond} THEN 0 ELSE sleepers[c]]

(* Condition::Broadcast, called with threadIDLock held. *)
Broadcast(conds) ==
    /\ units' = [c \in Cond |-> units[c] + IF c \in conds THEN sleepers[c] ELSE 0]
    /\ sleepers' = [c \in Cond |-> IF c \in conds THEN 0 ELSE sleepers[c]]

Goto(t, from, to) == stopped = "no" /\ pc[t] = from /\ pc' = [pc EXCEPT ![t] = to]

Abort(why) ==
    /\ stopped' = why
    /\ UNCHANGED <<tableVars, stackVars, condVars, sp, arg>>

CondWait(c) ==
    /\ sleepers' = [sleepers EXCEPT ![c] = @ + 1]
    /\ UNCHANGED <<tableVars, stackVars, units, sp, stopped>>

-----------------------------------------------------------------------------
(* do_UserThreadCreate *)

CreateID(t) ==
    LET id == maxTIDGiven + 1 IN
    /\ stopped = "no" /\ pc[t] = "user"
    /\ IF nbThreads + 1 > UserThreadMax
       THEN UNCHANGED userThreadVars                      \* returns -1
       ELSE /\ id \in Tid
            /\ maxTIDGiven' = id
            /\ AddThreadID(id)
            /\ pc' = [pc EXCEPT ![t] = "create", ![id] = "new"]
            /\ arg' = [arg EXCEPT ![t] = id]
            /\ UNCHANGED <<stackVars, condVars, sp, stopped>>

(* The lowest free slot; then the Thread is built and forked. *)
CreateStack(t) ==
    LET free == {i \in Slot : ~threadStackPointer[i]} IN
    /\ stopped = "no" /\ pc[t] = "create"
    /\ IF free = {}
       THEN Abort("no slot") /\ UNCHANGED pc              \* ASSERT(FALSE)
       ELSE /\ threadStackPointer' = [threadStackPointer EXCEPT ![Min(free)] = TRUE]
            /\ sp' = [sp EXCEPT ![arg[t]] = StackPointer(Min(free))]
            /\ pc' = [pc EXCEPT ![t] = "user", ![arg[t]] = "user"]
            /\ arg' = [arg EXCEPT ![t] = 0]
            /\ UNCHANGED <<tableVars, broken, condVars, stopped>>

(* do_UserThreadExit, first half: RemoveThreadID and its two broadcasts. *)
ExitID(t) ==
    LET found == {i \in Used : threadIDs[i] = t} IN
    /\ t = MainTid => MainExits
    /\ Goto(t, "user", "exiting")
    /\ IF found = {}
       THEN UNCHANGED <<tableVars, stackVars, condVars, sp, arg, stopped>>
       ELSE IF HasCondition(t)
       THEN /\ threadIDs' = Without(Min(found))
            /\ nbThreads' = nbThreads - 1
            /\ Broadcast({t, ExitCond})
            /\ UNCHANGED <<maxTIDGiven, stackVars, sp, arg, stopped>>
       ELSE Abort("no condition")

(* Writing FALSE, a zero byte, at threadStackPointer[i]. *)
ClearByte(i) ==
    /\ threadStackPointer' = [j \in Slot |-> j # i /\ threadStackPointer[j]]
    /\ broken' = IF i < 0 THEN broken \cup {(4 * UserThreadMax + i) \div 4} ELSE broken
    /\ nbThreads' = IF i = NbThreadsAt THEN nbThreads - (nbThreads % 256) ELSE nbThreads
    /\ maxTIDGiven' = IF i = MaxTIDGivenAt THEN maxTIDGiven - (maxTIDGiven % 256)
                      ELSE maxTIDGiven

(* do_UserThreadExit, second half: RemoveThreadStackPointer, then Finish. *)
ExitStack(t) ==
    /\ Goto(t, "exiting", "dead")
    /\ ClearByte(FreedIndex(sp[t]))
    /\ UNCHANGED <<threadIDs, condVars, sp, arg, stopped>>

-----------------------------------------------------------------------------
(* do_UserThreadJoin *)

JoinCall(t, id) ==
    /\ stopped = "no" /\ pc[t] = "user"
    /\ id # t /\ ContainThreadID(id)                       \* else it returns -1
    /\ IF HasCondition(id)
       THEN /\ CondWait(id)
            /\ pc' = [pc EXCEPT ![t] = "join"]
            /\ arg' = [arg EXCEPT ![t] = id]
       ELSE Abort("no condition") /\ UNCHANGED pc

(* Wait of join and of exit: sleepLock->P. *)
Wake(t, c) ==
    /\ \/ c = arg[t] /\ Goto(t, "join", "join woken")
       \/ c = ExitCond /\ Goto(t, "exit", "exit woken")
    /\ units[c] > 0
    /\ units' = [units EXCEPT ![c] = @ - 1]
    /\ UNCHANGED <<tableVars, stackVars, sleepers, sp, arg, stopped>>

(* Wait returns with the lock: the loop tests again. *)
JoinTest(t) ==
    IF ContainThreadID(arg[t])
    THEN /\ Goto(t, "join woken", "join")
         /\ IF HasCondition(arg[t])
            THEN CondWait(arg[t]) /\ UNCHANGED arg
            ELSE Abort("no condition")
    ELSE /\ Goto(t, "join woken", "user")
         /\ arg' = [arg EXCEPT ![t] = 0]
         /\ UNCHANGED <<tableVars, stackVars, condVars, sp, stopped>>

(* Mistake: off by one in the test. *)
ExitTestOffByOne(t) ==
    \E from \in {"user", "exit woken"} :
        IF nbThreads > 2
        THEN Goto(t, from, "exit") /\ CondWait(ExitCond) /\ UNCHANGED arg
        ELSE /\ Goto(t, from, "exited")
             /\ UNCHANGED <<tableVars, stackVars, condVars, sp, arg, stopped>>

(* do_UserProcessExit, up to the process count: at the call and each time    *)
(* Wait returns.                                                             *)
ExitTest(t) ==
    \E from \in {"user", "exit woken"} :
        IF nbThreads > 1
        THEN Goto(t, from, "exit") /\ CondWait(ExitCond) /\ UNCHANGED arg
        ELSE /\ Goto(t, from, "exited")
             /\ UNCHANGED <<tableVars, stackVars, condVars, sp, arg, stopped>>

-----------------------------------------------------------------------------
UserThreadsNext ==
    \E t \in Tid : \/ CreateID(t)
                   \/ CreateStack(t)
                   \/ ExitID(t)
                   \/ ExitStack(t)
                   \/ \E id \in Tid : JoinCall(t, id)
                   \/ \E c \in Cond : Wake(t, c)
                   \/ JoinTest(t)
                   \/ ExitTest(t)

UserThreadsSpec == UserThreadsInit /\ [][UserThreadsNext]_userThreadVars

(* A thread inside a system call goes on with it when it can. *)
InCall(t) ==
    \/ CreateStack(t) \/ ExitStack(t) \/ JoinTest(t)
    \/ \E c \in Cond : Wake(t, c)
    \/ pc[t] = "exit woken" /\ ExitTest(t)

UserThreadsFairSpec ==
    UserThreadsSpec /\ \A t \in Tid : WF_userThreadVars(InCall(t))

-----------------------------------------------------------------------------

(* From the creation of its tid until it gives the tid back. *)
Living(t) == pc[t] \notin {"none", "exiting", "dead"}

(* userprocess.cc:63, "Exit when only the main thread is remaining": the     *)
(* thread that ends the process is the only one alive.                       *)
ExitIsLast ==
    \A t, u \in Tid : pc[t] = "exited" /\ Living(u) => u = t

(* A join returns once the thread has given its tid back: the broadcast of   *)
(* RemoveThreadID reaches every joiner, asleep already or not.               *)
JoinReturns ==
    \A t, u \in Tid :
        (pc[t] = "join" /\ arg[t] = u /\ ~Living(u)) ~> (pc[t] = "user" \/ stopped # "no")

(* The process ends once the thread that called Exit is alone. *)
ExitReturns ==
    \A t \in Tid :
        (pc[t] = "exit" /\ nbThreads = 1) ~> (pc[t] = "exited" \/ stopped # "no")

-----------------------------------------------------------------------------
(* userthread.cc:73, "Remove the stack pointer of this thread": a slot is    *)
(* marked as long as its thread lives, so no two threads share a stack.      *)
NoSharedStack ==
    \A t, u \in Tid :
        {pc[t], pc[u]} \cap {"none", "new", "exiting", "dead"} = {} /\ sp[t] = sp[u] => t = u

(* addrspace.cc:311, "Notify the Halt/Exit/Join function that a thread       *)
(* exited": the condition that RemoveThreadID notifies exists.  The code     *)
(* does not keep it: a tid may be larger than the array of conditions.       *)
ConditionFound == stopped # "no condition"
=============================================================================
