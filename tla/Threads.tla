------------------------------ MODULE Threads ------------------------------
(***************************************************************************)
(* Kernel threads, the scheduler and semaphores of NachOS                  *)
(* (threads/thread.cc, scheduler.cc, list.cc, synch.cc), with the part of  *)
(* machine/interrupt.cc that decides when a thread loses the CPU.          *)
(*                                                                         *)
(* The machine has one processor.  A step of the running thread is the     *)
(* code from one point where interrupts are enabled to the next one; the   *)
(* code that runs with interrupts off is cut at SWITCH, where it goes on   *)
(* in another thread.  The program of a thread is arbitrary: whenever it   *)
(* runs with interrupts on it may call any operation.                      *)
(***************************************************************************)
EXTENDS Naturals, FiniteSets, Sequences, SequencesExt

CONSTANTS
    Thread,        \* addresses of Thread objects; an address may be reused
    Main,          \* the thread that Initialize builds
    NULL,
    Sem,           \* semaphores
    DeviceSem,     \* those that interrupt handlers signal
    InitialValue,  \* Semaphore::Semaphore's initialValue
    Space,         \* address spaces
    MaxValue       \* bound on value plus the interrupts still to come

ASSUME ThreadAssumption ==
    /\ IsFiniteSet(Thread)
    /\ Main \in Thread
    /\ NULL \notin Thread \cup Sem \cup Space

ASSUME SemAssumption ==
    /\ DeviceSem \subseteq Sem
    /\ MaxValue \in Nat
    /\ InitialValue \in [Sem -> 0..MaxValue]

VARIABLES
    status,               \* Thread::status; NONE: no object at this address
    currentThread,
    readyList,            \* Scheduler::readyList
    threadToBeDestroyed,
    value,                \* Semaphore::value
    queue,                \* Semaphore::queue
    waiting,              \* the semaphore whose P the thread is inside, or NULL
    level,                \* Interrupt::level
    mode,                 \* Interrupt::status; Halted after Interrupt::Halt
    pending,              \* Interrupt::pending, the device interrupts per semaphore
    space,                \* Thread::space
    userRegs,             \* Thread::userRegisters: whose user computation they hold
    machineRegs,          \* machine->registers: whose user computation they hold
    pageTable,            \* machine->pageTable: the space it was built for
    spaceTable            \* AddrSpace::pageTable: the space it was built for

schedVars == <<status, currentThread, readyList, threadToBeDestroyed>>
semVars   == <<value, queue, waiting>>
intVars   == <<level, mode, pending>>
userVars  == <<space, userRegs, machineRegs, pageTable, spaceTable>>
vars      == <<schedVars, semVars, intVars, userVars>>

-----------------------------------------------------------------------------
(* Initialize: the main thread runs, interrupts are on, nothing is queued. *)

Init ==
    /\ status = [t \in Thread |-> IF t = Main THEN "RUNNING" ELSE "NONE"]
    /\ currentThread = Main
    /\ readyList = <<>>
    /\ threadToBeDestroyed = NULL
    /\ value = InitialValue
    /\ queue = [s \in Sem |-> <<>>]
    /\ waiting = [t \in Thread |-> NULL]
    /\ level = "IntOn"
    /\ mode = "SystemMode"
    /\ pending = [s \in DeviceSem |-> 0]
    /\ space = [t \in Thread |-> NULL]
    /\ userRegs = [t \in Thread |-> t]
    /\ machineRegs = NULL
    /\ pageTable = NULL
    /\ spaceTable = [sp \in Space |-> sp]

(* The running thread executes its own code, interrupts on. *)
Running == mode = "SystemMode" /\ level = "IntOn"

(* The current thread is in the loop of Thread::Sleep. *)
Sleeping == mode # "Halted" /\ level = "IntOff" /\ status[currentThread] # "RUNNING"

Outstanding(s) == IF s \in DeviceSem THEN pending[s] ELSE 0

-----------------------------------------------------------------------------
(* Life cycle of a thread. *)

(* new Thread; for a process its creator also gives it an address space. *)
NewThread(t, sp) ==
    /\ Running
    /\ status[t] = "NONE"
    /\ status' = [status EXCEPT ![t] = "JUST_CREATED"]
    /\ space' = [space EXCEPT ![t] = sp]
    /\ userRegs' = [userRegs EXCEPT ![t] = t]
    /\ UNCHANGED <<currentThread, readyList, threadToBeDestroyed, semVars,
                   intVars, machineRegs, pageTable, spaceTable>>

(* Thread::Fork.  "share" is params->NeedsToSetSpace(); kernel threads pass *)
(* an argument that is no ThreadParams, so for them it is either value.     *)
Fork(t, share) ==
    /\ Running
    /\ status[t] = "JUST_CREATED"
    /\ space' = [space EXCEPT ![t] = IF share THEN space[currentThread] ELSE @]
    /\ status' = [status EXCEPT ![t] = "READY"]
    /\ readyList' = Append(readyList, t)
    /\ UNCHANGED <<currentThread, threadToBeDestroyed, semVars, intVars,
                   userRegs, machineRegs, pageTable, spaceTable>>

(* StartProcess: the running kernel thread loads a program. *)
StartProcess(sp) ==
    /\ Running
    /\ space[currentThread] = NULL
    /\ space' = [space EXCEPT ![currentThread] = sp]
    /\ machineRegs' = currentThread
    /\ pageTable' = spaceTable[sp]
    /\ UNCHANGED <<schedVars, semVars, intVars, userRegs, spaceTable>>

(* Mistake: the registers are saved once currentThread is the next thread. *)
SaveUserStateLate ==
    IF space[currentThread] # NULL
    THEN /\ userRegs' = [userRegs EXCEPT ![Head(readyList)] = machineRegs]
         /\ spaceTable' = [spaceTable EXCEPT ![space[currentThread]] = pageTable]
    ELSE UNCHANGED <<userRegs, spaceTable>>

(* The first half of Scheduler::Run, up to SWITCH. *)
SaveUserState ==
    IF space[currentThread] # NULL
    THEN /\ userRegs' = [userRegs EXCEPT ![currentThread] = machineRegs]
         /\ spaceTable' = [spaceTable EXCEPT ![space[currentThread]] = pageTable]
    ELSE UNCHANGED <<userRegs, spaceTable>>

(* Mistake: the thread that yields goes to the front of the list. *)
YieldToFront ==
    /\ Running
    /\ readyList # <<>>
    /\ readyList' = <<currentThread>> \o Tail(readyList)
    /\ status' = [status EXCEPT ![currentThread] = "READY",
                                ![Head(readyList)] = "RUNNING"]
    /\ currentThread' = Head(readyList)
    /\ level' = "IntOff"
    /\ SaveUserState
    /\ UNCHANGED <<threadToBeDestroyed, semVars, mode, pending, space,
                   machineRegs, pageTable>>

(* Thread::Yield, called by the thread or by OneTick for the timer. *)
Yield ==
    /\ Running
    /\ readyList # <<>>
    /\ readyList' = Append(Tail(readyList), currentThread)
    /\ status' = [status EXCEPT ![currentThread] = "READY",
                                ![Head(readyList)] = "RUNNING"]
    /\ currentThread' = Head(readyList)
    /\ level' = "IntOff"
    /\ SaveUserState
    /\ UNCHANGED <<threadToBeDestroyed, semVars, mode, pending, space,
                   machineRegs, pageTable>>

(* Thread::Finish, up to the loop of Sleep. *)
Finish ==
    /\ Running
    /\ threadToBeDestroyed' = currentThread
    /\ status' = [status EXCEPT ![currentThread] = "BLOCKED"]
    /\ level' = "IntOff"
    /\ UNCHANGED <<currentThread, readyList, semVars, mode, pending, userVars>>

(* Thread::Sleep finds a thread to run: FindNextToRun, then Run up to SWITCH. *)
Dispatch ==
    /\ Sleeping
    /\ readyList # <<>>
    /\ readyList' = Tail(readyList)
    /\ status' = [status EXCEPT ![Head(readyList)] = "RUNNING"]
    /\ currentThread' = Head(readyList)
    /\ mode' = "SystemMode"
    /\ SaveUserState
    /\ UNCHANGED <<threadToBeDestroyed, semVars, level, pending, space,
                   machineRegs, pageTable>>

(* Mistake: a unit is taken when there is none. *)
TakeAnyway(s) ==
    /\ value' = [value EXCEPT ![s] = @ - 1]
    /\ waiting' = [waiting EXCEPT ![currentThread] = NULL]
    /\ level' = "IntOn"
    /\ UNCHANGED queue

(* Test of P's loop, at the call and each time Sleep returns: take a unit and *)
(* go on with interrupts on, or queue up and sleep.                           *)
TakeOrSleep(s) ==
    \/ /\ value[s] > 0
       /\ value' = [value EXCEPT ![s] = @ - 1]
       /\ waiting' = [waiting EXCEPT ![currentThread] = NULL]
       /\ level' = "IntOn"
       /\ UNCHANGED queue
    \/ /\ value[s] = 0
       /\ queue' = [queue EXCEPT ![s] = Append(@, currentThread)]
       /\ waiting' = [waiting EXCEPT ![currentThread] = s]
       /\ level' = "IntOff"
       /\ UNCHANGED value

Asleep(s) == IF value[s] = 0 THEN {currentThread} ELSE {}

(* What the thread that gets the CPU runs after SWITCH: the end of Run, or   *)
(* SetupThreadState when it starts; then the end of Yield or the loop of P.  *)
AfterSwitch ==
    LET s     == waiting[currentThread]
        blocks == IF s = NULL THEN {} ELSE Asleep(s)
    IN
    /\ mode = "SystemMode" /\ level = "IntOff"
    /\ status[currentThread] = "RUNNING"
    /\ status' = [t \in Thread |->
                    CASE t = threadToBeDestroyed -> "NONE"
                      [] t \in blocks            -> "BLOCKED"
                      [] OTHER                   -> status[t]]
    /\ threadToBeDestroyed' = NULL
    /\ IF space[currentThread] # NULL
       THEN /\ machineRegs' = userRegs[currentThread]
            /\ pageTable' = spaceTable[space[currentThread]]
       ELSE UNCHANGED <<machineRegs, pageTable>>
    /\ IF s = NULL
       THEN level' = "IntOn" /\ UNCHANGED semVars
       ELSE TakeOrSleep(s)
    /\ UNCHANGED <<currentThread, readyList, mode, pending, space, userRegs, spaceTable>>

-----------------------------------------------------------------------------
(* Semaphores. *)

P(s) ==
    /\ Running
    /\ TakeOrSleep(s)
    /\ status' = [status EXCEPT ![currentThread] =
                    IF value[s] = 0 THEN "BLOCKED" ELSE @]
    /\ UNCHANGED <<currentThread, readyList, threadToBeDestroyed, mode,
                   pending, userVars>>

(* Mistake: V wakes a waiter only when it finds the value at zero. *)
SignalFromZero(s) ==
    /\ value' = [value EXCEPT ![s] = @ + 1]
    /\ IF queue[s] # <<>> /\ value[s] = 0
       THEN /\ queue' = [queue EXCEPT ![s] = Tail(@)]
            /\ status' = [status EXCEPT ![Head(queue[s])] = "READY"]
            /\ readyList' = Append(readyList, Head(queue[s]))
       ELSE UNCHANGED <<queue, status, readyList>>
    /\ UNCHANGED <<currentThread, threadToBeDestroyed, waiting, userVars>>

(* Mistake: the thread that V wakes stays in the queue. *)
SignalKeepsQueue(s) ==
    /\ value' = [value EXCEPT ![s] = @ + 1]
    /\ IF queue[s] # <<>>
       THEN /\ status' = [status EXCEPT ![Head(queue[s])] = "READY"]
            /\ readyList' = Append(readyList, Head(queue[s]))
       ELSE UNCHANGED <<status, readyList>>
    /\ UNCHANGED <<currentThread, threadToBeDestroyed, waiting, queue, userVars>>

(* The effect of Semaphore::V: the first waiter, if any, becomes READY. *)
Signal(s) ==
    /\ value' = [value EXCEPT ![s] = @ + 1]
    /\ IF queue[s] # <<>>
       THEN /\ queue' = [queue EXCEPT ![s] = Tail(@)]
            /\ status' = [status EXCEPT ![Head(queue[s])] = "READY"]
            /\ readyList' = Append(readyList, Head(queue[s]))
       ELSE UNCHANGED <<queue, status, readyList>>
    /\ UNCHANGED <<currentThread, threadToBeDestroyed, waiting, userVars>>

V(s) ==
    /\ Running
    /\ value[s] + Outstanding(s) < MaxValue
    /\ Signal(s)
    /\ UNCHANGED intVars

-----------------------------------------------------------------------------
(* Devices: a request schedules an interrupt, whose handler calls V. *)

Schedule(s) ==
    /\ Running
    /\ value[s] + pending[s] < MaxValue
    /\ pending' = [pending EXCEPT ![s] = @ + 1]
    /\ UNCHANGED <<schedVars, semVars, level, mode, userVars>>

(* CheckIfDue from OneTick: a thread runs with interrupts on. *)
Interrupt(s) ==
    /\ Running
    /\ pending[s] > 0
    /\ pending' = [pending EXCEPT ![s] = @ - 1]
    /\ Signal(s)
    /\ UNCHANGED <<level, mode>>

(* Interrupt::Idle: nothing was ready, so the clock jumps to the next        *)
(* interrupt, and every handler that is due by then runs too.                *)
Idle(s) ==
    /\ Sleeping
    /\ readyList = <<>> \/ mode = "IdleMode"
    /\ pending[s] > 0
    /\ pending' = [pending EXCEPT ![s] = @ - 1]
    /\ Signal(s)
    /\ mode' = "IdleMode"
    /\ UNCHANGED level

(* Mistake: the ready list is not looked at again after the handlers. *)
HaltTooSoon ==
    /\ Sleeping
    /\ \A s \in DeviceSem : pending[s] = 0
    /\ mode' = "Halted"
    /\ UNCHANGED <<schedVars, semVars, level, pending, userVars>>

(* Idle finds no interrupt pending but, at most, the timer's. *)
Halt ==
    /\ Sleeping
    /\ readyList = <<>>
    /\ \A s \in DeviceSem : pending[s] = 0
    /\ mode' = "Halted"
    /\ UNCHANGED <<schedVars, semVars, level, pending, userVars>>

Halted == mode = "Halted" /\ UNCHANGED vars

-----------------------------------------------------------------------------
Next ==
    \/ \E t \in Thread, sp \in Space \cup {NULL} : NewThread(t, sp)
    \/ \E t \in Thread, share \in BOOLEAN : Fork(t, share)
    \/ \E sp \in Space : StartProcess(sp)
    \/ Yield
    \/ Finish
    \/ Dispatch
    \/ AfterSwitch
    \/ \E s \in Sem : P(s)
    \/ \E s \in Sem : V(s)
    \/ \E s \in DeviceSem : Schedule(s)
    \/ \E s \in DeviceSem : Interrupt(s)
    \/ \E s \in DeviceSem : Idle(s)
    \/ Halt
    \/ Halted

Spec == Init /\ [][Next]_vars

(* The kernel's own code runs on with interrupts off, the clock of an idle   *)
(* machine jumps to the next interrupt, and the timer started by -rs goes on *)
(* asking for Yield.                                                         *)
Fairness ==
    /\ WF_vars(Dispatch)
    /\ WF_vars(AfterSwitch)
    /\ WF_vars(\E s \in DeviceSem : Idle(s))
    /\ WF_vars(Yield)

FairSpec == Spec /\ Fairness

-----------------------------------------------------------------------------
TypeOK ==
    /\ status \in [Thread -> {"NONE", "JUST_CREATED", "RUNNING", "READY", "BLOCKED"}]
    /\ currentThread \in Thread
    /\ readyList \in Seq(Thread)
    /\ threadToBeDestroyed \in Thread \cup {NULL}
    /\ value \in [Sem -> 0..MaxValue]
    /\ queue \in [Sem -> Seq(Thread)]
    /\ waiting \in [Thread -> Sem \cup {NULL}]
    /\ level \in {"IntOn", "IntOff"}
    /\ mode \in {"SystemMode", "IdleMode", "Halted"}
    /\ pending \in [DeviceSem -> 0..MaxValue]
    /\ space \in [Thread -> Space \cup {NULL}]
    /\ userRegs \in [Thread -> Thread \cup {NULL}]
    /\ machineRegs \in Thread \cup {NULL}
    /\ pageTable \in Space \cup {NULL}
    /\ spaceTable \in [Space -> Space \cup {NULL}]

(* The ready list holds exactly the READY threads, each once. *)
ReadyListOK ==
    /\ IsInjective(readyList)
    /\ \A t \in Thread : t \in ToSet(readyList) <=> status[t] = "READY"

(* A semaphore's queue holds, each once, exactly the threads asleep in its P. *)
QueuesOK ==
    \A s \in Sem :
        /\ IsInjective(queue[s])
        /\ \A t \in Thread : t \in ToSet(queue[s]) <=>
                             status[t] = "BLOCKED" /\ waiting[t] = s

(* Every list a thread is on agrees with its status, so no thread is on two  *)
(* lists and no list holds a thread whose carcass has been deleted           *)
(* (Scheduler::ReadyToRun, Semaphore::P and V, Thread::Finish).              *)
ListsMatchStatus == ReadyListOK /\ QueuesOK

(* Only the current thread runs, and while it runs with interrupts on it is  *)
(* RUNNING, out of every P, and no carcass is left over: the assertions of   *)
(* Thread::Finish (threadToBeDestroyed == NULL) and of ~Thread (this !=      *)
(* currentThread) hold.                                                      *)
OneRunning ==
    /\ \A t \in Thread : status[t] = "RUNNING" => t = currentThread
    /\ level = "IntOn" => /\ status[currentThread] = "RUNNING"
                          /\ waiting[currentThread] = NULL
                          /\ threadToBeDestroyed = NULL
    /\ threadToBeDestroyed # NULL =>
          status[threadToBeDestroyed] = "BLOCKED" /\ waiting[threadToBeDestroyed] = NULL

(* The threads V has made READY for s that have not tested value[s] again. *)
Woken(s) == {t \in Thread : waiting[t] = s /\ status[t] \in {"READY", "RUNNING"}}

(* No wake-up is lost in P's loop: while a thread sleeps on s, every unit of *)
(* s has a woken thread of its own on the way to take it, even though other  *)
(* callers of P may take units first.                                        *)
NoLostWakeup ==
    \A s \in Sem : queue[s] # <<>> => value[s] <= Cardinality(Woken(s))

(* Interrupt::Idle never stops the machine while a thread sleeps on a        *)
(* semaphore that has a unit left, or is ready to run.                       *)
HaltOnlyWhenStuck ==
    mode = "Halted" => \A t \in Thread :
        /\ status[t] # "READY"
        /\ waiting[t] # NULL => value[waiting[t]] = 0

(* The machine holds the user registers and page table of the thread that    *)
(* runs, and those of the others are safe in their thread and address space: *)
(* Scheduler::Run and SetupThreadState save and restore in the right order.  *)
UserContextOK ==
    /\ level = "IntOn" /\ space[currentThread] # NULL =>
          machineRegs = currentThread /\ pageTable = space[currentThread]
    /\ \A t \in Thread :
          status[t] # "NONE" /\ t # currentThread => userRegs[t] = t
    /\ \A sp \in Space : spaceTable[sp] = sp

-----------------------------------------------------------------------------
(* Strengthenings that make the invariants above inductive. *)

(* Interrupts still to come find room below the bound. *)
BoundOK == \A s \in Sem : value[s] + Outstanding(s) <= MaxValue

(* Only a thread that V can wake, or has woken, is inside P. *)
AwakeOK == \A t \in Thread : waiting[t] # NULL => status[t] \in {"READY", "RUNNING", "BLOCKED"}

HaltOK == mode = "Halted" => /\ level = "IntOff"
                             /\ readyList = <<>>
                             /\ status[currentThread] # "RUNNING"

SchedInv ==
    /\ TypeOK
    /\ BoundOK
    /\ ReadyListOK
    /\ QueuesOK
    /\ OneRunning
    /\ AwakeOK
    /\ HaltOK

(* Until AfterSwitch has run, the user state of the current thread is still  *)
(* in its Thread object; from then on it is in the machine.                  *)
UserInv ==
    /\ \A t \in Thread :
          status[t] # "NONE" /\ t # currentThread => userRegs[t] = t
    /\ space[currentThread] = NULL \/ (level = "IntOff" /\ status[currentThread] = "RUNNING")
          => userRegs[currentThread] = currentThread
    /\ (level = "IntOn" \/ status[currentThread] # "RUNNING") /\ space[currentThread] # NULL
          => machineRegs = currentThread /\ pageTable = space[currentThread]
    /\ \A sp \in Space : spaceTable[sp] = sp

-----------------------------------------------------------------------------
(* A READY thread gets the CPU, or the machine has stopped. *)
ReadyRuns ==
    \A t \in Thread : status[t] = "READY" ~> status[t] = "RUNNING"

-----------------------------------------------------------------------------
(* P and V are the indivisible operations that Lock, Condition and the       *)
(* devices rely on: every step of the scheduler is a step of the abstract    *)
(* semaphores, or invisible to them.                                         *)
Abstract == INSTANCE Semaphores

SemaphoresImplemented == Abstract!SemaphoresSpec
=============================================================================
