----------------------------- MODULE Processes -----------------------------
(***************************************************************************)
(* User processes (userprog/userprocess.cc, the constructor of AddrSpace)  *)
(* and the physical frames they share (userprog/frameprovider.cc).         *)
(*                                                                         *)
(* A process acts as one thread; UserThreads has the threads of a process. *)
(* What is done under one lock (bitmapLock, processesLock,                 *)
(* ProcessLocks[k]) is one step, as LockImplementsMutex allows, and a      *)
(* condition is its sleepers and units, as in UserThreads.  A process may  *)
(* lose the CPU between any two of these steps.                            *)
(***************************************************************************)
EXTENDS Integers, FiniteSets

CONSTANTS
    MaxProcesses,  \* bound on the processes ever created
    NumFrames,     \* NumPhysPages
    NumPages,      \* AddrSpace::numPages of each
    NumPids,       \* entries of pids, ProcessLocks and ProcessConds
    FirstFrames    \* the frames that rand() chose for the first process

ASSUME ProcessAssumption ==
    /\ MaxProcesses \in Nat \ {0}
    /\ NumFrames \in Nat /\ NumPages \in [1..MaxProcesses -> Nat \ {0}]
    /\ FirstFrames \subseteq 1..(NumFrames - 1) /\ Cardinality(FirstFrames) = NumPages[1]
    /\ NumPids \in Nat /\ NumPids > MaxProcesses

VARIABLES
    bitmap,        \* FrameProvider::bitmap: the frames marked
    lockLost,      \* whether bitmapLock will never be released
    pageTable,     \* frames of each address space; -1 is no frame
    pages,         \* how many entries of it are filled
    pids,          \* pids[k] = 1 if an active process has pid k, else 0
    pid,           \* AddrSpace::pid
    nbProcesses,   \* Machine::nbProcesses
    sleepers,      \* ProcessConds[k]: totalSleepers
    units,         \* ProcessConds[k]: value of sleepLock
    pc,            \* where the process is
    child,         \* the address space it is building
    k,             \* the pid it looks at, or waits for
    target,        \* the process that had that pid when the wait began
    damaged,       \* whether a space that could not be created was deleted
    stopped        \* why the machine stopped, or "no"

frameVars   == <<bitmap, lockLost, pageTable, pages, damaged>>
pidVars     == <<pids, pid, nbProcesses>>
condVars    == <<sleepers, units>>
localVars   == <<child, k, target>>
processVars == <<frameVars, pidVars, condVars, localVars, pc, stopped>>

Proc  == 1..MaxProcesses         \* processes, in the order they are begun
First == 1                       \* the one that StartProcess builds
Frame == 0..(NumFrames - 1)
Pid   == 0..(NumPids - 1)
Free  == Frame \ bitmap

(* The first process has been started: StartProcess built its space when     *)
(* nobody else ran.  Frame 0 is never given out.                             *)
ProcessesInit ==
    /\ pageTable = [p \in Proc |-> IF p = First THEN FirstFrames ELSE {}]
    /\ bitmap = {0} \cup FirstFrames
    /\ lockLost = FALSE
    /\ pages = [p \in Proc |-> IF p = First THEN NumPages[p] ELSE 0]
    /\ pids = [i \in Pid |-> IF i = 0 THEN 1 ELSE 0]
    /\ pid = [p \in Proc |-> IF p = First THEN 0 ELSE -1]
    /\ nbProcesses = 1
    /\ sleepers = [i \in Pid |-> 0]
    /\ units = [i \in Pid |-> 0]
    /\ pc = [p \in Proc |-> IF p = First THEN "user" ELSE "none"]
    /\ child = [p \in Proc |-> p]
    /\ k = [p \in Proc |-> 0]
    /\ target = [p \in Proc |-> p]
    /\ damaged = FALSE
    /\ stopped = "no"

Goto(p, from, to) == stopped = "no" /\ pc[p] = from /\ pc' = [pc EXCEPT ![p] = to]

Stop(why) == stopped' = why

(* The locals of a system call end with it. *)
Forget(p) ==
    /\ child'  = [child EXCEPT ![p] = p]
    /\ k'      = [k EXCEPT ![p] = 0]
    /\ target' = [target EXCEPT ![p] = p]

-----------------------------------------------------------------------------
(* do_UserProcessCreate.  AddrSpace::AddrSpace asks once whether there are   *)
(* enough frames, and then for each page asks again and takes one.           *)

Creating(p) ==
    pc[p] \in {"not created", "page test", "page get", "page got", "pid scan", "count"}

Unused == {q \in Proc : pc[q] = "none" /\ \A p \in Proc : Creating(p) => child[p] # q}

CreateTest(p, q) ==
    /\ q \in Unused /\ \A r \in Unused : q <= r
    /\ IF NumPages[q] > NumFrames
       THEN Stop("crash")                    \* ASSERT (numPages <= NumPhysPages)
       ELSE ~lockLost /\ UNCHANGED stopped   \* NumAvailFrame takes bitmapLock
    /\ Goto(p, "user", IF Cardinality(Free) < NumPages[q] THEN "not created" ELSE "page test")
    /\ child' = [child EXCEPT ![p] = q]
    /\ UNCHANGED <<frameVars, pidVars, condVars, k, target>>

(* delete addrSpace: neither its page table nor its locks were filled in, so *)
(* FreeFrames clears the marks of whatever frames the garbage names, or it   *)
(* fails the assertion of BitMap::Clear, or a wild pointer is deleted.       *)
DeleteNotCreated(p) ==
    /\ Goto(p, "not created", "user")
    /\ \/ /\ \E S \in SUBSET Frame : /\ Cardinality(S) <= NumPages[child[p]]
                                     /\ bitmap' = bitmap \ S
          /\ UNCHANGED stopped
       \/ Stop("crash") /\ UNCHANGED bitmap
    /\ damaged' = TRUE
    /\ Forget(p)
    /\ UNCHANGED <<lockLost, pageTable, pages, pidVars, condVars>>

(* if (fprovider->IsFrameAvail()) ... else ASSERT(FALSE) *)
PageTest(p) ==
    /\ ~lockLost
    /\ Goto(p, "page test", "page get")
    /\ IF Free = {} THEN Stop("no frame") ELSE UNCHANGED stopped
    /\ UNCHANGED <<frameVars, pidVars, condVars, localVars>>

(* Mistake: the frame is handed out and not marked. *)
PageGetNoMark(p) ==
    LET q == child[p] IN
    /\ ~lockLost
    /\ Goto(p, "page get", "page got")
    /\ pages' = [pages EXCEPT ![q] = @ + 1]
    /\ \E f \in Free : pageTable' = [pageTable EXCEPT ![q] = @ \cup {f}]
    /\ UNCHANGED <<bitmap, lockLost, pidVars, condVars, localVars, damaged, stopped>>

(* GetEmptyFrame returns -1, bitmapLock still held, when nothing is free. *)
PageGet(p) ==
    LET q == child[p] IN
    /\ ~lockLost
    /\ Goto(p, "page get", "page got")
    /\ pages' = [pages EXCEPT ![q] = @ + 1]
    /\ \/ /\ Free = {}
          /\ lockLost' = TRUE
          /\ pageTable' = [pageTable EXCEPT ![q] = @ \cup {-1}]
          /\ UNCHANGED bitmap
       \/ \E f \in Free : /\ bitmap' = bitmap \cup {f}
                          /\ pageTable' = [pageTable EXCEPT ![q] = @ \cup {f}]
                          /\ UNCHANGED lockLost
    /\ UNCHANGED <<pidVars, condVars, localVars, damaged, stopped>>

(* The argument of DEBUG calls NumAvailFrame, which takes the lock again. *)
PageGot(p) ==
    LET q == child[p] IN
    /\ ~lockLost
    /\ Goto(p, "page got", IF pages[q] < NumPages[q] THEN "page test" ELSE "pid scan")
    /\ k' = [k EXCEPT ![p] = 0]
    /\ UNCHANGED <<frameVars, pidVars, condVars, child, target, stopped>>

(* Mistake: the entry of pids is not tested. *)
PidScanNoTest(p) ==
    /\ Goto(p, "pid scan", "count")
    /\ pids' = [pids EXCEPT ![k[p]] = 1]
    /\ pid' = [pid EXCEPT ![child[p]] = k[p]]
    /\ UNCHANGED <<frameVars, nbProcesses, condVars, localVars, stopped>>

(* The loop over pids, one step per lock. *)
PidScan(p) ==
    /\ k[p] \in Pid
    /\ IF pids[k[p]] # 0
       THEN /\ Goto(p, "pid scan", "pid scan")
            /\ k' = [k EXCEPT ![p] = @ + 1]
            /\ UNCHANGED <<pids, pid>>
       ELSE /\ Goto(p, "pid scan", "count")
            /\ pids' = [pids EXCEPT ![k[p]] = 1]
            /\ pid' = [pid EXCEPT ![child[p]] = k[p]]
            /\ UNCHANGED k
    /\ UNCHANGED <<frameVars, nbProcesses, condVars, child, target, stopped>>

(* Mistake: the new process is not counted. *)
ForkUncounted(p) ==
    /\ stopped = "no" /\ pc[p] = "count"
    /\ pc' = [pc EXCEPT ![p] = "user", ![child[p]] = "user"]
    /\ Forget(p)
    /\ UNCHANGED <<frameVars, pidVars, condVars, stopped>>

(* Count the process and fork its thread. *)
CountAndFork(p) ==
    /\ stopped = "no" /\ pc[p] = "count"
    /\ nbProcesses' = nbProcesses + 1
    /\ pc' = [pc EXCEPT ![p] = "user", ![child[p]] = "user"]
    /\ Forget(p)
    /\ UNCHANGED <<frameVars, pids, pid, condVars, stopped>>

-----------------------------------------------------------------------------
(* do_UserProcessExit, from the process count on; delete currentThread->space *)
(* stands after Finish and is never reached.                                  *)

ExitCount(p) ==
    /\ Goto(p, "user", "exit pid")
    /\ nbProcesses' = nbProcesses - 1
    /\ IF nbProcesses' = 0 THEN Stop("last exit") ELSE UNCHANGED stopped
    /\ UNCHANGED <<frameVars, pids, pid, condVars, localVars>>

ExitPid(p) ==
    /\ Goto(p, "exit pid", "exit broadcast")
    /\ pids' = [pids EXCEPT ![pid[p]] = 0]
    /\ UNCHANGED <<frameVars, pid, nbProcesses, condVars, localVars, stopped>>

(* Mistake: Signal in place of Broadcast. *)
ExitSignal(p) ==
    /\ Goto(p, "exit broadcast", "dead")
    /\ IF sleepers[pid[p]] > 0
       THEN /\ units' = [units EXCEPT ![pid[p]] = @ + 1]
            /\ sleepers' = [sleepers EXCEPT ![pid[p]] = @ - 1]
       ELSE UNCHANGED condVars
    /\ UNCHANGED <<frameVars, pidVars, localVars, stopped>>

(* Broadcast is called without the lock. *)
ExitBroadcast(p) ==
    /\ Goto(p, "exit broadcast", "dead")
    /\ units' = [units EXCEPT ![pid[p]] = @ + sleepers[pid[p]]]
    /\ sleepers' = [sleepers EXCEPT ![pid[p]] = 0]
    /\ UNCHANGED <<frameVars, pidVars, localVars, stopped>>

(* do_UserProcessHalt *)
HaltCall(p) ==
    /\ Goto(p, "user", "user")
    /\ Stop("halt")
    /\ UNCHANGED <<frameVars, pidVars, condVars, localVars>>

-----------------------------------------------------------------------------
(* do_WaitPid for an id within the array. *)

WaitCall(p, i) ==
    /\ i # pid[p] /\ pids[i] # 0                    \* else it returns at once
    /\ Goto(p, "user", "wait")
    /\ sleepers' = [sleepers EXCEPT ![i] = @ + 1]
    /\ k' = [k EXCEPT ![p] = i]
    /\ \E q \in Proc : /\ pid[q] = i /\ pc[q] \notin {"exit broadcast", "dead"}
                       /\ target' = [target EXCEPT ![p] = q]
    /\ UNCHANGED <<frameVars, pidVars, units, child, stopped>>

WaitWake(p) ==
    /\ Goto(p, "wait", "woken")
    /\ units[k[p]] > 0
    /\ units' = [units EXCEPT ![k[p]] = @ - 1]
    /\ UNCHANGED <<frameVars, pidVars, sleepers, localVars, stopped>>

WaitTest(p) ==
    /\ IF pids[k[p]] # 0
       THEN /\ Goto(p, "woken", "wait")
            /\ sleepers' = [sleepers EXCEPT ![k[p]] = @ + 1]
            /\ UNCHANGED localVars
       ELSE Goto(p, "woken", "user") /\ Forget(p) /\ UNCHANGED sleepers
    /\ UNCHANGED <<frameVars, pidVars, units, stopped>>

-----------------------------------------------------------------------------
(* The steps inside a system call. *)
InCall(p) ==
    \/ DeleteNotCreated(p) \/ PageTest(p) \/ PageGet(p) \/ PageGot(p)
    \/ PidScan(p) \/ CountAndFork(p)
    \/ ExitPid(p) \/ ExitBroadcast(p)
    \/ WaitWake(p) \/ WaitTest(p)

ProcessesNext ==
    \E p \in Proc : \/ \E q \in Proc : CreateTest(p, q)
                    \/ DeleteNotCreated(p)
                    \/ PageTest(p)
                    \/ PageGet(p)
                    \/ PageGot(p)
                    \/ PidScan(p)
                    \/ CountAndFork(p)
                    \/ ExitCount(p)
                    \/ ExitPid(p)
                    \/ ExitBroadcast(p)
                    \/ HaltCall(p)
                    \/ \E i \in Pid : WaitCall(p, i)
                    \/ WaitWake(p)
                    \/ WaitTest(p)

ProcessesSpec == ProcessesInit /\ [][ProcessesNext]_processVars

(* A process goes on with a system call when it can; it owes no call. *)
ProcessesFairSpec ==
    ProcessesSpec /\ \A p \in Proc : WF_processVars(InCall(p))

-----------------------------------------------------------------------------

(* Processes whose user code has not ended. *)
Alive(p) == pc[p] \notin {"none", "exit pid", "exit broadcast", "dead"}

(* Processes being built that already have a pid. *)
Building(q) == \E p \in Proc : pc[p] = "count" /\ child[p] = q

(* As long as no half-built space was deleted, a frame is in one page table  *)
(* only, and marked, and every page of a process has a frame of its own:     *)
(* GetEmptyFrame never hands out a frame twice, however creations mix.       *)
FramesDisjoint ==
    ~damaged =>
        /\ \A p, q \in Proc : p # q => pageTable[p] \cap pageTable[q] \subseteq {-1}
        /\ \A p \in Proc : /\ pageTable[p] \subseteq (bitmap \ {0}) \cup {-1}
                           /\ ~lockLost => Cardinality(pageTable[p]) = pages[p]

(* An entry of pids is set exactly while one process has that pid: two       *)
(* creations that scan at the same time do not get the same one.             *)
PidsMatch ==
    \A i \in Pid :
        Cardinality({p \in Proc : pid[p] = i /\ (Alive(p) \/ Building(p) \/ pc[p] = "exit pid")})
            = pids[i]

(* do_UserProcessExit stops the machine when, and only when, no process is   *)
(* left: nbProcesses counts a process before it runs and until it ends.      *)
LastExitHalts ==
    /\ stopped = "last exit" => \A p \in Proc : ~Alive(p)
    /\ stopped = "no" => \E p \in Proc : Alive(p)

(* A wait ends once its pid is free, unless the pid is given out again: the  *)
(* Broadcast of an exit reaches every process inside WaitPid, asleep or not. *)
FreedPidWakes ==
    \A p \in Proc :
        (pc[p] = "wait" /\ pids[k[p]] = 0)
            ~> (pc[p] = "user" \/ pids[k[p]] # 0 \/ stopped # "no")

-----------------------------------------------------------------------------
(* userprocess.cc:96, "While pids[pid] is 1 (i.e while the process of id pid *)
(* is active), we wait until the process exits": WaitPid returns once the    *)
(* process it was called for has ended.  The code does not keep it: the pid  *)
(* may be given to a new process before the waiter tests it again.           *)
WaitEndsWithProcess ==
    \A p, q \in Proc :
        (pc[p] = "wait" /\ target[p] = q /\ pc[q] = "dead")
            ~> (pc[p] = "user" \/ stopped # "no")

(* addrspace.cc:114, "Error, no frame available despite the previous check": *)
(* the assertion under this comment is not reached.  The code does not keep  *)
(* it: two creations may both pass the check.                                *)
FrameFound == stopped # "no frame"
=============================================================================
