----------------------------- MODULE MCMonitor -----------------------------
(* Instances of LockCond and of SynchList, which is built on it, for TLC:    *)
(* the lock and the condition are used by any callers, or by the list.       *)
EXTENDS SynchList, TLC

CONSTANTS t1, t2, t3, t4, i1

VARIABLE callers

mcVars == <<synchListVars, callers>>

(* Two processes: the main thread of each has tid 1. *)
MCTid == [t \in Thread |-> IF t \in {t1, t2} THEN 1 ELSE 2]

MCInit == SynchListInit /\ callers \in {"any", "list"}

(* Four threads use the lock, three the list, which may all be asleep in     *)
(* Remove.                                                                   *)
ListAsleep ==
    /\ \A t \in Thread \ {t4} : pc[t] = "wait3"
    /\ value["sleepLock"] = 0
    /\ UNCHANGED synchListVars

MCNext ==
    /\ \/ callers = "any" /\ LockNext /\ UNCHANGED listVars
       \/ callers = "list" /\ (SynchListNext \/ ListAsleep) /\ op'[t4] = "none"
    /\ UNCHANGED callers

(* The fairness of LockFairSpec. *)
MCSpec ==
    /\ MCInit /\ [][MCNext]_mcVars
    /\ \A t \in Thread : WF_mcVars(KernelStep(t) /\ UNCHANGED <<listVars, callers>>)
=============================================================================
