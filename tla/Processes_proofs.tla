-------------------------- MODULE Processes_proofs --------------------------
(***************************************************************************)
(* Proofs of the safety of processes, for any number of processes, pages,  *)
(* frames and pids.  The inductive invariants are ProcInv (where processes *)
(* are, and whom they are building), PidInv, CountInv and FrameInv.        *)
(***************************************************************************)
EXTENDS Processes, FiniteSetTheorems, TLAPS

Places == {"none", "user", "not created", "page test", "page get", "page got", "pid scan",
           "count", "exit pid", "exit broadcast", "dead", "wait", "woken"}

PlacesOK ==
    /\ pc \in [Proc -> Places]
    /\ child \in [Proc -> Proc]

(* A space under construction belongs to one creator, and its process has    *)
(* not begun.                                                                *)
ChildOK ==
    \A p \in Proc : Creating(p) =>
        /\ pc[child[p]] = "none"
        /\ \A q \in Proc : Creating(q) /\ child[q] = child[p] => q = p

ProcInv == PlacesOK /\ ChildOK

LEMMA Sizes ==
    /\ IsFiniteSet(Proc) /\ First \in Proc
    /\ FirstFrames \subseteq Frame /\ 0 \in Frame /\ 0 \in Pid
    /\ 0 \notin FirstFrames /\ -1 \notin FirstFrames /\ IsFiniteSet(FirstFrames)
<1>1. IsFiniteSet(Proc) /\ First \in Proc
  BY ProcessAssumption, FS_Interval DEF Proc, First
<1>2. Cardinality(FirstFrames) > 0
  BY ProcessAssumption, 1 \in 1..MaxProcesses
<1>3. FirstFrames # {}
  BY <1>2, FS_EmptySet
<1>4. IsFiniteSet(1..(NumFrames - 1))
  BY ProcessAssumption, FS_Interval
<1>5. IsFiniteSet(FirstFrames)
  BY <1>4, ProcessAssumption, FS_Subset
<1>6. 0 \in Frame
  <2>1. PICK f \in FirstFrames : TRUE
    BY <1>3
  <2> QED BY <2>1, ProcessAssumption DEF Frame
<1> QED BY <1>1, <1>5, <1>6, ProcessAssumption DEF Frame, Pid

LEMMA InitProc == ProcessesInit => ProcInv
BY Sizes DEF ProcessesInit, ProcInv, PlacesOK, Places, ChildOK, Creating

(* A step of a process that neither begins a creation nor ends one. *)
LEMMA Moves ==
    ASSUME ProcInv, NEW p \in Proc, NEW to \in Places \ {"none"},
           pc[p] # "none", pc' = [pc EXCEPT ![p] = to], child' = child,
           to \in {"not created", "page test", "page get", "page got", "pid scan", "count"}
               => Creating(p)
    PROVE  ProcInv'
BY DEF ProcInv, PlacesOK, Places, ChildOK, Creating

LEMMA NextProc == ProcInv /\ [ProcessesNext]_processVars => ProcInv'
<1> SUFFICES ASSUME ProcInv, [ProcessesNext]_processVars PROVE ProcInv'
  OBVIOUS
<1>1. ASSUME NEW p \in Proc, NEW q \in Proc, CreateTest(p, q) PROVE ProcInv'
  BY <1>1 DEF CreateTest, Unused, Goto, ProcInv, PlacesOK, Places, ChildOK, Creating
<1>2. ASSUME NEW p \in Proc, DeleteNotCreated(p) PROVE ProcInv'
  BY <1>2 DEF DeleteNotCreated, Goto, Forget, ProcInv, PlacesOK, Places, ChildOK, Creating
<1>3. ASSUME NEW p \in Proc, PageTest(p) \/ PageGet(p) \/ PageGot(p) \/ PidScan(p) PROVE ProcInv'
  <2>1. /\ Creating(p)
        /\ child' = child
        /\ \E to \in {"page get", "page got", "page test", "pid scan", "count"} :
               pc' = [pc EXCEPT ![p] = to]
    BY <1>3 DEF PageTest, PageGet, PageGot, PidScan, Goto, localVars, Creating
  <2> QED BY <2>1, Moves DEF Places, Creating
<1>4. ASSUME NEW p \in Proc, CountAndFork(p) PROVE ProcInv'
  BY <1>4 DEF CountAndFork, Forget, ProcInv, PlacesOK, Places, ChildOK, Creating
<1>5. ASSUME NEW p \in Proc,
             ExitCount(p) \/ ExitPid(p) \/ ExitBroadcast(p) \/ HaltCall(p) \/ WaitWake(p)
      PROVE  ProcInv'
  <2>1. /\ pc[p] # "none"
        /\ child' = child
        /\ \E to \in {"exit pid", "exit broadcast", "dead", "user", "woken"} :
               pc' = [pc EXCEPT ![p] = to]
    BY <1>5 DEF ExitCount, ExitPid, ExitBroadcast, HaltCall, WaitWake, Goto, localVars
  <2> QED BY <2>1, Moves DEF Places
<1>6. ASSUME NEW p \in Proc, NEW i \in Pid, WaitCall(p, i) PROVE ProcInv'
  <2>1. pc[p] # "none" /\ child' = child /\ pc' = [pc EXCEPT ![p] = "wait"]
    BY <1>6 DEF WaitCall, Goto
  <2> QED BY <2>1, Moves DEF Places
<1>7. ASSUME NEW p \in Proc, WaitTest(p) PROVE ProcInv'
  <2>1. CASE pids[k[p]] # 0
    <3>1. pc[p] # "none" /\ child' = child /\ pc' = [pc EXCEPT ![p] = "wait"]
      BY <1>7, <2>1 DEF WaitTest, Goto, localVars
    <3> QED BY <3>1, Moves DEF Places
  <2>2. CASE pids[k[p]] = 0
    <3>1. /\ pc[p] = "woken" /\ pc' = [pc EXCEPT ![p] = "user"]
          /\ child' = [child EXCEPT ![p] = p]
      BY <1>7, <2>2 DEF WaitTest, Goto, Forget
    <3> QED BY <3>1 DEF ProcInv, PlacesOK, Places, ChildOK, Creating
  <2> QED BY <2>1, <2>2
<1>8. CASE UNCHANGED processVars
  BY <1>8 DEF processVars, localVars, ProcInv, PlacesOK, ChildOK, Creating
<1> QED
  BY <1>1, <1>2, <1>3, <1>4, <1>5, <1>6, <1>7, <1>8 DEF ProcessesNext

-----------------------------------------------------------------------------
(* Pids. *)

(* Processes that have an entry of pids. *)
Holds(p) == Alive(p) \/ Building(p) \/ pc[p] = "exit pid"

PidTypeOK ==
    /\ pids \in [Pid -> {0, 1}]
    /\ pid \in [Proc -> Pid \cup {-1}]

(* The set entries of pids are the pids of the holders, one holder each. *)
PidInv ==
    /\ PidTypeOK
    /\ \A p \in Proc : Holds(p) => pid[p] \in Pid /\ pids[pid[p]] = 1
    /\ \A p, q \in Proc : Holds(p) /\ Holds(q) /\ pid[p] = pid[q] => p = q
    /\ \A i \in Pid : pids[i] = 1 => \E p \in Proc : Holds(p) /\ pid[p] = i

LEMMA InitPid == ProcessesInit => PidInv
<1> SUFFICES ASSUME ProcessesInit PROVE PidInv
  OBVIOUS
<1>1. \A p \in Proc : Holds(p) <=> p = First
  BY Sizes DEF ProcessesInit, Holds, Alive, Building
<1> QED
  BY <1>1, Sizes DEF ProcessesInit, PidInv, PidTypeOK

(* What keeps the holders and their pids keeps the invariant. *)
LEMMA PidKept ==
    ASSUME PidInv, pids' = pids, pid' = pid, \A q \in Proc : Holds(q)' <=> Holds(q)
    PROVE  PidInv'
BY DEF PidInv, PidTypeOK

(* A step of a live process that neither takes a pid nor ends the process. *)
LEMMA LiveStep ==
    ASSUME ProcInv, NEW p \in Proc, NEW to \in Places, Alive(p), pc[p] # "count",
           to \notin {"none", "exit pid", "exit broadcast", "dead", "count"},
           pc' = [pc EXCEPT ![p] = to],
           \A q \in Proc \ {p} : child'[q] = child[q]
    PROVE  \A q \in Proc : /\ Alive(q)' <=> Alive(q)
                           /\ Holds(q)' <=> Holds(q)
<1>1. \A q \in Proc : /\ Alive(q)' <=> Alive(q)
                      /\ pc'[q] = "exit pid" <=> pc[q] = "exit pid"
  BY DEF ProcInv, PlacesOK, Alive
<1>2. \A q \in Proc : Building(q)' <=> Building(q)
  BY DEF ProcInv, PlacesOK, Building
<1> QED BY <1>1, <1>2 DEF Holds

(* The steps that give no pid, take none back and leave the count alone. *)
QuietStep(p) ==
    \/ \E q \in Proc : CreateTest(p, q)
    \/ DeleteNotCreated(p) \/ PageTest(p) \/ PageGet(p) \/ PageGot(p) \/ HaltCall(p)
    \/ \E i \in Pid : WaitCall(p, i)
    \/ WaitWake(p) \/ WaitTest(p)

LEMMA Quiet ==
    ASSUME ProcInv, NEW p \in Proc, QuietStep(p)
    PROVE  /\ pids' = pids /\ pid' = pid /\ nbProcesses' = nbProcesses
           /\ \A q \in Proc : /\ Alive(q)' <=> Alive(q)
                              /\ Holds(q)' <=> Holds(q)
           /\ stopped = "no" /\ stopped' \in {"no", "crash", "no frame", "halt"}
<1>1. /\ pids' = pids /\ pid' = pid /\ nbProcesses' = nbProcesses
      /\ Alive(p) /\ pc[p] # "count" /\ stopped = "no"
      /\ \A q \in Proc \ {p} : child'[q] = child[q]
      /\ \E to \in {"user", "not created", "page test", "page get", "page got", "pid scan",
                    "wait", "woken"} : pc' = [pc EXCEPT ![p] = to]
  <2>1. ASSUME NEW q \in Proc, CreateTest(p, q) PROVE <1>1!:
    BY <2>1 DEF CreateTest, Goto, pidVars, Alive, ProcInv, PlacesOK
  <2>2. ASSUME DeleteNotCreated(p) PROVE <1>1!:
    BY <2>2 DEF DeleteNotCreated, Goto, Forget, pidVars, Alive, ProcInv, PlacesOK
  <2>3. ASSUME PageTest(p) \/ PageGet(p) \/ PageGot(p) \/ HaltCall(p) \/ WaitWake(p) PROVE <1>1!:
    BY <2>3 DEF PageTest, PageGet, PageGot, HaltCall, WaitWake, Goto, pidVars, localVars, Alive
  <2>4. ASSUME NEW i \in Pid, WaitCall(p, i) PROVE <1>1!:
    BY <2>4 DEF WaitCall, Goto, pidVars, Alive
  <2>5. ASSUME WaitTest(p) PROVE <1>1!:
    BY <2>5 DEF WaitTest, Goto, Forget, pidVars, localVars, Alive, ProcInv, PlacesOK
  <2> QED BY <2>1, <2>2, <2>3, <2>4, <2>5 DEF QuietStep
<1>2. stopped' \in {"no", "crash", "no frame", "halt"}
  BY <1>1 DEF QuietStep, CreateTest, DeleteNotCreated, PageTest, PageGet, PageGot, HaltCall,
              WaitCall, WaitWake, WaitTest, Stop
<1> QED BY <1>1, <1>2, LiveStep DEF Places

(* PidScan either passes an entry or takes it for the space being built. *)
LEMMA ScanStep ==
    ASSUME ProcInv, PidTypeOK, NEW p \in Proc, PidScan(p)
    PROVE  /\ nbProcesses' = nbProcesses /\ stopped = "no" /\ stopped' = stopped
           /\ \A q \in Proc : Alive(q)' <=> Alive(q)
           /\ \/ /\ pids' = pids /\ pid' = pid
                 /\ \A q \in Proc : Holds(q)' <=> Holds(q)
              \/ /\ k[p] \in Pid /\ pids[k[p]] = 0 /\ ~Holds(child[p])
                 /\ pids' = [pids EXCEPT ![k[p]] = 1]
                 /\ pid' = [pid EXCEPT ![child[p]] = k[p]]
                 /\ \A q \in Proc : Holds(q)' <=> Holds(q) \/ q = child[p]
<1>1. CASE pids[k[p]] # 0
  <2>1. /\ pids' = pids /\ pid' = pid /\ nbProcesses' = nbProcesses /\ stopped = "no"
        /\ stopped' = stopped /\ child' = child /\ pc[p] = "pid scan"
        /\ pc' = [pc EXCEPT ![p] = "pid scan"]
    BY <1>1 DEF PidScan, Goto
  <2> QED BY <2>1, LiveStep DEF Alive, Places
<1>2. CASE pids[k[p]] = 0
  <2>1. /\ k[p] \in Pid /\ nbProcesses' = nbProcesses /\ stopped = "no" /\ stopped' = stopped
        /\ child' = child /\ pc[p] = "pid scan" /\ pc' = [pc EXCEPT ![p] = "count"]
        /\ pids' = [pids EXCEPT ![k[p]] = 1]
        /\ pid' = [pid EXCEPT ![child[p]] = k[p]]
    BY <1>2 DEF PidScan, Goto
  <2>2. \A q \in Proc : /\ Alive(q)' <=> Alive(q)
                        /\ pc'[q] = "exit pid" <=> pc[q] = "exit pid"
    BY <2>1 DEF ProcInv, PlacesOK, Alive
  <2>3. \A q \in Proc : Building(q)' <=> Building(q) \/ q = child[p]
    BY <2>1 DEF ProcInv, PlacesOK, Building
  <2>4. pc[child[p]] = "none" /\ ~Building(child[p])
    BY <2>1 DEF ProcInv, ChildOK, Creating, Building
  <2>5. ~Holds(child[p])
    BY <2>4 DEF Holds, Alive
  <2> QED BY <1>2, <2>1, <2>2, <2>3, <2>5 DEF Holds
<1> QED BY <1>1, <1>2

LEMMA ForkStep ==
    ASSUME ProcInv, NEW p \in Proc, CountAndFork(p)
    PROVE  /\ pids' = pids /\ pid' = pid /\ nbProcesses' = nbProcesses + 1
           /\ stopped = "no" /\ stopped' = stopped
           /\ ~Alive(child[p]) /\ child[p] \in Proc
           /\ \A q \in Proc : /\ Alive(q)' <=> Alive(q) \/ q = child[p]
                              /\ Holds(q)' <=> Holds(q)
<1>1. /\ pids' = pids /\ pid' = pid /\ nbProcesses' = nbProcesses + 1
      /\ stopped = "no" /\ stopped' = stopped /\ pc[p] = "count"
      /\ pc' = [pc EXCEPT ![p] = "user", ![child[p]] = "user"]
      /\ child' = [child EXCEPT ![p] = p]
  BY DEF CountAndFork, Forget
<1>2. child[p] \in Proc /\ pc[child[p]] = "none" /\ Building(child[p])
  BY <1>1 DEF ProcInv, PlacesOK, ChildOK, Creating, Building
<1>3. \A q \in Proc : /\ Alive(q)' <=> Alive(q) \/ q = child[p]
                      /\ pc'[q] = "exit pid" <=> pc[q] = "exit pid"
  BY <1>1, <1>2 DEF ProcInv, PlacesOK, Alive
<1>4. \A q \in Proc : Building(q)' \/ q = child[p] <=> Building(q)
  BY <1>1, <1>2 DEF ProcInv, PlacesOK, ChildOK, Creating, Building
<1> QED BY <1>1, <1>2, <1>3, <1>4 DEF Holds, Alive

(* The three steps of an exit: first it is not alive, then it has no pid. *)
LEMMA ExitStep ==
    ASSUME ProcInv, NEW p \in Proc, ExitCount(p) \/ ExitPid(p) \/ ExitBroadcast(p)
    PROVE  /\ pid' = pid /\ stopped = "no"
           /\ \A q \in Proc : Building(q)' <=> Building(q)
           /\ ~Building(p)
<1>1. /\ pid' = pid /\ stopped = "no" /\ pc[p] \in {"user", "exit pid", "exit broadcast"}
      /\ child' = child
      /\ \E to \in {"exit pid", "exit broadcast", "dead"} : pc' = [pc EXCEPT ![p] = to]
  BY DEF ExitCount, ExitPid, ExitBroadcast, Goto, pidVars, localVars
<1>2. \A q \in Proc : Building(q)' <=> Building(q)
  BY <1>1 DEF ProcInv, PlacesOK, Building
<1>3. ~Building(p)
  BY <1>1 DEF ProcInv, ChildOK, Creating, Building
<1> QED BY <1>1, <1>2, <1>3

LEMMA NextPid == ProcInv /\ PidInv /\ [ProcessesNext]_processVars => PidInv'
<1> SUFFICES ASSUME ProcInv, PidInv, [ProcessesNext]_processVars PROVE PidInv'
  OBVIOUS
<1>1. ASSUME NEW p \in Proc, QuietStep(p) PROVE PidInv'
  BY <1>1, Quiet, PidKept
<1>2. ASSUME NEW p \in Proc, PidScan(p) PROVE PidInv'
  <2>1. PidTypeOK
    BY DEF PidInv
  <2>2. CASE /\ pids' = pids /\ pid' = pid
             /\ \A q \in Proc : Holds(q)' <=> Holds(q)
    BY <2>2, PidKept
  <2>3. CASE /\ k[p] \in Pid /\ pids[k[p]] = 0 /\ ~Holds(child[p])
             /\ pids' = [pids EXCEPT ![k[p]] = 1]
             /\ pid' = [pid EXCEPT ![child[p]] = k[p]]
             /\ \A q \in Proc : Holds(q)' <=> Holds(q) \/ q = child[p]
    <3>1. child[p] \in Proc
      BY DEF ProcInv, PlacesOK
    <3>2. PidTypeOK'
      BY <2>1, <2>3, <3>1 DEF PidTypeOK
    <3>3. \A q \in Proc : Holds(q)' => pid'[q] \in Pid /\ pids'[pid'[q]] = 1
      BY <2>3, <3>1 DEF PidInv, PidTypeOK
    <3>4. \A q, r \in Proc : Holds(q)' /\ Holds(r)' /\ pid'[q] = pid'[r] => q = r
      BY <2>3, <3>1 DEF PidInv, PidTypeOK
    <3>5. \A i \in Pid : pids'[i] = 1 => \E q \in Proc : Holds(q)' /\ pid'[q] = i
      BY <2>3, <3>1 DEF PidInv, PidTypeOK
    <3> QED BY <3>2, <3>3, <3>4, <3>5 DEF PidInv
  <2> QED BY <1>2, <2>1, <2>2, <2>3, ScanStep
<1>3. ASSUME NEW p \in Proc, CountAndFork(p) PROVE PidInv'
  BY <1>3, ForkStep, PidKept
<1>4. ASSUME NEW p \in Proc, ExitCount(p) \/ ExitBroadcast(p) PROVE PidInv'
  <2>1. /\ pids' = pids
        /\ \/ pc[p] = "user" /\ pc' = [pc EXCEPT ![p] = "exit pid"]
           \/ pc[p] = "exit broadcast" /\ pc' = [pc EXCEPT ![p] = "dead"]
    BY <1>4 DEF ExitCount, ExitBroadcast, Goto, pidVars
  <2>2. \A q \in Proc : Holds(q)' <=> Holds(q)
    BY <1>4, <2>1, ExitStep DEF Holds, Alive, ProcInv, PlacesOK
  <2> QED BY <1>4, <2>1, <2>2, ExitStep, PidKept
<1>5. ASSUME NEW p \in Proc, ExitPid(p) PROVE PidInv'
  <2>1. /\ pc[p] = "exit pid" /\ pc' = [pc EXCEPT ![p] = "exit broadcast"]
        /\ pids' = [pids EXCEPT ![pid[p]] = 0]
    BY <1>5 DEF ExitPid, Goto
  <2>2. Holds(p) /\ \A q \in Proc : Holds(q)' <=> Holds(q) /\ q # p
    BY <1>5, <2>1, ExitStep DEF Holds, Alive, ProcInv, PlacesOK
  <2>3. pid' = pid
    BY <1>5, ExitStep
  <2>4. pid[p] \in Pid
    BY <2>2 DEF PidInv
  <2>5. \A i \in Pid : pids'[i] = IF i = pid[p] THEN 0 ELSE pids[i]
    BY <2>1, <2>4 DEF PidInv, PidTypeOK
  <2>6. PidTypeOK'
    BY <2>1, <2>3, <2>4 DEF PidInv, PidTypeOK
  <2>7. \A q \in Proc : Holds(q)' => pid'[q] \in Pid /\ pids'[pid'[q]] = 1
    BY <2>2, <2>3, <2>5 DEF PidInv
  <2>8. \A q, r \in Proc : Holds(q)' /\ Holds(r)' /\ pid'[q] = pid'[r] => q = r
    BY <2>2, <2>3 DEF PidInv
  <2>9. \A i \in Pid : pids'[i] = 1 => \E q \in Proc : Holds(q)' /\ pid'[q] = i
    BY <2>2, <2>3, <2>5 DEF PidInv
  <2> QED BY <2>6, <2>7, <2>8, <2>9 DEF PidInv
<1>6. CASE UNCHANGED processVars
  BY <1>6, PidKept DEF processVars, pidVars, localVars, Holds, Alive, Building
<1> QED
  BY <1>1, <1>2, <1>3, <1>4, <1>5, <1>6 DEF ProcessesNext, QuietStep

(* The entries of pids are the pids of the processes that hold one: pids     *)
(* given out by scans that run at the same time are different.               *)
THEOREM PidsMatchProved == ProcessesSpec => []PidsMatch
<1>1. ProcInv /\ PidInv => PidsMatch
  <2> SUFFICES ASSUME PidInv, NEW i \in Pid
               PROVE  Cardinality({p \in Proc : pid[p] = i /\ Holds(p)}) = pids[i]
    BY DEF PidsMatch, Holds
  <2> DEFINE H == {p \in Proc : pid[p] = i /\ Holds(p)}
  <2>1. CASE pids[i] = 1
    <3>1. PICK p \in Proc : Holds(p) /\ pid[p] = i
      BY <2>1 DEF PidInv
    <3>2. H = {p}
      BY <3>1 DEF PidInv
    <3> QED BY <2>1, <3>2, FS_Singleton
  <2>2. CASE pids[i] = 0
    <3>1. H = {}
      BY <2>2 DEF PidInv
    <3> QED BY <2>2, <3>1, FS_EmptySet
  <2> QED BY <2>1, <2>2 DEF PidInv, PidTypeOK
<1> QED
  BY <1>1, InitProc, InitPid, NextProc, NextPid, PTL DEF ProcessesSpec

-----------------------------------------------------------------------------
(* The count of processes. *)

Living == {p \in Proc : Alive(p)}

(* nbProcesses counts the live processes, and reaches zero only when the     *)
(* machine stops for it.                                                     *)
CountInv ==
    /\ nbProcesses = Cardinality(Living)
    /\ stopped = "no" => nbProcesses > 0
    /\ stopped = "last exit" => nbProcesses = 0

LEMMA LivingFinite == IsFiniteSet(Living) /\ IsFiniteSet(Living')
<1>1. Living \subseteq Proc /\ Living' \subseteq Proc
  BY DEF Living
<1> QED BY <1>1, Sizes, FS_Subset

LEMMA InitCount == ProcessesInit => CountInv
<1> SUFFICES ASSUME ProcessesInit PROVE CountInv
  OBVIOUS
<1>1. Living = {First}
  BY Sizes DEF ProcessesInit, Living, Alive
<1>2. Cardinality(Living) = 1
  BY <1>1, FS_Singleton
<1> QED BY <1>2 DEF ProcessesInit, CountInv

LEMMA NextCount == ProcInv /\ PidInv /\ CountInv /\ [ProcessesNext]_processVars => CountInv'
<1> SUFFICES ASSUME ProcInv, PidInv, CountInv, [ProcessesNext]_processVars PROVE CountInv'
  OBVIOUS
<1>1. ASSUME NEW p \in Proc, QuietStep(p) \/ PidScan(p) PROVE CountInv'
  <2>1. PidTypeOK
    BY DEF PidInv
  <2>2. /\ nbProcesses' = nbProcesses /\ \A q \in Proc : Alive(q)' <=> Alive(q)
        /\ stopped = "no" /\ stopped' # "last exit"
    BY <1>1, <2>1, Quiet, ScanStep
  <2>3. Living' = Living
    BY <2>2 DEF Living
  <2> QED BY <2>2, <2>3 DEF CountInv
<1>2. ASSUME NEW p \in Proc, CountAndFork(p) PROVE CountInv'
  <2>1. /\ nbProcesses' = nbProcesses + 1 /\ stopped = "no" /\ stopped' = stopped
        /\ child[p] \in Proc /\ ~Alive(child[p])
        /\ \A q \in Proc : Alive(q)' <=> Alive(q) \/ q = child[p]
    BY <1>2, ForkStep
  <2>2. Living' = Living \cup {child[p]} /\ child[p] \notin Living
    BY <2>1 DEF Living
  <2>3. Cardinality(Living') = Cardinality(Living) + 1
    BY <2>2, LivingFinite, FS_AddElement
  <2>4. Cardinality(Living) \in Nat
    BY LivingFinite, FS_CardinalityType
  <2> QED BY <2>1, <2>3, <2>4 DEF CountInv
<1>3. ASSUME NEW p \in Proc, ExitCount(p) PROVE CountInv'
  <2>1. /\ stopped = "no" /\ pc[p] = "user" /\ pc' = [pc EXCEPT ![p] = "exit pid"]
        /\ nbProcesses' = nbProcesses - 1
        /\ nbProcesses' = 0 => stopped' = "last exit"
        /\ nbProcesses' # 0 => stopped' = "no"
    BY <1>3 DEF ExitCount, Goto, Stop
  <2>2. Living' = Living \ {p} /\ p \in Living
    BY <2>1 DEF ProcInv, PlacesOK, Living, Alive
  <2>3. Cardinality(Living') = Cardinality(Living) - 1
    BY <2>2, LivingFinite, FS_RemoveElement
  <2>4. nbProcesses' = Cardinality(Living') /\ nbProcesses' \in Nat
    BY <2>1, <2>3, LivingFinite, FS_CardinalityType DEF CountInv
  <2>5. CASE nbProcesses' = 0
    BY <2>1, <2>4, <2>5 DEF CountInv
  <2>6. CASE nbProcesses' # 0
    <3>1. stopped' = "no"
      BY <2>1, <2>6
    <3>2. nbProcesses' > 0
      BY <2>4, <2>6
    <3> QED BY <2>4, <3>1, <3>2 DEF CountInv
  <2> QED BY <2>5, <2>6
<1>4. ASSUME NEW p \in Proc, ExitPid(p) \/ ExitBroadcast(p) PROVE CountInv'
  <2>1. /\ pc[p] \in {"exit pid", "exit broadcast"}
        /\ \E to \in {"exit broadcast", "dead"} : pc' = [pc EXCEPT ![p] = to]
        /\ nbProcesses' = nbProcesses /\ stopped' = stopped
    BY <1>4 DEF ExitPid, ExitBroadcast, Goto, pidVars
  <2>2. Living' = Living
    BY <2>1 DEF ProcInv, PlacesOK, Living, Alive
  <2> QED BY <2>1, <2>2 DEF CountInv
<1>5. CASE UNCHANGED processVars
  <2>1. Living' = Living
    BY <1>5 DEF processVars, Living, Alive
  <2> QED BY <1>5, <2>1 DEF processVars, pidVars, CountInv
<1> QED
  BY <1>1, <1>2, <1>3, <1>4, <1>5 DEF ProcessesNext, QuietStep

(* The exit that brings nbProcesses to zero is the last one, and the machine *)
(* never goes on without a live process.                                     *)
THEOREM LastExitProved == ProcessesSpec => []LastExitHalts
<1>1. CountInv => LastExitHalts
  <2> SUFFICES ASSUME CountInv PROVE LastExitHalts
    OBVIOUS
  <2>1. ASSUME stopped = "last exit" PROVE \A p \in Proc : ~Alive(p)
    <3>1. Living = {}
      BY <2>1, LivingFinite, FS_EmptySet DEF CountInv
    <3> QED BY <3>1 DEF Living
  <2>2. ASSUME stopped = "no" PROVE \E p \in Proc : Alive(p)
    <3>1. Living # {}
      BY <2>2, FS_EmptySet DEF CountInv
    <3> QED BY <3>1 DEF Living
  <2> QED BY <2>1, <2>2 DEF LastExitHalts
<1> QED
  BY <1>1, InitProc, InitPid, InitCount, NextProc, NextPid, NextCount, PTL DEF ProcessesSpec

-----------------------------------------------------------------------------
(* Frames. *)

FrameTypeOK ==
    /\ bitmap \subseteq Frame
    /\ pageTable \in [Proc -> SUBSET (Frame \cup {-1})]
    /\ pages \in [Proc -> Nat]

(* Frame 0 stays marked, so that no page table gets it. *)
FrameInv ==
    /\ FrameTypeOK
    /\ ~damaged => 0 \in bitmap
    /\ FramesDisjoint

LEMMA InitFrame == ProcessesInit => FrameInv
<1> SUFFICES ASSUME ProcessesInit PROVE FrameInv
  OBVIOUS
<1>1. FrameTypeOK
  BY Sizes, ProcessAssumption DEF ProcessesInit, FrameTypeOK, Proc, First
<1>2. \A p \in Proc : Cardinality(pageTable[p]) = pages[p]
  BY Sizes, ProcessAssumption, FS_EmptySet DEF ProcessesInit, First
<1>3. \A p, q \in Proc : p # q => pageTable[p] \cap pageTable[q] \subseteq {-1}
  BY DEF ProcessesInit
<1>4. \A p \in Proc : pageTable[p] \subseteq (bitmap \ {0}) \cup {-1}
  BY Sizes DEF ProcessesInit
<1> QED
  BY <1>1, <1>2, <1>3, <1>4 DEF FrameInv, FramesDisjoint, ProcessesInit

LEMMA TablesFinite ==
    ASSUME FrameTypeOK, NEW p \in Proc
    PROVE  IsFiniteSet(pageTable[p])
<1>1. IsFiniteSet(Frame)
  BY ProcessAssumption, FS_Interval DEF Frame
<1>2. IsFiniteSet(Frame \cup {-1})
  BY <1>1, FS_AddElement
<1>3. pageTable[p] \subseteq Frame \cup {-1}
  BY DEF FrameTypeOK
<1> QED BY <1>2, <1>3, FS_Subset

(* A frame that was free is in no page table. *)
LEMMA TakeFrame ==
    ASSUME FrameInv, NEW q \in Proc, NEW f \in Free,
           bitmap' = bitmap \cup {f}, lockLost' = lockLost, damaged' = damaged,
           pageTable' = [pageTable EXCEPT ![q] = @ \cup {f}],
           pages' = [pages EXCEPT ![q] = @ + 1]
    PROVE  FrameInv'
<1>1. f \in Frame /\ f \notin bitmap /\ f # -1
  BY DEF Free, Frame
<1>2. FrameTypeOK'
  BY <1>1 DEF FrameInv, FrameTypeOK
<1>3. \A p \in Proc : pageTable'[p] = IF p = q THEN pageTable[p] \cup {f} ELSE pageTable[p]
  BY DEF FrameInv, FrameTypeOK
<1>4. \A p \in Proc : pages'[p] = IF p = q THEN pages[p] + 1 ELSE pages[p]
  BY DEF FrameInv, FrameTypeOK
<1>5. ASSUME ~damaged PROVE 0 \in bitmap' /\ FramesDisjoint'
  <2>1. \A p \in Proc : f \notin pageTable[p]
    BY <1>1, <1>5 DEF FrameInv, FramesDisjoint
  <2>2. \A p, r \in Proc : p # r => pageTable'[p] \cap pageTable'[r] \subseteq {-1}
    BY <1>3, <1>5, <2>1 DEF FrameInv, FramesDisjoint
  <2>3. 0 \in bitmap' /\ f # 0
    BY <1>1, <1>5 DEF FrameInv
  <2>4. \A p \in Proc : pageTable'[p] \subseteq (bitmap' \ {0}) \cup {-1}
    BY <1>3, <1>5, <2>3 DEF FrameInv, FramesDisjoint
  <2>5. ASSUME NEW p \in Proc, ~lockLost PROVE Cardinality(pageTable'[p]) = pages'[p]
    <3>1. Cardinality(pageTable[p]) = pages[p] /\ FrameTypeOK
      BY <1>5, <2>5 DEF FrameInv, FramesDisjoint
    <3>2. CASE p = q
      <4>1. Cardinality(pageTable[p] \cup {f}) = Cardinality(pageTable[p]) + 1
        BY <2>1, <3>1, TablesFinite, FS_AddElement
      <4> QED BY <1>3, <1>4, <3>1, <3>2, <4>1
    <3>3. CASE p # q
      BY <1>3, <1>4, <3>1, <3>3
    <3> QED BY <3>2, <3>3
  <2> QED BY <1>5, <2>2, <2>3, <2>4, <2>5 DEF FramesDisjoint
<1> QED BY <1>2, <1>5 DEF FrameInv, FramesDisjoint

LEMMA NextFrame == ProcInv /\ FrameInv /\ [ProcessesNext]_processVars => FrameInv'
<1> SUFFICES ASSUME ProcInv, FrameInv, [ProcessesNext]_processVars PROVE FrameInv'
  OBVIOUS
<1>1. ASSUME UNCHANGED frameVars PROVE FrameInv'
  BY <1>1 DEF frameVars, FrameInv, FrameTypeOK, FramesDisjoint
<1>2. ASSUME NEW p \in Proc, PageGet(p) PROVE FrameInv'
  <2> DEFINE q == child[p]
  <2>1. q \in Proc
    BY DEF ProcInv, PlacesOK
  <2>2. damaged' = damaged /\ pages' = [pages EXCEPT ![q] = @ + 1]
    BY <1>2 DEF PageGet
  <2>3. ASSUME lockLost' = TRUE, bitmap' = bitmap,
               pageTable' = [pageTable EXCEPT ![q] = @ \cup {-1}]
        PROVE  FrameInv'
    <3>1. FrameTypeOK'
      BY <2>1, <2>2, <2>3 DEF FrameInv, FrameTypeOK
    <3>2. \A r \in Proc : pageTable'[r] \subseteq pageTable[r] \cup {-1}
      BY <2>1, <2>3 DEF FrameInv, FrameTypeOK
    <3>3. FramesDisjoint'
      BY <2>2, <2>3, <3>2 DEF FrameInv, FramesDisjoint
    <3> QED BY <2>2, <2>3, <3>1, <3>3 DEF FrameInv
  <2>4. ASSUME NEW f \in Free, bitmap' = bitmap \cup {f}, lockLost' = lockLost,
               pageTable' = [pageTable EXCEPT ![q] = @ \cup {f}]
        PROVE  FrameInv'
    BY <2>1, <2>2, <2>4, TakeFrame
  <2> QED BY <1>2, <2>3, <2>4 DEF PageGet
<1>3. ASSUME NEW p \in Proc, DeleteNotCreated(p) PROVE FrameInv'
  <2>1. /\ damaged' = TRUE /\ pageTable' = pageTable /\ pages' = pages
        /\ bitmap' \subseteq bitmap
    BY <1>3 DEF DeleteNotCreated
  <2> QED BY <2>1 DEF FrameInv, FrameTypeOK, FramesDisjoint
<1>4. ASSUME NEW p \in Proc, \/ \E q \in Proc : CreateTest(p, q)
                             \/ PageTest(p) \/ PageGot(p) \/ PidScan(p) \/ CountAndFork(p)
      PROVE  UNCHANGED frameVars
  BY <1>4 DEF CreateTest, PageTest, PageGot, PidScan, CountAndFork
<1>5. ASSUME NEW p \in Proc, \/ ExitCount(p) \/ ExitPid(p) \/ ExitBroadcast(p) \/ HaltCall(p)
                             \/ \E i \in Pid : WaitCall(p, i)
                             \/ WaitWake(p) \/ WaitTest(p)
      PROVE  UNCHANGED frameVars
  BY <1>5 DEF ExitCount, ExitPid, ExitBroadcast, HaltCall, WaitCall, WaitWake, WaitTest
<1>6. CASE UNCHANGED processVars
  BY <1>1, <1>6 DEF processVars
<1> QED
  BY <1>1, <1>2, <1>3, <1>4, <1>5, <1>6 DEF ProcessesNext

(* However creations interleave, no frame is in two page tables and none is  *)
(* handed out unmarked, until a half-built space is deleted.                 *)
THEOREM FramesDisjointProved == ProcessesSpec => []FramesDisjoint
<1>1. FrameInv => FramesDisjoint
  BY DEF FrameInv
<1> QED
  BY <1>1, InitProc, InitFrame, NextProc, NextFrame, PTL DEF ProcessesSpec
=============================================================================
