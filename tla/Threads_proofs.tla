--------------------------- MODULE Threads_proofs ---------------------------
(***************************************************************************)
(* Proofs of the safety properties of the two kinds of threads.            *)
(*                                                                         *)
(* First the kernel's Threads, for any number of threads and semaphores;   *)
(* then UserThreads: the thread that ends a process is the last one alive, *)
(* for any number of tids and any sizes for which RemoveThreadStackPointer *)
(* does not hit the counters of threads.                                   *)
(***************************************************************************)
EXTENDS Threads, UserThreads, FiniteSetTheorems, WellFoundedInduction, TLAPS

-----------------------------------------------------------------------------
(* Lists. *)

(* List::Append adds one element, and keeps a list without repetition so. *)
LEMMA AppendLemma ==
    ASSUME NEW S, NEW q \in Seq(S), NEW e \in S
    PROVE  /\ Append(q, e) \in Seq(S)
           /\ Append(q, e) # <<>>
           /\ ToSet(Append(q, e)) = ToSet(q) \cup {e}
           /\ IsInjective(q) /\ e \notin ToSet(q) => IsInjective(Append(q, e))
<1> DEFINE a == Append(q, e)
<1>1. a \in Seq(S) /\ Len(a) = Len(q) + 1 /\ a[Len(q) + 1] = e
      /\ \A i \in 1..Len(q) : a[i] = q[i]
  OBVIOUS
<1>2. DOMAIN a = 1..(Len(q) + 1) /\ DOMAIN q = 1..Len(q) /\ Len(q) \in Nat
  OBVIOUS
<1>3. ToSet(a) = ToSet(q) \cup {e}
  BY <1>1, <1>2 DEF ToSet
<1>4. IsInjective(q) /\ e \notin ToSet(q) => IsInjective(a)
  BY <1>1, <1>2 DEF IsInjective, ToSet
<1>5. a # <<>>
  <2>1. Len(a) # 0
    BY <1>1, <1>2
  <2>2. Len(<<>>) = 0
    OBVIOUS
  <2> HIDE DEF a
  <2> QED BY <2>1, <2>2
<1> QED BY <1>1, <1>3, <1>4, <1>5

(* List::Remove takes the first element off a list without repetition. *)
LEMMA TailLemma ==
    ASSUME NEW S, NEW q \in Seq(S), q # <<>>
    PROVE  /\ Head(q) \in S
           /\ Head(q) \in ToSet(q)
           /\ Tail(q) \in Seq(S)
           /\ IsInjective(q) => /\ IsInjective(Tail(q))
                                /\ ToSet(Tail(q)) = ToSet(q) \ {Head(q)}
<1> DEFINE r == Tail(q)
<1>1. /\ Len(q) \in Nat /\ Len(q) > 0 /\ Head(q) = q[1] /\ q[1] \in S
      /\ r \in Seq(S) /\ Len(r) = Len(q) - 1
      /\ \A i \in 1..Len(r) : r[i] = q[i + 1]
  OBVIOUS
<1>2. DOMAIN q = 1..Len(q) /\ DOMAIN r = 1..(Len(q) - 1)
  BY <1>1
<1>3. Head(q) \in ToSet(q)
  BY <1>1, <1>2 DEF ToSet
<1>4. ASSUME IsInjective(q) PROVE IsInjective(r) /\ ToSet(r) = ToSet(q) \ {Head(q)}
  <2>1. \A i, j \in 1..Len(q) : q[i] = q[j] => i = j
    BY <1>4, <1>2 DEF IsInjective
  <2>2. IsInjective(r)
    BY <1>1, <1>2, <2>1 DEF IsInjective
  <2>3. ASSUME NEW x \in ToSet(r) PROVE x \in ToSet(q) \ {Head(q)}
    BY <1>1, <1>2, <2>1, <2>3 DEF ToSet
  <2>4. ASSUME NEW x \in ToSet(q) \ {Head(q)} PROVE x \in ToSet(r)
    <3>1. PICK i \in 1..Len(q) : q[i] = x
      BY <1>2, <2>4 DEF ToSet
    <3>2. i # 1 /\ i - 1 \in 1..Len(r) /\ r[i - 1] = x
      BY <1>1, <2>4, <3>1
    <3> QED BY <1>1, <1>2, <3>2 DEF ToSet
  <2> QED BY <2>2, <2>3, <2>4
<1> QED BY <1>1, <1>3, <1>4

(* A list is empty when it has no element. *)
LEMMA EmptyLemma ==
    ASSUME NEW S, NEW q \in Seq(S)
    PROVE  /\ q = <<>> <=> ToSet(q) = {}
           /\ ToSet(q) \subseteq S
<1>1. DOMAIN q = 1..Len(q) /\ Len(q) \in Nat /\ (Len(q) = 0 <=> q = <<>>)
  OBVIOUS
<1>2. ASSUME Len(q) > 0 PROVE q[1] \in ToSet(q)
  BY <1>1, <1>2 DEF ToSet
<1>3. ToSet(q) \subseteq S
  BY <1>1 DEF ToSet
<1>4. q # <<>> => ToSet(q) # {}
  BY <1>1, <1>2
<1>5. q = <<>> => ToSet(q) = {}
  <2> SUFFICES ASSUME q = <<>>, NEW x \in ToSet(q) PROVE FALSE
    OBVIOUS
  <2>1. PICK i \in 1..Len(q) : x = q[i]
    BY <1>1 DEF ToSet
  <2> QED BY <1>1, <2>1
<1> QED BY <1>3, <1>4, <1>5

-----------------------------------------------------------------------------
(* Scheduling. *)

LEMMA InitSched == Init => SchedInv
<1> SUFFICES ASSUME Init PROVE SchedInv
  OBVIOUS
<1> USE ThreadAssumption, SemAssumption DEF Init
<1>1. TypeOK
  BY DEF TypeOK
<1>2. BoundOK
  BY DEF BoundOK, Outstanding
<1>3. IsInjective(<<>>) /\ ToSet(<<>>) = {}
  BY DEF IsInjective, ToSet
<1>4. ReadyListOK /\ QueuesOK
  BY <1>3 DEF ReadyListOK, QueuesOK
<1>5. OneRunning /\ AwakeOK /\ HaltOK
  BY DEF OneRunning, AwakeOK, HaltOK
<1> QED BY <1>1, <1>2, <1>4, <1>5 DEF SchedInv

(* Creating a thread at a free address. *)
LEMMA NewThreadSched ==
    ASSUME SchedInv, NEW t \in Thread, NEW spare \in Space \cup {NULL}, NewThread(t, spare)
    PROVE  SchedInv'
<1> USE ThreadAssumption, SemAssumption DEF SchedInv, NewThread, Running, semVars, intVars
<1>1. TypeOK'
  BY DEF TypeOK
<1>2. BoundOK'
  BY DEF BoundOK, Outstanding
<1>3. ReadyListOK'
  BY DEF TypeOK, ReadyListOK
<1>4. QueuesOK'
  BY DEF TypeOK, QueuesOK
<1>5. OneRunning' /\ AwakeOK' /\ HaltOK'
  BY DEF TypeOK, OneRunning, AwakeOK, HaltOK
<1> QED BY <1>1, <1>2, <1>3, <1>4, <1>5

LEMMA ForkSched ==
    ASSUME SchedInv, NEW t \in Thread, NEW share \in BOOLEAN, Fork(t, share)
    PROVE  SchedInv'
<1> USE ThreadAssumption, SemAssumption DEF SchedInv, Fork, Running, semVars, intVars
<1>1. t \notin ToSet(readyList)
  BY DEF ReadyListOK
<1>2. /\ readyList' \in Seq(Thread)
      /\ ToSet(readyList') = ToSet(readyList) \cup {t}
      /\ IsInjective(readyList')
  BY <1>1, AppendLemma DEF TypeOK, ReadyListOK
<1>3. TypeOK'
  BY <1>2 DEF TypeOK
<1>4. BoundOK'
  BY DEF BoundOK, Outstanding
<1>5. ReadyListOK'
  BY <1>2 DEF TypeOK, ReadyListOK
<1>6. QueuesOK'
  BY DEF TypeOK, QueuesOK
<1>7. OneRunning' /\ AwakeOK' /\ HaltOK'
  BY DEF TypeOK, OneRunning, AwakeOK, HaltOK
<1> QED BY <1>3, <1>4, <1>5, <1>6, <1>7

LEMMA YieldSched ==
    ASSUME SchedInv, Yield
    PROVE  SchedInv'
<1> USE ThreadAssumption, SemAssumption DEF SchedInv, Yield, Running, semVars
<1> DEFINE next == Head(readyList)
<1>1. /\ next \in Thread /\ next \in ToSet(readyList)
      /\ Tail(readyList) \in Seq(Thread)
      /\ IsInjective(Tail(readyList))
      /\ ToSet(Tail(readyList)) = ToSet(readyList) \ {next}
  BY TailLemma DEF TypeOK, ReadyListOK
<1>2. status[currentThread] = "RUNNING" /\ status[next] = "READY" /\ currentThread \in Thread
  BY <1>1 DEF OneRunning, ReadyListOK, TypeOK
<1>3. /\ readyList' \in Seq(Thread)
      /\ ToSet(readyList') = (ToSet(readyList) \ {next}) \cup {currentThread}
      /\ IsInjective(readyList')
  <2> DEFINE rest == Tail(readyList)
  <2>1. currentThread \notin ToSet(rest)
    BY <1>1, <1>2 DEF ReadyListOK
  <2>2. readyList' = Append(rest, currentThread)
    OBVIOUS
  <2>3. rest \in Seq(Thread) /\ IsInjective(rest) /\ ToSet(rest) = ToSet(readyList) \ {next}
    BY <1>1
  <2> HIDE DEF SchedInv, Yield, rest, next
  <2>4. /\ Append(rest, currentThread) \in Seq(Thread)
        /\ ToSet(Append(rest, currentThread)) = ToSet(rest) \cup {currentThread}
        /\ IsInjective(Append(rest, currentThread))
    BY <1>2, <2>1, <2>3, AppendLemma
  <2> QED BY <2>2, <2>3, <2>4
<1>4. /\ status' \in [Thread -> {"NONE", "JUST_CREATED", "RUNNING", "READY", "BLOCKED"}]
      /\ status'[currentThread] = "READY" /\ status'[next] = "RUNNING"
      /\ \A t \in Thread : t # currentThread /\ t # next => status'[t] = status[t]
  BY <1>1, <1>2 DEF TypeOK
<1>5. TypeOK'
  <2>1. userRegs' \in [Thread -> Thread \cup {NULL}]
    BY DEF TypeOK, SaveUserState
  <2>2. spaceTable' \in [Space -> Space \cup {NULL}]
    BY DEF TypeOK, SaveUserState
  <2> QED BY <1>1, <1>3, <1>4, <2>1, <2>2 DEF TypeOK
<1>6. BoundOK'
  BY DEF BoundOK, Outstanding
<1>7. ReadyListOK'
  BY <1>2, <1>3, <1>4 DEF TypeOK, ReadyListOK
<1>8. QueuesOK'
  BY <1>2, <1>4 DEF TypeOK, QueuesOK
<1>9. OneRunning' /\ AwakeOK' /\ HaltOK'
  BY <1>1, <1>2, <1>4 DEF TypeOK, OneRunning, AwakeOK, HaltOK
<1> QED BY <1>5, <1>6, <1>7, <1>8, <1>9

LEMMA DispatchSched ==
    ASSUME SchedInv, Dispatch
    PROVE  SchedInv'
<1> USE ThreadAssumption, SemAssumption DEF SchedInv, Dispatch, Sleeping, semVars
<1> DEFINE next == Head(readyList)
<1>1. /\ next \in Thread /\ next \in ToSet(readyList)
      /\ readyList' \in Seq(Thread)
      /\ IsInjective(readyList')
      /\ ToSet(readyList') = ToSet(readyList) \ {next}
  BY TailLemma DEF TypeOK, ReadyListOK
<1>2. status[next] = "READY" /\ currentThread \in Thread
  BY <1>1 DEF ReadyListOK, TypeOK
<1>3. TypeOK'
  <2>1. userRegs' \in [Thread -> Thread \cup {NULL}]
    BY DEF TypeOK, SaveUserState
  <2>2. spaceTable' \in [Space -> Space \cup {NULL}]
    BY DEF TypeOK, SaveUserState
  <2> QED BY <1>1, <2>1, <2>2 DEF TypeOK
<1>4. BoundOK'
  BY DEF BoundOK, Outstanding
<1>5. ReadyListOK'
  BY <1>1, <1>2 DEF TypeOK, ReadyListOK
<1>6. QueuesOK'
  BY <1>1, <1>2 DEF TypeOK, QueuesOK
<1>7. OneRunning' /\ AwakeOK' /\ HaltOK'
  BY <1>1, <1>2 DEF TypeOK, OneRunning, AwakeOK, HaltOK
<1> QED BY <1>3, <1>4, <1>5, <1>6, <1>7

LEMMA FinishSched ==
    ASSUME SchedInv, Finish
    PROVE  SchedInv'
<1> USE ThreadAssumption, SemAssumption DEF SchedInv, Finish, Running, semVars, userVars
<1>1. status[currentThread] = "RUNNING" /\ waiting[currentThread] = NULL /\ currentThread \in Thread
  BY DEF OneRunning, TypeOK
<1>2. TypeOK' /\ BoundOK'
  BY <1>1 DEF TypeOK, BoundOK, Outstanding
<1>3. ReadyListOK'
  BY <1>1 DEF TypeOK, ReadyListOK
<1>4. QueuesOK'
  BY <1>1 DEF TypeOK, QueuesOK
<1>5. OneRunning' /\ AwakeOK' /\ HaltOK'
  BY <1>1 DEF TypeOK, OneRunning, AwakeOK, HaltOK
<1> QED BY <1>2, <1>3, <1>4, <1>5

(* What one test of P's loop does to the lists. *)
LoopTested(s) ==
    /\ value' \in [Sem -> 0..MaxValue]
    /\ \A x \in Sem : value'[x] <= value[x]
    /\ waiting' \in [Thread -> Sem \cup {NULL}]
    /\ level' \in {"IntOn", "IntOff"}
    /\ queue' \in [Sem -> Seq(Thread)]
    /\ \A x \in Sem : IsInjective(queue'[x])
    /\ \A x \in Sem : ToSet(queue'[x]) =
          ToSet(queue[x]) \cup (IF x = s THEN Asleep(s) ELSE {})
    /\ \A t \in Thread \ {currentThread} : waiting'[t] = waiting[t]
    /\ value[s] > 0 => level' = "IntOn" /\ waiting'[currentThread] = NULL
    /\ value[s] = 0 => level' = "IntOff" /\ waiting'[currentThread] = s

LEMMA TakeOrSleepLemma ==
    ASSUME SchedInv, NEW s \in Sem, TakeOrSleep(s),
           status[currentThread] = "RUNNING"
    PROVE  LoopTested(s)
<1> USE ThreadAssumption, SemAssumption DEF SchedInv, LoopTested
<1>1. /\ currentThread \in Thread /\ value \in [Sem -> 0..MaxValue]
      /\ waiting \in [Thread -> Sem \cup {NULL}] /\ queue \in [Sem -> Seq(Thread)]
      /\ MaxValue \in Nat
  BY DEF TypeOK
<1>2. \A x \in Sem : IsInjective(queue[x])
  BY DEF QueuesOK
<1> HIDE DEF SchedInv
<1>3. CASE value[s] > 0
  <2>1. /\ value' = [value EXCEPT ![s] = @ - 1]
        /\ waiting' = [waiting EXCEPT ![currentThread] = NULL]
        /\ level' = "IntOn" /\ queue' = queue /\ Asleep(s) = {}
    BY <1>1, <1>3 DEF TakeOrSleep, Asleep
  <2>2. value' \in [Sem -> 0..MaxValue] /\ \A x \in Sem : value'[x] <= value[x]
    BY <1>1, <1>3, <2>1
  <2>3. \A x \in Sem : ToSet(queue'[x]) =
          ToSet(queue[x]) \cup (IF x = s THEN Asleep(s) ELSE {})
    BY <2>1
  <2> QED BY <1>1, <1>2, <1>3, <2>1, <2>2, <2>3
<1>4. CASE value[s] = 0
  <2>1. currentThread \notin ToSet(queue[s])
    BY <1>1 DEF SchedInv, QueuesOK
  <2>2. /\ Append(queue[s], currentThread) \in Seq(Thread)
        /\ ToSet(Append(queue[s], currentThread)) = ToSet(queue[s]) \cup {currentThread}
        /\ IsInjective(Append(queue[s], currentThread))
    BY <1>1, <1>2, <2>1, AppendLemma
  <2>3. queue' = [queue EXCEPT ![s] = Append(queue[s], currentThread)]
    BY <1>4 DEF TakeOrSleep
  <2>4. /\ queue' \in [Sem -> Seq(Thread)]
        /\ \A x \in Sem : IsInjective(queue'[x])
    BY <1>1, <1>2, <2>2, <2>3
  <2>5. \A x \in Sem : ToSet(queue'[x]) =
          ToSet(queue[x]) \cup (IF x = s THEN Asleep(s) ELSE {})
    BY <1>1, <1>4, <2>2, <2>3 DEF Asleep
  <2>6. /\ value' = value /\ level' = "IntOff"
        /\ waiting' = [waiting EXCEPT ![currentThread] = s]
    BY <1>4 DEF TakeOrSleep
  <2>7. \A x \in Sem : value'[x] <= value[x]
    BY <1>1, <2>6
  <2> QED BY <1>1, <1>4, <2>4, <2>5, <2>6, <2>7
<1> QED BY <1>1, <1>3, <1>4

LEMMA PSched ==
    ASSUME SchedInv, NEW s \in Sem, P(s)
    PROVE  SchedInv'
<1> USE ThreadAssumption, SemAssumption DEF SchedInv, P, Running, userVars
<1>1. /\ status[currentThread] = "RUNNING" /\ waiting[currentThread] = NULL
      /\ currentThread \in Thread /\ threadToBeDestroyed = NULL
      /\ value[s] \in Nat
  BY DEF OneRunning, TypeOK
<1>2. LoopTested(s)
  BY <1>1, TakeOrSleepLemma
<1>3. TypeOK'
  BY <1>1, <1>2 DEF TypeOK, LoopTested
<1>4. BoundOK'
  BY <1>2 DEF BoundOK, Outstanding, TypeOK, LoopTested
<1>5. ReadyListOK'
  BY <1>1 DEF TypeOK, ReadyListOK
<1>6. CASE value[s] > 0
  <2>1. status' = status /\ Asleep(s) = {}
    BY <1>1, <1>6 DEF TypeOK, Asleep
  <2>2. QueuesOK'
    BY <1>1, <1>2, <1>6, <2>1 DEF TypeOK, QueuesOK, LoopTested
  <2>3. OneRunning' /\ AwakeOK' /\ HaltOK'
    BY <1>1, <1>2, <1>6, <2>1 DEF TypeOK, OneRunning, AwakeOK, HaltOK, LoopTested
  <2> QED BY <1>3, <1>4, <1>5, <2>2, <2>3
<1>7. CASE value[s] = 0
  <2>1. status' = [status EXCEPT ![currentThread] = "BLOCKED"] /\ Asleep(s) = {currentThread}
    BY <1>1, <1>7 DEF TypeOK, Asleep
  <2>2. QueuesOK'
    BY <1>1, <1>2, <1>7, <2>1 DEF TypeOK, QueuesOK, LoopTested
  <2>3. OneRunning' /\ AwakeOK' /\ HaltOK'
    BY <1>1, <1>2, <1>7, <2>1 DEF TypeOK, OneRunning, AwakeOK, HaltOK, LoopTested
  <2> QED BY <1>3, <1>4, <1>5, <2>2, <2>3
<1> QED BY <1>1, <1>6, <1>7

(* The thread that gets the CPU first buries the carcass, which is on no     *)
(* list, then goes on with what it was doing.                                *)
LEMMA AfterSwitchSched ==
    ASSUME SchedInv, AfterSwitch
    PROVE  SchedInv'
<1> USE ThreadAssumption, SemAssumption DEF SchedInv
<1> DEFINE s == waiting[currentThread]
           carcass == threadToBeDestroyed
<1>1. /\ status[currentThread] = "RUNNING" /\ currentThread \in Thread
      /\ s \in Sem \cup {NULL} /\ NULL \notin Sem /\ NULL \notin Thread
      /\ carcass # currentThread
      /\ carcass \in Thread => status[carcass] = "BLOCKED" /\ waiting[carcass] = NULL
  BY DEF AfterSwitch, OneRunning, TypeOK
<1>2. /\ UNCHANGED <<currentThread, readyList, mode, pending, space, userRegs, spaceTable>>
      /\ threadToBeDestroyed' = NULL /\ mode = "SystemMode"
      /\ machineRegs' \in Thread \cup {NULL} /\ pageTable' \in Space \cup {NULL}
  BY <1>1 DEF AfterSwitch, TypeOK
<1>3. CASE s = NULL
  <2>1. /\ status' = [t \in Thread |-> IF t = carcass THEN "NONE" ELSE status[t]]
        /\ level' = "IntOn" /\ UNCHANGED semVars
    BY <1>3 DEF AfterSwitch
  <2>2. TypeOK' /\ BoundOK'
    BY <1>1, <1>2, <2>1 DEF TypeOK, BoundOK, Outstanding, semVars
  <2>3. ReadyListOK' /\ QueuesOK'
    BY <1>1, <1>2, <2>1 DEF TypeOK, ReadyListOK, QueuesOK, semVars
  <2>4. OneRunning' /\ AwakeOK' /\ HaltOK'
    BY <1>1, <1>2, <1>3, <2>1 DEF TypeOK, OneRunning, AwakeOK, HaltOK, semVars
  <2> QED BY <2>2, <2>3, <2>4
<1>4. CASE s \in Sem
  <2>1. /\ status' = [t \in Thread |->
                        CASE t = carcass     -> "NONE"
                          [] t \in Asleep(s) -> "BLOCKED"
                          [] OTHER           -> status[t]]
        /\ TakeOrSleep(s)
    BY <1>1, <1>4 DEF AfterSwitch
  <2>2. LoopTested(s)
    BY <1>1, <1>4, <2>1, TakeOrSleepLemma
  <2>3. value[s] \in Nat /\ Asleep(s) = IF value[s] = 0 THEN {currentThread} ELSE {}
    BY <1>4 DEF TypeOK, Asleep
  <2>4. /\ status' \in [Thread -> {"NONE", "JUST_CREATED", "RUNNING", "READY", "BLOCKED"}]
        /\ status'[currentThread] = IF value[s] = 0 THEN "BLOCKED" ELSE "RUNNING"
        /\ \A t \in Thread \ {currentThread} :
              status'[t] = IF t = carcass THEN "NONE" ELSE status[t]
    BY <1>1, <2>1, <2>3 DEF TypeOK
  <2>5. TypeOK' /\ BoundOK'
    BY <1>1, <1>2, <2>2, <2>4 DEF TypeOK, BoundOK, Outstanding, LoopTested
  <2>6. ReadyListOK'
    BY <1>1, <1>2, <2>4 DEF TypeOK, ReadyListOK
  <2>7. \A t \in Thread \ {currentThread} : waiting'[t] = waiting[t]
    BY <2>2 DEF LoopTested
  <2>8. QueuesOK'
    <3> SUFFICES ASSUME NEW x \in Sem, NEW t \in Thread
                 PROVE  t \in ToSet(queue'[x]) <=> status'[t] = "BLOCKED" /\ waiting'[t] = x
      BY <2>2 DEF QueuesOK, LoopTested
    <3>1. ToSet(queue'[x]) = ToSet(queue[x]) \cup (IF x = s THEN Asleep(s) ELSE {})
      BY <2>2 DEF LoopTested
    <3>2. t \in ToSet(queue[x]) <=> status[t] = "BLOCKED" /\ waiting[t] = x
      BY DEF QueuesOK
    <3>3. CASE t # currentThread
      BY <1>1, <2>3, <2>4, <2>7, <3>1, <3>2, <3>3
    <3>4. CASE t = currentThread /\ value[s] = 0
      <4>1. waiting'[t] = s /\ Asleep(s) = {t}
        BY <2>2, <2>3, <3>4 DEF LoopTested
      <4> QED BY <1>1, <2>4, <3>1, <3>2, <3>4, <4>1
    <3>5. CASE t = currentThread /\ value[s] > 0
      <4>1. waiting'[t] = NULL /\ Asleep(s) = {}
        BY <2>2, <2>3, <3>5 DEF LoopTested
      <4> QED BY <1>1, <2>4, <3>1, <3>2, <3>5, <4>1
    <3> QED BY <2>3, <3>3, <3>4, <3>5
  <2>9. OneRunning'
    BY <1>1, <1>2, <2>2, <2>3, <2>4 DEF OneRunning, LoopTested
  <2>10. AwakeOK'
    <3>1. \A t \in Thread \ {currentThread} : waiting'[t] # NULL => t # carcass
      BY <1>1, <2>7
    <3> QED BY <2>3, <2>4, <2>7, <3>1 DEF AwakeOK
  <2> QED BY <1>2, <2>5, <2>6, <2>8, <2>9, <2>10 DEF HaltOK
<1> QED BY <1>1, <1>3, <1>4

(* Semaphore::V moves the first sleeper, if any, to the ready list. *)
LEMMA SignalSched ==
    ASSUME SchedInv, NEW s \in Sem, Signal(s), mode # "Halted",
           level' = level, mode' # "Halted",
           pending' \in [DeviceSem -> 0..MaxValue], mode' \in {"SystemMode", "IdleMode"},
           \A x \in Sem : value'[x] + Outstanding(x)' <= MaxValue
    PROVE  SchedInv'
<1> USE ThreadAssumption, SemAssumption DEF SchedInv
<1>1. /\ value' = [value EXCEPT ![s] = @ + 1]
      /\ UNCHANGED <<currentThread, threadToBeDestroyed, waiting, userVars>>
  BY DEF Signal
<1>2. BoundOK'
  BY DEF BoundOK
<1>3. value' \in [Sem -> 0..MaxValue]
  <2>1. \A x \in Sem : value'[x] \in Nat /\ Outstanding(x)' \in Nat
    BY <1>1 DEF TypeOK, Outstanding
  <2>2. \A x \in Sem : value'[x] \in 0..MaxValue
    BY <2>1
  <2> QED BY <1>1, <2>2 DEF TypeOK
<1>4. CASE queue[s] = <<>>
  <2>1. UNCHANGED <<queue, status, readyList>>
    BY <1>4 DEF Signal
  <2>2. TypeOK'
    BY <1>1, <1>3, <2>1 DEF TypeOK, userVars
  <2>3. ReadyListOK' /\ QueuesOK'
    BY <1>1, <2>1 DEF ReadyListOK, QueuesOK
  <2>4. OneRunning' /\ AwakeOK' /\ HaltOK'
    BY <1>1, <2>1 DEF OneRunning, AwakeOK, HaltOK
  <2> QED BY <1>2, <2>2, <2>3, <2>4
<1>5. CASE queue[s] # <<>>
  <2> DEFINE h == Head(queue[s])
             q == queue[s]
             rest == Tail(queue[s])
  <2>1. /\ queue' = [queue EXCEPT ![s] = rest]
        /\ status' = [status EXCEPT ![h] = "READY"]
        /\ readyList' = Append(readyList, h)
    BY <1>5 DEF Signal
  <2>2. q \in Seq(Thread) /\ IsInjective(q) /\ q # <<>>
    BY <1>5 DEF TypeOK, QueuesOK
  <2>3. /\ h \in Thread /\ h \in ToSet(q) /\ rest \in Seq(Thread)
        /\ IsInjective(rest) /\ ToSet(rest) = ToSet(q) \ {h}
    BY <2>2, TailLemma
  <2> HIDE DEF h, rest
  <2>4. status[h] = "BLOCKED" /\ waiting[h] = s
    BY <2>3 DEF QueuesOK
  <2>5. /\ readyList' \in Seq(Thread) /\ IsInjective(readyList')
        /\ ToSet(readyList') = ToSet(readyList) \cup {h}
    <3>1. h \notin ToSet(readyList) /\ readyList \in Seq(Thread) /\ IsInjective(readyList)
      BY <2>3, <2>4 DEF ReadyListOK, TypeOK
    <3> QED BY <2>1, <2>3, <3>1, AppendLemma
  <2>6. TypeOK'
    BY <1>1, <1>3, <2>1, <2>3, <2>5 DEF TypeOK, userVars
  <2>7. ReadyListOK'
    BY <2>1, <2>3, <2>5 DEF ReadyListOK, TypeOK
  <2>8. QueuesOK'
    <3> SUFFICES ASSUME NEW x \in Sem
                 PROVE  /\ IsInjective(queue'[x])
                        /\ \A t \in Thread : t \in ToSet(queue'[x]) <=>
                                             status'[t] = "BLOCKED" /\ waiting'[t] = x
      BY DEF QueuesOK
    <3>1. status'[h] = "READY" /\ \A t \in Thread \ {h} : status'[t] = status[t]
      BY <2>1, <2>3 DEF TypeOK
    <3>2. CASE x = s
      <4>1. queue'[x] = rest
        BY <2>1, <3>2 DEF TypeOK
      <4> QED BY <1>1, <2>3, <2>4, <3>1, <3>2, <4>1 DEF QueuesOK
    <3>3. CASE x # s
      <4>1. queue'[x] = queue[x]
        BY <2>1, <3>3 DEF TypeOK
      <4> QED BY <1>1, <2>4, <3>1, <3>3, <4>1 DEF QueuesOK
    <3> QED BY <3>2, <3>3
  <2>9. OneRunning'
    BY <1>1, <2>1, <2>3, <2>4 DEF OneRunning, TypeOK
  <2>10. AwakeOK' /\ HaltOK'
    BY <1>1, <2>1, <2>3 DEF AwakeOK, HaltOK, TypeOK
  <2> QED BY <1>2, <2>6, <2>7, <2>8, <2>9, <2>10
<1> QED BY <1>4, <1>5

(* V by the running thread, and by the handler of a device interrupt. *)
LEMMA VSched ==
    ASSUME SchedInv, NEW s \in Sem, V(s)
    PROVE  SchedInv'
<1> USE ThreadAssumption, SemAssumption
<1>1. Signal(s) /\ value' = [value EXCEPT ![s] = @ + 1] /\ UNCHANGED intVars
  BY DEF V, Signal
<1>2. \A x \in Sem : value'[x] + Outstanding(x)' <= MaxValue
  BY <1>1 DEF V, SchedInv, TypeOK, BoundOK, Outstanding, intVars
<1>3. pending' \in [DeviceSem -> 0..MaxValue]
  BY <1>1 DEF SchedInv, TypeOK, intVars
<1>4. mode = "SystemMode" /\ mode' = mode /\ level' = level
  BY <1>1 DEF V, Running, intVars
<1> QED BY <1>1, <1>2, <1>3, <1>4, SignalSched

LEMMA InterruptSched ==
    ASSUME SchedInv, NEW s \in DeviceSem, Interrupt(s) \/ Idle(s)
    PROVE  SchedInv'
<1> USE ThreadAssumption, SemAssumption
<1>1. /\ Signal(s) /\ value' = [value EXCEPT ![s] = @ + 1] /\ s \in Sem
      /\ pending' = [pending EXCEPT ![s] = @ - 1] /\ pending[s] > 0 /\ level' = level
      /\ mode # "Halted" /\ mode' \in {"SystemMode", "IdleMode"}
  BY DEF Interrupt, Idle, Signal, Running, Sleeping
<1>2. /\ pending \in [DeviceSem -> 0..MaxValue] /\ value \in [Sem -> 0..MaxValue]
      /\ \A x \in Sem : value[x] + Outstanding(x) <= MaxValue
  BY DEF SchedInv, TypeOK, BoundOK
<1>3. \A x \in Sem : value'[x] + Outstanding(x)' <= MaxValue
  BY <1>1, <1>2 DEF Outstanding
<1>4. pending' \in [DeviceSem -> 0..MaxValue]
  BY <1>1, <1>2
<1> QED BY <1>1, <1>3, <1>4, SignalSched

LEMMA ScheduleSched ==
    ASSUME SchedInv, NEW s \in DeviceSem, Schedule(s)
    PROVE  SchedInv'
<1> USE ThreadAssumption, SemAssumption
<1>1. /\ pending' = [pending EXCEPT ![s] = @ + 1] /\ value[s] + pending[s] < MaxValue
      /\ UNCHANGED <<schedVars, semVars, level, mode, userVars>> /\ s \in Sem
  BY DEF Schedule
<1>2. /\ pending \in [DeviceSem -> 0..MaxValue] /\ value \in [Sem -> 0..MaxValue]
      /\ \A x \in Sem : value[x] + Outstanding(x) <= MaxValue
  BY DEF SchedInv, TypeOK, BoundOK
<1>3. BoundOK' /\ pending' \in [DeviceSem -> 0..MaxValue]
  BY <1>1, <1>2 DEF BoundOK, Outstanding, semVars
<1> QED BY <1>1, <1>3 DEF SchedInv, TypeOK, ReadyListOK, QueuesOK, OneRunning, AwakeOK,
        HaltOK, schedVars, semVars, userVars

(* SchedInv is inductive. *)
LEMMA NextSched == SchedInv /\ [Next]_vars => SchedInv'
<1> SUFFICES ASSUME SchedInv, [Next]_vars PROVE SchedInv'
  OBVIOUS
<1>1. ASSUME NEW spare \in Space, StartProcess(spare) PROVE SchedInv'
  BY <1>1, ThreadAssumption DEF SchedInv, TypeOK, BoundOK, Outstanding, ReadyListOK, QueuesOK,
     OneRunning, AwakeOK, HaltOK, StartProcess, schedVars, semVars, intVars
<1>2. CASE Halt
  BY <1>2 DEF SchedInv, TypeOK, BoundOK, Outstanding, ReadyListOK, QueuesOK,
     OneRunning, AwakeOK, HaltOK, Halt, Sleeping, schedVars, semVars, userVars
<1>3. CASE Halted \/ UNCHANGED vars
  BY <1>3 DEF SchedInv, TypeOK, BoundOK, Outstanding, ReadyListOK, QueuesOK,
     OneRunning, AwakeOK, HaltOK, Halted, vars, schedVars, semVars, intVars, userVars
<1> QED
  BY <1>1, <1>2, <1>3, NewThreadSched, ForkSched, YieldSched, FinishSched, DispatchSched,
     AfterSwitchSched, PSched, VSched, ScheduleSched, InterruptSched DEF Next

(* In every reachable state the lists, statuses and the carcass agree, for   *)
(* any number of threads and semaphores.                                     *)
THEOREM SchedulingSafe == Spec => [](TypeOK /\ ListsMatchStatus /\ OneRunning)
<1>1. SchedInv => TypeOK /\ ListsMatchStatus /\ OneRunning
  BY DEF SchedInv, ListsMatchStatus
<1> QED BY <1>1, InitSched, NextSched, PTL DEF Spec

-----------------------------------------------------------------------------
(* Wake-ups. *)

LEMMA WokenFinite ==
    ASSUME NEW s
    PROVE  IsFiniteSet(Woken(s)) /\ Cardinality(Woken(s)) \in Nat
BY ThreadAssumption, FS_Subset, FS_CardinalityType DEF Woken

LEMMA WokenFinitePrime ==
    ASSUME NEW s
    PROVE  IsFiniteSet(Woken(s)') /\ Cardinality(Woken(s)') \in Nat
BY ThreadAssumption, FS_Subset, FS_CardinalityType DEF Woken

(* Steps that neither wake a thread nor let one finish its P. *)
LEMMA WokenUnchanged ==
    ASSUME NoLostWakeup, UNCHANGED <<value, queue>>,
           \A s \in Sem : Woken(s)' = Woken(s)
    PROVE  NoLostWakeup'
BY DEF NoLostWakeup

LEMMA InitWakeup == Init => NoLostWakeup
BY DEF Init, NoLostWakeup

LEMMA SignalWakeup ==
    ASSUME SchedInv, NoLostWakeup, NEW s \in Sem, Signal(s)
    PROVE  NoLostWakeup'
<1> SUFFICES ASSUME NEW x \in Sem, queue'[x] # <<>> PROVE value'[x] <= Cardinality(Woken(x)')
  BY DEF NoLostWakeup
<1>1. /\ value' = [value EXCEPT ![s] = @ + 1] /\ waiting' = waiting
      /\ value \in [Sem -> 0..MaxValue] /\ queue \in [Sem -> Seq(Thread)]
      /\ MaxValue \in Nat
  BY SemAssumption DEF Signal, SchedInv, TypeOK
<1>2. CASE queue[s] = <<>>
  <2>1. UNCHANGED <<queue, status>>
    BY <1>2 DEF Signal
  <2>2. x # s /\ Woken(x)' = Woken(x) /\ value'[x] = value[x]
    BY <1>1, <1>2, <2>1 DEF Woken
  <2> QED BY <2>1, <2>2 DEF NoLostWakeup
<1>3. CASE queue[s] # <<>>
  <2> DEFINE h == Head(queue[s])
  <2>1. /\ queue' = [queue EXCEPT ![s] = Tail(@)]
        /\ status' = [status EXCEPT ![h] = "READY"]
    BY <1>3 DEF Signal
  <2>2. h \in Thread /\ h \in ToSet(queue[s])
    BY <1>1, <1>3, TailLemma
  <2> HIDE DEF h
  <2>3. status[h] = "BLOCKED" /\ waiting[h] = s
    BY <2>2 DEF SchedInv, QueuesOK
  <2>4. CASE x = s
    <3>1. Woken(s)' = Woken(s) \cup {h} /\ h \notin Woken(s)
      BY <1>1, <2>1, <2>2, <2>3 DEF Woken, SchedInv, TypeOK
    <3>2. Cardinality(Woken(s)') = Cardinality(Woken(s)) + 1
      BY <3>1, WokenFinite, FS_AddElement
    <3>3. value[s] <= Cardinality(Woken(s)) /\ value'[s] = value[s] + 1
      BY <1>1, <1>3 DEF NoLostWakeup
    <3> QED BY <1>1, <2>4, <3>2, <3>3, WokenFinite
  <2>5. CASE x # s
    <3>1. Woken(x)' = Woken(x)
      BY <1>1, <2>1, <2>2, <2>3, <2>5 DEF Woken, SchedInv, TypeOK
    <3>2. queue'[x] = queue[x] /\ value'[x] = value[x]
      BY <1>1, <2>1, <2>5
    <3> QED BY <3>1, <3>2 DEF NoLostWakeup
  <2> QED BY <2>4, <2>5
<1> QED BY <1>2, <1>3

(* A thread back from Sleep takes a unit, or finds none and sleeps again. *)
LEMMA AfterSwitchWakeup ==
    ASSUME SchedInv, NoLostWakeup, AfterSwitch
    PROVE  NoLostWakeup'
<1> USE ThreadAssumption
<1> DEFINE carcass == threadToBeDestroyed
<1>1. /\ status[currentThread] = "RUNNING" /\ currentThread \in Thread
      /\ waiting[currentThread] \in Sem \cup {NULL} /\ NULL \notin Sem
      /\ carcass # currentThread
      /\ carcass \in Thread => status[carcass] = "BLOCKED"
      /\ value \in [Sem -> 0..MaxValue] /\ MaxValue \in Nat
      /\ waiting \in [Thread -> Sem \cup {NULL}]
  BY SemAssumption DEF AfterSwitch, SchedInv, OneRunning, TypeOK
<1>2. \A t \in Thread \ {currentThread} :
         status'[t] = IF t = carcass THEN "NONE" ELSE status[t]
  BY <1>1 DEF AfterSwitch, Asleep
<1>3. CASE waiting[currentThread] = NULL
  <2>1. UNCHANGED <<value, queue, waiting>> /\ status'[currentThread] = status[currentThread]
    BY <1>1, <1>3 DEF AfterSwitch, semVars
  <2>2. \A x \in Sem : Woken(x)' = Woken(x)
    BY <1>1, <1>2, <2>1 DEF Woken
  <2> QED BY <2>1, <2>2, WokenUnchanged
<1>4. ASSUME NEW s \in Sem, s = waiting[currentThread], value[s] > 0 PROVE NoLostWakeup'
  <2>1. /\ value' = [value EXCEPT ![s] = @ - 1] /\ queue' = queue
        /\ waiting' = [waiting EXCEPT ![currentThread] = NULL]
    BY <1>1, <1>4 DEF AfterSwitch, TakeOrSleep
  <2>2. Woken(s)' = Woken(s) \ {currentThread} /\ currentThread \in Woken(s)
    BY <1>1, <1>2, <1>4, <2>1 DEF Woken
  <2>3. Cardinality(Woken(s)') = Cardinality(Woken(s)) - 1
    BY <2>2, WokenFinite, FS_RemoveElement
  <2>4. \A x \in Sem \ {s} : Woken(x)' = Woken(x) /\ value'[x] = value[x]
    BY <1>1, <1>2, <1>4, <2>1 DEF Woken
  <2>5. value'[s] = value[s] - 1
    BY <1>1, <1>4, <2>1
  <2> SUFFICES ASSUME NEW x \in Sem, queue'[x] # <<>> PROVE value'[x] <= Cardinality(Woken(x)')
    BY DEF NoLostWakeup
  <2>6. CASE x = s
    BY <1>1, <1>4, <2>1, <2>3, <2>5, <2>6, WokenFinite DEF NoLostWakeup
  <2>7. CASE x # s
    BY <2>1, <2>4, <2>7 DEF NoLostWakeup
  <2> QED BY <2>6, <2>7
<1>5. ASSUME NEW s \in Sem, s = waiting[currentThread], value[s] = 0 PROVE NoLostWakeup'
  <2>1. /\ value' = value /\ queue' = [queue EXCEPT ![s] = Append(@, currentThread)]
        /\ waiting' = [waiting EXCEPT ![currentThread] = s]
    BY <1>1, <1>5 DEF AfterSwitch, TakeOrSleep
  <2>2. \A x \in Sem \ {s} : Woken(x)' = Woken(x) /\ queue'[x] = queue[x]
    BY <1>1, <1>2, <1>5, <2>1 DEF Woken, SchedInv, TypeOK
  <2>3. value'[s] <= Cardinality(Woken(s)')
    BY <1>5, <2>1, WokenFinitePrime
  <2> QED BY <2>1, <2>2, <2>3 DEF NoLostWakeup
<1> QED BY <1>1, <1>3, <1>4, <1>5

LEMMA PWakeup ==
    ASSUME SchedInv, NoLostWakeup, NEW s \in Sem, P(s)
    PROVE  NoLostWakeup'
<1> USE ThreadAssumption
<1>1. /\ status[currentThread] = "RUNNING" /\ currentThread \in Thread
      /\ waiting[currentThread] = NULL /\ NULL \notin Sem
      /\ value \in [Sem -> 0..MaxValue] /\ MaxValue \in Nat
      /\ waiting \in [Thread -> Sem \cup {NULL}] /\ queue \in [Sem -> Seq(Thread)]
      /\ status \in [Thread -> {"NONE", "JUST_CREATED", "RUNNING", "READY", "BLOCKED"}]
  BY SemAssumption DEF P, Running, SchedInv, OneRunning, TypeOK
<1>2. CASE value[s] > 0
  <2>1. /\ value' = [value EXCEPT ![s] = @ - 1] /\ queue' = queue /\ status' = status
        /\ waiting' = [waiting EXCEPT ![currentThread] = NULL]
    BY <1>1, <1>2 DEF P, TakeOrSleep
  <2>2. \A x \in Sem : Woken(x)' = Woken(x) /\ value'[x] <= value[x] /\ value'[x] \in Nat
    BY <1>1, <1>2, <2>1 DEF Woken
  <2> QED BY <1>1, <2>1, <2>2, WokenFinite DEF NoLostWakeup
<1>3. CASE value[s] = 0
  <2>1. /\ value' = value /\ queue' = [queue EXCEPT ![s] = Append(@, currentThread)]
        /\ waiting' = [waiting EXCEPT ![currentThread] = s]
        /\ status' = [status EXCEPT ![currentThread] = "BLOCKED"]
    BY <1>1, <1>3 DEF P, TakeOrSleep
  <2>2. \A x \in Sem : Woken(x)' = Woken(x)
    BY <1>1, <2>1 DEF Woken
  <2>3. \A x \in Sem \ {s} : queue'[x] = queue[x]
    BY <1>1, <2>1
  <2>4. value'[s] <= Cardinality(Woken(s)')
    BY <1>3, <2>1, WokenFinitePrime
  <2> QED BY <2>1, <2>2, <2>3, <2>4 DEF NoLostWakeup
<1> QED BY <1>1, <1>2, <1>3

LEMMA NextWakeup == SchedInv /\ NoLostWakeup /\ [Next]_vars => NoLostWakeup'
<1> SUFFICES ASSUME SchedInv, NoLostWakeup, [Next]_vars PROVE NoLostWakeup'
  OBVIOUS
<1> USE ThreadAssumption
<1>1. ASSUME NEW t \in Thread, NEW spare \in Space \cup {NULL}, NewThread(t, spare)
      PROVE  NoLostWakeup'
  <2>1. \A x \in Sem : Woken(x)' = Woken(x)
    BY <1>1 DEF NewThread, Woken, SchedInv, TypeOK, AwakeOK, semVars
  <2> QED BY <1>1, <2>1, WokenUnchanged DEF NewThread, semVars
<1>2. ASSUME NEW t \in Thread, NEW share \in BOOLEAN, Fork(t, share)
      PROVE  NoLostWakeup'
  <2>1. \A x \in Sem : Woken(x)' = Woken(x)
    BY <1>2 DEF Fork, Woken, SchedInv, TypeOK, AwakeOK, semVars
  <2> QED BY <1>2, <2>1, WokenUnchanged DEF Fork, semVars
<1>3. CASE Yield \/ Dispatch
  <2> DEFINE next == Head(readyList)
  <2>1. next \in Thread /\ next \in ToSet(readyList)
    BY <1>3, TailLemma DEF Yield, Dispatch, SchedInv, TypeOK
  <2>2. status[next] = "READY"
    BY <2>1 DEF SchedInv, ReadyListOK
  <2> HIDE DEF next
  <2>3. CASE Yield
    <3>1. /\ status' = [status EXCEPT ![currentThread] = "READY", ![next] = "RUNNING"]
          /\ UNCHANGED semVars /\ status[currentThread] = "RUNNING"
      BY <2>3 DEF Yield, Running, SchedInv, OneRunning, next
    <3>2. \A x \in Sem : Woken(x)' = Woken(x)
      BY <2>1, <2>2, <3>1 DEF Woken, SchedInv, TypeOK, semVars
    <3> QED BY <3>1, <3>2, WokenUnchanged DEF semVars
  <2>4. CASE Dispatch
    <3>1. status' = [status EXCEPT ![next] = "RUNNING"] /\ UNCHANGED semVars
      BY <2>4 DEF Dispatch, next
    <3>2. \A x \in Sem : Woken(x)' = Woken(x)
      BY <2>1, <2>2, <3>1 DEF Woken, SchedInv, TypeOK, semVars
    <3> QED BY <3>1, <3>2, WokenUnchanged DEF semVars
  <2> QED BY <1>3, <2>3, <2>4
<1>4. CASE Finish
  <2>1. \A x \in Sem : Woken(x)' = Woken(x)
    BY <1>4 DEF Finish, Running, Woken, SchedInv, OneRunning, TypeOK, semVars
  <2> QED BY <1>4, <2>1, WokenUnchanged DEF Finish, semVars
<1>5. ASSUME UNCHANGED <<schedVars, semVars>> PROVE NoLostWakeup'
  BY <1>5, WokenUnchanged DEF Woken, schedVars, semVars
<1>6. ASSUME NEW s \in Sem, V(s) PROVE NoLostWakeup'
  BY <1>6, SignalWakeup DEF V
<1>7. ASSUME NEW s \in DeviceSem, Interrupt(s) \/ Idle(s) PROVE NoLostWakeup'
  BY <1>7, SignalWakeup, SemAssumption DEF Interrupt, Idle
<1> QED
  BY <1>1, <1>2, <1>3, <1>4, <1>5, <1>6, <1>7, AfterSwitchWakeup, PWakeup
  DEF Next, StartProcess, Schedule, Halt, Halted, vars

(* No wake-up is ever lost by P and V, for any number of threads. *)
THEOREM NoWakeupLost == Spec => []NoLostWakeup
<1>1. Init => SchedInv /\ NoLostWakeup
  BY InitSched, InitWakeup
<1>2. SchedInv /\ NoLostWakeup /\ [Next]_vars => (SchedInv /\ NoLostWakeup)'
  BY NextSched, NextWakeup
<1> QED BY <1>1, <1>2, PTL DEF Spec

(* The machine stops only when no thread can ever run again. *)
THEOREM HaltIsFinal == Spec => []HaltOnlyWhenStuck
<1>1. SchedInv /\ NoLostWakeup => HaltOnlyWhenStuck
  <2> SUFFICES ASSUME SchedInv, NoLostWakeup, mode = "Halted", NEW t \in Thread
               PROVE  /\ status[t] # "READY"
                      /\ waiting[t] # NULL => value[waiting[t]] = 0
    BY DEF HaltOnlyWhenStuck
  <2>1. \A u \in Thread : status[u] # "READY" /\ status[u] # "RUNNING"
    <3>1. ToSet(readyList) = {}
      BY EmptyLemma DEF SchedInv, HaltOK, TypeOK
    <3> QED BY <3>1 DEF SchedInv, HaltOK, ReadyListOK, OneRunning
  <2>2. ASSUME waiting[t] # NULL PROVE value[waiting[t]] = 0
    <3> DEFINE s == waiting[t]
    <3>1. s \in Sem /\ value[s] \in Nat /\ status[t] = "BLOCKED"
      BY <2>1, <2>2 DEF SchedInv, TypeOK, AwakeOK
    <3>2. queue[s] # <<>>
      <4>1. t \in ToSet(queue[s]) /\ queue[s] \in Seq(Thread)
        BY <3>1 DEF SchedInv, QueuesOK, TypeOK
      <4> QED BY <4>1, EmptyLemma
    <3>3. Woken(s) = {}
      BY <2>1 DEF Woken
    <3>4. value[s] <= 0
      BY <3>1, <3>2, <3>3, FS_EmptySet DEF NoLostWakeup
    <3> QED BY <3>1, <3>4
  <2> QED BY <2>1, <2>2
<1>2. Init => SchedInv /\ NoLostWakeup
  BY InitSched, InitWakeup
<1>3. SchedInv /\ NoLostWakeup /\ [Next]_vars => (SchedInv /\ NoLostWakeup)'
  BY NextSched, NextWakeup
<1> QED BY <1>1, <1>2, <1>3, PTL DEF Spec

-----------------------------------------------------------------------------
(* User registers and page tables. *)

LEMMA InitUser == Init => UserInv
BY ThreadAssumption DEF Init, UserInv

LEMMA NextUser == SchedInv /\ UserInv /\ [Next]_vars => UserInv'
<1> SUFFICES ASSUME SchedInv, UserInv, [Next]_vars PROVE UserInv'
  OBVIOUS
<1> USE ThreadAssumption
<1>0. /\ currentThread \in Thread /\ NULL \notin Thread /\ NULL \notin Space
      /\ status \in [Thread -> {"NONE", "JUST_CREATED", "RUNNING", "READY", "BLOCKED"}]
      /\ space \in [Thread -> Space \cup {NULL}]
      /\ userRegs \in [Thread -> Thread \cup {NULL}]
      /\ spaceTable \in [Space -> Space \cup {NULL}]
      /\ level = "IntOn" => status[currentThread] = "RUNNING"
  BY DEF SchedInv, TypeOK, OneRunning
<1>1. ASSUME NEW t \in Thread, NEW spare \in Space \cup {NULL}, NewThread(t, spare)
      PROVE  UserInv'
  BY <1>0, <1>1 DEF NewThread, Running, UserInv, intVars
<1>2. ASSUME NEW t \in Thread, NEW share \in BOOLEAN, Fork(t, share)
      PROVE  UserInv'
  BY <1>0, <1>2 DEF Fork, Running, UserInv, intVars
<1>3. ASSUME NEW spare \in Space, StartProcess(spare) PROVE UserInv'
  BY <1>0, <1>3 DEF StartProcess, Running, UserInv, schedVars, intVars
<1>4. CASE Yield \/ Dispatch
  <2> DEFINE next == Head(readyList)
  <2>1. next \in Thread /\ next \in ToSet(readyList)
    BY <1>4, TailLemma DEF Yield, Dispatch, SchedInv, TypeOK
  <2>2. status[next] = "READY"
    BY <2>1 DEF SchedInv, ReadyListOK
  <2>3. /\ currentThread' = next /\ level' = "IntOff" /\ space' = space
        /\ status'[next] = "RUNNING" /\ SaveUserState
        /\ \A t \in Thread : status'[t] # "NONE" => status[t] # "NONE"
    BY <1>0, <1>4, <2>1, <2>2 DEF Yield, Dispatch, Running, Sleeping, SchedInv, TypeOK
  <2>4. level = "IntOn" \/ status[currentThread] # "RUNNING"
    BY <1>4 DEF Yield, Dispatch, Running, Sleeping
  <2>5. userRegs'[currentThread] = currentThread
    BY <1>0, <2>3, <2>4 DEF SaveUserState, UserInv
  <2>6. \A t \in Thread \ {currentThread} : userRegs'[t] = userRegs[t]
    BY <1>0, <2>3 DEF SaveUserState
  <2>7. userRegs'[next] = next
    BY <2>1, <2>2, <2>5, <2>6 DEF UserInv
  <2>8. \A spare \in Space : spaceTable'[spare] = spare
    BY <1>0, <2>3, <2>4 DEF SaveUserState, UserInv
  <2> HIDE DEF next
  <2> QED BY <2>3, <2>5, <2>6, <2>7, <2>8 DEF UserInv
<1>5. CASE Finish
  BY <1>0, <1>5 DEF Finish, Running, UserInv, userVars
<1>6. CASE AfterSwitch
  <2>1. /\ status[currentThread] = "RUNNING" /\ level = "IntOff"
        /\ UNCHANGED <<currentThread, space, userRegs, spaceTable>>
        /\ space[currentThread] # NULL =>
              machineRegs' = userRegs[currentThread] /\ pageTable' = space[currentThread]
    BY <1>0, <1>6 DEF AfterSwitch, UserInv
  <2>2. \A t \in Thread : status'[t] # "NONE" => status[t] # "NONE"
    BY <1>0, <1>6 DEF AfterSwitch, Asleep
  <2> QED BY <1>0, <2>1, <2>2 DEF UserInv
<1>7. ASSUME NEW s \in Sem, P(s) PROVE UserInv'
  <2>1. /\ level = "IntOn" /\ UNCHANGED <<currentThread, userVars>>
        /\ \A t \in Thread : status'[t] # "NONE" => status[t] # "NONE"
        /\ level' = "IntOff" => status'[currentThread] = "BLOCKED"
    BY <1>0, <1>7 DEF P, Running, TakeOrSleep
  <2> QED BY <1>0, <2>1 DEF UserInv, userVars
<1>8. ASSUME NEW s \in Sem, Signal(s), level' = level PROVE UserInv'
  <2>1. UNCHANGED <<currentThread, userVars>>
    BY <1>8 DEF Signal
  <2>2. /\ \A t \in Thread : status'[t] # "NONE" => status[t] # "NONE"
        /\ status'[currentThread] = "RUNNING" <=> status[currentThread] = "RUNNING"
    <3>1. CASE queue[s] = <<>>
      BY <1>8, <3>1 DEF Signal
    <3>2. CASE queue[s] # <<>>
      <4>1. Head(queue[s]) \in Thread /\ Head(queue[s]) \in ToSet(queue[s])
        BY <3>2, TailLemma DEF SchedInv, TypeOK
      <4>2. status[Head(queue[s])] = "BLOCKED"
        BY <4>1 DEF SchedInv, QueuesOK
      <4> QED BY <1>0, <1>8, <3>2, <4>1, <4>2 DEF Signal
    <3> QED BY <3>1, <3>2
  <2> QED BY <1>0, <1>8, <2>1, <2>2 DEF UserInv, userVars
<1>9. ASSUME NEW s \in DeviceSem, Interrupt(s) \/ Idle(s) PROVE UserInv'
  BY <1>8, <1>9, SemAssumption DEF Interrupt, Idle
<1>10. ASSUME NEW s \in Sem, V(s) PROVE UserInv'
  BY <1>8, <1>10 DEF V, intVars
<1>11. ASSUME UNCHANGED <<schedVars, level, userVars>> PROVE UserInv'
  BY <1>11 DEF UserInv, schedVars, userVars
<1> QED
  BY <1>1, <1>2, <1>3, <1>4, <1>5, <1>6, <1>7, <1>9, <1>10, <1>11
  DEF Next, Schedule, Halt, Halted, vars, intVars

(* A user thread always runs on its own registers and page table. *)
THEOREM UserContextSafe == Spec => []UserContextOK
<1>1. SchedInv /\ UserInv => UserContextOK
  BY DEF UserInv, UserContextOK
<1>2. Init => SchedInv /\ UserInv
  BY InitSched, InitUser
<1>3. SchedInv /\ UserInv /\ [Next]_vars => (SchedInv /\ UserInv)'
  BY NextSched, NextUser
<1> QED BY <1>1, <1>2, <1>3, PTL DEF Spec

-----------------------------------------------------------------------------
(* The scheduler implements indivisible semaphores. *)

LEMMA TakeOrSleepRefines ==
    ASSUME SchedInv, NEW s \in Sem, TakeOrSleep(s),
           waiting[currentThread] \in {NULL, s}
    PROVE  [Abstract!SemaphoresNext]_(Abstract!semaphoreVars)
<1>1. currentThread \in Thread /\ waiting \in [Thread -> Sem \cup {NULL}]
  BY DEF SchedInv, TypeOK
<1>2. CASE value[s] > 0
  <2>1. Abstract!Take(currentThread, s)
    BY <1>1, <1>2 DEF TakeOrSleep, Abstract!Take
  <2> QED BY <1>1, <2>1 DEF Abstract!SemaphoresNext
<1>3. CASE value[s] = 0 /\ waiting[currentThread] = NULL
  <2>1. Abstract!Wait(currentThread, s)
    BY <1>1, <1>3 DEF TakeOrSleep, Abstract!Wait
  <2> QED BY <1>1, <2>1 DEF Abstract!SemaphoresNext
<1>4. CASE value[s] = 0 /\ waiting[currentThread] = s
  <2>1. value' = value /\ waiting' = [waiting EXCEPT ![currentThread] = s]
    BY <1>4 DEF TakeOrSleep
  <2>2. waiting' = waiting
    BY <1>1, <1>4, <2>1
  <2> QED BY <2>1, <2>2 DEF Abstract!semaphoreVars
<1> QED BY <1>2, <1>3, <1>4 DEF TakeOrSleep

LEMMA SignalRefines ==
    ASSUME SchedInv, NEW s \in Sem, Signal(s), value[s] < MaxValue
    PROVE  [Abstract!SemaphoresNext]_(Abstract!semaphoreVars)
BY DEF Signal, Abstract!Give, Abstract!SemaphoresNext

LEMMA NextRefines ==
    SchedInv /\ [Next]_vars => [Abstract!SemaphoresNext]_(Abstract!semaphoreVars)
<1> SUFFICES ASSUME SchedInv, [Next]_vars
             PROVE  [Abstract!SemaphoresNext]_(Abstract!semaphoreVars)
  OBVIOUS
<1> USE ThreadAssumption, SemAssumption
<1>1. ASSUME UNCHANGED semVars PROVE [Abstract!SemaphoresNext]_(Abstract!semaphoreVars)
  BY <1>1 DEF semVars, Abstract!semaphoreVars
<1>2. ASSUME NEW s \in Sem, P(s) PROVE [Abstract!SemaphoresNext]_(Abstract!semaphoreVars)
  BY <1>2, TakeOrSleepRefines DEF P, Running, SchedInv, OneRunning
<1>3. CASE AfterSwitch
  <2>1. waiting[currentThread] \in Sem \cup {NULL}
    BY DEF SchedInv, TypeOK
  <2>2. CASE waiting[currentThread] = NULL
    BY <1>1, <1>3, <2>2 DEF AfterSwitch
  <2>3. CASE waiting[currentThread] # NULL
    BY <1>3, <2>1, <2>3, TakeOrSleepRefines DEF AfterSwitch
  <2> QED BY <2>2, <2>3
<1>4. ASSUME NEW s \in Sem, V(s) PROVE [Abstract!SemaphoresNext]_(Abstract!semaphoreVars)
  <2>1. value[s] < MaxValue
    BY <1>4 DEF V, Outstanding, SchedInv, TypeOK
  <2> QED BY <1>4, <2>1, SignalRefines DEF V
<1>5. ASSUME NEW s \in DeviceSem, Interrupt(s) \/ Idle(s)
      PROVE  [Abstract!SemaphoresNext]_(Abstract!semaphoreVars)
  <2>1. value[s] < MaxValue
    BY <1>5 DEF Interrupt, Idle, BoundOK, Outstanding, SchedInv, TypeOK
  <2> QED BY <1>5, <2>1, SignalRefines DEF Interrupt, Idle
<1> QED
  BY <1>1, <1>2, <1>3, <1>4, <1>5
  DEF Next, NewThread, Fork, StartProcess, Yield, Finish, Dispatch, Schedule, Halt, Halted, vars

(* Threads refines the abstract semaphores. *)
THEOREM ThreadsImplementSemaphores == Spec => SemaphoresImplemented
<1>1. Init => Abstract!SemaphoresInit
  BY DEF Init, Abstract!SemaphoresInit
<1> QED BY <1>1, InitSched, NextSched, NextRefines, PTL
        DEF Spec, SemaphoresImplemented, Abstract!SemaphoresSpec

-----------------------------------------------------------------------------
(* The threads of a user process. *)

Shapes ==
    /\ pc = [t \in Tid |-> pc[t]] /\ sp = [t \in Tid |-> sp[t]]
    /\ arg = [t \in Tid |-> arg[t]] /\ threadIDs = [i \in Slot |-> threadIDs[i]]

(* The table lists the living threads, once each. *)
TableOK ==
    /\ nbThreads \in Nat /\ nbThreads <= UserThreadMax
    /\ \A i \in Used : threadIDs[i] \in Tid /\ Living(threadIDs[i])
    /\ \A i, j \in Used : threadIDs[i] = threadIDs[j] => i = j
    /\ \A t \in Tid : Living(t) => \E i \in Used : threadIDs[i] = t

GivenOK ==
    /\ maxTIDGiven \in Nat
    /\ \A t \in Tid : pc[t] # "none" => t <= maxTIDGiven

(* A thread that is being created has one creator. *)
CreateOK ==
    /\ \A t \in Tid : pc[t] = "create" => arg[t] \in Tid /\ pc[arg[t]] = "new"
    /\ \A t, u \in Tid : pc[t] = "create" /\ pc[u] = "create" /\ arg[t] = arg[u] => t = u

StackOK ==
    /\ Living(MainTid)
    /\ \A t \in Tid \ {MainTid} :
          pc[t] \notin {"none", "new"} => \E i \in Slot : sp[t] = StackPointer(i)

TablesOK == TableOK /\ GivenOK /\ CreateOK /\ StackOK

UserThreadsInv == Shapes /\ ExitIsLast /\ (stopped = "no" => TablesOK)

-----------------------------------------------------------------------------
LEMMA Sizes ==
    /\ UserThreadMax \in Nat /\ UserThreadMax > 0 /\ MainTid \in Tid /\ 0 \in Slot
    /\ \A i \in Slot : i \in Nat
<1>1. StackPages \in Nat \ {0} /\ PageSize \in Nat \ {0}
  BY LayoutAssumption
<1>2. (StackPages * PageSize) \div PageSize = StackPages
  BY <1>1, Z3
<1>3. UserThreadMax = StackPages * 3
  BY <1>2 DEF UserThreadMax, UserStackSize
<1> QED BY <1>1, <1>3, LayoutAssumption DEF MainTid, Tid, Slot

(* A finite, nonempty set of integers has a smallest element. *)
LEMMA LeastElement ==
    ASSUME NEW S, S \subseteq Int, S # {}, IsFiniteSet(S)
    PROVE  \E x \in S : \A y \in S : x <= y
<1> DEFINE Below(x) == {y \in S : y <= x}
           T == {Below(x) : x \in S}
<1>1. \E u \in T : \A v \in T : ~(<<v, u>> \in StrictSubsetOrdering(S))
  <2>0. FiniteSubsetsOf(S) = SUBSET S
    BY FS_FiniteSubsetsOfFinite
  <2>1. T \subseteq SUBSET S /\ T # {}
    OBVIOUS
  <2>2. IsWellFoundedOn(StrictSubsetOrdering(S), FiniteSubsetsOf(S))
    BY FS_StrictSubsetOrderingWellFounded
  <2>3. T \subseteq FiniteSubsetsOf(S)
    BY <2>0, <2>1
  <2> HIDE DEF T
  <2> QED BY <2>1, <2>2, <2>3, WFMin
<1>2. PICK x \in S : \A z \in S : ~(<<Below(z), Below(x)>> \in StrictSubsetOrdering(S))
  BY <1>1
<1>3. ASSUME NEW z \in S, ~(x <= z) PROVE FALSE
  <2>1. Below(z) \subseteq Below(x) /\ Below(z) # Below(x)
    <3>1. z \in Int /\ x \in Int /\ z < x
      BY <1>3
    <3>2. x \in Below(x) /\ x \notin Below(z)
      BY <3>1
    <3>3. \A y \in S : y <= z => y <= x
      BY <3>1
    <3> QED BY <3>2, <3>3
  <2>2. <<Below(z), Below(x)>> \in StrictSubsetOrdering(S)
    BY <2>1 DEF StrictSubsetOrdering
  <2> QED BY <1>2, <2>2
<1> QED BY <1>3

LEMMA LeastSlot ==
    ASSUME NEW S, S \subseteq Slot, S # {}
    PROVE  \E x \in S : \A y \in S : x <= y
<1>1. UserThreadMax - 1 \in Int
  BY Sizes
<1>2. IsFiniteSet(Slot) /\ Slot \subseteq Int
  BY <1>1, FS_Interval DEF Slot
<1>3. IsFiniteSet(S) /\ S \subseteq Int
  BY <1>2, FS_Subset
<1> QED BY <1>3, LeastElement

LEMMA UsedSlots ==
    ASSUME TableOK
    PROVE  Used \subseteq Slot /\ \A i \in Used : i \in Nat
  BY Sizes DEF TableOK, Used, Slot

LEMMA InitInv == UserThreadsInit => UserThreadsInv
<1> SUFFICES ASSUME UserThreadsInit PROVE UserThreadsInv
  OBVIOUS
<1>1. Shapes
  BY DEF UserThreadsInit, Shapes
<1>2. \A t \in Tid : pc[t] = IF t = MainTid THEN "user" ELSE "none"
  BY DEF UserThreadsInit
<1>3. ExitIsLast
  BY <1>2 DEF ExitIsLast
<1>4. \A t \in Tid : Living(t) <=> t = MainTid
  BY <1>2 DEF Living
<1>5. Used = {0} /\ nbThreads = 1 /\ threadIDs[0] = MainTid
  BY Sizes DEF UserThreadsInit, Used
<1>6. TableOK
  BY <1>4, <1>5, Sizes DEF TableOK
<1>7. GivenOK /\ CreateOK /\ StackOK
  BY <1>2, <1>4, Sizes DEF UserThreadsInit, GivenOK, CreateOK, StackOK, MainTid
<1> QED BY <1>1, <1>3, <1>6, <1>7 DEF UserThreadsInv, TablesOK

-----------------------------------------------------------------------------
(* Once a thread has ended the process, no other is alive. *)
LEMMA NobodyExited ==
    ASSUME ExitIsLast, NEW t \in Tid, Living(t), pc[t] # "exited"
    PROVE  \A u \in Tid : pc[u] # "exited"
  BY DEF ExitIsLast

(* A living thread goes on, and the tables of threads stay as they are. *)
LEMMA GoesOn ==
    ASSUME UserThreadsInv, stopped = "no", NEW t \in Tid, NEW to,
           Living(t), pc[t] \notin {"new", "create", "exited"},
           to \in {"user", "join", "join woken", "exit", "exit woken"},
           pc' = [pc EXCEPT ![t] = to],
           UNCHANGED <<threadIDs, nbThreads, maxTIDGiven, sp>>,
           arg' = [u \in Tid |-> arg'[u]], \A u \in Tid \ {t} : arg'[u] = arg[u]
    PROVE  UserThreadsInv'
<1>1. /\ pc'[t] = to /\ pc' = [u \in Tid |-> pc'[u]]
      /\ \A u \in Tid \ {t} : pc'[u] = pc[u]
  BY DEF UserThreadsInv, Shapes
<1>2. \A u \in Tid : Living(u)' <=> Living(u)
  BY <1>1 DEF Living
<1>3. Shapes'
  BY <1>1 DEF UserThreadsInv, Shapes
<1>4. ExitIsLast'
  <2>1. \A u \in Tid : pc[u] # "exited"
    BY NobodyExited DEF UserThreadsInv
  <2>2. \A u \in Tid : pc'[u] # "exited"
    BY <1>1, <2>1
  <2> QED BY <2>2 DEF ExitIsLast
<1>5. TablesOK
  BY DEF UserThreadsInv
<1>6. TableOK'
  BY <1>2, <1>5 DEF TablesOK, TableOK, Used
<1>7. GivenOK'
  <2>1. pc[t] # "none"
    BY DEF Living
  <2> QED BY <1>1, <1>5, <2>1 DEF TablesOK, GivenOK
<1>8. CreateOK'
  <2>1. \A u \in Tid : pc'[u] = "create" => u # t /\ pc[u] = "create" /\ arg'[u] = arg[u]
    BY <1>1
  <2>2. \A u \in Tid : pc[u] = "new" => pc'[u] = "new"
    BY <1>1
  <2>3. ASSUME NEW u \in Tid, pc'[u] = "create" PROVE arg'[u] \in Tid /\ pc'[arg'[u]] = "new"
    <3>1. pc[u] = "create" /\ arg'[u] = arg[u]
      BY <2>1, <2>3
    <3>2. arg[u] \in Tid /\ pc[arg[u]] = "new"
      BY <1>5, <3>1 DEF TablesOK, CreateOK
    <3> QED BY <2>2, <3>1, <3>2
  <2>4. ASSUME NEW u \in Tid, NEW v \in Tid, pc'[u] = "create", pc'[v] = "create",
               arg'[u] = arg'[v]
        PROVE  u = v
    <3>1. pc[u] = "create" /\ pc[v] = "create" /\ arg[u] = arg[v]
      BY <2>1, <2>4
    <3>2. CreateOK
      BY <1>5 DEF TablesOK
    <3>3. \A x, y \in Tid : pc[x] = "create" /\ pc[y] = "create" /\ arg[x] = arg[y] => x = y
      BY <3>2, Zenon DEF CreateOK
    <3> QED BY <3>1, <3>3, Zenon
  <2> QED BY <2>3, <2>4 DEF CreateOK
<1>9. StackOK'
  <2>1. pc[t] \notin {"none", "new"}
    BY DEF Living
  <2>2. Living(MainTid)'
    BY <1>2, <1>5, Sizes DEF TablesOK, StackOK
  <2>3. \A u \in Tid : pc'[u] \notin {"none", "new"} => pc[u] \notin {"none", "new"}
    BY <1>1, <2>1
  <2> QED BY <1>5, <2>2, <2>3 DEF TablesOK, StackOK
<1> QED BY <1>3, <1>4, <1>6, <1>7, <1>8, <1>9 DEF UserThreadsInv, TablesOK

(* The simulator stops. *)
LEMMA Stops ==
    ASSUME UserThreadsInv, stopped' # "no", UNCHANGED <<threadIDs, sp>>,
           pc' = [u \in Tid |-> pc'[u]], arg' = [u \in Tid |-> arg'[u]],
           \A u \in Tid : /\ pc'[u] = "exited" => pc[u] = "exited"
                          /\ Living(u)' => Living(u)
    PROVE  UserThreadsInv'
<1>1. ExitIsLast'
  BY DEF UserThreadsInv, ExitIsLast
<1>2. Shapes'
  BY DEF UserThreadsInv, Shapes
<1> QED BY <1>1, <1>2 DEF UserThreadsInv
(***************************************************************************)
(* The actions.                                                            *)
(***************************************************************************)
LEMMA CreateIDKeeps ==
    ASSUME UserThreadsInv, NEW t \in Tid, CreateID(t)
    PROVE  UserThreadsInv'
<1>1. CASE nbThreads + 1 > UserThreadMax
  <2>1. UNCHANGED <<threadIDs, nbThreads, maxTIDGiven, pc, sp, arg, stopped>>
    BY <1>1 DEF CreateID, userThreadVars, tableVars
  <2> QED BY <2>1 DEF UserThreadsInv, Shapes, ExitIsLast, Living, TablesOK, TableOK, GivenOK,
      CreateOK, StackOK, Used
<1>2. CASE ~(nbThreads + 1 > UserThreadMax)
  <2>0. stopped = "no" /\ pc[t] = "user" /\ TablesOK /\ Shapes /\ ExitIsLast
    BY DEF CreateID, UserThreadsInv
  <2>1. PICK id \in Tid : id = maxTIDGiven + 1
    BY <1>2 DEF CreateID
  <2>2. /\ maxTIDGiven' = id /\ AddThreadID(id) /\ sp' = sp
        /\ pc' = [pc EXCEPT ![t] = "create", ![id] = "new"]
        /\ arg' = [arg EXCEPT ![t] = id]
    BY <1>2, <2>1 DEF CreateID
  <2>3. maxTIDGiven \in Nat /\ \A u \in Tid : pc[u] # "none" => u <= maxTIDGiven
    BY <2>0 DEF TablesOK, GivenOK
  <2>4. pc[id] = "none" /\ id # t
    BY <2>0, <2>1, <2>3
  <2>5. /\ pc'[t] = "create" /\ pc'[id] = "new" /\ pc' = [u \in Tid |-> pc'[u]]
        /\ \A u \in Tid \ {t, id} : pc'[u] = pc[u]
    BY <2>0, <2>2, <2>4 DEF Shapes
  <2>6. /\ arg'[t] = id /\ arg' = [u \in Tid |-> arg'[u]]
        /\ \A u \in Tid \ {t} : arg'[u] = arg[u]
    BY <2>0, <2>2 DEF Shapes
  <2>7. Living(t) /\ ~Living(id) /\ \A u \in Tid : Living(u)' <=> Living(u) \/ u = id
    BY <2>0, <2>4, <2>5 DEF Living
  <2>8. ExitIsLast'
    <3>1. \A u \in Tid : pc[u] # "exited"
      BY <2>0, <2>7, NobodyExited
    <3>2. \A u \in Tid : pc'[u] # "exited"
      BY <2>5, <3>1
    <3> QED BY <3>2 DEF ExitIsLast
  <2>9. TableOK /\ Used \subseteq Slot /\ nbThreads \in Nat /\ nbThreads \in Slot
    BY <1>2, <2>0, UsedSlots, Sizes DEF TablesOK, TableOK, Slot
  <2>10. ~ContainThreadID(id)
    BY <2>7, <2>9 DEF TableOK, ContainThreadID
  <2>11. threadIDs' = [threadIDs EXCEPT ![nbThreads] = id] /\ nbThreads' = nbThreads + 1
    BY <2>2, <2>10 DEF AddThreadID
  <2>12. /\ threadIDs'[nbThreads] = id /\ threadIDs' = [i \in Slot |-> threadIDs'[i]]
         /\ \A i \in Used : threadIDs'[i] = threadIDs[i] /\ i # nbThreads
         /\ Used' = Used \cup {nbThreads}
    BY <2>0, <2>9, <2>11 DEF Shapes, Used
  <2>13. TableOK'
    <3>1. nbThreads' \in Nat /\ nbThreads' <= UserThreadMax
      BY <1>2, <2>9, <2>11, Sizes
    <3>2. \A i \in Used : threadIDs[i] \in Tid /\ Living(threadIDs[i]) /\ threadIDs[i] # id
      BY <2>7, <2>9 DEF TableOK
    <3>3. \A i \in Used' : (threadIDs[i] \in Tid /\ Living(threadIDs[i]))'
      <4> SUFFICES ASSUME NEW i \in Used' PROVE (threadIDs[i] \in Tid /\ Living(threadIDs[i]))'
        OBVIOUS
      <4>1. PICK u \in Tid : u = threadIDs'[i] /\ (Living(u) \/ u = id)
        BY <2>12, <3>2
      <4> QED BY <2>7, <4>1 DEF Living
    <3>4. \A i, j \in Used' : threadIDs'[i] = threadIDs'[j] => i = j
      BY <2>9, <2>12, <3>2 DEF TableOK
    <3>5. \A u \in Tid : Living(u)' => \E i \in Used' : threadIDs'[i] = u
      BY <2>7, <2>9, <2>12 DEF TableOK
    <3> QED BY <3>1, <3>3, <3>4, <3>5 DEF TableOK
  <2>14. GivenOK'
    <3>1. \A u \in Tid : u <= maxTIDGiven \/ u = id => u <= id
      BY <2>1, <2>3 DEF Tid
    <3>2. \A u \in Tid : pc'[u] # "none" => u <= maxTIDGiven \/ u = id
      BY <2>0, <2>3, <2>5
    <3>3. id \in Nat
      BY <2>1, <2>3
    <3> QED BY <2>2, <3>1, <3>2, <3>3 DEF GivenOK
  <2>15. CreateOK'
    <3>1. /\ \A u \in Tid : pc[u] = "create" => arg[u] \in Tid /\ pc[arg[u]] = "new"
          /\ \A u, v \in Tid : pc[u] = "create" /\ pc[v] = "create" /\ arg[u] = arg[v] => u = v
      BY <2>0, Zenon DEF TablesOK, CreateOK
    <3>2. \A u \in Tid \ {t} : pc'[u] = "create" =>
             pc[u] = "create" /\ arg'[u] = arg[u] /\ arg[u] # id
      BY <2>4, <2>5, <2>6, <3>1
    <3>3. \A u \in Tid : pc[u] = "new" => pc'[u] = "new"
      BY <2>0, <2>4, <2>5
    <3>4. ASSUME NEW u \in Tid, pc'[u] = "create" PROVE arg'[u] \in Tid /\ pc'[arg'[u]] = "new"
      BY <2>5, <2>6, <3>1, <3>2, <3>3, <3>4
    <3>5. ASSUME NEW u \in Tid, NEW v \in Tid, pc'[u] = "create", pc'[v] = "create",
                 arg'[u] = arg'[v]
          PROVE  u = v
      BY <2>6, <3>1, <3>2, <3>5
    <3> QED BY <3>4, <3>5 DEF CreateOK
  <2>16. StackOK'
    <3>1. Living(MainTid)'
      BY <2>0, <2>7, Sizes DEF TablesOK, StackOK
    <3>2. \A u \in Tid : pc'[u] \notin {"none", "new"} => pc[u] \notin {"none", "new"}
      BY <2>0, <2>5
    <3> QED BY <2>0, <2>2, <3>1, <3>2 DEF TablesOK, StackOK
  <2>17. Shapes'
    BY <2>0, <2>2, <2>5, <2>6, <2>12 DEF Shapes
  <2> QED BY <2>8, <2>13, <2>14, <2>15, <2>16, <2>17 DEF UserThreadsInv, TablesOK
<1> QED BY <1>1, <1>2

LEMMA CreateStackKeeps ==
    ASSUME UserThreadsInv, NEW t \in Tid, CreateStack(t)
    PROVE  UserThreadsInv'
<1> DEFINE free == {i \in Slot : ~threadStackPointer[i]}
<1>0. stopped = "no" /\ pc[t] = "create" /\ TablesOK /\ Shapes /\ ExitIsLast
  BY DEF CreateStack, UserThreadsInv
<1>1. CASE free = {}
  <2>1. stopped' = "no slot" /\ UNCHANGED <<threadIDs, sp, arg, pc>>
    BY <1>1 DEF CreateStack, Abort, tableVars
  <2>2. \A u \in Tid : Living(u)' => Living(u)
    BY <2>1 DEF Living
  <2> QED BY <1>0, <2>1, <2>2, Stops DEF Shapes
<1>2. CASE free # {}
  <2>1. PICK i : i = Min(free)
    OBVIOUS
  <2>2. i \in Slot
    <3>1. PICK m \in free : \A x \in free : m <= x
      BY <1>2, LeastSlot
    <3>2. Min(free) \in free
      BY <3>1 DEF Min
    <3> QED BY <2>1, <3>2
  <2>3. PICK id \in Tid : id = arg[t] /\ pc[id] = "new" /\ id # t
    BY <1>0 DEF TablesOK, CreateOK
  <2>4. /\ sp' = [sp EXCEPT ![id] = StackPointer(i)]
        /\ pc' = [pc EXCEPT ![t] = "user", ![id] = "user"]
        /\ arg' = [arg EXCEPT ![t] = 0]
        /\ UNCHANGED <<threadIDs, nbThreads, maxTIDGiven, stopped>>
    BY <1>2, <2>1, <2>3 DEF CreateStack, tableVars
  <2>5. /\ pc'[t] = "user" /\ pc'[id] = "user" /\ pc' = [u \in Tid |-> pc'[u]]
        /\ \A u \in Tid \ {t, id} : pc'[u] = pc[u]
    BY <1>0, <2>3, <2>4 DEF Shapes
  <2>6. /\ arg' = [u \in Tid |-> arg'[u]] /\ \A u \in Tid \ {t} : arg'[u] = arg[u]
        /\ sp' = [u \in Tid |-> sp'[u]] /\ \A u \in Tid \ {id} : sp'[u] = sp[u]
        /\ sp'[id] = StackPointer(i)
    BY <1>0, <2>4 DEF Shapes
  <2>7. Living(t) /\ \A u \in Tid : Living(u)' <=> Living(u)
    BY <1>0, <2>3, <2>5 DEF Living
  <2>8. ExitIsLast'
    <3>1. \A u \in Tid : pc[u] # "exited"
      BY <1>0, <2>7, NobodyExited
    <3>2. \A u \in Tid : pc'[u] # "exited"
      BY <2>5, <3>1
    <3> QED BY <3>2 DEF ExitIsLast
  <2>9. TableOK'
    BY <1>0, <2>4, <2>7 DEF TablesOK, TableOK, Used
  <2>10. GivenOK'
    BY <1>0, <2>3, <2>4, <2>5 DEF TablesOK, GivenOK
  <2>11. CreateOK'
    <3>1. /\ \A u \in Tid : pc[u] = "create" => arg[u] \in Tid /\ pc[arg[u]] = "new"
          /\ \A u, v \in Tid : pc[u] = "create" /\ pc[v] = "create" /\ arg[u] = arg[v] => u = v
      BY <1>0, Zenon DEF TablesOK, CreateOK
    <3>2. \A u \in Tid : pc'[u] = "create" =>
             pc[u] = "create" /\ u # t /\ arg'[u] = arg[u] /\ arg[u] # id /\ arg[u] # t
      BY <1>0, <2>3, <2>5, <2>6, <3>1
    <3>3. ASSUME NEW u \in Tid, pc'[u] = "create" PROVE arg'[u] \in Tid /\ pc'[arg'[u]] = "new"
      BY <2>5, <3>1, <3>2, <3>3
    <3>4. ASSUME NEW u \in Tid, NEW v \in Tid, pc'[u] = "create", pc'[v] = "create",
                 arg'[u] = arg'[v]
          PROVE  u = v
      BY <3>1, <3>2, <3>4
    <3> QED BY <3>3, <3>4 DEF CreateOK
  <2>12. StackOK'
    <3>1. Living(MainTid)'
      BY <1>0, <2>7, Sizes DEF TablesOK, StackOK
    <3>2. ASSUME NEW u \in Tid \ {MainTid}, pc'[u] \notin {"none", "new"}
          PROVE  \E j \in Slot : sp'[u] = StackPointer(j)
      <4>1. CASE u = id
        BY <2>2, <2>6, <4>1
      <4>2. CASE u # id
        <5>1. pc[u] \notin {"none", "new"} /\ sp'[u] = sp[u]
          BY <1>0, <2>5, <2>6, <3>2, <4>2
        <5> QED BY <1>0, <5>1 DEF TablesOK, StackOK
      <4> QED BY <4>1, <4>2
    <3> QED BY <3>1, <3>2 DEF StackOK
  <2>13. Shapes'
    BY <1>0, <2>4, <2>5, <2>6 DEF Shapes
  <2> QED BY <2>8, <2>9, <2>10, <2>11, <2>12, <2>13 DEF UserThreadsInv, TablesOK
<1> QED BY <1>1, <1>2
(* Entry i is removed: the others keep their order. *)
LEMMA WithoutEntry ==
    ASSUME Shapes, TableOK, NEW i \in Used, threadIDs' = Without(i), nbThreads' = nbThreads - 1
    PROVE  /\ nbThreads' \in Nat /\ nbThreads' <= UserThreadMax
           /\ threadIDs' = [j \in Slot |-> threadIDs'[j]]
           /\ \A j \in Used' : \E k \in Used \ {i} : threadIDs'[j] = threadIDs[k]
           /\ \A j, k \in Used' : threadIDs'[j] = threadIDs'[k] => j = k
           /\ \A k \in Used \ {i} : \E j \in Used' : threadIDs'[j] = threadIDs[k]
<1>0. PICK n \in Nat : n = nbThreads /\ n <= UserThreadMax
  BY DEF TableOK
<1>1. /\ Used = 0..(n - 1) /\ Used' = 0..(n - 2) /\ Used \subseteq Slot /\ n > 0
      /\ i \in Nat /\ i <= n - 1
  BY <1>0, UsedSlots DEF Used
<1>2. \A j \in Used' : /\ j \in Nat /\ j <= n - 2
                       /\ j >= i => threadIDs'[j] = threadIDs[j + 1]
                       /\ j < i => threadIDs'[j] = threadIDs[j]
  <2> SUFFICES ASSUME NEW j \in Used'
               PROVE  /\ j \in Nat /\ j <= n - 2
                      /\ j >= i => threadIDs'[j] = threadIDs[j + 1]
                      /\ j < i => threadIDs'[j] = threadIDs[j]
    OBVIOUS
  <2>0. j \in 0..(n - 2)
    BY <1>1
  <2>1. j \in Nat /\ j <= n - 2 /\ j \in Used
    BY <1>0, <1>1, <2>0
  <2>2. j \in Slot
    BY <1>1, <2>1
  <2>3. threadIDs'[j] = IF j \in i..(n - 2) THEN threadIDs[j + 1] ELSE threadIDs[j]
    BY <1>0, <2>2 DEF Without
  <2> QED BY <1>0, <1>1, <2>1, <2>3
<1>3. nbThreads' \in Nat /\ nbThreads' <= UserThreadMax
  BY <1>0, <1>1, Sizes
<1>4. threadIDs' = [j \in Slot |-> threadIDs'[j]]
  BY DEF Without
<1>5. ASSUME NEW j \in Used' PROVE \E k \in Used \ {i} : threadIDs'[j] = threadIDs[k]
  <2>1. CASE j >= i
    <3>1. j + 1 \in Used \ {i} /\ threadIDs'[j] = threadIDs[j + 1]
      BY <1>0, <1>1, <1>2, <2>1
    <3> QED BY <3>1
  <2>2. CASE j < i
    <3>1. j \in Used \ {i} /\ threadIDs'[j] = threadIDs[j]
      BY <1>0, <1>1, <1>2, <2>2
    <3> QED BY <3>1
  <2>3. j \in Nat
    BY <1>2
  <2> QED BY <1>1, <2>1, <2>2, <2>3
<1>6. ASSUME NEW j \in Used', NEW k \in Used', threadIDs'[j] = threadIDs'[k] PROVE j = k
  <2>1. PICK a \in Used : threadIDs'[j] = threadIDs[a] /\ a = IF j >= i THEN j + 1 ELSE j
    BY <1>0, <1>1, <1>2
  <2>2. PICK b \in Used : threadIDs'[k] = threadIDs[b] /\ b = IF k >= i THEN k + 1 ELSE k
    BY <1>0, <1>1, <1>2
  <2>3. a = b
    <3>1. threadIDs[a] = threadIDs[b]
      BY <1>6, <2>1, <2>2
    <3>2. \A x, y \in Used : threadIDs[x] = threadIDs[y] => x = y
      BY DEF TableOK
    <3> QED BY <3>1, <3>2, Zenon
  <2>4. j \in Nat /\ k \in Nat
    BY <1>2
  <2> QED BY <1>1, <2>1, <2>2, <2>3, <2>4
<1>7. ASSUME NEW k \in Used \ {i} PROVE \E j \in Used' : threadIDs'[j] = threadIDs[k]
  <2>1. k \in Nat /\ k <= n - 1
    BY <1>0, <1>1
  <2>2. CASE k > i
    <3>1. PICK j \in Nat : j = k - 1 /\ j + 1 = k
      BY <1>1, <2>1, <2>2
    <3>2. j \in Used' /\ j >= i
      BY <1>0, <1>1, <2>1, <2>2, <3>1
    <3> QED BY <1>2, <3>1, <3>2
  <2>3. CASE k < i
    <3>1. k \in Used' /\ k < i
      BY <1>0, <1>1, <2>1, <2>3
    <3> QED BY <1>2, <3>1
  <2> QED BY <1>1, <2>1, <2>2, <2>3
<1> QED BY <1>3, <1>4, <1>5, <1>6, <1>7

LEMMA ExitIDKeeps ==
    ASSUME ~MainExits, UserThreadsInv, NEW t \in Tid, ExitID(t)
    PROVE  UserThreadsInv'
<1> DEFINE found == {i \in Used : threadIDs[i] = t}
<1>0. /\ stopped = "no" /\ pc[t] = "user" /\ TablesOK /\ Shapes /\ ExitIsLast /\ t # MainTid
      /\ pc' = [pc EXCEPT ![t] = "exiting"]
  BY DEF ExitID, Goto, UserThreadsInv
<1>1. /\ pc'[t] = "exiting" /\ pc' = [u \in Tid |-> pc'[u]]
      /\ \A u \in Tid \ {t} : pc'[u] = pc[u]
  BY <1>0 DEF Shapes
<1>2. Living(t) /\ \A u \in Tid : Living(u)' <=> Living(u) /\ u # t
  BY <1>0, <1>1 DEF Living
<1>3. PICK i \in Used : threadIDs[i] = t
  BY <1>0, <1>2 DEF TablesOK, TableOK
<1>4. found = {i}
  BY <1>0, <1>3 DEF TablesOK, TableOK
<1>5. Min(found) = i
  <2>1. i <= i
    BY <1>0, UsedSlots DEF TablesOK
  <2> QED BY <1>4, <2>1 DEF Min
<1>6. CASE HasCondition(t)
  <2>1. threadIDs' = Without(i) /\ nbThreads' = nbThreads - 1
        /\ UNCHANGED <<maxTIDGiven, sp, arg, stopped>>
    BY <1>4, <1>5, <1>6 DEF ExitID
  <2>2. /\ nbThreads' \in Nat /\ nbThreads' <= UserThreadMax
        /\ threadIDs' = [j \in Slot |-> threadIDs'[j]]
        /\ \A j \in Used' : \E k \in Used \ {i} : threadIDs'[j] = threadIDs[k]
        /\ \A j, k \in Used' : threadIDs'[j] = threadIDs'[k] => j = k
        /\ \A k \in Used \ {i} : \E j \in Used' : threadIDs'[j] = threadIDs[k]
    BY <1>0, <2>1, WithoutEntry DEF TablesOK
  <2>3. TableOK'
    <3>1. \A k \in Used \ {i} :
             threadIDs[k] \in Tid /\ Living(threadIDs[k]) /\ threadIDs[k] # t
      BY <1>0, <1>3 DEF TablesOK, TableOK
    <3>2. \A j \in Used' : (threadIDs[j] \in Tid /\ Living(threadIDs[j]))'
      <4> SUFFICES ASSUME NEW j \in Used' PROVE (threadIDs[j] \in Tid /\ Living(threadIDs[j]))'
        OBVIOUS
      <4>1. PICK u \in Tid : u = threadIDs'[j] /\ Living(u) /\ u # t
        BY <2>2, <3>1
      <4> QED BY <1>2, <4>1 DEF Living
    <3>3. ASSUME NEW u \in Tid, Living(u)' PROVE \E j \in Used' : threadIDs'[j] = u
      <4>1. PICK k \in Used \ {i} : threadIDs[k] = u
        BY <1>0, <1>2, <1>3, <3>3 DEF TablesOK, TableOK
      <4> QED BY <2>2, <4>1
    <3> QED BY <2>2, <3>2, <3>3 DEF TableOK
  <2>4. ExitIsLast'
    <3>1. \A u \in Tid : pc[u] # "exited"
      BY <1>0, <1>2, NobodyExited
    <3>2. \A u \in Tid : pc'[u] # "exited"
      BY <1>1, <3>1
    <3> QED BY <3>2 DEF ExitIsLast
  <2>5. GivenOK'
    BY <1>0, <1>1, <2>1 DEF TablesOK, GivenOK
  <2>6. CreateOK'
    <3>1. /\ \A u \in Tid : pc[u] = "create" => arg[u] \in Tid /\ pc[arg[u]] = "new"
          /\ \A u, v \in Tid : pc[u] = "create" /\ pc[v] = "create" /\ arg[u] = arg[v] => u = v
      BY <1>0, Zenon DEF TablesOK, CreateOK
    <3>2. \A u \in Tid : /\ pc'[u] = "create" => pc[u] = "create"
                         /\ pc[u] = "new" => pc'[u] = "new"
      BY <1>0, <1>1
    <3> QED BY <2>1, <3>1, <3>2, Zenon DEF CreateOK
  <2>7. StackOK'
    <3>1. Living(MainTid)'
      BY <1>0, <1>2, Sizes DEF TablesOK, StackOK
    <3>2. \A u \in Tid : pc'[u] \notin {"none", "new"} => pc[u] \notin {"none", "new"}
      BY <1>0, <1>1
    <3> QED BY <1>0, <2>1, <3>1, <3>2 DEF TablesOK, StackOK
  <2>8. Shapes'
    BY <1>0, <1>1, <2>1, <2>2 DEF Shapes
  <2> QED BY <2>3, <2>4, <2>5, <2>6, <2>7, <2>8 DEF UserThreadsInv, TablesOK
<1>7. CASE ~HasCondition(t)
  <2>1. stopped' = "no condition" /\ UNCHANGED <<threadIDs, sp, arg>>
    BY <1>4, <1>7 DEF ExitID, Abort, tableVars
  <2>2. \A u \in Tid : /\ pc'[u] = "exited" => pc[u] = "exited"
                       /\ Living(u)' => Living(u)
    BY <1>1, <1>2
  <2> QED BY <1>0, <1>1, <2>1, <2>2, Stops DEF Shapes
<1> QED BY <1>6, <1>7

LEMMA ExitStackKeeps ==
    ASSUME CountersSafe, UserThreadsInv, NEW t \in Tid, ExitStack(t)
    PROVE  UserThreadsInv'
<1>0. /\ stopped = "no" /\ pc[t] = "exiting" /\ TablesOK /\ Shapes /\ ExitIsLast
      /\ pc' = [pc EXCEPT ![t] = "dead"]
      /\ UNCHANGED <<threadIDs, sp, arg, stopped>>
  BY DEF ExitStack, Goto, UserThreadsInv
<1>1. t # MainTid
  BY <1>0 DEF TablesOK, StackOK, Living
<1>2. PICK i \in Slot : sp[t] = StackPointer(i)
  BY <1>0, <1>1 DEF TablesOK, StackOK
<1>3. FreedIndex(sp[t]) # NbThreadsAt /\ FreedIndex(sp[t]) # MaxTIDGivenAt
  BY <1>2 DEF CountersSafe
<1>4. nbThreads' = nbThreads /\ maxTIDGiven' = maxTIDGiven
  BY <1>3 DEF ExitStack, ClearByte
<1>5. /\ pc'[t] = "dead" /\ pc' = [u \in Tid |-> pc'[u]]
      /\ \A u \in Tid \ {t} : pc'[u] = pc[u]
  BY <1>0 DEF Shapes
<1>6. \A u \in Tid : Living(u)' <=> Living(u)
  BY <1>0, <1>5 DEF Living
<1>7. ExitIsLast'
  BY <1>0, <1>5, <1>6 DEF ExitIsLast
<1>8. TableOK'
  BY <1>0, <1>4, <1>6 DEF TablesOK, TableOK, Used
<1>9. GivenOK'
  BY <1>0, <1>4, <1>5 DEF TablesOK, GivenOK
<1>10. CreateOK'
  <2>1. /\ \A u \in Tid : pc[u] = "create" => arg[u] \in Tid /\ pc[arg[u]] = "new"
        /\ \A u, v \in Tid : pc[u] = "create" /\ pc[v] = "create" /\ arg[u] = arg[v] => u = v
    BY <1>0, Zenon DEF TablesOK, CreateOK
  <2>2. \A u \in Tid : /\ pc'[u] = "create" => pc[u] = "create"
                       /\ pc[u] = "new" => pc'[u] = "new"
    BY <1>0, <1>5
  <2>3. arg' = arg
    BY <1>0
  <2> QED BY <2>1, <2>2, <2>3, Zenon DEF CreateOK
<1>11. StackOK'
  <2>1. Living(MainTid)'
    BY <1>0, <1>6, Sizes DEF TablesOK, StackOK
  <2>2. \A u \in Tid : pc'[u] \notin {"none", "new"} => pc[u] \notin {"none", "new"}
    BY <1>0, <1>5
  <2> QED BY <1>0, <2>1, <2>2 DEF TablesOK, StackOK
<1>12. Shapes'
  BY <1>0, <1>5 DEF Shapes
<1> QED BY <1>7, <1>8, <1>9, <1>10, <1>11, <1>12 DEF UserThreadsInv, TablesOK
LEMMA WakeKeeps ==
    ASSUME UserThreadsInv, NEW t \in Tid, NEW c \in Cond, Wake(t, c)
    PROVE  UserThreadsInv'
<1>1. PICK to : /\ stopped = "no" /\ pc[t] \in {"join", "exit"} /\ to \in {"join woken", "exit woken"}
                /\ pc' = [pc EXCEPT ![t] = to]
                /\ UNCHANGED <<threadIDs, nbThreads, maxTIDGiven, sp, arg>>
  BY DEF Wake, Goto, tableVars
<1>2. Living(t) /\ arg' = [u \in Tid |-> arg'[u]]
  BY <1>1 DEF Living, UserThreadsInv, Shapes
<1> QED BY <1>1, <1>2, GoesOn

LEMMA JoinCallKeeps ==
    ASSUME UserThreadsInv, NEW t \in Tid, NEW id \in Tid, JoinCall(t, id)
    PROVE  UserThreadsInv'
<1>0. stopped = "no" /\ pc[t] = "user" /\ Living(t) /\ Shapes
  BY DEF JoinCall, Living, UserThreadsInv
<1>1. CASE HasCondition(id)
  <2>1. /\ pc' = [pc EXCEPT ![t] = "join"] /\ arg' = [arg EXCEPT ![t] = id]
        /\ UNCHANGED <<threadIDs, nbThreads, maxTIDGiven, sp>>
    BY <1>1 DEF JoinCall, CondWait, tableVars
  <2>2. arg' = [u \in Tid |-> arg'[u]] /\ \A u \in Tid \ {t} : arg'[u] = arg[u]
    BY <1>0, <2>1 DEF Shapes
  <2> QED BY <1>0, <2>1, <2>2, GoesOn
<1>2. CASE ~HasCondition(id)
  <2>1. stopped' = "no condition" /\ UNCHANGED <<threadIDs, sp, arg, pc>>
    BY <1>2 DEF JoinCall, Abort, tableVars
  <2>2. \A u \in Tid : Living(u)' => Living(u)
    BY <2>1 DEF Living
  <2> QED BY <1>0, <2>1, <2>2, Stops DEF Shapes
<1> QED BY <1>1, <1>2

LEMMA JoinTestKeeps ==
    ASSUME UserThreadsInv, NEW t \in Tid, JoinTest(t)
    PROVE  UserThreadsInv'
<1>0. stopped = "no" /\ pc[t] = "join woken" /\ Living(t) /\ Shapes
  BY DEF JoinTest, Goto, Living, UserThreadsInv
<1>1. CASE ContainThreadID(arg[t]) /\ HasCondition(arg[t])
  <2>1. /\ pc' = [pc EXCEPT ![t] = "join"] /\ arg' = arg
        /\ UNCHANGED <<threadIDs, nbThreads, maxTIDGiven, sp>>
    BY <1>1 DEF JoinTest, Goto, CondWait, tableVars
  <2>2. arg' = [u \in Tid |-> arg'[u]]
    BY <1>0, <2>1 DEF Shapes
  <2> QED BY <1>0, <2>1, <2>2, GoesOn
<1>2. CASE ContainThreadID(arg[t]) /\ ~HasCondition(arg[t])
  <2>1. /\ stopped' = "no condition" /\ UNCHANGED <<threadIDs, sp, arg>>
        /\ pc' = [pc EXCEPT ![t] = "join"]
    BY <1>2 DEF JoinTest, Goto, Abort, tableVars
  <2>2. /\ pc'[t] = "join" /\ pc' = [u \in Tid |-> pc'[u]] /\ arg' = [u \in Tid |-> arg'[u]]
        /\ \A u \in Tid \ {t} : pc'[u] = pc[u]
    BY <1>0, <2>1 DEF Shapes
  <2>3. \A u \in Tid : /\ pc'[u] = "exited" => pc[u] = "exited"
                       /\ Living(u)' => Living(u)
    BY <1>0, <2>2 DEF Living
  <2> QED BY <2>1, <2>2, <2>3, Stops
<1>3. CASE ~ContainThreadID(arg[t])
  <2>1. /\ pc' = [pc EXCEPT ![t] = "user"] /\ arg' = [arg EXCEPT ![t] = 0]
        /\ UNCHANGED <<threadIDs, nbThreads, maxTIDGiven, sp>>
    BY <1>3 DEF JoinTest, Goto, tableVars
  <2>2. arg' = [u \in Tid |-> arg'[u]] /\ \A u \in Tid \ {t} : arg'[u] = arg[u]
    BY <1>0, <2>1 DEF Shapes
  <2> QED BY <1>0, <2>1, <2>2, GoesOn
<1> QED BY <1>1, <1>2, <1>3

(* The table has one entry when the process ends, that of the thread that    *)
(* ends it.                                                                  *)
LEMMA ExitTestKeeps ==
    ASSUME UserThreadsInv, NEW t \in Tid, ExitTest(t)
    PROVE  UserThreadsInv'
<1>0. stopped = "no" /\ pc[t] \in {"user", "exit woken"} /\ Shapes /\ ExitIsLast /\ TablesOK
  BY DEF ExitTest, Goto, UserThreadsInv
<1>00. Living(t) /\ pc[t] # "exited"
  BY <1>0 DEF Living
<1>1. CASE nbThreads > 1
  <2>1. /\ pc' = [pc EXCEPT ![t] = "exit"] /\ arg' = arg
        /\ UNCHANGED <<threadIDs, nbThreads, maxTIDGiven, sp>>
    BY <1>1 DEF ExitTest, Goto, CondWait, tableVars
  <2>2. arg' = [u \in Tid |-> arg'[u]]
    BY <1>0, <2>1 DEF Shapes
  <2> QED BY <1>0, <1>00, <2>1, <2>2, GoesOn
<1>2. CASE ~(nbThreads > 1)
  <2>1. /\ pc' = [pc EXCEPT ![t] = "exited"]
        /\ UNCHANGED <<threadIDs, nbThreads, maxTIDGiven, sp, arg, stopped>>
    BY <1>2 DEF ExitTest, Goto, tableVars
  <2>2. /\ pc'[t] = "exited" /\ pc' = [u \in Tid |-> pc'[u]]
        /\ \A u \in Tid \ {t} : pc'[u] = pc[u]
    BY <1>0, <2>1 DEF Shapes
  <2>3. \A u \in Tid : Living(u)' <=> Living(u)
    BY <1>00, <2>2 DEF Living
  <2>4. \A u \in Tid : Living(u) => u = t
    <3>1. Used \subseteq {0}
      <4>1. PICK n \in Nat : n = nbThreads /\ ~(n > 1)
        BY <1>0, <1>2 DEF TablesOK, TableOK
      <4>2. 0..(n - 1) \subseteq {0}
        BY <4>1
      <4> QED BY <4>1, <4>2 DEF Used
    <3>2. PICK i \in Used : threadIDs[i] = t
      BY <1>0, <1>00 DEF TablesOK, TableOK
    <3>3. ASSUME NEW u \in Tid, Living(u) PROVE u = t
      <4>1. PICK j \in Used : threadIDs[j] = u
        BY <1>0, <3>3 DEF TablesOK, TableOK
      <4> QED BY <3>1, <3>2, <4>1
    <3> QED BY <3>3
  <2>5. ExitIsLast'
    <3>1. \A u \in Tid : pc[u] # "exited"
      BY <1>0, <1>00, NobodyExited
    <3>2. \A u \in Tid : pc'[u] = "exited" => u = t
      BY <2>2, <3>1
    <3>3. ASSUME NEW u \in Tid, NEW v \in Tid, pc'[u] = "exited", Living(v)' PROVE v = u
      BY <2>3, <2>4, <3>2, <3>3
    <3> QED BY <3>3 DEF ExitIsLast
  <2>6. TableOK'
    BY <1>0, <2>1, <2>3 DEF TablesOK, TableOK, Used
  <2>7. GivenOK'
    BY <1>0, <2>1, <2>2 DEF TablesOK, GivenOK
  <2>8. CreateOK'
    <3>1. /\ \A u \in Tid : pc[u] = "create" => arg[u] \in Tid /\ pc[arg[u]] = "new"
          /\ \A u, v \in Tid : pc[u] = "create" /\ pc[v] = "create" /\ arg[u] = arg[v] => u = v
      BY <1>0, Zenon DEF TablesOK, CreateOK
    <3>2. \A u \in Tid : /\ pc'[u] = "create" => pc[u] = "create"
                         /\ pc[u] = "new" => pc'[u] = "new"
      BY <1>0, <2>2
    <3>3. arg' = arg
      BY <2>1
    <3> QED BY <3>1, <3>2, <3>3, Zenon DEF CreateOK
  <2>9. StackOK'
    <3>1. Living(MainTid)'
      BY <1>0, <2>3, Sizes DEF TablesOK, StackOK
    <3>2. \A u \in Tid : pc'[u] \notin {"none", "new"} => pc[u] \notin {"none", "new"}
      BY <1>0, <2>2
    <3> QED BY <1>0, <2>1, <3>1, <3>2 DEF TablesOK, StackOK
  <2>10. Shapes'
    BY <1>0, <2>1, <2>2 DEF Shapes
  <2> QED BY <2>5, <2>6, <2>7, <2>8, <2>9, <2>10 DEF UserThreadsInv, TablesOK
<1> QED BY <1>1, <1>2

LEMMA StepInv ==
    ASSUME ~MainExits, CountersSafe, UserThreadsInv, [UserThreadsNext]_userThreadVars
    PROVE  UserThreadsInv'
<1>1. CASE UserThreadsNext
  <2>1. PICK t \in Tid : \/ CreateID(t) \/ CreateStack(t) \/ ExitID(t) \/ ExitStack(t)
                         \/ \E id \in Tid : JoinCall(t, id)
                         \/ \E c \in Cond : Wake(t, c)
                         \/ JoinTest(t) \/ ExitTest(t)
    BY <1>1 DEF UserThreadsNext
  <2> QED BY <2>1, CreateIDKeeps, CreateStackKeeps, ExitIDKeeps, ExitStackKeeps, JoinCallKeeps,
      WakeKeeps, JoinTestKeeps, ExitTestKeeps
<1>2. CASE UNCHANGED userThreadVars
  <2>1. UNCHANGED <<threadIDs, nbThreads, maxTIDGiven, pc, sp, arg, stopped>>
    BY <1>2 DEF userThreadVars, tableVars
  <2> QED BY <2>1 DEF UserThreadsInv, Shapes, ExitIsLast, Living, TablesOK, TableOK, GivenOK,
      CreateOK, StackOK, Used
<1> QED BY <1>1, <1>2

(* As long as main does not call UserThreadExit and the counters are out of  *)
(* reach of RemoveThreadStackPointer, do_UserProcessExit ends the process    *)
(* with no other thread alive, however creations, exits and joins of the     *)
(* other threads are interleaved with its waiting.                           *)
THEOREM ExitIsLastProved ==
    ASSUME ~MainExits, CountersSafe
    PROVE  UserThreadsSpec => []ExitIsLast
<1>1. UserThreadsInit => UserThreadsInv
  BY InitInv
<1>2. UserThreadsInv /\ [UserThreadsNext]_userThreadVars => UserThreadsInv'
  BY StepInv
<1>3. UserThreadsInv => ExitIsLast
  BY DEF UserThreadsInv
<1> QED BY <1>1, <1>2, <1>3, PTL DEF UserThreadsSpec

(* With the sizes of the code, a program of which the pages of code and      *)
(* data leave no remainder of 2 when divided by 3 has its counters safe.     *)
LEMMA SafePrograms ==
    ASSUME PageSize = 128, StackPages = 16, CodePages \in Nat, CodePages % 3 # 2
    PROVE  CountersSafe
<1>1. UserStackSize = 2048 /\ UserThreadMax = 48 /\ NbThreadsAt = 48 /\ MaxTIDGivenAt = 52
  BY DEF UserStackSize, UserThreadMax, NbThreadsAt, MaxTIDGivenAt
<1> SUFFICES ASSUME NEW i \in Slot
             PROVE  FreedIndex(StackPointer(i)) # 48 /\ FreedIndex(StackPointer(i)) # 52
  BY <1>1 DEF CountersSafe
<1>2. i \in Nat
  BY <1>1 DEF Slot
<1>3. PICK d \in Int : d = 128 * (3 * (i + 1) - CodePages) + 16
  BY <1>2
<1>4. UserStackSize - StackPointer(i) = d
  BY <1>1, <1>2, <1>3 DEF StackPointer, numPages
<1>5. FreedIndex(StackPointer(i)) = CDiv(d, 128) * 3
  BY <1>4 DEF FreedIndex
<1>6. d >= 0 => CDiv(d, 128) = 3 * (i + 1) - CodePages
  BY <1>2, <1>3, Z3 DEF CDiv
<1>7. d < 0 => CDiv(d, 128) <= 0
  BY <1>2, <1>3, Z3 DEF CDiv
<1>8. 3 * (i + 1) - CodePages # 16
  BY <1>2, Z3
<1>9. PICK c \in Int : c = CDiv(d, 128)
  <2>1. d \div 128 \in Int /\ (-d) \div 128 \in Int
    OBVIOUS
  <2> QED BY <2>1 DEF CDiv
<1>10. c # 16
  BY <1>6, <1>7, <1>8, <1>9
<1>11. c * 3 # 48 /\ c * 3 # 52
  BY <1>10
<1> QED BY <1>5, <1>9, <1>11
=============================================================================
