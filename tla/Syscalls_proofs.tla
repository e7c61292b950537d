--------------------------- MODULE Syscalls_proofs ---------------------------
(***************************************************************************)
(* Proofs about system calls and user semaphores, for any number of        *)
(* threads and semaphores, any sizes and any memory.                       *)
(*                                                                         *)
(* The inductive invariants are PcInv (the PC moves once per call and once *)
(* per fault), SemInv (ids, units, queues and sleepers of semaphores, the  *)
(* deleted ones included) and CopyInv (what is to be copied to a program   *)
(* has an end).  What the loops that copy strings compute is ReadOK and    *)
(* WriteOK, proved by induction on the turns.                              *)
(***************************************************************************)
EXTENDS Syscalls, FiniteSetTheorems, SequenceTheorems, WellFoundedInduction, TLAPS

(* A record has the fields of a thread. *)
Field == {"at", "call", "addr", "n", "moved", "faults", "r2", "string", "sem"}
Shape(r) == r = [x \in Field |-> r[x]]

Counted(r) == /\ r.n \in Nat /\ r.faults \in Nat
              /\ r.moved = r.faults + (IF r.at = "user" THEN 1 ELSE 0)
              /\ r.at = "copy" => Len(r.string) \in Nat

ThreadsOK == thr = [t \in Thread |-> thr[t]] /\ \A t \in Thread : Shape(thr[t])

(* Each call moves the PC once when it ends, and each fault once more. *)
PcInv == ThreadsOK /\ \A t \in Thread : Counted(thr[t])

-----------------------------------------------------------------------------
LEMMA EnterIs ==
    ASSUME ThreadsOK, NEW t \in Thread, NEW r, Shape(r), Enter(t, r)
    PROVE  /\ ThreadsOK' /\ thr'[t] = r
           /\ \A u \in Thread \ {t} : thr'[u] = thr[u]
<1>1. /\ thr' = [u \in Thread |-> IF u = t THEN r ELSE thr[u]]
  BY DEF ThreadsOK, Enter
<1>2. \A u \in Thread : Shape(thr'[u])
  <2> SUFFICES ASSUME NEW u \in Thread PROVE Shape(thr'[u])
    OBVIOUS
  <2>1. CASE u = t
    BY <1>1, <2>1
  <2>2. CASE u # t
    <3>1. thr'[u] = thr[u]
      BY <1>1, <2>2
    <3> QED BY <3>1 DEF ThreadsOK
  <2> QED BY <2>1, <2>2
<1>3. Shape(r)' = Shape(r)
  OBVIOUS
<1>4. (\A u \in Thread : Shape(thr[u]))'
  BY <1>2
<1> QED BY <1>1, <1>4 DEF ThreadsOK

LEMMA RunningIs ==
    /\ Shape(Running) /\ Running.at = "user" /\ Running.n = 0 /\ Running.moved = 1
    /\ Running.faults = 0 /\ Running.sem = NULL
<1>1. Shape(Running)
  BY DEF Running, Shape, Field
<1> QED BY <1>1 DEF Running

LEMMA CalledIs ==
    ASSUME NEW c
    PROVE  /\ Shape(Called(c)) /\ Called(c).at = "service" /\ Called(c).n = 0
           /\ Called(c).moved = 0 /\ Called(c).faults = 0 /\ Called(c).sem = NULL
<1>1. PICK r : r = Running
  OBVIOUS
<1>2. Called(c) = [r EXCEPT !.at = "service", !.call = c, !.moved = 0]
  BY <1>1 DEF Called
<1>3. Shape(r) /\ r.n = 0 /\ r.faults = 0 /\ r.sem = NULL
  BY <1>1, RunningIs
<1> QED BY <1>2, <1>3 DEF Shape, Field

LEMMA UpdateIs ==
    ASSUME NEW r, Shape(r)
    PROVE  /\ Shape(UpdatePC(r)) /\ UpdatePC(r).at = r.at /\ UpdatePC(r).n = r.n
           /\ UpdatePC(r).moved = r.moved + 1 /\ UpdatePC(r).faults = r.faults
           /\ UpdatePC(r).sem = r.sem
BY DEF UpdatePC, Shape, Field

(* A thread that is back in user mode. *)
LEMMA ResumeIs ==
    ASSUME NEW r
    PROVE  /\ Shape(Resume(r)) /\ Resume(r).at = "user" /\ Resume(r).n = 0
           /\ Resume(r).moved = r.moved + 1 /\ Resume(r).faults = r.faults
           /\ Resume(r).sem = NULL
<1>1. PICK x : x = IF r.call \in GivesResult THEN "result" ELSE "call"
  OBVIOUS
<1>2. PICK m : m = r.moved
  OBVIOUS
<1>3. PICK f : f = r.faults
  OBVIOUS
<1>4. PICK q : q = Running
  OBVIOUS
<1>5. PICK y : y = [q EXCEPT !.moved = m, !.faults = f, !.r2 = x]
  OBVIOUS
<1>6. Resume(r) = UpdatePC(y)
  BY <1>1, <1>2, <1>3, <1>4, <1>5 DEF Resume
<1>7. Shape(q) /\ q.at = "user" /\ q.n = 0 /\ q.sem = NULL
  BY <1>4, RunningIs
<1>8. /\ Shape(y) /\ y.at = "user" /\ y.n = 0 /\ y.sem = NULL
      /\ y.moved = m /\ y.faults = f
  BY <1>5, <1>7 DEF Shape, Field
<1> QED BY <1>2, <1>3, <1>6, <1>8, UpdateIs

(* Every access of an unmapped address is one fault and one move of the PC. *)
LEMMA AccessIs ==
    ASSUME NEW r, Shape(r), NEW A, IsFiniteSet(A)
    PROVE  \E k \in Nat : /\ Shape(Access(r, A)) /\ Access(r, A).at = r.at
                          /\ Access(r, A).n = r.n /\ Access(r, A).sem = r.sem
                          /\ Access(r, A).moved = r.moved + k
                          /\ Access(r, A).faults = r.faults + k
<1>1. PICK k \in Nat : k = Cardinality(A \ Address)
  <2>1. IsFiniteSet(A \ Address)
    BY FS_Subset
  <2> QED BY <2>1, FS_CardinalityType
<1>2. Access(r, A) = [r EXCEPT !.faults = @ + k, !.moved = @ + k]
  BY <1>1 DEF Access
<1> QED BY <1>2 DEF Shape, Field

LEMMA OffsetsFinite ==
    ASSUME NEW a, NEW b \in Int, NEW S, S \subseteq 0..b
    PROVE  IsFiniteSet({a + i : i \in S})
<1>1. IsFiniteSet(0..b)
  BY FS_Interval
<1>2. IsFiniteSet(S)
  BY <1>1, FS_Subset
<1> DEFINE T == {a + i : i \in S}
           f == [i \in S |-> a + i]
<1>3. f \in Surjection(S, T)
  BY DEF Surjection
<1> QED BY <1>2, <1>3, FS_Surjection

-----------------------------------------------------------------------------
(* What a step does to the thread that makes it and to the semaphores. *)
Awake == {"user", "service", "copy", "gone"}

Moved(t) == /\ ThreadsOK' /\ Counted(thr'[t])
            /\ \A u \in Thread \ {t} : thr'[u] = thr[u]

Calm(t) == Moved(t) /\ thr[t].at \in Awake /\ thr'[t].at \in Awake

Quiet(t) == Calm(t) /\ UNCHANGED <<UserSemaphores, heap>>

Made(t) ==
    /\ Calm(t)
    /\ \E val \in Int, i \in Free :
          /\ heap' = Append(heap, [init |-> val, posts |-> 0, waits |-> 0, value |-> val,
                                   queue |-> <<>>, alive |-> TRUE])
          /\ UserSemaphores' = [UserSemaphores EXCEPT ![i] = Len(heap')]

Named(s) == s # NULL /\ \E i \in Sid : UserSemaphores[i] = s

(* A call of V, where the head of the queue wakes. *)
Raised(s) ==
    heap' = [heap EXCEPT ![s].queue = IF @ = <<>> THEN @ ELSE Tail(@),
                         ![s].value = @ + 1, ![s].posts = @ + 1]

First(s) == IF heap[s].queue = <<>> THEN {} ELSE {Head(heap[s].queue)}

Posted(t, s) ==
    /\ Named(s) /\ ThreadsOK' /\ Raised(s) /\ UNCHANGED UserSemaphores
    /\ thr[t].at = "user" /\ thr'[t].at = "user" /\ Counted(thr'[t])
    /\ \A u \in Thread \ {t} :
          IF u \in First(s) THEN thr'[u] = [thr[u] EXCEPT !.at = "woken"] ELSE thr'[u] = thr[u]

Comes(t, s) == \/ thr[t].at = "user" /\ Named(s)
               \/ thr[t].at = "woken" /\ thr[t].sem = s

Slept(t, s) ==
    /\ Comes(t, s) /\ Moved(t) /\ UNCHANGED UserSemaphores
    /\ heap[s].value = 0 /\ heap' = [heap EXCEPT ![s].queue = Append(@, t)]
    /\ thr'[t].at = "asleep" /\ thr'[t].sem = s

Took(t, s) ==
    /\ Comes(t, s) /\ Moved(t) /\ UNCHANGED UserSemaphores
    /\ heap[s].value # 0 /\ heap' = [heap EXCEPT ![s].value = @ - 1, ![s].waits = @ + 1]
    /\ thr'[t].at = "user"

Deleted(t, sid) ==
    /\ Calm(t)
    /\ heap' = [s \in DOMAIN heap |->
                  IF s = UserSemaphores[sid] THEN [heap[s] EXCEPT !.alive = FALSE] ELSE heap[s]]
    /\ UserSemaphores' = [UserSemaphores EXCEPT ![sid] = NULL]

StepKinds ==
    \/ UNCHANGED <<thr, UserSemaphores, heap>>
    \/ \E t \in Thread :
          \/ Quiet(t) \/ Made(t)
          \/ \E s : Posted(t, s) \/ Slept(t, s) \/ Took(t, s)
          \/ \E sid \in Sid : Deleted(t, sid)

-----------------------------------------------------------------------------
LEMMA EntersCalm ==
    ASSUME PcInv, NEW t \in Thread, NEW r, Enter(t, r), thr[t].at \in Awake,
           Shape(r), Counted(r), r.at \in Awake
    PROVE  Calm(t)
BY EnterIs DEF PcInv, Calm, Moved

LEMMA WithStringKind ==
    ASSUME PcInv, NEW t \in Thread, NEW c, NEW from, NEW n \in Nat,
           CallWithString(t, c, from, n)
    PROVE  Quiet(t)
<1> DEFINE size == IF c = "ForkExec" THEN MAX_EXEC_NAME_LEN ELSE MAX_STRING_SIZE
           r == [Called(c) EXCEPT !.addr = from, !.n = n]
<1>1. size \in Nat
  BY SyscallsAssumption
<1>2. /\ Shape(r) /\ r.at = "service" /\ r.n = n /\ r.moved = 0 /\ r.faults = 0
  <2>1. PICK x : x = Called(c)
    OBVIOUS
  <2>2. Shape(x) /\ x.at = "service" /\ x.n = 0 /\ x.moved = 0 /\ x.faults = 0
    BY <2>1, CalledIs
  <2>3. r = [x EXCEPT !.addr = from, !.n = n]
    BY <2>1
  <2> QED BY <2>2, <2>3 DEF Shape, Field
<1> HIDE DEF r, size
<1>3. PICK to, A : /\ IsFiniteSet(A)
                   /\ CopyStringFromMachine(r, from, size)
                        = [Access(r, A) EXCEPT !.string = Append(to, NUL)]
  <2>1. PICK to : to = ReadString(from, size)
    OBVIOUS
  <2>2. PICK A : A = {from + i : i \in {j \in 0..(size - 2) : j < Len(to)}}
    OBVIOUS
  <2>3. IsFiniteSet(A)
    <3>1. PICK S : S = {j \in 0..(size - 2) : j < Len(to)}
      OBVIOUS
    <3>2. PICK b \in Int : b = size - 2
      BY <1>1
    <3>3. S \subseteq 0..b
      BY <3>1, <3>2
    <3>4. IsFiniteSet({from + i : i \in S})
      BY <3>3, OffsetsFinite
    <3> QED BY <2>2, <3>1, <3>4
  <2>4. CopyStringFromMachine(r, from, size) = [Access(r, A) EXCEPT !.string = Append(to, NUL)]
    BY <2>1, <2>2 DEF CopyStringFromMachine
  <2> QED BY <2>3, <2>4
<1>4. PICK y : y = Access(r, A)
  OBVIOUS
<1>5. PICK x : x = [y EXCEPT !.string = Append(to, NUL)]
  OBVIOUS
<1>6. PICK k \in Nat : Shape(y) /\ y.at = "service" /\ y.n = n /\ y.moved = k /\ y.faults = k
  <2>1. \E k \in Nat : /\ Shape(Access(r, A)) /\ Access(r, A).at = r.at
                        /\ Access(r, A).n = r.n /\ Access(r, A).sem = r.sem
                        /\ Access(r, A).moved = r.moved + k
                        /\ Access(r, A).faults = r.faults + k
    BY <1>2, <1>3, AccessIs
  <2> QED BY <1>2, <1>4, <2>1
<1>7. Shape(x) /\ x.at = "service" /\ x.n = n /\ x.moved = k /\ x.faults = k
  BY <1>5, <1>6 DEF Shape, Field
<1>8. Enter(t, x) /\ thr[t].at = "user" /\ UNCHANGED <<UserSemaphores, heap>>
  BY <1>3, <1>4, <1>5 DEF CallWithString, Trap, r, size
<1>9. Counted(x)
  BY <1>7 DEF Counted
<1> QED BY <1>7, <1>8, <1>9, EntersCalm DEF Quiet, Awake

(* The other calls that do no more than enter the kernel or leave it. *)
LEMMA EnterKind ==
    ASSUME PcInv, NEW t \in Thread, NEW r, Shape(r), r.n \in Nat, r.faults = 0,
           r.moved = IF r.at = "user" THEN 1 ELSE 0, r.at \in {"user", "service", "gone"},
           Enter(t, r), thr[t].at = "user"
    PROVE  Calm(t)
<1>1. Counted(r) /\ r.at \in Awake
  BY DEF Counted, Awake
<1> QED BY <1>1, EntersCalm DEF Awake

LEMMA BufferKind ==
    ASSUME PcInv, NEW t \in Thread, NEW c, NEW to, NEW n \in Nat, CallWithBuffer(t, c, to, n)
    PROVE  Quiet(t)
<1>1. PICK x : x = Called(c)
  OBVIOUS
<1>2. PICK r : r = [x EXCEPT !.addr = to, !.n = n]
  OBVIOUS
<1>3. Shape(x) /\ x.at = "service" /\ x.moved = 0 /\ x.faults = 0
  BY <1>1, CalledIs
<1>4. Shape(r) /\ r.at = "service" /\ r.n = n /\ r.moved = 0 /\ r.faults = 0
  BY <1>2, <1>3 DEF Shape, Field
<1>5. Enter(t, r) /\ thr[t].at = "user" /\ UNCHANGED <<UserSemaphores, heap>>
  BY <1>1, <1>2 DEF CallWithBuffer, Trap
<1> QED BY <1>4, <1>5, EnterKind DEF Quiet

LEMMA PlainKind ==
    ASSUME PcInv, NEW t \in Thread, NEW c, CallPlain(t, c)
    PROVE  Quiet(t)
<1>1. Enter(t, Called(c)) /\ thr[t].at = "user" /\ UNCHANGED <<UserSemaphores, heap>>
  BY DEF CallPlain, Trap
<1>2. PICK r : r = Called(c)
  OBVIOUS
<1>3. Shape(r) /\ r.at = "service" /\ r.n = 0 /\ r.moved = 0 /\ r.faults = 0
  BY <1>2, CalledIs
<1> QED BY <1>1, <1>2, <1>3, EnterKind DEF Quiet

LEMMA WaitPidKind ==
    ASSUME PcInv, NEW t \in Thread, NEW refused, CallWaitPid(t, refused)
    PROVE  Quiet(t)
<1>1. PICK x : x = Called("WaitPid")
  OBVIOUS
<1>2. PICK v : v = IF refused THEN "result" ELSE "call"
  OBVIOUS
<1>3. PICK r : r = [x EXCEPT !.r2 = v]
  OBVIOUS
<1>4. Shape(x) /\ x.at = "service" /\ x.n = 0 /\ x.moved = 0 /\ x.faults = 0
  BY <1>1, CalledIs
<1>5. Shape(r) /\ r.at = "service" /\ r.n = 0 /\ r.moved = 0 /\ r.faults = 0
  BY <1>3, <1>4 DEF Shape, Field
<1>6. Enter(t, r) /\ thr[t].at = "user" /\ UNCHANGED <<UserSemaphores, heap>>
  BY <1>1, <1>2, <1>3 DEF CallWaitPid, Trap
<1> QED BY <1>5, <1>6, EnterKind DEF Quiet

LEMMA NoReturnKind ==
    ASSUME PcInv, NEW t \in Thread, NEW c, CallNoReturn(t, c)
    PROVE  Quiet(t)
<1>1. PICK x : x = Called(c)
  OBVIOUS
<1>2. PICK r : r = [x EXCEPT !.at = "gone"]
  OBVIOUS
<1>3. Shape(x) /\ x.n = 0 /\ x.moved = 0 /\ x.faults = 0
  BY <1>1, CalledIs
<1>4. Shape(r) /\ r.at = "gone" /\ r.n = 0 /\ r.moved = 0 /\ r.faults = 0
  BY <1>2, <1>3 DEF Shape, Field
<1>5. Enter(t, r) /\ thr[t].at = "user" /\ UNCHANGED <<UserSemaphores, heap>>
  BY <1>1, <1>2 DEF CallNoReturn, Trap
<1> QED BY <1>4, <1>5, EnterKind DEF Quiet

(* A call that is over at once. *)
LEMMA AtOnce ==
    ASSUME NEW c, NEW x
    PROVE  LET r == UpdatePC([Called(c) EXCEPT !.at = "user", !.r2 = x])
           IN  Shape(r) /\ r.at = "user" /\ r.n = 0 /\ r.moved = 1 /\ r.faults = 0
<1>1. PICK y : y = Called(c)
  OBVIOUS
<1>2. PICK z : z = [y EXCEPT !.at = "user", !.r2 = x]
  OBVIOUS
<1>3. Shape(y) /\ y.n = 0 /\ y.moved = 0 /\ y.faults = 0
  BY <1>1, CalledIs
<1>4. Shape(z) /\ z.at = "user" /\ z.n = 0 /\ z.moved = 0 /\ z.faults = 0
  BY <1>2, <1>3 DEF Shape, Field
<1>5. PICK r : r = UpdatePC(z)
  OBVIOUS
<1>6. Shape(r) /\ r.at = "user" /\ r.n = 0 /\ r.moved = 0 + 1 /\ r.faults = 0
  BY <1>4, <1>5, UpdateIs
<1> QED BY <1>1, <1>2, <1>5, <1>6

LEMMA SemCallKind ==
    ASSUME PcInv, NEW t \in Thread, NEW x, SemCall(t, x), thr[t].at = "user"
    PROVE  Calm(t)
<1>1. PICK r : r = UpdatePC([Called("Sem") EXCEPT !.at = "user", !.r2 = x])
  OBVIOUS
<1>2. Shape(r) /\ r.at = "user" /\ r.n = 0 /\ r.moved = 1 /\ r.faults = 0
  BY <1>1, AtOnce
<1>3. Enter(t, r)
  BY <1>1 DEF SemCall
<1> QED BY <1>2, <1>3, EnterKind

LEMMA ExceptionKind ==
    ASSUME PcInv, NEW t \in Thread, OtherException(t)
    PROVE  Quiet(t)
<1>1. PICK x : x = Called("none")
  OBVIOUS
<1>2. PICK y : y = [x EXCEPT !.at = "user"]
  OBVIOUS
<1>3. PICK r : r = UpdatePC(y)
  OBVIOUS
<1>4. Shape(x) /\ x.n = 0 /\ x.moved = 0 /\ x.faults = 0
  BY <1>1, CalledIs
<1>5. Shape(y) /\ y.at = "user" /\ y.n = 0 /\ y.moved = 0 /\ y.faults = 0
  BY <1>2, <1>4 DEF Shape, Field
<1>6. Shape(r) /\ r.at = "user" /\ r.n = 0 /\ r.moved = 0 + 1 /\ r.faults = 0
  BY <1>3, <1>5, UpdateIs
<1>7. Enter(t, r) /\ thr[t].at = "user" /\ UNCHANGED <<UserSemaphores, heap>>
  BY <1>1, <1>2, <1>3 DEF OtherException, Trap
<1> QED BY <1>6, <1>7, EnterKind DEF Quiet

(* The end of a call that waited. *)
LEMMA ResumeKind ==
    ASSUME PcInv, NEW t \in Thread, NEW r, r.faults \in Nat, r.moved = r.faults,
           Enter(t, Resume(r)), thr[t].at \in {"service", "copy"}
    PROVE  Calm(t)
<1>1. PICK x : x = Resume(r)
  OBVIOUS
<1>2. Shape(x) /\ x.at = "user" /\ x.n = 0 /\ x.moved = r.moved + 1 /\ x.faults = r.faults
  BY <1>1, ResumeIs
<1>3. Counted(x) /\ x.at \in Awake
  BY <1>2 DEF Counted, Awake
<1> QED BY <1>1, <1>2, <1>3, EntersCalm DEF Awake

LEMMA ReturnKind ==
    ASSUME PcInv, NEW t \in Thread, Return(t)
    PROVE  Quiet(t)
<1>1. thr[t].at = "service" /\ Enter(t, Resume(thr[t])) /\ UNCHANGED <<UserSemaphores, heap>>
  BY DEF Return, InService
<1>2. thr[t].faults \in Nat /\ thr[t].moved = thr[t].faults
  BY <1>1 DEF PcInv, Counted
<1> QED BY <1>1, <1>2, ResumeKind DEF Quiet

LEMMA FetchedKind ==
    ASSUME PcInv, NEW t \in Thread, thr[t].at = "service", NEW string, Len(string) \in Nat,
           Fetched(t, string)
    PROVE  Quiet(t)
<1>1. PICK x : x = thr[t]
  OBVIOUS
<1>2. PICK r : r = [x EXCEPT !.at = "copy", !.string = string]
  OBVIOUS
<1>3. /\ Shape(x) /\ x.at = "service" /\ x.n \in Nat /\ x.faults \in Nat
      /\ x.moved = x.faults
  BY <1>1 DEF PcInv, ThreadsOK, Counted
<1>4. /\ Shape(r) /\ r.at = "copy" /\ r.string = string /\ r.n = x.n /\ r.faults = x.faults
      /\ r.moved = x.moved
  BY <1>2, <1>3 DEF Shape, Field
<1>5. Counted(r) /\ r.at \in Awake
  BY <1>3, <1>4 DEF Counted, Awake
<1>6. Enter(t, r) /\ UNCHANGED <<UserSemaphores, heap>>
  BY <1>1, <1>2 DEF Fetched
<1> QED BY <1>4, <1>5, <1>6, EntersCalm DEF Quiet, Awake

LEMMA ReadKind ==
    ASSUME PcInv, NEW t \in Thread, FileRead(t) \/ LineRead(t) \/ NothingRead(t)
    PROVE  Quiet(t)
<1>1. thr[t].n \in Nat
  BY DEF PcInv, Counted
<1>2. thr[t].at = "service"
  BY DEF FileRead, LineRead, NothingRead, InService
<1>3. \A k \in Nat : Len(Append([i \in 1..k |-> 1], NUL)) \in Nat
  <2> SUFFICES ASSUME NEW k \in Nat PROVE Len(Append([i \in 1..k |-> 1], NUL)) \in Nat
    OBVIOUS
  <2>1. [i \in 1..k |-> 1] \in Seq({1, NUL})
    BY SeqDef
  <2> QED BY <2>1 DEF NUL
<1>4. CASE FileRead(t)
  <2>1. PICK string \in [1..thr[t].n -> Byte] : Fetched(t, string)
    BY <1>4 DEF FileRead
  <2>2. string \in Seq(Byte)
    BY <1>1, SeqDef
  <2> QED BY <1>2, <2>1, <2>2, FetchedKind
<1>5. CASE LineRead(t)
  <2>1. PICK got \in 0..(IF thr[t].n = 1 THEN 0 ELSE thr[t].n) :
           Fetched(t, Append([i \in 1..got |-> 1], NUL))
    BY <1>5 DEF LineRead
  <2>2. got \in Nat
    BY <1>1
  <2> QED BY <1>2, <1>3, <2>1, <2>2, FetchedKind
<1>6. CASE NothingRead(t)
  <2>1. PICK extra \in 0..MemSize : Fetched(t, Append([i \in 1..extra |-> 1], NUL))
    BY <1>6 DEF NothingRead
  <2>2. extra \in Nat
    BY SyscallsAssumption
  <2> QED BY <1>2, <1>3, <2>1, <2>2, FetchedKind
<1> QED BY <1>4, <1>5, <1>6

LEMMA AccessResumeKind ==
    ASSUME PcInv, NEW t \in Thread, thr[t].at \in {"service", "copy"}, NEW A, IsFiniteSet(A),
           Enter(t, Resume(Access(thr[t], A)))
    PROVE  Calm(t)
<1>1. PICK r : r = thr[t]
  OBVIOUS
<1>2. Shape(r) /\ r.faults \in Nat /\ r.moved = r.faults
  BY <1>1 DEF PcInv, ThreadsOK, Counted
<1>3. PICK x : x = Access(r, A)
  OBVIOUS
<1>4. \E k \in Nat : /\ Shape(Access(r, A)) /\ Access(r, A).at = r.at
                     /\ Access(r, A).n = r.n /\ Access(r, A).sem = r.sem
                     /\ Access(r, A).moved = r.moved + k
                     /\ Access(r, A).faults = r.faults + k
  BY <1>2, AccessIs
<1>5. x.faults \in Nat /\ x.moved = x.faults
  BY <1>2, <1>3, <1>4
<1> QED BY <1>1, <1>3, <1>5, ResumeKind

LEMMA CopyOutKind ==
    ASSUME PcInv, NEW t \in Thread, CopyOut(t)
    PROVE  Quiet(t)
<1>1. PICK r : r = thr[t]
  OBVIOUS
<1>2. PICK size : size = IF r.n = 0 THEN Len(r.string) ELSE r.n
  OBVIOUS
<1>3. size \in Nat
  BY <1>1, <1>2 DEF PcInv, Counted, CopyOut
<1>4. PICK s : s = WriteString(r.string, r.addr, size)
  OBVIOUS
<1>5. PICK S : S = {j \in 0..(size - 1) : j <= s.i}
  OBVIOUS
<1>6. PICK b \in Int : b = size - 1
  BY <1>3
<1>7. S \subseteq 0..b
  BY <1>5, <1>6
<1>8. PICK A : A = {r.addr + i : i \in S}
  OBVIOUS
<1>9. IsFiniteSet(A)
  BY <1>7, <1>8, OffsetsFinite
<1>10. CopyStringToMachine(r, r.string, r.addr, size).r = Access(r, A)
  BY <1>4, <1>5, <1>8 DEF CopyStringToMachine
<1>11. Enter(t, Resume(CopyStringToMachine(r, r.string, r.addr, size).r))
  BY <1>1, <1>2 DEF CopyOut
<1>12. thr[t].at = "copy" /\ UNCHANGED <<UserSemaphores, heap>>
  BY DEF CopyOut
<1>13. Enter(t, Resume(Access(thr[t], A)))
  BY <1>1, <1>10, <1>11
<1> QED BY <1>9, <1>12, <1>13, AccessResumeKind DEF Quiet

LEMMA GetIntKind ==
    ASSUME PcInv, NEW t \in Thread, GetInt(t)
    PROVE  Quiet(t)
<1>1. IsFiniteSet({thr[t].addr})
  BY FS_Singleton
<1>2. /\ thr[t].at = "service" /\ Enter(t, Resume(Access(thr[t], {thr[t].addr})))
      /\ UNCHANGED <<UserSemaphores, heap>>
  BY DEF GetInt, InService
<1> QED BY <1>1, <1>2, AccessResumeKind DEF Quiet

LEMMA CreateKind ==
    ASSUME PcInv, NEW t \in Thread, NEW val \in Values, SemCreate(t, val)
    PROVE  Quiet(t) \/ Made(t)
<1>1. Calm(t)
  BY SemCallKind DEF SemCreate, Trap
<1>2. val \in Int
  BY SyscallsAssumption
<1> QED BY <1>1, <1>2 DEF SemCreate, Quiet, Made

LEMMA RefuseKind ==
    ASSUME PcInv, NEW t \in Thread, Refuse(t), thr[t].at = "user"
    PROVE  Quiet(t)
BY SemCallKind DEF Refuse, Quiet

(* SemPost of a semaphore. *)
LEMMA PostedKind ==
    ASSUME PcInv, NEW t \in Thread, NEW s, Named(s), thr[t].at = "user", Raised(s),
           thr' = [u \in Thread |->
             IF u = t
               THEN UpdatePC([Called("Sem") EXCEPT !.at = "user", !.r2 = "result"])
               ELSE IF u \in First(s) THEN [thr[u] EXCEPT !.at = "woken"]
               ELSE thr[u]],
           UNCHANGED UserSemaphores
    PROVE  Posted(t, s)
<1>1. PICK r : r = UpdatePC([Called("Sem") EXCEPT !.at = "user", !.r2 = "result"])
  OBVIOUS
<1>2. Shape(r) /\ r.at = "user" /\ r.n = 0 /\ r.moved = 1 /\ r.faults = 0
  BY <1>1, AtOnce
<1>3. /\ thr'[t] = r
      /\ \A u \in Thread \ {t} :
            IF u \in First(s) THEN thr'[u] = [thr[u] EXCEPT !.at = "woken"]
            ELSE thr'[u] = thr[u]
  BY <1>1
<1>4. thr' = [u \in Thread |-> thr'[u]]
  OBVIOUS
<1>5. ASSUME NEW u \in Thread PROVE Shape(thr'[u])
  <2>1. CASE u = t
    BY <1>2, <1>3, <2>1
  <2>2. CASE u # t /\ u \notin First(s)
    <3>1. thr'[u] = thr[u] /\ Shape(thr[u])
      BY <1>3, <2>2 DEF PcInv, ThreadsOK
    <3> QED BY <3>1
  <2>3. CASE u # t /\ u \in First(s)
    <3>1. PICK x : x = thr[u]
      OBVIOUS
    <3>2. PICK y : y = [x EXCEPT !.at = "woken"]
      OBVIOUS
    <3>3. Shape(x) /\ thr'[u] = y
      BY <1>3, <2>3, <3>1, <3>2 DEF PcInv, ThreadsOK
    <3>4. Shape(y)
      BY <3>2, <3>3 DEF Shape, Field
    <3> QED BY <3>3, <3>4
  <2> QED BY <2>1, <2>2, <2>3
<1>6. ThreadsOK'
  BY <1>4, <1>5 DEF ThreadsOK
<1>7. Counted(thr'[t]) /\ thr'[t].at = "user"
  BY <1>2, <1>3 DEF Counted
<1> QED BY <1>3, <1>6, <1>7 DEF Posted

LEMMA PostKind ==
    ASSUME PcInv, NEW t \in Thread, NEW sid, SemPost(t, sid)
    PROVE  Quiet(t) \/ UNCHANGED <<thr, UserSemaphores, heap>> \/ \E s : Posted(t, s)
<1>1. thr[t].at = "user"
  BY DEF SemPost, Trap
<1>2. CASE Refuse(t)
  BY <1>1, <1>2, RefuseKind
<1>3. CASE Astray
  BY <1>3 DEF Astray
<1>4. ASSUME sid \in Sid, UserSemaphores[sid] # NULL, UNCHANGED UserSemaphores,
             Raised(UserSemaphores[sid]),
             thr' = [u \in Thread |->
               IF u = t
                 THEN UpdatePC([Called("Sem") EXCEPT !.at = "user", !.r2 = "result"])
                 ELSE IF u \in First(UserSemaphores[sid]) THEN [thr[u] EXCEPT !.at = "woken"]
                 ELSE thr[u]]
      PROVE  \E s : Posted(t, s)
  <2>1. PICK s : s = UserSemaphores[sid]
    OBVIOUS
  <2>2. Named(s) /\ Raised(s)
    BY <1>4, <2>1 DEF Named
  <2> QED BY <1>1, <1>4, <2>1, <2>2, PostedKind
<1>5. \/ Refuse(t) \/ Astray
      \/ /\ sid \in Sid /\ UserSemaphores[sid] # NULL /\ UNCHANGED UserSemaphores
         /\ Raised(UserSemaphores[sid])
         /\ thr' = [u \in Thread |->
               IF u = t
                 THEN UpdatePC([Called("Sem") EXCEPT !.at = "user", !.r2 = "result"])
                 ELSE IF u \in First(UserSemaphores[sid]) THEN [thr[u] EXCEPT !.at = "woken"]
                 ELSE thr[u]]
  BY DEF SemPost, Raised, First
<1> QED BY <1>2, <1>3, <1>4, <1>5

(* Semaphore::P, where the thread comes from a call or from its sleep. *)
LEMMA PKind ==
    ASSUME PcInv, NEW t \in Thread, NEW s, Comes(t, s), NEW r, Shape(r), r.n \in Nat,
           r.faults \in Nat, r.moved = r.faults, SemP(t, s, r), UNCHANGED UserSemaphores
    PROVE  Slept(t, s) \/ Took(t, s)
<1>0. ThreadsOK
  BY DEF PcInv
<1>1. CASE /\ heap[s].value = 0
           /\ heap' = [heap EXCEPT ![s].queue = Append(@, t)]
           /\ Enter(t, [r EXCEPT !.at = "asleep", !.sem = s])
  <2>1. PICK x : x = [r EXCEPT !.at = "asleep", !.sem = s]
    OBVIOUS
  <2>2. /\ Shape(x) /\ x.at = "asleep" /\ x.sem = s /\ x.n = r.n /\ x.moved = r.moved
        /\ x.faults = r.faults
    BY <2>1 DEF Shape, Field
  <2>3. Counted(x)
    BY <2>2 DEF Counted
  <2>4. ThreadsOK' /\ thr'[t] = x /\ \A u \in Thread \ {t} : thr'[u] = thr[u]
    BY <1>0, <1>1, <2>1, <2>2, EnterIs
  <2> QED BY <1>1, <2>2, <2>3, <2>4 DEF Slept, Moved
<1>2. CASE /\ heap[s].value # 0
           /\ heap' = [heap EXCEPT ![s].value = @ - 1, ![s].waits = @ + 1]
           /\ Enter(t, UpdatePC([r EXCEPT !.at = "user", !.r2 = "result", !.sem = NULL]))
  <2>1. PICK y : y = [r EXCEPT !.at = "user", !.r2 = "result", !.sem = NULL]
    OBVIOUS
  <2>2. Shape(y) /\ y.at = "user" /\ y.n = r.n /\ y.moved = r.moved /\ y.faults = r.faults
    BY <2>1 DEF Shape, Field
  <2>3. PICK x : x = UpdatePC(y)
    OBVIOUS
  <2>4. Shape(x) /\ x.at = "user" /\ x.n = r.n /\ x.moved = r.moved + 1 /\ x.faults = r.faults
    BY <2>2, <2>3, UpdateIs
  <2>5. Counted(x)
    BY <2>4 DEF Counted
  <2>6. ThreadsOK' /\ thr'[t] = x /\ \A u \in Thread \ {t} : thr'[u] = thr[u]
    BY <1>0, <1>2, <2>1, <2>3, <2>4, EnterIs
  <2> QED BY <1>2, <2>4, <2>5, <2>6 DEF Took, Moved
<1> QED BY <1>1, <1>2 DEF SemP

LEMMA WaitKind ==
    ASSUME PcInv, NEW t \in Thread, NEW sid, SemWait(t, sid)
    PROVE  \/ Quiet(t) \/ UNCHANGED <<thr, UserSemaphores, heap>>
           \/ \E s : Slept(t, s) \/ Took(t, s)
<1>1. thr[t].at = "user"
  BY DEF SemWait, Trap
<1>2. CASE Refuse(t)
  BY <1>1, <1>2, RefuseKind
<1>3. CASE Astray
  BY <1>3 DEF Astray
<1>4. ASSUME sid \in Sid, UserSemaphores[sid] # NULL, UNCHANGED UserSemaphores,
             SemP(t, UserSemaphores[sid], Called("Sem"))
      PROVE  \E s : Slept(t, s) \/ Took(t, s)
  <2>1. PICK s : s = UserSemaphores[sid]
    OBVIOUS
  <2>2. Comes(t, s)
    BY <1>1, <1>4, <2>1 DEF Comes, Named
  <2>3. PICK r : r = Called("Sem")
    OBVIOUS
  <2>4. Shape(r) /\ r.n = 0 /\ r.moved = 0 /\ r.faults = 0
    BY <2>3, CalledIs
  <2>5. r.n \in Nat /\ r.faults \in Nat /\ r.moved = r.faults
    BY <2>4
  <2>6. SemP(t, s, r)
    BY <1>4, <2>1, <2>3
  <2> QED BY <1>4, <2>2, <2>4, <2>5, <2>6, PKind
<1> QED BY <1>2, <1>3, <1>4 DEF SemWait

LEMMA RetryKind ==
    ASSUME PcInv, NEW t \in Thread, SemRetry(t)
    PROVE  \/ UNCHANGED <<thr, UserSemaphores, heap>>
           \/ \E s : Slept(t, s) \/ Took(t, s)
<1>1. CASE Astray
  BY <1>1 DEF Astray
<1>2. ASSUME UNCHANGED UserSemaphores, SemP(t, thr[t].sem, thr[t])
      PROVE  \E s : Slept(t, s) \/ Took(t, s)
  <2>1. PICK s : s = thr[t].sem
    OBVIOUS
  <2>2. PICK r : r = thr[t]
    OBVIOUS
  <2>3. thr[t].at = "woken"
    BY DEF SemRetry
  <2>4. Comes(t, s)
    BY <2>1, <2>3 DEF Comes
  <2>5. Shape(r) /\ r.n \in Nat /\ r.faults \in Nat /\ r.moved = r.faults
    BY <2>2, <2>3 DEF PcInv, ThreadsOK, Counted
  <2>6. SemP(t, s, r)
    BY <1>2, <2>1, <2>2
  <2> QED BY <1>2, <2>4, <2>5, <2>6, PKind
<1> QED BY <1>1, <1>2 DEF SemRetry

LEMMA DeleteKind ==
    ASSUME PcInv, NEW t \in Thread, NEW sid, SemDelete(t, sid)
    PROVE  \/ Quiet(t) \/ UNCHANGED <<thr, UserSemaphores, heap>>
           \/ \E i \in Sid : Deleted(t, i)
<1>1. thr[t].at = "user"
  BY DEF SemDelete, Trap
<1>2. CASE Astray
  BY <1>2 DEF Astray
<1>3. CASE SemCall(t, "call") /\ UNCHANGED <<UserSemaphores, heap>>
  BY <1>1, <1>3, SemCallKind DEF Quiet
<1>4. CASE /\ sid \in Sid /\ SemCall(t, "call")
           /\ heap' = [s \in DOMAIN heap |->
                 IF s = UserSemaphores[sid] THEN [heap[s] EXCEPT !.alive = FALSE] ELSE heap[s]]
           /\ UserSemaphores' = [UserSemaphores EXCEPT ![sid] = NULL]
  BY <1>1, <1>4, SemCallKind DEF Deleted
<1> QED BY <1>2, <1>3, <1>4 DEF SemDelete

LEMMA StepCases == PcInv /\ [SyscallsNext]_sysVars => StepKinds
<1> SUFFICES ASSUME PcInv, [SyscallsNext]_sysVars PROVE StepKinds
  OBVIOUS
<1>1. CASE UNCHANGED sysVars
  BY <1>1 DEF sysVars, StepKinds
<1>2. ASSUME NEW t \in Thread,
        \/ \E c \in TakesString \ {"Write"}, from \in 0..MemSize : CallWithString(t, c, from, 0)
        \/ \E from \in 0..MemSize, n \in Sizes : CallWithString(t, "Write", from, n)
        \/ \E c \in FillsBuffer, to \in 0..MemSize, n \in Sizes : CallWithBuffer(t, c, to, n)
        \/ \E to \in 0..MemSize : CallWithBuffer(t, "GetInt", to, 1)
        \/ \E c \in Plain : CallPlain(t, c)
        \/ \E refused \in BOOLEAN : CallWaitPid(t, refused)
        \/ \E c \in NoReturn : CallNoReturn(t, c)
        \/ OtherException(t)
        \/ Return(t) \/ FileRead(t) \/ LineRead(t) \/ NothingRead(t) \/ CopyOut(t) \/ GetInt(t)
      PROVE  Quiet(t)
  <2>1. Sizes \subseteq Nat /\ 0 \in Nat /\ 1 \in Nat
    BY SyscallsAssumption
  <2> QED BY <1>2, <2>1, WithStringKind, BufferKind, PlainKind, WaitPidKind, NoReturnKind,
             ExceptionKind, ReturnKind, ReadKind, CopyOutKind, GetIntKind
<1>3. ASSUME NEW t \in Thread, CallUnexpected(t) \/ Overruns(t)
      PROVE  UNCHANGED <<thr, UserSemaphores, heap>>
  BY <1>3 DEF CallUnexpected, Overruns, Astray
<1>4. ASSUME NEW t \in Thread,
             \/ \E val \in Values : SemCreate(t, val)
             \/ \E sid \in -1..(NumSems + 1) : SemPost(t, sid) \/ SemWait(t, sid) \/ SemDelete(t, sid)
             \/ SemRetry(t)
      PROVE  StepKinds
  BY <1>4, CreateKind, PostKind, WaitKind, RetryKind, DeleteKind DEF StepKinds
<1> QED BY <1>1, <1>2, <1>3, <1>4 DEF SyscallsNext, StepKinds

-----------------------------------------------------------------------------
LEMMA InitPc == SyscallsInit => PcInv
<1> SUFFICES ASSUME SyscallsInit PROVE PcInv
  OBVIOUS
<1>1. PICK r : r = Running
  OBVIOUS
<1>2. thr = [t \in Thread |-> r]
  BY <1>1 DEF SyscallsInit
<1>3. Shape(r) /\ r.at = "user" /\ r.n = 0 /\ r.moved = 1 /\ r.faults = 0
  BY <1>1, RunningIs
<1>4. Counted(r)
  BY <1>3 DEF Counted
<1> QED BY <1>2, <1>3, <1>4 DEF PcInv, ThreadsOK

-----------------------------------------------------------------------------
(* Semaphores, deleted ones included: nothing touches those any more. *)
Semaphore == [init : Int, posts : Nat, waits : Nat, value : Int, queue : Seq(Thread),
              alive : BOOLEAN]

SemTypeOK == heap \in Seq(Semaphore) /\ UserSemaphores \in [Sid -> 0..Len(heap)]

IdsOK ==
    /\ \A i \in Sid : UserSemaphores[i] # NULL => heap[UserSemaphores[i]].alive
    /\ \A i, j \in Sid : UserSemaphores[i] = UserSemaphores[j] /\ UserSemaphores[i] # NULL => i = j
    /\ \A s \in DOMAIN heap : heap[s].alive => \E i \in Sid : UserSemaphores[i] = s

Units(h) == h.value = h.init + h.posts - h.waits /\ (h.init >= 0 => h.value >= 0)

Distinct(q) == \A i, j \in 1..Len(q) : q[i] = q[j] => i = j

(* Who sleeps on a semaphore is in its queue, once. *)
QueueOK(s) == Distinct(heap[s].queue) /\ ToSet(heap[s].queue) = On(s, "asleep")

(* No thread sleeps beside a unit that a woken thread is not to take. *)
WokenOK(s) == heap[s].init >= 0 /\ heap[s].queue # <<>> =>
                  heap[s].value <= Cardinality(On(s, "woken"))

SleepersOK == \A t \in Thread : thr[t].at \in {"asleep", "woken"} => thr[t].sem \in DOMAIN heap

SemInv == /\ SemTypeOK /\ IdsOK /\ SleepersOK
          /\ \A s \in DOMAIN heap : Units(heap[s]) /\ QueueOK(s) /\ WokenOK(s)

SysInv == PcInv /\ SemInv

-----------------------------------------------------------------------------
LEMMA TailOfQueue ==
    ASSUME NEW T, NEW q \in Seq(T), q # <<>>, Distinct(q)
    PROVE  /\ Tail(q) \in Seq(T) /\ Distinct(Tail(q)) /\ Head(q) \in ToSet(q)
           /\ ToSet(Tail(q)) = ToSet(q) \ {Head(q)}
<1>1. /\ Len(q) \in Nat \ {0} /\ Head(q) = q[1] /\ Tail(q) \in Seq(T)
      /\ Len(Tail(q)) = Len(q) - 1 /\ DOMAIN q = 1..Len(q)
  OBVIOUS
<1>2. \A i \in 1..(Len(q) - 1) : Tail(q)[i] = q[i + 1]
  OBVIOUS
<1>3. DOMAIN Tail(q) = 1..(Len(q) - 1)
  BY <1>1
<1>4. Distinct(Tail(q))
  <2> SUFFICES ASSUME NEW i \in 1..(Len(q) - 1), NEW j \in 1..(Len(q) - 1),
                      Tail(q)[i] = Tail(q)[j]
               PROVE  i = j
    BY <1>1 DEF Distinct
  <2>1. i + 1 \in 1..Len(q) /\ j + 1 \in 1..Len(q)
    BY <1>1
  <2>2. q[i + 1] = q[j + 1]
    BY <1>2
  <2>3. i + 1 = j + 1
    BY <2>1, <2>2 DEF Distinct
  <2> QED BY <1>1, <2>3
<1>5. Head(q) \in ToSet(q)
  BY <1>1 DEF ToSet
<1>6. ASSUME NEW x \in ToSet(Tail(q)) PROVE x \in ToSet(q) \ {Head(q)}
  <2>1. PICK i \in 1..(Len(q) - 1) : x = Tail(q)[i]
    BY <1>3, <1>6 DEF ToSet
  <2>2. x = q[i + 1] /\ i + 1 \in 1..Len(q) /\ i + 1 # 1 /\ 1 \in 1..Len(q)
    BY <1>1, <1>2, <2>1
  <2>3. q[i + 1] # q[1]
    BY <2>2 DEF Distinct
  <2> QED BY <1>1, <2>2, <2>3 DEF ToSet
<1>7. ASSUME NEW x \in ToSet(q) \ {Head(q)} PROVE x \in ToSet(Tail(q))
  <2>1. PICK i \in 1..Len(q) : x = q[i]
    BY <1>1, <1>7 DEF ToSet
  <2>2. i # 1
    BY <1>1, <2>1, <1>7
  <2>3. PICK j \in 1..(Len(q) - 1) : i = j + 1
    BY <1>1, <2>2
  <2>4. x = Tail(q)[j]
    BY <1>2, <2>1, <2>3
  <2> QED BY <1>3, <2>4 DEF ToSet
<1> QED BY <1>1, <1>4, <1>5, <1>6, <1>7

LEMMA AppendToQueue ==
    ASSUME NEW T, NEW q \in Seq(T), NEW t \in T, Distinct(q), t \notin ToSet(q)
    PROVE  /\ Append(q, t) \in Seq(T) /\ Distinct(Append(q, t)) /\ Append(q, t) # <<>>
           /\ ToSet(Append(q, t)) = ToSet(q) \cup {t}
<1>1. PICK n \in Nat : n = Len(q)
  OBVIOUS
<1>2. PICK a : a = Append(q, t)
  OBVIOUS
<1>3. /\ a \in Seq(T) /\ Len(a) = n + 1 /\ a[n + 1] = t /\ \A i \in 1..n : a[i] = q[i]
      /\ DOMAIN q = 1..n
  BY <1>1, <1>2
<1>4. DOMAIN a = 1..(n + 1)
  BY <1>3
<1>5. \A i \in 1..n : q[i] \in ToSet(q)
  BY <1>3 DEF ToSet
<1>6. Distinct(a)
  <2> SUFFICES ASSUME NEW i \in 1..(n + 1), NEW j \in 1..(n + 1), a[i] = a[j] PROVE i = j
    BY <1>3 DEF Distinct
  <2>1. CASE i = n + 1 \/ j = n + 1
    BY <1>3, <1>5, <2>1
  <2>2. CASE i \in 1..n /\ j \in 1..n
    BY <1>1, <1>3, <2>2 DEF Distinct
  <2> QED BY <2>1, <2>2
<1>7. ToSet(a) = ToSet(q) \cup {t}
  <2>1. ASSUME NEW x \in ToSet(a) PROVE x \in ToSet(q) \cup {t}
    <3>1. PICK i \in 1..(n + 1) : x = a[i]
      BY <1>4, <2>1 DEF ToSet
    <3> QED BY <1>3, <1>5, <3>1
  <2>2. ASSUME NEW x \in ToSet(q) PROVE x \in ToSet(a)
    <3>1. PICK i \in 1..n : x = q[i]
      BY <1>3, <2>2 DEF ToSet
    <3>2. i \in DOMAIN a /\ a[i] = x
      BY <1>3, <1>4, <3>1
    <3> QED BY <3>2 DEF ToSet
  <2>3. t \in ToSet(a)
    <3>1. n + 1 \in DOMAIN a
      BY <1>4
    <3> QED BY <1>3, <3>1 DEF ToSet
  <2> QED BY <2>1, <2>2, <2>3
<1>8. a # <<>>
  BY <1>3
<1> QED BY <1>2, <1>3, <1>6, <1>7, <1>8

(* One semaphore changes. *)
Changed(s, h) == /\ heap' \in Seq(Semaphore) /\ Len(heap') = Len(heap) /\ heap'[s] = h
                 /\ \A x \in DOMAIN heap \ {s} : heap'[x] = heap[x]

LEMMA ChangedIs ==
    ASSUME SemTypeOK, NEW s \in DOMAIN heap, NEW h \in Semaphore,
           heap' = [heap EXCEPT ![s] = h]
    PROVE  Changed(s, h)
BY DEF SemTypeOK, Changed

LEMMA NamedIn ==
    ASSUME SemTypeOK, NEW s, Named(s)
    PROVE  s \in DOMAIN heap
BY DEF SemTypeOK, Named, NULL

LEMMA ComesIn ==
    ASSUME SemInv, NEW t \in Thread, NEW s, Comes(t, s)
    PROVE  s \in DOMAIN heap
BY NamedIn DEF SemInv, Comes, SleepersOK

LEMMA HeapType ==
    ASSUME SemTypeOK, NEW s \in DOMAIN heap
    PROVE  heap[s] \in Semaphore
BY DEF SemTypeOK

LEMMA OneUnitMore ==
    ASSUME NEW j \in Semaphore, NEW k, k = [j EXCEPT !.value = @ + 1, !.posts = @ + 1]
    PROVE  /\ k \in Semaphore /\ k.init = j.init /\ k.posts = j.posts + 1 /\ k.waits = j.waits
           /\ k.value = j.value + 1 /\ k.alive = j.alive /\ k.queue = j.queue
<1>1. PICK i : i = [j EXCEPT !.value = @ + 1]
  OBVIOUS
<1>2. /\ i \in Semaphore /\ i.init = j.init /\ i.posts = j.posts /\ i.waits = j.waits
      /\ i.value = j.value + 1 /\ i.queue = j.queue
  BY <1>1 DEF Semaphore
<1>3. i.alive = j.alive
  BY <1>1 DEF Semaphore
<1>4. k = [i EXCEPT !.posts = @ + 1]
  BY <1>1 DEF Semaphore
<1>5. k \in Semaphore
  BY <1>2, <1>4 DEF Semaphore
<1>6. k.posts = i.posts + 1 /\ k.init = i.init /\ k.waits = i.waits
  BY <1>2, <1>4 DEF Semaphore
<1>7. k.value = i.value /\ k.queue = i.queue
  BY <1>2, <1>4 DEF Semaphore
<1>8. k.alive = i.alive
  BY <1>2, <1>4 DEF Semaphore
<1> QED BY <1>2, <1>3, <1>5, <1>6, <1>7, <1>8

LEMMA RaisedIs ==
    ASSUME SemInv, NEW s \in DOMAIN heap, Raised(s), NEW h, h = heap[s]
    PROVE  \E k \in Semaphore :
             /\ Changed(s, k) /\ k.init = h.init /\ k.posts = h.posts + 1 /\ k.waits = h.waits
             /\ k.value = h.value + 1 /\ k.alive = h.alive
             /\ k.queue = IF h.queue = <<>> THEN h.queue ELSE Tail(h.queue)
<1>0. SemTypeOK
  BY DEF SemInv
<1>1. h \in Semaphore
  BY <1>0, HeapType
<1>2. PICK q : q = IF h.queue = <<>> THEN h.queue ELSE Tail(h.queue)
  OBVIOUS
<1>3. q \in Seq(Thread)
  BY <1>1, <1>2 DEF Semaphore
<1>4. PICK k : k = [h EXCEPT !.queue = q, !.value = @ + 1, !.posts = @ + 1]
  OBVIOUS
<1>5. /\ k \in Semaphore /\ k.init = h.init /\ k.posts = h.posts + 1 /\ k.waits = h.waits
      /\ k.value = h.value + 1 /\ k.alive = h.alive /\ k.queue = q
  <2>1. PICK j : j = [h EXCEPT !.queue = q]
    OBVIOUS
  <2>2. /\ j \in Semaphore /\ j.init = h.init /\ j.posts = h.posts /\ j.waits = h.waits
        /\ j.value = h.value /\ j.alive = h.alive /\ j.queue = q
    BY <1>1, <1>3, <2>1 DEF Semaphore
  <2>3. k = [j EXCEPT !.value = @ + 1, !.posts = @ + 1]
    BY <1>1, <1>4, <2>1 DEF Semaphore
  <2>4. /\ k \in Semaphore /\ k.init = j.init /\ k.posts = j.posts + 1 /\ k.waits = j.waits
        /\ k.value = j.value + 1 /\ k.alive = j.alive /\ k.queue = j.queue
    BY <2>2, <2>3, OneUnitMore
  <2> QED BY <2>2, <2>4
<1>6. heap' = [heap EXCEPT ![s] = k]
  <2>1. heap' = [heap EXCEPT ![s].queue = q, ![s].value = @ + 1, ![s].posts = @ + 1]
    BY <1>2 DEF Raised
  <2> QED BY <1>0, <1>4, <2>1 DEF SemTypeOK
<1> QED BY <1>0, <1>2, <1>5, <1>6, ChangedIs

LEMMA QueuedIs ==
    ASSUME SemInv, NEW s \in DOMAIN heap, NEW t \in Thread,
           heap' = [heap EXCEPT ![s].queue = Append(@, t)], NEW h, h = heap[s]
    PROVE  \E k \in Semaphore :
             /\ Changed(s, k) /\ k.init = h.init /\ k.posts = h.posts /\ k.waits = h.waits
             /\ k.value = h.value /\ k.alive = h.alive /\ k.queue = Append(h.queue, t)
<1>0. SemTypeOK
  BY DEF SemInv
<1>1. h \in Semaphore
  BY <1>0, HeapType
<1>2. PICK q : q = Append(h.queue, t)
  OBVIOUS
<1>3. q \in Seq(Thread)
  BY <1>1, <1>2 DEF Semaphore
<1>4. PICK k : k = [h EXCEPT !.queue = q]
  OBVIOUS
<1>5. /\ k \in Semaphore /\ k.init = h.init /\ k.posts = h.posts /\ k.waits = h.waits
      /\ k.value = h.value /\ k.alive = h.alive /\ k.queue = q
  BY <1>1, <1>3, <1>4 DEF Semaphore
<1>6. heap' = [heap EXCEPT ![s] = k]
  <2>1. heap' = [heap EXCEPT ![s].queue = q]
    BY <1>2
  <2>2. heap' = [heap EXCEPT ![s] = [h EXCEPT !.queue = q]]
    BY <1>0, <2>1
  <2> QED BY <1>4, <2>2
<1> QED BY <1>0, <1>2, <1>5, <1>6, ChangedIs

LEMMA TakenIs ==
    ASSUME SemInv, NEW s \in DOMAIN heap, heap[s].value # 0,
           heap' = [heap EXCEPT ![s].value = @ - 1, ![s].waits = @ + 1], NEW h, h = heap[s]
    PROVE  \E k \in Semaphore :
             /\ Changed(s, k) /\ k.init = h.init /\ k.posts = h.posts /\ k.waits = h.waits + 1
             /\ k.value = h.value - 1 /\ k.alive = h.alive /\ k.queue = h.queue
<1>0. SemTypeOK
  BY DEF SemInv
<1>1. h \in Semaphore
  BY <1>0, HeapType
<1>4. PICK k : k = [h EXCEPT !.value = @ - 1, !.waits = @ + 1]
  OBVIOUS
<1>5. /\ k \in Semaphore /\ k.init = h.init /\ k.posts = h.posts /\ k.waits = h.waits + 1
      /\ k.value = h.value - 1 /\ k.alive = h.alive /\ k.queue = h.queue
  BY <1>1, <1>4 DEF Semaphore
<1>6. heap' = [heap EXCEPT ![s] = k]
  BY <1>0, <1>4 DEF SemTypeOK
<1> QED BY <1>0, <1>5, <1>6, ChangedIs

-----------------------------------------------------------------------------
(* The invariant is about heap, the ids, and who sleeps and who is woken. *)
LEMMA ChangedInv ==
    ASSUME SemInv, NEW s \in DOMAIN heap, NEW h, Changed(s, h), h.alive = heap[s].alive,
           UNCHANGED UserSemaphores, SleepersOK', Units(h), Distinct(h.queue),
           ToSet(h.queue) = On(s, "asleep")',
           h.init >= 0 /\ h.queue # <<>> => h.value <= Cardinality(On(s, "woken")'),
           \A x : x # s => /\ On(x, "asleep")' = On(x, "asleep")
                           /\ On(x, "woken")' = On(x, "woken")
    PROVE  SemInv'
<1>0. SemTypeOK /\ IdsOK
  BY DEF SemInv
<1>1. DOMAIN heap' = DOMAIN heap /\ SemTypeOK'
  BY <1>0 DEF SemTypeOK, Changed
<1>2. \A x \in DOMAIN heap : heap'[x].alive = heap[x].alive
  BY DEF Changed
<1>3. \A i \in Sid : UserSemaphores[i] # NULL => UserSemaphores[i] \in DOMAIN heap
  BY <1>0 DEF SemTypeOK, NULL
<1>4. IdsOK'
  BY <1>0, <1>1, <1>2, <1>3 DEF IdsOK
<1>5. Units(heap'[s]) /\ QueueOK(s)' /\ WokenOK(s)'
  BY DEF Changed, QueueOK, WokenOK
<1>6. ASSUME NEW x \in DOMAIN heap, x # s PROVE Units(heap'[x]) /\ QueueOK(x)' /\ WokenOK(x)'
  <2>1. heap'[x] = heap[x] /\ Units(heap[x]) /\ QueueOK(x) /\ WokenOK(x)
    BY <1>6 DEF Changed, SemInv
  <2> QED BY <1>6, <2>1 DEF QueueOK, WokenOK
<1>7. \A x \in DOMAIN heap : Units(heap'[x]) /\ QueueOK(x)' /\ WokenOK(x)'
  BY <1>5, <1>6
<1> QED BY <1>1, <1>4, <1>7 DEF SemInv

LEMMA CalmOn ==
    ASSUME NEW t \in Thread, Calm(t), NEW s
    PROVE  On(s, "asleep")' = On(s, "asleep") /\ On(s, "woken")' = On(s, "woken")
<1>1. ASSUME NEW w \in {"asleep", "woken"}, NEW u \in Thread
      PROVE  (thr'[u].at = w /\ thr'[u].sem = s) <=> (thr[u].at = w /\ thr[u].sem = s)
  <2>1. CASE u = t
    BY <1>1, <2>1 DEF Calm, Awake
  <2>2. CASE u # t
    BY <1>1, <2>2 DEF Calm, Moved
  <2> QED BY <2>1, <2>2
<1> QED BY <1>1 DEF On

LEMMA CalmSleepers ==
    ASSUME NEW t \in Thread, Calm(t), SleepersOK, DOMAIN heap \subseteq DOMAIN heap'
    PROVE  SleepersOK'
<1> SUFFICES ASSUME NEW u \in Thread, thr'[u].at \in {"asleep", "woken"}
             PROVE  thr'[u].sem \in DOMAIN heap'
  BY DEF SleepersOK
<1>1. u # t
  BY DEF Calm, Awake
<1>2. thr'[u] = thr[u]
  BY <1>1 DEF Calm, Moved
<1> QED BY <1>2 DEF SleepersOK

LEMMA QuietInv ==
    ASSUME SemInv, NEW t \in Thread, Quiet(t)
    PROVE  SemInv'
<1>1. heap' = heap /\ UserSemaphores' = UserSemaphores /\ Calm(t)
  BY DEF Quiet
<1>2. SemTypeOK' /\ IdsOK'
  BY <1>1 DEF SemInv, SemTypeOK, IdsOK
<1>3. SleepersOK'
  BY <1>1, CalmSleepers DEF SemInv
<1>4. ASSUME NEW x \in DOMAIN heap PROVE Units(heap'[x]) /\ QueueOK(x)' /\ WokenOK(x)'
  <2>1. Units(heap[x]) /\ QueueOK(x) /\ WokenOK(x)
    BY DEF SemInv
  <2>2. On(x, "asleep")' = On(x, "asleep") /\ On(x, "woken")' = On(x, "woken")
    BY <1>1, CalmOn
  <2> QED BY <1>1, <2>1, <2>2 DEF QueueOK, WokenOK
<1> QED BY <1>1, <1>2, <1>3, <1>4 DEF SemInv

LEMMA MadeInv ==
    ASSUME SemInv, NEW t \in Thread, Made(t)
    PROVE  SemInv'
<1>0. SemTypeOK /\ IdsOK /\ SleepersOK /\ Calm(t)
  BY DEF SemInv, Made
<1>1. PICK val \in Int, i \in Free :
         /\ heap' = Append(heap, [init |-> val, posts |-> 0, waits |-> 0, value |-> val,
                                  queue |-> <<>>, alive |-> TRUE])
         /\ UserSemaphores' = [UserSemaphores EXCEPT ![i] = Len(heap')]
  BY DEF Made
<1>2. PICK q : q = <<>>
  OBVIOUS
<1>3. q \in Seq(Thread) /\ Distinct(q) /\ ToSet(q) = {}
  <2>1. q \in Seq(Thread) /\ Len(q) = 0 /\ DOMAIN q = {}
    BY <1>2
  <2> QED BY <2>1 DEF Distinct, ToSet
<1>4. PICK h : h = [init |-> val, posts |-> 0, waits |-> 0, value |-> val, queue |-> q,
                    alive |-> TRUE]
  OBVIOUS
<1>5. h \in Semaphore /\ h.queue = q /\ h.alive /\ Units(h)
  <2>1. h \in Semaphore
    BY <1>3, <1>4 DEF Semaphore
  <2>2. h.init = val /\ h.value = val /\ h.posts = 0 /\ h.waits = 0 /\ h.queue = q
    BY <1>4
  <2>3. h.alive = TRUE
    BY <1>4
  <2> QED BY <2>1, <2>2, <2>3 DEF Units
<1>6. PICK n \in Nat : n = Len(heap)
  BY <1>0 DEF SemTypeOK
<1>7. heap' = Append(heap, h)
  BY <1>1, <1>2, <1>4
<1>8. /\ heap' \in Seq(Semaphore) /\ Len(heap') = n + 1 /\ heap'[n + 1] = h
      /\ \A s \in 1..n : heap'[s] = heap[s]
  BY <1>0, <1>5, <1>6, <1>7 DEF SemTypeOK
<1>9. DOMAIN heap = 1..n /\ DOMAIN heap' = 1..(n + 1)
  BY <1>0, <1>6, <1>8 DEF SemTypeOK
<1>10. /\ i \in Sid /\ UserSemaphores[i] = NULL /\ UserSemaphores'[i] = n + 1
       /\ \A j \in Sid \ {i} : UserSemaphores'[j] = UserSemaphores[j]
       /\ UserSemaphores' \in [Sid -> 0..(n + 1)]
       /\ \A j \in Sid : UserSemaphores[j] \in 0..n
  BY <1>0, <1>1, <1>6, <1>8 DEF SemTypeOK, Free
<1>11. SemTypeOK'
  BY <1>8, <1>10 DEF SemTypeOK
<1>12. IdsOK'
  <2>1. ASSUME NEW j \in Sid, UserSemaphores'[j] # NULL PROVE heap'[UserSemaphores'[j]].alive
    <3>1. CASE j = i
      BY <1>5, <1>8, <1>10, <3>1
    <3>2. CASE j # i
      <4>1. UserSemaphores'[j] = UserSemaphores[j] /\ UserSemaphores[j] \in 1..n
        BY <1>10, <2>1, <3>2 DEF NULL
      <4>2. heap[UserSemaphores[j]].alive
        BY <1>0, <2>1, <4>1 DEF IdsOK
      <4> QED BY <1>8, <4>1, <4>2
    <3> QED BY <3>1, <3>2
  <2>2. ASSUME NEW j \in Sid, NEW k \in Sid, UserSemaphores'[j] = UserSemaphores'[k],
               UserSemaphores'[j] # NULL
        PROVE  j = k
    <3>1. CASE j # i /\ k # i
      BY <1>0, <1>10, <2>2, <3>1 DEF IdsOK
    <3>2. CASE j = i /\ k # i
      BY <1>10, <2>2, <3>2
    <3>3. CASE j # i /\ k = i
      BY <1>10, <2>2, <3>3
    <3> QED BY <3>1, <3>2, <3>3
  <2>3. ASSUME NEW s \in 1..(n + 1), heap'[s].alive PROVE \E j \in Sid : UserSemaphores'[j] = s
    <3>1. CASE s = n + 1
      BY <1>10, <3>1
    <3>2. CASE s \in 1..n
      <4>1. PICK j \in Sid : UserSemaphores[j] = s
        BY <1>0, <1>8, <1>9, <2>3, <3>2 DEF IdsOK
      <4>2. j # i
        BY <1>10, <3>2, <4>1 DEF NULL
      <4> QED BY <1>10, <4>1, <4>2
    <3> QED BY <3>1, <3>2
  <2> QED BY <1>9, <2>1, <2>2, <2>3 DEF IdsOK
<1>13. SleepersOK'
  BY <1>0, <1>9, CalmSleepers
<1>14. ASSUME NEW x \in 1..n PROVE Units(heap'[x]) /\ QueueOK(x)' /\ WokenOK(x)'
  <2>1. Units(heap[x]) /\ QueueOK(x) /\ WokenOK(x) /\ heap'[x] = heap[x]
    BY <1>8, <1>9 DEF SemInv
  <2>2. On(x, "asleep")' = On(x, "asleep") /\ On(x, "woken")' = On(x, "woken")
    BY <1>0, CalmOn
  <2> QED BY <2>1, <2>2 DEF QueueOK, WokenOK
<1>15. Units(heap'[n + 1]) /\ QueueOK(n + 1)' /\ WokenOK(n + 1)'
  <2>1. On(n + 1, "asleep") = {}
    BY <1>0, <1>9 DEF On, SleepersOK
  <2>2. On(n + 1, "asleep")' = {}
    BY <1>0, <2>1, CalmOn
  <2>3. heap'[n + 1].queue = <<>>
    BY <1>2, <1>5, <1>8
  <2> QED BY <1>2, <1>3, <1>5, <1>8, <2>2, <2>3 DEF QueueOK, WokenOK
<1> QED BY <1>9, <1>11, <1>12, <1>13, <1>14, <1>15 DEF SemInv

LEMMA DeletedInv ==
    ASSUME SemInv, NEW t \in Thread, NEW sid \in Sid, Deleted(t, sid)
    PROVE  SemInv'
<1>0. SemTypeOK /\ IdsOK /\ SleepersOK /\ Calm(t)
  BY DEF SemInv, Deleted
<1>1. PICK d : d = UserSemaphores[sid]
  OBVIOUS
<1>2. ASSUME NEW s \in DOMAIN heap
      PROVE  /\ heap'[s] \in Semaphore /\ heap'[s].queue = heap[s].queue
             /\ heap'[s].init = heap[s].init /\ heap'[s].value = heap[s].value
             /\ heap'[s].posts = heap[s].posts /\ heap'[s].waits = heap[s].waits
             /\ s # d => heap'[s] = heap[s]
             /\ s = d => ~heap'[s].alive
  <2>1. PICK h \in Semaphore : h = heap[s]
    BY <1>0, HeapType
  <2>2. heap'[s] = IF s = d THEN [h EXCEPT !.alive = FALSE] ELSE h
    BY <1>1, <2>1 DEF Deleted
  <2>3. CASE s = d
    <3>1. PICK k : k = [h EXCEPT !.alive = FALSE]
      OBVIOUS
    <3>2. /\ k \in Semaphore /\ k.queue = h.queue /\ k.init = h.init /\ k.value = h.value
          /\ k.posts = h.posts /\ k.waits = h.waits
      BY <3>1 DEF Semaphore
    <3>3. k.alive = FALSE
      BY <3>1 DEF Semaphore
    <3>4. heap'[s] = k
      BY <2>2, <2>3, <3>1
    <3> QED BY <2>1, <2>3, <3>2, <3>3, <3>4
  <2>4. CASE s # d
    BY <2>1, <2>2, <2>4
  <2> QED BY <2>3, <2>4
<1>3. PICK n \in Nat : n = Len(heap) /\ DOMAIN heap = 1..n
  BY <1>0 DEF SemTypeOK
<1>4. DOMAIN heap' = 1..n /\ heap' \in Seq(Semaphore) /\ Len(heap') = n
  <2>1. heap' = [s \in 1..n |-> heap'[s]]
    BY <1>3 DEF Deleted
  <2>2. heap' \in [1..n -> Semaphore]
    BY <1>2, <1>3, <2>1
  <2>3. heap' \in Seq(Semaphore)
    BY <2>2, SeqDef
  <2> QED BY <2>2, <2>3
<1>5. /\ UserSemaphores'[sid] = NULL /\ UserSemaphores' \in [Sid -> 0..n]
      /\ \A j \in Sid \ {sid} : UserSemaphores'[j] = UserSemaphores[j]
      /\ \A j \in Sid : UserSemaphores[j] \in 0..n
  BY <1>0, <1>3 DEF SemTypeOK, Deleted, NULL
<1>6. SemTypeOK'
  BY <1>4, <1>5 DEF SemTypeOK
<1>7. IdsOK'
  <2>1. ASSUME NEW j \in Sid, UserSemaphores'[j] # NULL PROVE heap'[UserSemaphores'[j]].alive
    <3>1. j # sid /\ UserSemaphores'[j] = UserSemaphores[j]
      BY <1>5, <2>1
    <3>2. UserSemaphores[j] # d
      BY <1>0, <1>1, <2>1, <3>1 DEF IdsOK
    <3>3. UserSemaphores[j] \in DOMAIN heap
      BY <1>3, <1>5, <2>1, <3>1 DEF NULL
    <3>4. heap[UserSemaphores[j]].alive
      BY <1>0, <2>1, <3>1 DEF IdsOK
    <3> QED BY <1>2, <3>1, <3>2, <3>3, <3>4
  <2>2. ASSUME NEW j \in Sid, NEW k \in Sid, UserSemaphores'[j] = UserSemaphores'[k],
               UserSemaphores'[j] # NULL
        PROVE  j = k
    <3>1. j # sid /\ k # sid
      BY <1>5, <2>2
    <3> QED BY <1>0, <1>5, <2>2, <3>1 DEF IdsOK
  <2>3. ASSUME NEW s \in 1..n, heap'[s].alive PROVE \E j \in Sid : UserSemaphores'[j] = s
    <3>1. s # d /\ heap[s].alive
      BY <1>2, <1>3, <2>3
    <3>2. PICK j \in Sid : UserSemaphores[j] = s
      BY <1>0, <1>3, <3>1 DEF IdsOK
    <3>3. j # sid
      BY <1>1, <3>1, <3>2
    <3> QED BY <1>5, <3>2, <3>3
  <2> QED BY <1>4, <2>1, <2>2, <2>3 DEF IdsOK
<1>8. SleepersOK'
  BY <1>0, <1>3, <1>4, CalmSleepers
<1>9. ASSUME NEW x \in DOMAIN heap PROVE Units(heap'[x]) /\ QueueOK(x)' /\ WokenOK(x)'
  <2>1. Units(heap[x]) /\ QueueOK(x) /\ WokenOK(x)
    BY DEF SemInv
  <2>2. On(x, "asleep")' = On(x, "asleep") /\ On(x, "woken")' = On(x, "woken")
    BY <1>0, CalmOn
  <2>3. Units(heap'[x])
    BY <1>2, <2>1 DEF Units
  <2>4. QueueOK(x)' /\ WokenOK(x)'
    BY <1>2, <2>1, <2>2 DEF QueueOK, WokenOK
  <2> QED BY <2>3, <2>4
<1> QED BY <1>3, <1>4, <1>6, <1>7, <1>8, <1>9 DEF SemInv

LEMMA OnFinite ==
    ASSUME NEW s, NEW w
    PROVE  /\ IsFiniteSet(On(s, w)) /\ Cardinality(On(s, w)) \in Nat
<1>1. On(s, w) \subseteq Thread /\ IsFiniteSet(Thread)
  BY SyscallsAssumption DEF On
<1> QED BY <1>1, FS_Subset, FS_CardinalityType

LEMMA TookInv ==
    ASSUME SemInv, NEW t \in Thread, NEW s, Took(t, s)
    PROVE  SemInv'
<1>1. s \in DOMAIN heap /\ Comes(t, s)
  BY ComesIn DEF Took
<1>2. PICK h \in Semaphore : h = heap[s]
  BY <1>1, HeapType DEF SemInv
<1>3. PICK k \in Semaphore :
         /\ Changed(s, k) /\ k.init = h.init /\ k.posts = h.posts /\ k.waits = h.waits + 1
         /\ k.value = h.value - 1 /\ k.alive = h.alive /\ k.queue = h.queue
  BY <1>1, <1>2, TakenIs DEF Took
<1>4. Units(h) /\ QueueOK(s) /\ WokenOK(s)
  BY <1>1, <1>2 DEF SemInv
<1>5. /\ h.init \in Int /\ h.posts \in Nat /\ h.waits \in Nat /\ h.value \in Int /\ h.value # 0
  BY <1>2 DEF Semaphore, Took
<1>6. Units(k)
  BY <1>3, <1>4, <1>5 DEF Units
<1>7. /\ \A u \in Thread \ {t} : thr'[u] = thr[u]
      /\ thr'[t].at = "user" /\ thr[t].at \in {"user", "woken"}
      /\ thr[t].at = "woken" => thr[t].sem = s
      /\ UNCHANGED UserSemaphores
  BY <1>1 DEF Took, Moved, Comes
<1>8. SleepersOK'
  <2>1. DOMAIN heap' = DOMAIN heap /\ SleepersOK
    BY <1>3 DEF Changed, SemInv, SemTypeOK
  <2>2. \A u \in Thread : thr'[u].at \in {"asleep", "woken"} => u # t
    BY <1>7
  <2> QED BY <1>7, <2>1, <2>2 DEF SleepersOK
<1>9. \A x : On(x, "asleep")' = On(x, "asleep") /\ (x # s => On(x, "woken")' = On(x, "woken"))
  BY <1>7 DEF On
<1>10. On(s, "woken")' = On(s, "woken") \ {t}
  BY <1>7 DEF On
<1>11. ASSUME k.init >= 0, k.queue # <<>> PROVE k.value <= Cardinality(On(s, "woken")')
  <2>1. PICK c \in Nat : c = Cardinality(On(s, "woken"))
    BY OnFinite
  <2>2. h.value <= c
    BY <1>2, <1>3, <1>4, <1>11, <2>1 DEF WokenOK
  <2>3. Cardinality(On(s, "woken")') \in {c - 1, c}
    <3>1. CASE t \in On(s, "woken")
      BY <1>10, <2>1, <3>1, OnFinite, FS_RemoveElement
    <3>2. CASE t \notin On(s, "woken")
      <4>1. On(s, "woken") \ {t} = On(s, "woken")
        BY <3>2
      <4> QED BY <1>10, <2>1, <4>1
    <3> QED BY <3>1, <3>2
  <2> QED BY <1>3, <1>5, <2>1, <2>2, <2>3
<1>12. Distinct(k.queue) /\ ToSet(k.queue) = On(s, "asleep")'
  BY <1>2, <1>3, <1>4, <1>9 DEF QueueOK
<1> QED BY <1>1, <1>2, <1>3, <1>6, <1>7, <1>8, <1>9, <1>11, <1>12, ChangedInv

LEMMA SleptInv ==
    ASSUME SemInv, NEW t \in Thread, NEW s, Slept(t, s)
    PROVE  SemInv'
<1>1. s \in DOMAIN heap /\ Comes(t, s)
  BY ComesIn DEF Slept
<1>2. PICK h \in Semaphore : h = heap[s]
  BY <1>1, HeapType DEF SemInv
<1>3. PICK k \in Semaphore :
         /\ Changed(s, k) /\ k.init = h.init /\ k.posts = h.posts /\ k.waits = h.waits
         /\ k.value = h.value /\ k.alive = h.alive /\ k.queue = Append(h.queue, t)
  BY <1>1, <1>2, QueuedIs DEF Slept
<1>4. Units(h) /\ QueueOK(s)
  BY <1>1, <1>2 DEF SemInv
<1>5. Units(k)
  BY <1>3, <1>4 DEF Units
<1>6. /\ \A u \in Thread \ {t} : thr'[u] = thr[u]
      /\ thr'[t].at = "asleep" /\ thr'[t].sem = s /\ thr[t].at \in {"user", "woken"}
      /\ thr[t].at = "woken" => thr[t].sem = s
      /\ UNCHANGED UserSemaphores
  BY <1>1 DEF Slept, Moved, Comes
<1>7. SleepersOK'
  <2>1. DOMAIN heap' = DOMAIN heap /\ SleepersOK
    BY <1>3 DEF Changed, SemInv, SemTypeOK
  <2> QED BY <1>1, <1>6, <2>1 DEF SleepersOK
<1>8. \A x : x # s => On(x, "asleep")' = On(x, "asleep") /\ On(x, "woken")' = On(x, "woken")
  BY <1>6 DEF On
<1>9. On(s, "asleep")' = On(s, "asleep") \cup {t} /\ t \notin On(s, "asleep")
  BY <1>6 DEF On
<1>10. h.queue \in Seq(Thread) /\ Distinct(h.queue) /\ ToSet(h.queue) = On(s, "asleep")
  BY <1>2, <1>4 DEF QueueOK, Semaphore
<1>11. Distinct(k.queue) /\ ToSet(k.queue) = On(s, "asleep")'
  <2>1. PICK q \in Seq(Thread) : q = h.queue
    BY <1>10
  <2>2. Distinct(q) /\ t \notin ToSet(q)
    BY <1>9, <1>10, <2>1
  <2>3. Distinct(Append(q, t)) /\ ToSet(Append(q, t)) = ToSet(q) \cup {t}
    BY <2>2, AppendToQueue
  <2> QED BY <1>3, <1>9, <1>10, <2>1, <2>3
<1>12. k.value <= Cardinality(On(s, "woken")')
  <2>1. k.value = 0
    BY <1>2, <1>3 DEF Slept
  <2>2. On(s, "woken")' \subseteq Thread /\ IsFiniteSet(Thread)
    BY SyscallsAssumption DEF On
  <2>3. Cardinality(On(s, "woken")') \in Nat
    BY <2>2, FS_Subset, FS_CardinalityType
  <2> QED BY <2>1, <2>3
<1> QED BY <1>1, <1>2, <1>3, <1>5, <1>6, <1>7, <1>8, <1>11, <1>12, ChangedInv

LEMMA PostedInv ==
    ASSUME PcInv, SemInv, NEW t \in Thread, NEW s, Posted(t, s)
    PROVE  SemInv' /\ PcInv'
<1>1. s \in DOMAIN heap /\ Raised(s)
  BY NamedIn DEF Posted, SemInv
<1>2. PICK h \in Semaphore : h = heap[s]
  BY <1>1, HeapType DEF SemInv
<1>3. PICK k \in Semaphore :
         /\ Changed(s, k) /\ k.init = h.init /\ k.posts = h.posts + 1 /\ k.waits = h.waits
         /\ k.value = h.value + 1 /\ k.alive = h.alive
         /\ k.queue = IF h.queue = <<>> THEN h.queue ELSE Tail(h.queue)
  BY <1>1, <1>2, RaisedIs
<1>4. Units(h) /\ QueueOK(s) /\ WokenOK(s)
  BY <1>1, <1>2 DEF SemInv
<1>5. h.init \in Int /\ h.posts \in Nat /\ h.waits \in Nat /\ h.value \in Int
  BY <1>2 DEF Semaphore
<1>6. Units(k)
  BY <1>3, <1>4, <1>5 DEF Units
<1>7. h.queue \in Seq(Thread) /\ Distinct(h.queue) /\ ToSet(h.queue) = On(s, "asleep")
  BY <1>2, <1>4 DEF QueueOK, Semaphore
<1>8. /\ UNCHANGED UserSemaphores /\ thr[t].at = "user" /\ thr'[t].at = "user"
      /\ Counted(thr'[t]) /\ ThreadsOK'
  BY DEF Posted
<1>9. DOMAIN heap' = DOMAIN heap /\ SleepersOK
  BY <1>3 DEF Changed, SemInv, SemTypeOK
<1>10. \A u \in Thread : Shape(thr[u]) /\ Counted(thr[u])
  BY DEF PcInv, ThreadsOK
<1>11. CASE h.queue = <<>>
  <2>1. First(s) = {}
    BY <1>2, <1>11 DEF First
  <2>2. \A u \in Thread \ {t} : thr'[u] = thr[u]
    BY <2>1 DEF Posted
  <2>3. \A x : On(x, "asleep")' = On(x, "asleep") /\ On(x, "woken")' = On(x, "woken")
    BY <1>8, <2>2 DEF On
  <2>4. SleepersOK'
    BY <1>8, <1>9, <2>2 DEF SleepersOK
  <2>5. k.queue = <<>> /\ k.queue = h.queue
    BY <1>3, <1>11
  <2>6. Distinct(k.queue) /\ ToSet(k.queue) = On(s, "asleep")'
    BY <1>7, <2>3, <2>5
  <2>7. SemInv'
    BY <1>1, <1>2, <1>3, <1>6, <1>8, <2>3, <2>4, <2>5, <2>6, ChangedInv
  <2>8. \A u \in Thread : Counted(thr'[u])
    BY <1>8, <1>10, <2>2
  <2> QED BY <1>8, <2>7, <2>8 DEF PcInv
<1>12. CASE h.queue # <<>>
  <2>1. PICK w : w = Head(h.queue)
    OBVIOUS
  <2>2. /\ Tail(h.queue) \in Seq(Thread) /\ Distinct(Tail(h.queue)) /\ w \in ToSet(h.queue)
        /\ ToSet(Tail(h.queue)) = ToSet(h.queue) \ {w}
    BY <1>7, <1>12, <2>1, TailOfQueue
  <2>3. First(s) = {w}
    BY <1>2, <1>12, <2>1 DEF First
  <2>4. w \in Thread /\ thr[w].at = "asleep" /\ thr[w].sem = s
    BY <1>7, <2>2 DEF On
  <2>5. w # t
    BY <1>8, <2>4
  <2>6. /\ thr'[w] = [thr[w] EXCEPT !.at = "woken"]
        /\ \A u \in Thread \ {t, w} : thr'[u] = thr[u]
    BY <2>3, <2>4, <2>5 DEF Posted
  <2>7. PICK r : r = thr[w]
    OBVIOUS
  <2>8. PICK y : y = [r EXCEPT !.at = "woken"]
    OBVIOUS
  <2>9. Shape(r) /\ Counted(r) /\ r.at = "asleep" /\ r.sem = s
    BY <1>10, <2>4, <2>7
  <2>10. /\ y.at = "woken" /\ y.sem = s /\ y.n = r.n /\ y.faults = r.faults
         /\ y.moved = r.moved
    BY <2>8, <2>9 DEF Shape, Field
  <2>11. Counted(y)
    BY <2>9, <2>10 DEF Counted
  <2>12. thr'[w] = y
    BY <2>6, <2>7, <2>8
  <2>13. \A u \in Thread : Counted(thr'[u])
    BY <1>8, <1>10, <2>6, <2>11, <2>12
  <2>14. \A x : x # s => /\ On(x, "asleep")' = On(x, "asleep")
                         /\ On(x, "woken")' = On(x, "woken")
    BY <1>8, <2>4, <2>6, <2>10, <2>12 DEF On
  <2>15. On(s, "asleep")' = On(s, "asleep") \ {w}
    BY <1>8, <2>4, <2>6, <2>10, <2>12 DEF On
  <2>16. On(s, "woken")' = On(s, "woken") \cup {w} /\ w \notin On(s, "woken")
    BY <1>8, <2>4, <2>6, <2>10, <2>12 DEF On
  <2>17. SleepersOK'
    BY <1>1, <1>8, <1>9, <2>6, <2>10, <2>12 DEF SleepersOK
  <2>18. k.queue = Tail(h.queue)
    BY <1>3, <1>12
  <2>19. Distinct(k.queue) /\ ToSet(k.queue) = On(s, "asleep")'
    BY <1>7, <2>2, <2>15, <2>18
  <2>20. ASSUME k.init >= 0 PROVE k.value <= Cardinality(On(s, "woken")')
    <3>1. PICK c \in Nat : c = Cardinality(On(s, "woken"))
      BY OnFinite
    <3>2. h.value <= c
      BY <1>2, <1>3, <1>4, <1>12, <2>20, <3>1 DEF WokenOK
    <3>3. Cardinality(On(s, "woken")') = c + 1
      BY <2>16, <3>1, OnFinite, FS_AddElement
    <3> QED BY <1>3, <1>5, <3>2, <3>3
  <2>21. SemInv'
    BY <1>1, <1>2, <1>3, <1>6, <1>8, <2>14, <2>17, <2>19, <2>20, ChangedInv
  <2> QED BY <1>8, <2>13, <2>21 DEF PcInv
<1> QED BY <1>11, <1>12

-----------------------------------------------------------------------------
LEMMA MovedPc ==
    ASSUME PcInv, NEW t \in Thread, Moved(t)
    PROVE  PcInv'
<1>1. \A u \in Thread : Counted(thr'[u])
  BY DEF Moved, PcInv
<1> QED BY <1>1 DEF Moved, PcInv

LEMMA StepInv == SysInv /\ [SyscallsNext]_sysVars => SysInv'
<1> SUFFICES ASSUME SysInv, [SyscallsNext]_sysVars PROVE SysInv'
  OBVIOUS
<1>0. PcInv /\ SemInv
  BY DEF SysInv
<1>1. StepKinds
  BY <1>0, StepCases
<1>2. CASE UNCHANGED <<thr, UserSemaphores, heap>>
  <2>1. PcInv'
    BY <1>0, <1>2 DEF PcInv, ThreadsOK
  <2>2. SemTypeOK' /\ IdsOK' /\ SleepersOK'
    BY <1>0, <1>2 DEF SemInv, SemTypeOK, IdsOK, SleepersOK
  <2>3. (\A s \in DOMAIN heap : Units(heap[s]) /\ QueueOK(s) /\ WokenOK(s))'
    BY <1>0, <1>2 DEF SemInv, Units, QueueOK, WokenOK, On
  <2> QED BY <2>1, <2>2, <2>3 DEF SysInv, SemInv
<1>3. ASSUME NEW t \in Thread, Quiet(t) PROVE SysInv'
  BY <1>0, <1>3, QuietInv, MovedPc DEF SysInv, Quiet, Calm
<1>4. ASSUME NEW t \in Thread, Made(t) PROVE SysInv'
  BY <1>0, <1>4, MadeInv, MovedPc DEF SysInv, Made, Calm
<1>5. ASSUME NEW t \in Thread, NEW s, Posted(t, s) PROVE SysInv'
  BY <1>0, <1>5, PostedInv DEF SysInv
<1>6. ASSUME NEW t \in Thread, NEW s, Slept(t, s) PROVE SysInv'
  BY <1>0, <1>6, SleptInv, MovedPc DEF SysInv, Slept
<1>7. ASSUME NEW t \in Thread, NEW s, Took(t, s) PROVE SysInv'
  BY <1>0, <1>7, TookInv, MovedPc DEF SysInv, Took
<1>8. ASSUME NEW t \in Thread, NEW sid \in Sid, Deleted(t, sid) PROVE SysInv'
  BY <1>0, <1>8, DeletedInv, MovedPc DEF SysInv, Deleted, Calm
<1> QED BY <1>1, <1>2, <1>3, <1>4, <1>5, <1>6, <1>7, <1>8 DEF StepKinds

LEMMA InitInv == SyscallsInit => SysInv
<1> SUFFICES ASSUME SyscallsInit PROVE SysInv
  OBVIOUS
<1>1. PcInv
  BY InitPc
<1>2. heap = <<>> /\ UserSemaphores = [i \in Sid |-> NULL]
  BY DEF SyscallsInit
<1>3. heap \in Seq(Semaphore) /\ Len(heap) = 0 /\ DOMAIN heap = {}
  BY <1>2
<1>4. SemTypeOK
  BY <1>2, <1>3 DEF SemTypeOK, NULL
<1>5. IdsOK
  BY <1>2, <1>3 DEF IdsOK
<1>6. SleepersOK
  <2>1. \A t \in Thread : thr[t].at = "user"
    BY RunningIs DEF SyscallsInit
  <2> QED BY <2>1 DEF SleepersOK
<1> QED BY <1>1, <1>3, <1>4, <1>5, <1>6 DEF SysInv, SemInv

LEMMA SysInvariant == SyscallsSpec => []SysInv
<1> QED BY InitInv, StepInv, PTL DEF SyscallsSpec

(* ExceptionHandler moves the PC past a call exactly once, when the call     *)
(* ends, however long it waited and whatever it copied: every path through   *)
(* the handler reaches one UpdatePC, and each fault of the kernel adds one.  *)
THEOREM ResumesAtNextProved == SyscallsSpec => []ResumesAtNext
<1>1. SysInv => ResumesAtNext
  BY DEF SysInv, PcInv, Counted, ResumesAtNext
<1> QED BY <1>1, SysInvariant, PTL

(* User semaphores that were not deleted have one id, keep their units, and  *)
(* lose no wakeup, whatever ids are deleted and given out again meanwhile    *)
(* (SemCreate, SemPost, SemWait and SemDelete of exception.cc).              *)
THEOREM SemaphoresKeptProved == SyscallsSpec => []SemaphoresKept
<1>1. ASSUME SysInv PROVE SemaphoresKept
  <2>0. SemTypeOK /\ IdsOK
    BY <1>1 DEF SysInv, SemInv
  <2>1. \A i \in Sid : UserSemaphores[i] # NULL => heap[UserSemaphores[i]].alive
    BY <2>0 DEF IdsOK
  <2>2. ASSUME NEW s \in Live
        PROVE  /\ Cardinality({i \in Sid : UserSemaphores[i] = s}) = 1
               /\ heap[s].value = heap[s].init + heap[s].posts - heap[s].waits
               /\ ToSet(heap[s].queue) = On(s, "asleep")
               /\ heap[s].init >= 0 =>
                     /\ heap[s].value >= 0
                     /\ heap[s].queue # <<>> => heap[s].value <= Cardinality(On(s, "woken"))
    <3>1. s \in DOMAIN heap /\ heap[s].alive
      BY DEF Live
    <3>2. Units(heap[s]) /\ QueueOK(s) /\ WokenOK(s)
      BY <1>1, <3>1 DEF SysInv, SemInv
    <3>3. PICK i \in Sid : UserSemaphores[i] = s
      BY <2>0, <3>1 DEF IdsOK
    <3>4. s # NULL
      BY <2>0, <3>1 DEF SemTypeOK, NULL
    <3>5. {j \in Sid : UserSemaphores[j] = s} = {i}
      BY <2>0, <3>3, <3>4 DEF IdsOK
    <3>6. Cardinality({j \in Sid : UserSemaphores[j] = s}) = 1
      BY <3>5, FS_Singleton
    <3> QED BY <3>2, <3>6 DEF Units, QueueOK, WokenOK
  <2> QED BY <2>1, <2>2 DEF SemaphoresKept
<1> QED BY <1>1, SysInvariant, PTL

-----------------------------------------------------------------------------
(* Strings.  The loops that copy them are recursive functions of the number  *)
(* of turns; what they compute is proved by induction on that number.        *)

(* Every set of numbers that holds 0 and the successor of each of its        *)
(* members holds all of them: induction, for a set.                          *)
LEMMA SetInduction ==
    ASSUME NEW S, 0 \in S, \A n \in Nat : n \in S => n + 1 \in S
    PROVE  Nat \subseteq S
<1> DEFINE T == Nat \ S
<1> SUFFICES ASSUME T # {} PROVE FALSE
  OBVIOUS
<1>1. PICK x \in T : \A y \in T : ~ (<<y, x>> \in OpToRel(<, Nat))
  BY NatLessThanWellFounded, WFMin
<1>2. \A y \in T : ~(y < x)
  BY <1>1 DEF OpToRel
<1>3. x # 0 /\ x - 1 \in Nat /\ x - 1 < x
  OBVIOUS
<1>4. x - 1 \in S
  BY <1>2, <1>3
<1> QED BY <1>3, <1>4

(* A loop whose turns, given as a function, keep to a set of states has a    *)
(* run of every length.                                                      *)
HasRun(S, a, N, turn) ==
    \E f \in [0..N -> S] : f[0] = a /\ \A k \in 1..N : f[k] = turn[<<f[k - 1], k>>]

LEMMA RunExists ==
    ASSUME NEW S, NEW a \in S, NEW N \in Nat, NEW turn \in [S \X (1..N) -> S]
    PROVE  HasRun(S, a, N, turn)
<1> DEFINE Has(n) == n <= N => \E f \in [0..n -> S] :
                        f[0] = a /\ \A k \in 1..n : f[k] = turn[<<f[k - 1], k>>]
           T == {n \in Nat : Has(n)}
<1>1. 0 \in T
  <2>1. PICK f : f = [k \in 0..0 |-> a]
    OBVIOUS
  <2>2. f \in [0..0 -> S] /\ f[0] = a /\ \A k \in 1..0 : f[k] = turn[<<f[k - 1], k>>]
    BY <2>1
  <2> QED BY <2>2
<1>2. ASSUME NEW n \in Nat, Has(n), n + 1 <= N
      PROVE  \E f \in [0..(n + 1) -> S] :
                f[0] = a /\ \A k \in 1..(n + 1) : f[k] = turn[<<f[k - 1], k>>]
  <2>1. PICK f \in [0..n -> S] : f[0] = a /\ \A k \in 1..n : f[k] = turn[<<f[k - 1], k>>]
    BY <1>2
  <2>2. PICK y : y = turn[<<f[n], n + 1>>]
    OBVIOUS
  <2>3. y \in S
    <3>1. f[n] \in S /\ n + 1 \in 1..N
      BY <1>2, <2>1
    <3> QED BY <2>2, <3>1
  <2>4. PICK g : g = [k \in 0..(n + 1) |-> IF k = n + 1 THEN y ELSE f[k]]
    OBVIOUS
  <2>5. g \in [0..(n + 1) -> S]
    <3>1. \A k \in 0..(n + 1) : k # n + 1 => k \in 0..n
      OBVIOUS
    <3> QED BY <2>1, <2>3, <2>4, <3>1
  <2>6. g[n + 1] = y /\ \A k \in 0..n : g[k] = f[k]
    BY <2>4
  <2>7. \A k \in 1..(n + 1) : g[k] = turn[<<g[k - 1], k>>]
    <3> TAKE k \in 1..(n + 1)
    <3>1. CASE k = n + 1
      <4>1. k - 1 = n /\ n \in 0..n
        BY <3>1
      <4> QED BY <2>2, <2>6, <3>1, <4>1
    <3>2. CASE k # n + 1
      <4>1. k \in 1..n /\ k \in 0..n /\ k - 1 \in 0..n
        BY <3>2
      <4>2. f[k] = turn[<<f[k - 1], k>>]
        BY <2>1, <4>1
      <4> QED BY <2>6, <4>1, <4>2
    <3> QED BY <3>1, <3>2
  <2>8. g[0] = a
    BY <2>1, <2>6
  <2> QED BY <2>5, <2>7, <2>8
<1>3. \A n \in Nat : n \in T => n + 1 \in T
  <2> SUFFICES ASSUME NEW n \in Nat, Has(n) PROVE Has(n + 1)
    OBVIOUS
  <2> QED BY <1>2
<1> HIDE DEF Has
<1>4. Nat \subseteq T
  BY <1>1, <1>3, SetInduction
<1>5. Has(N)
  BY <1>4
<1> QED BY <1>5 DEF Has, HasRun

-----------------------------------------------------------------------------
(* The first NUL ends a string. *)
LEMMA LeastIs ==
    ASSUME NEW S, S \subseteq Int, NEW x \in S, \A y \in S : x <= y
    PROVE  Min(S) = x
<1>1. \E z \in S : \A y \in S : z <= y
  OBVIOUS
<1>2. Min(S) \in S /\ \A y \in S : Min(S) <= y
  BY <1>1 DEF Min
<1>3. Min(S) \in Int /\ x \in Int /\ Min(S) <= x /\ x <= Min(S)
  BY <1>2
<1> QED BY ONLY <1>3

LEMMA MinOfTwo ==
    ASSUME NEW x \in Int, NEW y \in Int
    PROVE  Min({x, y}) = IF x <= y THEN x ELSE y
<1>1. CASE x <= y
  BY <1>1, LeastIs
<1>2. CASE ~(x <= y)
  <2>1. y <= x
    BY <1>2
  <2> QED BY <1>2, <2>1, LeastIs
<1> QED BY <1>1, <1>2

Start(s, k) == [i \in 1..k |-> s[i]]

LEMMA TextIs ==
    ASSUME NEW T, NEW s \in Seq(T), NEW k \in 0..Len(s), \A i \in 1..k : s[i] # NUL,
           k < Len(s) => s[k + 1] = NUL
    PROVE  Text(s) = Start(s, k)
<1> DEFINE I == {i \in 1..Len(s) : s[i] = NUL}
           end == IF I # {} THEN Min(I) ELSE 0
<1>0. Len(s) \in Nat /\ k \in Nat /\ k <= Len(s)
  OBVIOUS
<1>1. Text(s) = IF end = 0 THEN s ELSE SubSeq(s, 1, end - 1)
  BY DEF Text, SelectInSeq
<1>2. CASE k = Len(s)
  <2>1. I = {}
    BY <1>2
  <2>2. Text(s) = s
    BY <1>1, <2>1
  <2>3. s = [i \in 1..Len(s) |-> s[i]]
    OBVIOUS
  <2> QED BY <1>2, <2>2, <2>3 DEF Start
<1>3. CASE k # Len(s)
  <2>1. k + 1 \in 1..Len(s) /\ s[k + 1] = NUL
    BY <1>0, <1>3
  <2>2. k + 1 \in I /\ I \subseteq Int
    BY <2>1
  <2>3. \A i \in I : k + 1 <= i
    <3> SUFFICES ASSUME NEW i \in I, ~(k + 1 <= i) PROVE FALSE
      OBVIOUS
    <3>1. i \in 1..k
      BY <1>0
    <3> QED BY <3>1
  <2>4. Min(I) = k + 1
    <3> HIDE DEF I
    <3> QED BY <2>2, <2>3, LeastIs
  <2>5. end = k + 1
    BY <2>2, <2>4
  <2> HIDE DEF end
  <2>6. Text(s) = SubSeq(s, 1, k)
    <3>1. end # 0 /\ end - 1 = k
      BY <1>0, <2>5
    <3> QED BY <1>1, <3>1
  <2>7. SubSeq(s, 1, k) = [i \in 1..k |-> s[i]]
    BY <1>0
  <2> QED BY <2>6, <2>7 DEF Start
<1> QED BY <1>2, <1>3

-----------------------------------------------------------------------------
(* CopyStringFromMachine. *)
MemOK      == mem \in [Address -> Byte]
KernelByte == Byte \cup {Unset}
Reading    == [ch : Byte, to : Seq(KernelByte)]

LEMMA ReadByteType ==
    ASSUME MemOK, NEW s \in Reading, NEW a
    PROVE  ReadByte(s, a) \in Reading
<1>1. s.ch \in Byte /\ s.to \in Seq(KernelByte) /\ s = [ch |-> s.ch, to |-> s.to]
  BY DEF Reading
<1>2. \A c \in KernelByte : Append(s.to, c) \in Seq(KernelByte)
  BY <1>1
<1>3. Unset \in KernelByte /\ Byte \subseteq KernelByte
  BY DEF KernelByte
<1>4. ASSUME NEW ch \in Byte, NEW c \in KernelByte
      PROVE  [ch |-> ch, to |-> Append(s.to, c)] \in Reading
  BY <1>2 DEF Reading
<1>5. CASE s.ch = NUL
  BY <1>5 DEF ReadByte
<1>6. CASE s.ch # NUL /\ a \in Address
  <2>1. mem[a] \in Byte
    BY <1>6 DEF MemOK
  <2>2. ReadByte(s, a) = [ch |-> mem[a], to |-> Append(s.to, mem[a])]
    BY <1>6 DEF ReadByte
  <2> QED BY <1>3, <1>4, <2>1, <2>2
<1>7. CASE s.ch # NUL /\ a \notin Address
  <2>1. ReadByte(s, a) = [s EXCEPT !.to = Append(@, Unset)]
    BY <1>7 DEF ReadByte
  <2>2. ReadByte(s, a) = [ch |-> s.ch, to |-> Append(s.to, Unset)]
    BY <1>1, <2>1
  <2> QED BY <1>1, <1>3, <1>4, <2>2
<1> QED BY <1>5, <1>6, <1>7

(* The loop has a run, whose last state holds the string. *)
LEMMA ReadRun ==
    ASSUME MemOK, NEW from, NEW size \in Nat \ {0}
    PROVE  \E f \in [0..(size - 1) -> Reading] :
              /\ f[0] = [ch |-> 1, to |-> <<>>]
              /\ \A k \in 1..(size - 1) : f[k] = ReadByte(f[k - 1], from + k - 1)
              /\ ReadString(from, size) = f[size - 1].to
<1> DEFINE N == size - 1
           a == [ch |-> 1, to |-> <<>>]
           turn == [p \in Reading \X (1..N) |-> ReadByte(p[1], from + p[2] - 1)]
           Body(f) == [k \in 0..(size - 1) |-> IF k = 0 THEN a ELSE ReadByte(f[k - 1], from + k - 1)]
<1>0. N \in Nat
  OBVIOUS
<1>1. a \in Reading
  BY DEF Reading, Byte, NUL
<1>2. turn \in [Reading \X (1..N) -> Reading]
  BY ReadByteType
<1>3. \A s \in Reading, k \in 1..N : turn[<<s, k>>] = ReadByte(s, from + k - 1)
  OBVIOUS
<1> HIDE DEF N, a, turn
<1>4. PICK f \in [0..N -> Reading] : f[0] = a /\ \A k \in 1..N : f[k] = turn[<<f[k - 1], k>>]
  <2>1. HasRun(Reading, a, N, turn)
    BY ONLY <1>0, <1>1, <1>2, RunExists
  <2> QED BY ONLY <2>1 DEF HasRun
<1>5. \A k \in 1..N : k - 1 \in 0..N
  BY <1>0
<1>6. \A k \in 1..N : f[k] = ReadByte(f[k - 1], from + k - 1)
  BY <1>3, <1>4, <1>5
<1>7. \A k \in 0..N : f[k] = IF k = 0 THEN a ELSE ReadByte(f[k - 1], from + k - 1)
  BY <1>0, <1>4, <1>6
<1>8. f = Body(f)
  BY <1>7 DEF N
<1>9. PICK g : g = CHOOSE h : h = Body(h)
  OBVIOUS
<1>10. g = Body(g)
  <2> HIDE DEF Body
  <2> QED BY ONLY Zenon, <1>8, <1>9
<1>11. /\ g[0] = a
       /\ \A k \in 1..N : g[k] = ReadByte(g[k - 1], from + k - 1)
       /\ DOMAIN g = 0..N
  BY <1>0, <1>10 DEF N
<1>12. ReadString(from, size) = g[size - 1].to
  BY Zenon, <1>9 DEF ReadString, a
<1>13. \A k \in 0..N : g[k] \in Reading
  <2> DEFINE T == {k \in Nat : k <= N => g[k] \in Reading}
  <2>1. 0 \in T
    BY <1>1, <1>11
  <2>2. \A k \in Nat : k \in T => k + 1 \in T
    <3> SUFFICES ASSUME NEW k \in Nat, k <= N => g[k] \in Reading, k + 1 <= N
                 PROVE  g[k + 1] \in Reading
      OBVIOUS
    <3>1. k + 1 \in 1..N /\ k + 1 - 1 = k /\ k <= N
      BY <1>0
    <3>2. g[k + 1] = ReadByte(g[k], from + (k + 1) - 1)
      BY <1>11, <3>1
    <3> QED BY <3>1, <3>2, ReadByteType
  <2>3. Nat \subseteq T
    <3> HIDE DEF T
    <3> QED BY <2>1, <2>2, SetInduction
  <2> QED BY <1>0, <2>3
<1>14. g \in [0..N -> Reading] /\ g[0] = a
  BY <1>10, <1>11, <1>13 DEF N
<1> QED BY <1>11, <1>12, <1>14 DEF a, N

(* The bytes read so far, up to a NUL that may be the last. *)
Takes(from, b, i) == b = IF from + i - 1 \in Address THEN mem[from + i - 1] ELSE Unset

ReadOK(from, k, s) ==
    /\ s \in Reading
    /\ Len(s.to) <= k /\ (s.ch # NUL => Len(s.to) = k)
    /\ s.ch = NUL => Len(s.to) > 0 /\ s.to[Len(s.to)] = NUL
    /\ \A i \in 1..Len(s.to) : Takes(from, s.to[i], i)
    /\ \A i \in 1..Len(s.to) : s.to[i] = NUL => i = Len(s.to) /\ s.ch = NUL

LEMMA ReadStep ==
    ASSUME MemOK, NEW from \in Nat, NEW k \in Nat, NEW s, ReadOK(from, k, s)
    PROVE  ReadOK(from, k + 1, ReadByte(s, from + k))
<1>0. s \in Reading /\ s.ch \in Byte /\ s.to \in Seq(KernelByte) /\ Len(s.to) \in Nat
  BY DEF ReadOK, Reading
<1>1. CASE s.ch = NUL
  <2>1. ReadByte(s, from + k) = s
    BY <1>1 DEF ReadByte
  <2> QED BY <1>0, <1>1, <2>1 DEF ReadOK
<1>2. CASE s.ch # NUL
  <2>0. Len(s.to) = k /\ \A i \in 1..k : Takes(from, s.to[i], i) /\ s.to[i] # NUL
    BY <1>2 DEF ReadOK
  <2>1. PICK r : r = ReadByte(s, from + k)
    OBVIOUS
  <2>2. r \in Reading
    BY <1>0, <2>1, ReadByteType
  <2>3. PICK c \in KernelByte :
           /\ r.to = Append(s.to, c) /\ Takes(from, c, k + 1) /\ (r.ch = NUL <=> c = NUL)
    <3>0. from + (k + 1) - 1 = from + k /\ Unset \in KernelByte /\ Unset # NUL
      BY DEF KernelByte, Unset, NUL
    <3>1. CASE from + k \in Address
      <4>1. r.ch = mem[from + k] /\ r.to = Append(s.to, mem[from + k])
        BY <1>2, <2>1, <3>1 DEF ReadByte
      <4>2. mem[from + k] \in KernelByte
        BY <3>1 DEF MemOK, KernelByte
      <4>3. Takes(from, mem[from + k], k + 1)
        BY <3>0, <3>1 DEF Takes
      <4> QED BY <4>1, <4>2, <4>3
    <3>2. CASE from + k \notin Address
      <4>1. r = [s EXCEPT !.to = Append(@, Unset)]
        BY <1>2, <2>1, <3>2 DEF ReadByte
      <4>2. r.ch = s.ch /\ r.to = Append(s.to, Unset)
        BY <1>0, <4>1 DEF Reading
      <4>3. Takes(from, Unset, k + 1)
        BY <3>0, <3>2 DEF Takes
      <4> QED BY <1>2, <3>0, <4>2, <4>3
    <3> QED BY <3>1, <3>2
  <2>4. Len(r.to) = k + 1 /\ r.to[k + 1] = c /\ \A i \in 1..k : r.to[i] = s.to[i]
    BY <1>0, <2>0, <2>3
  <2>5. \A i \in 1..(k + 1) : Takes(from, r.to[i], i)
    <3> TAKE i \in 1..(k + 1)
    <3>1. CASE i = k + 1
      BY <2>3, <2>4, <3>1
    <3>2. CASE i # k + 1
      <4>1. i \in 1..k
        BY <3>2
      <4> QED BY <2>0, <2>4, <4>1
    <3> QED BY <3>1, <3>2
  <2>6. \A i \in 1..(k + 1) : r.to[i] = NUL => i = k + 1 /\ r.ch = NUL
    <3> TAKE i \in 1..(k + 1)
    <3>1. CASE i = k + 1
      BY <2>3, <2>4, <3>1
    <3>2. CASE i # k + 1
      <4>1. i \in 1..k
        BY <3>2
      <4> QED BY <2>0, <2>4, <4>1
    <3> QED BY <3>1, <3>2
  <2>7. r.ch = NUL => r.to[k + 1] = NUL
    BY <2>3, <2>4
  <2>8. k + 1 > 0 /\ k + 1 <= k + 1
    OBVIOUS
  <2> QED BY <2>1, <2>2, <2>4, <2>5, <2>6, <2>7, <2>8 DEF ReadOK
<1> QED BY <1>1, <1>2

LEMMA ReadIs ==
    ASSUME MemOK, NEW from \in Nat, NEW size \in Nat \ {0}
    PROVE  \E s : ReadOK(from, size - 1, s) /\ ReadString(from, size) = s.to
<1> DEFINE N == size - 1
<1>0. N \in Nat
  OBVIOUS
<1>1. PICK f \in [0..N -> Reading] :
              /\ f[0] = [ch |-> 1, to |-> <<>>]
              /\ \A k \in 1..N : f[k] = ReadByte(f[k - 1], from + k - 1)
              /\ ReadString(from, size) = f[N].to
  BY ReadRun
<1> DEFINE T == {k \in Nat : k <= N => ReadOK(from, k, f[k])}
<1>2. 0 \in T
  <2>1. f[0] \in Reading /\ f[0].ch = 1 /\ f[0].to = <<>> /\ 1 # NUL
    BY <1>1 DEF NUL
  <2> QED BY <2>1 DEF ReadOK
<1>3. \A k \in Nat : k \in T => k + 1 \in T
  <2> SUFFICES ASSUME NEW k \in Nat, k <= N => ReadOK(from, k, f[k]), k + 1 <= N
               PROVE  ReadOK(from, k + 1, f[k + 1])
    OBVIOUS
  <2>1. k + 1 \in 1..N /\ k + 1 - 1 = k /\ from + (k + 1) - 1 = from + k /\ k <= N
    OBVIOUS
  <2>2. f[k + 1] = ReadByte(f[k], from + k)
    BY <1>1, <2>1
  <2>3. ReadOK(from, k, f[k])
    BY <2>1
  <2> QED BY <2>2, <2>3, ReadStep
<1>4. Nat \subseteq T
  <2> HIDE DEF T
  <2> QED BY <1>2, <1>3, SetInduction
<1>5. ReadOK(from, N, f[N])
  BY <1>4
<1> QED BY <1>1, <1>5

-----------------------------------------------------------------------------
(* CopyStringToMachine. *)
Writing(V) == [mem : [Address -> V], i : Nat, done : BOOLEAN]

LEMMA PutType ==
    ASSUME NEW V, NEW m \in [Address -> V], NEW a, NEW c \in V
    PROVE  Put(m, a, c) \in [Address -> V]
BY DEF Put

LEMMA WriteByteType ==
    ASSUME NEW V, NEW s \in Writing(V), NEW a, NEW c \in V
    PROVE  WriteByte(s, a, c) \in Writing(V)
<1>1. s.mem \in [Address -> V] /\ s.i \in Nat /\ s.done \in BOOLEAN
      /\ s = [mem |-> s.mem, i |-> s.i, done |-> s.done]
  BY DEF Writing
<1>2. CASE s.done \/ c = NUL
  <2>1. WriteByte(s, a, c) = [s EXCEPT !.done = TRUE]
    BY <1>2 DEF WriteByte
  <2>2. WriteByte(s, a, c) = [mem |-> s.mem, i |-> s.i, done |-> TRUE]
    BY <1>1, <2>1
  <2> QED BY <1>1, <2>2 DEF Writing
<1>3. CASE ~(s.done \/ c = NUL)
  <2>1. PICK m : m = Put(s.mem, a, c)
    OBVIOUS
  <2>2. WriteByte(s, a, c) = [s EXCEPT !.mem = m, !.i = @ + 1]
    BY <1>3, <2>1 DEF WriteByte
  <2>3. WriteByte(s, a, c) = [mem |-> m, i |-> s.i + 1, done |-> s.done]
    BY <1>1, <2>2
  <2>4. m \in [Address -> V] /\ s.i + 1 \in Nat
    BY <1>1, <2>1, PutType
  <2> QED BY <1>1, <2>3, <2>4 DEF Writing
<1> QED BY <1>2, <1>3

(* The loop has a run. *)
Turns(f, string, to, size) ==
    /\ f[0] = [mem |-> mem, i |-> 0, done |-> FALSE]
    /\ \A k \in 1..(size - 1) : f[k] = WriteByte(f[k - 1], to + k - 1, string[k])
    /\ WriteString(string, to, size) = f[size - 1]

LEMMA WriteRun ==
    ASSUME MemOK, NEW string, NEW to, NEW size \in Nat \ {0}
    PROVE  \E f : Turns(f, string, to, size)
<1> DEFINE N == size - 1
           V == Byte \cup {string[k] : k \in 1..N}
           a == [mem |-> mem, i |-> 0, done |-> FALSE]
           turn == [p \in Writing(V) \X (1..N) |-> WriteByte(p[1], to + p[2] - 1, string[p[2]])]
           Body(f) == [k \in 0..(size - 1) |->
                         IF k = 0 THEN a ELSE WriteByte(f[k - 1], to + k - 1, string[k])]
<1>0. N \in Nat
  OBVIOUS
<1>1. a \in Writing(V)
  <2>1. mem \in [Address -> V]
    BY DEF MemOK
  <2> HIDE DEF V
  <2> QED BY <2>1 DEF Writing
<1>2. turn \in [Writing(V) \X (1..N) -> Writing(V)]
  <2>1. \A k \in 1..N : string[k] \in V
    OBVIOUS
  <2> HIDE DEF V, N
  <2> QED BY <2>1, WriteByteType
<1>3. \A s \in Writing(V), k \in 1..N : turn[<<s, k>>] = WriteByte(s, to + k - 1, string[k])
  OBVIOUS
<1>4. PICK f \in [0..N -> Writing(V)] :
         f[0] = a /\ \A k \in 1..N : f[k] = turn[<<f[k - 1], k>>]
  <2> HIDE DEF N, V, a, turn
  <2>1. PICK W : W = Writing(V)
    OBVIOUS
  <2>2. HasRun(W, a, N, turn)
    BY ONLY <1>0, <1>1, <1>2, <2>1, RunExists
  <2> QED BY ONLY <2>1, <2>2 DEF HasRun
<1> HIDE DEF N, V, a, turn
<1>5. \A k \in 1..N : k - 1 \in 0..N
  BY <1>0
<1>6. \A k \in 1..N : f[k] = WriteByte(f[k - 1], to + k - 1, string[k])
  BY <1>3, <1>4, <1>5
<1>7. \A k \in 0..N : f[k] = IF k = 0 THEN a ELSE WriteByte(f[k - 1], to + k - 1, string[k])
  BY <1>0, <1>4, <1>6
<1>8. f = Body(f)
  BY <1>7 DEF N
<1>9. PICK g : g = CHOOSE h : h = Body(h)
  OBVIOUS
<1>10. g = Body(g)
  <2> HIDE DEF Body
  <2> QED BY ONLY Zenon, <1>8, <1>9
<1>11. /\ g[0] = a
       /\ \A k \in 1..N : g[k] = WriteByte(g[k - 1], to + k - 1, string[k])
  BY <1>0, <1>10 DEF N
<1>12. WriteString(string, to, size) = g[size - 1]
  BY Zenon, <1>9 DEF WriteString, a
<1>13. Turns(g, string, to, size)
  BY ONLY <1>11, <1>12 DEF Turns, a, N
<1> QED BY ONLY <1>13

(* The bytes written so far, up to a NUL. *)
WriteOK(string, to, k, s) ==
    /\ s \in Writing(Byte)
    /\ s.i <= k /\ s.i <= Len(string) /\ (~s.done => s.i = k)
    /\ \A j \in 1..s.i : string[j] # NUL
    /\ s.done => s.i < Len(string) /\ string[s.i + 1] = NUL
    /\ \A a \in Address :
          s.mem[a] = IF a \in to..(to + s.i - 1) THEN string[a - to + 1] ELSE mem[a]

LEMMA WriteStep ==
    ASSUME NEW string \in Seq(Byte), NEW to \in Nat, NEW k \in Nat, NEW s,
           WriteOK(string, to, k, s), ~s.done => k + 1 <= Len(string)
    PROVE  WriteOK(string, to, k + 1, WriteByte(s, to + k, string[k + 1]))
<1>0. /\ s.mem \in [Address -> Byte] /\ s.i \in Nat /\ s.done \in BOOLEAN /\ Len(string) \in Nat
      /\ s = [mem |-> s.mem, i |-> s.i, done |-> s.done] /\ s.i <= k /\ s.i <= Len(string)
  BY DEF WriteOK, Writing
<1>1. PICK r : r = WriteByte(s, to + k, string[k + 1])
  OBVIOUS
<1>2. CASE s.done
  <2>1. r = s
    BY <1>0, <1>1, <1>2 DEF WriteByte
  <2>2. s.i <= k + 1
    BY <1>0
  <2> QED BY <1>1, <1>2, <2>1, <2>2 DEF WriteOK
<1>3. CASE ~s.done
  <2>1. s.i = k /\ k + 1 \in 1..Len(string) /\ k < Len(string)
    BY <1>0, <1>3 DEF WriteOK
  <2>2. PICK c \in Byte : c = string[k + 1]
    BY <2>1
  <2>3. CASE c = NUL
    <3>1. r = [mem |-> s.mem, i |-> s.i, done |-> TRUE]
      BY <1>0, <1>1, <2>2, <2>3 DEF WriteByte
    <3>2. r \in Writing(Byte) /\ r.mem = s.mem /\ r.i = s.i /\ r.done = TRUE
      BY <1>0, <3>1 DEF Writing
    <3>3. r.i = k /\ string[r.i + 1] = NUL
      BY <2>1, <2>2, <2>3, <3>2
    <3>4. k <= k + 1 /\ k < Len(string) /\ k <= Len(string)
      BY <1>0, <2>1
    <3>5. /\ \A j \in 1..r.i : string[j] # NUL
          /\ \A a \in Address :
                r.mem[a] = IF a \in to..(to + r.i - 1) THEN string[a - to + 1] ELSE mem[a]
      BY <3>2 DEF WriteOK
    <3> QED BY ONLY <1>1, <3>2, <3>3, <3>4, <3>5 DEF WriteOK
  <2>4. CASE c # NUL
    <3>1. PICK m : m = Put(s.mem, to + k, c)
      OBVIOUS
    <3>2. r = [mem |-> m, i |-> k + 1, done |-> FALSE]
      <4>1. r = [s EXCEPT !.mem = m, !.i = @ + 1]
        BY <1>1, <1>3, <2>2, <2>4, <3>1 DEF WriteByte
      <4> QED BY <1>0, <1>3, <2>1, <4>1
    <3>3. m \in [Address -> Byte]
      BY <1>0, <3>1, PutType
    <3>4. r \in Writing(Byte) /\ r.mem = m /\ r.i = k + 1 /\ r.done = FALSE
      BY <3>2, <3>3 DEF Writing
    <3>5. \A j \in 1..(k + 1) : string[j] # NUL
      <4> TAKE j \in 1..(k + 1)
      <4>1. CASE j = k + 1
        BY <2>2, <2>4, <4>1
      <4>2. CASE j # k + 1
        <5>1. j \in 1..s.i
          BY <2>1, <4>2
        <5> QED BY <5>1 DEF WriteOK
      <4> QED BY <4>1, <4>2
    <3>6. ASSUME NEW a \in Address
          PROVE  m[a] = IF a \in to..(to + (k + 1) - 1) THEN string[a - to + 1] ELSE mem[a]
      <4>0. a \in Int
        BY DEF Address
      <4>1. s.mem[a] = IF a \in to..(to + k - 1) THEN string[a - to + 1] ELSE mem[a]
        BY <2>1 DEF WriteOK
      <4>2. CASE a = to + k
        <5>1. m[a] = c
          BY <1>0, <3>1, <4>2 DEF Put
        <5>2. a \in to..(to + (k + 1) - 1) /\ a - to + 1 = k + 1
          BY <4>2
        <5> QED BY <2>2, <5>1, <5>2
      <4>3. CASE a # to + k
        <5>1. m[a] = s.mem[a]
          BY <1>0, <3>1, <4>3 DEF Put
        <5>2. a \in to..(to + (k + 1) - 1) <=> a \in to..(to + k - 1)
          BY <4>0, <4>3
        <5> QED BY <4>1, <5>1, <5>2
      <4> QED BY <4>2, <4>3
    <3>7. k + 1 <= k + 1 /\ k + 1 <= Len(string)
      BY <2>1
    <3> QED BY <1>1, <3>4, <3>5, <3>6, <3>7 DEF WriteOK
  <2> QED BY <2>3, <2>4
<1> QED BY <1>2, <1>3

(* What is to be copied fills the buffer or has an end within it. *)
Ends(string, n) ==
    /\ string \in Seq(Byte) /\ string # <<>>
    /\ Len(string) >= n - 1 \/ \E j \in 1..Len(string) : string[j] = NUL

LEMMA WriteIs ==
    ASSUME MemOK, NEW size \in Nat \ {0}, NEW string, Ends(string, size), NEW to \in Nat
    PROVE  WriteOK(string, to, size - 1, WriteString(string, to, size))
<1> DEFINE N == size - 1
<1>0. N \in Nat /\ string \in Seq(Byte) /\ Len(string) \in Nat
  BY DEF Ends
<1>1. PICK f : /\ f[0] = [mem |-> mem, i |-> 0, done |-> FALSE]
               /\ \A k \in 1..N : f[k] = WriteByte(f[k - 1], to + k - 1, string[k])
               /\ WriteString(string, to, size) = f[N]
  <2>1. PICK f : Turns(f, string, to, size)
    BY WriteRun
  <2> QED BY ONLY <2>1 DEF Turns
<1> DEFINE T == {k \in Nat : k <= N => WriteOK(string, to, k, f[k])}
<1>2. 0 \in T
  <2>1. f[0] \in Writing(Byte) /\ f[0].mem = mem /\ f[0].i = 0 /\ f[0].done = FALSE
    BY <1>1 DEF Writing, MemOK
  <2>2. \A a \in Address : a \notin to..(to + 0 - 1)
    OBVIOUS
  <2> QED BY <1>0, <2>1, <2>2 DEF WriteOK
<1>3. \A k \in Nat : k \in T => k + 1 \in T
  <2> SUFFICES ASSUME NEW k \in Nat, k <= N => WriteOK(string, to, k, f[k]), k + 1 <= N
               PROVE  WriteOK(string, to, k + 1, f[k + 1])
    OBVIOUS
  <2>1. k + 1 \in 1..N /\ k + 1 - 1 = k /\ to + (k + 1) - 1 = to + k /\ k <= N
    OBVIOUS
  <2>2. f[k + 1] = WriteByte(f[k], to + k, string[k + 1])
    BY <1>1, <2>1
  <2>3. PICK s : s = f[k]
    OBVIOUS
  <2>4. WriteOK(string, to, k, s)
    BY <2>1, <2>3
  <2>5. ~s.done => k + 1 <= Len(string)
    <3> SUFFICES ASSUME ~s.done, ~(k + 1 <= Len(string)) PROVE FALSE
      OBVIOUS
    <3>1. s.i = k /\ \A j \in 1..k : string[j] # NUL
      BY <2>4 DEF WriteOK
    <3>2. ~(Len(string) >= size - 1)
      BY <1>0, <2>1
    <3>3. PICK j \in 1..Len(string) : string[j] = NUL
      BY <3>2 DEF Ends
    <3>4. j \in 1..k
      BY <1>0
    <3> QED BY <3>1, <3>3, <3>4
  <2> QED BY <1>0, <2>2, <2>3, <2>4, <2>5, WriteStep
<1>4. Nat \subseteq T
  <2> HIDE DEF T
  <2> QED BY <1>2, <1>3, SetInduction
<1>5. WriteOK(string, to, N, f[N])
  BY <1>0, <1>4
<1> QED BY <1>1, <1>5

-----------------------------------------------------------------------------
(* The copies keep the text. *)
LEMMA StoredIs ==
    ASSUME NEW m \in [Address -> Byte], NEW a \in 0..MemSize, NEW n \in Nat
    PROVE  \E q \in Nat :
              /\ q = IF n <= MemSize - a THEN n ELSE MemSize - a
              /\ Stored(m, a, n) \in Seq(Byte) /\ Len(Stored(m, a, n)) = q
              /\ \A i \in 1..q : Stored(m, a, n)[i] = m[a + i - 1]
<1>0. MemSize \in Nat
  BY SyscallsAssumption
<1>1. PICK q \in Nat : q = IF n <= MemSize - a THEN n ELSE MemSize - a
  <2>1. MemSize - a \in Nat
    BY <1>0
  <2>2. PICK x : x = IF n <= MemSize - a THEN n ELSE MemSize - a
    OBVIOUS
  <2> QED BY ONLY <2>1, <2>2, n \in Nat
<1>2. Min({n, MemSize - a}) = q
  <2>1. PICK y \in Int : y = MemSize - a
    BY <1>0
  <2>2. Min({n, y}) = IF n <= y THEN n ELSE y
    BY MinOfTwo
  <2> QED BY <1>1, <2>1, <2>2
<1>3. Stored(m, a, n) = [i \in 1..q |-> m[a + i - 1]]
  BY <1>2 DEF Stored
<1>4. \A i \in 1..q : m[a + i - 1] \in Byte
  <2> TAKE i \in 1..q
  <2>1. a + i - 1 \in Address
    BY <1>0, <1>1 DEF Address
  <2> QED BY <2>1
<1>5. PICK s : s = Stored(m, a, n)
  OBVIOUS
<1>6. s \in [1..q -> Byte]
  BY <1>3, <1>4, <1>5
<1>7. s \in Seq(Byte) /\ Len(s) = q /\ \A i \in 1..q : s[i] = m[a + i - 1]
  <2>1. s \in Seq(Byte)
    BY <1>6, SeqDef
  <2>2. DOMAIN s = 1..q
    BY <1>6
  <2>3. Len(s) = q
    BY <2>1, <2>2
  <2> QED BY <1>3, <1>5, <2>1, <2>3
<1> QED BY <1>1, <1>5, <1>7

LEMMA SameStart ==
    ASSUME NEW s, NEW r, NEW k \in Nat, \A i \in 1..k : s[i] = r[i]
    PROVE  Start(s, k) = Start(r, k)
BY DEF Start

LEMMA TextIn ==
    ASSUME MemOK, NEW from \in 0..MemSize, NEW size \in Nat \ {0},
           NEW to, to = ReadString(from, size)
    PROVE  /\ to \in Seq(KernelByte) /\ Len(Append(to, NUL)) <= size
           /\ (\A j \in 0..(size - 2) : j < Len(to) => from + j \in Address) =>
                 Text(Append(to, NUL)) = Text(Stored(mem, from, size - 1))
<1>0. MemSize \in Nat /\ from \in Nat /\ size - 1 \in Nat /\ from <= MemSize
  BY SyscallsAssumption
<1>1. PICK s : ReadOK(from, size - 1, s) /\ to = s.to
  BY <1>0, ReadIs
<1>2. to \in Seq(KernelByte) /\ Len(to) \in Nat /\ Len(to) <= size - 1
  BY <1>1 DEF ReadOK, Reading
<1>3. PICK string : string = Append(to, NUL)
  OBVIOUS
<1>4. PICK n \in Nat : n = Len(to)
  BY <1>2
<1>5. /\ string \in Seq(KernelByte) /\ Len(string) = n + 1 /\ string[n + 1] = NUL
      /\ \A i \in 1..n : string[i] = to[i]
  BY <1>2, <1>3, <1>4 DEF KernelByte, Byte
<1>6. Len(string) <= size
  BY <1>2, <1>4, <1>5
<1>7. ASSUME \A j \in 0..(size - 2) : j < n => from + j \in Address
      PROVE  Text(string) = Text(Stored(mem, from, size - 1))
  <2>1. ASSUME NEW i \in 1..n PROVE from + i - 1 \in Address /\ to[i] = mem[from + i - 1]
    <3>1. i - 1 \in 0..(size - 2) /\ i - 1 < n /\ from + (i - 1) = from + i - 1
      BY <1>0, <1>2, <1>4
    <3>2. from + i - 1 \in Address
      BY <1>7, <3>1
    <3>3. Takes(from, to[i], i)
      BY <1>1, <1>4 DEF ReadOK
    <3> QED BY <3>2, <3>3 DEF Takes
  <2>2. PICK k \in Nat : /\ k <= n /\ k = IF s.ch = NUL THEN n - 1 ELSE n
                         /\ s.ch = NUL => n > 0
    <3>1. s.ch = NUL => n > 0
      BY <1>1, <1>4 DEF ReadOK
    <3>2. PICK k : k = IF s.ch = NUL THEN n - 1 ELSE n
      OBVIOUS
    <3>3. k \in Nat /\ k <= n
      BY <3>1, <3>2
    <3> QED BY ONLY <3>1, <3>2, <3>3
  <2>3. \A i \in 1..k : to[i] # NUL
    <3> SUFFICES ASSUME NEW i \in 1..k, to[i] = NUL PROVE FALSE
      OBVIOUS
    <3>1. i \in 1..n
      BY <2>2
    <3>2. i = n /\ s.ch = NUL
      BY <1>1, <1>4, <3>1 DEF ReadOK
    <3> QED BY <2>2, <3>2
  <2>4. s.ch = NUL => to[n] = NUL
    BY <1>1, <1>4 DEF ReadOK
  <2>5. s.ch # NUL => n = size - 1
    BY <1>1, <1>4 DEF ReadOK
  <2>6. \A i \in 1..k : i \in 1..n
    BY <2>2
  <2>7. Text(string) = Start(string, k)
    <3>1. k \in 0..Len(string)
      BY <1>5, <2>2
    <3>2. \A i \in 1..k : string[i] # NUL
      BY <1>5, <2>3, <2>6
    <3>3. string[k + 1] = NUL
      <4>1. CASE s.ch = NUL
        <5>1. k + 1 = n /\ n \in 1..n
          BY <2>2, <4>1
        <5> QED BY <1>5, <2>4, <4>1, <5>1
      <4>2. CASE s.ch # NUL
        BY <1>5, <2>2, <4>2
      <4> QED BY <4>1, <4>2
    <3> QED BY <1>5, <3>1, <3>2, <3>3, TextIs
  <2>8. PICK st : st = Stored(mem, from, size - 1)
    OBVIOUS
  <2>9. PICK q \in Nat :
           /\ q = IF size - 1 <= MemSize - from THEN size - 1 ELSE MemSize - from
           /\ st \in Seq(Byte) /\ Len(st) = q /\ \A i \in 1..q : st[i] = mem[from + i - 1]
    <3>1. PICK x \in Nat : x = size - 1
      BY <1>0
    <3>2. mem \in [Address -> Byte] /\ from \in 0..MemSize
      BY DEF MemOK
    <3>3. PICK q \in Nat :
             /\ q = IF x <= MemSize - from THEN x ELSE MemSize - from
             /\ Stored(mem, from, x) \in Seq(Byte) /\ Len(Stored(mem, from, x)) = q
             /\ \A i \in 1..q : Stored(mem, from, x)[i] = mem[from + i - 1]
      BY ONLY <3>1, <3>2, StoredIs, ZenonT(60)
    <3> QED BY ONLY <2>8, <3>1, <3>3
  <2>10. n <= q
    <3>1. CASE n = 0
      BY <3>1
    <3>2. CASE n # 0
      <4>0. n \in 1..n
        BY <3>2
      <4>1. from + n - 1 \in Address
        BY <2>1, <4>0
      <4>2. n <= MemSize - from
        BY <1>0, <4>1 DEF Address
      <4> QED BY <1>2, <1>4, <2>9, <4>2
    <3> QED BY <3>1, <3>2
  <2>11. \A i \in 1..n : st[i] = to[i]
    <3> TAKE i \in 1..n
    <3>1. i \in 1..q
      BY <2>10
    <3> QED BY <2>1, <2>9, <3>1
  <2>12. Text(st) = Start(st, k)
    <3>1. k \in 0..Len(st)
      BY <2>2, <2>9, <2>10
    <3>2. \A i \in 1..k : st[i] # NUL
      BY <2>3, <2>6, <2>11
    <3>3. k < Len(st) => st[k + 1] = NUL
      <4>1. CASE s.ch = NUL
        <5>1. k + 1 = n /\ n \in 1..n
          BY <2>2, <4>1
        <5> QED BY <2>4, <2>11, <4>1, <5>1
      <4>2. CASE s.ch # NUL
        <5>1. k = size - 1
          BY <2>2, <2>5, <4>2
        <5>2. q <= size - 1
          BY <1>0, <2>9
        <5> QED BY <1>0, <2>9, <5>1, <5>2
      <4> QED BY <4>1, <4>2
    <3> QED BY <2>9, <3>1, <3>2, <3>3, TextIs
  <2>13. Start(string, k) = Start(st, k)
    <3>1. \A i \in 1..k : string[i] = st[i]
      BY <1>5, <2>6, <2>11
    <3> QED BY <3>1, SameStart
  <2> QED BY <2>7, <2>8, <2>12, <2>13
<1> QED BY <1>2, <1>3, <1>4, <1>6, <1>7

(* m is the memory after the copy of string, i bytes of it, to a buffer of n. *)
WritesOut(m, string, to, n, i) ==
    /\ m \in [Address -> Byte] /\ \A a \in Address \ to..(to + n - 1) : m[a] = mem[a]
    /\ (\A j \in 0..(n - 1) : j <= i => to + j \in Address) =>
          /\ Len(Text(Stored(m, to, n))) < n
          /\ Text(Stored(m, to, n)) = Text(SubSeq(string, 1, Min({n - 1, Len(string)})))

LEMMA TextOut ==
    ASSUME MemOK, NEW n \in Nat \ {0}, NEW string, Ends(string, n), NEW to \in Nat,
           NEW s, s = WriteString(string, to, n), NEW m, m = Put(s.mem, to + s.i, NUL)
    PROVE  WritesOut(m, string, to, n, s.i)
<1>0. MemSize \in Nat /\ string \in Seq(Byte) /\ Len(string) \in Nat /\ NUL \in Byte
  BY SyscallsAssumption DEF Ends, Byte
<1>1. WriteOK(string, to, n - 1, s)
  BY WriteIs
<1>2. PICK k \in Nat : k = s.i /\ k <= n - 1 /\ k <= Len(string)
  BY <1>1 DEF WriteOK, Writing
<1>3. s.mem \in [Address -> Byte]
  BY <1>1 DEF WriteOK, Writing
<1>4. m \in [Address -> Byte]
  BY <1>0, <1>3, PutType
<1>5. ASSUME NEW a \in Address
      PROVE  m[a] = IF a = to + k THEN NUL
                    ELSE IF a \in to..(to + k - 1) THEN string[a - to + 1] ELSE mem[a]
  <2>1. s.mem[a] = IF a \in to..(to + k - 1) THEN string[a - to + 1] ELSE mem[a]
    BY <1>1, <1>2 DEF WriteOK
  <2>2. m[a] = IF a = to + k THEN NUL ELSE s.mem[a]
    BY <1>2, <1>3 DEF Put
  <2> QED BY <2>1, <2>2
<1>6. ASSUME NEW a \in Address, a \notin to..(to + n - 1) PROVE m[a] = mem[a]
  <2>1. a \in Int
    BY DEF Address
  <2>2. a # to + k /\ a \notin to..(to + k - 1)
    BY <1>2, <1>6, <2>1
  <2> QED BY <1>5, <2>2
<1>7. ASSUME \A j \in 0..(n - 1) : j <= k => to + j \in Address
      PROVE  /\ Len(Text(Stored(m, to, n))) < n
             /\ Text(Stored(m, to, n)) = Text(SubSeq(string, 1, Min({n - 1, Len(string)})))
  <2>1. ASSUME NEW j \in 0..k PROVE to + j \in Address
    <3>1. j \in 0..(n - 1) /\ j <= k
      BY <1>2
    <3> QED BY <1>7, <3>1
  <2>2. to + k \in Address /\ to \in 0..MemSize /\ k + 1 <= MemSize - to
    <3>1. to + k \in Address
      BY <2>1
    <3> QED BY <1>0, <3>1 DEF Address
  <2>3. PICK b : b = Stored(m, to, n)
    OBVIOUS
  <2>4. PICK q \in Nat :
           /\ q = IF n <= MemSize - to THEN n ELSE MemSize - to
           /\ b \in Seq(Byte) /\ Len(b) = q /\ \A i \in 1..q : b[i] = m[to + i - 1]
    BY <1>4, <2>2, <2>3, StoredIs
  <2>5. k + 1 <= q
    BY <1>2, <2>2, <2>4
  <2>6. b[k + 1] = NUL
    <3>1. k + 1 \in 1..q /\ to + (k + 1) - 1 = to + k
      BY <2>5
    <3> QED BY <1>5, <2>2, <2>4, <3>1
  <2>7. ASSUME NEW i \in 1..k PROVE b[i] = string[i] /\ string[i] # NUL
    <3>1. /\ i \in 1..q /\ to + i - 1 = to + (i - 1) /\ i - 1 \in 0..k
          /\ to + i - 1 # to + k /\ to + i - 1 \in to..(to + k - 1)
          /\ (to + i - 1) - to + 1 = i
      BY <2>5
    <3>2. to + i - 1 \in Address
      BY <2>1, <3>1
    <3>3. m[to + i - 1] = string[i]
      BY <1>5, <3>1, <3>2
    <3>4. string[i] # NUL
      BY <1>1, <1>2 DEF WriteOK
    <3> QED BY <2>4, <3>1, <3>3, <3>4
  <2>8. Text(b) = Start(b, k)
    <3>1. k \in 0..Len(b)
      BY <2>4, <2>5
    <3>2. \A i \in 1..k : b[i] # NUL
      BY <2>7
    <3> QED BY <2>4, <2>6, <3>1, <3>2, TextIs
  <2>9. Len(Text(b)) = k
    <3>1. Start(b, k) \in [1..k -> {b[i] : i \in 1..k}]
      BY DEF Start
    <3>2. Start(b, k) \in Seq({b[i] : i \in 1..k}) /\ DOMAIN Start(b, k) = 1..k
      BY <3>1, SeqDef
    <3> QED BY <2>8, <3>2
  <2>10. PICK p \in Nat : p = Min({n - 1, Len(string)}) /\ k <= p /\ p <= n - 1 /\ p <= Len(string)
    <3>1. PICK x \in Nat : x = n - 1
      OBVIOUS
    <3>2. PICK y \in Nat : y = Len(string)
      BY <1>0
    <3>3. Min({x, y}) = IF x <= y THEN x ELSE y
      BY MinOfTwo
    <3>4. PICK p : p = Min({x, y})
      OBVIOUS
    <3>5. p \in Nat /\ k <= p /\ p <= x /\ p <= y
      BY <1>2, <3>1, <3>2, <3>3, <3>4
    <3> QED BY ONLY <3>1, <3>2, <3>4, <3>5
  <2>11. PICK sub : sub = SubSeq(string, 1, p)
    OBVIOUS
  <2>12. sub \in Seq(Byte) /\ Len(sub) = p /\ \A i \in 1..p : sub[i] = string[i]
    <3>1. sub = [i \in 1..p |-> string[i]]
      BY <1>0, <2>10, <2>11
    <3>2. \A i \in 1..p : string[i] \in Byte
      BY <1>0, <2>10
    <3>3. sub \in [1..p -> Byte]
      BY ONLY <3>1, <3>2
    <3>4. sub \in Seq(Byte) /\ DOMAIN sub = 1..p
      BY ONLY <3>3, p \in Nat, SeqDef
    <3> QED BY ONLY <3>1, <3>4, p \in Nat
  <2>13. Text(sub) = Start(sub, k)
    <3>1. k \in 0..Len(sub)
      BY <2>10, <2>12
    <3>2. \A i \in 1..k : sub[i] # NUL
      <4> TAKE i \in 1..k
      <4>1. i \in 1..p
        BY <2>10
      <4> QED BY <2>7, <2>12, <4>1
    <3>3. ASSUME k < p PROVE sub[k + 1] = NUL
      <4>1. s.done
        BY <1>1, <1>2, <2>10, <3>3 DEF WriteOK
      <4>2. string[k + 1] = NUL
        BY <1>1, <1>2, <4>1 DEF WriteOK
      <4>3. k + 1 \in 1..p
        BY <3>3
      <4> QED BY <2>12, <4>2, <4>3
    <3> QED BY <2>12, <3>1, <3>2, <3>3, TextIs
  <2>14. Start(sub, k) = Start(b, k)
    <3>1. \A i \in 1..k : sub[i] = b[i]
      <4> TAKE i \in 1..k
      <4>1. i \in 1..p
        BY <2>10
      <4> QED BY <2>7, <2>12, <4>1
    <3> QED BY <3>1, SameStart
  <2>15. k < n
    BY <1>2
  <2> QED BY <2>3, <2>8, <2>9, <2>10, <2>11, <2>13, <2>14, <2>15
<1> QED BY <1>2, <1>4, <1>6, <1>7 DEF WritesOut

-----------------------------------------------------------------------------
(* What is read into a buffer of the kernel has an end, when it is copied    *)
(* out; and no step but the copies touches a string.                         *)
Buffer(r) == r.addr \in Nat /\ (r.at = "copy" => Ends(r.string, r.n))

CopyInv == MemOK /\ \A t \in Thread : Buffer(thr[t])

Copied(r, r2) == CopiedIn(r, r2) /\ CopiedOut(r, r2)

Kept == CopyInv' /\ \A t \in Thread : Copied(thr[t], thr'[t])

Aside(r, r2) ==
    \/ r2 = r
    \/ /\ r2.addr \in Nat /\ r2.at # "copy"
       /\ r2.at = "service" => r2.call \notin TakesString
       /\ r2.at = "user" => r.at # "copy"

LEMMA AsideCopied ==
    ASSUME NEW r, NEW r2, Aside(r, r2)
    PROVE  Copied(r, r2) /\ (Buffer(r) => Buffer(r2))
<1>1. ~(r.at = "user" /\ r2.at = "service" /\ r2.call \in TakesString)
  BY DEF Aside
<1>2. ~(r.at = "copy" /\ r2.at = "user")
  BY DEF Aside
<1>3. Copied(r, r2)
  BY ONLY <1>1, <1>2 DEF Copied, CopiedIn, CopiedOut
<1>4. Buffer(r) => Buffer(r2)
  BY DEF Aside, Buffer
<1> QED BY <1>3, <1>4

LEMMA AllAside ==
    ASSUME CopyInv, MemOK', \A u \in Thread : Aside(thr[u], thr'[u])
    PROVE  Kept
<1>1. ASSUME NEW u \in Thread PROVE Copied(thr[u], thr'[u]) /\ Buffer(thr'[u])
  <2>1. PICK r : r = thr[u]
    OBVIOUS
  <2>2. PICK r2 : r2 = thr'[u]
    OBVIOUS
  <2>3. Buffer(r) /\ Aside(r, r2)
    BY <2>1, <2>2 DEF CopyInv
  <2>4. Copied(r, r2) /\ Buffer(r2)
    BY ONLY <2>3, AsideCopied
  <2> QED BY <2>1, <2>2, <2>4
<1>2. (\A u \in Thread : Buffer(thr[u]))'
  BY <1>1
<1> QED BY <1>1, <1>2 DEF Kept, CopyInv

LEMMA EnterThr ==
    ASSUME ThreadsOK, NEW t \in Thread, NEW r, Enter(t, r)
    PROVE  thr'[t] = r /\ \A u \in Thread \ {t} : thr'[u] = thr[u]
BY DEF ThreadsOK, Enter

(* One thread moves. *)
LEMMA EnterKept ==
    ASSUME PcInv, CopyInv, MemOK', NEW t \in Thread, NEW r, Enter(t, r),
           Copied(thr[t], r), Buffer(r)
    PROVE  Kept
<1>1. thr'[t] = r /\ \A u \in Thread \ {t} : thr'[u] = thr[u]
  BY EnterThr DEF PcInv
<1>2. ASSUME NEW u \in Thread PROVE Copied(thr[u], thr'[u]) /\ Buffer(thr'[u])
  <2>1. CASE u = t
    BY <1>1, <2>1
  <2>2. CASE u # t
    <3>1. PICK x : x = thr[u]
      OBVIOUS
    <3>2. Aside(x, x) /\ Buffer(x) /\ thr'[u] = x
      BY <1>1, <2>2, <3>1 DEF Aside, CopyInv
    <3>3. Copied(x, x)
      BY ONLY <3>2, AsideCopied
    <3> QED BY <3>1, <3>2, <3>3
  <2> QED BY <2>1, <2>2
<1>3. (\A u \in Thread : Buffer(thr[u]))'
  BY <1>2
<1> QED BY <1>2, <1>3 DEF Kept, CopyInv

LEMMA EnterAside ==
    ASSUME PcInv, CopyInv, MemOK', NEW t \in Thread, NEW r, Enter(t, r), Aside(thr[t], r)
    PROVE  Kept
<1>1. PICK x : x = thr[t]
  OBVIOUS
<1>2. Buffer(x) /\ Aside(x, r)
  BY <1>1 DEF CopyInv
<1>3. Copied(x, r) /\ Buffer(r)
  BY ONLY <1>2, AsideCopied
<1> QED BY <1>1, <1>3, EnterKept

-----------------------------------------------------------------------------
(* The fields of a thread that matter here. *)
LEMMA CalledFields ==
    ASSUME NEW c
    PROVE  Called(c).addr = 0 /\ Called(c).call = c /\ Called(c).at = "service" /\ Shape(Called(c))
<1>1. PICK r : r = Running
  OBVIOUS
<1>2. Called(c) = [r EXCEPT !.at = "service", !.call = c, !.moved = 0]
  BY <1>1 DEF Called
<1>3. Shape(r) /\ r.addr = 0
  BY <1>1, RunningIs DEF Running
<1> QED BY <1>2, <1>3, CalledIs DEF Shape, Field

LEMMA UpdateFields ==
    ASSUME NEW r, Shape(r)
    PROVE  UpdatePC(r).addr = r.addr /\ UpdatePC(r).at = r.at
BY DEF UpdatePC, Shape, Field

LEMMA ResumeFields ==
    ASSUME NEW r
    PROVE  Resume(r).addr = 0 /\ Resume(r).at = "user" /\ Resume(r).faults = r.faults
<1>1. PICK x : x = IF r.call \in GivesResult THEN "result" ELSE "call"
  OBVIOUS
<1>2. PICK m : m = r.moved
  OBVIOUS
<1>3. PICK f : f = r.faults
  OBVIOUS
<1>4. PICK q : q = Running
  OBVIOUS
<1>5. PICK y : y = [q EXCEPT !.moved = m, !.faults = f, !.r2 = x]
  OBVIOUS
<1>6. Resume(r) = UpdatePC(y)
  BY <1>1, <1>2, <1>3, <1>4, <1>5 DEF Resume
<1>7. Shape(q) /\ q.addr = 0
  BY <1>4, RunningIs DEF Running
<1>8. Shape(y) /\ y.addr = 0
  BY <1>5, <1>7 DEF Shape, Field
<1> QED BY <1>6, <1>8, UpdateFields, ResumeIs

(* A call that is over at once. *)
LEMMA AtOnceFields ==
    ASSUME NEW c, NEW x
    PROVE  LET r == UpdatePC([Called(c) EXCEPT !.at = "user", !.r2 = x])
           IN  r.addr = 0 /\ r.at = "user"
<1>1. PICK y : y = Called(c)
  OBVIOUS
<1>2. PICK z : z = [y EXCEPT !.at = "user", !.r2 = x]
  OBVIOUS
<1>3. Shape(y) /\ y.addr = 0
  BY <1>1, CalledFields
<1>4. Shape(z) /\ z.at = "user" /\ z.addr = 0
  BY <1>2, <1>3 DEF Shape, Field
<1>5. UpdatePC(z).addr = 0 /\ UpdatePC(z).at = "user"
  BY <1>4, UpdateFields
<1> QED BY <1>1, <1>2, <1>5

LEMMA AccessFields ==
    ASSUME NEW r, Shape(r), NEW A, IsFiniteSet(A), r.faults \in Nat
    PROVE  /\ Access(r, A).call = r.call /\ Access(r, A).addr = r.addr
           /\ Access(r, A).at = r.at /\ Shape(Access(r, A)) /\ Access(r, A).faults \in Nat
           /\ Access(r, A).faults = 0 => A \subseteq Address
<1>1. PICK k \in Nat : k = Cardinality(A \ Address) /\ (k = 0 => A \ Address = {})
  <2>1. IsFiniteSet(A \ Address)
    BY FS_Subset
  <2> QED BY <2>1, FS_CardinalityType, FS_EmptySet
<1>2. Access(r, A) = [r EXCEPT !.faults = @ + k, !.moved = @ + k]
  BY <1>1 DEF Access
<1>3. PICK x : x = Access(r, A)
  OBVIOUS
<1>4. x.call = r.call /\ x.addr = r.addr /\ x.at = r.at /\ x.faults = r.faults + k /\ Shape(x)
  BY <1>2, <1>3 DEF Shape, Field
<1>5. x.faults \in Nat /\ (x.faults = 0 => k = 0)
  BY <1>4
<1> QED BY <1>1, <1>3, <1>4, <1>5

-----------------------------------------------------------------------------
(* One lemma for the steps of each kind. *)
LEMMA StringCallKept ==
    ASSUME PcInv, CopyInv, NEW t \in Thread, NEW c, NEW from \in 0..MemSize, NEW n,
           CallWithString(t, c, from, n)
    PROVE  Kept
<1> DEFINE size == IF c = "ForkExec" THEN MAX_EXEC_NAME_LEN ELSE MAX_STRING_SIZE
           r == [Called(c) EXCEPT !.addr = from, !.n = n]
           to == ReadString(from, size)
           A == {from + i : i \in {j \in 0..(size - 2) : j < Len(to)}}
           x == [Access(r, A) EXCEPT !.string = Append(to, NUL)]
<1>1. size \in Nat \ {0} /\ from \in Nat
  BY SyscallsAssumption
<1>2. Shape(r) /\ r.at = "service" /\ r.faults = 0 /\ r.addr = from /\ r.call = c
  <2>1. PICK y : y = Called(c)
    OBVIOUS
  <2>2. Shape(y) /\ y.at = "service" /\ y.faults = 0 /\ y.call = c
    BY <2>1, CalledIs, CalledFields
  <2>3. r = [y EXCEPT !.addr = from, !.n = n]
    BY <2>1
  <2> QED BY <2>2, <2>3 DEF Shape, Field
<1>3. Enter(t, x) /\ thr[t].at = "user" /\ mem' = mem
  <2>1. Enter(t, CopyStringFromMachine(r, from, size)) /\ thr[t].at = "user" /\ mem' = mem
    BY DEF CallWithString, Trap
  <2>2. CopyStringFromMachine(r, from, size) = x
    BY DEF CopyStringFromMachine
  <2> QED BY ONLY <2>1, <2>2
<1> HIDE DEF size, r
<1>4. IsFiniteSet(A)
  <2>1. PICK S : S = {j \in 0..(size - 2) : j < Len(to)}
    OBVIOUS
  <2>2. PICK b \in Int : b = size - 2
    BY <1>1
  <2>3. S \subseteq 0..b
    BY <2>1, <2>2
  <2>4. IsFiniteSet({from + i : i \in S})
    BY <2>3, OffsetsFinite
  <2> QED BY <2>1, <2>4
<1>5. /\ to \in Seq(KernelByte) /\ Len(Append(to, NUL)) <= size
      /\ (\A j \in 0..(size - 2) : j < Len(to) => from + j \in Address) =>
            Text(Append(to, NUL)) = Text(Stored(mem, from, size - 1))
  <2>1. PICK w : w = to
    OBVIOUS
  <2>2. MemOK
    BY DEF CopyInv
  <2> QED BY ONLY <1>1, <2>1, <2>2, from \in 0..MemSize, TextIn
<1>6. A \subseteq Address => \A j \in 0..(size - 2) : j < Len(to) => from + j \in Address
  OBVIOUS
<1> HIDE DEF A, to
<1>7. PICK y : y = Access(r, A)
  OBVIOUS
<1>8. /\ y.call = c /\ y.addr = from /\ y.at = "service" /\ Shape(y) /\ y.faults \in Nat
      /\ y.faults = 0 => A \subseteq Address
  <2>1. r.faults \in Nat
    BY <1>2
  <2> QED BY <1>2, <1>4, <1>7, <2>1, AccessFields
<1>9. /\ x.call = c /\ x.addr = from /\ x.at = "service" /\ x.string = Append(to, NUL)
      /\ x.faults = y.faults
  BY <1>7, <1>8 DEF Shape, Field
<1> HIDE DEF x
<1>10. CopiedIn(thr[t], x)
  <2>1. size = IF x.call = "ForkExec" THEN MAX_EXEC_NAME_LEN ELSE MAX_STRING_SIZE
    BY <1>9 DEF size
  <2>2. Len(x.string) <= size
    BY <1>5, <1>9
  <2>3. x.faults = 0 => Text(x.string) = Text(Stored(mem, x.addr, size - 1))
    BY <1>5, <1>6, <1>8, <1>9
  <2> QED BY ONLY <2>1, <2>2, <2>3 DEF CopiedIn
<1>11. CopiedOut(thr[t], x) /\ Buffer(x)
  BY <1>1, <1>3, <1>9 DEF CopiedOut, Buffer
<1>12. MemOK'
  BY <1>3 DEF CopyInv, MemOK
<1> QED BY <1>3, <1>10, <1>11, <1>12, EnterKept DEF Copied

LEMMA MemKept ==
    ASSUME CopyInv, mem' = mem
    PROVE  MemOK'
BY DEF CopyInv, MemOK

LEMMA BufferCallKept ==
    ASSUME PcInv, CopyInv, NEW t \in Thread, NEW c, c \notin TakesString, NEW to \in Nat, NEW n,
           CallWithBuffer(t, c, to, n)
    PROVE  Kept
<1>1. PICK x : x = Called(c)
  OBVIOUS
<1>2. PICK r : r = [x EXCEPT !.addr = to, !.n = n]
  OBVIOUS
<1>3. Shape(x) /\ x.at = "service" /\ x.call = c
  BY <1>1, CalledFields
<1>4. r.at = "service" /\ r.addr = to /\ r.call = c
  BY <1>2, <1>3 DEF Shape, Field
<1>5. Enter(t, r) /\ mem' = mem
  BY <1>1, <1>2 DEF CallWithBuffer
<1>6. Aside(thr[t], r)
  BY <1>4 DEF Aside
<1> QED BY <1>5, <1>6, MemKept, EnterAside

LEMMA PlainCallKept ==
    ASSUME PcInv, CopyInv, NEW t \in Thread, NEW c \in Plain, CallPlain(t, c)
    PROVE  Kept
<1>1. PICK r : r = Called(c)
  OBVIOUS
<1>2. r.at = "service" /\ r.addr = 0 /\ r.call = c
  BY <1>1, CalledFields
<1>3. c \notin TakesString
  BY DEF Plain, TakesString, NamedFile
<1>4. Enter(t, r) /\ mem' = mem
  BY <1>1 DEF CallPlain
<1>5. Aside(thr[t], r)
  BY <1>2, <1>3 DEF Aside
<1> QED BY <1>4, <1>5, MemKept, EnterAside

LEMMA WaitPidKept ==
    ASSUME PcInv, CopyInv, NEW t \in Thread, NEW refused, CallWaitPid(t, refused)
    PROVE  Kept
<1>1. PICK x : x = Called("WaitPid")
  OBVIOUS
<1>2. PICK v : v = IF refused THEN "result" ELSE "call"
  OBVIOUS
<1>3. PICK r : r = [x EXCEPT !.r2 = v]
  OBVIOUS
<1>4. Shape(x) /\ x.at = "service" /\ x.addr = 0 /\ x.call = "WaitPid"
  BY <1>1, CalledFields
<1>5. r.at = "service" /\ r.addr = 0 /\ r.call = "WaitPid"
  BY <1>3, <1>4 DEF Shape, Field
<1>6. Enter(t, r) /\ mem' = mem
  BY <1>1, <1>2, <1>3 DEF CallWaitPid
<1>7. "WaitPid" \notin TakesString
  BY DEF TakesString, NamedFile
<1>8. Aside(thr[t], r)
  BY <1>5, <1>7 DEF Aside
<1> QED BY <1>6, <1>8, MemKept, EnterAside

LEMMA NoReturnKept ==
    ASSUME PcInv, CopyInv, NEW t \in Thread, NEW c, CallNoReturn(t, c)
    PROVE  Kept
<1>1. PICK x : x = Called(c)
  OBVIOUS
<1>2. PICK r : r = [x EXCEPT !.at = "gone"]
  OBVIOUS
<1>3. Shape(x) /\ x.addr = 0
  BY <1>1, CalledFields
<1>4. r.at = "gone" /\ r.addr = 0
  BY <1>2, <1>3 DEF Shape, Field
<1>5. Enter(t, r) /\ mem' = mem
  BY <1>1, <1>2 DEF CallNoReturn
<1>6. Aside(thr[t], r)
  BY <1>4 DEF Aside
<1> QED BY <1>5, <1>6, MemKept, EnterAside

(* A thread that was not copying goes on in user mode. *)
LEMMA UserKept ==
    ASSUME PcInv, CopyInv, MemOK', NEW t \in Thread, thr[t].at # "copy", NEW r,
           r.at = "user", r.addr \in Nat, Enter(t, r)
    PROVE  Kept
<1>1. Aside(thr[t], r)
  BY DEF Aside
<1> QED BY <1>1, EnterAside

LEMMA ExceptionKept ==
    ASSUME PcInv, CopyInv, NEW t \in Thread, OtherException(t)
    PROVE  Kept
<1>1. PICK x : x = Called("none")
  OBVIOUS
<1>2. PICK y : y = [x EXCEPT !.at = "user"]
  OBVIOUS
<1>3. PICK r : r = UpdatePC(y)
  OBVIOUS
<1>4. Shape(x) /\ x.addr = 0
  BY <1>1, CalledFields
<1>5. Shape(y) /\ y.at = "user" /\ y.addr = 0
  BY <1>2, <1>4 DEF Shape, Field
<1>6. r.at = "user" /\ r.addr \in Nat
  BY <1>3, <1>5, UpdateFields
<1>7. Enter(t, r) /\ thr[t].at = "user" /\ mem' = mem
  BY <1>1, <1>2, <1>3 DEF OtherException, Trap
<1> QED BY <1>6, <1>7, MemKept, UserKept

LEMMA ReturnKept ==
    ASSUME PcInv, CopyInv, NEW t \in Thread, Return(t)
    PROVE  Kept
<1>1. PICK r : r = Resume(thr[t])
  OBVIOUS
<1>2. r.at = "user" /\ r.addr \in Nat
  BY <1>1, ResumeFields
<1>3. Enter(t, r) /\ thr[t].at = "service" /\ mem' = mem
  BY <1>1 DEF Return, InService
<1> QED BY <1>2, <1>3, MemKept, UserKept

LEMMA GetIntKept ==
    ASSUME PcInv, CopyInv, NEW t \in Thread, GetInt(t)
    PROVE  Kept
<1>1. PICK r : r = Resume(Access(thr[t], {thr[t].addr}))
  OBVIOUS
<1>2. r.at = "user" /\ r.addr \in Nat
  BY <1>1, ResumeFields
<1>3. Enter(t, r) /\ thr[t].at = "service" /\ mem' = Put(mem, thr[t].addr, 1)
  BY <1>1 DEF GetInt, InService
<1>4. MemOK'
  <2>1. mem \in [Address -> Byte] /\ 1 \in Byte
    BY DEF CopyInv, MemOK, Byte
  <2>2. Put(mem, thr[t].addr, 1) \in [Address -> Byte]
    BY <2>1, PutType
  <2> QED BY <1>3, <2>2 DEF MemOK, Address, Byte
<1> QED BY <1>2, <1>3, <1>4, UserKept

LEMMA SemCallKept ==
    ASSUME PcInv, CopyInv, NEW t \in Thread, NEW x, SemCall(t, x), thr[t].at = "user"
    PROVE  Kept
<1>1. PICK r : r = UpdatePC([Called("Sem") EXCEPT !.at = "user", !.r2 = x])
  OBVIOUS
<1>2. r.at = "user" /\ r.addr = 0
  BY <1>1, AtOnceFields
<1>3. Enter(t, r) /\ mem' = mem
  BY <1>1 DEF SemCall
<1> QED BY <1>2, <1>3, MemKept, UserKept

(* What is read ends, or fills the buffer. *)
LEMMA FetchedKept ==
    ASSUME PcInv, CopyInv, NEW t \in Thread, thr[t].at = "service", NEW string,
           Ends(string, thr[t].n), Fetched(t, string)
    PROVE  Kept
<1>1. PICK x : x = thr[t]
  OBVIOUS
<1>2. PICK r : r = [x EXCEPT !.at = "copy", !.string = string]
  OBVIOUS
<1>3. Shape(x) /\ x.at = "service" /\ x.addr \in Nat
  BY <1>1 DEF PcInv, ThreadsOK, CopyInv, Buffer
<1>4. r.at = "copy" /\ r.string = string /\ r.n = x.n /\ r.addr = x.addr
  BY <1>2, <1>3 DEF Shape, Field
<1>5. Buffer(r)
  BY <1>1, <1>3, <1>4 DEF Buffer
<1>6. Copied(x, r)
  BY <1>3, <1>4 DEF Copied, CopiedIn, CopiedOut
<1>7. Enter(t, r) /\ mem' = mem
  BY <1>1, <1>2 DEF Fetched
<1> QED BY <1>1, <1>5, <1>6, <1>7, MemKept, EnterKept

LEMMA ReadKept ==
    ASSUME PcInv, CopyInv, NEW t \in Thread, FileRead(t) \/ LineRead(t) \/ NothingRead(t)
    PROVE  Kept
<1>1. thr[t].n \in Nat
  BY DEF PcInv, Counted
<1>2. thr[t].at = "service"
  BY DEF FileRead, LineRead, NothingRead, InService
<1>3. ASSUME NEW k \in Nat, NEW n PROVE Ends(Append([i \in 1..k |-> 1], NUL), n)
  <2>1. PICK s : s = [i \in 1..k |-> 1]
    OBVIOUS
  <2>2. s \in [1..k -> Byte] /\ NUL \in Byte
    BY <2>1 DEF Byte
  <2>3. s \in Seq(Byte) /\ DOMAIN s = 1..k
    BY <2>2, SeqDef
  <2>4. Len(s) = k
    BY <2>3
  <2>5. PICK a : a = Append(s, NUL)
    OBVIOUS
  <2>6. a \in Seq(Byte) /\ Len(a) = k + 1 /\ a[k + 1] = NUL
    BY <2>2, <2>3, <2>4, <2>5
  <2>7. a # <<>> /\ k + 1 \in 1..Len(a)
    BY <2>6
  <2>8. Ends(a, n)
    BY <2>6, <2>7 DEF Ends
  <2> QED BY <2>1, <2>5, <2>8
<1>4. CASE FileRead(t)
  <2>1. PICK string \in [1..thr[t].n -> Byte] : Fetched(t, string)
    BY <1>4 DEF FileRead
  <2>2. PICK n \in Nat : n = thr[t].n /\ n > 0
    BY <1>1, <1>4 DEF FileRead
  <2>3. string \in Seq(Byte) /\ DOMAIN string = 1..n
    BY <2>1, <2>2, SeqDef
  <2>4. Len(string) = n
    BY <2>3
  <2>5. string # <<>> /\ Len(string) >= n - 1
    BY <2>2, <2>3, <2>4
  <2>6. Ends(string, n)
    BY <2>3, <2>5 DEF Ends
  <2> QED BY <1>2, <2>1, <2>2, <2>6, FetchedKept
<1>5. CASE LineRead(t)
  <2>1. PICK got \in 0..(IF thr[t].n = 1 THEN 0 ELSE thr[t].n) :
           Fetched(t, Append([i \in 1..got |-> 1], NUL))
    BY <1>5 DEF LineRead
  <2>2. got \in Nat
    BY <1>1
  <2> QED BY <1>2, <1>3, <2>1, <2>2, FetchedKept
<1>6. CASE NothingRead(t)
  <2>1. PICK extra \in 0..MemSize : Fetched(t, Append([i \in 1..extra |-> 1], NUL))
    BY <1>6 DEF NothingRead
  <2>2. extra \in Nat
    BY SyscallsAssumption
  <2> QED BY <1>2, <1>3, <2>1, <2>2, FetchedKept
<1> QED BY <1>4, <1>5, <1>6

LEMMA CopyOutKept ==
    ASSUME PcInv, CopyInv, NEW t \in Thread, CopyOut(t)
    PROVE  Kept
<1>1. PICK r : r = thr[t]
  OBVIOUS
<1>2. /\ r.at = "copy" /\ r.n \in Nat /\ r.faults \in Nat /\ r.addr \in Nat /\ Shape(r)
      /\ Ends(r.string, r.n)
  BY <1>1 DEF CopyOut, PcInv, ThreadsOK, Counted, CopyInv, Buffer
<1>3. PICK string : string = r.string
  OBVIOUS
<1>4. PICK to \in Nat : to = r.addr
  BY <1>2
<1>5. string \in Seq(Byte) /\ Len(string) \in Nat \ {0}
  BY <1>2, <1>3 DEF Ends
<1>6. PICK size \in Nat \ {0} : size = IF r.n = 0 THEN Len(string) ELSE r.n
  <2>1. PICK x : x = IF r.n = 0 THEN Len(string) ELSE r.n
    OBVIOUS
  <2>2. x \in Nat \ {0}
    BY <1>2, <1>5, <2>1
  <2> QED BY ONLY <2>1, <2>2
<1>7. Ends(string, size)
  <2>1. CASE r.n = 0
    <3>1. Len(string) >= size - 1
      BY <1>5, <1>6, <2>1
    <3> QED BY <1>2, <1>3, <3>1 DEF Ends
  <2>2. CASE r.n # 0
    BY <1>2, <1>3, <1>6, <2>2
  <2> QED BY <2>1, <2>2
<1>8. PICK w : w = WriteString(string, to, size)
  OBVIOUS
<1>9. PICK m : m = Put(w.mem, to + w.i, NUL)
  OBVIOUS
<1>10. PICK A : A = {to + i : i \in {j \in 0..(size - 1) : j <= w.i}}
  OBVIOUS
<1>11. PICK x : x = Resume(Access(r, A))
  OBVIOUS
<1>12. mem' = m /\ Enter(t, x)
  <2>1. CopyStringToMachine(r, string, to, size) = [mem |-> m, r |-> Access(r, A)]
    BY <1>8, <1>9, <1>10 DEF CopyStringToMachine
  <2>2. LET s == CopyStringToMachine(r, string, to, size)
        IN  mem' = s.mem /\ Enter(t, Resume(s.r))
    BY <1>1, <1>3, <1>4, <1>6 DEF CopyOut
  <2> QED BY <1>11, <2>1, <2>2
<1>13. WritesOut(m, string, to, size, w.i)
  <2>1. MemOK
    BY DEF CopyInv
  <2> QED BY ONLY <1>7, <1>8, <1>9, <2>1, size \in Nat \ {0}, to \in Nat, TextOut
<1>14. IsFiniteSet(A)
  <2>1. PICK S : S = {j \in 0..(size - 1) : j <= w.i}
    OBVIOUS
  <2>2. PICK b \in Int : b = size - 1
    OBVIOUS
  <2>3. S \subseteq 0..b
    BY <2>1, <2>2
  <2>4. IsFiniteSet({to + i : i \in S})
    BY <2>3, OffsetsFinite
  <2> QED BY <1>10, <2>1, <2>4
<1>15. x.at = "user" /\ x.addr = 0 /\ (x.faults = 0 => A \subseteq Address)
  <2>1. PICK y : y = Access(r, A)
    OBVIOUS
  <2>2. y.faults = 0 => A \subseteq Address
    BY <1>2, <1>14, <2>1, AccessFields
  <2> QED BY <1>11, <2>1, <2>2, ResumeFields
<1>16. A \subseteq Address => \A j \in 0..(size - 1) : j <= w.i => to + j \in Address
  BY <1>10
<1>17. CopiedOut(r, x)
  <2> SUFFICES ASSUME r.n > 0
               PROVE  /\ \A a \in Address \ r.addr..(r.addr + r.n - 1) : mem'[a] = mem[a]
                      /\ x.faults = 0 =>
                            /\ Len(Text(Stored(mem', r.addr, r.n))) < r.n
                            /\ Text(Stored(mem', r.addr, r.n))
                                 = Text(SubSeq(r.string, 1, Min({r.n - 1, Len(r.string)})))
    BY DEF CopiedOut
  <2>1. size = r.n
    BY <1>2, <1>6
  <2>2. \A a \in Address \ to..(to + size - 1) : mem'[a] = mem[a]
    BY ONLY <1>12, <1>13 DEF WritesOut
  <2>3. x.faults = 0 => /\ Len(Text(Stored(mem', to, size))) < size
                        /\ Text(Stored(mem', to, size))
                             = Text(SubSeq(string, 1, Min({size - 1, Len(string)})))
    BY ONLY <1>12, <1>13, <1>15, <1>16 DEF WritesOut
  <2> QED BY ONLY <1>3, <1>4, <2>1, <2>2, <2>3
<1>18. CopiedIn(r, x) /\ Buffer(x)
  BY <1>15 DEF CopiedIn, Buffer
<1>19. MemOK'
  BY <1>12, <1>13 DEF MemOK, Address, Byte, WritesOut
<1> QED BY <1>1, <1>12, <1>17, <1>18, <1>19, EnterKept DEF Copied

(* SemPost of a semaphore, which wakes a thread. *)
LEMMA PostKept ==
    ASSUME PcInv, CopyInv, NEW t \in Thread, NEW sid, SemPost(t, sid)
    PROVE  Kept
<1>1. thr[t].at = "user"
  BY DEF SemPost, Trap
<1>2. CASE Refuse(t)
  BY <1>1, <1>2, SemCallKept DEF Refuse
<1>3. CASE Astray
  <2>1. mem' = mem /\ \A u \in Thread : thr'[u] = thr[u]
    BY <1>3 DEF Astray
  <2>2. \A u \in Thread : Aside(thr[u], thr'[u])
    BY <2>1 DEF Aside
  <2> QED BY <2>1, <2>2, MemKept, AllAside
<1>4. ASSUME NEW W, mem' = mem,
             thr' = [u \in Thread |->
               IF u = t
                 THEN UpdatePC([Called("Sem") EXCEPT !.at = "user", !.r2 = "result"])
                 ELSE IF u \in W THEN [thr[u] EXCEPT !.at = "woken"] ELSE thr[u]]
      PROVE  Kept
  <2>1. PICK r : r = UpdatePC([Called("Sem") EXCEPT !.at = "user", !.r2 = "result"])
    OBVIOUS
  <2>2. r.at = "user" /\ r.addr = 0
    BY <2>1, AtOnceFields
  <2>3. ASSUME NEW u \in Thread PROVE Aside(thr[u], thr'[u])
    <3>1. PICK x : x = thr[u]
      OBVIOUS
    <3>2. Shape(x) /\ x.addr \in Nat
      BY <3>1 DEF PcInv, ThreadsOK, CopyInv, Buffer
    <3>3. CASE u = t
      <4>1. thr'[u] = r
        BY <1>4, <2>1, <3>3
      <4> QED BY <1>1, <2>2, <3>3, <4>1 DEF Aside
    <3>4. CASE u # t /\ u \in W
      <4>1. PICK y : y = [x EXCEPT !.at = "woken"]
        OBVIOUS
      <4>2. thr'[u] = y
        BY <1>4, <3>1, <3>4, <4>1
      <4>3. y.at = "woken" /\ y.addr \in Nat
        BY <3>2, <4>1 DEF Shape, Field
      <4> QED BY <4>2, <4>3 DEF Aside
    <3>5. CASE u # t /\ u \notin W
      BY <1>4, <3>5 DEF Aside
    <3> QED BY <3>3, <3>4, <3>5
  <2> QED BY <1>4, <2>3, MemKept, AllAside
<1>5. \/ Refuse(t) \/ Astray
      \/ /\ mem' = mem
         /\ thr' = [u \in Thread |->
               IF u = t
                 THEN UpdatePC([Called("Sem") EXCEPT !.at = "user", !.r2 = "result"])
                 ELSE IF u \in First(UserSemaphores[sid]) THEN [thr[u] EXCEPT !.at = "woken"]
                 ELSE thr[u]]
  BY DEF SemPost, First
<1> QED BY <1>2, <1>3, <1>4, <1>5

LEMMA PKept ==
    ASSUME PcInv, CopyInv, NEW t \in Thread, thr[t].at # "copy", NEW s, NEW r, Shape(r),
           r.addr \in Nat, SemP(t, s, r), mem' = mem
    PROVE  Kept
<1>1. CASE Enter(t, [r EXCEPT !.at = "asleep", !.sem = s])
  <2>1. PICK x : x = [r EXCEPT !.at = "asleep", !.sem = s]
    OBVIOUS
  <2>2. x.at = "asleep" /\ x.addr \in Nat
    BY <2>1 DEF Shape, Field
  <2>3. Aside(thr[t], x)
    BY <2>2 DEF Aside
  <2> QED BY <1>1, <2>1, <2>3, MemKept, EnterAside
<1>2. CASE Enter(t, UpdatePC([r EXCEPT !.at = "user", !.r2 = "result", !.sem = NULL]))
  <2>1. PICK y : y = [r EXCEPT !.at = "user", !.r2 = "result", !.sem = NULL]
    OBVIOUS
  <2>2. PICK x : x = UpdatePC(y)
    OBVIOUS
  <2>3. Shape(y) /\ y.at = "user" /\ y.addr \in Nat
    BY <2>1 DEF Shape, Field
  <2>4. x.at = "user" /\ x.addr \in Nat
    BY <2>2, <2>3, UpdateFields
  <2> QED BY <1>2, <2>1, <2>2, <2>4, MemKept, UserKept
<1> QED BY <1>1, <1>2 DEF SemP

LEMMA StopKept ==
    ASSUME PcInv, CopyInv, UNCHANGED <<mem, thr>>
    PROVE  Kept
<1>1. \A u \in Thread : Aside(thr[u], thr'[u])
  BY DEF Aside
<1> QED BY <1>1, MemKept, AllAside

LEMMA WaitKept ==
    ASSUME PcInv, CopyInv, NEW t \in Thread, NEW sid, SemWait(t, sid)
    PROVE  Kept
<1>1. thr[t].at = "user"
  BY DEF SemWait, Trap
<1>2. CASE Refuse(t)
  BY <1>1, <1>2, SemCallKept DEF Refuse
<1>3. CASE Astray
  BY <1>3, StopKept DEF Astray
<1>4. CASE SemP(t, UserSemaphores[sid], Called("Sem")) /\ mem' = mem
  <2>1. PICK r : r = Called("Sem")
    OBVIOUS
  <2>2. Shape(r) /\ r.addr \in Nat
    BY <2>1, CalledFields
  <2> QED BY <1>1, <1>4, <2>1, <2>2, PKept
<1> QED BY <1>2, <1>3, <1>4 DEF SemWait

LEMMA RetryKept ==
    ASSUME PcInv, CopyInv, NEW t \in Thread, SemRetry(t)
    PROVE  Kept
<1>1. CASE Astray
  BY <1>1, StopKept DEF Astray
<1>2. CASE SemP(t, thr[t].sem, thr[t]) /\ mem' = mem
  <2>1. PICK r : r = thr[t]
    OBVIOUS
  <2>2. Shape(r) /\ r.addr \in Nat /\ r.at = "woken"
    BY <2>1 DEF PcInv, ThreadsOK, CopyInv, Buffer, SemRetry
  <2> QED BY <1>2, <2>1, <2>2, PKept
<1> QED BY <1>1, <1>2 DEF SemRetry

LEMMA DeleteKept ==
    ASSUME PcInv, CopyInv, NEW t \in Thread, NEW sid, SemDelete(t, sid)
    PROVE  Kept
<1>1. thr[t].at = "user"
  BY DEF SemDelete, Trap
<1>2. CASE Astray
  BY <1>2, StopKept DEF Astray
<1>3. CASE SemCall(t, "call")
  BY <1>1, <1>3, SemCallKept
<1> QED BY <1>2, <1>3 DEF SemDelete

LEMMA CreateKept ==
    ASSUME PcInv, CopyInv, NEW t \in Thread, NEW val, SemCreate(t, val)
    PROVE  Kept
BY SemCallKept DEF SemCreate, Trap

LEMMA StepKept ==
    ASSUME PcInv, CopyInv, [SyscallsNext]_sysVars
    PROVE  Kept
<1>0. MemSize \in Nat
  BY SyscallsAssumption
<1>1. CASE UNCHANGED sysVars
  BY <1>1, StopKept DEF sysVars
<1>2. ASSUME NEW t \in Thread, NEW c \in TakesString, NEW from \in 0..MemSize, NEW n,
             CallWithString(t, c, from, n)
      PROVE  Kept
  BY <1>2, StringCallKept
<1>3. ASSUME NEW t \in Thread, NEW c \in FillsBuffer \cup {"GetInt"}, NEW to \in 0..MemSize, NEW n,
             CallWithBuffer(t, c, to, n)
      PROVE  Kept
  <2>1. c \notin TakesString /\ to \in Nat
    BY <1>0 DEF FillsBuffer, TakesString, NamedFile
  <2> QED BY <1>3, <2>1, BufferCallKept
<1>4. ASSUME NEW t \in Thread,
        \/ \E c \in Plain : CallPlain(t, c)
        \/ \E refused \in BOOLEAN : CallWaitPid(t, refused)
        \/ \E c \in NoReturn : CallNoReturn(t, c)
        \/ OtherException(t) \/ Return(t)
        \/ FileRead(t) \/ LineRead(t) \/ NothingRead(t) \/ CopyOut(t) \/ GetInt(t)
      PROVE  Kept
  BY <1>4, PlainCallKept, WaitPidKept, NoReturnKept, ExceptionKept, ReturnKept, ReadKept, CopyOutKept,
     GetIntKept
<1>5. ASSUME NEW t \in Thread, CallUnexpected(t) \/ Overruns(t) PROVE Kept
  BY <1>5, StopKept DEF CallUnexpected, Overruns, Astray
<1>6. ASSUME NEW t \in Thread,
        \/ \E val \in Values : SemCreate(t, val)
        \/ \E sid \in -1..(NumSems + 1) : SemPost(t, sid) \/ SemWait(t, sid) \/ SemDelete(t, sid)
        \/ SemRetry(t)
      PROVE  Kept
  BY <1>6, CreateKept, PostKept, WaitKept, DeleteKept, RetryKept
<1>7. "Write" \in TakesString
  BY DEF TakesString
<1> QED BY <1>1, <1>2, <1>3, <1>4, <1>5, <1>6, <1>7 DEF SyscallsNext

LEMMA CopyInvariant == SyscallsSpec => [](PcInv /\ CopyInv)
<1>1. SyscallsInit => PcInv /\ CopyInv
  <2> SUFFICES ASSUME SyscallsInit PROVE PcInv /\ CopyInv
    OBVIOUS
  <2>1. PICK r : r = Running
    OBVIOUS
  <2>2. r.at = "user" /\ r.addr = 0
    BY <2>1 DEF Running
  <2>3. Buffer(r)
    BY <2>2 DEF Buffer
  <2>4. \A t \in Thread : thr[t] = r
    BY <2>1 DEF SyscallsInit
  <2>5. MemOK
    BY DEF SyscallsInit, MemOK
  <2> QED BY <2>3, <2>4, <2>5, InitPc DEF CopyInv
<1>2. PcInv /\ CopyInv /\ [SyscallsNext]_sysVars => CopyInv'
  BY StepKept DEF Kept
<1>3. SysInv => PcInv
  BY DEF SysInv
<1> QED BY <1>1, <1>2, <1>3, SysInvariant, PTL DEF SyscallsSpec

(* CopyStringFromMachine gives a call the string at its address, cut to the  *)
(* kernel's buffer, which this copy never overruns (what reads a file or a   *)
(* line into a buffer may: LineFits); CopyStringToMachine gives back what    *)
(* was read, ended by a NUL, and writes nothing outside the caller's buffer, *)
(* for every memory, address and size but 0.                                 *)
THEOREM StringsExactProved == SyscallsSpec => StringsExact
<1>1. PcInv /\ CopyInv /\ [SyscallsNext]_sysVars
        => [\A t \in Thread : CopiedIn(thr[t], thr'[t]) /\ CopiedOut(thr[t], thr'[t])]_sysVars
  BY StepKept DEF Kept, Copied
<1> QED BY <1>1, CopyInvariant, PTL DEF SyscallsSpec, StringsExact
=============================================================================
