-------------------------- MODULE Hardware_proofs --------------------------
(***************************************************************************)
(* Proofs about the simulated hardware and its drivers: Devices, for any   *)
(* number of threads, any times and any geometry of the disk; then         *)
(* Machine, the processor, for any program, page table and memory.         *)
(*                                                                         *)
(* DevInv: the list of interrupts is sorted, a device is busy exactly when *)
(* it owes one interrupt, nothing but the timer is overdue while a thread  *)
(* runs.  What a thread has to do is the rest of an operation, from one of *)
(* its instructions on (Program), behind the end of a Yield at most.       *)
(* StepCases says what every step does to that, the semaphores and the     *)
(* devices; the other invariants are proved over its cases:                *)
(*   UseInv: between the P and the V of its lock a device has one user,    *)
(*     and its second semaphore has a unit only for the user who waits;    *)
(*   InputInv: characters polled, in the buffer and taken add up;          *)
(*   LatencyInv: the track buffer began at the beginning of a sector.      *)
(***************************************************************************)
EXTENDS Devices, Machine, SequenceTheorems, FiniteSetTheorems,
        WellFoundedInduction, TLAPS

(* A finite, nonempty set of integers has a smallest element. *)
LEMMA LeastElement ==
    ASSUME NEW S, S \subseteq Int, S # {}, IsFiniteSet(S)
    PROVE  \E x \in S : \A y \in S : x <= y
<1> DEFINE Below(x) == {y \in S : y <= x}
           T == {Below(x) : x \in S}
<1>1. \E u \in T : \A v \in T : ~(<<v, u>> \in StrictSubsetOrdering(S))
  <2>0. FiniteSubsetsOf(S) = SUBSET S
    BY FS_FiniteSubsetsOfFinite
  <2>1. T \subseteq SUBSET S /\ T # {}
    OBVIOUS
  <2>2. IsWellFoundedOn(StrictSubsetOrdering(S), FiniteSubsetsOf(S))
    BY FS_StrictSubsetOrderingWellFounded
  <2>3. T \subseteq FiniteSubsetsOf(S)
    BY <2>0, <2>1
  <2> HIDE DEF T
  <2> QED BY <2>1, <2>2, <2>3, WFMin
<1>2. PICK x \in S : \A z \in S : ~(<<Below(z), Below(x)>> \in StrictSubsetOrdering(S))
  BY <1>1
<1>3. ASSUME NEW z \in S, ~(x <= z) PROVE FALSE
  <2>1. Below(z) \subseteq Below(x) /\ Below(z) # Below(x)
    <3>1. z \in Int /\ x \in Int /\ z < x
      BY <1>3
    <3>2. x \in Below(x) /\ x \notin Below(z)
      BY <3>1
    <3>3. \A y \in S : y <= z => y <= x
      BY <3>1
    <3> QED BY <3>2, <3>3
  <2>2. <<Below(z), Below(x)>> \in StrictSubsetOrdering(S)
    BY <2>1 DEF StrictSubsetOrdering
  <2> QED BY <1>2, <2>2
<1> QED BY <1>3

-----------------------------------------------------------------------------
(* The list of interrupts to come. *)
Kind  == {"timer", "disk", "consoleRead", "consoleWrite"}
Event == [when : Nat, type : Kind]

Sorted(list) == \A i, j \in 1..Len(list) : i <= j => list[i].when <= list[j].when

(* The entry e is put at place k of the list. *)
InsertedAt(list, k, e, new) ==
    /\ new \in Seq(Event) /\ Len(new) = Len(list) + 1
    /\ k \in 1..Len(new) /\ new[k] = e
    /\ \A i \in 1..Len(list) : i < k => new[i] = list[i]
    /\ \A i \in 1..Len(list) : i >= k => new[i + 1] = list[i]

LEMMA EventFields == \A e \in Event : e.when \in Nat /\ e.type \in Kind
BY DEF Event

LEMMA ListFields ==
    ASSUME NEW list \in Seq(Event), NEW i \in 1..Len(list)
    PROVE  list[i] \in Event /\ list[i].when \in Nat /\ list[i].type \in Kind
<1>1. list[i] \in Event
  OBVIOUS
<1> QED BY <1>1, EventFields

LEMMA InsertEffect ==
    ASSUME NEW list \in Seq(Event), NEW e \in Event, NEW k \in 1..(Len(list) + 1)
    PROVE  InsertedAt(list, k, e, InsertAt(list, k, e))
<1> DEFINE a == SubSeq(list, 1, k - 1)
           c == SubSeq(list, k, Len(list))
<1>1. a \in Seq(Event) /\ Len(a) = k - 1 /\ \A i \in 1..(k - 1) : a[i] = list[i]
  OBVIOUS
<1>2. c \in Seq(Event) /\ Len(c) = Len(list) - k + 1 /\ \A i \in 1..Len(c) : c[i] = list[i + k - 1]
  OBVIOUS
<1>3. InsertAt(list, k, e) = (a \o <<e>>) \o c
  BY DEF InsertAt
<1> HIDE DEF a, c
<1>4. PICK d : d = a \o <<e>>
  OBVIOUS
<1>5. d \in Seq(Event) /\ Len(d) = k /\ d[k] = e /\ \A i \in 1..(k - 1) : d[i] = list[i]
  <2>1. <<e>> \in Seq(Event) /\ Len(<<e>>) = 1 /\ <<e>>[1] = e
    OBVIOUS
  <2>2. d \in Seq(Event) /\ Len(d) = k
    BY <1>1, <1>4, <2>1, ConcatProperties
  <2>3. \A i \in 1..k : d[i] = IF i <= Len(a) THEN a[i] ELSE <<e>>[i - Len(a)]
    BY <1>1, <1>4, <2>1, ConcatProperties
  <2> QED BY <1>1, <2>1, <2>2, <2>3
<1>6. PICK n : n = d \o c
  OBVIOUS
<1>7. /\ n \in Seq(Event) /\ Len(n) = Len(list) + 1
      /\ \A i \in 1..Len(n) : n[i] = IF i <= Len(d) THEN d[i] ELSE c[i - Len(d)]
  BY <1>2, <1>5, <1>6, ConcatProperties
<1>8. ASSUME NEW i \in 1..Len(list), i >= k PROVE n[i + 1] = list[i]
  <2>1. n[i + 1] = c[i + 1 - k]
    BY <1>5, <1>7, <1>8
  <2>2. i + 1 - k \in 1..Len(c)
    BY <1>2, <1>8
  <2> QED BY <1>2, <1>8, <2>1, <2>2
<1>9. n = InsertAt(list, k, e)
  BY <1>3, <1>4, <1>6
<1>10. k \in 1..Len(n) /\ n[k] = e /\ \A i \in 1..Len(list) : i < k => n[i] = list[i]
  BY <1>5, <1>7
<1> QED BY <1>7, <1>8, <1>9, <1>10 DEF InsertedAt

(* The entries of a sorted list up to a time are its first ones. *)
LEMMA PrefixCount ==
    ASSUME NEW list \in Seq(Event), Sorted(list), NEW w \in Nat
    PROVE  \E k \in 0..Len(list) :
              /\ Cardinality({i \in DOMAIN list : list[i].when <= w}) = k
              /\ \A i \in 1..Len(list) : list[i].when <= w <=> i <= k
<1> DEFINE S == {i \in DOMAIN list : list[i].when <= w}
           C == {i \in 1..Len(list) : ~(list[i].when <= w)}
<1>0. \A i \in 1..Len(list) : list[i].when \in Nat
  BY ListFields
<1>1. CASE C = {}
  <2>1. S = 1..Len(list)
    BY <1>1
  <2>2. Cardinality(1..Len(list)) = Len(list)
    <3>1. PICK m \in Nat : m = Len(list)
      OBVIOUS
    <3>2. Cardinality(1..m) = IF 1 > m THEN 0 ELSE m - 1 + 1
      BY FS_Interval
    <3> QED BY <3>1, <3>2
  <2>3. Cardinality(S) = Len(list)
    BY <2>1, <2>2
  <2> HIDE DEF S
  <2>4. \A i \in 1..Len(list) : list[i].when <= w <=> i <= Len(list)
    BY <1>1
  <2>5. Len(list) \in 0..Len(list)
    OBVIOUS
  <2> QED BY <2>3, <2>4, <2>5 DEF S
<1>2. CASE C # {}
  <2>1. IsFiniteSet(C) /\ C \subseteq Int
    <3>1. IsFiniteSet(1..Len(list))
      BY FS_Interval
    <3>2. C \subseteq 1..Len(list) /\ C \subseteq Int
      OBVIOUS
    <3> HIDE DEF C
    <3> QED BY ONLY <3>1, <3>2, FS_Subset
  <2>2. PICK m \in C : \A y \in C : m <= y
    BY <1>2, <2>1, LeastElement
  <2>3. \A i \in 1..Len(list) : list[i].when <= w <=> i <= m - 1
    <3> TAKE i \in 1..Len(list)
    <3>1. CASE i < m
      BY <2>2, <3>1
    <3>2. CASE m <= i
      BY <1>0, <2>2, <3>2 DEF Sorted
    <3> QED BY <3>1, <3>2
  <2>4. S = 1..(m - 1)
    BY <2>3
  <2>5. m \in 1..Len(list) /\ m - 1 \in 0..Len(list)
    BY <2>2
  <2>6. Cardinality(1..(m - 1)) = m - 1
    BY <2>5, FS_Interval
  <2>7. Cardinality(S) = m - 1
    BY <2>4, <2>6
  <2> HIDE DEF S
  <2> QED BY <2>3, <2>5, <2>7 DEF S
<1> QED BY <1>1, <1>2

(* Interrupt::Schedule keeps the list sorted. *)
LEMMA ScheduleSorted ==
    ASSUME NEW list \in Seq(Event), Sorted(list), NEW w \in Nat, NEW type \in Kind
    PROVE  /\ \E k : InsertedAt(list, k, Interrupt(w, type), Schedule(list, w, type))
           /\ Sorted(Schedule(list, w, type))
<1>1. PICK e : e = Interrupt(w, type)
  OBVIOUS
<1>0. e \in Event /\ e.when = w
  BY <1>1 DEF Interrupt, Event
<1>2. PICK k \in 0..Len(list) :
              /\ Cardinality({i \in DOMAIN list : list[i].when <= e.when}) = k
              /\ \A i \in 1..Len(list) : list[i].when <= e.when <=> i <= k
  BY <1>0, PrefixCount
<1>3. PICK n : n = Schedule(list, w, type)
  OBVIOUS
<1>4. n = InsertAt(list, k + 1, e)
  BY <1>1, <1>2, <1>3 DEF Schedule, SortedInsert
<1>5. InsertedAt(list, k + 1, e, n)
  BY <1>0, <1>4, InsertEffect
<1>6. Sorted(n)
  <2>0. Len(n) = Len(list) + 1 /\ Len(list) \in Nat
    BY <1>5 DEF InsertedAt
  <2>1. ASSUME NEW i \in 1..Len(n)
        PROVE  \/ /\ i \in 1..Len(list) /\ i <= k /\ n[i] = list[i]
                  /\ list[i].when \in Nat /\ list[i].when <= e.when
               \/ i = k + 1 /\ n[i] = e
               \/ \E x \in 1..Len(list) : /\ x = i - 1 /\ x > k /\ n[i] = list[x]
                                           /\ list[x].when \in Nat /\ e.when < list[x].when
    <3>1. CASE i <= k
      <4>1. i \in 1..Len(list)
        BY <3>1
      <4> QED BY <1>2, <1>5, <3>1, <4>1, ListFields DEF InsertedAt
    <3>2. CASE i = k + 1
      BY <1>5, <3>2 DEF InsertedAt
    <3>3. CASE i > k + 1
      <4>1. PICK x \in 1..Len(list) : x = i - 1
        BY <2>0, <3>3
      <4>2. x > k /\ n[x + 1] = list[x] /\ x + 1 = i
        BY <1>5, <3>3, <4>1 DEF InsertedAt
      <4>3. list[x].when \in Nat /\ ~(list[x].when <= e.when)
        BY <1>2, <4>2, ListFields
      <4> QED BY <1>0, <4>1, <4>2, <4>3
    <3> QED BY <3>1, <3>2, <3>3
  <2> SUFFICES ASSUME NEW i \in 1..Len(n), NEW j \in 1..Len(n), i <= j
               PROVE  n[i].when <= n[j].when
    BY DEF Sorted
  <2>2. CASE i <= k
    <3>1. n[i] = list[i] /\ list[i].when \in Nat /\ list[i].when <= e.when /\ i \in 1..Len(list)
      BY <2>1, <2>2
    <3>2. CASE j <= k
      <4>1. n[j] = list[j] /\ j \in 1..Len(list)
        BY <2>1, <3>2
      <4> QED BY <3>1, <4>1 DEF Sorted
    <3>3. CASE j > k
      <4>1. n[j].when \in Nat /\ e.when <= n[j].when
        BY <1>0, <2>1, <3>3
      <4> QED BY <1>0, <3>1, <4>1
    <3> QED BY <3>2, <3>3
  <2>3. CASE i = k + 1
    <3>1. n[i] = e /\ n[j].when \in Nat /\ e.when <= n[j].when
      BY <1>0, <2>1, <2>3
    <3> QED BY <1>0, <3>1
  <2>4. CASE i > k + 1
    <3>1. PICK x \in 1..Len(list) : x = i - 1 /\ n[i] = list[x]
      BY <2>1, <2>4
    <3>2. PICK y \in 1..Len(list) : y = j - 1 /\ n[j] = list[y]
      BY <2>1, <2>4
    <3> QED BY <3>1, <3>2 DEF Sorted
  <2> QED BY <2>2, <2>3, <2>4
<1> QED BY <1>1, <1>3, <1>5, <1>6

(* Which kinds of interrupts are to come. *)
Has(list, x)  == \E i \in 1..Len(list) : list[i].type = x
Once(list, x) ==
    \A i, j \in 1..Len(list) : list[i].type = x /\ list[j].type = x => i = j

LEMMA InsertKinds ==
    ASSUME NEW list \in Seq(Event), NEW k, NEW e, NEW new, InsertedAt(list, k, e, new), NEW x
    PROVE  /\ Has(new, x) <=> Has(list, x) \/ e.type = x
           /\ Once(list, x) /\ (e.type = x => ~Has(list, x)) => Once(new, x)
<1>0. /\ Len(list) \in Nat /\ Len(new) = Len(list) + 1 /\ k \in 1..Len(new) /\ new[k] = e
      /\ \A i \in 1..Len(list) : i < k => new[i] = list[i]
      /\ \A i \in 1..Len(list) : i >= k => new[i + 1] = list[i]
  BY DEF InsertedAt
<1>1. ASSUME NEW i \in 1..Len(new), i # k
      PROVE  \E y \in 1..Len(list) : new[i] = list[y] /\ y = IF i < k THEN i ELSE i - 1
  <2>1. CASE i < k
    BY <1>0, <2>1
  <2>2. CASE i > k
    <3>1. PICK y \in 1..Len(list) : y = i - 1
      BY <1>0, <2>2
    <3>2. new[y + 1] = list[y] /\ y + 1 = i
      BY <1>0, <2>2, <3>1
    <3> QED BY <1>0, <2>2, <3>1, <3>2
  <2> QED BY <1>0, <1>1, <2>1, <2>2
<1>2. Has(new, x) => Has(list, x) \/ e.type = x
  BY <1>0, <1>1 DEF Has
<1>3. Has(list, x) \/ e.type = x => Has(new, x)
  <2>1. CASE e.type = x
    BY <1>0, <2>1 DEF Has
  <2>2. CASE Has(list, x)
    <3>1. PICK y \in 1..Len(list) : list[y].type = x
      BY <2>2 DEF Has
    <3>2. y \in 1..Len(new) /\ y + 1 \in 1..Len(new)
      BY <1>0
    <3> QED BY <1>0, <3>1, <3>2 DEF Has
  <2> QED BY <2>1, <2>2
<1>4. ASSUME Once(list, x), e.type = x => ~Has(list, x) PROVE Once(new, x)
  <2> SUFFICES ASSUME NEW i \in 1..Len(new), NEW j \in 1..Len(new),
                      new[i].type = x, new[j].type = x
               PROVE  i = j
    BY DEF Once
  <2>1. CASE i = k \/ j = k
    BY <1>0, <1>1, <1>4, <2>1 DEF Has
  <2>2. CASE i # k /\ j # k
    <3>1. PICK y \in 1..Len(list) : new[i] = list[y] /\ y = IF i < k THEN i ELSE i - 1
      BY <1>1, <2>2
    <3>2. PICK z \in 1..Len(list) : new[j] = list[z] /\ z = IF j < k THEN j ELSE j - 1
      BY <1>1, <2>2
    <3>3. y = z
      BY <1>4, <3>1, <3>2 DEF Once
    <3> QED BY <1>0, <2>2, <3>1, <3>2, <3>3
  <2> QED BY <2>1, <2>2
<1> QED BY <1>2, <1>3, <1>4

LEMMA TailKinds ==
    ASSUME NEW list \in Seq(Event), list # <<>>, Sorted(list)
    PROVE  /\ Tail(list) \in Seq(Event) /\ Sorted(Tail(list)) /\ Head(list) \in Event
           /\ \A x : /\ Has(list, x) <=> Has(Tail(list), x) \/ Head(list).type = x
                     /\ Once(list, x) => Once(Tail(list), x)
                     /\ Once(list, x) /\ Head(list).type = x => ~Has(Tail(list), x)
<1>0. PICK r : r = Tail(list)
  OBVIOUS
<1>1. /\ r \in Seq(Event) /\ Len(r) = Len(list) - 1 /\ Len(list) \in Nat
      /\ Len(list) > 0 /\ Head(list) = list[1]
      /\ \A i \in 1..Len(r) : r[i] = list[i + 1]
  BY <1>0
<1>2. \A i \in 1..Len(r) : i + 1 \in 1..Len(list) /\ 1 \in 1..Len(list)
  BY <1>1
<1>3. Sorted(r)
  BY <1>1, <1>2 DEF Sorted
<1>4. ASSUME NEW x
      PROVE  /\ Has(list, x) <=> Has(r, x) \/ list[1].type = x
             /\ Once(list, x) => Once(r, x)
             /\ Once(list, x) /\ list[1].type = x => ~Has(r, x)
  <2>1. Has(list, x) => Has(r, x) \/ list[1].type = x
    <3>1. SUFFICES ASSUME NEW i \in 1..Len(list), list[i].type = x, i # 1 PROVE Has(r, x)
      BY DEF Has
    <3>2. i - 1 \in 1..Len(r) /\ r[i - 1] = list[i]
      BY <1>1, <3>1
    <3> QED BY <3>1, <3>2 DEF Has
  <2>2. Has(r, x) \/ list[1].type = x => Has(list, x)
    BY <1>1, <1>2 DEF Has
  <2>3. Once(list, x) => Once(r, x)
    BY <1>1, <1>2 DEF Once
  <2>4. Once(list, x) /\ list[1].type = x => ~Has(r, x)
    BY <1>1, <1>2 DEF Once, Has
  <2> QED BY <2>1, <2>2, <2>3, <2>4
<1>5. Head(list) \in Event
  BY <1>1, ListFields
<1> QED BY <1>0, <1>1, <1>3, <1>4, <1>5

-----------------------------------------------------------------------------
(* What a thread can have to do: the rest of an operation, from each of its  *)
(* instructions on.                                                          *)
DiskBegin == {<<P("diskLock"), DiskRequest(s, w), P("diskDone"), V("diskLock")>> :
                s \in Sector, w \in BOOLEAN}
DiskOwned == {<<DiskRequest(s, w), P("diskDone"), V("diskLock")>> : s \in Sector, w \in BOOLEAN}
DiskWait  == {<<P("diskDone"), V("diskLock")>>}
DiskEnd   == {<<V("diskLock")>>}

PutBegin  == {<<P("writeLock"), Put, P("writeDone"), V("writeLock")>>}
PutOwned  == {<<Put, P("writeDone"), V("writeLock")>>}
PutWait   == {<<P("writeDone"), V("writeLock")>>}
PutEnd    == {<<V("writeLock")>>}

GetBegin  == {<<P("readLock"), P("readAvail"), Get(0, n), V("readLock")>> : n \in Nat}
GetWait   == {<<P("readAvail"), Get(i, n), V("readLock")>> : i \in Nat, n \in Nat}
GetOwned  == {<<Get(i, n), V("readLock")>> : i \in Nat, n \in Nat}
GetEnd    == {<<V("readLock")>>}

Program == {<<>>} \cup DiskBegin \cup DiskOwned \cup DiskWait \cup DiskEnd
             \cup PutBegin \cup PutOwned \cup PutWait \cup PutEnd
             \cup GetBegin \cup GetWait \cup GetOwned \cup GetEnd

Todo == Program \cup {<<Tick>> \o b : b \in Program}

(* What is left of the operation, Yield apart. *)
Body(t) == IF todo[t] \in Program THEN todo[t] ELSE Tail(todo[t])

Instruction == {P(s) : s \in Semaphore} \cup {V(s) : s \in Semaphore} \cup {Tick, Put}
                 \cup {DiskRequest(s, w) : s \in Sector, w \in BOOLEAN}
                 \cup {Get(i, n) : i \in Nat, n \in Nat}

LEMMA InstrFacts ==
    /\ \A s \in Semaphore : /\ P(s) \in Instruction /\ V(s) \in Instruction
                            /\ P(s).do = "P" /\ V(s).do = "V" /\ P(s).sem = s /\ V(s).sem = s
    /\ Put \in Instruction /\ Put.do = "put" /\ Tick \in Instruction /\ Tick.do = "tick"
    /\ \A s \in Sector, w \in BOOLEAN :
          DiskRequest(s, w) \in Instruction /\ DiskRequest(s, w).do = "disk"
    /\ \A i, n \in Nat : Get(i, n) \in Instruction /\ Get(i, n).do = "get"
<1>1. \A s \in Semaphore : P(s) \in Instruction /\ V(s) \in Instruction
  BY DEF Instruction
<1>2. \A s : P(s).do = "P" /\ V(s).do = "V" /\ P(s).sem = s /\ V(s).sem = s
  BY DEF P, V
<1>3. Put \in Instruction /\ Tick \in Instruction
  BY DEF Instruction
<1>4. Put.do = "put" /\ Tick.do = "tick"
  BY DEF Put, Tick
<1>5. \A s \in Sector, w \in BOOLEAN : DiskRequest(s, w) \in Instruction
  BY DEF Instruction
<1>6. \A s, w : DiskRequest(s, w).do = "disk"
  BY DEF DiskRequest
<1>7. \A i, n \in Nat : Get(i, n) \in Instruction
  BY DEF Instruction
<1>8. \A i, n : Get(i, n).do = "get"
  BY DEF Get
<1> QED BY <1>1, <1>2, <1>3, <1>4, <1>5, <1>6, <1>7, <1>8

LEMMA Four ==
    ASSUME NEW S, NEW a \in S, NEW b \in S, NEW c \in S, NEW d \in S, NEW q, q = <<a, b, c, d>>
    PROVE  q \in Seq(S) /\ q # <<>> /\ Head(q) = a /\ Tail(q) = <<b, c, d>>
OBVIOUS

LEMMA Three ==
    ASSUME NEW S, NEW a \in S, NEW b \in S, NEW c \in S, NEW q, q = <<a, b, c>>
    PROVE  q \in Seq(S) /\ q # <<>> /\ Head(q) = a /\ Tail(q) = <<b, c>>
OBVIOUS

LEMMA Two ==
    ASSUME NEW S, NEW a \in S, NEW b \in S, NEW q, q = <<a, b>>
    PROVE  q \in Seq(S) /\ q # <<>> /\ Head(q) = a /\ Tail(q) = <<b>>
OBVIOUS

LEMMA One ==
    ASSUME NEW S, NEW a \in S, NEW q, q = <<a>>
    PROVE  q \in Seq(S) /\ q # <<>> /\ Head(q) = a /\ Tail(q) = <<>>
OBVIOUS

(* Each class of programs is known by its first instruction. *)
First(q, do) == q \in Seq(Instruction) /\ q # <<>> /\ Head(q).do = do

LEMMA DiskPrograms ==
    /\ \A q \in DiskBegin : First(q, "P") /\ Head(q).sem = "diskLock" /\ Tail(q) \in DiskOwned
    /\ \A q \in DiskOwned : First(q, "disk") /\ Tail(q) \in DiskWait
    /\ \A q \in DiskWait : First(q, "P") /\ Head(q).sem = "diskDone" /\ Tail(q) \in DiskEnd
    /\ \A q \in DiskEnd : First(q, "V") /\ Head(q).sem = "diskLock" /\ Tail(q) = <<>>
<1>0. {"diskLock", "diskDone"} \subseteq Semaphore
  BY DEF Semaphore
<1>1. ASSUME NEW q \in DiskBegin
      PROVE  First(q, "P") /\ Head(q).sem = "diskLock" /\ Tail(q) \in DiskOwned
  <2>1. PICK s \in Sector, w \in BOOLEAN :
           q = <<P("diskLock"), DiskRequest(s, w), P("diskDone"), V("diskLock")>>
    BY DEF DiskBegin
  <2>2. /\ q \in Seq(Instruction) /\ q # <<>> /\ Head(q) = P("diskLock")
        /\ Tail(q) = <<DiskRequest(s, w), P("diskDone"), V("diskLock")>>
    BY <1>0, <2>1, InstrFacts, Four
  <2>3. First(q, "P") /\ Head(q).sem = "diskLock"
    BY <1>0, <2>2, InstrFacts DEF First
  <2>4. Tail(q) \in DiskOwned
    BY <2>2 DEF DiskOwned
  <2> QED BY <2>3, <2>4
<1>2. ASSUME NEW q \in DiskOwned PROVE First(q, "disk") /\ Tail(q) \in DiskWait
  <2>1. PICK s \in Sector, w \in BOOLEAN :
           q = <<DiskRequest(s, w), P("diskDone"), V("diskLock")>>
    BY DEF DiskOwned
  <2> QED BY <1>0, <2>1, InstrFacts, Three DEF First, DiskWait
<1>3. ASSUME NEW q \in DiskWait
      PROVE  First(q, "P") /\ Head(q).sem = "diskDone" /\ Tail(q) \in DiskEnd
  <2>1. q = <<P("diskDone"), V("diskLock")>>
    BY DEF DiskWait
  <2> QED BY <1>0, <2>1, InstrFacts, Two DEF First, DiskEnd
<1>4. ASSUME NEW q \in DiskEnd PROVE First(q, "V") /\ Head(q).sem = "diskLock" /\ Tail(q) = <<>>
  <2>1. q = <<V("diskLock")>>
    BY DEF DiskEnd
  <2> QED BY <1>0, <2>1, InstrFacts, One DEF First
<1> QED BY <1>1, <1>2, <1>3, <1>4

LEMMA PutPrograms ==
    /\ \A q \in PutBegin : First(q, "P") /\ Head(q).sem = "writeLock" /\ Tail(q) \in PutOwned
    /\ \A q \in PutOwned : First(q, "put") /\ Tail(q) \in PutWait
    /\ \A q \in PutWait : First(q, "P") /\ Head(q).sem = "writeDone" /\ Tail(q) \in PutEnd
    /\ \A q \in PutEnd : First(q, "V") /\ Head(q).sem = "writeLock" /\ Tail(q) = <<>>
<1>0. {"writeLock", "writeDone"} \subseteq Semaphore
  BY DEF Semaphore
<1>1. ASSUME NEW q \in PutBegin
      PROVE  First(q, "P") /\ Head(q).sem = "writeLock" /\ Tail(q) \in PutOwned
  <2>1. q = <<P("writeLock"), Put, P("writeDone"), V("writeLock")>>
    BY DEF PutBegin
  <2>2. {P("writeLock"), Put, P("writeDone"), V("writeLock")} \subseteq Instruction
    BY <1>0, InstrFacts
  <2>3. /\ q \in Seq(Instruction) /\ q # <<>> /\ Head(q) = P("writeLock")
        /\ Tail(q) = <<Put, P("writeDone"), V("writeLock")>>
    BY <2>1, <2>2, Four
  <2> QED BY <1>0, <2>3, InstrFacts DEF First, PutOwned
<1>2. ASSUME NEW q \in PutOwned PROVE First(q, "put") /\ Tail(q) \in PutWait
  <2>1. q = <<Put, P("writeDone"), V("writeLock")>>
    BY DEF PutOwned
  <2> QED BY <1>0, <2>1, InstrFacts, Three DEF First, PutWait
<1>3. ASSUME NEW q \in PutWait
      PROVE  First(q, "P") /\ Head(q).sem = "writeDone" /\ Tail(q) \in PutEnd
  <2>1. q = <<P("writeDone"), V("writeLock")>>
    BY DEF PutWait
  <2> QED BY <1>0, <2>1, InstrFacts, Two DEF First, PutEnd
<1>4. ASSUME NEW q \in PutEnd PROVE First(q, "V") /\ Head(q).sem = "writeLock" /\ Tail(q) = <<>>
  <2>1. q = <<V("writeLock")>>
    BY DEF PutEnd
  <2> QED BY <1>0, <2>1, InstrFacts, One DEF First
<1> QED BY <1>1, <1>2, <1>3, <1>4

LEMMA GetPrograms ==
    /\ \A q \in GetBegin : First(q, "P") /\ Head(q).sem = "readLock" /\ Tail(q) \in GetWait
    /\ \A q \in GetWait : First(q, "P") /\ Head(q).sem = "readAvail" /\ Tail(q) \in GetOwned
    /\ \A q \in GetOwned : First(q, "get") /\ Tail(q) \in GetEnd
    /\ \A q \in GetEnd : First(q, "V") /\ Head(q).sem = "readLock" /\ Tail(q) = <<>>
<1>0. {"readLock", "readAvail"} \subseteq Semaphore /\ 0 \in Nat
  BY DEF Semaphore
<1>1. ASSUME NEW q \in GetBegin
      PROVE  First(q, "P") /\ Head(q).sem = "readLock" /\ Tail(q) \in GetWait
  <2>1. PICK n \in Nat : q = <<P("readLock"), P("readAvail"), Get(0, n), V("readLock")>>
    BY DEF GetBegin
  <2>2. {P("readLock"), P("readAvail"), Get(0, n), V("readLock")} \subseteq Instruction
    BY <1>0, InstrFacts
  <2>3. /\ q \in Seq(Instruction) /\ q # <<>> /\ Head(q) = P("readLock")
        /\ Tail(q) = <<P("readAvail"), Get(0, n), V("readLock")>>
    BY <2>1, <2>2, Four
  <2> QED BY <1>0, <2>3, InstrFacts DEF First, GetWait
<1>2. ASSUME NEW q \in GetWait
      PROVE  First(q, "P") /\ Head(q).sem = "readAvail" /\ Tail(q) \in GetOwned
  <2>1. PICK i \in Nat, n \in Nat : q = <<P("readAvail"), Get(i, n), V("readLock")>>
    BY DEF GetWait
  <2>2. {P("readAvail"), Get(i, n), V("readLock")} \subseteq Instruction
    BY <1>0, InstrFacts
  <2>3. /\ q \in Seq(Instruction) /\ q # <<>> /\ Head(q) = P("readAvail")
        /\ Tail(q) = <<Get(i, n), V("readLock")>>
    BY <2>1, <2>2, Three
  <2> QED BY <1>0, <2>3, InstrFacts DEF First, GetOwned
<1>3. ASSUME NEW q \in GetOwned PROVE First(q, "get") /\ Tail(q) \in GetEnd
  <2>1. PICK i \in Nat, n \in Nat : q = <<Get(i, n), V("readLock")>>
    BY DEF GetOwned
  <2> QED BY <1>0, <2>1, InstrFacts, Two DEF First, GetEnd
<1>4. ASSUME NEW q \in GetEnd PROVE First(q, "V") /\ Head(q).sem = "readLock" /\ Tail(q) = <<>>
  <2>1. q = <<V("readLock")>>
    BY DEF GetEnd
  <2> QED BY <1>0, <2>1, InstrFacts, One DEF First
<1> QED BY <1>1, <1>2, <1>3, <1>4

LEMMA ByFirst ==
    ASSUME NEW q \in Program
    PROVE  /\ q \in Seq(Instruction)
           /\ q # <<>> => Head(q).do # "tick" /\ Tail(q) \in Program
           /\ q # <<>> /\ Head(q).do = "P" =>
                 /\ Head(q).sem \in Semaphore
                 /\ Head(q).sem = "diskLock" => q \in DiskBegin
                 /\ Head(q).sem = "diskDone" => q \in DiskWait
                 /\ Head(q).sem = "writeLock" => q \in PutBegin
                 /\ Head(q).sem = "writeDone" => q \in PutWait
                 /\ Head(q).sem = "readLock" => q \in GetBegin
                 /\ Head(q).sem = "readAvail" => q \in GetWait
           /\ q # <<>> /\ Head(q).do = "V" =>
                 /\ Head(q).sem \in {"diskLock", "writeLock", "readLock"}
                 /\ Head(q).sem = "diskLock" => q \in DiskEnd
                 /\ Head(q).sem = "writeLock" => q \in PutEnd
                 /\ Head(q).sem = "readLock" => q \in GetEnd
           /\ q # <<>> /\ Head(q).do = "disk" => q \in DiskOwned
           /\ q # <<>> /\ Head(q).do = "put" => q \in PutOwned
           /\ q # <<>> /\ Head(q).do = "get" => q \in GetOwned
<1>1. CASE q = <<>>
  BY <1>1
<1>2. CASE q \in DiskBegin \cup DiskOwned \cup DiskWait \cup DiskEnd
  BY <1>2, DiskPrograms DEF First, Semaphore, Program
<1>3. CASE q \in PutBegin \cup PutOwned \cup PutWait \cup PutEnd
  BY <1>3, PutPrograms DEF First, Semaphore, Program
<1>4. CASE q \in GetBegin \cup GetWait \cup GetOwned \cup GetEnd
  BY <1>4, GetPrograms DEF First, Semaphore, Program
<1> QED BY <1>1, <1>2, <1>3, <1>4 DEF Program

(* The classes are apart. *)
LEMMA Apart ==
    /\ \A q \in DiskBegin \cup DiskOwned \cup DiskWait \cup DiskEnd :
          /\ q \notin PutOwned \cup PutWait \cup PutEnd
          /\ q \notin GetWait \cup GetOwned \cup GetEnd
    /\ \A q \in PutBegin \cup PutOwned \cup PutWait \cup PutEnd :
          /\ q \notin DiskOwned \cup DiskWait \cup DiskEnd
          /\ q \notin GetWait \cup GetOwned \cup GetEnd
    /\ \A q \in GetBegin \cup GetWait \cup GetOwned \cup GetEnd :
          /\ q \notin DiskOwned \cup DiskWait \cup DiskEnd
          /\ q \notin PutOwned \cup PutWait \cup PutEnd
    /\ \A q \in DiskBegin : q \notin DiskOwned \cup DiskWait \cup DiskEnd
    /\ \A q \in PutBegin : q \notin PutOwned \cup PutWait \cup PutEnd
    /\ \A q \in GetBegin : q \notin GetWait \cup GetOwned \cup GetEnd
    /\ \A q \in DiskOwned : q \notin DiskWait \cup DiskEnd
    /\ \A q \in DiskWait : q \notin DiskEnd
    /\ \A q \in PutOwned : q \notin PutWait \cup PutEnd
    /\ \A q \in PutWait : q \notin PutEnd
    /\ \A q \in GetWait : q \notin GetOwned \cup GetEnd
    /\ \A q \in GetOwned : q \notin GetEnd
    /\ <<>> \notin DiskOwned \cup DiskWait \cup DiskEnd
    /\ <<>> \notin PutOwned \cup PutWait \cup PutEnd
    /\ <<>> \notin GetWait \cup GetOwned \cup GetEnd
<1>1. \A q \in DiskBegin \cup DiskOwned \cup DiskWait \cup DiskEnd :
          /\ q \notin PutOwned \cup PutWait \cup PutEnd
          /\ q \notin GetWait \cup GetOwned \cup GetEnd
  <2>1. \A q \in DiskBegin \cup DiskOwned \cup DiskWait \cup DiskEnd :
           /\ Head(q).do \in {"P", "V", "disk"}
           /\ Head(q).do \in {"P", "V"} => Head(q).sem = "diskLock" \/ Head(q).sem = "diskDone"
    <3> TAKE q \in DiskBegin \cup DiskOwned \cup DiskWait \cup DiskEnd
    <3>1. CASE q \in DiskBegin
      BY <3>1, DiskPrograms DEF First
    <3>2. CASE q \in DiskOwned
      BY <3>2, DiskPrograms DEF First
    <3>3. CASE q \in DiskWait
      BY <3>3, DiskPrograms DEF First
    <3>4. CASE q \in DiskEnd
      BY <3>4, DiskPrograms DEF First
    <3> QED BY <3>1, <3>2, <3>3, <3>4
  <2> QED BY <2>1, PutPrograms, GetPrograms DEF First
<1>2. \A q \in PutBegin \cup PutOwned \cup PutWait \cup PutEnd :
          /\ q \notin DiskOwned \cup DiskWait \cup DiskEnd
          /\ q \notin GetWait \cup GetOwned \cup GetEnd
  <2>1. \A q \in PutBegin \cup PutOwned \cup PutWait \cup PutEnd :
           /\ Head(q).do \in {"P", "V", "put"}
           /\ Head(q).do \in {"P", "V"} => Head(q).sem = "writeLock" \/ Head(q).sem = "writeDone"
    <3> TAKE q \in PutBegin \cup PutOwned \cup PutWait \cup PutEnd
    <3>1. CASE q \in PutBegin
      BY <3>1, PutPrograms DEF First
    <3>2. CASE q \in PutOwned
      BY <3>2, PutPrograms DEF First
    <3>3. CASE q \in PutWait
      BY <3>3, PutPrograms DEF First
    <3>4. CASE q \in PutEnd
      BY <3>4, PutPrograms DEF First
    <3> QED BY <3>1, <3>2, <3>3, <3>4
  <2> QED BY <2>1, DiskPrograms, GetPrograms DEF First
<1>3. \A q \in GetBegin \cup GetWait \cup GetOwned \cup GetEnd :
          /\ q \notin DiskOwned \cup DiskWait \cup DiskEnd
          /\ q \notin PutOwned \cup PutWait \cup PutEnd
  <2>1. \A q \in GetBegin \cup GetWait \cup GetOwned \cup GetEnd :
           /\ Head(q).do \in {"P", "V", "get"}
           /\ Head(q).do \in {"P", "V"} => Head(q).sem = "readLock" \/ Head(q).sem = "readAvail"
    <3> TAKE q \in GetBegin \cup GetWait \cup GetOwned \cup GetEnd
    <3>1. CASE q \in GetBegin
      BY <3>1, GetPrograms DEF First
    <3>2. CASE q \in GetWait
      BY <3>2, GetPrograms DEF First
    <3>3. CASE q \in GetOwned
      BY <3>3, GetPrograms DEF First
    <3>4. CASE q \in GetEnd
      BY <3>4, GetPrograms DEF First
    <3> QED BY <3>1, <3>2, <3>3, <3>4
  <2> QED BY <2>1, DiskPrograms, PutPrograms DEF First
<1>4. /\ \A q \in DiskBegin : q \notin DiskOwned \cup DiskWait \cup DiskEnd
      /\ \A q \in DiskOwned : q \notin DiskWait \cup DiskEnd
      /\ \A q \in DiskWait : q \notin DiskEnd
      /\ <<>> \notin DiskOwned \cup DiskWait \cup DiskEnd
  BY DiskPrograms DEF First
<1>5. /\ \A q \in PutBegin : q \notin PutOwned \cup PutWait \cup PutEnd
      /\ \A q \in PutOwned : q \notin PutWait \cup PutEnd
      /\ \A q \in PutWait : q \notin PutEnd
      /\ <<>> \notin PutOwned \cup PutWait \cup PutEnd
  BY PutPrograms DEF First
<1>6. /\ \A q \in GetBegin : q \notin GetWait \cup GetOwned \cup GetEnd
      /\ \A q \in GetWait : q \notin GetOwned \cup GetEnd
      /\ \A q \in GetOwned : q \notin GetEnd
      /\ <<>> \notin GetWait \cup GetOwned \cup GetEnd
  BY GetPrograms DEF First
<1> QED BY <1>1, <1>2, <1>3, <1>4, <1>5, <1>6

LEMMA TickFirst ==
    ASSUME NEW b \in Seq(Instruction)
    PROVE  /\ <<Tick>> \o b \in Seq(Instruction) /\ <<Tick>> \o b # <<>>
           /\ Head(<<Tick>> \o b) = Tick /\ Tail(<<Tick>> \o b) = b
<1>1. Tick \in Instruction
  BY InstrFacts
<1> QED BY <1>1

LEMMA BodyFacts ==
    ASSUME todo \in [Thread -> Todo], NEW t \in Thread
    PROVE  /\ todo[t] \in Seq(Instruction) /\ Body(t) \in Program
           /\ todo[t] = <<>> => Body(t) = <<>>
           /\ todo[t] # <<>> /\ Head(todo[t]).do # "tick" => todo[t] \in Program /\ Body(t) = todo[t]
           /\ todo[t] # <<>> /\ Head(todo[t]).do = "tick" =>
                 Tail(todo[t]) \in Program /\ Body(t) = Tail(todo[t])
<1>1. CASE todo[t] \in Program
  BY <1>1, ByFirst DEF Body
<1>2. CASE todo[t] \notin Program
  <2>1. PICK b \in Program : todo[t] = <<Tick>> \o b
    BY <1>2 DEF Todo
  <2>2. /\ todo[t] \in Seq(Instruction) /\ todo[t] # <<>> /\ Head(todo[t]) = Tick
        /\ Tail(todo[t]) = b
    BY <2>1, ByFirst, TickFirst
  <2> QED BY <1>2, <2>2, InstrFacts DEF Body
<1> QED BY <1>1, <1>2

-----------------------------------------------------------------------------
(* Types, and the interrupts that the devices owe. *)
Mode         == {"run", "due", "idle", "idleDue", "halted"}
SemState     == [value : Nat, queue : Seq(Thread)]
DiskState    == [active : BOOLEAN, lastSector : Nat, bufferInit : Nat]
ConsoleState == [putBusy : BOOLEAN, incoming : {"eof", "char", "newline"}, polled : Nat,
                 taken : Nat]

DevTypeOK ==
    /\ now \in Nat
    /\ pending \in Seq(Event) /\ Sorted(pending)
    /\ mode \in Mode
    /\ mode \in {"run", "due"} => current \in Thread
    /\ ready \in Seq(Thread)
    /\ sem \in [Semaphore -> SemState]
    /\ todo \in [Thread -> Todo]
    /\ mode = "due" => todo[current] \in Program
    /\ disk \in DiskState
    /\ console \in ConsoleState
    /\ line \in [Thread -> Nat]

Owed ==
    /\ Once(pending, "disk") /\ Once(pending, "consoleWrite")
    /\ disk.active <=> Has(pending, "disk")
    /\ console.putBusy <=> Has(pending, "consoleWrite")

(* The list is empty, or has only the timer's interrupt, when the machine    *)
(* halts.                                                                    *)
HaltedEmpty == mode = "halted" => pending = <<>> \/ OnlyTimer

DevInv == DevTypeOK /\ Owed /\ InterruptsOnTime /\ HaltedEmpty

SameValues(S) == \A s \in Semaphore \ S : sem'[s].value = sem[s].value
SameBodies(S) == \A u \in Thread \ S : Body(u)' = Body(u)

LEMMA SleepEffect ==
    ASSUME ready \in Seq(Thread), NEW t, Sleep(t, ready)
    PROVE  /\ ready' \in Seq(Thread) /\ mode' \in {"run", "idle"}
           /\ mode' = "run" => current' \in Thread
BY DEF Sleep, FindNextToRun

LEMMA VEffect ==
    ASSUME DevTypeOK, NEW s \in Semaphore, DoV(s)
    PROVE  /\ sem' \in [Semaphore -> SemState] /\ ready' \in Seq(Thread)
           /\ sem'[s].value = sem[s].value + 1 /\ SameValues({s})
<1>1. sem \in [Semaphore -> SemState] /\ ready \in Seq(Thread) /\ sem[s] \in SemState
  BY DEF DevTypeOK
<1>2. sem[s].value \in Nat /\ sem[s].queue \in Seq(Thread)
  BY <1>1 DEF SemState
<1>3. PICK k, q : k = sem[s].value + 1 /\ q = IF sem[s].queue = <<>> THEN <<>>
                                                                    ELSE Tail(sem[s].queue)
  OBVIOUS
<1>0. k \in Nat /\ q \in Seq(Thread)
  BY <1>2, <1>3
<1>4. PICK v : v = [value |-> k, queue |-> q]
  OBVIOUS
<1>5. v \in SemState /\ v.value = k
  BY <1>0, <1>4 DEF SemState
<1>6. sem' = [sem EXCEPT ![s] = v]
  BY <1>3, <1>4 DEF DoV
<1>7. sem' \in [Semaphore -> SemState] /\ sem'[s] = v
  BY <1>1, <1>5, <1>6
<1>8. SameValues({s})
  BY <1>1, <1>6 DEF SameValues
<1>9. ready' \in Seq(Thread)
  <2>1. Wakes(s) \in Seq(Thread)
    BY <1>2 DEF Wakes
  <2>2. ready' = ready \o Wakes(s)
    BY DEF DoV, ReadyToRun
  <2> QED BY <1>1, <2>1, <2>2
<1> QED BY <1>3, <1>5, <1>7, <1>8, <1>9

(* A thread goes on to its next instruction. *)
LEMMA NextEffect ==
    ASSUME DevTypeOK, NEW t \in Thread, todo[t] # <<>>, Next1(t)
    PROVE  /\ todo' \in [Thread -> Todo] /\ todo'[t] \in Program /\ SameBodies({t})
           /\ Head(todo[t]).do = "tick" => Body(t)' = Body(t)
           /\ Head(todo[t]).do # "tick" => Body(t) = todo[t] /\ Body(t)' = Tail(todo[t])
<1>1. todo \in [Thread -> Todo] /\ todo' = [todo EXCEPT ![t] = Tail(todo[t])]
  BY DEF DevTypeOK, Next1
<1>2. Tail(todo[t]) \in Program
  BY <1>1, BodyFacts, ByFirst
<1>3. todo'[t] = Tail(todo[t]) /\ \A u \in Thread \ {t} : todo'[u] = todo[u]
  BY <1>1
<1>4. todo' \in [Thread -> Todo]
  BY <1>1, <1>2 DEF Todo
<1>5. SameBodies({t})
  BY <1>3 DEF SameBodies, Body
<1>6. Body(t)' = Tail(todo[t])
  BY <1>2, <1>3 DEF Body
<1> QED BY <1>1, <1>2, <1>3, <1>4, <1>5, <1>6, BodyFacts

LEMMA SameTodo ==
    ASSUME UNCHANGED todo
    PROVE  SameBodies({})
BY DEF SameBodies, Body

(* What the steps of threads do to their operations and the semaphores. *)
Steps(t, do) ==
    /\ Body(t) \in Program /\ Body(t) # <<>> /\ Head(Body(t)).do = do
    /\ Body(t)' = Tail(Body(t)) /\ SameBodies({t})

Still == SameBodies({}) /\ SameValues({}) /\ UNCHANGED <<disk, req, console, line>>

Takes(t) ==
    /\ Steps(t, "P")
    /\ \E s \in Semaphore : /\ s = Head(Body(t)).sem /\ sem[s].value > 0
                            /\ sem'[s].value = sem[s].value - 1 /\ SameValues({s})
    /\ UNCHANGED <<disk, req, console, line>>

Gives(t) ==
    /\ Steps(t, "V")
    /\ \E s \in Semaphore : /\ s = Head(Body(t)).sem
                            /\ sem'[s].value = sem[s].value + 1 /\ SameValues({s})
    /\ UNCHANGED <<disk, req, console, line>>

LEMMA Calm ==
    ASSUME DevInv, DevTypeOK', UNCHANGED <<pending, disk, console>>,
           \/ mode' \in {"due", "idle"}
           \/ mode' = "run" /\ mode = "run" /\ now' = now
    PROVE  DevInv'
<1>1. Owed'
  BY DEF DevInv, Owed, Has, Once
<1>2. InterruptsOnTime' /\ HaltedEmpty'
  BY DEF DevInv, InterruptsOnTime, HaltedEmpty
<1> QED BY <1>1, <1>2 DEF DevInv

LEMMA StepP ==
    ASSUME DevInv, NEW t \in Thread, SemP(t)
    PROVE  DevInv' /\ (Takes(t) \/ Still)
<1>0. DevTypeOK
  BY DEF DevInv
<1> DEFINE s == Head(todo[t]).sem
<1>1. /\ mode = "run" /\ current = t /\ todo[t] # <<>> /\ Head(todo[t]).do = "P"
      /\ UNCHANGED <<pending, yieldOnReturn, disk, console, req, line>>
  BY DEF SemP, Does
<1>2. todo[t] \in Program /\ Body(t) = todo[t] /\ s \in Semaphore
  BY <1>0, <1>1, BodyFacts, ByFirst DEF DevTypeOK
<1> HIDE DEF s
<1>3. sem \in [Semaphore -> SemState] /\ sem[s] \in SemState
  BY <1>0, <1>2 DEF DevTypeOK
<1>4. sem[s].value \in Nat /\ sem[s].queue \in Seq(Thread)
  BY <1>3 DEF SemState
<1>5. CASE sem[s].value > 0
  <2>1. /\ sem' = [sem EXCEPT ![s].value = @ - 1] /\ Next1(t)
        /\ now' = now + SystemTick /\ mode' = "due" /\ UNCHANGED <<current, ready>>
    BY <1>5 DEF SemP, OneTick, s
  <2>2. PICK k \in Nat : k = sem[s].value - 1
    BY <1>4, <1>5
  <2>3. PICK v : v = [sem[s] EXCEPT !.value = k]
    OBVIOUS
  <2>4. v \in SemState /\ v.value = k
    BY <1>3, <2>3 DEF SemState
  <2>5. sem' = [sem EXCEPT ![s] = v]
    BY <1>3, <2>1, <2>2, <2>3 DEF SemState
  <2>6. sem' \in [Semaphore -> SemState] /\ sem'[s].value = sem[s].value - 1 /\ SameValues({s})
    BY <1>2, <1>3, <2>2, <2>4, <2>5 DEF SameValues
  <2>7. /\ todo' \in [Thread -> Todo] /\ todo'[t] \in Program /\ SameBodies({t})
        /\ Body(t)' = Tail(todo[t])
    BY <1>0, <1>1, <2>1, NextEffect
  <2>8. now' \in Nat
    BY <1>0, <2>1, DevicesAssumption DEF DevTypeOK
  <2>9. DevTypeOK'
    BY <1>0, <1>1, <2>1, <2>6, <2>7, <2>8 DEF DevTypeOK, Mode
  <2>10. Takes(t)
    BY <1>1, <1>2, <1>5, <2>6, <2>7 DEF Takes, Steps, s
  <2> QED BY <1>1, <2>1, <2>9, <2>10, Calm
<1>6. CASE sem[s].value = 0
  <2>1. /\ sem' = [sem EXCEPT ![s].queue = Append(@, t)] /\ Sleep(t, ready)
        /\ UNCHANGED <<now, todo>>
    BY <1>6 DEF SemP, s
  <2>2. PICK q : q = Append(sem[s].queue, t)
    OBVIOUS
  <2>3. PICK v : v = [sem[s] EXCEPT !.queue = q]
    OBVIOUS
  <2>4. v \in SemState /\ v.value = sem[s].value
    <3>1. q \in Seq(Thread)
      BY <1>4, <2>2
    <3> QED BY <1>3, <2>3, <3>1 DEF SemState
  <2>5. sem' = [sem EXCEPT ![s] = v]
    BY <1>3, <2>1, <2>2, <2>3 DEF SemState
  <2>6. sem' \in [Semaphore -> SemState] /\ SameValues({})
    BY <1>2, <1>3, <2>4, <2>5 DEF SameValues
  <2>7. /\ ready' \in Seq(Thread) /\ mode' \in {"run", "idle"}
        /\ mode' = "run" => current' \in Thread
    BY <1>0, <2>1, SleepEffect DEF DevTypeOK
  <2>8. DevTypeOK'
    BY <1>0, <1>1, <2>1, <2>6, <2>7 DEF DevTypeOK, Mode
  <2>9. Still
    BY <1>1, <2>1, <2>6, SameTodo DEF Still
  <2> QED BY <1>1, <2>1, <2>7, <2>8, <2>9, Calm
<1> QED BY <1>4, <1>5, <1>6

LEMMA StepV ==
    ASSUME DevInv, NEW t \in Thread, SemV(t)
    PROVE  DevInv' /\ Gives(t)
<1>0. DevTypeOK
  BY DEF DevInv
<1>1. /\ mode = "run" /\ current = t /\ todo[t] # <<>> /\ Head(todo[t]).do = "V"
      /\ UNCHANGED <<pending, yieldOnReturn, current, disk, console, req, line>>
      /\ DoV(Head(todo[t]).sem) /\ Next1(t) /\ now' = now + SystemTick /\ mode' = "due"
  BY DEF SemV, Does, OneTick
<1>2. PICK s : s = Head(todo[t]).sem
  OBVIOUS
<1>3. todo[t] \in Program /\ Body(t) = todo[t] /\ s \in Semaphore
  BY <1>0, <1>1, <1>2, BodyFacts, ByFirst DEF DevTypeOK, Semaphore
<1>4. /\ sem' \in [Semaphore -> SemState] /\ ready' \in Seq(Thread)
      /\ sem'[s].value = sem[s].value + 1 /\ SameValues({s})
  BY <1>0, <1>1, <1>2, <1>3, VEffect
<1>5. /\ todo' \in [Thread -> Todo] /\ todo'[t] \in Program /\ SameBodies({t})
      /\ Body(t)' = Tail(todo[t])
  BY <1>0, <1>1, NextEffect
<1>6. now' \in Nat
  BY <1>0, <1>1, DevicesAssumption DEF DevTypeOK
<1>7. DevTypeOK'
  BY <1>0, <1>1, <1>4, <1>5, <1>6 DEF DevTypeOK, Mode
<1>8. Gives(t)
  BY <1>1, <1>2, <1>3, <1>4, <1>5 DEF Gives, Steps
<1> QED BY <1>1, <1>7, <1>8, Calm

LEMMA StepAfterYield ==
    ASSUME DevInv, NEW t \in Thread, AfterYield(t)
    PROVE  DevInv' /\ Still
<1>0. DevTypeOK
  BY DEF DevInv
<1>1. /\ mode = "run" /\ current = t /\ todo[t] # <<>> /\ Head(todo[t]).do = "tick"
      /\ UNCHANGED <<pending, current, ready, sem, disk, console, req, line>>
      /\ Next1(t) /\ now' = now + SystemTick /\ mode' = "due"
  BY DEF AfterYield, Does, OneTick
<1>2. /\ todo' \in [Thread -> Todo] /\ todo'[t] \in Program /\ SameBodies({t})
      /\ Body(t)' = Body(t)
  BY <1>0, <1>1, NextEffect
<1>3. now' \in Nat
  BY <1>0, <1>1, DevicesAssumption DEF DevTypeOK
<1>4. DevTypeOK'
  BY <1>0, <1>1, <1>2, <1>3 DEF DevTypeOK, Mode
<1>5. Still
  BY <1>1, <1>2 DEF Still, SameBodies, SameValues
<1> QED BY <1>1, <1>4, <1>5, Calm

(* Times. *)
LEMMA Positive ==
    /\ SystemTick \in Nat /\ SystemTick > 0 /\ TimerTicks \in Nat /\ TimerTicks > 0
    /\ ConsoleTime \in Nat /\ ConsoleTime > 0 /\ RotationTime \in Nat /\ RotationTime > 0
    /\ SectorsPerTrack \in Nat /\ SectorsPerTrack > 0 /\ SeekTime \in Nat
BY DevicesAssumption

LEMMA DivMod ==
    ASSUME NEW a \in Int, NEW d \in Nat \ {0}
    PROVE  /\ a \div d \in Int /\ a % d \in Nat /\ a % d < d
           /\ a % d = a - (a \div d) * d
           /\ a \in Nat => a \div d \in Nat
<1>1. a \div d \in Int /\ a % d \in Nat /\ a % d < d
  OBVIOUS
<1>2. a % d = a - (a \div d) * d
  OBVIOUS
<1>3. ASSUME a \in Nat PROVE a \div d \in Nat
  BY <1>3
<1> QED BY <1>1, <1>2, <1>3

LEMMA ProductNat == \A a, b \in Nat : a * b \in Nat
OBVIOUS

LEMMA SeekNat ==
    ASSUME DevTypeOK, NEW s \in Nat
    PROVE  TimeToSeek(s) \in Nat
<1>1. disk.lastSector \in Nat
  BY DEF DevTypeOK, DiskState
<1>2. Track(s) \in Int /\ Track(disk.lastSector) \in Int
  BY <1>1, Positive DEF Track
<1>3. Abs(Track(s) - Track(disk.lastSector)) \in Nat
  BY <1>2 DEF Abs
<1> QED BY <1>3, ProductNat, DevicesAssumption DEF TimeToSeek

LEMMA RotationNat ==
    ASSUME DevTypeOK, NEW s \in Nat
    PROVE  Rotation(s) \in Nat
<1>1. now + TimeToSeek(s) \in Int
  BY SeekNat DEF DevTypeOK
<1>2. RotationTime \in Nat \ {0}
  BY DevicesAssumption
<1>3. (now + TimeToSeek(s)) % RotationTime \in Nat /\ (now + TimeToSeek(s)) % RotationTime < RotationTime
  BY <1>1, <1>2, DivMod
<1> QED BY <1>2, <1>3 DEF Rotation

LEMMA ModuloDiffNat ==
    ASSUME NEW a \in Int, NEW b \in Int
    PROVE  ModuloDiff(a, b) \in Nat
<1>1. SectorsPerTrack \in Nat \ {0}
  BY DevicesAssumption
<1>2. a % SectorsPerTrack \in Nat /\ b % SectorsPerTrack \in Nat
  BY <1>1, DivMod
<1>3. ((a % SectorsPerTrack) - (b % SectorsPerTrack)) + SectorsPerTrack \in Int
  BY <1>1, <1>2
<1> QED BY <1>1, <1>3, DivMod DEF ModuloDiff

LEMMA LatencyPositive ==
    ASSUME DevTypeOK, NEW s \in Nat, NEW w
    PROVE  ComputeLatency(s, w) \in Nat /\ ComputeLatency(s, w) > 0
<1>1. TimeToSeek(s) \in Nat /\ Rotation(s) \in Nat /\ RotationTime \in Nat /\ RotationTime > 0
  BY SeekNat, RotationNat, Positive
<1>0. now \in Nat
  BY DEF DevTypeOK
<1>2. PICK a \in Nat : a = now + TimeToSeek(s) + Rotation(s)
  BY <1>0, <1>1
<1>3. a \div RotationTime \in Int
  BY <1>1, DivMod
<1>6. ModuloDiff(s, a \div RotationTime) * RotationTime \in Nat
  <2>1. ModuloDiff(s, a \div RotationTime) \in Nat
    <3>1. PICK b \in Int : b = a \div RotationTime
      BY <1>3
    <3>2. ModuloDiff(s, b) \in Nat
      BY ModuloDiffNat
    <3> QED BY <3>1, <3>2
  <2> QED BY <1>1, <2>1, ProductNat
<1>4. PICK m \in Nat : m = ModuloDiff(s, a \div RotationTime) * RotationTime
  BY <1>6
<1>5. \/ ComputeLatency(s, w) = RotationTime
      \/ ComputeLatency(s, w) = TimeToSeek(s) + Rotation(s) + m + RotationTime
  BY <1>2, <1>4 DEF ComputeLatency
<1> QED BY <1>1, <1>5

LEMMA SectorNat == Sector \subseteq Nat
BY DEF Sector

LEMMA InsertFrom ==
    ASSUME NEW list \in Seq(Event), NEW k, NEW e, NEW new, InsertedAt(list, k, e, new),
           NEW i \in 1..Len(new)
    PROVE  new[i] = e \/ \E y \in 1..Len(list) : new[i] = list[y]
<1>0. /\ Len(list) \in Nat /\ Len(new) = Len(list) + 1 /\ k \in 1..Len(new) /\ new[k] = e
      /\ \A j \in 1..Len(list) : j < k => new[j] = list[j]
      /\ \A j \in 1..Len(list) : j >= k => new[j + 1] = list[j]
  BY DEF InsertedAt
<1>1. CASE i < k
  BY <1>0, <1>1
<1>2. CASE i > k
  <2>1. PICK y \in 1..Len(list) : y = i - 1
    BY <1>0, <1>2
  <2>2. new[y + 1] = list[y] /\ y + 1 = i
    BY <1>0, <1>2, <2>1
  <2> QED BY <2>2
<1> QED BY <1>0, <1>1, <1>2

(* A thread asks a device for an interrupt of kind x. *)
LEMMA Asks ==
    ASSUME DevInv, mode = "run", NEW w \in Nat, w > now, NEW x \in {"disk", "consoleWrite"},
           pending' = Schedule(pending, w, x), ~Has(pending, x), UNCHANGED <<now, mode>>
    PROVE  /\ pending' \in Seq(Event) /\ Sorted(pending')
           /\ \A y : Has(pending', y) <=> Has(pending, y) \/ y = x
           /\ Once(pending', "disk") /\ Once(pending', "consoleWrite")
           /\ InterruptsOnTime'
<1>1. pending \in Seq(Event) /\ Sorted(pending) /\ x \in Kind
  BY DEF DevInv, DevTypeOK, Kind
<1>2. PICK e : e = Interrupt(w, x)
  OBVIOUS
<1>3. e.when = w /\ e.type = x
  BY <1>2 DEF Interrupt
<1>4. PICK k : InsertedAt(pending, k, e, pending')
  BY <1>1, <1>2, ScheduleSorted
<1>5. pending' \in Seq(Event) /\ Sorted(pending')
  BY <1>1, <1>4, ScheduleSorted DEF InsertedAt
<1>6. \A y : Has(pending', y) <=> Has(pending, y) \/ y = x
  BY <1>1, <1>3, <1>4, InsertKinds
<1>7. Once(pending', "disk") /\ Once(pending', "consoleWrite")
  BY <1>1, <1>3, <1>4, InsertKinds DEF DevInv, Owed
<1>8. InterruptsOnTime'
  <2> SUFFICES ASSUME NEW i \in 1..Len(pending'), pending'[i].type # "timer"
               PROVE  pending'[i].when > now
    BY <1>5 DEF InterruptsOnTime
  <2>1. CASE pending'[i] = e
    BY <1>3, <2>1
  <2>2. ASSUME NEW y \in 1..Len(pending), pending'[i] = pending[y] PROVE pending'[i].when > now
    BY <1>1, <2>2 DEF DevInv, InterruptsOnTime
  <2> QED BY <1>1, <1>4, <2>1, <2>2, InsertFrom
<1> QED BY <1>5, <1>6, <1>7, <1>8

(* The disk gets a request, of which req is the record. *)
Asked(s, w) ==
    /\ disk' = UpdateLast(s)
    /\ req' = [at |-> now, sector |-> s, writing |-> w, when |-> now + ComputeLatency(s, w),
               last |-> disk.lastSector, init |-> disk.bufferInit]

Requests(t) ==
    /\ Steps(t, "disk") /\ SameValues({})
    /\ \E s \in Nat, w \in BOOLEAN : Asked(s, w)
    /\ ~disk.active /\ disk'.active /\ UNCHANGED <<console, line>>

LEMMA StepRequest ==
    ASSUME DevInv, NEW t \in Thread, Request(t)
    PROVE  DevInv' /\ Requests(t)
<1>0. DevTypeOK /\ Owed
  BY DEF DevInv
<1> DEFINE s == Head(todo[t]).sector
           wr == Head(todo[t]).writing
           when == now + ComputeLatency(s, wr)
<1>1. /\ mode = "run" /\ current = t /\ todo[t] # <<>> /\ Head(todo[t]).do = "disk"
      /\ ~disk.active /\ disk' = UpdateLast(s) /\ pending' = Schedule(pending, when, "disk")
      /\ Next1(t) /\ UNCHANGED <<now, mode, current, ready, sem, console, line>>
  BY DEF Request, Does
<1>2. todo[t] \in Program /\ Body(t) = todo[t] /\ todo[t] \in DiskOwned
  BY <1>0, <1>1, BodyFacts, ByFirst DEF DevTypeOK
<1>3. s \in Nat /\ wr \in BOOLEAN
  <2>1. PICK x \in Sector, w \in BOOLEAN : todo[t] = <<DiskRequest(x, w), P("diskDone"), V("diskLock")>>
    BY <1>2 DEF DiskOwned
  <2>2. Head(todo[t]) = DiskRequest(x, w)
    BY <2>1
  <2>3. s = x /\ wr = w
    BY <2>2 DEF DiskRequest
  <2> QED BY <2>3, SectorNat
<1>12. Asked(s, wr)
  BY DEF Request, Asked
<1>4. PICK v \in Nat : v = when /\ v > now
  <2>1. ComputeLatency(s, wr) \in Nat /\ ComputeLatency(s, wr) > 0 /\ now \in Nat
    BY <1>0, <1>3, LatencyPositive DEF DevTypeOK
  <2> QED BY <2>1
<1> HIDE DEF when, s, wr
<1>5. /\ todo' \in [Thread -> Todo] /\ todo'[t] \in Program /\ SameBodies({t})
      /\ Body(t)' = Tail(todo[t])
  BY <1>0, <1>1, NextEffect
<1>6. /\ pending' \in Seq(Event) /\ Sorted(pending')
      /\ \A y : Has(pending', y) <=> Has(pending, y) \/ y = "disk"
      /\ Once(pending', "disk") /\ Once(pending', "consoleWrite")
      /\ InterruptsOnTime'
  <2>1. ~Has(pending, "disk")
    BY <1>0, <1>1 DEF Owed
  <2> QED BY <1>1, <1>4, <2>1, Asks
<1>7. disk' \in DiskState /\ disk'.active
  <2>1. disk \in DiskState
    BY <1>0 DEF DevTypeOK
  <2>2. PICK b \in Nat : b = IF TimeToSeek(s) # 0 THEN now + TimeToSeek(s) + Rotation(s)
                                                ELSE disk.bufferInit
    <3>1. /\ now \in Nat /\ TimeToSeek(s) \in Nat /\ Rotation(s) \in Nat
          /\ disk.bufferInit \in Nat
      BY <1>0, <1>3, <2>1, SeekNat, RotationNat DEF DevTypeOK, DiskState
    <3> QED BY <3>1
  <2>3. disk' = [disk EXCEPT !.active = TRUE, !.lastSector = s, !.bufferInit = b]
    BY <1>1, <2>1, <2>2 DEF UpdateLast, DiskState
  <2> QED BY <1>3, <2>1, <2>3 DEF DiskState
<1>8. DevTypeOK'
  BY <1>0, <1>1, <1>5, <1>6, <1>7 DEF DevTypeOK
<1>9. Owed'
  BY <1>0, <1>1, <1>6, <1>7 DEF Owed
<1>10. HaltedEmpty'
  BY <1>1 DEF HaltedEmpty
<1>11. Requests(t)
  BY <1>1, <1>2, <1>3, <1>5, <1>7, <1>12 DEF Requests, Steps, SameValues
<1> QED BY <1>6, <1>8, <1>9, <1>10, <1>11 DEF DevInv

Puts(t) ==
    /\ Steps(t, "put") /\ SameValues({})
    /\ ~console.putBusy /\ console' = [console EXCEPT !.putBusy = TRUE]
    /\ UNCHANGED <<disk, req, line>>

LEMMA StepPut ==
    ASSUME DevInv, NEW t \in Thread, PutChar(t)
    PROVE  DevInv' /\ Puts(t)
<1>0. DevTypeOK /\ Owed
  BY DEF DevInv
<1>1. /\ mode = "run" /\ current = t /\ todo[t] # <<>> /\ Head(todo[t]).do = "put"
      /\ ~console.putBusy /\ console' = [console EXCEPT !.putBusy = TRUE]
      /\ pending' = Schedule(pending, now + ConsoleTime, "consoleWrite")
      /\ Next1(t) /\ UNCHANGED <<now, mode, current, ready, sem, disk, req, line>>
  BY DEF PutChar, Does
<1>2. todo[t] \in Program /\ Body(t) = todo[t]
  BY <1>0, <1>1, BodyFacts DEF DevTypeOK
<1>3. PICK v \in Nat : v = now + ConsoleTime /\ v > now
  BY <1>0, Positive DEF DevTypeOK
<1>4. /\ todo' \in [Thread -> Todo] /\ todo'[t] \in Program /\ SameBodies({t})
      /\ Body(t)' = Tail(todo[t])
  BY <1>0, <1>1, NextEffect
<1>5. /\ pending' \in Seq(Event) /\ Sorted(pending')
      /\ \A y : Has(pending', y) <=> Has(pending, y) \/ y = "consoleWrite"
      /\ Once(pending', "disk") /\ Once(pending', "consoleWrite")
      /\ InterruptsOnTime'
  <2>1. ~Has(pending, "consoleWrite")
    BY <1>0, <1>1 DEF Owed
  <2> QED BY <1>1, <1>3, <2>1, Asks
<1>6. console' \in ConsoleState /\ console'.putBusy
  BY <1>0, <1>1 DEF DevTypeOK, ConsoleState
<1>7. DevTypeOK'
  BY <1>0, <1>1, <1>4, <1>5, <1>6 DEF DevTypeOK
<1>8. Owed'
  BY <1>0, <1>1, <1>5, <1>6 DEF Owed
<1>9. HaltedEmpty'
  BY <1>1 DEF HaltedEmpty
<1>10. Puts(t)
  BY <1>1, <1>2, <1>4 DEF Puts, Steps, SameValues
<1> QED BY <1>5, <1>7, <1>8, <1>9, <1>10 DEF DevInv

LEMMA TwoAndOne ==
    ASSUME NEW a, NEW b, NEW c
    PROVE  <<a, b>> \o <<c>> = <<a, b, c>>
<1>1. <<a, b>> \in Seq({a, b, c}) /\ <<c>> \in Seq({a, b, c}) /\ <<a, b, c>> \in Seq({a, b, c})
  OBVIOUS
<1>2. PICK q : q = <<a, b>> \o <<c>>
  OBVIOUS
<1>3. /\ q \in Seq({a, b, c}) /\ Len(q) = 3
      /\ \A i \in 1..3 : q[i] = IF i <= 2 THEN <<a, b>>[i] ELSE <<c>>[i - 2]
  BY <1>1, <1>2
<1>4. q[1] = a /\ q[2] = b /\ q[3] = c
  BY <1>3
<1>5. \A i \in 1..3 : q[i] = <<a, b, c>>[i]
  BY <1>4
<1> QED BY <1>1, <1>2, <1>3, <1>5, SeqEqual

(* GetChar for character i of a string of at most n. *)
GetAt(i, n) == <<Get(i, n), V("readLock")>>
NextGet(i, n) == <<P("readAvail"), Get(i, n), V("readLock")>>

Gets(t) ==
    \E i, n \in Nat :
      /\ Body(t) = GetAt(i, n) /\ SameBodies({t}) /\ SameValues({})
      /\ \/ /\ console.incoming = "char" /\ i < n - 1
            /\ Body(t)' = NextGet(i + 1, n)
         \/ Body(t)' \in GetEnd
      /\ line' = [line EXCEPT ![t] = IF i = 0 THEN console.taken ELSE line[t]]
      /\ console' = [console EXCEPT !.incoming = "eof",
                                    !.taken = IF console.incoming = "eof" THEN console.taken
                                                                        ELSE console.taken + 1]
      /\ UNCHANGED <<disk, req>>

LEMMA StepGet ==
    ASSUME DevInv, NEW t \in Thread, GetChar(t)
    PROVE  DevInv' /\ Gets(t)
<1>0. DevTypeOK
  BY DEF DevInv
<1>1. /\ mode = "run" /\ current = t /\ todo[t] # <<>> /\ Head(todo[t]).do = "get"
      /\ UNCHANGED <<now, pending, mode, current, ready, sem, disk, req>>
  BY DEF GetChar, Does
<1>2. todo[t] \in Program /\ Body(t) = todo[t] /\ todo[t] \in GetOwned
  BY <1>0, <1>1, BodyFacts, ByFirst DEF DevTypeOK
<1>3. PICK i, n \in Nat : todo[t] = GetAt(i, n)
  BY <1>2 DEF GetOwned, GetAt
<1>4. Head(todo[t]) = Get(i, n) /\ Tail(todo[t]) = <<V("readLock")>>
  BY <1>3 DEF GetAt
<1>5. Get(i, n).i = i /\ Get(i, n).n = n
  BY DEF Get
<1>6. PICK c : c = console.incoming
  OBVIOUS
<1>7. PICK k : k = IF c = "eof" THEN console.taken ELSE console.taken + 1
  OBVIOUS
<1>8. console \in ConsoleState /\ k \in Nat /\ console.taken \in Nat
  <2>1. console \in ConsoleState
    BY <1>0 DEF DevTypeOK
  <2>2. console.taken \in Nat
    BY <2>1 DEF ConsoleState
  <2> QED BY <1>7, <2>1, <2>2
<1>9. console' = [console EXCEPT !.incoming = "eof", !.taken = k]
  BY <1>6, <1>7, <1>8 DEF GetChar, EOF, ConsoleState
<1>10. console' \in ConsoleState /\ console'.putBusy = console.putBusy
  BY <1>8, <1>9 DEF ConsoleState
<1>11. line' = [line EXCEPT ![t] = IF i = 0 THEN console.taken ELSE line[t]]
  BY <1>4, <1>5 DEF GetChar
<1>12. line' \in [Thread -> Nat]
  BY <1>0, <1>8, <1>11 DEF DevTypeOK
<1>13. PICK q : q = IF i < n - 1 /\ c = "char" THEN NextGet(i + 1, n) ELSE <<V("readLock")>>
  OBVIOUS
<1>14. todo' = [todo EXCEPT ![t] = q]
  <2>1. <<P("readAvail"), Get(i + 1, n)>> \o <<V("readLock")>> = NextGet(i + 1, n)
    BY TwoAndOne DEF NextGet
  <2> QED BY <1>4, <1>5, <1>6, <1>13, <2>1 DEF GetChar
<1>15. q \in Program
  <2>1. i + 1 \in Nat
    OBVIOUS
  <2>2. NextGet(i + 1, n) \in GetWait
    BY <2>1 DEF NextGet, GetWait
  <2>3. <<V("readLock")>> \in GetEnd
    BY DEF GetEnd
  <2> QED BY <1>13, <2>2, <2>3 DEF Program
<1>16. todo' \in [Thread -> Todo] /\ todo'[t] = q /\ \A u \in Thread \ {t} : todo'[u] = todo[u]
  BY <1>0, <1>14, <1>15 DEF DevTypeOK, Todo
<1>17. Body(t)' = q /\ SameBodies({t})
  BY <1>15, <1>16 DEF Body, SameBodies
<1>18. DevTypeOK'
  BY <1>0, <1>1, <1>10, <1>12, <1>16 DEF DevTypeOK
<1>19. DevInv'
  <2>1. Owed'
    BY <1>1, <1>10 DEF DevInv, Owed, Has, Once
  <2>2. InterruptsOnTime' /\ HaltedEmpty'
    BY <1>1 DEF DevInv, InterruptsOnTime, HaltedEmpty
  <2> QED BY <1>18, <2>1, <2>2 DEF DevInv
<1>20. SameValues({})
  BY <1>1 DEF SameValues
<1>21. \/ console.incoming = "char" /\ i < n - 1 /\ Body(t)' = NextGet(i + 1, n)
       \/ Body(t)' \in GetEnd
  BY <1>6, <1>13, <1>17 DEF GetEnd
<1>22. console' = [console EXCEPT !.incoming = "eof",
                                  !.taken = IF console.incoming = "eof" THEN console.taken
                                                                      ELSE console.taken + 1]
  BY <1>6, <1>7, <1>9
<1>23. Gets(t)
  BY <1>1, <1>2, <1>3, <1>11, <1>17, <1>20, <1>21, <1>22 DEF Gets
<1> QED BY <1>19, <1>23

Begun(t) ==
    /\ Body(t) = <<>> /\ Body(t)' \in {<<>>} \cup DiskBegin \cup PutBegin \cup GetBegin
    /\ SameBodies({t}) /\ SameValues({}) /\ UNCHANGED <<disk, req, console, line>>

LEMMA StepBegin ==
    ASSUME DevInv, NEW t \in Thread, BeginsSome(t)
    PROVE  DevInv' /\ Begun(t)
<1>0. DevTypeOK
  BY DEF DevInv
<1>1. PICK op : /\ Begins(t, op)
                /\ \/ \E s \in Sector : op = ReadSector(s) \/ op = WriteSector(s)
                   \/ op = SynchPut \/ op = SynchGetChar
                   \/ \E n \in Sizes : op = SynchGetString(n)
  BY DEF BeginsSome
<1>2. op \in {<<>>} \cup DiskBegin \cup PutBegin \cup GetBegin
  <2>1. ASSUME NEW s \in Sector
        PROVE  ReadSector(s) \in DiskBegin /\ WriteSector(s) \in DiskBegin
    <3>1. ReadSector(s) \in DiskBegin
      <4>1. PICK w \in BOOLEAN : w = FALSE
        OBVIOUS
      <4>2. ReadSector(s) = <<P("diskLock"), DiskRequest(s, w), P("diskDone"), V("diskLock")>>
        BY <4>1 DEF ReadSector
      <4> QED BY <4>2 DEF DiskBegin
    <3>2. WriteSector(s) \in DiskBegin
      <4>1. PICK w \in BOOLEAN : w = TRUE
        OBVIOUS
      <4>2. WriteSector(s) = <<P("diskLock"), DiskRequest(s, w), P("diskDone"), V("diskLock")>>
        BY <4>1 DEF WriteSector
      <4> QED BY <4>2 DEF DiskBegin
    <3> QED BY <3>1, <3>2
  <2>2. SynchPut \in PutBegin
    BY DEF SynchPut, PutBegin
  <2>3. SynchGetChar \in GetBegin
    BY DEF SynchGetChar, GetBegin
  <2>4. ASSUME NEW n \in Sizes PROVE SynchGetString(n) \in {<<>>} \cup GetBegin
    <3>1. n \in Nat
      BY DevicesAssumption
    <3>2. CASE n <= 1
      BY <3>2 DEF SynchGetString
    <3>3. CASE ~(n <= 1)
      <4>1. SynchGetString(n) = <<P("readLock"), P("readAvail"), Get(0, n), V("readLock")>>
        BY <3>3 DEF SynchGetString
      <4> QED BY <3>1, <4>1 DEF GetBegin
    <3> QED BY <3>2, <3>3
  <2> QED BY <1>1, <2>1, <2>2, <2>3, <2>4
<1>3. /\ mode = "run" /\ todo[t] = <<>> /\ todo' = [todo EXCEPT ![t] = op]
      /\ UNCHANGED <<now, pending, mode, current, ready, sem, disk, console, req, line>>
  BY <1>1 DEF Begins
<1>4. op \in Program
  BY <1>2 DEF Program
<1>5. todo' \in [Thread -> Todo] /\ todo'[t] = op /\ \A u \in Thread \ {t} : todo'[u] = todo[u]
  BY <1>0, <1>3, <1>4 DEF DevTypeOK, Todo
<1>6. Body(t)' = op /\ SameBodies({t})
  BY <1>4, <1>5 DEF Body, SameBodies
<1>7. Body(t) = <<>>
  BY <1>0, <1>3, BodyFacts DEF DevTypeOK
<1>8. DevTypeOK'
  BY <1>0, <1>3, <1>5 DEF DevTypeOK
<1>9. Begun(t)
  BY <1>2, <1>3, <1>6, <1>7 DEF Begun, SameValues
<1> QED BY <1>3, <1>8, <1>9, Calm

LEMMA StepFinish ==
    ASSUME DevInv, NEW t \in Thread, Finish(t)
    PROVE  DevInv' /\ Still
<1>0. DevTypeOK
  BY DEF DevInv
<1>1. /\ mode = "run" /\ Sleep(t, ready)
      /\ UNCHANGED <<now, pending, sem, todo, disk, console, req, line>>
  BY DEF Finish
<1>2. /\ ready' \in Seq(Thread) /\ mode' \in {"run", "idle"}
      /\ mode' = "run" => current' \in Thread
  BY <1>0, <1>1, SleepEffect DEF DevTypeOK
<1>3. DevTypeOK'
  BY <1>0, <1>1, <1>2 DEF DevTypeOK, Mode
<1>4. Still
  BY <1>1, SameTodo DEF Still, SameValues
<1> QED BY <1>1, <1>2, <1>3, <1>4, Calm

-----------------------------------------------------------------------------
(* The interrupts. *)
LEMMA MinPair ==
    ASSUME NEW a \in Int, NEW b \in Int
    PROVE  Min({a, b}) = IF a <= b THEN a ELSE b
BY DEF Min

LEMMA MaxPair ==
    ASSUME NEW a \in Int, NEW b \in Int
    PROVE  Max({a, b}) = IF a <= b THEN b ELSE a
BY DEF Max

DiskAnswers ==
    /\ SameBodies({}) /\ disk.active /\ disk' = [disk EXCEPT !.active = FALSE]
    /\ sem'["diskDone"].value = sem["diskDone"].value + 1 /\ SameValues({"diskDone"})
    /\ UNCHANGED <<req, console, line>>

PutAnswers ==
    /\ SameBodies({}) /\ console.putBusy /\ console' = [console EXCEPT !.putBusy = FALSE]
    /\ sem'["writeDone"].value = sem["writeDone"].value + 1 /\ SameValues({"writeDone"})
    /\ UNCHANGED <<disk, req, line>>

Polls ==
    /\ SameBodies({}) /\ console.incoming = "eof"
    /\ \E c \in {"eof", "char", "newline"}, k \in Nat :
          /\ console' = [console EXCEPT !.incoming = c, !.polled = k]
          /\ \/ console.polled < Len(Input) /\ k = console.polled + 1 /\ c # "eof"
             \/ ~(console.polled < Len(Input)) /\ k = Len(Input) /\ c = "eof"
    /\ SameValues({"readAvail"})
    /\ UNCHANGED <<disk, req, line>>

(* What a handler leaves. *)
Handled ==
    /\ pending' \in Seq(Event) /\ Sorted(pending') /\ ready' \in Seq(Thread)
    /\ sem' \in [Semaphore -> SemState] /\ disk' \in DiskState /\ console' \in ConsoleState
    /\ Owed'
    /\ DiskAnswers \/ PutAnswers \/ Polls \/ Still

LEMMA Reschedules ==
    ASSUME DevInv, pending # <<>>, NEW w \in Nat, NEW x \in {"timer", "consoleRead"},
           Head(pending).type = x, pending' = Schedule(Tail(pending), w, x)
    PROVE  /\ pending' \in Seq(Event) /\ Sorted(pending')
           /\ \A y \in {"disk", "consoleWrite"} :
                 Once(pending', y) /\ (Has(pending', y) <=> Has(pending, y))
<1>1. pending \in Seq(Event) /\ Sorted(pending) /\ x \in Kind
  BY DEF DevInv, DevTypeOK, Kind
<1>2. PICK r : r = Tail(pending)
  OBVIOUS
<1>3. /\ r \in Seq(Event) /\ Sorted(r)
      /\ \A y : /\ Has(pending, y) <=> Has(r, y) \/ y = x
                /\ Once(pending, y) => Once(r, y)
  BY <1>1, <1>2, TailKinds
<1>4. PICK e : e = Interrupt(w, x)
  OBVIOUS
<1>5. e.type = x
  BY <1>4 DEF Interrupt
<1>6. PICK k : InsertedAt(r, k, e, pending')
  BY <1>1, <1>2, <1>3, <1>4, ScheduleSorted
<1>7. pending' \in Seq(Event) /\ Sorted(pending')
  BY <1>1, <1>2, <1>3, <1>6, ScheduleSorted DEF InsertedAt
<1>8. \A y \in {"disk", "consoleWrite"} : Once(r, y) /\ y # x
  BY <1>3 DEF DevInv, Owed
<1>9. \A y \in {"disk", "consoleWrite"} : Once(pending', y) /\ (Has(pending', y) <=> Has(r, y))
  BY <1>3, <1>5, <1>6, <1>8, InsertKinds
<1> QED BY <1>3, <1>7, <1>8, <1>9

(* The interrupt of a device is taken off the list. *)
LEMMA Answers ==
    ASSUME DevInv, pending # <<>>, NEW x \in {"timer", "disk", "consoleWrite"},
           Head(pending).type = x, pending' = Tail(pending)
    PROVE  /\ pending' \in Seq(Event) /\ Sorted(pending') /\ Has(pending, x)
           /\ \A y \in {"disk", "consoleWrite"} :
                 Once(pending', y) /\ (Has(pending', y) <=> Has(pending, y) /\ y # x)
<1>1. pending \in Seq(Event) /\ Sorted(pending) /\ Once(pending, "disk")
      /\ Once(pending, "consoleWrite")
  BY DEF DevInv, DevTypeOK, Owed
<1>2. /\ pending' \in Seq(Event) /\ Sorted(pending')
      /\ \A y : /\ Has(pending, y) <=> Has(pending', y) \/ y = x
                /\ Once(pending, y) => Once(pending', y)
                /\ Once(pending, y) /\ x = y => ~Has(pending', y)
  BY <1>1, TailKinds
<1> QED BY <1>1, <1>2

LEMMA HandlesTimer ==
    ASSUME DevInv, pending # <<>>, NEW at \in Nat, Head(pending).type = "timer",
           TimerExpired(Tail(pending), at), UNCHANGED <<todo, req, line>>
    PROVE  Handled
<1>0. DevTypeOK /\ Owed
  BY DEF DevInv
<1>1. UNCHANGED <<ready, sem, disk, console>>
  BY DEF TimerExpired
<1>2. /\ pending' \in Seq(Event) /\ Sorted(pending')
      /\ \A y \in {"disk", "consoleWrite"} :
            Once(pending', y) /\ (Has(pending', y) <=> Has(pending, y))
  <2>1. CASE pending' = Tail(pending)
    BY <2>1, Answers
  <2>2. ASSUME NEW d \in TimeOfNextInterrupt, pending' = Schedule(Tail(pending), at + d, "timer")
        PROVE  /\ pending' \in Seq(Event) /\ Sorted(pending')
               /\ \A y \in {"disk", "consoleWrite"} :
                     Once(pending', y) /\ (Has(pending', y) <=> Has(pending, y))
    <3>1. at + d \in Nat
      BY Positive DEF TimeOfNextInterrupt
    <3> QED BY <2>2, <3>1, Reschedules
  <2> QED BY <2>1, <2>2 DEF TimerExpired
<1>3. Owed'
  BY <1>0, <1>1, <1>2 DEF Owed
<1>4. Still
  BY <1>1, SameTodo DEF Still, SameValues
<1> QED BY <1>0, <1>1, <1>2, <1>3, <1>4 DEF Handled, DevTypeOK

LEMMA HandlesDisk ==
    ASSUME DevInv, pending # <<>>, NEW at \in Nat, Head(pending).type = "disk",
           DiskDone(Tail(pending), at), UNCHANGED <<todo, req, line>>
    PROVE  Handled
<1>0. DevTypeOK /\ Owed
  BY DEF DevInv
<1>1. /\ pending' = Tail(pending) /\ disk' = [disk EXCEPT !.active = FALSE] /\ DoV("diskDone")
      /\ UNCHANGED console
  BY DEF DiskDone, RequestDone
<1>2. /\ pending' \in Seq(Event) /\ Sorted(pending') /\ Has(pending, "disk")
      /\ \A y \in {"disk", "consoleWrite"} :
            Once(pending', y) /\ (Has(pending', y) <=> Has(pending, y) /\ y # "disk")
  BY <1>1, Answers
<1>3. disk.active /\ disk' \in DiskState /\ disk'.active = FALSE
  BY <1>0, <1>1, <1>2 DEF Owed, DevTypeOK, DiskState
<1>4. Owed'
  BY <1>0, <1>1, <1>2, <1>3 DEF Owed
<1>5. /\ sem' \in [Semaphore -> SemState] /\ ready' \in Seq(Thread)
      /\ sem'["diskDone"].value = sem["diskDone"].value + 1 /\ SameValues({"diskDone"})
  <2>1. "diskDone" \in Semaphore
    BY DEF Semaphore
  <2> QED BY <1>0, <1>1, <2>1, VEffect
<1>6. DiskAnswers
  BY <1>1, <1>3, <1>5, SameTodo DEF DiskAnswers
<1> QED BY <1>0, <1>1, <1>2, <1>3, <1>4, <1>5, <1>6 DEF Handled, DevTypeOK

LEMMA HandlesPut ==
    ASSUME DevInv, pending # <<>>, NEW at \in Nat, Head(pending).type = "consoleWrite",
           ConsoleWriteDone(Tail(pending), at), UNCHANGED <<todo, req, line>>
    PROVE  Handled
<1>0. DevTypeOK /\ Owed
  BY DEF DevInv
<1>1. /\ pending' = Tail(pending) /\ console' = [console EXCEPT !.putBusy = FALSE]
      /\ DoV("writeDone") /\ UNCHANGED disk
  BY DEF ConsoleWriteDone, WriteDone
<1>2. /\ pending' \in Seq(Event) /\ Sorted(pending') /\ Has(pending, "consoleWrite")
      /\ \A y \in {"disk", "consoleWrite"} :
            Once(pending', y) /\ (Has(pending', y) <=> Has(pending, y) /\ y # "consoleWrite")
  BY <1>1, Answers
<1>3. console.putBusy /\ console' \in ConsoleState /\ console'.putBusy = FALSE
  BY <1>0, <1>1, <1>2 DEF Owed, DevTypeOK, ConsoleState
<1>4. Owed'
  BY <1>0, <1>1, <1>2, <1>3 DEF Owed
<1>5. /\ sem' \in [Semaphore -> SemState] /\ ready' \in Seq(Thread)
      /\ sem'["writeDone"].value = sem["writeDone"].value + 1 /\ SameValues({"writeDone"})
  <2>1. "writeDone" \in Semaphore
    BY DEF Semaphore
  <2> QED BY <1>0, <1>1, <2>1, VEffect
<1>6. PutAnswers
  BY <1>1, <1>3, <1>5, SameTodo DEF PutAnswers
<1> QED BY <1>0, <1>1, <1>2, <1>3, <1>4, <1>5, <1>6 DEF Handled, DevTypeOK

LEMMA HandlesRead ==
    ASSUME DevInv, pending # <<>>, NEW at \in Nat, Head(pending).type = "consoleRead",
           CheckCharAvail(Tail(pending), at), UNCHANGED <<todo, req, line>>
    PROVE  Handled
<1>0. DevTypeOK /\ Owed
  BY DEF DevInv
<1>1. pending' = Schedule(Tail(pending), at + ConsoleTime, "consoleRead") /\ UNCHANGED disk
  BY DEF CheckCharAvail
<1>2. /\ pending' \in Seq(Event) /\ Sorted(pending')
      /\ \A y \in {"disk", "consoleWrite"} :
            Once(pending', y) /\ (Has(pending', y) <=> Has(pending, y))
  <2>1. at + ConsoleTime \in Nat
    BY Positive
  <2> QED BY <1>1, <2>1, Reschedules
<1>3. CASE UNCHANGED <<console, ready, sem>>
  <2>1. Owed'
    BY <1>0, <1>1, <1>2, <1>3 DEF Owed
  <2>2. Still
    BY <1>1, <1>3, SameTodo DEF Still, SameValues
  <2> QED BY <1>0, <1>1, <1>2, <1>3, <2>1, <2>2 DEF Handled, DevTypeOK
<1>4. CASE /\ console.incoming = EOF
           /\ console' = [console EXCEPT !.incoming = ReadPartial,
                                         !.polled = Min({console.polled + 1, Len(Input)})]
           /\ DoV("readAvail")
  <2>1. Len(Input) \in Nat /\ console \in ConsoleState
    BY <1>0, DevicesAssumption DEF DevTypeOK
  <2>2. console.polled \in Nat
    BY <2>1 DEF ConsoleState
  <2>3. PICK c, k : c = ReadPartial /\ k = Min({console.polled + 1, Len(Input)})
    OBVIOUS
  <2>4. /\ \/ console.polled < Len(Input) /\ k = console.polled + 1 /\ c \in {"char", "newline"}
           \/ ~(console.polled < Len(Input)) /\ k = Len(Input) /\ c = "eof"
        /\ k \in Nat
    <3>1. k = IF console.polled + 1 <= Len(Input) THEN console.polled + 1 ELSE Len(Input)
      BY <2>1, <2>2, <2>3, MinPair
    <3>2. CASE console.polled < Len(Input)
      <4>1. console.polled + 1 \in 1..Len(Input)
        BY <2>1, <2>2, <3>2
      <4>2. Input[console.polled + 1] \in {"char", "newline"}
        BY <4>1, DevicesAssumption
      <4>3. c = Input[console.polled + 1]
        BY <2>3, <3>2 DEF ReadPartial
      <4>4. k = console.polled + 1 /\ k \in Nat
        BY <2>1, <2>2, <3>1, <4>1
      <4> QED BY <3>2, <4>2, <4>3, <4>4
    <3>3. CASE ~(console.polled < Len(Input))
      BY <2>1, <2>2, <2>3, <3>1, <3>3 DEF ReadPartial, EOF
    <3> QED BY <3>2, <3>3
  <2>5. console' = [console EXCEPT !.incoming = c, !.polled = k]
    BY <1>4, <2>3
  <2>6. console' \in ConsoleState /\ console'.putBusy = console.putBusy
    BY <2>1, <2>4, <2>5 DEF ConsoleState
  <2>7. Owed'
    BY <1>0, <1>1, <1>2, <2>6 DEF Owed
  <2>8. /\ sem' \in [Semaphore -> SemState] /\ ready' \in Seq(Thread)
        /\ SameValues({"readAvail"})
    <3>1. "readAvail" \in Semaphore
      BY DEF Semaphore
    <3> QED BY <1>0, <1>4, <3>1, VEffect
  <2>9. c \in {"eof", "char", "newline"}
    BY <2>4
  <2>10. Polls
    BY <1>1, <1>4, <2>4, <2>5, <2>8, <2>9, SameTodo DEF Polls, EOF
  <2> QED BY <1>0, <1>1, <1>2, <2>6, <2>7, <2>8, <2>10 DEF Handled, DevTypeOK
<1> QED BY <1>3, <1>4 DEF CheckCharAvail, ReadAvail

LEMMA HandleEffect ==
    ASSUME DevInv, pending # <<>>, NEW at \in Nat, Handle(Head(pending), Tail(pending), at),
           UNCHANGED <<todo, req, line>>
    PROVE  Handled
BY HandlesTimer, HandlesDisk, HandlesPut, HandlesRead DEF Handle

LEMMA StepCheckIfDue ==
    ASSUME DevInv, CheckIfDue
    PROVE  DevInv' /\ (DiskAnswers \/ PutAnswers \/ Polls \/ Still)
<1>0. DevTypeOK
  BY DEF DevInv
<1>1. /\ mode = "due" /\ pending # <<>> /\ Handle(Head(pending), Tail(pending), now)
      /\ UNCHANGED <<now, mode, current, todo, req, line>>
  BY DEF CheckIfDue, Due
<1>2. Handled
  <2>1. now \in Nat
    BY <1>0 DEF DevTypeOK
  <2> QED BY <1>1, <2>1, HandleEffect
<1>3. DevTypeOK'
  BY <1>0, <1>1, <1>2 DEF DevTypeOK, Handled
<1>4. InterruptsOnTime' /\ HaltedEmpty'
  BY <1>1 DEF InterruptsOnTime, HaltedEmpty
<1> QED BY <1>2, <1>3, <1>4 DEF DevInv, Handled

LEMMA NotDue ==
    ASSUME DevTypeOK, ~Due
    PROVE  \A i \in 1..Len(pending) : pending[i].when > now
<1>0. pending \in Seq(Event) /\ Sorted(pending) /\ now \in Nat
  BY DEF DevTypeOK
<1> TAKE i \in 1..Len(pending)
<1>1. pending # <<>> /\ 1 \in 1..Len(pending) /\ Head(pending) = pending[1]
  BY <1>0
<1>2. pending[1].when \in Nat /\ pending[i].when \in Nat
  BY <1>0, <1>1, ListFields
<1>3. pending[1].when <= pending[i].when
  BY <1>0, <1>1 DEF Sorted
<1>4. ~(pending[1].when <= now)
  BY <1>1 DEF Due
<1> QED BY <1>0, <1>2, <1>3, <1>4

LEMMA StepTickDone ==
    ASSUME DevInv, TickDone
    PROVE  DevInv' /\ Still
<1>0. DevTypeOK /\ Owed
  BY DEF DevInv
<1>1. /\ mode = "due" /\ ~Due /\ mode' = "run"
      /\ UNCHANGED <<now, pending, sem, disk, console, req, line>>
  BY DEF TickDone
<1>2. current \in Thread /\ todo[current] \in Program /\ todo \in [Thread -> Todo]
  BY <1>0, <1>1 DEF DevTypeOK
<1>3. todo' \in [Thread -> Todo] /\ ready' \in Seq(Thread) /\ current' \in Thread /\ SameBodies({})
  <2>1. CASE ~yieldOnReturn
    BY <1>0, <1>1, <1>2, <2>1, SameTodo DEF TickDone, DevTypeOK
  <2>2. CASE yieldOnReturn
    <3>1. PICK b : b = <<Tick>> \o todo[current]
      OBVIOUS
    <3>2. todo' = [todo EXCEPT ![current] = b] /\ FindNextToRun(Append(ready, current))
      BY <2>2, <3>1 DEF TickDone
    <3>3. b \in Todo
      BY <1>2, <3>1 DEF Todo
    <3>4. todo' \in [Thread -> Todo] /\ todo'[current] = b
      BY <1>2, <3>2, <3>3
    <3>5. b # <<>> /\ Head(b) = Tick /\ Tail(b) = todo[current]
      BY <1>2, <3>1, ByFirst, TickFirst
    <3>6. b \notin Program
      BY <3>5, ByFirst, InstrFacts
    <3>7. SameBodies({})
      <4> SUFFICES ASSUME NEW u \in Thread PROVE Body(u)' = Body(u)
        BY DEF SameBodies
      <4>1. CASE u = current
        BY <1>2, <3>4, <3>5, <3>6, <4>1 DEF Body
      <4>2. CASE u # current
        BY <1>2, <3>2, <4>2 DEF Body
      <4> QED BY <4>1, <4>2
    <3>8. ready' \in Seq(Thread) /\ current' \in Thread
      <4>1. PICK r : r = Append(ready, current)
        OBVIOUS
      <4>2. r \in Seq(Thread) /\ r # <<>>
        BY <1>0, <1>2, <4>1 DEF DevTypeOK
      <4>3. current' = Head(r) /\ ready' = Tail(r)
        BY <3>2, <4>1 DEF FindNextToRun
      <4> QED BY <4>2, <4>3
    <3> QED BY <3>4, <3>7, <3>8
  <2> QED BY <2>1, <2>2
<1>4. DevTypeOK'
  BY <1>0, <1>1, <1>3 DEF DevTypeOK, Mode
<1>5. InterruptsOnTime'
  <2>1. \A i \in 1..Len(pending) : pending[i].when > now
    BY <1>0, <1>1, NotDue
  <2>2. pending \in Seq(Event)
    BY <1>0 DEF DevTypeOK
  <2> QED BY <1>1, <2>1, <2>2 DEF InterruptsOnTime
<1>6. Owed' /\ HaltedEmpty'
  BY <1>0, <1>1 DEF Owed, HaltedEmpty, Has, Once
<1>7. Still
  BY <1>1, <1>3 DEF Still, SameValues
<1> QED BY <1>4, <1>5, <1>6, <1>7 DEF DevInv

LEMMA StepIdle ==
    ASSUME DevInv, Idle
    PROVE  DevInv' /\ (DiskAnswers \/ PutAnswers \/ Polls \/ Still)
<1>0. DevTypeOK
  BY DEF DevInv
<1>1. PICK at : at = Max({now, Head(pending).when})
  OBVIOUS
<1>2. /\ mode = "idle" /\ pending # <<>> /\ Handle(Head(pending), Tail(pending), at)
      /\ now' = at /\ mode' = "idleDue"
      /\ UNCHANGED <<current, todo, req, line>>
  BY <1>1 DEF Idle
<1>3. at \in Nat
  <2>1. pending \in Seq(Event) /\ Sorted(pending) /\ now \in Nat
    BY <1>0 DEF DevTypeOK
  <2>2. Head(pending).when \in Nat
    BY <1>2, <2>1, TailKinds, EventFields
  <2>3. at = IF now <= Head(pending).when THEN Head(pending).when ELSE now
    BY <1>1, <2>1, <2>2, MaxPair
  <2> QED BY <2>1, <2>2, <2>3
<1>4. Handled
  BY <1>2, <1>3, HandleEffect
<1>5. DevTypeOK'
  BY <1>0, <1>2, <1>3, <1>4 DEF DevTypeOK, Handled, Mode
<1>6. InterruptsOnTime' /\ HaltedEmpty'
  BY <1>2 DEF InterruptsOnTime, HaltedEmpty
<1> QED BY <1>4, <1>5, <1>6 DEF DevInv, Handled

LEMMA StepIdleDue ==
    ASSUME DevInv, IdleDue
    PROVE  DevInv' /\ (DiskAnswers \/ PutAnswers \/ Polls \/ Still)
<1>0. DevTypeOK
  BY DEF DevInv
<1>1. /\ mode = "idleDue" /\ pending # <<>> /\ Handle(Head(pending), Tail(pending), now)
      /\ UNCHANGED <<now, mode, current, todo, req, line>>
  BY DEF IdleDue, Due
<1>2. Handled
  <2>1. now \in Nat
    BY <1>0 DEF DevTypeOK
  <2> QED BY <1>1, <2>1, HandleEffect
<1>3. DevTypeOK'
  BY <1>0, <1>1, <1>2 DEF DevTypeOK, Handled
<1>4. InterruptsOnTime' /\ HaltedEmpty'
  BY <1>1 DEF InterruptsOnTime, HaltedEmpty
<1> QED BY <1>2, <1>3, <1>4 DEF DevInv, Handled

LEMMA StepIdleDone ==
    ASSUME DevInv, IdleDone
    PROVE  DevInv' /\ Still
<1>0. DevTypeOK /\ Owed
  BY DEF DevInv
<1>1. /\ mode = "idleDue" /\ (~Due \/ OnlyTimer) /\ Sleep(current, ready)
      /\ UNCHANGED <<now, pending, sem, todo, disk, console, req, line>>
  BY DEF IdleDone
<1>2. /\ ready' \in Seq(Thread) /\ mode' \in {"run", "idle"}
      /\ mode' = "run" => current' \in Thread
  BY <1>0, <1>1, SleepEffect DEF DevTypeOK
<1>3. DevTypeOK'
  BY <1>0, <1>1, <1>2 DEF DevTypeOK, Mode
<1>4. InterruptsOnTime'
  <2>0. pending \in Seq(Event)
    BY <1>0 DEF DevTypeOK
  <2>1. CASE ~Due
    <3>1. \A i \in 1..Len(pending) : pending[i].when > now
      BY <1>0, <2>1, NotDue
    <3> QED BY <1>1, <2>0, <3>1 DEF InterruptsOnTime
  <2>2. CASE OnlyTimer
    <3>1. \A i \in DOMAIN pending : pending[i].type = "timer"
      BY <2>0, <2>2 DEF OnlyTimer
    <3> QED BY <1>1, <3>1 DEF InterruptsOnTime
  <2> QED BY <1>1, <2>1, <2>2
<1>5. Owed' /\ HaltedEmpty'
  BY <1>0, <1>1, <1>2 DEF Owed, HaltedEmpty, Has, Once
<1>6. Still
  BY <1>1, SameTodo DEF Still, SameValues
<1> QED BY <1>3, <1>4, <1>5, <1>6 DEF DevInv

LEMMA StepHalt ==
    ASSUME DevInv, Halt
    PROVE  DevInv' /\ Still
<1>0. DevTypeOK /\ Owed
  BY DEF DevInv
<1>1. /\ pending = <<>> \/ OnlyTimer
      /\ mode' = "halted"
      /\ UNCHANGED <<pending, current, ready, sem, todo, disk, console, req, line>>
  BY DEF Halt
<1>2. now' \in Nat
  <2>1. pending \in Seq(Event) /\ Sorted(pending) /\ now \in Nat
    BY <1>0 DEF DevTypeOK
  <2>2. CASE pending = <<>>
    BY <2>1, <2>2 DEF Halt
  <2>3. CASE pending # <<>>
    <3>1. Head(pending).when \in Nat
      BY <2>1, <2>3, TailKinds, EventFields
    <3>2. now' = Max({now, Head(pending).when})
      BY <2>3 DEF Halt
    <3>3. now' = IF now <= Head(pending).when THEN Head(pending).when ELSE now
      BY <2>1, <3>1, <3>2, MaxPair
    <3> QED BY <2>1, <3>1, <3>3
  <2> QED BY <2>2, <2>3
<1>3. DevTypeOK'
  BY <1>0, <1>1, <1>2 DEF DevTypeOK, Mode
<1>4. Owed' /\ InterruptsOnTime'
  BY <1>0, <1>1 DEF Owed, InterruptsOnTime, Has, Once
<1>5. HaltedEmpty'
  BY <1>1 DEF HaltedEmpty, OnlyTimer
<1>6. Still
  BY <1>1, SameTodo DEF Still, SameValues
<1> QED BY <1>3, <1>4, <1>5, <1>6 DEF DevInv

(* Every step, by what it does to the operations, the semaphores and the     *)
(* devices.                                                                  *)
StepKinds ==
    \/ Still \/ DiskAnswers \/ PutAnswers \/ Polls
    \/ \E t \in Thread : Takes(t) \/ Gives(t) \/ Requests(t) \/ Puts(t) \/ Gets(t) \/ Begun(t)

LEMMA StepCases ==
    ASSUME DevInv, [DevicesNext]_devVars
    PROVE  DevInv' /\ StepKinds
<1>1. CASE UNCHANGED devVars
  <2>1. /\ UNCHANGED <<now, pending, mode, current, ready, sem, todo>>
        /\ UNCHANGED <<disk, console, req, line>>
    BY <1>1 DEF devVars, interruptVars, schedVars, driverVars, deviceVars, history
  <2>2. DevTypeOK'
    BY <2>1 DEF DevInv, DevTypeOK, Sorted
  <2>3. Owed'
    BY <2>1 DEF DevInv, Owed, Has, Once
  <2>4. InterruptsOnTime' /\ HaltedEmpty'
    BY <2>1 DEF DevInv, InterruptsOnTime, HaltedEmpty, OnlyTimer
  <2>5. Still
    BY <2>1, SameTodo DEF Still, SameValues
  <2> QED BY <2>2, <2>3, <2>4, <2>5 DEF DevInv, StepKinds
<1>2. ASSUME NEW t \in Thread, SemP(t) \/ SemV(t) \/ AfterYield(t) \/ Finish(t)
      PROVE  DevInv' /\ StepKinds
  BY <1>2, StepP, StepV, StepAfterYield, StepFinish DEF StepKinds
<1>3. ASSUME NEW t \in Thread, Request(t) \/ PutChar(t) \/ GetChar(t) \/ BeginsSome(t)
      PROVE  DevInv' /\ StepKinds
  BY <1>3, StepRequest, StepPut, StepGet, StepBegin DEF StepKinds
<1>4. CASE CheckIfDue \/ TickDone \/ Idle \/ IdleDue \/ IdleDone \/ Halt
  BY <1>4, StepCheckIfDue, StepTickDone, StepIdle, StepIdleDue, StepIdleDone, StepHalt
     DEF StepKinds
<1> QED BY <1>1, <1>2, <1>3, <1>4 DEF DevicesNext

LEMMA InitTimer ==
    ASSUME NEW timer \in {<<>>} \cup {<<Interrupt(d, "timer")>> : d \in TimeOfNextInterrupt}
    PROVE  /\ timer \in Seq(Event) /\ Sorted(timer)
           /\ \A i \in 1..Len(timer) : timer[i].type = "timer"
<1>1. CASE timer = <<>>
  BY <1>1 DEF Sorted
<1>2. ASSUME NEW d \in TimeOfNextInterrupt, timer = <<Interrupt(d, "timer")>>
      PROVE  /\ timer \in Seq(Event) /\ Sorted(timer)
             /\ \A i \in 1..Len(timer) : timer[i].type = "timer"
  <2>1. PICK e : e = Interrupt(d, "timer")
    OBVIOUS
  <2>2. d \in Nat
    BY Positive DEF TimeOfNextInterrupt
  <2>3. e \in Event /\ e.type = "timer" /\ e.when \in Nat
    BY <2>1, <2>2 DEF Interrupt, Event, Kind
  <2>4. timer \in Seq(Event) /\ Len(timer) = 1 /\ timer[1] = e
    BY <1>2, <2>1, <2>3
  <2>5. \A i \in 1..Len(timer) : timer[i] = e
    BY <2>4
  <2>6. Sorted(timer)
    BY <2>3, <2>5 DEF Sorted
  <2> QED BY <2>3, <2>4, <2>5, <2>6
<1> QED BY <1>1, <1>2

LEMMA InitPending ==
    ASSUME DevicesInit
    PROVE  /\ pending \in Seq(Event) /\ Sorted(pending)
           /\ \A i \in 1..Len(pending) : \/ pending[i].type = "timer"
                                         \/ pending[i].type = "consoleRead" /\ pending[i].when > now
<1>1. PICK timer \in {<<>>} \cup {<<Interrupt(d, "timer")>> : d \in TimeOfNextInterrupt} :
          pending \in {timer, Schedule(timer, ConsoleTime, "consoleRead")}
  BY DEF DevicesInit
<1>2. /\ timer \in Seq(Event) /\ Sorted(timer)
      /\ \A i \in 1..Len(timer) : timer[i].type = "timer"
  BY InitTimer
<1> HIDE DEF TimeOfNextInterrupt
<1>3. CASE pending = timer
  BY <1>2, <1>3
<1>4. CASE pending = Schedule(timer, ConsoleTime, "consoleRead")
  <2>1. PICK e : e = Interrupt(ConsoleTime, "consoleRead")
    OBVIOUS
  <2>2. e.when > now /\ e.type = "consoleRead" /\ "consoleRead" \in Kind
    BY <2>1, Positive DEF Interrupt, DevicesInit, Kind
  <2>3. PICK k : InsertedAt(timer, k, e, pending)
    BY <1>2, <1>4, <2>1, <2>2, Positive, ScheduleSorted
  <2>4. pending \in Seq(Event) /\ Sorted(pending)
    BY <1>2, <1>4, <2>2, <2>3, Positive, ScheduleSorted DEF InsertedAt
  <2>5. ASSUME NEW i \in 1..Len(pending)
        PROVE  \/ pending[i].type = "timer"
               \/ pending[i].type = "consoleRead" /\ pending[i].when > now
    <3>1. pending[i] = e \/ \E y \in 1..Len(timer) : pending[i] = timer[y]
      BY <1>2, <2>3, InsertFrom
    <3> QED BY <1>2, <2>2, <3>1
  <2> QED BY <2>4, <2>5
<1> QED BY <1>1, <1>3, <1>4

LEMMA InitThreads ==
    ASSUME NEW q \in SetToSeqs(Thread)
    PROVE  Head(q) \in Thread /\ Tail(q) \in Seq(Thread)
<1>1. PICK n \in Nat : n = Cardinality(Thread)
  BY FS_CardinalityType, DevicesAssumption
<1>2. n > 0
  BY <1>1, FS_EmptySet, DevicesAssumption
<1>3. q \in [1..n -> Thread]
  BY <1>1 DEF SetToSeqs
<1>4. q \in Seq(Thread) /\ Len(q) = n
  BY <1>3
<1>5. q # <<>>
  BY <1>2, <1>4
<1> QED BY <1>4, <1>5

LEMMA InitDevInv ==
    ASSUME DevicesInit
    PROVE  /\ DevInv /\ \A t \in Thread : Body(t) = <<>>
           /\ \A s \in Semaphore :
                 sem[s].value = IF s \in {"diskLock", "readLock", "writeLock"} THEN 1 ELSE 0
<1>1. /\ pending \in Seq(Event) /\ Sorted(pending)
      /\ \A i \in 1..Len(pending) : \/ pending[i].type = "timer"
                                    \/ pending[i].type = "consoleRead" /\ pending[i].when > now
  BY InitPending
<1>2. /\ now = 0 /\ mode = "run" /\ todo = [t \in Thread |-> <<>>] /\ disk = NewDisk
      /\ console = NewConsole /\ line = [t \in Thread |-> 0]
      /\ sem = [s \in Semaphore |->
                [value |-> IF s \in {"diskLock", "readLock", "writeLock"} THEN 1 ELSE 0,
                 queue |-> <<>>]]
  BY DEF DevicesInit
<1>3. ~Has(pending, "disk") /\ ~Has(pending, "consoleWrite")
  BY <1>1 DEF Has
<1>4. Once(pending, "disk") /\ Once(pending, "consoleWrite")
  BY <1>1 DEF Once
<1>5. disk \in DiskState /\ disk.active = FALSE
  BY <1>2 DEF NewDisk, DiskState
<1>6. console \in ConsoleState /\ console.putBusy = FALSE
  BY <1>2 DEF NewConsole, ConsoleState, EOF
<1>7. Owed
  BY <1>3, <1>4, <1>5, <1>6 DEF Owed
<1>8. InterruptsOnTime /\ HaltedEmpty
  BY <1>1, <1>2 DEF InterruptsOnTime, HaltedEmpty
<1>9. current \in Thread /\ ready \in Seq(Thread)
  BY InitThreads DEF DevicesInit
<1>10. <<>> \in Program /\ <<>> \in Todo
  BY DEF Program, Todo
<1>11. /\ todo \in [Thread -> Todo] /\ \A t \in Thread : Body(t) = <<>>
  BY <1>2, <1>10 DEF Body
<1>12. sem \in [Semaphore -> SemState]
  <2>1. ASSUME NEW v \in {0, 1} PROVE [value |-> v, queue |-> <<>>] \in SemState
    BY DEF SemState
  <2>2. \A s \in Semaphore : (IF s \in {"diskLock", "readLock", "writeLock"} THEN 1 ELSE 0) \in {0, 1}
    OBVIOUS
  <2> QED BY <1>2, <2>1, <2>2
<1>13. line \in [Thread -> Nat] /\ mode \in Mode /\ now \in Nat
  BY <1>2 DEF Mode
<1>14. DevTypeOK
  BY <1>1, <1>2, <1>5, <1>6, <1>9, <1>11, <1>12, <1>13 DEF DevTypeOK
<1>15. \A s \in Semaphore :
          sem[s].value = IF s \in {"diskLock", "readLock", "writeLock"} THEN 1 ELSE 0
  BY <1>2
<1> QED BY <1>7, <1>8, <1>11, <1>14, <1>15 DEF DevInv

LEMMA DevInvariant == DevicesSpec => []DevInv
<1>1. DevicesInit => DevInv
  BY InitDevInv
<1>2. DevInv /\ [DevicesNext]_devVars => DevInv'
  BY StepCases
<1> QED BY <1>1, <1>2, PTL DEF DevicesSpec

(* When a thread runs, no interrupt of the disk or the console is overdue    *)
(* (Interrupt::OneTick, CheckIfDue and Idle).                                *)
THEOREM InterruptsOnTimeProved == DevicesSpec => []InterruptsOnTime
<1>1. DevInv => InterruptsOnTime
  BY DEF DevInv
<1> QED BY <1>1, DevInvariant, PTL

(* Interrupt::Idle halts the machine only when no device owes an answer and  *)
(* there is no console.                                                      *)
THEOREM HaltsOnlyWhenDoneProved == DevicesSpec => []HaltsOnlyWhenDone
<1>1. ASSUME DevInv PROVE HaltsOnlyWhenDone
  <2>1. SUFFICES ASSUME mode = "halted"
                 PROVE  ~disk.active /\ ~console.putBusy /\ ~HasConsole
    BY DEF HaltsOnlyWhenDone
  <2>2. pending \in Seq(Event)
    BY <1>1 DEF DevInv, DevTypeOK
  <2>3. \A i \in 1..Len(pending) : pending[i].type = "timer"
    BY <1>1, <2>1, <2>2 DEF DevInv, HaltedEmpty, OnlyTimer
  <2>4. ~Has(pending, "disk") /\ ~Has(pending, "consoleWrite") /\ ~HasConsole
    BY <2>2, <2>3 DEF Has, HasConsole
  <2> QED BY <1>1, <2>4 DEF DevInv, Owed
<1> QED BY <1>1, DevInvariant, PTL

-----------------------------------------------------------------------------
(* One request at a time.  A thread that uses a device is out of it, owns    *)
(* its lock, waits for its answer, or is at its end; lock and done are the   *)
(* values of the two semaphores.                                             *)
OneAtATime(at, lock, done, busy) ==
    /\ lock \in {0, 1}
    /\ \A t \in Thread : at[t] # "out" => lock = 0
    /\ \A t, u \in Thread : at[t] # "out" /\ at[u] # "out" => t = u
    /\ done = 0 \/ (done = 1 /\ ~busy)
    /\ busy \/ done # 0 => \E t \in Thread : at[t] = "wait"

AllStay(at, at2) == \A u \in Thread : at2[u] = at[u]
Moves(at, at2, x, y) ==
    \E t \in Thread : at[t] = x /\ at2[t] = y /\ \A u \in Thread \ {t} : at2[u] = at[u]

Turn(at, at2, lock, lock2, done, done2, busy, busy2) ==
    \/ AllStay(at, at2) /\ lock2 = lock /\ done2 = done /\ busy2 = busy
    \/ AllStay(at, at2) /\ lock2 = lock /\ done2 = done + 1 /\ busy /\ ~busy2
    \/ Moves(at, at2, "out", "owned") /\ lock > 0 /\ lock2 = lock - 1 /\ done2 = done /\ busy2 = busy
    \/ Moves(at, at2, "owned", "wait") /\ lock2 = lock /\ done2 = done /\ ~busy /\ busy2
    \/ Moves(at, at2, "wait", "end") /\ lock2 = lock /\ done > 0 /\ done2 = done - 1 /\ busy2 = busy
    \/ Moves(at, at2, "end", "out") /\ lock2 = lock + 1 /\ done2 = done /\ busy2 = busy
    \/ Moves(at, at2, "owned", "end") /\ lock2 = lock /\ done2 = done /\ busy2 = busy

LEMMA TurnKeeps ==
    ASSUME NEW at, NEW at2, NEW lock \in Nat, NEW lock2, NEW done \in Nat, NEW done2,
           NEW busy \in BOOLEAN, NEW busy2 \in BOOLEAN,
           OneAtATime(at, lock, done, busy),
           Turn(at, at2, lock, lock2, done, done2, busy, busy2)
    PROVE  OneAtATime(at2, lock2, done2, busy2)
<1>0. /\ lock \in {0, 1}
      /\ \A t \in Thread : at[t] # "out" => lock = 0
      /\ \A t, u \in Thread : at[t] # "out" /\ at[u] # "out" => t = u
      /\ done = 0 \/ (done = 1 /\ ~busy)
      /\ busy \/ done # 0 => \E t \in Thread : at[t] = "wait"
  BY DEF OneAtATime
<1>1. CASE AllStay(at, at2) /\ lock2 = lock /\ done2 = done /\ busy2 = busy
  BY <1>0, <1>1 DEF OneAtATime, AllStay
<1>2. CASE AllStay(at, at2) /\ lock2 = lock /\ done2 = done + 1 /\ busy /\ ~busy2
  BY <1>0, <1>2 DEF OneAtATime, AllStay
<1>3. CASE /\ Moves(at, at2, "out", "owned") /\ lock > 0 /\ lock2 = lock - 1
           /\ done2 = done /\ busy2 = busy
  <2>1. PICK t \in Thread : /\ at[t] = "out" /\ at2[t] = "owned"
                            /\ \A u \in Thread \ {t} : at2[u] = at[u]
    BY <1>3 DEF Moves
  <2>2. lock2 = 0 /\ \A u \in Thread : at[u] = "out"
    BY <1>0, <1>3
  <2>3. ~busy2 /\ done2 = 0
    BY <1>0, <1>3, <2>2
  <2>4. \A u \in Thread : at2[u] # "out" => u = t
    BY <2>1, <2>2
  <2> QED BY <2>2, <2>3, <2>4 DEF OneAtATime
<1>4. CASE Moves(at, at2, "owned", "wait") /\ lock2 = lock /\ done2 = done /\ ~busy /\ busy2
  <2>1. PICK t \in Thread : /\ at[t] = "owned" /\ at2[t] = "wait"
                            /\ \A u \in Thread \ {t} : at2[u] = at[u]
    BY <1>4 DEF Moves
  <2>2. lock = 0 /\ \A u \in Thread : at[u] # "out" => u = t
    BY <1>0, <2>1
  <2>3. done = 0
    BY <1>0, <2>1, <2>2
  <2>4. \A u \in Thread : at2[u] # "out" => u = t
    BY <2>1, <2>2
  <2> QED BY <1>4, <2>1, <2>2, <2>3, <2>4 DEF OneAtATime
<1>5. CASE /\ Moves(at, at2, "wait", "end") /\ lock2 = lock /\ done > 0 /\ done2 = done - 1
           /\ busy2 = busy
  <2>1. PICK t \in Thread : /\ at[t] = "wait" /\ at2[t] = "end"
                            /\ \A u \in Thread \ {t} : at2[u] = at[u]
    BY <1>5 DEF Moves
  <2>2. lock = 0 /\ \A u \in Thread : at[u] # "out" => u = t
    BY <1>0, <2>1
  <2>3. done2 = 0 /\ ~busy2
    BY <1>0, <1>5
  <2>4. \A u \in Thread : at2[u] # "out" => u = t
    BY <2>1, <2>2
  <2> QED BY <1>5, <2>2, <2>3, <2>4 DEF OneAtATime
<1>6. CASE Moves(at, at2, "end", "out") /\ lock2 = lock + 1 /\ done2 = done /\ busy2 = busy
  <2>1. PICK t \in Thread : /\ at[t] = "end" /\ at2[t] = "out"
                            /\ \A u \in Thread \ {t} : at2[u] = at[u]
    BY <1>6 DEF Moves
  <2>2. lock2 = 1 /\ \A u \in Thread : at[u] # "out" => u = t
    BY <1>0, <1>6, <2>1
  <2>3. done2 = 0 /\ ~busy2
    BY <1>0, <1>6, <2>1, <2>2
  <2>4. \A u \in Thread : at2[u] = "out"
    BY <2>1, <2>2
  <2> QED BY <2>2, <2>3, <2>4 DEF OneAtATime
<1>7. CASE Moves(at, at2, "owned", "end") /\ lock2 = lock /\ done2 = done /\ busy2 = busy
  <2>1. PICK t \in Thread : /\ at[t] = "owned" /\ at2[t] = "end"
                            /\ \A u \in Thread \ {t} : at2[u] = at[u]
    BY <1>7 DEF Moves
  <2>2. lock = 0 /\ \A u \in Thread : at[u] # "out" => u = t
    BY <1>0, <2>1
  <2>3. done2 = 0 /\ ~busy2
    BY <1>0, <1>7, <2>1, <2>2
  <2>4. \A u \in Thread : at2[u] # "out" => u = t
    BY <2>1, <2>2
  <2> QED BY <1>7, <2>2, <2>3, <2>4 DEF OneAtATime
<1> QED BY <1>1, <1>2, <1>3, <1>4, <1>5, <1>6, <1>7 DEF Turn

(* Where an operation stands. *)
DiskStage(q) == IF q \in DiskOwned THEN "owned" ELSE IF q \in DiskWait THEN "wait"
                ELSE IF q \in DiskEnd THEN "end" ELSE "out"
PutStage(q)  == IF q \in PutOwned THEN "owned" ELSE IF q \in PutWait THEN "wait"
                ELSE IF q \in PutEnd THEN "end" ELSE "out"
GetStage(q)  == IF q \in GetWait \cup GetOwned THEN "owned"
                ELSE IF q \in GetEnd THEN "end" ELSE "out"

LEMMA DiskStages ==
    /\ \A q \in DiskOwned : DiskStage(q) = "owned"
    /\ \A q \in DiskWait : DiskStage(q) = "wait"
    /\ \A q \in DiskEnd : DiskStage(q) = "end"
    /\ \A q \in DiskBegin : DiskStage(q) = "out"
    /\ \A q \in PutBegin \cup PutOwned \cup PutWait \cup PutEnd : DiskStage(q) = "out"
    /\ \A q \in GetBegin \cup GetWait \cup GetOwned \cup GetEnd : DiskStage(q) = "out"
    /\ DiskStage(<<>>) = "out"
BY Apart DEF DiskStage

LEMMA PutStages ==
    /\ \A q \in PutOwned : PutStage(q) = "owned"
    /\ \A q \in PutWait : PutStage(q) = "wait"
    /\ \A q \in PutEnd : PutStage(q) = "end"
    /\ \A q \in PutBegin : PutStage(q) = "out"
    /\ \A q \in DiskBegin \cup DiskOwned \cup DiskWait \cup DiskEnd : PutStage(q) = "out"
    /\ \A q \in GetBegin \cup GetWait \cup GetOwned \cup GetEnd : PutStage(q) = "out"
    /\ PutStage(<<>>) = "out"
BY Apart DEF PutStage

LEMMA GetStages ==
    /\ \A q \in GetWait \cup GetOwned : GetStage(q) = "owned"
    /\ \A q \in GetEnd : GetStage(q) = "end"
    /\ \A q \in GetBegin : GetStage(q) = "out"
    /\ \A q \in DiskBegin \cup DiskOwned \cup DiskWait \cup DiskEnd : GetStage(q) = "out"
    /\ \A q \in PutBegin \cup PutOwned \cup PutWait \cup PutEnd : GetStage(q) = "out"
    /\ GetStage(<<>>) = "out"
BY Apart DEF GetStage

(* The steps of threads, by the classes of their operations. *)

LEMMA TakeCases ==
    ASSUME NEW t \in Thread, Takes(t)
    PROVE  \E s \in Semaphore :
              /\ sem[s].value > 0 /\ sem'[s].value = sem[s].value - 1 /\ SameValues({s})
              /\ \/ s = "diskLock" /\ Body(t) \in DiskBegin /\ Body(t)' \in DiskOwned
                 \/ s = "diskDone" /\ Body(t) \in DiskWait /\ Body(t)' \in DiskEnd
                 \/ s = "writeLock" /\ Body(t) \in PutBegin /\ Body(t)' \in PutOwned
                 \/ s = "writeDone" /\ Body(t) \in PutWait /\ Body(t)' \in PutEnd
                 \/ s = "readLock" /\ Body(t) \in GetBegin /\ Body(t)' \in GetWait
                 \/ s = "readAvail" /\ Body(t) \in GetWait /\ Body(t)' \in GetOwned
<1>1. PICK s \in Semaphore : /\ s = Head(Body(t)).sem /\ sem[s].value > 0
                             /\ sem'[s].value = sem[s].value - 1 /\ SameValues({s})
  BY DEF Takes
<1>2. /\ Body(t) \in Program /\ Body(t) # <<>> /\ Head(Body(t)).do = "P"
      /\ Body(t)' = Tail(Body(t))
  BY DEF Takes, Steps
<1>3. /\ s = "diskLock" => Body(t) \in DiskBegin
      /\ s = "diskDone" => Body(t) \in DiskWait
      /\ s = "writeLock" => Body(t) \in PutBegin
      /\ s = "writeDone" => Body(t) \in PutWait
      /\ s = "readLock" => Body(t) \in GetBegin
      /\ s = "readAvail" => Body(t) \in GetWait
  BY <1>1, <1>2, ByFirst
<1>4. s \in {"diskLock", "diskDone", "readLock", "readAvail", "writeLock", "writeDone"}
  BY DEF Semaphore
<1>5. /\ Body(t) \in DiskBegin => Body(t)' \in DiskOwned
      /\ Body(t) \in DiskWait => Body(t)' \in DiskEnd
  BY <1>2, DiskPrograms
<1>6. /\ Body(t) \in PutBegin => Body(t)' \in PutOwned
      /\ Body(t) \in PutWait => Body(t)' \in PutEnd
  BY <1>2, PutPrograms
<1>7. /\ Body(t) \in GetBegin => Body(t)' \in GetWait
      /\ Body(t) \in GetWait => Body(t)' \in GetOwned
  BY <1>2, GetPrograms
<1> QED BY <1>1, <1>3, <1>4, <1>5, <1>6, <1>7

LEMMA GiveCases ==
    ASSUME NEW t \in Thread, Gives(t)
    PROVE  \E s \in Semaphore :
              /\ sem'[s].value = sem[s].value + 1 /\ SameValues({s}) /\ Body(t)' = <<>>
              /\ \/ s = "diskLock" /\ Body(t) \in DiskEnd
                 \/ s = "writeLock" /\ Body(t) \in PutEnd
                 \/ s = "readLock" /\ Body(t) \in GetEnd
<1>1. PICK s \in Semaphore : /\ s = Head(Body(t)).sem
                             /\ sem'[s].value = sem[s].value + 1 /\ SameValues({s})
  BY DEF Gives
<1>2. /\ Body(t) \in Program /\ Body(t) # <<>> /\ Head(Body(t)).do = "V"
      /\ Body(t)' = Tail(Body(t))
  BY DEF Gives, Steps
<1>3. /\ s \in {"diskLock", "writeLock", "readLock"}
      /\ s = "diskLock" => Body(t) \in DiskEnd
      /\ s = "writeLock" => Body(t) \in PutEnd
      /\ s = "readLock" => Body(t) \in GetEnd
  BY <1>1, <1>2, ByFirst
<1> QED BY <1>1, <1>2, <1>3, DiskPrograms, PutPrograms, GetPrograms

LEMMA GetClasses ==
    ASSUME NEW t \in Thread, Gets(t)
    PROVE  Body(t) \in GetOwned /\ Body(t)' \in GetWait \cup GetEnd /\ SameBodies({t})
<1>1. PICK i, n \in Nat :
         /\ Body(t) = GetAt(i, n) /\ SameBodies({t})
         /\ Body(t)' = NextGet(i + 1, n) \/ Body(t)' \in GetEnd
  BY DEF Gets
<1>2. GetAt(i, n) \in GetOwned
  BY DEF GetAt, GetOwned
<1>3. NextGet(i + 1, n) \in GetWait
  BY DEF NextGet, GetWait
<1> QED BY <1>1, <1>2, <1>3

Value(s) == sem[s].value
DiskAt == [t \in Thread |-> DiskStage(Body(t))]
PutAt  == [t \in Thread |-> PutStage(Body(t))]
ReadAt == [t \in Thread |-> GetStage(Body(t))]

DiskInv == OneAtATime(DiskAt, Value("diskLock"), Value("diskDone"), disk.active)
PutInv  == OneAtATime(PutAt, Value("writeLock"), Value("writeDone"), console.putBusy)
GetInv  == OneAtATime(ReadAt, Value("readLock"), 0, FALSE)

LEMMA ValuesKept ==
    ASSUME DevTypeOK
    PROVE  \A s \in Semaphore : Value(s) \in Nat
<1> TAKE s \in Semaphore
<1>1. sem[s] \in SemState
  BY DEF DevTypeOK
<1> QED BY <1>1 DEF SemState, Value

DiskTurn == Turn(DiskAt, DiskAt', Value("diskLock"), Value("diskLock")', Value("diskDone"),
                 Value("diskDone")', disk.active, disk'.active)

LEMMA DiskTurns ==
    ASSUME DevTypeOK, StepKinds
    PROVE  DiskTurn
<1> USE DiskStages
<1>0. "diskLock" \in Semaphore /\ "diskDone" \in Semaphore
  BY DEF Semaphore
<1>s. /\ SameBodies({}) => AllStay(DiskAt, DiskAt')
      /\ \A t \in Thread : SameBodies({t}) =>
            /\ DiskAt'[t] = DiskStage(Body(t)') /\ DiskAt[t] = DiskStage(Body(t))
            /\ \A u \in Thread \ {t} : DiskAt'[u] = DiskAt[u]
  BY DEF SameBodies, AllStay, DiskAt
<1>b. \A t \in Thread : /\ SameBodies({t}) /\ DiskStage(Body(t)) = DiskStage(Body(t)')
                        => AllStay(DiskAt, DiskAt')
  BY <1>s DEF AllStay
<1>c. \A t \in Thread : \A x, y :
         SameBodies({t}) /\ DiskStage(Body(t)) = x /\ DiskStage(Body(t)') = y
           => Moves(DiskAt, DiskAt', x, y)
  BY <1>s DEF Moves
<1>1. CASE Still \/ PutAnswers \/ Polls
  BY <1>0, <1>1, <1>s DEF Still, PutAnswers, Polls, SameValues, Value, DiskTurn, Turn
<1>2. CASE DiskAnswers
  <2>1. disk.active /\ disk'.active = FALSE
    BY <1>2 DEF DiskAnswers, DevTypeOK, DiskState
  <2> QED BY <1>0, <1>2, <1>s, <2>1 DEF DiskAnswers, SameValues, Value, DiskTurn, Turn
<1>3. ASSUME NEW t \in Thread, Takes(t) PROVE DiskTurn
  <2>0. SameBodies({t}) /\ UNCHANGED disk
    BY <1>3 DEF Takes, Steps
  <2>1. PICK s \in Semaphore :
              /\ sem[s].value > 0 /\ sem'[s].value = sem[s].value - 1 /\ SameValues({s})
              /\ \/ s = "diskLock" /\ Body(t) \in DiskBegin /\ Body(t)' \in DiskOwned
                 \/ s = "diskDone" /\ Body(t) \in DiskWait /\ Body(t)' \in DiskEnd
                 \/ s = "writeLock" /\ Body(t) \in PutBegin /\ Body(t)' \in PutOwned
                 \/ s = "writeDone" /\ Body(t) \in PutWait /\ Body(t)' \in PutEnd
                 \/ s = "readLock" /\ Body(t) \in GetBegin /\ Body(t)' \in GetWait
                 \/ s = "readAvail" /\ Body(t) \in GetWait /\ Body(t)' \in GetOwned
    BY <1>3, TakeCases
  <2>2. CASE s = "diskLock"
    <3>1. Moves(DiskAt, DiskAt', "out", "owned")
      BY <1>c, <2>0, <2>1, <2>2
    <3> QED BY <1>0, <2>0, <2>1, <2>2, <3>1 DEF SameValues, Value, DiskTurn, Turn
  <2>3. CASE s = "diskDone"
    <3>1. Moves(DiskAt, DiskAt', "wait", "end")
      BY <1>c, <2>0, <2>1, <2>3
    <3> QED BY <1>0, <2>0, <2>1, <2>3, <3>1 DEF SameValues, Value, DiskTurn, Turn
  <2>4. CASE s \notin {"diskLock", "diskDone"}
    <3>1. AllStay(DiskAt, DiskAt')
      BY <1>b, <2>0, <2>1, <2>4
    <3> QED BY <1>0, <2>0, <2>1, <2>4, <3>1 DEF SameValues, Value, DiskTurn, Turn
  <2> QED BY <2>2, <2>3, <2>4
<1>4. ASSUME NEW t \in Thread, Gives(t) PROVE DiskTurn
  <2>0. SameBodies({t}) /\ UNCHANGED disk
    BY <1>4 DEF Gives, Steps
  <2>1. PICK s \in Semaphore :
              /\ sem'[s].value = sem[s].value + 1 /\ SameValues({s}) /\ Body(t)' = <<>>
              /\ \/ s = "diskLock" /\ Body(t) \in DiskEnd
                 \/ s = "writeLock" /\ Body(t) \in PutEnd
                 \/ s = "readLock" /\ Body(t) \in GetEnd
    BY <1>4, GiveCases
  <2>2. CASE s = "diskLock"
    <3>1. Moves(DiskAt, DiskAt', "end", "out")
      BY <1>c, <2>0, <2>1, <2>2
    <3> QED BY <1>0, <2>0, <2>1, <2>2, <3>1 DEF SameValues, Value, DiskTurn, Turn
  <2>3. CASE s # "diskLock"
    <3>1. AllStay(DiskAt, DiskAt')
      BY <1>b, <2>0, <2>1, <2>3
    <3> QED BY <1>0, <2>0, <2>1, <2>3, <3>1 DEF SameValues, Value, DiskTurn, Turn
  <2> QED BY <2>2, <2>3
<1>5. ASSUME NEW t \in Thread, Requests(t) PROVE DiskTurn
  <2>1. Body(t) \in DiskOwned /\ Body(t)' \in DiskWait /\ SameBodies({t})
    BY <1>5, ByFirst, DiskPrograms DEF Requests, Steps
  <2>2. Moves(DiskAt, DiskAt', "owned", "wait")
    BY <1>c, <2>1
  <2> QED BY <1>0, <1>5, <2>2 DEF Requests, SameValues, Value, DiskTurn, Turn
<1>6. ASSUME NEW t \in Thread, Puts(t) PROVE DiskTurn
  <2>1. Body(t) \in PutOwned /\ Body(t)' \in PutWait /\ SameBodies({t})
    BY <1>6, ByFirst, PutPrograms DEF Puts, Steps
  <2>2. AllStay(DiskAt, DiskAt')
    BY <1>b, <2>1
  <2> QED BY <1>0, <1>6, <2>2 DEF Puts, SameValues, Value, DiskTurn, Turn
<1>7. ASSUME NEW t \in Thread, Gets(t) PROVE DiskTurn
  <2>1. Body(t) \in GetOwned /\ Body(t)' \in GetWait \cup GetEnd /\ SameBodies({t})
    BY <1>7, GetClasses
  <2>2. AllStay(DiskAt, DiskAt')
    BY <1>b, <2>1
  <2> QED BY <1>0, <1>7, <2>2 DEF Gets, SameValues, Value, DiskTurn, Turn
<1>8. ASSUME NEW t \in Thread, Begun(t) PROVE DiskTurn
  <2>1. AllStay(DiskAt, DiskAt')
    BY <1>8, <1>b DEF Begun
  <2> QED BY <1>0, <1>8, <2>1 DEF Begun, SameValues, Value, DiskTurn, Turn
<1> QED BY <1>1, <1>2, <1>3, <1>4, <1>5, <1>6, <1>7, <1>8 DEF StepKinds

PutTurn == Turn(PutAt, PutAt', Value("writeLock"), Value("writeLock")', Value("writeDone"),
                 Value("writeDone")', console.putBusy, console'.putBusy)

LEMMA PutTurns ==
    ASSUME DevTypeOK, StepKinds
    PROVE  PutTurn
<1> USE PutStages
<1>0. "writeLock" \in Semaphore /\ "writeDone" \in Semaphore
  BY DEF Semaphore
<1>s. /\ SameBodies({}) => AllStay(PutAt, PutAt')
      /\ \A t \in Thread : SameBodies({t}) =>
            /\ PutAt'[t] = PutStage(Body(t)') /\ PutAt[t] = PutStage(Body(t))
            /\ \A u \in Thread \ {t} : PutAt'[u] = PutAt[u]
  BY DEF SameBodies, AllStay, PutAt
<1>b. \A t \in Thread : /\ SameBodies({t}) /\ PutStage(Body(t)) = PutStage(Body(t)')
                        => AllStay(PutAt, PutAt')
  BY <1>s DEF AllStay
<1>c. \A t \in Thread : \A x, y :
         SameBodies({t}) /\ PutStage(Body(t)) = x /\ PutStage(Body(t)') = y
           => Moves(PutAt, PutAt', x, y)
  BY <1>s DEF Moves
<1>1. CASE Still \/ DiskAnswers
  BY <1>0, <1>1, <1>s DEF Still, DiskAnswers, SameValues, Value, PutTurn, Turn
<1>2. CASE PutAnswers
  <2>1. console.putBusy /\ console'.putBusy = FALSE
    BY <1>2 DEF PutAnswers, DevTypeOK, ConsoleState
  <2> QED BY <1>0, <1>2, <1>s, <2>1 DEF PutAnswers, SameValues, Value, PutTurn, Turn
<1>3. ASSUME NEW t \in Thread, Takes(t) PROVE PutTurn
  <2>0. SameBodies({t}) /\ UNCHANGED console
    BY <1>3 DEF Takes, Steps
  <2>1. PICK s \in Semaphore :
              /\ sem[s].value > 0 /\ sem'[s].value = sem[s].value - 1 /\ SameValues({s})
              /\ \/ s = "diskLock" /\ Body(t) \in DiskBegin /\ Body(t)' \in DiskOwned
                 \/ s = "diskDone" /\ Body(t) \in DiskWait /\ Body(t)' \in DiskEnd
                 \/ s = "writeLock" /\ Body(t) \in PutBegin /\ Body(t)' \in PutOwned
                 \/ s = "writeDone" /\ Body(t) \in PutWait /\ Body(t)' \in PutEnd
                 \/ s = "readLock" /\ Body(t) \in GetBegin /\ Body(t)' \in GetWait
                 \/ s = "readAvail" /\ Body(t) \in GetWait /\ Body(t)' \in GetOwned
    BY <1>3, TakeCases
  <2>2. CASE s = "writeLock"
    <3>1. Moves(PutAt, PutAt', "out", "owned")
      BY <1>c, <2>0, <2>1, <2>2
    <3> QED BY <1>0, <2>0, <2>1, <2>2, <3>1 DEF SameValues, Value, PutTurn, Turn
  <2>3. CASE s = "writeDone"
    <3>1. Moves(PutAt, PutAt', "wait", "end")
      BY <1>c, <2>0, <2>1, <2>3
    <3> QED BY <1>0, <2>0, <2>1, <2>3, <3>1 DEF SameValues, Value, PutTurn, Turn
  <2>4. CASE s \notin {"writeLock", "writeDone"}
    <3>1. AllStay(PutAt, PutAt')
      BY <1>b, <2>0, <2>1, <2>4
    <3> QED BY <1>0, <2>0, <2>1, <2>4, <3>1 DEF SameValues, Value, PutTurn, Turn
  <2> QED BY <2>2, <2>3, <2>4
<1>4. ASSUME NEW t \in Thread, Gives(t) PROVE PutTurn
  <2>0. SameBodies({t}) /\ UNCHANGED console
    BY <1>4 DEF Gives, Steps
  <2>1. PICK s \in Semaphore :
              /\ sem'[s].value = sem[s].value + 1 /\ SameValues({s}) /\ Body(t)' = <<>>
              /\ \/ s = "diskLock" /\ Body(t) \in DiskEnd
                 \/ s = "writeLock" /\ Body(t) \in PutEnd
                 \/ s = "readLock" /\ Body(t) \in GetEnd
    BY <1>4, GiveCases
  <2>2. CASE s = "writeLock"
    <3>1. Moves(PutAt, PutAt', "end", "out")
      BY <1>c, <2>0, <2>1, <2>2
    <3> QED BY <1>0, <2>0, <2>1, <2>2, <3>1 DEF SameValues, Value, PutTurn, Turn
  <2>3. CASE s # "writeLock"
    <3>1. AllStay(PutAt, PutAt')
      BY <1>b, <2>0, <2>1, <2>3
    <3> QED BY <1>0, <2>0, <2>1, <2>3, <3>1 DEF SameValues, Value, PutTurn, Turn
  <2> QED BY <2>2, <2>3
<1>5. ASSUME NEW t \in Thread, Requests(t) PROVE PutTurn
  <2>1. Body(t) \in DiskOwned /\ Body(t)' \in DiskWait /\ SameBodies({t})
    BY <1>5, ByFirst, DiskPrograms DEF Requests, Steps
  <2>2. AllStay(PutAt, PutAt')
    BY <1>b, <2>1
  <2> QED BY <1>0, <1>5, <2>2 DEF Requests, SameValues, Value, PutTurn, Turn
<1>6. ASSUME NEW t \in Thread, Puts(t) PROVE PutTurn
  <2>1. Body(t) \in PutOwned /\ Body(t)' \in PutWait /\ SameBodies({t})
    BY <1>6, ByFirst, PutPrograms DEF Puts, Steps
  <2>2. Moves(PutAt, PutAt', "owned", "wait")
    BY <1>c, <2>1
  <2>3. ~console.putBusy /\ console'.putBusy = TRUE
    BY <1>6 DEF Puts, DevTypeOK, ConsoleState
  <2> QED BY <1>0, <1>6, <2>2, <2>3 DEF Puts, SameValues, Value, PutTurn, Turn
<1>7. ASSUME NEW t \in Thread, Gets(t) PROVE PutTurn
  <2>1. Body(t) \in GetOwned /\ Body(t)' \in GetWait \cup GetEnd /\ SameBodies({t})
    BY <1>7, GetClasses
  <2>2. AllStay(PutAt, PutAt')
    BY <1>b, <2>1
  <2>3. console'.putBusy = console.putBusy
    <3>1. console \in ConsoleState
      BY DEF DevTypeOK
    <3>2. PICK k : console' = [console EXCEPT !.incoming = "eof", !.taken = k]
      BY <1>7 DEF Gets
    <3> QED BY <3>1, <3>2 DEF ConsoleState
  <2>4. SameValues({})
    BY <1>7 DEF Gets
  <2> QED BY <1>0, <2>2, <2>3, <2>4 DEF SameValues, Value, PutTurn, Turn
<1>8. ASSUME NEW t \in Thread, Begun(t) PROVE PutTurn
  <2>1. AllStay(PutAt, PutAt')
    BY <1>8, <1>b DEF Begun
  <2> QED BY <1>0, <1>8, <2>1 DEF Begun, SameValues, Value, PutTurn, Turn
<1>9. CASE Polls
  <2>1. console'.putBusy = console.putBusy
    <3>1. console \in ConsoleState
      BY DEF DevTypeOK
    <3>2. PICK c, k : console' = [console EXCEPT !.incoming = c, !.polled = k]
      BY <1>9 DEF Polls
    <3> QED BY <3>1, <3>2 DEF ConsoleState
  <2>2. SameBodies({}) /\ SameValues({"readAvail"})
    BY <1>9 DEF Polls
  <2> QED BY <1>0, <1>s, <2>1, <2>2 DEF SameValues, Value, PutTurn, Turn
<1> QED BY <1>1, <1>2, <1>3, <1>4, <1>5, <1>6, <1>7, <1>8, <1>9 DEF StepKinds

ReadTurn == Turn(ReadAt, ReadAt', Value("readLock"), Value("readLock")', 0, 0, FALSE, FALSE)

LEMMA ReadTurns ==
    ASSUME DevTypeOK, StepKinds
    PROVE  ReadTurn
<1> USE GetStages
<1>0. "readLock" \in Semaphore
  BY DEF Semaphore
<1>s. /\ SameBodies({}) => AllStay(ReadAt, ReadAt')
      /\ \A t \in Thread : SameBodies({t}) =>
            /\ ReadAt'[t] = GetStage(Body(t)') /\ ReadAt[t] = GetStage(Body(t))
            /\ \A u \in Thread \ {t} : ReadAt'[u] = ReadAt[u]
  BY DEF SameBodies, AllStay, ReadAt
<1>b. \A t \in Thread : /\ SameBodies({t}) /\ GetStage(Body(t)) = GetStage(Body(t)')
                        => AllStay(ReadAt, ReadAt')
  BY <1>s DEF AllStay
<1>c. \A t \in Thread : \A x, y :
         SameBodies({t}) /\ GetStage(Body(t)) = x /\ GetStage(Body(t)') = y
           => Moves(ReadAt, ReadAt', x, y)
  BY <1>s DEF Moves
<1>d. AllStay(ReadAt, ReadAt') /\ Value("readLock")' = Value("readLock") => ReadTurn
  BY DEF ReadTurn, Turn
<1>1. CASE Still \/ DiskAnswers \/ PutAnswers \/ Polls
  BY <1>0, <1>1, <1>s, <1>d DEF Still, DiskAnswers, PutAnswers, Polls, SameValues, Value
<1>2. ASSUME NEW t \in Thread, Takes(t) PROVE ReadTurn
  <2>0. SameBodies({t})
    BY <1>2 DEF Takes, Steps
  <2>1. PICK s \in Semaphore :
              /\ sem[s].value > 0 /\ sem'[s].value = sem[s].value - 1 /\ SameValues({s})
              /\ \/ s = "diskLock" /\ Body(t) \in DiskBegin /\ Body(t)' \in DiskOwned
                 \/ s = "diskDone" /\ Body(t) \in DiskWait /\ Body(t)' \in DiskEnd
                 \/ s = "writeLock" /\ Body(t) \in PutBegin /\ Body(t)' \in PutOwned
                 \/ s = "writeDone" /\ Body(t) \in PutWait /\ Body(t)' \in PutEnd
                 \/ s = "readLock" /\ Body(t) \in GetBegin /\ Body(t)' \in GetWait
                 \/ s = "readAvail" /\ Body(t) \in GetWait /\ Body(t)' \in GetOwned
    BY <1>2, TakeCases
  <2>2. CASE s = "readLock"
    <3>1. Moves(ReadAt, ReadAt', "out", "owned")
      BY <1>c, <2>0, <2>1, <2>2
    <3> QED BY <2>1, <2>2, <3>1 DEF Value, ReadTurn, Turn
  <2>3. CASE s # "readLock"
    <3>1. AllStay(ReadAt, ReadAt')
      BY <1>b, <2>0, <2>1, <2>3
    <3> QED BY <1>0, <1>d, <2>1, <2>3, <3>1 DEF SameValues, Value
  <2> QED BY <2>2, <2>3
<1>3. ASSUME NEW t \in Thread, Gives(t) PROVE ReadTurn
  <2>0. SameBodies({t})
    BY <1>3 DEF Gives, Steps
  <2>1. PICK s \in Semaphore :
              /\ sem'[s].value = sem[s].value + 1 /\ SameValues({s}) /\ Body(t)' = <<>>
              /\ \/ s = "diskLock" /\ Body(t) \in DiskEnd
                 \/ s = "writeLock" /\ Body(t) \in PutEnd
                 \/ s = "readLock" /\ Body(t) \in GetEnd
    BY <1>3, GiveCases
  <2>2. CASE s = "readLock"
    <3>1. Moves(ReadAt, ReadAt', "end", "out")
      BY <1>c, <2>0, <2>1, <2>2
    <3> QED BY <2>1, <2>2, <3>1 DEF Value, ReadTurn, Turn
  <2>3. CASE s # "readLock"
    <3>1. AllStay(ReadAt, ReadAt')
      BY <1>b, <2>0, <2>1, <2>3
    <3> QED BY <1>0, <1>d, <2>1, <2>3, <3>1 DEF SameValues, Value
  <2> QED BY <2>2, <2>3
<1>4. ASSUME NEW t \in Thread, Requests(t) PROVE ReadTurn
  <2>1. Body(t) \in DiskOwned /\ Body(t)' \in DiskWait /\ SameBodies({t})
    BY <1>4, ByFirst, DiskPrograms DEF Requests, Steps
  <2>2. AllStay(ReadAt, ReadAt')
    BY <1>b, <2>1
  <2> QED BY <1>0, <1>4, <1>d, <2>2 DEF Requests, SameValues, Value
<1>5. ASSUME NEW t \in Thread, Puts(t) PROVE ReadTurn
  <2>1. Body(t) \in PutOwned /\ Body(t)' \in PutWait /\ SameBodies({t})
    BY <1>5, ByFirst, PutPrograms DEF Puts, Steps
  <2>2. AllStay(ReadAt, ReadAt')
    BY <1>b, <2>1
  <2> QED BY <1>0, <1>5, <1>d, <2>2 DEF Puts, SameValues, Value
<1>6. ASSUME NEW t \in Thread, Gets(t) PROVE ReadTurn
  <2>1. Body(t) \in GetOwned /\ Body(t)' \in GetWait \cup GetEnd /\ SameBodies({t})
    BY <1>6, GetClasses
  <2>2. Value("readLock")' = Value("readLock")
    BY <1>0, <1>6 DEF Gets, SameValues, Value
  <2>3. CASE Body(t)' \in GetWait
    BY <1>b, <1>d, <2>1, <2>2, <2>3
  <2>4. CASE Body(t)' \in GetEnd
    <3>1. Moves(ReadAt, ReadAt', "owned", "end")
      BY <1>c, <2>1, <2>4
    <3> QED BY <2>2, <3>1 DEF ReadTurn, Turn
  <2> QED BY <2>1, <2>3, <2>4
<1>7. ASSUME NEW t \in Thread, Begun(t) PROVE ReadTurn
  <2>1. AllStay(ReadAt, ReadAt')
    BY <1>7, <1>b DEF Begun
  <2> QED BY <1>0, <1>7, <1>d, <2>1 DEF Begun, SameValues, Value
<1> QED BY <1>1, <1>2, <1>3, <1>4, <1>5, <1>6, <1>7 DEF StepKinds

UseInv == DevInv /\ DiskInv /\ PutInv /\ GetInv

LEMMA InitUseInv ==
    ASSUME DevicesInit
    PROVE  UseInv
<1>1. /\ DevInv /\ \A t \in Thread : Body(t) = <<>>
      /\ \A s \in Semaphore :
            sem[s].value = IF s \in {"diskLock", "readLock", "writeLock"} THEN 1 ELSE 0
  BY InitDevInv
<1>2. /\ Value("diskLock") = 1 /\ Value("writeLock") = 1 /\ Value("readLock") = 1
      /\ Value("diskDone") = 0 /\ Value("writeDone") = 0
  BY <1>1 DEF Value, Semaphore
<1>3. \A t \in Thread : DiskAt[t] = "out" /\ PutAt[t] = "out" /\ ReadAt[t] = "out"
  BY <1>1, DiskStages, PutStages, GetStages DEF DiskAt, PutAt, ReadAt
<1>4. disk.active = FALSE /\ console.putBusy = FALSE
  BY DEF DevicesInit, NewDisk, NewConsole
<1> QED BY <1>1, <1>2, <1>3, <1>4 DEF UseInv, DiskInv, PutInv, GetInv, OneAtATime

LEMMA StepUseInv ==
    ASSUME UseInv, [DevicesNext]_devVars
    PROVE  UseInv' /\ StepKinds
<1>1. DevInv' /\ StepKinds
  BY StepCases DEF UseInv
<1>2. DevTypeOK /\ DevTypeOK'
  BY <1>1 DEF UseInv, DevInv
<1>3. \A s \in Semaphore : Value(s) \in Nat
  BY <1>2, ValuesKept
<1>4. /\ disk.active \in BOOLEAN /\ disk'.active \in BOOLEAN
      /\ console.putBusy \in BOOLEAN /\ console'.putBusy \in BOOLEAN
  BY <1>2 DEF DevTypeOK, DiskState, ConsoleState
<1>5. DiskInv'
  <2>1. DiskTurn /\ OneAtATime(DiskAt, Value("diskLock"), Value("diskDone"), disk.active)
    BY <1>1, <1>2, DiskTurns DEF UseInv, DiskInv
  <2>2. Value("diskLock") \in Nat /\ Value("diskDone") \in Nat
    BY <1>3 DEF Semaphore
  <2>3. OneAtATime(DiskAt', Value("diskLock")', Value("diskDone")', disk'.active)
    BY <1>4, <2>1, <2>2, TurnKeeps DEF DiskTurn
  <2> QED BY <2>3 DEF DiskInv, OneAtATime
<1>6. PutInv'
  <2>1. PutTurn /\ OneAtATime(PutAt, Value("writeLock"), Value("writeDone"), console.putBusy)
    BY <1>1, <1>2, PutTurns DEF UseInv, PutInv
  <2>2. Value("writeLock") \in Nat /\ Value("writeDone") \in Nat
    BY <1>3 DEF Semaphore
  <2>3. OneAtATime(PutAt', Value("writeLock")', Value("writeDone")', console'.putBusy)
    BY <1>4, <2>1, <2>2, TurnKeeps DEF PutTurn
  <2> QED BY <2>3 DEF PutInv, OneAtATime
<1>7. GetInv'
  <2>1. ReadTurn /\ OneAtATime(ReadAt, Value("readLock"), 0, FALSE)
    BY <1>1, <1>2, ReadTurns DEF UseInv, GetInv
  <2>2. Value("readLock") \in Nat /\ 0 \in Nat /\ FALSE \in BOOLEAN
    BY <1>3 DEF Semaphore
  <2>3. OneAtATime(ReadAt', Value("readLock")', 0, FALSE)
    BY <2>1, <2>2, TurnKeeps DEF ReadTurn
  <2> QED BY <2>3 DEF GetInv, OneAtATime
<1> QED BY <1>1, <1>5, <1>6, <1>7 DEF UseInv

LEMMA UseInvariant == DevicesSpec => []UseInv
<1>1. DevicesInit => UseInv
  BY InitUseInv
<1>2. UseInv /\ [DevicesNext]_devVars => UseInv'
  BY StepUseInv
<1> QED BY <1>1, <1>2, PTL DEF DevicesSpec

(* In the states "owned" and "end" the device is not busy. *)
LEMMA NotBusy ==
    ASSUME NEW at, NEW lock, NEW done, NEW busy \in BOOLEAN, OneAtATime(at, lock, done, busy),
           NEW t \in Thread, at[t] \in {"owned", "end"}
    PROVE  ~busy
BY DEF OneAtATime

(* The requests to the disk and to the display never overlap: SynchDisk and  *)
(* SynchConsole make the next request only when the device is done with the  *)
(* one before, and a thread is past its wait only then.                      *)
THEOREM OneRequestAtATimeProved == DevicesSpec => []OneRequestAtATime
<1>1. ASSUME UseInv PROVE OneRequestAtATime
  <2>0. DevTypeOK /\ DiskInv /\ PutInv
    BY <1>1 DEF UseInv, DevInv
  <2>1. disk.active \in BOOLEAN /\ console.putBusy \in BOOLEAN /\ todo \in [Thread -> Todo]
    BY <2>0 DEF DevTypeOK, DiskState, ConsoleState
  <2>2. ASSUME NEW t \in Thread, Body(t) \in DiskOwned \cup DiskEnd PROVE ~disk.active
    <3>1. DiskAt[t] \in {"owned", "end"}
      BY <2>2, DiskStages DEF DiskAt
    <3> QED BY <2>0, <2>1, <3>1, NotBusy DEF DiskInv
  <2>3. ASSUME NEW t \in Thread, Body(t) \in PutOwned \cup PutEnd PROVE ~console.putBusy
    <3>1. PutAt[t] \in {"owned", "end"}
      BY <2>3, PutStages DEF PutAt
    <3> QED BY <2>0, <2>1, <3>1, NotBusy DEF PutInv
  <2>4. ASSUME NEW t \in Thread, todo[t] # <<>>
        PROVE  /\ Head(todo[t]).do = "disk" => Body(t) \in DiskOwned
               /\ Head(todo[t]).do = "put" => Body(t) \in PutOwned
               /\ Head(todo[t]).do = "V" =>
                     /\ Head(todo[t]).sem = "diskLock" => Body(t) \in DiskEnd
                     /\ Head(todo[t]).sem = "writeLock" => Body(t) \in PutEnd
    <3>1. Head(todo[t]).do # "tick" => todo[t] \in Program /\ Body(t) = todo[t]
      BY <2>1, <2>4, BodyFacts
    <3> QED BY <2>4, <3>1, ByFirst
  <2> QED BY <2>2, <2>3, <2>4 DEF OneRequestAtATime, Does
<1> QED BY <1>1, UseInvariant, PTL

-----------------------------------------------------------------------------
(* The characters that were typed. *)

(* The operation q is at character i of its string. *)
AtChar(q, i) == \E n \in Nat : q = GetAt(i, n) \/ q = NextGet(i, n)

LEMMA GetParts ==
    ASSUME NEW i \in Nat, NEW n \in Nat
    PROVE  /\ GetAt(i, n) \in GetOwned /\ NextGet(i, n) \in GetWait
           /\ Head(GetAt(i, n)).i = i /\ Head(Tail(NextGet(i, n))).i = i
           /\ Tail(NextGet(i, n)) = GetAt(i, n)
<1>1. GetAt(i, n) \in GetOwned /\ NextGet(i, n) \in GetWait
  BY DEF GetAt, NextGet, GetOwned, GetWait
<1>2. Get(i, n).i = i
  BY DEF Get
<1>3. PICK g : g = Get(i, n)
  OBVIOUS
<1>4. Head(GetAt(i, n)) = g
  BY <1>3 DEF GetAt
<1>5. Tail(NextGet(i, n)) = GetAt(i, n)
  <2>1. {P("readAvail"), g, V("readLock")} \subseteq {P("readAvail"), g, V("readLock")}
    OBVIOUS
  <2> QED BY <1>3, <2>1, Three DEF NextGet, GetAt
<1> QED BY <1>1, <1>2, <1>3, <1>4, <1>5

LEMMA AtCharFacts ==
    ASSUME NEW q, NEW i \in Nat, AtChar(q, i)
    PROVE  /\ q \in GetWait \cup GetOwned
           /\ \A j \in Nat : AtChar(q, j) => i = j
<1>1. \A j \in Nat : \A x \in Nat : /\ GetAt(j, x) \in GetOwned /\ NextGet(j, x) \in GetWait
                                    /\ Head(GetAt(j, x)).i = j /\ Head(Tail(NextGet(j, x))).i = j
  BY GetParts
<1>2. \A x \in GetWait : x \notin GetOwned
  BY Apart
<1>3. q \in GetWait \cup GetOwned
  BY <1>1 DEF AtChar
<1>4. ASSUME NEW j \in Nat, AtChar(q, j) PROVE i = j
  <2>1. PICK x \in Nat : q = GetAt(i, x) \/ q = NextGet(i, x)
    BY DEF AtChar
  <2>2. PICK y \in Nat : q = GetAt(j, y) \/ q = NextGet(j, y)
    BY <1>4 DEF AtChar
  <2>3. CASE q \in GetOwned
    <3>1. q = GetAt(i, x) /\ q = GetAt(j, y)
      BY <1>1, <1>2, <2>1, <2>2, <2>3
    <3>2. Head(q).i = i
      BY <1>1, <3>1
    <3>3. Head(q).i = j
      BY <1>1, <3>1
    <3> QED BY <3>2, <3>3
  <2>4. CASE q \in GetWait
    <3>1. q = NextGet(i, x) /\ q = NextGet(j, y)
      BY <1>1, <1>2, <2>1, <2>2, <2>4
    <3>2. Head(Tail(q)).i = i
      BY <1>1, <3>1
    <3>3. Head(Tail(q)).i = j
      BY <1>1, <3>1
    <3> QED BY <3>2, <3>3
  <2> QED BY <1>3, <2>3, <2>4
<1> QED BY <1>3, <1>4

LEMMA AtCharSteps ==
    /\ \A q \in GetWait : \A i \in Nat : AtChar(Tail(q), i) => AtChar(q, i)
    /\ \A q \in GetBegin : \A i \in Nat : AtChar(Tail(q), i) => i = 0
<1>1. ASSUME NEW q \in GetWait, NEW i \in Nat, AtChar(Tail(q), i) PROVE AtChar(q, i)
  <2>1. PICK j \in Nat, m \in Nat : q = NextGet(j, m)
    BY DEF GetWait, NextGet
  <2>2. Tail(q) = GetAt(j, m)
    BY <2>1, GetParts
  <2>3. AtChar(Tail(q), j) /\ AtChar(q, j)
    BY <2>1, <2>2 DEF AtChar
  <2>4. i = j
    BY <1>1, <2>3, AtCharFacts
  <2> QED BY <2>3, <2>4
<1>2. ASSUME NEW q \in GetBegin, NEW i \in Nat, AtChar(Tail(q), i) PROVE i = 0
  <2>1. PICK n \in Nat : q = <<P("readLock"), P("readAvail"), Get(0, n), V("readLock")>>
    BY DEF GetBegin
  <2>2. PICK g : g = Get(0, n)
    OBVIOUS
  <2>3. Tail(q) = NextGet(0, n)
    BY <2>1, <2>2 DEF NextGet
  <2>4. AtChar(Tail(q), 0)
    BY <2>3 DEF AtChar
  <2> QED BY <1>2, <2>4, AtCharFacts
<1> QED BY <1>1, <1>2

(* The buffer of the console has the last character that was polled unless   *)
(* it was taken; the line read by a thread goes on where it began.           *)
LinesGoOn ==
    \A t \in Thread : \A i \in Nat \ {0} : AtChar(Body(t), i) => console.taken = line[t] + i

InputInv ==
    /\ console.polled <= Len(Input)
    /\ console.polled = console.taken + (IF console.incoming = "eof" THEN 0 ELSE 1)
    /\ LinesGoOn

LEMMA NoChar ==
    ASSUME NEW q, \/ q \in {<<>>} \cup DiskBegin \cup DiskOwned \cup DiskWait \cup DiskEnd
                  \/ q \in PutBegin \cup PutOwned \cup PutWait \cup PutEnd
                  \/ q \in GetBegin \cup GetEnd
    PROVE  \A i \in Nat : ~AtChar(q, i)
<1>1. q \notin GetWait \cup GetOwned
  BY Apart
<1> QED BY <1>1, AtCharFacts

(* Steps that take no character. *)
LEMMA LinesKept ==
    ASSUME LinesGoOn, console'.taken = console.taken, line' = line,
           \A t \in Thread : \A i \in Nat \ {0} : AtChar(Body(t)', i) => AtChar(Body(t), i)
    PROVE  LinesGoOn'
BY DEF LinesGoOn, AtChar

LEMMA OtherBodies ==
    ASSUME NEW t \in Thread, SameBodies({t}),
           \A i \in Nat \ {0} : AtChar(Body(t)', i) => AtChar(Body(t), i)
    PROVE  \A u \in Thread : \A i \in Nat \ {0} : AtChar(Body(u)', i) => AtChar(Body(u), i)
BY DEF SameBodies

LEMMA BodiesKept ==
    ASSUME NEW t \in Thread, Takes(t) \/ Gives(t) \/ Requests(t) \/ Puts(t) \/ Begun(t)
    PROVE  \A u \in Thread : \A i \in Nat \ {0} : AtChar(Body(u)', i) => AtChar(Body(u), i)
<1>1. CASE Takes(t)
  <2>1. \/ Body(t) \in DiskBegin /\ Body(t)' \in DiskOwned
        \/ Body(t) \in DiskWait /\ Body(t)' \in DiskEnd
        \/ Body(t) \in PutBegin /\ Body(t)' \in PutOwned
        \/ Body(t) \in PutWait /\ Body(t)' \in PutEnd
        \/ Body(t) \in GetBegin /\ Body(t)' \in GetWait
        \/ Body(t) \in GetWait /\ Body(t)' \in GetOwned
    BY <1>1, TakeCases
  <2>2. Body(t)' = Tail(Body(t)) /\ SameBodies({t})
    BY <1>1 DEF Takes, Steps
  <2>3. \A i \in Nat \ {0} : AtChar(Body(t)', i) => AtChar(Body(t), i)
    <3>1. CASE Body(t) \in GetBegin \cup GetWait
      BY <2>2, <3>1, AtCharSteps
    <3>2. CASE Body(t)' \in DiskOwned \cup DiskEnd \cup PutOwned \cup PutEnd
      BY <3>2, NoChar
    <3> QED BY <2>1, <3>1, <3>2
  <2> QED BY <2>2, <2>3, OtherBodies
<1>2. CASE Gives(t)
  <2>1. Body(t)' = <<>> /\ SameBodies({t})
    BY <1>2, GiveCases DEF Gives, Steps
  <2> QED BY <2>1, NoChar, OtherBodies
<1>3. CASE Requests(t)
  <2>1. Body(t)' \in DiskWait /\ SameBodies({t})
    BY <1>3, ByFirst, DiskPrograms DEF Requests, Steps
  <2> QED BY <2>1, NoChar, OtherBodies
<1>4. CASE Puts(t)
  <2>1. Body(t)' \in PutWait /\ SameBodies({t})
    BY <1>4, ByFirst, PutPrograms DEF Puts, Steps
  <2> QED BY <2>1, NoChar, OtherBodies
<1>5. CASE Begun(t)
  <2>1. Body(t)' \in {<<>>} \cup DiskBegin \cup PutBegin \cup GetBegin /\ SameBodies({t})
    BY <1>5 DEF Begun
  <2>2. \A i \in Nat : ~AtChar(Body(t)', i)
    BY <2>1, NoChar
  <2> QED BY <2>1, <2>2, OtherBodies
<1> QED BY <1>1, <1>2, <1>3, <1>4, <1>5

LEMMA GetsKeeps ==
    ASSUME DevTypeOK, GetInv, InputInv, NEW t \in Thread, Gets(t)
    PROVE  InputInv'
<1>0. console \in ConsoleState /\ line \in [Thread -> Nat]
  BY DEF DevTypeOK
<1>1. PICK i, n \in Nat :
         /\ Body(t) = GetAt(i, n) /\ SameBodies({t})
         /\ \/ console.incoming = "char" /\ Body(t)' = NextGet(i + 1, n)
            \/ Body(t)' \in GetEnd
         /\ line' = [line EXCEPT ![t] = IF i = 0 THEN console.taken ELSE line[t]]
         /\ console' = [console EXCEPT !.incoming = "eof",
                          !.taken = IF console.incoming = "eof" THEN console.taken
                                                                 ELSE console.taken + 1]
  BY DEF Gets
<1>2. console.taken \in Nat /\ console.polled \in Nat
  BY <1>0 DEF ConsoleState
<1>3. PICK k \in Nat : k = IF console.incoming = "eof" THEN console.taken ELSE console.taken + 1
  BY <1>2
<1>4. console'.incoming = "eof" /\ console'.taken = k /\ console'.polled = console.polled
  BY <1>0, <1>1, <1>3 DEF ConsoleState
<1>5. console'.polled <= Len(Input) /\ console'.polled = console'.taken + 0
  BY <1>2, <1>3, <1>4 DEF InputInv
<1>6. ASSUME NEW u \in Thread, NEW j \in Nat \ {0}, AtChar(Body(u)', j)
      PROVE  console'.taken = line'[u] + j
  <2>1. CASE u # t
    <3>1. AtChar(Body(u), j)
      BY <1>1, <1>6, <2>1 DEF SameBodies
    <3>2. Body(u) \in GetWait \cup GetOwned /\ Body(t) \in GetOwned
      BY <1>1, <3>1, AtCharFacts, GetParts
    <3>3. ReadAt[u] # "out" /\ ReadAt[t] # "out"
      BY <3>2, GetStages DEF ReadAt
    <3> QED BY <2>1, <3>3 DEF GetInv, OneAtATime
  <2>2. CASE u = t
    <3>1. console.incoming = "char" /\ Body(t)' = NextGet(i + 1, n)
      BY <1>1, <1>6, <2>2, NoChar
    <3>2. AtChar(Body(t)', i + 1) /\ i + 1 \in Nat
      BY <3>1 DEF AtChar
    <3>3. j = i + 1
      BY <1>6, <2>2, <3>2, AtCharFacts
    <3>4. k = console.taken + 1
      BY <1>3, <3>1
    <3>5. CASE i = 0
      <4>1. line'[t] = console.taken
        BY <1>0, <1>1, <3>5
      <4> QED BY <1>2, <1>4, <2>2, <3>3, <3>4, <3>5, <4>1
    <3>6. CASE i # 0
      <4>1. line'[t] = line[t] /\ line[t] \in Nat
        BY <1>0, <1>1, <3>6
      <4>2. AtChar(Body(t), i)
        BY <1>1 DEF AtChar
      <4>3. console.taken = line[t] + i
        BY <3>6, <4>2 DEF InputInv, LinesGoOn
      <4> QED BY <1>2, <1>4, <2>2, <3>3, <3>4, <4>1, <4>3
    <3> QED BY <3>5, <3>6
  <2> QED BY <2>1, <2>2
<1>7. LinesGoOn'
  BY <1>6 DEF LinesGoOn, AtChar
<1> QED BY <1>4, <1>5, <1>7 DEF InputInv

LEMMA StepInputInv ==
    ASSUME UseInv, InputInv, StepKinds
    PROVE  InputInv'
<1>0. DevTypeOK /\ GetInv
  BY DEF UseInv, DevInv
<1>1. console \in ConsoleState
  BY <1>0 DEF DevTypeOK
<1>2. ASSUME UNCHANGED line, console'.taken = console.taken, console'.polled = console.polled,
             console'.incoming = console.incoming,
             \A u \in Thread : \A i \in Nat \ {0} : AtChar(Body(u)', i) => AtChar(Body(u), i)
      PROVE  InputInv'
  <2>1. LinesGoOn'
    BY <1>2, LinesKept DEF InputInv
  <2> QED BY <1>2, <2>1 DEF InputInv
<1>3. SameBodies({}) =>
         \A u \in Thread : \A i \in Nat \ {0} : AtChar(Body(u)', i) => AtChar(Body(u), i)
  BY DEF SameBodies
<1>4. CASE Still \/ DiskAnswers
  BY <1>2, <1>3, <1>4 DEF Still, DiskAnswers
<1>5. CASE PutAnswers
  <2>1. SameBodies({}) /\ UNCHANGED line /\ console' = [console EXCEPT !.putBusy = FALSE]
    BY <1>5 DEF PutAnswers
  <2>2. /\ console'.taken = console.taken /\ console'.polled = console.polled
        /\ console'.incoming = console.incoming
    BY <1>1, <2>1 DEF ConsoleState
  <2> QED BY <1>2, <1>3, <2>1, <2>2
<1>6. CASE Polls
  <2>1. SameBodies({}) /\ UNCHANGED line /\ console.incoming = "eof"
    BY <1>6 DEF Polls
  <2>2. PICK c \in {"eof", "char", "newline"}, k \in Nat :
          /\ console' = [console EXCEPT !.incoming = c, !.polled = k]
          /\ \/ console.polled < Len(Input) /\ k = console.polled + 1 /\ c # "eof"
             \/ ~(console.polled < Len(Input)) /\ k = Len(Input) /\ c = "eof"
    BY <1>6 DEF Polls
  <2>3. /\ console'.taken = console.taken /\ console'.polled = k
        /\ console'.incoming = c /\ console.taken \in Nat /\ console.polled \in Nat
    BY <1>1, <2>2 DEF ConsoleState
  <2>4. Len(Input) \in Nat
    BY DevicesAssumption
  <2>5. LinesGoOn'
    BY <1>3, <2>1, <2>3, LinesKept DEF InputInv
  <2>6. console.polled <= Len(Input) /\ console.polled = console.taken
    BY <2>1, <2>3 DEF InputInv
  <2>7. k <= Len(Input) /\ k = console.taken + (IF c = "eof" THEN 0 ELSE 1)
    BY <2>2, <2>3, <2>4, <2>6
  <2> QED BY <2>3, <2>5, <2>7 DEF InputInv
<1>7. ASSUME NEW t \in Thread, Takes(t) \/ Gives(t) \/ Requests(t) \/ Begun(t)
      PROVE  InputInv'
  <2>1. UNCHANGED <<console, line>>
    BY <1>7 DEF Takes, Gives, Requests, Begun
  <2>2. \A u \in Thread : \A i \in Nat \ {0} : AtChar(Body(u)', i) => AtChar(Body(u), i)
    BY <1>7, BodiesKept
  <2> QED BY <1>2, <2>1, <2>2
<1>8. ASSUME NEW t \in Thread, Puts(t) PROVE InputInv'
  <2>1. UNCHANGED line /\ console' = [console EXCEPT !.putBusy = TRUE]
    BY <1>8 DEF Puts
  <2>2. /\ console'.taken = console.taken /\ console'.polled = console.polled
        /\ console'.incoming = console.incoming
    BY <1>1, <2>1 DEF ConsoleState
  <2>3. \A u \in Thread : \A i \in Nat \ {0} : AtChar(Body(u)', i) => AtChar(Body(u), i)
    BY <1>8, BodiesKept
  <2> QED BY <1>2, <2>1, <2>2, <2>3
<1>9. ASSUME NEW t \in Thread, Gets(t) PROVE InputInv'
  BY <1>0, <1>9, GetsKeeps
<1> QED BY <1>4, <1>5, <1>6, <1>7, <1>8, <1>9 DEF StepKinds

(* Where an operation has a GetChar. *)
LEMMA GetPlaces ==
    ASSUME NEW q \in Program, NEW k \in 1..Len(q), q[k].do = "get", q[k].i > 0
    PROVE  q[k].i \in Nat /\ AtChar(q, q[k].i)
<1> USE InstrFacts
<1>0. Semaphore = {"diskLock", "diskDone", "readLock", "readAvail", "writeLock", "writeDone"}
  BY DEF Semaphore
<1>1. CASE q = <<>>
  BY <1>1
<1>2. ASSUME NEW a, NEW b, NEW c, NEW d, q = <<a, b, c, d>>
      PROVE  q[k] \in {a, b, c, d} /\ (q[k] # a /\ q[k] # b /\ q[k] # d => q[k] = c)
  <2>1. Len(q) = 4 /\ q[1] = a /\ q[2] = b /\ q[3] = c /\ q[4] = d
    BY <1>2
  <2> QED BY <2>1
<1>3. ASSUME NEW a, NEW b, NEW c, q = <<a, b, c>> PROVE q[k] \in {a, b, c}
  <2>1. Len(q) = 3 /\ q[1] = a /\ q[2] = b /\ q[3] = c
    BY <1>3
  <2> QED BY <2>1
<1>4. ASSUME NEW a, NEW b, q = <<a, b>> PROVE q[k] \in {a, b}
  <2>1. Len(q) = 2 /\ q[1] = a /\ q[2] = b
    BY <1>4
  <2> QED BY <2>1
<1>5. ASSUME NEW a, q = <<a>> PROVE q[k] = a
  <2>1. Len(q) = 1 /\ q[1] = a
    BY <1>5
  <2> QED BY <2>1
<1>6. /\ \A s \in Semaphore : P(s).do # "get" /\ V(s).do # "get"
      /\ \A s \in Sector, w \in BOOLEAN : DiskRequest(s, w).do # "get"
      /\ Put.do # "get"
  OBVIOUS
<1>7. CASE q \in DiskBegin
  <2>1. PICK s \in Sector, w \in BOOLEAN :
           q = <<P("diskLock"), DiskRequest(s, w), P("diskDone"), V("diskLock")>>
    BY <1>7 DEF DiskBegin
  <2> QED BY <1>0, <1>2, <1>6, <2>1
<1>8. CASE q \in DiskOwned
  <2>1. PICK s \in Sector, w \in BOOLEAN : q = <<DiskRequest(s, w), P("diskDone"), V("diskLock")>>
    BY <1>8 DEF DiskOwned
  <2> QED BY <1>0, <1>3, <1>6, <2>1
<1>9. CASE q \in DiskWait \cup DiskEnd
  <2>1. q = <<P("diskDone"), V("diskLock")>> \/ q = <<V("diskLock")>>
    BY <1>9 DEF DiskWait, DiskEnd
  <2> QED BY <1>0, <1>4, <1>5, <1>6, <2>1
<1>10. CASE q \in PutBegin
  <2>1. q = <<P("writeLock"), Put, P("writeDone"), V("writeLock")>>
    BY <1>10 DEF PutBegin
  <2> QED BY <1>0, <1>2, <1>6, <2>1
<1>11. CASE q \in PutOwned
  <2>1. q = <<Put, P("writeDone"), V("writeLock")>>
    BY <1>11 DEF PutOwned
  <2> QED BY <1>0, <1>3, <1>6, <2>1
<1>12. CASE q \in PutWait \cup PutEnd
  <2>1. q = <<P("writeDone"), V("writeLock")>> \/ q = <<V("writeLock")>>
    BY <1>12 DEF PutWait, PutEnd
  <2> QED BY <1>0, <1>4, <1>5, <1>6, <2>1
<1>13. CASE q \in GetBegin
  <2>1. PICK n \in Nat : q = <<P("readLock"), P("readAvail"), Get(0, n), V("readLock")>>
    BY <1>13 DEF GetBegin
  <2>2. Get(0, n).i = 0
    BY DEF Get
  <2>3. q[k] = Get(0, n)
    BY <1>0, <1>2, <1>6, <2>1
  <2> QED BY <2>2, <2>3
<1>14. CASE q \in GetWait
  <2>1. PICK i \in Nat, n \in Nat : q = <<P("readAvail"), Get(i, n), V("readLock")>>
    BY <1>14 DEF GetWait
  <2>2. Get(i, n).i = i
    BY DEF Get
  <2>3. q[k] = Get(i, n)
    BY <1>0, <1>3, <1>6, <2>1
  <2>4. AtChar(q, i)
    BY <2>1 DEF AtChar, NextGet
  <2> QED BY <2>2, <2>3, <2>4
<1>15. CASE q \in GetOwned
  <2>1. PICK i \in Nat, n \in Nat : q = <<Get(i, n), V("readLock")>>
    BY <1>15 DEF GetOwned
  <2>2. Get(i, n).i = i
    BY DEF Get
  <2>3. q[k] = Get(i, n)
    BY <1>0, <1>4, <1>6, <2>1
  <2>4. AtChar(q, i)
    BY <2>1 DEF AtChar, GetAt
  <2> QED BY <2>2, <2>3, <2>4
<1>16. CASE q \in GetEnd
  <2>1. q = <<V("readLock")>>
    BY <1>16 DEF GetEnd
  <2> QED BY <1>0, <1>5, <1>6, <2>1
<1> QED BY <1>1, <1>7, <1>8, <1>9, <1>10, <1>11, <1>12, <1>13, <1>14, <1>15, <1>16 DEF Program

LEMMA InputInvariant == DevicesSpec => [](UseInv /\ InputInv)
<1>1. ASSUME DevicesInit PROVE InputInv
  <2>1. \A t \in Thread : Body(t) = <<>>
    BY <1>1, InitDevInv
  <2>2. LinesGoOn
    BY <2>1, NoChar DEF LinesGoOn
  <2>3. console.polled = 0 /\ console.taken = 0 /\ console.incoming = "eof"
    BY <1>1 DEF DevicesInit, NewConsole, EOF
  <2>4. Len(Input) \in Nat
    BY DevicesAssumption
  <2> QED BY <2>2, <2>3, <2>4 DEF InputInv
<1>2. DevicesInit => UseInv /\ InputInv
  BY <1>1, InitUseInv
<1>3. UseInv /\ InputInv /\ [DevicesNext]_devVars => UseInv' /\ InputInv'
  BY StepUseInv, StepInputInv
<1> QED BY <1>2, <1>3, PTL DEF DevicesSpec

(* Every character that was typed is given to one thread, in order, and the  *)
(* ones of a string are consecutive (Console::CheckCharAvail and GetChar,    *)
(* SynchConsole::SynchGetString).                                            *)
THEOREM InputKeptProved == DevicesSpec => []InputKept
<1>1. ASSUME UseInv, InputInv PROVE InputKept
  <2>0. todo \in [Thread -> Todo]
    BY <1>1 DEF UseInv, DevInv, DevTypeOK
  <2>1. ASSUME NEW t \in Thread, NEW k \in DOMAIN todo[t],
               todo[t][k].do = "get", todo[t][k].i > 0
        PROVE  console.taken = line[t] + todo[t][k].i
    <3>1. todo[t] \in Seq(Instruction) /\ Body(t) \in Program /\ k \in 1..Len(todo[t])
      BY <2>0, <2>1, BodyFacts
    <3>2. PICK j \in 1..Len(Body(t)) : Body(t)[j] = todo[t][k]
      <4>1. CASE todo[t] \in Program
        BY <3>1, <4>1 DEF Body
      <4>2. CASE todo[t] \notin Program
        <5>1. Body(t) = Tail(todo[t]) /\ todo[t] # <<>> /\ Head(todo[t]).do = "tick"
          BY <2>0, <3>1, <4>2, BodyFacts DEF Body
        <5>2. k # 1
          BY <2>1, <3>1, <5>1
        <5>3. k - 1 \in 1..Len(Body(t)) /\ Body(t)[k - 1] = todo[t][k]
          BY <3>1, <5>1, <5>2
        <5> QED BY <5>3
      <4> QED BY <4>1, <4>2
    <3>3. todo[t][k].i \in Nat /\ AtChar(Body(t), todo[t][k].i)
      BY <2>1, <3>1, <3>2, GetPlaces
    <3> QED BY <1>1, <2>1, <3>3 DEF InputInv, LinesGoOn
  <2>2. console.polled = console.taken + (IF console.incoming = EOF THEN 0 ELSE 1)
    BY <1>1 DEF InputInv, EOF
  <2> QED BY <2>1, <2>2 DEF InputKept
<1>2. UseInv /\ InputInv => InputKept
  BY <1>1
<1> QED BY <1>2, InputInvariant, PTL

-----------------------------------------------------------------------------
(* How long a request to the disk takes. *)
LEMMA ProductInt == \A a, b \in Int : a * b \in Int
OBVIOUS

LEMMA DivUnique ==
    ASSUME NEW a \in Int, NEW d \in Nat \ {0}, NEW q \in Int, NEW r \in 0..(d - 1),
           a = q * d + r
    PROVE  a \div d = q /\ a % d = r
OBVIOUS

(* A smaller multiple is smaller by a whole divisor. *)
LEMMA MultiplesApart ==
    ASSUME NEW d \in Nat \ {0}, NEW p \in Int, NEW q \in Int, p < q
    PROVE  p * d + d <= q * d
OBVIOUS

LEMMA OneMore ==
    ASSUME NEW d \in Int, NEW q \in Int
    PROVE  (q + 1) * d = q * d + d
OBVIOUS

LEMMA MinIs ==
    ASSUME NEW S, S \subseteq Int, NEW x \in S, \A y \in S : x <= y
    PROVE  Min(S) = x
<1>1. \A z \in S : (\A y \in S : z <= y) => z = x
  <2> SUFFICES ASSUME NEW z \in S, \A y \in S : z <= y PROVE z = x
    OBVIOUS
  <2>1. z <= x /\ x <= z /\ x \in Int /\ z \in Int
    OBVIOUS
  <2> QED BY <2>1
<1> QED BY <1>1 DEF Min

(* The first number from q on that is congruent to s. *)
LEMMA NextCongruent ==
    ASSUME NEW s \in Int, NEW q \in Int
    PROVE  /\ ModuloDiff(s, q) \in 0..(SectorsPerTrack - 1)
           /\ (q + ModuloDiff(s, q)) % SectorsPerTrack = s % SectorsPerTrack
           /\ \A j \in Int : j >= q /\ j % SectorsPerTrack = s % SectorsPerTrack
                => j >= q + ModuloDiff(s, q)
<1> DEFINE d == SectorsPerTrack
<1>0. d \in Nat \ {0}
  BY DevicesAssumption
<1>m. PICK m : m = ModuloDiff(s, q)
  OBVIOUS
<1>d. m = (((s % d) - (q % d)) + d) % d
  BY <1>m DEF ModuloDiff
<1> HIDE DEF d
<1> SUFFICES /\ m \in 0..(d - 1) /\ (q + m) % d = s % d
             /\ \A j \in Int : j >= q /\ j % d = s % d => j >= q + m
  BY <1>m DEF d
<1> USE <1>0
<1>1. PICK a \in 0..(d - 1) : a = s % d
  BY DivMod
<1>2. PICK b \in 0..(d - 1) : b = q % d
  BY DivMod
<1>3. PICK c \in Int : c = q \div d
  BY DivMod
<1>4. PICK cd \in Int : cd = c * d
  BY ProductInt
<1>5. q = cd + b
  <2>1. q % d = q - (q \div d) * d
    BY DivMod
  <2> QED BY <1>2, <1>3, <1>4, <2>1
<1>6. PICK x \in Int : x = (a - b) + d
  OBVIOUS
<1>7. m = x % d
  BY <1>1, <1>2, <1>6, <1>d
<1>8. ASSUME NEW j \in Int, j >= q, j % d = s % d
      PROVE  \E e \in Int : \E ed \in Int : ed = e * d /\ j = ed + a
  <2>1. PICK e \in Int : e = j \div d
    BY DivMod
  <2>2. PICK ed \in Int : ed = e * d
    BY ProductInt
  <2>3. j % d = j - (j \div d) * d
    BY DivMod
  <2> QED BY <1>1, <1>8, <2>1, <2>2, <2>3
<1>9. CASE a >= b
  <2>1. PICK r \in 0..(d - 1) : r = a - b
    BY <1>9
  <2>2. x = 1 * d + r
    BY <1>6, <2>1
  <2>3. m = r
    BY <1>7, <2>2, DivUnique
  <2>4. q + m = c * d + a
    BY <1>4, <1>5, <2>1, <2>3
  <2>5. (q + m) % d = a
    <3>1. q + m \in Int
      BY <2>1, <2>3
    <3> QED BY <2>4, <3>1, DivUnique
  <2>6. ASSUME NEW j \in Int, j >= q, j % d = s % d PROVE j >= q + m
    <3>1. PICK e \in Int : \E ed \in Int : ed = e * d /\ j = ed + a
      BY <1>8, <2>6
    <3>2. PICK ed \in Int : ed = e * d /\ j = ed + a
      BY <3>1
    <3>3. CASE e < c
      <4>1. ed + d <= cd
        BY <1>4, <3>2, <3>3, MultiplesApart
      <4> QED BY <1>5, <2>6, <3>2, <4>1
    <3>4. CASE e = c
      BY <1>4, <2>4, <3>2, <3>4
    <3>5. CASE e > c
      <4>1. cd + d <= ed
        BY <1>4, <3>2, <3>5, MultiplesApart
      <4> QED BY <1>4, <2>4, <3>2, <4>1
    <3> QED BY <3>3, <3>4, <3>5
  <2> QED BY <1>1, <2>3, <2>5, <2>6
<1>10. CASE a < b
  <2>1. PICK r \in 0..(d - 1) : r = (a - b) + d
    BY <1>10
  <2>2. x = 0 * d + r
    BY <1>6, <2>1
  <2>3. m = r
    BY <1>7, <2>2, DivUnique
  <2>4. q + m = cd + d + a
    BY <1>5, <2>1, <2>3
  <2>5. (q + m) % d = a
    <3>1. PICK z \in Int : z = c + 1
      OBVIOUS
    <3>2. PICK y \in Int : y = cd + d + a
      OBVIOUS
    <3>3. y = z * d + a
      BY <1>4, <3>1, <3>2, OneMore
    <3>4. y % d = a
      BY <3>3, DivUnique
    <3> QED BY <2>4, <3>2, <3>4
  <2>6. ASSUME NEW j \in Int, j >= q, j % d = s % d PROVE j >= q + m
    <3>1. PICK e \in Int : \E ed \in Int : ed = e * d /\ j = ed + a
      BY <1>8, <2>6
    <3>2. PICK ed \in Int : ed = e * d /\ j = ed + a
      BY <3>1
    <3>3. CASE e < c
      <4>1. ed + d <= cd
        BY <1>4, <3>2, <3>3, MultiplesApart
      <4> QED BY <1>5, <2>6, <3>2, <4>1
    <3>4. CASE e = c
      BY <1>4, <1>5, <1>10, <2>6, <3>2, <3>4
    <3>5. CASE e > c
      <4>1. cd + d <= ed
        BY <1>4, <3>2, <3>5, MultiplesApart
      <4> QED BY <2>4, <3>2, <4>1
    <3> QED BY <3>3, <3>4, <3>5
  <2> QED BY <1>1, <2>3, <2>5, <2>6
<1> QED BY <1>9, <1>10

(* When sector s begins under the head, from time f on, if the first sector  *)
(* to begin then is the q-th.                                                *)
LEMMA BeginsAt ==
    ASSUME NEW f \in Nat, NEW q \in Int, NEW s \in Int,
           f <= q * RotationTime, q * RotationTime < f + RotationTime
    PROVE  SectorBegins(s, f) = q * RotationTime + ModuloDiff(s, q) * RotationTime
<1>0. RotationTime \in Nat \ {0} /\ SectorsPerTrack \in Nat \ {0}
  BY DevicesAssumption
<1>1. PICK m : m = ModuloDiff(s, q)
  OBVIOUS
<1>2. /\ m \in 0..(SectorsPerTrack - 1) /\ (q + m) % SectorsPerTrack = s % SectorsPerTrack
      /\ \A j \in Int : j >= q /\ j % SectorsPerTrack = s % SectorsPerTrack => j >= q + m
  BY <1>1, NextCongruent
<1>3. PICK qd \in Int : qd = q * RotationTime
  BY <1>0, ProductInt
<1>4. PICK md \in Int : md = m * RotationTime
  BY <1>0, <1>2, ProductInt
<1>5. PICK sd \in Int : sd = SectorsPerTrack * RotationTime
  BY <1>0, ProductInt
<1>6. 0 <= md /\ md + RotationTime <= sd
  <2>1. md + RotationTime <= sd
    BY <1>0, <1>2, <1>4, <1>5, MultiplesApart
  <2>2. 0 <= md
    BY <1>0, <1>2, <1>4
  <2> QED BY <2>1, <2>2
<1>7. PICK k \in Int : k = qd + md
  OBVIOUS
<1>8. k = (q + m) * RotationTime
  BY <1>0, <1>2, <1>3, <1>4, <1>7
<1>9. k % RotationTime = 0 /\ k \div RotationTime = q + m
  <2>1. q + m \in Int /\ 0 \in 0..(RotationTime - 1)
    BY <1>0, <1>2
  <2>2. k = (q + m) * RotationTime + 0
    BY <1>7, <1>8
  <2> QED BY <1>0, <2>1, <2>2, DivUnique
<1> DEFINE last == f + (SectorsPerTrack + 1) * RotationTime
           B == {x \in f..last : x % RotationTime = 0
                   /\ (x \div RotationTime) % SectorsPerTrack = s % SectorsPerTrack}
<1>10. last = f + sd + RotationTime
  BY <1>0, <1>5, OneMore
<1>11. k \in f..last
  BY <1>0, <1>3, <1>6, <1>7, <1>10
<1> HIDE DEF last
<1>12. k \in B
  BY <1>2, <1>9, <1>11
<1>13. ASSUME NEW x \in B PROVE k <= x
  <2>1. x \in Int /\ f <= x
    BY <1>10, <1>11, <1>13, <1>0
  <2>2. PICK j \in Int : j = x \div RotationTime
    BY <1>0, <2>1, DivMod
  <2>3. PICK jd \in Int : jd = j * RotationTime
    BY <1>0, ProductInt
  <2>4. x = jd
    <3>1. x % RotationTime = x - (x \div RotationTime) * RotationTime
      BY <1>0, <2>1, DivMod
    <3>2. x % RotationTime = 0
      BY <1>13
    <3> QED BY <2>1, <2>2, <2>3, <3>1, <3>2
  <2>5. j >= q
    <3>1. CASE j < q
      <4>1. jd + RotationTime <= qd
        BY <1>0, <1>3, <2>3, <3>1, MultiplesApart
      <4> QED BY <1>0, <1>3, <2>1, <2>4, <4>1
    <3> QED BY <3>1
  <2>6. j >= q + m
    BY <1>2, <1>13, <2>2, <2>5
  <2>7. CASE j = q + m
    BY <1>8, <2>3, <2>4, <2>7
  <2>8. CASE q + m < j
    <3>1. k + RotationTime <= jd
      <4>1. q + m \in Int
        BY <1>2
      <4> QED BY <1>0, <1>8, <2>3, <2>8, <4>1, MultiplesApart
    <3> QED BY <1>0, <2>4, <3>1
  <2> QED BY <1>2, <2>6, <2>7, <2>8
<1>14. B \subseteq Int
  BY <1>0, <1>10
<1> HIDE DEF B
<1>15. Min(B) = k
  BY <1>12, <1>13, <1>14, MinIs
<1>16. SectorBegins(s, f) = Min(B)
  BY DEF SectorBegins, B, last
<1> QED BY <1>1, <1>3, <1>4, <1>7, <1>15, <1>16

(* The head is at the beginning of a sector after Rotation. *)
LEMMA HeadArrives ==
    ASSUME NEW f \in Nat, NEW a,
           a = f + (IF f % RotationTime > 0 THEN RotationTime - (f % RotationTime) ELSE 0)
    PROVE  \E q \in Int : /\ a = q * RotationTime /\ f <= a /\ a < f + RotationTime
                          /\ a \div RotationTime = q /\ a % RotationTime = 0
<1> DEFINE d == RotationTime
<1>0. d \in Nat \ {0}
  BY DevicesAssumption
<1>a. a = f + (IF f % d > 0 THEN d - (f % d) ELSE 0)
  OBVIOUS
<1> HIDE DEF d
<1> SUFFICES \E q \in Int : /\ a = q * d /\ f <= a /\ a < f + d /\ a \div d = q /\ a % d = 0
  BY DEF d
<1>b. f \in Int /\ f \div d \in Int /\ f % d \in Nat /\ f % d < d
  BY <1>0
<1>1. PICK r \in 0..(d - 1) : r = f % d
  BY <1>0, <1>b
<1>2. PICK c \in Int : c = f \div d
  BY <1>b
<1>3. PICK cd \in Int : cd = c * d
  BY <1>0, ProductInt
<1>4. f = cd + r
  <2>1. f % d = f - (f \div d) * d
    BY <1>0, DivMod
  <2> QED BY <1>1, <1>2, <1>3, <2>1
<1>5. PICK q \in Int : a = q * d /\ f <= a /\ a < f + d
  <2>1. CASE r = 0
    <3>1. a = f
      BY <1>1, <1>a, <2>1
    <3>2. a = c * d
      BY <1>3, <1>4, <2>1, <3>1
    <3> QED BY <1>0, <3>1, <3>2
  <2>2. CASE r > 0
    <3>1. a = cd + d
      BY <1>0, <1>1, <1>4, <1>a, <2>2
    <3>2. PICK z \in Int : z = c + 1
      OBVIOUS
    <3>3. a = z * d
      BY <1>0, <1>3, <3>1, <3>2, OneMore
    <3>4. f <= a /\ a < f + d
      BY <1>0, <1>4, <2>2, <3>1
    <3> QED BY <3>3, <3>4
  <2> QED BY <1>0, <2>1, <2>2
<1>6. a \div d = q /\ a % d = 0
  <2>1. a \in Int
    BY <1>0, <1>5, ProductInt
  <2>2. a = q * d + 0 /\ 0 \in 0..(d - 1)
    BY <1>0, <1>5, <2>1
  <2> QED BY <1>0, <2>1, <2>2, DivUnique
<1> QED BY <1>5, <1>6

(* Disk::ComputeLatency. *)
LEMMA LatencyIs ==
    ASSUME DevTypeOK, disk.bufferInit % RotationTime = 0, NEW s \in Nat, NEW w \in BOOLEAN,
           NEW when, when = now + ComputeLatency(s, w)
    PROVE  \/ when = SectorBegins(s, now + TimeToSeek(s)) + RotationTime
           \/ /\ ~w /\ TimeToSeek(s) = 0
              /\ SectorBegins(s, disk.bufferInit) + RotationTime <= when
              /\ when = now + RotationTime
<1>0. RotationTime \in Nat \ {0}
  BY DevicesAssumption
<1>1. PICK k \in Nat : k = TimeToSeek(s)
  BY SeekNat
<1>2. PICK r \in Nat : r = Rotation(s)
  BY RotationNat
<1>3. PICK n \in Nat : n = now
  BY DEF DevTypeOK
<1>4. PICK init \in Nat : init = disk.bufferInit
  BY DEF DevTypeOK, DiskState
<1>5. PICK f \in Nat : f = n + k
  OBVIOUS
<1>6. PICK a \in Nat : a = n + k + r
  OBVIOUS
<1>7. PICK q \in Int : /\ a = q * RotationTime /\ f <= a /\ a < f + RotationTime
                       /\ a \div RotationTime = q
  <2>1. a = f + (IF f % RotationTime > 0 THEN RotationTime - (f % RotationTime) ELSE 0)
    <3>1. r = IF f % RotationTime > 0 THEN RotationTime - (f % RotationTime) ELSE 0
      BY <1>1, <1>2, <1>3, <1>5 DEF Rotation
    <3>2. a = f + r
      BY <1>5, <1>6
    <3> QED BY <3>1, <3>2
  <2> QED BY <2>1, HeadArrives
<1>8. SectorBegins(s, f) = a + ModuloDiff(s, q) * RotationTime
  BY <1>7, BeginsAt
<1>9. PICK md \in Int : md = ModuloDiff(s, q) * RotationTime
  BY <1>0, ModuloDiffNat, ProductInt
<1>10. PICK p \in Int : p = init \div RotationTime
  <2>1. init \in Int /\ init \div RotationTime \in Int
    BY <1>0
  <2> QED BY <2>1
<1>11. init = p * RotationTime
  <2>1. init % RotationTime = init - (init \div RotationTime) * RotationTime
    <3>1. init \in Int
      OBVIOUS
    <3> QED BY <1>0, <3>1, DivMod
  <2>2. PICK pd \in Int : pd = p * RotationTime
    BY <1>0, ProductInt
  <2> QED BY <1>4, <1>10, <2>1, <2>2
<1>12. PICK m \in Nat : m = ModuloDiff(s, p)
  BY ModuloDiffNat
<1>13. PICK m2 \in Int : m2 = m * RotationTime
  BY <1>0, ProductInt
<1>14. SectorBegins(s, init) = init + m2
  <2>1. init <= p * RotationTime /\ p * RotationTime < init + RotationTime
    BY <1>0, <1>11
  <2>2. SectorBegins(s, init) = p * RotationTime + ModuloDiff(s, p) * RotationTime
    BY <2>1, BeginsAt
  <2> QED BY <1>11, <1>12, <1>13, <2>2
<1>15. CASE ~w /\ k = 0 /\ (a - init) \div RotationTime > m
  <2>1. ComputeLatency(s, w) = RotationTime
    BY <1>1, <1>2, <1>3, <1>4, <1>6, <1>10, <1>12, <1>15 DEF ComputeLatency
  <2>2. PICK e \in Int : e = q - p
    OBVIOUS
  <2>3. (a - init) \div RotationTime = e
    <3>1. PICK x \in Int : x = a - init
      OBVIOUS
    <3>2. x = e * RotationTime + 0 /\ 0 \in 0..(RotationTime - 1)
      BY <1>0, <1>7, <1>11, <2>2, <3>1
    <3> QED BY <1>0, <3>1, <3>2, DivUnique
  <2>4. p + m < q /\ p + m \in Int
    BY <1>15, <2>2, <2>3
  <2>5. (p + m) * RotationTime = init + m2
    BY <1>0, <1>11, <1>13
  <2>6. (p + m) * RotationTime + RotationTime <= a
    BY <1>0, <1>7, <2>4, MultiplesApart
  <2>7. init + m2 <= n
    BY <1>0, <1>5, <1>7, <1>15, <2>5, <2>6
  <2>8. when = n + RotationTime
    BY <1>3, <2>1
  <2> QED BY <1>0, <1>1, <1>3, <1>4, <1>14, <1>15, <2>7, <2>8
<1>16. CASE ~(~w /\ k = 0 /\ (a - init) \div RotationTime > m)
  <2>1. ComputeLatency(s, w) = k + r + md + RotationTime
    BY <1>1, <1>2, <1>3, <1>4, <1>6, <1>7, <1>9, <1>10, <1>12, <1>16 DEF ComputeLatency
  <2>2. when = a + md + RotationTime
    BY <1>0, <1>3, <1>6, <2>1
  <2>3. SectorBegins(s, now + TimeToSeek(s)) = a + md
    BY <1>1, <1>3, <1>5, <1>8, <1>9
  <2> QED BY <2>2, <2>3
<1> QED BY <1>15, <1>16

LatencyInv == disk.bufferInit % RotationTime = 0 /\ LatencyExact

LEMMA StepLatencyInv ==
    ASSUME DevInv, LatencyInv, StepKinds
    PROVE  LatencyInv'
<1>0. disk \in DiskState /\ DevTypeOK
  BY DEF DevInv, DevTypeOK
<1>1. ASSUME UNCHANGED req, disk'.active => disk.active, disk'.bufferInit = disk.bufferInit
      PROVE  LatencyInv'
  BY <1>1 DEF LatencyInv, LatencyExact
<1>2. CASE \/ Still \/ PutAnswers \/ Polls
           \/ \E t \in Thread : Takes(t) \/ Gives(t) \/ Puts(t) \/ Gets(t) \/ Begun(t)
  <2>1. UNCHANGED <<disk, req>>
    BY <1>2 DEF Still, PutAnswers, Polls, Takes, Gives, Puts, Gets, Begun
  <2> QED BY <1>1, <2>1
<1>3. CASE DiskAnswers
  <2>1. UNCHANGED req /\ disk' = [disk EXCEPT !.active = FALSE]
    BY <1>3 DEF DiskAnswers
  <2>2. disk'.active = FALSE /\ disk'.bufferInit = disk.bufferInit
    BY <1>0, <2>1 DEF DiskState
  <2> QED BY <1>1, <2>1, <2>2
<1>4. ASSUME NEW s \in Nat, NEW w \in BOOLEAN, Asked(s, w) PROVE LatencyInv'
  <2>1. PICK when : when = now + ComputeLatency(s, w)
    OBVIOUS
  <2>2. req' = [at |-> now, sector |-> s, writing |-> w, when |-> when,
                last |-> disk.lastSector, init |-> disk.bufferInit]
    BY <1>4, <2>1 DEF Asked
  <2>3. \/ when = SectorBegins(s, now + TimeToSeek(s)) + RotationTime
        \/ /\ ~w /\ TimeToSeek(s) = 0
           /\ SectorBegins(s, disk.bufferInit) + RotationTime <= when
           /\ when = now + RotationTime
    BY <1>0, <2>1, LatencyIs DEF LatencyInv
  <2>4. /\ req'.at = now /\ req'.sector = s /\ req'.writing = w /\ req'.when = when
        /\ req'.last = disk.lastSector /\ req'.init = disk.bufferInit
    BY <2>2
  <2>5. Abs(Track(req'.sector) - Track(req'.last)) * SeekTime = TimeToSeek(s)
    BY <2>4 DEF TimeToSeek
  <2>6. LatencyExact'
    BY <2>3, <2>4, <2>5 DEF LatencyExact, SectorBegins, Abs, Track
  <2>7. disk'.bufferInit % RotationTime = 0
    <3>1. PICK b : b = IF TimeToSeek(s) # 0 THEN now + TimeToSeek(s) + Rotation(s)
                                            ELSE disk.bufferInit
      OBVIOUS
    <3>2. disk'.bufferInit = b
      BY <1>0, <1>4, <3>1 DEF Asked, UpdateLast, DiskState
    <3>3. CASE TimeToSeek(s) = 0
      BY <3>1, <3>2, <3>3 DEF LatencyInv
    <3>4. CASE TimeToSeek(s) # 0
      <4>1. PICK f \in Nat : f = now + TimeToSeek(s)
        BY <1>0, SeekNat DEF DevTypeOK
      <4>2. b = f + (IF f % RotationTime > 0 THEN RotationTime - (f % RotationTime) ELSE 0)
        BY <3>1, <3>4, <4>1 DEF Rotation
      <4> QED BY <3>2, <4>2, HeadArrives
    <3> QED BY <3>3, <3>4
  <2> QED BY <2>6, <2>7 DEF LatencyInv
<1>5. ASSUME NEW t \in Thread, Requests(t) PROVE LatencyInv'
  BY <1>4, <1>5 DEF Requests
<1> QED BY <1>2, <1>3, <1>5 DEF StepKinds

(* Disk::ComputeLatency gives the time at which the head, after moving to    *)
(* the track, has passed over the sector, or the time of a transfer for a    *)
(* sector that is in the track buffer.                                       *)
THEOREM LatencyExactProved == DevicesSpec => []LatencyExact
<1>1. ASSUME DevicesInit PROVE DevInv /\ LatencyInv
  <2>1. disk.active = FALSE /\ disk.bufferInit = 0
    BY <1>1 DEF DevicesInit, NewDisk
  <2>2. 0 % RotationTime = 0
    BY DevicesAssumption
  <2> QED BY <1>1, <2>1, <2>2, InitDevInv DEF LatencyInv, LatencyExact
<1>2. DevicesInit => DevInv /\ LatencyInv
  BY <1>1
<1>3. DevInv /\ LatencyInv /\ [DevicesNext]_devVars => DevInv' /\ LatencyInv'
  BY StepCases, StepLatencyInv
<1>4. LatencyInv => LatencyExact
  BY DEF LatencyInv
<1> QED BY <1>2, <1>3, <1>4, PTL DEF DevicesSpec

-----------------------------------------------------------------------------
(***************************************************************************)
(* Machine.                                                                *)
(***************************************************************************)

(* Every set of numbers that holds 0 and the successor of each of its        *)
(* members holds all of them: induction, for a set.                          *)
LEMMA SetInduction ==
  ASSUME NEW S, 0 \in S, \A n \in Nat : n \in S => n + 1 \in S
  PROVE  Nat \subseteq S
<1> DEFINE T == Nat \ S
<1> SUFFICES ASSUME T # {} PROVE FALSE
  OBVIOUS
<1>1. PICK x \in T : \A y \in T : ~ (<<y, x>> \in OpToRel(<, Nat))
  BY NatLessThanWellFounded, WFMin
<1>2. \A y \in T : ~(y < x)
  BY <1>1 DEF OpToRel
<1>3. x # 0 /\ x - 1 \in Nat /\ x - 1 < x
  OBVIOUS
<1>4. x - 1 \in S
  BY <1>2, <1>3
<1> QED BY <1>3, <1>4

(* Powers of two, up to the width of a word: positive, and halved by the     *)
(* next lower exponent.                                                      *)
LEMMA Powers ==
  /\ \A n \in 0..32 : 2^n \in Nat \ {0}
  /\ \A n \in 1..32 : 2^n = 2 * 2^(n - 1)
<1>1. /\ 2^0 = 1 /\ 2^1 = 2 /\ 2^2 = 4 /\ 2^3 = 8
      /\ 2^4 = 16 /\ 2^5 = 32 /\ 2^6 = 64 /\ 2^7 = 128
      /\ 2^8 = 256 /\ 2^9 = 512 /\ 2^10 = 1024 /\ 2^11 = 2048
      /\ 2^12 = 4096 /\ 2^13 = 8192 /\ 2^14 = 16384 /\ 2^15 = 32768
      /\ 2^16 = 65536 /\ 2^17 = 131072 /\ 2^18 = 262144 /\ 2^19 = 524288
      /\ 2^20 = 1048576 /\ 2^21 = 2097152 /\ 2^22 = 4194304 /\ 2^23 = 8388608
      /\ 2^24 = 16777216 /\ 2^25 = 33554432 /\ 2^26 = 67108864 /\ 2^27 = 134217728
      /\ 2^28 = 268435456 /\ 2^29 = 536870912 /\ 2^30 = 1073741824 /\ 2^31 = 2147483648
      /\ 2^32 = 4294967296
  OBVIOUS
<1>2. ASSUME NEW n \in 0..32
      PROVE  2^n \in Nat \ {0} /\ (n > 0 => 2^n = 2 * 2^(n - 1))
  <2>1. \/ n = 0 \/ n = 1 \/ n = 2 \/ n = 3 \/ n = 4 \/ n = 5 \/ n = 6 \/ n = 7
        \/ n = 8 \/ n = 9 \/ n = 10 \/ n = 11 \/ n = 12 \/ n = 13 \/ n = 14 \/ n = 15
        \/ n = 16 \/ n = 17 \/ n = 18 \/ n = 19 \/ n = 20 \/ n = 21 \/ n = 22 \/ n = 23
        \/ n = 24 \/ n = 25 \/ n = 26 \/ n = 27 \/ n = 28 \/ n = 29 \/ n = 30 \/ n = 31
        \/ n = 32
    OBVIOUS
  <2>2. CASE n = 0
    BY <1>1, <2>2
  <2>3. CASE n = 1
    <3>1. n - 1 = 0
      BY <2>3
    <3> QED BY <1>1, <2>3, <3>1
  <2>4. CASE n = 2
    <3>1. n - 1 = 1
      BY <2>4
    <3> QED BY <1>1, <2>4, <3>1
  <2>5. CASE n = 3
    <3>1. n - 1 = 2
      BY <2>5
    <3> QED BY <1>1, <2>5, <3>1
  <2>6. CASE n = 4
    <3>1. n - 1 = 3
      BY <2>6
    <3> QED BY <1>1, <2>6, <3>1
  <2>7. CASE n = 5
    <3>1. n - 1 = 4
      BY <2>7
    <3> QED BY <1>1, <2>7, <3>1
  <2>8. CASE n = 6
    <3>1. n - 1 = 5
      BY <2>8
    <3> QED BY <1>1, <2>8, <3>1
  <2>9. CASE n = 7
    <3>1. n - 1 = 6
      BY <2>9
    <3> QED BY <1>1, <2>9, <3>1
  <2>10. CASE n = 8
    <3>1. n - 1 = 7
      BY <2>10
    <3> QED BY <1>1, <2>10, <3>1
  <2>11. CASE n = 9
    <3>1. n - 1 = 8
      BY <2>11
    <3> QED BY <1>1, <2>11, <3>1
  <2>12. CASE n = 10
    <3>1. n - 1 = 9
      BY <2>12
    <3> QED BY <1>1, <2>12, <3>1
  <2>13. CASE n = 11
    <3>1. n - 1 = 10
      BY <2>13
    <3> QED BY <1>1, <2>13, <3>1
  <2>14. CASE n = 12
    <3>1. n - 1 = 11
      BY <2>14
    <3> QED BY <1>1, <2>14, <3>1
  <2>15. CASE n = 13
    <3>1. n - 1 = 12
      BY <2>15
    <3> QED BY <1>1, <2>15, <3>1
  <2>16. CASE n = 14
    <3>1. n - 1 = 13
      BY <2>16
    <3> QED BY <1>1, <2>16, <3>1
  <2>17. CASE n = 15
    <3>1. n - 1 = 14
      BY <2>17
    <3> QED BY <1>1, <2>17, <3>1
  <2>18. CASE n = 16
    <3>1. n - 1 = 15
      BY <2>18
    <3> QED BY <1>1, <2>18, <3>1
  <2>19. CASE n = 17
    <3>1. n - 1 = 16
      BY <2>19
    <3> QED BY <1>1, <2>19, <3>1
  <2>20. CASE n = 18
    <3>1. n - 1 = 17
      BY <2>20
    <3> QED BY <1>1, <2>20, <3>1
  <2>21. CASE n = 19
    <3>1. n - 1 = 18
      BY <2>21
    <3> QED BY <1>1, <2>21, <3>1
  <2>22. CASE n = 20
    <3>1. n - 1 = 19
      BY <2>22
    <3> QED BY <1>1, <2>22, <3>1
  <2>23. CASE n = 21
    <3>1. n - 1 = 20
      BY <2>23
    <3> QED BY <1>1, <2>23, <3>1
  <2>24. CASE n = 22
    <3>1. n - 1 = 21
      BY <2>24
    <3> QED BY <1>1, <2>24, <3>1
  <2>25. CASE n = 23
    <3>1. n - 1 = 22
      BY <2>25
    <3> QED BY <1>1, <2>25, <3>1
  <2>26. CASE n = 24
    <3>1. n - 1 = 23
      BY <2>26
    <3> QED BY <1>1, <2>26, <3>1
  <2>27. CASE n = 25
    <3>1. n - 1 = 24
      BY <2>27
    <3> QED BY <1>1, <2>27, <3>1
  <2>28. CASE n = 26
    <3>1. n - 1 = 25
      BY <2>28
    <3> QED BY <1>1, <2>28, <3>1
  <2>29. CASE n = 27
    <3>1. n - 1 = 26
      BY <2>29
    <3> QED BY <1>1, <2>29, <3>1
  <2>30. CASE n = 28
    <3>1. n - 1 = 27
      BY <2>30
    <3> QED BY <1>1, <2>30, <3>1
  <2>31. CASE n = 29
    <3>1. n - 1 = 28
      BY <2>31
    <3> QED BY <1>1, <2>31, <3>1
  <2>32. CASE n = 30
    <3>1. n - 1 = 29
      BY <2>32
    <3> QED BY <1>1, <2>32, <3>1
  <2>33. CASE n = 31
    <3>1. n - 1 = 30
      BY <2>33
    <3> QED BY <1>1, <2>33, <3>1
  <2>34. CASE n = 32
    <3>1. n - 1 = 31
      BY <2>34
    <3> QED BY <1>1, <2>34, <3>1
  <2> QED BY <2>1, <2>2, <2>3, <2>4, <2>5, <2>6, <2>7, <2>8, <2>9, <2>10, <2>11, <2>12, <2>13, <2>14, <2>15, <2>16, <2>17, <2>18, <2>19, <2>20, <2>21, <2>22, <2>23, <2>24, <2>25, <2>26, <2>27, <2>28, <2>29, <2>30, <2>31, <2>32, <2>33, <2>34
<1> QED BY <1>2

(* The widths of the three machines. *)
LEMMA Widths ==
  \/ /\ ByteBits = 2 /\ HalfBits = 4 /\ WordBits = 8
     /\ Modulus = 256 /\ SIGN_BIT = 128
  \/ /\ ByteBits = 4 /\ HalfBits = 8 /\ WordBits = 16
     /\ Modulus = 65536 /\ SIGN_BIT = 32768
  \/ /\ ByteBits = 8 /\ HalfBits = 16 /\ WordBits = 32
     /\ Modulus = 4294967296 /\ SIGN_BIT = 2147483648
<1>1. CASE ByteBits = 2
  BY <1>1 DEF HalfBits, WordBits, Modulus, SIGN_BIT
<1>2. CASE ByteBits = 4
  BY <1>2 DEF HalfBits, WordBits, Modulus, SIGN_BIT
<1>3. CASE ByteBits = 8
  BY <1>3 DEF HalfBits, WordBits, Modulus, SIGN_BIT
<1> QED BY <1>1, <1>2, <1>3, MachineAssumption

LEMMA ModulusType ==
  /\ Modulus \in Nat /\ Modulus > 4 /\ SIGN_BIT \in Nat /\ SIGN_BIT > 0
  /\ Modulus = 2 * SIGN_BIT
  /\ WordBits \in Nat /\ WordBits \in 1..32 /\ Modulus = 2^WordBits
<1>1. Modulus = 2^WordBits
  BY DEF Modulus
<1> QED BY Widths, <1>1

LEMMA WordType ==
  /\ \A n \in Int : W(n) \in Word
  /\ \A x \in Word : x \in Int /\ W(x) = x
  /\ 0 \in Word /\ 1 \in Word /\ 4 \in Word
BY ModulusType DEF W, Word

-----------------------------------------------------------------------------
(* Registers. *)

Reg == 0..(NumTotalRegs - 1)

(* What every instruction relies on: words in the registers, zero in         *)
(* register 0, and the number of a general register for a load in progress.  *)
RegsOK(reg) ==
    /\ reg \in [Reg -> Word]
    /\ reg[0] = 0
    /\ reg[LoadReg] \in GPReg

LEMMA RegNumbers ==
  /\ Reg = 0..11 /\ GPReg = 0..3
  /\ HiReg = 4 /\ LoReg = 5 /\ PCReg = 6 /\ NextPCReg = 7 /\ PrevPCReg = 8
  /\ LoadReg = 9 /\ LoadValueReg = 10 /\ BadVAddrReg = 11 /\ R31 = 3
BY DEF Reg, GPReg, NumGPRegs, NumTotalRegs, HiReg, LoReg, PCReg, NextPCReg,
       PrevPCReg, LoadReg, LoadValueReg, BadVAddrReg, R31

(* DelayedLoad, register by register. *)
LEMMA DelayedLoadIs ==
  ASSUME NEW reg \in [Reg -> Word], reg[LoadReg] \in GPReg,
         NEW n \in GPReg, NEW v \in Word
  PROVE  /\ RegsOK(DelayedLoad(reg, n, v))
         /\ \A r \in Reg : DelayedLoad(reg, n, v)[r] =
                IF r = 0 THEN 0 ELSE IF r = LoadReg THEN n
                ELSE IF r = LoadValueReg THEN v
                ELSE IF r = reg[LoadReg] THEN reg[LoadValueReg] ELSE reg[r]
<1> DEFINE d == DelayedLoad(reg, n, v)
<1>1. \A r \in Reg : d[r] = IF r = 0 THEN 0 ELSE IF r = LoadReg THEN n
                ELSE IF r = LoadValueReg THEN v
                ELSE IF r = reg[LoadReg] THEN reg[LoadValueReg] ELSE reg[r]
  BY RegNumbers DEF DelayedLoad
<1>2. d \in [Reg -> Word]
  <2>1. n \in Word
    BY WordType, RegNumbers, ModulusType DEF Word
  <2> QED BY <2>1, WordType, RegNumbers DEF DelayedLoad
<1> HIDE DEF d
<1>3. d[0] = 0 /\ d[LoadReg] = n
  BY <1>1, RegNumbers
<1> QED BY <1>1, <1>2, <1>3 DEF RegsOK, d

(* UpdatePC, register by register. *)
LEMMA UpdatePCIs ==
  ASSUME NEW reg, RegsOK(reg)
  PROVE  /\ RegsOK(UpdatePC(reg))
         /\ \A r \in Reg : UpdatePC(reg)[r] =
                IF r = PrevPCReg THEN reg[PCReg] ELSE IF r = PCReg THEN reg[NextPCReg]
                ELSE IF r = NextPCReg THEN W(reg[NextPCReg] + 4) ELSE reg[r]
<1> DEFINE d == UpdatePC(reg)
<1>0. W(reg[NextPCReg] + 4) \in Word /\ reg \in [Reg -> Word]
  BY WordType, RegNumbers DEF RegsOK
<1>1. \A r \in Reg : d[r] = IF r = PrevPCReg THEN reg[PCReg]
                ELSE IF r = PCReg THEN reg[NextPCReg]
                ELSE IF r = NextPCReg THEN W(reg[NextPCReg] + 4) ELSE reg[r]
  BY <1>0, RegNumbers DEF UpdatePC
<1>2. d \in [Reg -> Word]
  BY <1>0, RegNumbers DEF UpdatePC
<1> HIDE DEF d
<1>3. d[0] = 0 /\ d[LoadReg] \in GPReg
  BY <1>1, RegNumbers DEF RegsOK
<1> QED BY <1>1, <1>2, <1>3 DEF RegsOK, d

-----------------------------------------------------------------------------
(* Machine states as records. *)

Bytes      == 0..(2^ByteBits - 1)
Memories   == [0..(MemorySize - 1) -> Bytes]
PageEntry  == [physicalPage : Nat, valid : BOOLEAN, readOnly : BOOLEAN,
               use : BOOLEAN, dirty : BOOLEAN]
Exceptions == {"NoException", "AddressErrorException", "PageFaultException",
               "ReadOnlyException", "BusErrorException", "OverflowException",
               "SyscallException", "IllegalInstrException"}
Stops      == {"no", "ASSERT", "divideTrap"}
MachineState == [reg : [Reg -> Word], mem : Memories, pt : Seq(PageEntry),
                 exc : Exceptions, stop : Stops]

StateOK(s) == s \in MachineState /\ RegsOK(s.reg)

(* Visible, register by register. *)
LEMMA VisibleIs ==
  ASSUME NEW reg
  PROVE  \A r \in 0..5 : Visible(reg)[r] =
             IF r # 0 /\ r = reg[LoadReg] THEN reg[LoadValueReg] ELSE reg[r]
BY RegNumbers DEF Visible

LEMMA VisibleEqual ==
  ASSUME NEW reg, NEW reg2,
         \A r \in 0..5 : Visible(reg)[r] = Visible(reg2)[r]
  PROVE  Visible(reg) = Visible(reg2)
BY RegNumbers DEF Visible

(* What an exception does: it finishes the load in progress, records the     *)
(* address and goes on behind the instruction.                               *)
LEMMA RaiseIs ==
  ASSUME NEW s, StateOK(s), NEW which \in Exceptions, NEW addr \in Word
  PROVE  LET n == RaiseException(s, which, addr) IN
         /\ StateOK(n)
         /\ n.exc = which /\ n.mem = s.mem /\ n.pt = s.pt /\ n.stop = s.stop
         /\ Visible(n.reg) = Visible(s.reg)
         /\ n.reg[PCReg] = s.reg[NextPCReg] /\ n.reg[PrevPCReg] = s.reg[PCReg]
         /\ n.reg[NextPCReg] = W(s.reg[NextPCReg] + 4) /\ n.reg[BadVAddrReg] = addr
<1> DEFINE n == RaiseException(s, which, addr)
<1>0. s \in MachineState /\ RegsOK(s.reg)
  BY DEF StateOK
<1>1. PICK r0 : r0 = [s.reg EXCEPT ![BadVAddrReg] = addr]
  OBVIOUS
<1>2. /\ r0 \in [Reg -> Word] /\ r0[BadVAddrReg] = addr
      /\ \A r \in Reg : r # BadVAddrReg => r0[r] = s.reg[r]
  BY <1>0, <1>1, RegNumbers DEF RegsOK
<1>3. r0[LoadReg] \in GPReg /\ r0[0] = 0
  BY <1>0, <1>2, RegNumbers DEF RegsOK
<1>4. 0 \in GPReg /\ 0 \in Word
  BY RegNumbers, WordType
<1>5. PICK r1 : r1 = DelayedLoad(r0, 0, 0)
  OBVIOUS
<1>6. /\ RegsOK(r1)
      /\ \A r \in Reg : r1[r] = IF r = 0 THEN 0 ELSE IF r = LoadReg THEN 0
                ELSE IF r = LoadValueReg THEN 0
                ELSE IF r = r0[LoadReg] THEN r0[LoadValueReg] ELSE r0[r]
  BY <1>2, <1>3, <1>4, <1>5, DelayedLoadIs
<1>7. PICK r2 : r2 = UpdatePC(r1)
  OBVIOUS
<1>8. /\ RegsOK(r2)
      /\ \A r \in Reg : r2[r] =
                IF r = PrevPCReg THEN r1[PCReg] ELSE IF r = PCReg THEN r1[NextPCReg]
                ELSE IF r = NextPCReg THEN W(r1[NextPCReg] + 4) ELSE r1[r]
  BY <1>6, <1>7, UpdatePCIs
<1>9. n = [s EXCEPT !.exc = which, !.reg = r2]
  BY <1>1, <1>5, <1>7 DEF RaiseException
<1>10. /\ n \in MachineState /\ n.reg = r2 /\ n.exc = which
       /\ n.mem = s.mem /\ n.pt = s.pt /\ n.stop = s.stop
  BY <1>0, <1>8, <1>9 DEF MachineState, RegsOK
<1>11. \A r \in 0..5 : Visible(r2)[r] = Visible(s.reg)[r]
  <2> TAKE r \in 0..5
  <2>1. r \in Reg /\ r # PrevPCReg /\ r # PCReg /\ r # NextPCReg /\ r # LoadReg
        /\ r # LoadValueReg /\ r # BadVAddrReg /\ LoadReg \in Reg /\ LoadValueReg \in Reg
        /\ LoadReg # PrevPCReg /\ LoadReg # PCReg /\ LoadReg # NextPCReg
        /\ LoadReg # BadVAddrReg /\ LoadValueReg # BadVAddrReg /\ LoadReg # 0
    BY RegNumbers
  <2>2. Visible(r2)[r] = IF r # 0 /\ r = r2[LoadReg] THEN r2[LoadValueReg] ELSE r2[r]
    BY VisibleIs
  <2>3. Visible(s.reg)[r] = IF r # 0 /\ r = s.reg[LoadReg] THEN s.reg[LoadValueReg] ELSE s.reg[r]
    BY VisibleIs
  <2>4. r2[LoadReg] = 0 /\ r2[r] = r1[r]
    BY <1>6, <1>8, <2>1
  <2>5. r1[r] = IF r = 0 THEN 0 ELSE IF r = s.reg[LoadReg] THEN s.reg[LoadValueReg] ELSE s.reg[r]
    BY <1>6, <1>2, <2>1
  <2> QED BY <1>0, <2>2, <2>3, <2>4, <2>5 DEF RegsOK
<1>12. Visible(n.reg) = Visible(s.reg)
  BY <1>10, <1>11, VisibleEqual
<1>13. s.reg[LoadReg] \in 0..3
  BY <1>0, RegNumbers DEF RegsOK
<1>14. \A r \in {PCReg, NextPCReg} : r1[r] = s.reg[r]
  BY <1>2, <1>6, <1>13, RegNumbers
<1>15. r1[BadVAddrReg] = addr
  BY <1>2, <1>6, <1>13, RegNumbers
<1>16. /\ r2[PCReg] = s.reg[NextPCReg] /\ r2[PrevPCReg] = s.reg[PCReg]
       /\ r2[NextPCReg] = W(s.reg[NextPCReg] + 4) /\ r2[BadVAddrReg] = addr
  BY <1>8, <1>14, <1>15, RegNumbers
<1> QED BY <1>8, <1>10, <1>12, <1>16 DEF StateOK

(* What the end of an instruction does: the load in progress arrives, the    *)
(* next one is in progress, and the program counters move on.                *)
Ends(s, reg, nl, nv, after, n) ==
    /\ n.exc = s.exc /\ n.mem = s.mem /\ n.stop = s.stop
    /\ n.reg[PCReg] = reg[NextPCReg] /\ n.reg[PrevPCReg] = reg[PCReg]
    /\ n.reg[NextPCReg] = after /\ n.reg[BadVAddrReg] = reg[BadVAddrReg]
    /\ n.reg[LoadReg] = nl /\ n.reg[LoadValueReg] = nv
    /\ \A r \in 0..5 : n.reg[r] =
           IF r = 0 THEN 0 ELSE IF r = reg[LoadReg] THEN reg[LoadValueReg] ELSE reg[r]

LEMMA CompleteIs ==
  ASSUME NEW s, StateOK(s), NEW reg \in [Reg -> Word], reg[LoadReg] \in GPReg,
         NEW nl \in GPReg, NEW nv \in Word, NEW after \in Word
  PROVE  LET n == Complete(s, reg, nl, nv, after) IN
         /\ StateOK(n) /\ n.exc = s.exc /\ n.mem = s.mem /\ n.pt = s.pt
         /\ Ends(s, reg, nl, nv, after, n)
<1> DEFINE n == Complete(s, reg, nl, nv, after)
<1>0. s \in MachineState
  BY DEF StateOK
<1>1. PICK r1 : r1 = DelayedLoad(reg, nl, nv)
  OBVIOUS
<1>2. /\ RegsOK(r1)
      /\ \A r \in Reg : r1[r] = IF r = 0 THEN 0 ELSE IF r = LoadReg THEN nl
                ELSE IF r = LoadValueReg THEN nv
                ELSE IF r = reg[LoadReg] THEN reg[LoadValueReg] ELSE reg[r]
  BY <1>1, DelayedLoadIs
<1>3. PICK r2 : r2 = [r1 EXCEPT ![PrevPCReg] = r1[PCReg], ![PCReg] = r1[NextPCReg],
                                ![NextPCReg] = after]
  OBVIOUS
<1>4. r1 \in [Reg -> Word]
  BY <1>2 DEF RegsOK
<1>5. /\ r2 \in [Reg -> Word]
      /\ \A r \in Reg : r2[r] =
                IF r = PrevPCReg THEN r1[PCReg] ELSE IF r = PCReg THEN r1[NextPCReg]
                ELSE IF r = NextPCReg THEN after ELSE r1[r]
  BY <1>3, <1>4, RegNumbers
<1>6. n = [s EXCEPT !.reg = r2]
  BY <1>1, <1>3 DEF Complete
<1>7. /\ n \in MachineState /\ n.reg = r2 /\ n.exc = s.exc
      /\ n.mem = s.mem /\ n.pt = s.pt /\ n.stop = s.stop
  BY <1>0, <1>5, <1>6 DEF MachineState
<1>8. reg[LoadReg] \in 0..3
  BY RegNumbers
<1>9. \A r \in 0..5 : r2[r] = IF r = 0 THEN 0
                ELSE IF r = reg[LoadReg] THEN reg[LoadValueReg] ELSE reg[r]
  BY <1>2, <1>5, RegNumbers
<1>10. /\ r2[PCReg] = reg[NextPCReg] /\ r2[PrevPCReg] = reg[PCReg]
       /\ r2[NextPCReg] = after /\ r2[BadVAddrReg] = reg[BadVAddrReg]
       /\ r2[LoadReg] = nl /\ r2[LoadValueReg] = nv
  BY <1>2, <1>5, <1>8, RegNumbers
<1>11. RegsOK(r2)
  BY <1>5, <1>9, <1>10 DEF RegsOK
<1> HIDE DEF n
<1>12. Ends(s, reg, nl, nv, after, n)
  BY <1>7, <1>9, <1>10 DEF Ends
<1> QED BY <1>7, <1>11, <1>12 DEF StateOK, n

LEMMA DieIs ==
  ASSUME NEW s, StateOK(s), NEW why \in Stops
  PROVE  LET n == Die(s, why) IN
         /\ StateOK(n) /\ n.reg = s.reg /\ n.exc = s.exc
         /\ n.mem = s.mem /\ n.pt = s.pt /\ n.stop = why
BY DEF Die, StateOK, MachineState, Stops

-----------------------------------------------------------------------------
(* Values. *)

LEMMA WidthPowers ==
  /\ 2^ByteBits \in Nat \ {0} /\ 2^HalfBits \in Nat \ {0} /\ 2^(3 * ByteBits) \in Nat \ {0}
  /\ 2^ByteBits * 2^ByteBits = 2^HalfBits
  /\ 2^HalfBits * 2^HalfBits = Modulus
  /\ 2^ByteBits * 2^(3 * ByteBits) = Modulus
  /\ 2^ByteBits * 2^HalfBits = 2^(3 * ByteBits)
  /\ 2^(WordBits - 2) \in Nat \ {0} /\ 4 * 2^(WordBits - 2) = Modulus
  /\ 2^(ByteBits * 0) = 1 /\ 2^(ByteBits * 1) = 2^ByteBits
  /\ 2^(ByteBits * 2) = 2^HalfBits /\ 2^(ByteBits * 3) = 2^(3 * ByteBits)
  /\ 2^(ByteBits - 1) \in Nat /\ 2 * 2^(ByteBits - 1) = 2^ByteBits
  /\ 2^(HalfBits - 1) \in Nat /\ 2 * 2^(HalfBits - 1) = 2^HalfBits
<1>1. CASE ByteBits = 2
  <2>1. /\ HalfBits = 4 /\ Modulus = 256 /\ 3 * ByteBits = 6 /\ WordBits - 2 = 6
        /\ ByteBits * 0 = 0 /\ ByteBits * 1 = 2 /\ ByteBits * 2 = 4 /\ ByteBits * 3 = 6
        /\ ByteBits - 1 = 1 /\ HalfBits - 1 = 3
    BY <1>1, Widths
  <2>2. 2^0 = 1 /\ 2^1 = 2 /\ 2^2 = 4 /\ 2^3 = 8 /\ 2^4 = 16 /\ 2^6 = 64
    OBVIOUS
  <2> QED BY <1>1, <2>1, <2>2
<1>2. CASE ByteBits = 4
  <2>1. /\ HalfBits = 8 /\ Modulus = 65536 /\ 3 * ByteBits = 12 /\ WordBits - 2 = 14
        /\ ByteBits * 0 = 0 /\ ByteBits * 1 = 4 /\ ByteBits * 2 = 8 /\ ByteBits * 3 = 12
        /\ ByteBits - 1 = 3 /\ HalfBits - 1 = 7
    BY <1>2, Widths
  <2>2. /\ 2^0 = 1 /\ 2^3 = 8 /\ 2^4 = 16 /\ 2^7 = 128 /\ 2^8 = 256
        /\ 2^12 = 4096 /\ 2^14 = 16384
    OBVIOUS
  <2> QED BY <1>2, <2>1, <2>2
<1>3. CASE ByteBits = 8
  <2>1. /\ HalfBits = 16 /\ Modulus = 4294967296 /\ 3 * ByteBits = 24 /\ WordBits - 2 = 30
        /\ ByteBits * 0 = 0 /\ ByteBits * 1 = 8 /\ ByteBits * 2 = 16 /\ ByteBits * 3 = 24
        /\ ByteBits - 1 = 7 /\ HalfBits - 1 = 15
    BY <1>3, Widths
  <2>2. /\ 2^0 = 1 /\ 2^7 = 128 /\ 2^8 = 256 /\ 2^15 = 32768 /\ 2^16 = 65536
        /\ 2^24 = 16777216 /\ 2^30 = 1073741824
    OBVIOUS
  <2> QED BY <1>3, <2>1, <2>2
<1> QED BY <1>1, <1>2, <1>3, MachineAssumption

(* A set of numbers with a bound has a greatest member. *)
LEMMA MaxIn ==
  ASSUME NEW S \in SUBSET Nat, S # {}, NEW b \in Nat, \A x \in S : x <= b
  PROVE  Max(S) \in S /\ \A x \in S : x <= Max(S)
<1> DEFINE U == {n \in Nat : \A x \in S : x <= n}
<1>1. PICK u \in U : \A y \in U : ~ (<<y, u>> \in OpToRel(<, Nat))
  <2>1. U \subseteq Nat /\ U # {}
    OBVIOUS
  <2> QED BY <2>1, NatLessThanWellFounded, WFMin
<1>2. \A y \in U : ~(y < u)
  BY <1>1 DEF OpToRel
<1>3. u \in S
  <2> SUFFICES ASSUME u \notin S PROVE FALSE
    OBVIOUS
  <2>1. \A x \in S : x < u
    OBVIOUS
  <2>2. u > 0
    <3>1. PICK x : x \in S
      OBVIOUS
    <3> QED BY <2>1, <3>1
  <2>3. u - 1 \in U
    BY <2>1, <2>2
  <2> QED BY <1>2, <2>3
<1>4. \E m \in S : \A x \in S : m >= x
  BY <1>3
<1> QED BY <1>4 DEF Max

LEMMA BitPower ==
  ASSUME NEW k \in Bit
  PROVE  2^k \in Nat \ {0}
<1>1. k \in 0..32
  BY ModulusType DEF Bit
<1>2. \A n \in 0..32 : 2^n \in Nat \ {0}
  BY Powers
<1> QED BY <1>1, <1>2

LEMMA FromBitsType ==
  ASSUME NEW S
  PROVE  FromBits(S) \in Word
<1> DEFINE X == {x \in Word : \A k \in Bit \ S : (x \div 2^k) % 2 = 0}
<1>1. ASSUME NEW k \in Bit PROVE (0 \div 2^k) % 2 = 0
  <2>1. PICK d \in Nat \ {0} : d = 2^k
    BY BitPower
  <2>2. 0 \div d = 0
    OBVIOUS
  <2> QED BY <2>1, <2>2
<1>2. X \in SUBSET Nat /\ X # {}
  BY <1>1, WordType DEF Word
<1>3. \A x \in X : x <= Modulus
  BY ModulusType DEF Word
<1>4. Max(X) \in X
  BY <1>2, <1>3, MaxIn, ModulusType
<1> QED BY <1>4 DEF FromBits

LEMMA BitTypes ==
  ASSUME NEW x, NEW y
  PROVE  BitAnd(x, y) \in Word /\ BitOr(x, y) \in Word /\ BitXor(x, y) \in Word
BY FromBitsType DEF BitAnd, BitOr, BitXor

LEMMA SignedType ==
  ASSUME NEW x \in Int
  PROVE  Signed(x) \in Int
BY ModulusType DEF Signed

(* A quotient of a word by a positive number is a word. *)
LEMMA QuotientWord ==
  ASSUME NEW x \in Nat, NEW d \in Nat \ {0}
  PROVE  x \div d \in Nat /\ x \div d <= x
OBVIOUS

LEMMA ShiftTypes ==
  ASSUME NEW x \in Word, NEW n \in Bit
  PROVE  /\ ShiftLeft(x, n) \in Word
         /\ ShiftArith(x, n) \in Word
         /\ ShiftLogic(x, n) \in Word
<1>1. 2^n \in Nat \ {0}
  BY BitPower
<1>2. x \in Nat /\ x < Modulus
  BY ModulusType DEF Word
<1>3. PICK d \in Nat \ {0} : d = 2^n
  BY <1>1
<1>4. x * d \in Int /\ Signed(x) \div d \in Int
  BY <1>2, SignedType
<1>5. x \div d \in Word
  BY <1>2, QuotientWord, ModulusType DEF Word
<1> QED BY <1>3, <1>4, <1>5, WordType DEF ShiftLeft, ShiftArith, ShiftLogic

LEMMA RdValueType ==
  ASSUME NEW op \in RdOps, NEW a \in Word, NEW b \in Word, NEW sa \in Bit
  PROVE  RdValue(op, a, b, sa) \in Word
<1>1. a \in Int /\ b \in Int /\ a % WordBits \in Bit
  BY WordType, ModulusType DEF Bit
<1>2. W(a + b) \in Word /\ W(a - b) \in Word
  BY <1>1, WordType
<1>3. Invert(BitOr(a, b)) \in Word
  BY BitTypes, ModulusType DEF Invert, Word
<1>4. \A q \in BOOLEAN : Flag(q) \in Word
  BY WordType DEF Flag
<1>5. (Signed(a) < Signed(b)) \in BOOLEAN /\ (a < b) \in BOOLEAN
  BY <1>1, SignedType
<1> QED BY <1>1, <1>2, <1>3, <1>4, <1>5, BitTypes, ShiftTypes DEF RdValue, RdOps

LEMMA RtValueType ==
  ASSUME NEW op \in RtOps, NEW a \in Word, NEW extra \in Int
  PROVE  RtValue(op, a, extra) \in Word
<1>1. a \in Int /\ extra * 2^HalfBits \in Int
  BY WordType, WidthPowers
<1>2. W(a + extra) \in Word /\ ShiftLeft(extra, HalfBits) \in Word
  BY <1>1, WordType DEF ShiftLeft
<1>4. \A q \in BOOLEAN : Flag(q) \in Word
  BY WordType DEF Flag
<1>5. (Signed(a) < Signed(extra)) \in BOOLEAN /\ (a < extra) \in BOOLEAN
  BY <1>1, SignedType
<1> QED BY <1>2, <1>4, <1>5, BitTypes DEF RtValue, RtOps

-----------------------------------------------------------------------------
(* Multiplication. *)

Pair(hi, lo) == hi * Modulus + lo

LEMMA Wraps ==
  ASSUME NEW n \in Nat
  PROVE  /\ n < Modulus => W(n) = n
         /\ Modulus <= n /\ n < 2 * Modulus => W(n) = n - Modulus
BY ModulusType DEF W

LEMMA Distribute ==
  ASSUME NEW x \in Int, NEW y \in Int, NEW z \in Int, NEW m \in Int
  PROVE  (x + y + z) * m = x * m + y * m + z * m
OBVIOUS

(* Two double words are added word by word, with the carry. *)
LEMMA AddCarry ==
  ASSUME NEW hi \in Word, NEW lo \in Word, NEW bHi \in Word, NEW bLo \in Word,
         Pair(hi, lo) + Pair(bHi, bLo) < Modulus * Modulus
  PROVE  LET l == W(lo + bLo)
             h == W(hi + Flag(l < bLo) + bHi)
         IN  /\ l \in Word /\ h \in Word
             /\ Pair(h, l) = Pair(hi, lo) + Pair(bHi, bLo)
<1> DEFINE l == W(lo + bLo)
           c == Flag(l < bLo)
           sum == hi + c + bHi
<1>0. /\ hi \in Nat /\ lo \in Nat /\ bHi \in Nat /\ bLo \in Nat
      /\ hi < Modulus /\ lo < Modulus /\ bHi < Modulus /\ bLo < Modulus
  BY ModulusType DEF Word
<1>1. l \in Word /\ l \in Nat
  BY <1>0, WordType, ModulusType DEF Word
<1>2. c \in {0, 1} /\ lo + bLo = c * Modulus + l
  <2>1. CASE lo + bLo < Modulus
    <3>1. l = lo + bLo
      BY <1>0, <2>1, Wraps
    <3> QED BY <1>0, <3>1, ModulusType DEF Flag
  <2>2. CASE lo + bLo >= Modulus
    <3>1. l = lo + bLo - Modulus
      BY <1>0, <2>2, Wraps, ModulusType
    <3> QED BY <1>0, <2>2, <3>1, ModulusType DEF Flag
  <2> QED BY <1>0, <2>1, <2>2, ModulusType
<1> HIDE DEF l, c
<1>3. sum \in Nat /\ sum * Modulus = hi * Modulus + c * Modulus + bHi * Modulus
  BY <1>0, <1>2, Distribute, ModulusType
<1>4. sum * Modulus + l = Pair(hi, lo) + Pair(bHi, bLo)
  <2>1. hi * Modulus \in Nat /\ c * Modulus \in Nat /\ bHi * Modulus \in Nat
    BY <1>0, <1>2, ModulusType
  <2> QED BY <1>0, <1>1, <1>2, <1>3, <2>1 DEF Pair
<1>5. sum < Modulus
  <2> SUFFICES ASSUME sum >= Modulus PROVE FALSE
    BY <1>3, ModulusType
  <2>1. ASSUME NEW x \in Nat, NEW m \in Nat, x >= m PROVE x * m >= m * m
    BY <2>1
  <2>2. sum * Modulus >= Modulus * Modulus
    BY <1>3, <2>1, ModulusType
  <2>3. sum * Modulus \in Nat /\ Modulus * Modulus \in Nat
    BY <1>3, ModulusType
  <2> QED BY <1>1, <1>4, <2>2, <2>3
<1>6. W(sum) = sum /\ sum \in Word
  BY <1>3, <1>5, Wraps, ModulusType DEF Word
<1>7. Pair(W(sum), l) = Pair(hi, lo) + Pair(bHi, bLo)
  BY <1>4, <1>6 DEF Pair
<1> QED BY <1>1, <1>6, <1>7 DEF l, c

(* A double word is doubled word by word. *)
LEMMA ShiftCarry ==
  ASSUME NEW bHi \in Word, NEW bLo \in Word
  PROVE  LET l == ShiftLeft(bLo, 1)
             h == W(2 * bHi + Flag(bLo >= SIGN_BIT))
         IN  /\ l \in Word /\ h \in Word
             /\ 2 * Pair(bHi, bLo) < Modulus * Modulus => Pair(h, l) = 2 * Pair(bHi, bLo)
<1> DEFINE l == ShiftLeft(bLo, 1)
           c == Flag(bLo >= SIGN_BIT)
           sum == bHi + bHi + c
<1>0. /\ bHi \in Nat /\ bLo \in Nat /\ bHi < Modulus /\ bLo < Modulus
  BY ModulusType DEF Word
<1>1. l = W(2 * bLo)
  <2>1. 2^1 = 2
    OBVIOUS
  <2> QED BY <1>0, <2>1 DEF ShiftLeft
<1>2. l \in Word /\ l \in Nat
  BY <1>0, <1>1, WordType, ModulusType DEF Word
<1>3. c \in {0, 1} /\ 2 * bLo = c * Modulus + l
  <2>1. CASE bLo < SIGN_BIT
    <3>1. l = 2 * bLo
      BY <1>0, <1>1, <2>1, Wraps, ModulusType
    <3> QED BY <1>0, <2>1, <3>1, ModulusType DEF Flag
  <2>2. CASE bLo >= SIGN_BIT
    <3>1. l = 2 * bLo - Modulus
      BY <1>0, <1>1, <2>2, Wraps, ModulusType
    <3> QED BY <1>0, <2>2, <3>1, ModulusType DEF Flag
  <2> QED BY <1>0, <2>1, <2>2, ModulusType
<1>4. 2 * bHi + Flag(bLo >= SIGN_BIT) = sum /\ sum \in Nat
  BY <1>0, <1>3
<1> HIDE DEF l, c
<1>5. sum * Modulus = bHi * Modulus + bHi * Modulus + c * Modulus
  BY <1>0, <1>3, Distribute, ModulusType
<1>6. sum * Modulus + l = 2 * Pair(bHi, bLo)
  <2>1. c * Modulus \in Nat /\ bHi * Modulus \in Nat
    BY <1>0, <1>3, ModulusType
  <2> QED BY <1>0, <1>2, <1>3, <1>5, <2>1 DEF Pair
<1>7. ASSUME 2 * Pair(bHi, bLo) < Modulus * Modulus
      PROVE  Pair(W(sum), l) = 2 * Pair(bHi, bLo)
  <2>1. sum < Modulus
    <3> SUFFICES ASSUME sum >= Modulus PROVE FALSE
      BY <1>4, ModulusType
    <3>1. ASSUME NEW x \in Nat, NEW m \in Nat, x >= m PROVE x * m >= m * m
      BY <3>1
    <3>2. sum * Modulus >= Modulus * Modulus
      BY <1>4, <3>1, ModulusType
    <3>3. sum * Modulus \in Nat /\ Modulus * Modulus \in Nat
      BY <1>4, ModulusType
    <3> QED BY <1>2, <1>6, <1>7, <3>2, <3>3
  <2>2. W(sum) = sum
    BY <1>4, <2>1, Wraps
  <2> QED BY <1>6, <2>2 DEF Pair
<1>8. W(sum) \in Word
  BY <1>4, WordType
<1> QED BY <1>2, <1>4, <1>7, <1>8 DEF l

LEMMA PairType ==
  ASSUME NEW hi \in Word, NEW lo \in Word
  PROVE  Pair(hi, lo) \in Nat
BY ModulusType DEF Pair, Word

(* Half a factor times the double of the other. *)
LEMMA HalfDouble ==
  ASSUME NEW a \in Nat, NEW b \in Nat
  PROVE  /\ a \div 2 \in Nat /\ a % 2 \in {0, 1} /\ a = 2 * (a \div 2) + (a % 2)
         /\ a * b \in Nat
         /\ a % 2 = 0 => a * b = (a \div 2) * (2 * b)
         /\ a % 2 = 1 => a * b = (a \div 2) * (2 * b) + b
         /\ a > 0 => b <= a * b
         /\ a \div 2 > 0 => 2 * b <= (a \div 2) * (2 * b)
<1>1. PICK q \in Nat : q = a \div 2
  OBVIOUS
<1>2. a % 2 \in {0, 1} /\ a = 2 * q + (a % 2)
  BY <1>1
<1>3. a * b \in Nat
  OBVIOUS
<1>4. (2 * q) * b = q * (2 * b)
  OBVIOUS
<1>5. (2 * q + 1) * b = q * (2 * b) + b
  OBVIOUS
<1>6. a > 0 => b <= a * b
  OBVIOUS
<1>7. q > 0 => 2 * b <= q * (2 * b)
  <2>1. ASSUME NEW c \in Nat, q > 0 PROVE c <= q * c
    BY <2>1
  <2> QED BY <2>1
<1>8. a % 2 = 0 => a = 2 * q
  BY <1>2
<1>9. a % 2 = 1 => a = 2 * q + 1
  BY <1>2
<1> QED BY <1>1, <1>2, <1>3, <1>4, <1>5, <1>6, <1>7, <1>8, <1>9

(* The loop of Mult keeps this: what was added up and what is left to add    *)
(* make the product prod, and the bits left of a fit k bits.                 *)
MultOK(x, prod, k) ==
    /\ x \in [a : Word, bLo : Word, bHi : Word, lo : Word, hi : Word]
    /\ Pair(x.hi, x.lo) + x.a * Pair(x.bHi, x.bLo) = prod
    /\ x.a < 2^k

LEMMA MultStepOK ==
  ASSUME NEW prod \in Nat, prod < Modulus * Modulus, NEW k \in 0..31,
         NEW x, MultOK(x, prod, k + 1)
  PROVE  MultOK(MultStep(x), prod, k)
<1> DEFINE lo == W(x.lo + x.bLo)
           hi == W(x.hi + Flag(lo < x.bLo) + x.bHi)
           bLo == ShiftLeft(x.bLo, 1)
           bHi == W(2 * x.bHi + Flag(x.bLo >= SIGN_BIT))
           y == MultStep(x)
<1>0. /\ x.a \in Word /\ x.bLo \in Word /\ x.bHi \in Word /\ x.lo \in Word /\ x.hi \in Word
  BY DEF MultOK
<1>1. PICK a \in Nat : a = x.a
  BY <1>0, ModulusType DEF Word
<1>2. PICK b \in Nat : b = Pair(x.bHi, x.bLo)
  BY <1>0, PairType
<1>3. PICK acc \in Nat : acc = Pair(x.hi, x.lo)
  BY <1>0, PairType
<1>4. acc + a * b = prod /\ a < 2^(k + 1)
  BY <1>1, <1>2, <1>3 DEF MultOK
<1>5. /\ a \div 2 \in Nat /\ a % 2 \in {0, 1} /\ a = 2 * (a \div 2) + (a % 2)
      /\ a * b \in Nat
      /\ a % 2 = 0 => a * b = (a \div 2) * (2 * b)
      /\ a % 2 = 1 => a * b = (a \div 2) * (2 * b) + b
      /\ a > 0 => b <= a * b
      /\ a \div 2 > 0 => 2 * b <= (a \div 2) * (2 * b)
  BY HalfDouble
<1>6. PICK q \in Nat : q = a \div 2
  BY <1>5
<1>7. /\ lo \in Word /\ hi \in Word
      /\ a % 2 = 1 => Pair(hi, lo) = acc + b
  <2>1. lo \in Word /\ hi \in Word
    <3>1. x.lo + x.bLo \in Int /\ \A n \in {0, 1} : x.hi + n + x.bHi \in Int
      BY <1>0, WordType
    <3>2. Flag(lo < x.bLo) \in {0, 1}
      BY DEF Flag
    <3> QED BY <3>1, <3>2, WordType
  <2>2. ASSUME a % 2 = 1 PROVE Pair(hi, lo) = acc + b
    <3>1. a > 0
      BY <1>5, <2>2
    <3>2. acc + b < Modulus * Modulus
      BY <1>4, <1>5, <3>1, ModulusType
    <3> QED BY <1>0, <1>2, <1>3, <3>2, AddCarry
  <2> QED BY <2>1, <2>2
<1>8. /\ bLo \in Word /\ bHi \in Word
      /\ 2 * b < Modulus * Modulus => Pair(bHi, bLo) = 2 * b
  BY <1>0, <1>2, ShiftCarry
<1>9. PICK c \in Nat : c = Pair(bHi, bLo)
  BY <1>8, PairType
<1>10. q * c = q * (2 * b)
  <2>1. CASE q = 0
    BY <2>1
  <2>2. CASE q > 0
    <3>1. PICK z \in Nat : z = q * (2 * b)
      OBVIOUS
    <3>2. 2 * b <= z
      BY <1>5, <1>6, <2>2, <3>1
    <3>3. a * b = z \/ a * b = z + b
      BY <1>5, <1>6, <3>1
    <3>4. 2 * b < Modulus * Modulus
      BY <1>4, <1>5, <3>2, <3>3, ModulusType
    <3> QED BY <1>8, <1>9, <3>4
  <2> QED BY <2>1, <2>2
<1>11. y = [a |-> x.a \div 2, bLo |-> bLo, bHi |-> bHi,
            lo |-> IF x.a % 2 = 1 THEN lo ELSE x.lo,
            hi |-> IF x.a % 2 = 1 THEN hi ELSE x.hi]
  BY DEF MultStep
<1> HIDE DEF lo, hi, bLo, bHi, y
<1>12. q \in Word
  BY <1>0, <1>1, <1>5, <1>6, ModulusType DEF Word
<1>13. /\ y \in [a : Word, bLo : Word, bHi : Word, lo : Word, hi : Word]
       /\ y.a = q /\ y.bLo = bLo /\ y.bHi = bHi
       /\ a % 2 = 1 => y.lo = lo /\ y.hi = hi
       /\ a % 2 # 1 => y.lo = x.lo /\ y.hi = x.hi
  BY <1>0, <1>1, <1>6, <1>7, <1>8, <1>11, <1>12
<1>14. Pair(y.hi, y.lo) + y.a * Pair(y.bHi, y.bLo) = prod
  <2>1. PICK z \in Nat : z = q * (2 * b)
    OBVIOUS
  <2>2. y.a * Pair(y.bHi, y.bLo) = z
    BY <1>9, <1>10, <1>13, <2>1
  <2>3. CASE a % 2 = 1
    <3>1. Pair(y.hi, y.lo) = acc + b /\ a * b = z + b
      BY <1>5, <1>6, <1>7, <1>13, <2>1, <2>3
    <3> QED BY <1>4, <2>2, <3>1
  <2>4. CASE a % 2 # 1
    <3>1. Pair(y.hi, y.lo) = acc /\ a * b = z
      BY <1>3, <1>5, <1>6, <1>13, <2>1, <2>4
    <3> QED BY <1>4, <2>2, <3>1
  <2> QED BY <2>3, <2>4
<1>15. q < 2^k
  <2>0. PICK m \in 1..32 : m = k + 1
    OBVIOUS
  <2>1. m - 1 = k /\ 2^m = 2 * 2^(m - 1) /\ 2^k \in Nat
    <3>1. m - 1 = k /\ k \in 0..32
      BY <2>0
    <3>2. \A n \in 0..32 : 2^n \in Nat \ {0}
      BY Powers
    <3>3. \A n \in 1..32 : 2^n = 2 * 2^(n - 1)
      BY Powers
    <3>4. 2^m = 2 * 2^(m - 1)
      BY <3>3
    <3> QED BY <3>1, <3>2, <3>4
  <2>2. PICK d \in Nat : d = 2^k
    BY <2>1
  <2>3. a < 2 * d
    BY <1>4, <2>0, <2>1, <2>2
  <2> QED BY <1>5, <1>6, <2>2, <2>3
<1> QED BY <1>13, <1>14, <1>15 DEF MultOK, y

(* The recursion of MultLoop defines a function. *)
LEMMA LoopExists ==
  ASSUME NEW x0, NEW N \in Nat
  PROVE  \E f : f = [n \in 0..N |-> IF n = 0 THEN x0 ELSE MultStep(f[n - 1])]
<1> DEFINE Built(k) == \E f : f = [n \in 0..k |-> IF n = 0 THEN x0 ELSE MultStep(f[n - 1])]
           S == {k \in Nat : Built(k)}
<1>1. 0 \in S
  <2>1. PICK f : f = [n \in 0..0 |-> x0]
    OBVIOUS
  <2>2. f = [n \in 0..0 |-> IF n = 0 THEN x0 ELSE MultStep(f[n - 1])]
    BY <2>1
  <2> QED BY <2>2
<1>2. ASSUME NEW k \in Nat, k \in S PROVE k + 1 \in S
  <2>1. PICK f : f = [n \in 0..k |-> IF n = 0 THEN x0 ELSE MultStep(f[n - 1])]
    BY <1>2
  <2>2. PICK g : g = [n \in 0..(k + 1) |-> IF n = k + 1 THEN MultStep(f[k]) ELSE f[n]]
    OBVIOUS
  <2>3. \A n \in 0..k : g[n] = f[n] /\ f[n] = IF n = 0 THEN x0 ELSE MultStep(f[n - 1])
    BY <2>1, <2>2
  <2>4. \A n \in 0..(k + 1) : g[n] = IF n = 0 THEN x0 ELSE MultStep(g[n - 1])
    <3> TAKE n \in 0..(k + 1)
    <3>1. CASE n = k + 1
      <4>1. n - 1 = k /\ g[k] = f[k] /\ g[n] = MultStep(f[k]) /\ n # 0
        BY <2>2, <2>3, <3>1
      <4> QED BY <4>1
    <3>2. CASE n # k + 1
      <4>1. n \in 0..k /\ (n # 0 => n - 1 \in 0..k)
        BY <3>2
      <4> QED BY <2>3, <4>1
    <3> QED BY <3>1, <3>2
  <2>5. g = [n \in 0..(k + 1) |-> IF n = 0 THEN x0 ELSE MultStep(g[n - 1])]
    BY <2>2, <2>4
  <2> QED BY <2>5
<1> HIDE DEF Built
<1>3. Nat \subseteq S
  BY <1>1, <1>2, SetInduction
<1>4. Built(N)
  BY <1>3
<1> QED BY <1>4 DEF Built

(* MultLoop leaves the product in hi and lo. *)
LEMMA MultLoopIs ==
  ASSUME NEW a \in Word, NEW b \in Word
  PROVE  LET r == MultLoop(a, b) IN
         r.hi \in Word /\ r.lo \in Word /\ Pair(r.hi, r.lo) = a * b
<1> DEFINE x0 == [a |-> a, bLo |-> b, bHi |-> 0, lo |-> 0, hi |-> 0]
           f == CHOOSE f : f = [n \in 0..WordBits |-> IF n = 0 THEN x0 ELSE MultStep(f[n - 1])]
           prod == a * b
<1>0. /\ a \in Nat /\ b \in Nat /\ a < Modulus /\ b < Modulus
      /\ WordBits \in 1..32 /\ Modulus = 2^WordBits
  BY ModulusType DEF Word
<1> HIDE DEF x0
<1>1. f = [n \in 0..WordBits |-> IF n = 0 THEN x0 ELSE MultStep(f[n - 1])]
  <2>1. \E g : g = [n \in 0..WordBits |-> IF n = 0 THEN x0 ELSE MultStep(g[n - 1])]
    <3>1. WordBits \in Nat
      BY <1>0
    <3> QED BY Zenon, <3>1, LoopExists
  <2> QED BY Zenon, <2>1
<1>2. MultLoop(a, b) = f[WordBits]
  BY DEF MultLoop, x0
<1>3. prod \in Nat /\ prod < Modulus * Modulus
  <2>1. ASSUME NEW x \in Nat, NEW y \in Nat, NEW m \in Nat, x < m, y < m
        PROVE  x * y < m * m
    BY <2>1
  <2> QED BY <1>0, <2>1, ModulusType
<1> HIDE DEF f, prod
<1>4. f[0] = x0 /\ \A n \in 0..WordBits : n # 0 => f[n] = MultStep(f[n - 1])
  BY <1>0, <1>1
<1>5. MultOK(f[0], prod, WordBits)
  <2>1. Pair(0, 0) = 0 /\ Pair(0, b) = b
    BY <1>0, ModulusType DEF Pair
  <2>2. x0 \in [a : Word, bLo : Word, bHi : Word, lo : Word, hi : Word]
    BY WordType DEF x0
  <2> QED BY <1>0, <1>4, <2>1, <2>2 DEF MultOK, prod, x0
<1> DEFINE S == {n \in Nat : n <= WordBits => MultOK(f[n], prod, WordBits - n)}
<1>6. 0 \in S
  <2>1. WordBits - 0 = WordBits
    BY <1>0
  <2> QED BY <1>5, <2>1
<1>7. ASSUME NEW n \in Nat, n \in S PROVE n + 1 \in S
  <2> SUFFICES ASSUME n + 1 <= WordBits PROVE MultOK(f[n + 1], prod, WordBits - (n + 1))
    OBVIOUS
  <2>1. PICK k \in 0..31 : k = WordBits - (n + 1)
    BY <1>0
  <2>2. k + 1 = WordBits - n /\ n <= WordBits
    BY <1>0, <2>1
  <2>3. MultOK(f[n], prod, k + 1)
    BY <1>7, <2>2
  <2>4. MultOK(MultStep(f[n]), prod, k)
    BY <1>3, <2>3, MultStepOK
  <2>5. f[n + 1] = MultStep(f[n])
    <3>1. n + 1 \in 0..WordBits /\ n + 1 # 0 /\ (n + 1) - 1 = n
      BY <1>0
    <3> QED BY <1>4, <3>1
  <2> QED BY <2>1, <2>4, <2>5
<1>8. Nat \subseteq S
  BY <1>6, <1>7, SetInduction
<1>9. MultOK(f[WordBits], prod, WordBits - WordBits)
  BY <1>0, <1>8
<1>10. PICK r : r = f[WordBits]
  OBVIOUS
<1>11. MultOK(r, prod, 0)
  <2>1. WordBits - WordBits = 0
    BY <1>0
  <2> QED BY <1>9, <1>10, <2>1
<1>12. r.a = 0
  <2>1. 2^0 = 1
    OBVIOUS
  <2> QED BY <1>11, <2>1, ModulusType DEF MultOK, Word
<1>13. r.hi \in Word /\ r.lo \in Word /\ Pair(r.hi, r.lo) = prod
  <2>1. r.a * Pair(r.bHi, r.bLo) = 0 /\ Pair(r.hi, r.lo) \in Nat
    BY <1>11, <1>12, PairType DEF MultOK
  <2> QED BY <1>11, <2>1 DEF MultOK
<1> QED BY <1>2, <1>10, <1>13 DEF prod

-----------------------------------------------------------------------------
(* Signed words. *)

Magnitude(n) == IF n < 0 THEN -n ELSE n

LEMMA WrapsBelow ==
  ASSUME NEW n \in Int, -Modulus <= n, n < 0
  PROVE  W(n) = n + Modulus
BY ModulusType DEF W

(* An int that fits a word is read back from it. *)
LEMMA SignedW ==
  ASSUME NEW n \in Int, -SIGN_BIT <= n, n < SIGN_BIT
  PROVE  Signed(W(n)) = n
<1>1. CASE n >= 0
  <2>1. W(n) = n
    BY <1>1, Wraps, ModulusType
  <2> QED BY <2>1, <1>1 DEF Signed
<1>2. CASE n < 0
  <2>1. W(n) = n + Modulus
    BY <1>2, WrapsBelow, ModulusType
  <2> QED BY <2>1, <1>2, ModulusType DEF Signed
<1> QED BY <1>1, <1>2

LEMMA SignedRange ==
  ASSUME NEW a \in Word
  PROVE  /\ Signed(a) \in Int /\ -SIGN_BIT <= Signed(a) /\ Signed(a) < SIGN_BIT
         /\ Signed(a) < 0 => W(-a) = -Signed(a)
         /\ Signed(a) >= 0 => a = Signed(a)
         /\ Signed(a) = 0 <=> a = 0
         /\ Signed(a) < 0 <=> a >= SIGN_BIT
<1>1. a \in Nat /\ a < Modulus
  BY ModulusType DEF Word
<1>2. a > 0 => W(-a) = Modulus - a
  <2>1. a > 0 => -a \in Int /\ -Modulus <= -a /\ -a < 0
    BY <1>1, ModulusType
  <2>2. a > 0 => W(-a) = (-a) + Modulus
    BY <2>1, WrapsBelow
  <2> QED BY <1>1, <2>2, ModulusType
<1> QED BY <1>1, <1>2, ModulusType DEF Signed

(* Mult without signs is exact. *)
LEMMA MultUnsigned ==
  ASSUME NEW a \in Word, NEW b \in Word
  PROVE  LET u == Mult(a, b, FALSE) IN
         u[1] \in Word /\ u[2] \in Word /\ u[1] * Modulus + u[2] = a * b
<1>1. PICK r : r = MultLoop(a, b)
  OBVIOUS
<1>2. r.hi \in Word /\ r.lo \in Word /\ Pair(r.hi, r.lo) = a * b
  BY <1>1, MultLoopIs
<1> DEFINE u == Mult(a, b, FALSE)
<1>3. /\ a = 0 \/ b = 0 => u = <<0, 0>>
      /\ a # 0 /\ b # 0 => u = <<r.hi, r.lo>>
  BY <1>1 DEF Mult
<1> HIDE DEF u
<1>4. CASE a = 0 \/ b = 0
  <2>1. u[1] = 0 /\ u[2] = 0
    BY <1>3, <1>4
  <2>2. a * b = 0 /\ 0 * Modulus + 0 = 0
    BY <1>4, WordType, ModulusType
  <2> QED BY <2>1, <2>2, WordType DEF u
<1>5. CASE a # 0 /\ b # 0
  <2>1. u[1] = r.hi /\ u[2] = r.lo
    BY <1>3, <1>5
  <2> QED BY <1>2, <2>1 DEF Pair, u
<1> QED BY <1>4, <1>5

(* The two's complement of a double word that is not zero. *)
LEMMA NegatePair ==
  ASSUME NEW hi \in Word, NEW lo \in Word, Pair(hi, lo) > 0, 2 * hi <= SIGN_BIT
  PROVE  LET l == W(Invert(lo) + 1)
             h == W(Invert(hi) + Flag(l = 0))
         IN  /\ l \in Word /\ h \in Word
             /\ Signed(h) * Modulus + l = -Pair(hi, lo)
<1> DEFINE l == W(Invert(lo) + 1)
           h == W(Invert(hi) + Flag(l = 0))
<1>0. /\ hi \in Nat /\ lo \in Nat /\ hi < Modulus /\ lo < Modulus
      /\ hi * Modulus \in Nat
  BY ModulusType DEF Word
<1>1. Invert(lo) + 1 = Modulus - lo /\ Invert(hi) = (Modulus - 1) - hi
  BY <1>0, ModulusType DEF Invert
<1>2. CASE lo = 0
  <2>1. l = 0
    BY <1>0, <1>1, <1>2, Wraps, ModulusType
  <2>2. hi > 0
    BY <1>0, <1>2, ModulusType DEF Pair
  <2>3. Invert(hi) + Flag(l = 0) = Modulus - hi
    BY <1>0, <1>1, <2>1, ModulusType DEF Flag
  <2>4. h = Modulus - hi
    BY <1>0, <2>2, <2>3, Wraps, ModulusType
  <2>5. Signed(h) = -hi
    BY <1>0, <2>2, <2>4, ModulusType DEF Signed
  <2>6. (-hi) * Modulus = -(hi * Modulus)
    BY <1>0, ModulusType
  <2>7. h \in Word
    BY <1>0, <2>2, <2>4, ModulusType DEF Word
  <2> QED BY <1>0, <1>2, <2>1, <2>5, <2>6, <2>7, WordType DEF Pair
<1>3. CASE lo > 0
  <2>1. l = Modulus - lo /\ l # 0
    BY <1>0, <1>1, <1>3, Wraps, ModulusType
  <2>3. Invert(hi) + Flag(l = 0) = (Modulus - 1) - hi
    BY <1>0, <1>1, <2>1, ModulusType DEF Flag
  <2>4. h = (Modulus - 1) - hi
    BY <1>0, <2>3, Wraps, ModulusType
  <2>5. Signed(h) = (-1) - hi
    BY <1>0, <2>4, ModulusType DEF Signed
  <2>6. ((-1) - hi) * Modulus = -(hi * Modulus) - Modulus
    BY <1>0, ModulusType
  <2>7. h \in Word /\ l \in Word
    BY <1>0, <1>3, <2>1, <2>4, ModulusType DEF Word
  <2> QED BY <1>0, <2>1, <2>5, <2>6, <2>7, ModulusType DEF Pair
<1> QED BY <1>0, <1>2, <1>3

(* Mult with signs is exact, the smallest int included. *)
LEMMA MultSigned ==
  ASSUME NEW a \in Word, NEW b \in Word
  PROVE  LET m == Mult(a, b, TRUE) IN
         /\ m[1] \in Word /\ m[2] \in Word
         /\ Signed(m[1]) * Modulus + m[2] = Signed(a) * Signed(b)
<1> DEFINE x == Signed(a)
           y == Signed(b)
           A == IF x < 0 THEN W(-a) ELSE a
           B == IF y < 0 THEN W(-b) ELSE b
           m == Mult(a, b, TRUE)
<1>1. /\ x \in Int /\ -SIGN_BIT <= x /\ x < SIGN_BIT
      /\ x < 0 => W(-a) = -x
      /\ x >= 0 => a = x
      /\ x = 0 <=> a = 0
  BY SignedRange
<1>2. /\ y \in Int /\ -SIGN_BIT <= y /\ y < SIGN_BIT
      /\ y < 0 => W(-b) = -y
      /\ y >= 0 => b = y
      /\ y = 0 <=> b = 0
  BY SignedRange
<1>3. A = Magnitude(x) /\ A \in Nat /\ A <= SIGN_BIT /\ A \in Word
  BY <1>1, ModulusType DEF Magnitude, Word
<1>4. B = Magnitude(y) /\ B \in Nat /\ B <= SIGN_BIT /\ B \in Word
  BY <1>2, ModulusType DEF Magnitude, Word
<1>5. PICK r : r = MultLoop(A, B)
  OBVIOUS
<1>6. r.hi \in Word /\ r.lo \in Word /\ Pair(r.hi, r.lo) = A * B
  BY <1>3, <1>4, <1>5, MultLoopIs
<1>7. /\ a = 0 \/ b = 0 => m = <<0, 0>>
      /\ a # 0 /\ b # 0 /\ ((x < 0) # (y < 0)) =>
            m = <<W(Invert(r.hi) + Flag(W(Invert(r.lo) + 1) = 0)), W(Invert(r.lo) + 1)>>
      /\ a # 0 /\ b # 0 /\ ((x < 0) = (y < 0)) => m = <<r.hi, r.lo>>
  BY <1>5 DEF Mult
<1> HIDE DEF x, y, A, B, m
<1>8. 2 * r.hi <= SIGN_BIT
  <2>1. ASSUME NEW c \in Nat, NEW d \in Nat, NEW s \in Nat, c <= s, d <= s
        PROVE  c * d <= s * s
    <3>1. c * d <= s * d
      BY <2>1
    <3>2. s * d <= s * s
      BY <2>1
    <3> QED BY <3>1, <3>2
  <2>2. A * B <= SIGN_BIT * SIGN_BIT
    BY <1>3, <1>4, <2>1, ModulusType
  <2>3. PICK h \in Nat : h = r.hi
    BY <1>6, ModulusType DEF Word
  <2>4. PICK s \in Nat : s = SIGN_BIT /\ s > 0
    BY ModulusType
  <2>5. (2 * h) * s <= s * s
    <3>1. h * Modulus = (2 * h) * s
      BY <2>4, ModulusType
    <3>2. r.lo \in Nat
      BY <1>6, ModulusType DEF Word
    <3>3. h * Modulus \in Nat /\ A * B \in Nat
      BY <1>3, <1>4, ModulusType
    <3> QED BY <1>6, <2>2, <2>3, <2>4, <3>1, <3>2, <3>3 DEF Pair
  <2>6. ASSUME 2 * h > s PROVE FALSE
    <3>1. ASSUME NEW c \in Nat, c > s PROVE c * s > s * s
      BY <2>4, <3>1
    <3> QED BY <2>5, <2>6, <3>1
  <2> QED BY <2>3, <2>4, <2>6
<1>9. CASE a = 0 \/ b = 0
  <2>1. x * y = 0
    BY <1>1, <1>2, <1>9
  <2>2. m[1] = 0 /\ m[2] = 0 /\ Signed(0) * Modulus + 0 = 0
    BY <1>7, <1>9, ModulusType DEF Signed
  <2> QED BY <2>1, <2>2, WordType DEF x, y, m
<1>10. CASE a # 0 /\ b # 0 /\ ((x < 0) # (y < 0))
  <2>1. Pair(r.hi, r.lo) > 0
    <3>1. A > 0 /\ B > 0
      BY <1>1, <1>2, <1>3, <1>4, <1>10 DEF Magnitude
    <3>2. A * B > 0
      BY <1>3, <1>4, <3>1
    <3> QED BY <1>6, <3>2
  <2>2. /\ m[1] \in Word /\ m[2] \in Word
        /\ Signed(m[1]) * Modulus + m[2] = -Pair(r.hi, r.lo)
    BY <1>6, <1>7, <1>8, <1>10, <2>1, NegatePair
  <2>3. x * y = -(A * B)
    <3>1. ASSUME NEW c \in Int, NEW d \in Int
          PROVE  (-c) * d = -(c * d) /\ c * (-d) = -(c * d)
      OBVIOUS
    <3>2. CASE x < 0 /\ ~(y < 0)
      <4>1. A = -x /\ B = y
        BY <1>1, <1>2, <1>3, <1>4, <3>2 DEF Magnitude
      <4>2. (-x) * y = -(x * y) /\ x * y \in Int
        BY <1>1, <1>2, <3>1
      <4> QED BY <4>1, <4>2
    <3>3. CASE ~(x < 0) /\ y < 0
      <4>1. A = x /\ B = -y
        BY <1>1, <1>2, <1>3, <1>4, <3>3 DEF Magnitude
      <4>2. x * (-y) = -(x * y) /\ x * y \in Int
        BY <1>1, <1>2, <3>1
      <4> QED BY <4>1, <4>2
    <3> QED BY <1>10, <3>2, <3>3
  <2> QED BY <1>6, <2>2, <2>3 DEF x, y, m
<1>11. CASE a # 0 /\ b # 0 /\ ((x < 0) = (y < 0))
  <2>1. m[1] = r.hi /\ m[2] = r.lo
    BY <1>7, <1>11
  <2>2. Signed(r.hi) = r.hi
    BY <1>6, <1>8, ModulusType DEF Signed, Word
  <2>3. x * y = A * B
    <3>1. ASSUME NEW c \in Int, NEW d \in Int PROVE (-c) * (-d) = c * d
      OBVIOUS
    <3> QED BY <1>1, <1>2, <1>3, <1>4, <1>11, <3>1 DEF Magnitude
  <2> QED BY <1>6, <2>1, <2>2, <2>3 DEF x, y, m, Pair
<1> QED BY <1>9, <1>10, <1>11

(* C's division: quotient and remainder of magnitudes, then the signs. *)
LEMMA QuotientIs ==
  ASSUME NEW x \in Int, NEW y \in Int, y # 0
  PROVE  LET q == Quotient(x, y)
             r == x - q * y
         IN  /\ q \in Int /\ r \in Int
             /\ Magnitude(r) < Magnitude(y)
             /\ x >= 0 => r >= 0
             /\ x <= 0 => r <= 0
             /\ Magnitude(q) <= Magnitude(x)
             /\ Magnitude(y) >= 2 => 2 * Magnitude(q) <= Magnitude(x)
             /\ y = 1 => q = x
             /\ y = -1 => q = -x
<1> DEFINE A == Magnitude(x)
           B == Magnitude(y)
           d == A \div B
           e == A % B
<1>1. A \in Nat /\ B \in Nat \ {0}
  BY DEF Magnitude
<1>2. d \in Nat /\ e \in Nat /\ e < B /\ A = B * d + e
  BY <1>1
<1>3. Quotient(x, y) = IF (x < 0) = (y < 0) THEN d ELSE -d
  BY DEF Quotient, Magnitude
<1>4. PICK z \in Nat : z = B * d
  BY <1>1, <1>2
<1>5. d <= z /\ (B >= 2 => 2 * d <= z) /\ (B = 1 => d = A)
  <2>1. ASSUME NEW c \in Nat, c >= 1, NEW f \in Nat PROVE f <= c * f
    BY <2>1
  <2>2. ASSUME NEW c \in Nat, c >= 2, NEW f \in Nat PROVE 2 * f <= c * f
    BY <2>2
  <2> HIDE DEF A, B, d, e
  <2>3. d <= B * d
    BY <1>1, <1>2, <2>1
  <2>4. B >= 2 => 2 * d <= B * d
    BY <1>1, <1>2, <2>2
  <2>5. B = 1 => d = A
    BY <1>1, <1>2
  <2> QED BY <1>4, <2>3, <2>4, <2>5
<1> HIDE DEF A, B, d, e
<1>6. PICK q \in Int : q = Quotient(x, y)
  BY <1>2, <1>3
<1>7. q * y = IF x < 0 THEN -z ELSE z
  <2>1. d * y = IF y < 0 THEN -z ELSE z
    <3>1. CASE y < 0
      <4>1. B = -y
        BY <3>1 DEF B, Magnitude
      <4>2. (-y) * d = -(d * y) /\ d * y \in Int
        BY <1>2
      <4> QED BY <1>4, <3>1, <4>1, <4>2
    <3>2. CASE ~(y < 0)
      BY <1>2, <1>4, <3>2 DEF B, Magnitude
    <3> QED BY <3>1, <3>2
  <2>2. (-d) * y = -(d * y) /\ d * y \in Int
    BY <1>2
  <2> QED BY <1>3, <1>6, <2>1, <2>2
<1>8. x = IF x < 0 THEN -A ELSE A
  BY DEF A, Magnitude
<1>9. x - q * y = IF x < 0 THEN -e ELSE e
  BY <1>1, <1>2, <1>4, <1>7, <1>8
<1>10. Magnitude(q) = d
  BY <1>2, <1>3, <1>6 DEF Magnitude
<1>11. Magnitude(x - q * y) = e
  BY <1>2, <1>9 DEF Magnitude
<1>12. /\ x >= 0 => x - q * y >= 0
       /\ x <= 0 => x - q * y <= 0
  <2>1. CASE x = 0
    <3>1. A = 0
      BY <2>1 DEF A, Magnitude
    <3>2. e = 0
      BY <1>1, <1>2, <1>4, <3>1
    <3> QED BY <1>9, <3>2
  <2>2. CASE x # 0
    BY <1>2, <1>9, <2>2
  <2> QED BY <2>1, <2>2
<1>13. (y = 1 => q = x) /\ (y = -1 => q = -x)
  <2>1. y = 1 \/ y = -1 => B = 1
    BY DEF B, Magnitude
  <2> QED BY <1>1, <1>3, <1>5, <1>6, <1>8, <2>1
<1>14. Magnitude(q) <= A /\ (B >= 2 => 2 * Magnitude(q) <= A)
  BY <1>1, <1>2, <1>4, <1>5, <1>10
<1> QED BY <1>2, <1>6, <1>9, <1>11, <1>12, <1>13, <1>14 DEF A, B

LEMMA DivType ==
  ASSUME NEW a \in Word, NEW b \in Word, NEW sa \in BOOLEAN
  PROVE  LET d == Div(a, b, sa) IN d[1] \in Word /\ d[2] \in Word
<1> DEFINE d == Div(a, b, sa)
           x == Signed(a)
           y == Signed(b)
<1>1. x \in Int /\ y \in Int /\ (b # 0 => y # 0) /\ a \in Nat /\ b \in Nat
  BY SignedRange, ModulusType DEF Word
<1>2. /\ b = 0 => d = <<0, 0>>
      /\ b # 0 /\ sa => d = <<W(x - Quotient(x, y) * y), W(Quotient(x, y))>>
      /\ b # 0 /\ ~sa => d = <<a % b, a \div b>>
  BY DEF Div
<1> HIDE DEF d, x, y
<1>3. CASE b = 0
  BY <1>2, <1>3, WordType DEF d
<1>4. CASE b # 0 /\ sa
  <2>1. Quotient(x, y) \in Int /\ x - Quotient(x, y) * y \in Int
    BY <1>1, <1>4, QuotientIs
  <2>2. W(x - Quotient(x, y) * y) \in Word /\ W(Quotient(x, y)) \in Word
    BY <2>1, WordType
  <2>3. d[1] = W(x - Quotient(x, y) * y) /\ d[2] = W(Quotient(x, y))
    BY <1>2, <1>4
  <2> QED BY <2>2, <2>3 DEF d
<1>5. CASE b # 0 /\ ~sa
  <2>1. a % b \in Nat /\ a % b < b /\ a \div b \in Nat /\ a \div b <= a
    BY <1>1, <1>5, QuotientWord
  <2>2. a % b \in Word /\ a \div b \in Word
    BY <1>1, <2>1, ModulusType DEF Word
  <2> QED BY <1>2, <1>5, <2>2 DEF d
<1> QED BY <1>3, <1>4, <1>5

LEMMA DivSigned ==
  ASSUME NEW a \in Word, NEW b \in Word, Signed(b) # 0,
         ~(Signed(a) = -SIGN_BIT /\ Signed(b) = -1)
  PROVE  LET d == Div(a, b, TRUE) IN
         /\ Signed(d[2]) * Signed(b) + Signed(d[1]) = Signed(a)
         /\ Magnitude(Signed(d[1])) < Magnitude(Signed(b))
         /\ Signed(d[1]) * Signed(a) >= 0
<1> DEFINE d == Div(a, b, TRUE)
           x == Signed(a)
           y == Signed(b)
<1>1. /\ x \in Int /\ y \in Int /\ b # 0 /\ y # 0 /\ ~(x = -SIGN_BIT /\ y = -1)
      /\ -SIGN_BIT <= x /\ x < SIGN_BIT /\ -SIGN_BIT <= y /\ y < SIGN_BIT
  BY SignedRange
<1>2. b # 0 => d = <<W(x - Quotient(x, y) * y), W(Quotient(x, y))>>
  BY DEF Div
<1> HIDE DEF d, x, y
<1>3. PICK q \in Int : q = Quotient(x, y)
  BY <1>1, QuotientIs
<1>4. PICK r \in Int : r = x - q * y
  BY <1>1
<1>5. /\ Magnitude(r) < Magnitude(y)
      /\ x >= 0 => r >= 0
      /\ x <= 0 => r <= 0
      /\ Magnitude(q) <= Magnitude(x)
      /\ Magnitude(y) >= 2 => 2 * Magnitude(q) <= Magnitude(x)
      /\ y = 1 => q = x
      /\ y = -1 => q = -x
  BY <1>1, <1>3, <1>4, QuotientIs
<1>6. -SIGN_BIT <= r /\ r < SIGN_BIT
  BY <1>1, <1>5, ModulusType DEF Magnitude
<1>7. -SIGN_BIT <= q /\ q < SIGN_BIT
  <2>1. CASE y = 1 \/ y = -1
    BY <1>1, <1>5, <2>1, ModulusType
  <2>2. CASE y # 1 /\ y # -1
    <3>1. Magnitude(y) >= 2
      BY <1>1, <2>2 DEF Magnitude
    <3> QED BY <1>1, <1>5, <3>1, ModulusType DEF Magnitude
  <2> QED BY <2>1, <2>2
<1>8. Signed(W(r)) = r /\ Signed(W(q)) = q
  BY <1>6, <1>7, SignedW
<1>9. Signed(d[1]) = r /\ Signed(d[2]) = q
  BY <1>1, <1>2, <1>3, <1>4, <1>8
<1>10. q * y + r = x
  <2>1. q * y \in Int
    BY <1>1
  <2> QED BY <1>1, <1>4, <2>1
<1>11. r * x >= 0
  <2>1. ASSUME NEW c \in Nat, NEW e \in Nat PROVE c * e >= 0 /\ (-c) * (-e) >= 0
    OBVIOUS
  <2>2. CASE x >= 0
    BY <1>1, <1>5, <2>1, <2>2
  <2>3. CASE x < 0
    <3>1. -r \in Nat /\ -x \in Nat /\ r = -(-r) /\ x = -(-x)
      BY <1>1, <1>5, <2>3
    <3>2. (-(-r)) * (-(-x)) >= 0
      BY <2>1, <3>1
    <3> QED BY <3>1, <3>2
  <2> QED BY <1>1, <2>2, <2>3
<1> QED BY <1>5, <1>9, <1>10, <1>11 DEF d, x, y

(* The tests of ADD, ADDI and SUB find exactly the sums and differences that *)
(* are no int.                                                               *)
LEMMA OverflowExact ==
  ASSUME NEW a \in Word, NEW b \in Word
  PROVE  LET x == Signed(a)
             y == Signed(b)
             Ints == -SIGN_BIT..(SIGN_BIT - 1)
         IN  /\ Overflows(a, b, W(a + b)) <=> x + y \notin Ints
             /\ Underflows(a, b, W(a - b)) <=> x - y \notin Ints
<1>1. /\ a \in Nat /\ b \in Nat /\ a < Modulus /\ b < Modulus
      /\ SIGN_BIT \in Nat /\ Modulus = 2 * SIGN_BIT /\ SIGN_BIT > 0
  BY ModulusType DEF Word
<1>2. PICK u \in Int : u = W(a + b)
  BY <1>1 DEF W
<1>3. /\ a + b < Modulus => u = a + b
      /\ a + b >= Modulus => u = (a + b) - Modulus
  BY <1>1, <1>2, Wraps
<1>4. PICK v \in Int : v = W(a - b)
  BY <1>1 DEF W
<1>5. /\ a - b >= 0 => v = a - b
      /\ a - b < 0 => v = (a - b) + Modulus
  <2>1. CASE a - b >= 0
    BY <1>1, <1>4, <2>1, Wraps
  <2>2. CASE a - b < 0
    BY <1>1, <1>4, <2>2, WrapsBelow
  <2> QED BY <1>1, <2>1, <2>2
<1>6. PICK x \in Int : x = Signed(a) /\ x = IF a < SIGN_BIT THEN a ELSE a - Modulus
  BY <1>1 DEF Signed
<1>7. PICK y \in Int : y = Signed(b) /\ y = IF b < SIGN_BIT THEN b ELSE b - Modulus
  BY <1>1 DEF Signed
<1>8. Overflows(a, b, u) <=> x + y \notin -SIGN_BIT..(SIGN_BIT - 1)
  BY <1>1, <1>3, <1>6, <1>7 DEF Overflows, SignsDiffer
<1>9. Underflows(a, b, v) <=> x - y \notin -SIGN_BIT..(SIGN_BIT - 1)
  BY <1>1, <1>5, <1>6, <1>7 DEF Underflows, SignsDiffer
<1> QED BY <1>2, <1>4, <1>6, <1>7, <1>8, <1>9

LEMMA ExactFromWords ==
  ASSUME registers \in [Reg -> Word]
  PROVE  ArithmeticExact
<1>1. PICK a \in Word : a = registers[1]
  BY RegNumbers
<1>2. PICK b \in Word : b = registers[2]
  BY RegNumbers
<1>3. PICK x : x = Signed(a)
  OBVIOUS
<1>4. PICK y : y = Signed(b)
  OBVIOUS
<1>5. /\ Overflows(a, b, W(a + b)) <=> x + y \notin -SIGN_BIT..(SIGN_BIT - 1)
      /\ Underflows(a, b, W(a - b)) <=> x - y \notin -SIGN_BIT..(SIGN_BIT - 1)
  BY <1>3, <1>4, OverflowExact
<1>6. PICK m : m = Mult(a, b, TRUE)
  OBVIOUS
<1>7. PICK u : u = Mult(a, b, FALSE)
  OBVIOUS
<1>8. PICK d : d = Div(a, b, TRUE)
  OBVIOUS
<1>9. Signed(m[1]) * Modulus + m[2] = x * y
  BY <1>3, <1>4, <1>6, MultSigned
<1>10. u[1] * Modulus + u[2] = a * b
  BY <1>7, MultUnsigned
<1>11. y # 0 /\ ~(x = -SIGN_BIT /\ y = -1) =>
             /\ Signed(d[2]) * y + Signed(d[1]) = x
             /\ Magnitude(Signed(d[1])) < Magnitude(y) /\ Signed(d[1]) * x >= 0
  BY <1>3, <1>4, <1>8, DivSigned
<1> QED BY Zenon, <1>1, <1>2, <1>3, <1>4, <1>5, <1>6, <1>7, <1>8, <1>9, <1>10, <1>11
     DEF ArithmeticExact, Magnitude

-----------------------------------------------------------------------------
(* Memory. *)

(* An aligned access stays within its page. *)
LEMMA AlignedInPage ==
  ASSUME NEW addr \in Nat, NEW size \in {1, 2, 4}, addr % size = 0
  PROVE  addr % PageSize \in Nat /\ (addr % PageSize) + size <= PageSize
<1>1. PageSize \in Nat /\ PageSize > 0 /\ PageSize % 4 = 0
  BY MachineAssumption
<1>2. PICK k \in Nat : PageSize = 4 * k
  BY <1>1
<1>3. PICK o \in Nat : o = addr % PageSize
  BY <1>1
<1>4. PICK v \in Nat : v = addr \div PageSize
  BY <1>1
<1>5. addr = PageSize * v + o /\ o < PageSize
  BY <1>1, <1>3, <1>4
<1>6. PICK z \in Nat : z = k * v
  BY <1>2, <1>4
<1>7. PageSize * v = 4 * z
  <2>1. (4 * k) * v = 4 * (k * v)
    OBVIOUS
  <2> QED BY <1>2, <1>6, <2>1
<1>8. addr = 4 * z + o /\ o < 4 * k
  BY <1>2, <1>5, <1>7
<1>9. o + size <= 4 * k
  <2>1. CASE size = 1
    BY <1>8, <2>1
  <2>2. CASE size = 2
    <3>1. addr % 2 = 0
      BY <2>2
    <3> QED BY <1>8, <2>2, <3>1
  <2>3. CASE size = 4
    <3>1. addr % 4 = 0
      BY <2>3
    <3> QED BY <1>8, <2>3, <3>1
  <2> QED BY <2>1, <2>2, <2>3
<1> QED BY <1>2, <1>3, <1>9

LEMMA TranslateIs ==
  ASSUME NEW pt \in Seq(PageEntry), NEW addr \in Word, NEW size \in {1, 2, 4},
         NEW writing \in BOOLEAN
  PROVE  /\ Translate(pt, addr, size, writing) \in Exceptions
         /\ Translate(pt, addr, size, writing) = "NoException" =>
               /\ addr % size = 0
               /\ (addr \div PageSize) + 1 \in DOMAIN pt
               /\ Entry(pt, addr) \in PageEntry
               /\ Entry(pt, addr).valid
               /\ writing => ~Entry(pt, addr).readOnly
               /\ Entry(pt, addr).physicalPage < NumPhysPages
<1> DEFINE x == Translate(pt, addr, size, writing)
<1>1. x \in Exceptions
  BY DEF Translate, Exceptions
<1>2. ASSUME x = "NoException"
      PROVE  /\ addr % size = 0
             /\ ~(addr \div PageSize >= Len(pt))
             /\ Entry(pt, addr).valid
             /\ ~(Entry(pt, addr).readOnly /\ writing)
             /\ ~(Entry(pt, addr).physicalPage >= NumPhysPages)
  BY <1>2 DEF Translate
<1>3. addr \in Nat /\ addr \div PageSize \in Nat
  BY ModulusType, MachineAssumption DEF Word
<1>4. ASSUME x = "NoException" PROVE (addr \div PageSize) + 1 \in 1..Len(pt)
  BY <1>2, <1>3, <1>4
<1>5. DOMAIN pt = 1..Len(pt)
  OBVIOUS
<1>6. ASSUME x = "NoException" PROVE Entry(pt, addr) \in PageEntry
  BY <1>4, <1>5, <1>6 DEF Entry
<1>7. ASSUME x = "NoException" PROVE Entry(pt, addr).physicalPage < NumPhysPages
  BY <1>2, <1>6, <1>7, MachineAssumption DEF PageEntry
<1> QED BY <1>1, <1>2, <1>4, <1>5, <1>6, <1>7

(* The addresses of an access that is translated lie in its frame. *)
LEMMA PhysIs ==
  ASSUME NEW pt \in Seq(PageEntry), NEW addr \in Word, NEW size \in {1, 2, 4},
         NEW writing \in BOOLEAN, Translate(pt, addr, size, writing) = "NoException"
  PROVE  /\ PhysAddr(pt, addr) \in Nat
         /\ \A j \in 0..(size - 1) :
               /\ PhysAddr(pt, addr) + j \in 0..(MemorySize - 1)
               /\ (PhysAddr(pt, addr) + j) \div PageSize = Entry(pt, addr).physicalPage
<1>1. /\ addr % size = 0 /\ Entry(pt, addr) \in PageEntry
      /\ Entry(pt, addr).physicalPage < NumPhysPages
  BY TranslateIs
<1>2. addr \in Nat
  BY ModulusType DEF Word
<1>3. PICK f \in Nat : f = Entry(pt, addr).physicalPage
  BY <1>1 DEF PageEntry
<1>4. PICK o \in Nat : o = addr % PageSize /\ o + size <= PageSize
  BY <1>1, <1>2, AlignedInPage
<1>5. PhysAddr(pt, addr) = f * PageSize + o
  BY <1>3, <1>4 DEF PhysAddr
<1>6. PageSize \in Nat /\ PageSize > 0 /\ NumPhysPages \in Nat /\ f < NumPhysPages
  BY <1>1, <1>3, MachineAssumption
<1>7. f * PageSize + PageSize <= NumPhysPages * PageSize
  <2>1. ASSUME NEW p \in Nat, NEW n \in Nat, NEW m \in Nat, n < m
        PROVE  n * p + p <= m * p
    <3>1. (n + 1) * p <= m * p
      BY <2>1
    <3>2. (n + 1) * p = n * p + p
      OBVIOUS
    <3> QED BY <3>1, <3>2
  <2> QED BY <1>6, <2>1
<1>8. PICK z \in Nat : z = f * PageSize
  BY <1>6
<1>9. PICK m \in Nat : m = NumPhysPages * PageSize
  BY <1>6
<1>10. ASSUME NEW j \in 0..(size - 1)
       PROVE  /\ z + o + j \in 0..(m - 1)
              /\ (z + o + j) \div PageSize = f
  <2>5. size \in Nat
    OBVIOUS
  <2>6. j \in Nat /\ j < size
    BY <2>5
  <2>7. o + j < PageSize
    BY <1>4, <1>6, <2>5, <2>6
  <2>8. z + PageSize <= m
    BY <1>7, <1>8, <1>9
  <2>1. z + o + j \in 0..(m - 1)
    BY <1>6, <2>6, <2>7, <2>8
  <2>2. PICK e \in Nat : e = o + j /\ e < PageSize
    BY <2>6, <2>7
  <2>3. (f * PageSize + e) \div PageSize = f
    BY <1>6, <2>2
  <2>4. z + o + j = f * PageSize + e
    BY <1>8, <2>2
  <2> QED BY <2>1, <2>3, <2>4
<1> QED BY <1>3, <1>5, <1>8, <1>9, <1>10 DEF MemorySize

(* Touch changes the use bit of one entry, and its dirty bit for a write. *)
LEMMA TouchIs ==
  ASSUME NEW pt \in Seq(PageEntry), NEW addr \in Word, NEW writing \in BOOLEAN,
         (addr \div PageSize) + 1 \in DOMAIN pt
  PROVE  LET t == Touch(pt, addr, writing) IN
         /\ t \in Seq(PageEntry) /\ DOMAIN t = DOMAIN pt /\ Len(t) = Len(pt)
         /\ \A p \in DOMAIN pt :
               /\ t[p].physicalPage = pt[p].physicalPage
               /\ t[p].valid = pt[p].valid /\ t[p].readOnly = pt[p].readOnly
               /\ t[p].dirty = (pt[p].dirty \/ (p = (addr \div PageSize) + 1 /\ writing))
<1> DEFINE t == Touch(pt, addr, writing)
<1>1. PICK i : i = (addr \div PageSize) + 1
  OBVIOUS
<1>2. i \in DOMAIN pt /\ pt[i] \in PageEntry /\ DOMAIN pt = 1..Len(pt) /\ Len(pt) \in Nat
  BY <1>1
<1>3. PICK e : e = [pt[i] EXCEPT !.use = TRUE, !.dirty = @ \/ writing]
  OBVIOUS
<1>4. /\ e \in PageEntry /\ e.physicalPage = pt[i].physicalPage
      /\ e.valid = pt[i].valid /\ e.readOnly = pt[i].readOnly
      /\ e.dirty = (pt[i].dirty \/ writing)
  BY <1>2, <1>3 DEF PageEntry
<1>5. t = [pt EXCEPT ![i] = e]
  <2>1. t = [[pt EXCEPT ![i] = [pt[i] EXCEPT !.use = TRUE]] EXCEPT
                        ![i] = [[pt[i] EXCEPT !.use = TRUE] EXCEPT !.dirty = @ \/ writing]]
    BY <1>1, <1>2 DEF Touch
  <2> QED BY <1>2, <1>3, <2>1 DEF PageEntry
<1>6. t \in Seq(PageEntry) /\ DOMAIN t = DOMAIN pt /\ Len(t) = Len(pt)
  BY <1>2, <1>4, <1>5
<1>7. t[i] = e /\ \A p \in DOMAIN pt : p # i => t[p] = pt[p]
  BY <1>2, <1>5
<1> HIDE DEF t
<1>8. \A p \in DOMAIN pt : pt[p] \in PageEntry /\ pt[p].dirty \in BOOLEAN
  <2>1. \A p \in DOMAIN pt : pt[p] \in PageEntry
    OBVIOUS
  <2> QED BY <2>1 DEF PageEntry
<1>9. \A p \in DOMAIN pt :
               /\ t[p].physicalPage = pt[p].physicalPage
               /\ t[p].valid = pt[p].valid /\ t[p].readOnly = pt[p].readOnly
               /\ t[p].dirty = (pt[p].dirty \/ (p = i /\ writing))
  BY <1>4, <1>7, <1>8
<1> QED BY <1>1, <1>6, <1>9 DEF t

LEMMA SignExtendType ==
  /\ \A x \in 0..(2^ByteBits - 1) : SignExtend(x, ByteBits) \in Word
  /\ \A x \in 0..(2^HalfBits - 1) : SignExtend(x, HalfBits) \in Word
<1> DEFINE X == 2^ByteBits
           H == 2^HalfBits
           X1 == 2^(ByteBits - 1)
           H1 == 2^(HalfBits - 1)
<1>1. X \in Nat /\ H \in Nat /\ X > 0 /\ H > 0 /\ X * X = H /\ H * H = Modulus
      /\ X1 \in Nat /\ H1 \in Nat
  BY WidthPowers
<1> HIDE DEF X, H, X1, H1
<1>2. X <= H /\ H <= Modulus
  <2>1. ASSUME NEW n \in Nat, n > 0 PROVE n <= n * n
    BY <2>1
  <2> QED BY <1>1, <2>1
<1>3. \A x \in 0..(X - 1) : x \in Word /\ W(x - X) \in Word
  BY <1>1, <1>2, WordType, ModulusType DEF Word
<1>4. \A x \in 0..(H - 1) : x \in Word /\ W(x - H) \in Word
  BY <1>1, <1>2, WordType, ModulusType DEF Word
<1>5. \A x : SignExtend(x, ByteBits) = IF x < X1 THEN x ELSE W(x - X)
  BY DEF SignExtend, X, X1
<1>6. \A x : SignExtend(x, HalfBits) = IF x < H1 THEN x ELSE W(x - H)
  BY DEF SignExtend, H, H1
<1>7. \A x \in 0..(X - 1) : SignExtend(x, ByteBits) \in Word
  BY <1>3, <1>5
<1>8. \A x \in 0..(H - 1) : SignExtend(x, HalfBits) \in Word
  BY <1>4, <1>6
<1> QED BY <1>7, <1>8 DEF X, H

(* A number of two digits. *)
LEMMA TwoDigits ==
  ASSUME NEW X \in Nat, NEW Y \in Nat, NEW b \in Nat, NEW c \in Nat, b < X, c < Y
  PROVE  b + c * X \in Nat /\ b + c * X < X * Y
<1>1. (c + 1) * X <= Y * X
  OBVIOUS
<1>2. (c + 1) * X = c * X + X /\ Y * X = X * Y /\ c * X \in Nat /\ X * Y \in Nat
  OBVIOUS
<1> QED BY <1>1, <1>2

LEMMA ReadMemType ==
  ASSUME NEW s \in MachineState, NEW addr \in Word, NEW size \in {1, 2, 4},
         Translate(s.pt, addr, size, FALSE) = "NoException"
  PROVE  /\ size = 1 => ReadMem(s, addr, size) \in Word
         /\ size = 2 => ReadMem(s, addr, size) \in 0..(2^HalfBits - 1)
         /\ size = 4 => ReadMem(s, addr, size) \in Word
<1> DEFINE pa == PhysAddr(s.pt, addr)
           X == 2^ByteBits
           H == 2^HalfBits
           T == 2^(3 * ByteBits)
<1>1. X \in Nat /\ H \in Nat /\ T \in Nat /\ X * X = H /\ X * H = T /\ X * T = Modulus
      /\ 2^(ByteBits * 0) = 1 /\ 2^(ByteBits * 1) = X
      /\ 2^(ByteBits * 2) = H /\ 2^(ByteBits * 3) = T
  BY WidthPowers
<1>2. s.pt \in Seq(PageEntry) /\ s.mem \in [0..(MemorySize - 1) -> 0..(X - 1)]
  BY DEF MachineState, Memories, Bytes
<1>3. pa \in Nat /\ \A j \in 0..(size - 1) : pa + j \in 0..(MemorySize - 1)
  BY <1>2, PhysIs
<1> HIDE DEF X, H, T, pa
<1>4. \A j \in 0..(size - 1) : s.mem[pa + j] \in 0..(X - 1) /\ s.mem[pa + j] \in Nat
                                                        /\ s.mem[pa + j] < X
  <2> TAKE j \in 0..(size - 1)
  <2>1. PICK i \in 0..(MemorySize - 1) : i = pa + j
    BY <1>3
  <2>2. s.mem[i] \in 0..(X - 1)
    BY <1>2
  <2>3. X \in Nat
    BY <1>1
  <2>4. s.mem[i] \in Nat /\ s.mem[i] < X
    BY <2>2, <2>3
  <2> QED BY <2>1, <2>2, <2>4
<1>5. ASSUME size = 1 PROVE ReadMem(s, addr, size) \in Word
  <2>1. PICK b \in 0..(X - 1) : b = s.mem[pa + 0]
    <3>1. 0 \in 0..(size - 1)
      BY <1>5
    <3> QED BY <1>4, <3>1
  <2>2. ReadMem(s, addr, 1) = SignExtend(b * 1, ByteBits)
    BY <1>1, <2>1 DEF ReadMem, pa
  <2>3. b * 1 = b
    BY <1>1, <2>1
  <2> QED BY <1>5, <2>1, <2>2, <2>3, SignExtendType DEF X
<1>6. ASSUME size = 2 PROVE ReadMem(s, addr, size) \in 0..(H - 1)
  <2>1. PICK b \in Nat : b = s.mem[pa + 0] /\ b < X
    BY <1>4, <1>6
  <2>2. PICK c \in Nat : c = s.mem[pa + 1] /\ c < X
    BY <1>4, <1>6
  <2>3. ReadMem(s, addr, 2) = b * 1 + c * X
    BY <1>1, <2>1, <2>2 DEF ReadMem, pa
  <2>4. b + c * X \in Nat /\ b + c * X < H
    BY <1>1, <2>1, <2>2, TwoDigits
  <2>5. b * 1 = b
    OBVIOUS
  <2> QED BY <1>1, <1>6, <2>3, <2>4, <2>5
<1>7. ASSUME size = 4 PROVE ReadMem(s, addr, size) \in Word
  <2>1. PICK b \in Nat : b = s.mem[pa + 0] /\ b < X
    BY <1>4, <1>7
  <2>2. PICK c \in Nat : c = s.mem[pa + 1] /\ c < X
    BY <1>4, <1>7
  <2>3. PICK d \in Nat : d = s.mem[pa + 2] /\ d < X
    BY <1>4, <1>7
  <2>4. PICK e \in Nat : e = s.mem[pa + 3] /\ e < X
    BY <1>4, <1>7
  <2>5. ReadMem(s, addr, 4) = b * 1 + c * X + d * H + e * T
    BY <1>1, <2>1, <2>2, <2>3, <2>4 DEF ReadMem, pa
  <2>6. b * 1 = b
    OBVIOUS
  <2>7. b + c * X \in Nat /\ b + c * X < H
    BY <1>1, <2>1, <2>2, TwoDigits
  <2>8. PICK u \in Nat : u = b + c * X /\ u < H
    BY <2>7
  <2>9. u + d * H \in Nat /\ u + d * H < H * X
    BY <1>1, <2>3, <2>8, TwoDigits
  <2>10. PICK v \in Nat : v = u + d * H /\ v < T
    BY <1>1, <2>9
  <2>11. v + e * T \in Nat /\ v + e * T < T * X
    BY <1>1, <2>4, <2>10, TwoDigits
  <2>12. T * X = Modulus
    BY <1>1
  <2> QED BY <1>7, <2>5, <2>6, <2>8, <2>10, <2>11, <2>12, ModulusType DEF Word
<1> QED BY <1>5, <1>6, <1>7 DEF H

(* WriteMem changes bytes of one frame, and marks its page dirty. *)
LEMMA WriteMemIs ==
  ASSUME NEW s, StateOK(s), NEW addr \in Word, NEW size \in {1, 2, 4},
         Translate(s.pt, addr, size, TRUE) = "NoException", NEW value \in Int
  PROVE  LET n == WriteMem(s, addr, size, value) IN
         /\ StateOK(n) /\ n.reg = s.reg /\ n.exc = s.exc /\ n.stop = s.stop
         /\ n.pt = Touch(s.pt, addr, TRUE)
         /\ \A a \in 0..(MemorySize - 1) :
               n.mem[a] # s.mem[a] => a \div PageSize = Entry(s.pt, addr).physicalPage
<1> DEFINE pa == PhysAddr(s.pt, addr)
           B(a) == (value \div 2^(ByteBits * (a - pa))) % 2^ByteBits
           n == WriteMem(s, addr, size, value)
<1>0. s \in MachineState /\ s.pt \in Seq(PageEntry) /\ s.mem \in Memories
  BY DEF StateOK, MachineState
<1>1. /\ pa \in Nat
      /\ \A j \in 0..(size - 1) : (pa + j) \div PageSize = Entry(s.pt, addr).physicalPage
  BY <1>0, PhysIs
<1>2. (addr \div PageSize) + 1 \in DOMAIN s.pt
  BY <1>0, TranslateIs
<1>3. PICK t : t = Touch(s.pt, addr, TRUE)
  OBVIOUS
<1>4. t \in Seq(PageEntry)
  BY <1>0, <1>2, <1>3, TouchIs
<1>5. PICK m : m = [a \in DOMAIN s.mem |-> IF a \in pa..(pa + size - 1) THEN B(a) ELSE s.mem[a]]
  OBVIOUS
<1>6. n = [s EXCEPT !.pt = t, !.mem = m]
  BY <1>3, <1>5 DEF WriteMem
<1> HIDE DEF pa, n
<1>7. ASSUME NEW a \in pa..(pa + size - 1) PROVE B(a) \in Bytes
  <2>1. PICK j \in {0, 1, 2, 3} : j = a - pa
    BY <1>1
  <2>2. 2^(ByteBits * j) \in Nat \ {0}
    <3>1. 2^(ByteBits * 0) = 1 /\ 2^(ByteBits * 1) = 2^ByteBits
          /\ 2^(ByteBits * 2) = 2^HalfBits /\ 2^(ByteBits * 3) = 2^(3 * ByteBits)
      BY WidthPowers
    <3>2. 2^ByteBits \in Nat \ {0} /\ 2^HalfBits \in Nat \ {0} /\ 2^(3 * ByteBits) \in Nat \ {0}
      BY WidthPowers
    <3>3. CASE j = 0
      BY <3>1, <3>3
    <3>4. CASE j = 1
      BY <3>1, <3>2, <3>4
    <3>5. CASE j = 2
      BY <3>1, <3>2, <3>5
    <3>6. CASE j = 3
      BY <3>1, <3>2, <3>6
    <3> QED BY <3>3, <3>4, <3>5, <3>6
  <2>3. PICK d \in Nat \ {0} : d = 2^(ByteBits * (a - pa))
    BY <2>1, <2>2
  <2>4. PICK X \in Nat \ {0} : X = 2^ByteBits
    BY WidthPowers
  <2>5. (value \div d) % X \in 0..(X - 1)
    OBVIOUS
  <2> QED BY <2>3, <2>4, <2>5 DEF Bytes
<1> HIDE DEF B
<1>8. m \in Memories
  BY <1>0, <1>5, <1>7 DEF Memories
<1>9. /\ n \in MachineState /\ n.reg = s.reg /\ n.exc = s.exc /\ n.stop = s.stop
      /\ n.pt = t /\ n.mem = m
  BY <1>0, <1>4, <1>6, <1>8 DEF MachineState
<1>10. ASSUME NEW a \in 0..(MemorySize - 1), m[a] # s.mem[a]
       PROVE  a \div PageSize = Entry(s.pt, addr).physicalPage
  <2>1. a \in pa..(pa + size - 1)
    BY <1>0, <1>5, <1>10 DEF Memories
  <2>2. PICK j \in 0..(size - 1) : a = pa + j
    <3>1. a - pa \in 0..(size - 1) /\ a = pa + (a - pa)
      BY <1>1, <2>1
    <3> QED BY <3>1
  <2> QED BY <1>1, <2>2
<1>11. StateOK(n)
  BY <1>9 DEF StateOK
<1> QED BY <1>3, <1>9, <1>10, <1>11 DEF n

-----------------------------------------------------------------------------
(* What one instruction does. *)

InstrOK(i) ==
    /\ i.rs \in GPReg /\ i.rd \in GPReg /\ i.extra \in Int
    /\ i.opCode \in RdOps => i.extra \in Bit
    /\ i.opCode \in RdOps \cup RtOps \cup HiLoOps \cup LoadOps \cup StoreOps \cup {"BEQ", "BNE"}
          => i.rt \in GPReg

(* The page tables of a state and of a later one: frames and rights stay,    *)
(* and dirty pages stay dirty.                                               *)
Ages(pt, pt2) ==
    /\ DOMAIN pt2 = DOMAIN pt
    /\ \A p \in DOMAIN pt : /\ pt2[p].physicalPage = pt[p].physicalPage
                            /\ pt2[p].valid = pt[p].valid
                            /\ pt2[p].readOnly = pt[p].readOnly
                            /\ pt[p].dirty => pt2[p].dirty

SameDirty(pt, pt2) == \A p \in DOMAIN pt : pt2[p].dirty = pt[p].dirty

(* A frame of which a byte changed is mapped by a dirty, writable page. *)
ChangesAreDirty(mem, mem2, pt) ==
    \A a \in 0..(MemorySize - 1) :
        mem2[a] # mem[a] =>
            \E p \in DOMAIN pt : /\ pt[p].valid /\ pt[p].dirty /\ ~pt[p].readOnly
                                 /\ pt[p].physicalPage = a \div PageSize

(* From s, an instruction leads to n. *)
Outcome(s, n) ==
    /\ StateOK(n)
    /\ Ages(s.pt, n.pt)
    /\ ChangesAreDirty(s.mem, n.mem, n.pt)
    /\ n.exc # "NoException" =>
          /\ n.mem = s.mem /\ Visible(n.reg) = Visible(s.reg)
          /\ SameDirty(s.pt, n.pt)
          /\ n.reg[PCReg] = s.reg[NextPCReg]

LEMMA AgesRefl ==
  ASSUME NEW pt, NEW mem
  PROVE  Ages(pt, pt) /\ SameDirty(pt, pt) /\ ChangesAreDirty(mem, mem, pt)
BY DEF Ages, SameDirty, ChangesAreDirty

LEMMA StateParts ==
  ASSUME NEW s, StateOK(s)
  PROVE  /\ s.reg \in [Reg -> Word] /\ s.reg[0] = 0 /\ s.reg[LoadReg] \in GPReg
         /\ s.pt \in Seq(PageEntry) /\ s.mem \in Memories
         /\ \A r \in GPReg : r \in Reg /\ s.reg[r] \in Word
         /\ s.reg[NextPCReg] \in Word /\ s.reg[PCReg] \in Word
         /\ W(s.reg[NextPCReg] + 4) \in Word
<1>1. s.reg \in [Reg -> Word] /\ s.reg[0] = 0 /\ s.reg[LoadReg] \in GPReg
      /\ s.pt \in Seq(PageEntry) /\ s.mem \in Memories
  BY DEF StateOK, RegsOK, MachineState
<1>2. \A r \in GPReg : r \in Reg
  BY RegNumbers
<1>3. NextPCReg \in Reg /\ PCReg \in Reg
  BY RegNumbers
<1>4. s.reg[NextPCReg] \in Word
  BY <1>1, <1>3
<1>5. s.reg[NextPCReg] + 4 \in Int
  BY <1>4, WordType
<1> QED BY <1>1, <1>2, <1>3, <1>5, WordType

(* An exception, after an access to the page table that was no write. *)
LEMMA RaiseOutcome ==
  ASSUME NEW s, NEW s1, StateOK(s1), s1.reg = s.reg, s1.mem = s.mem,
         Ages(s.pt, s1.pt), SameDirty(s.pt, s1.pt),
         NEW which \in Exceptions, NEW addr \in Word
  PROVE  Outcome(s, RaiseException(s1, which, addr))
<1> DEFINE n == RaiseException(s1, which, addr)
<1>1. /\ StateOK(n) /\ n.mem = s.mem /\ n.pt = s1.pt
      /\ Visible(n.reg) = Visible(s.reg) /\ n.reg[PCReg] = s.reg[NextPCReg]
  BY RaiseIs
<1>2. ChangesAreDirty(s.mem, n.mem, n.pt)
  BY <1>1 DEF ChangesAreDirty
<1> QED BY <1>1, <1>2 DEF Outcome

(* The end of an instruction that raised nothing. *)
LEMMA CompleteOutcome ==
  ASSUME NEW s, NEW s1, StateOK(s1), s1.exc = "NoException",
         Ages(s.pt, s1.pt), ChangesAreDirty(s.mem, s1.mem, s1.pt),
         NEW reg \in [Reg -> Word], reg[LoadReg] \in GPReg,
         NEW nl \in GPReg, NEW nv \in Word, NEW after \in Word
  PROVE  Outcome(s, Complete(s1, reg, nl, nv, after))
<1> DEFINE n == Complete(s1, reg, nl, nv, after)
<1>1. /\ StateOK(n) /\ n.mem = s1.mem /\ n.pt = s1.pt /\ n.exc = "NoException"
  BY CompleteIs
<1> QED BY <1>1 DEF Outcome

LEMMA DieOutcome ==
  ASSUME NEW s, StateOK(s), s.exc = "NoException", NEW why \in Stops
  PROVE  Outcome(s, Die(s, why))
<1>1. LET n == Die(s, why) IN
         /\ StateOK(n) /\ n.exc = "NoException" /\ n.mem = s.mem /\ n.pt = s.pt
  BY DieIs
<1> QED BY <1>1, AgesRefl DEF Outcome

(* An exception, or the end, of an instruction that touched no page. *)
LEMMA RaiseHere ==
  ASSUME NEW s, StateOK(s), NEW which \in Exceptions, NEW addr \in Word
  PROVE  Outcome(s, RaiseException(s, which, addr))
<1>1. Ages(s.pt, s.pt) /\ SameDirty(s.pt, s.pt)
  BY AgesRefl
<1> QED BY <1>1, RaiseOutcome

LEMMA CompleteHere ==
  ASSUME NEW s, StateOK(s), s.exc = "NoException",
         NEW reg \in [Reg -> Word], reg[LoadReg] \in GPReg, NEW after \in Word
  PROVE  Outcome(s, Complete(s, reg, 0, 0, after))
<1>1. Ages(s.pt, s.pt) /\ ChangesAreDirty(s.mem, s.mem, s.pt)
  BY AgesRefl
<1>2. 0 \in GPReg /\ 0 \in Word
  BY RegNumbers, WordType
<1> QED BY <1>1, <1>2, CompleteOutcome

(* A register is written. *)
LEMMA WriteReg ==
  ASSUME NEW reg \in [Reg -> Word], reg[LoadReg] \in GPReg,
         NEW t \in 0..5, NEW v \in Word
  PROVE  LET w == [reg EXCEPT ![t] = v] IN
         /\ w \in [Reg -> Word] /\ w[LoadReg] = reg[LoadReg] /\ w[LoadReg] \in GPReg
         /\ w[t] = v /\ \A r \in Reg : r # t => w[r] = reg[r]
BY RegNumbers

LEMMA ArithmeticOutcome ==
  ASSUME NEW s, StateOK(s), s.exc = "NoException", NEW i, InstrOK(i),
         i.opCode \in RdOps \cup RtOps
  PROVE  Outcome(s, Arithmetic(s, i))
<1> DEFINE r == s.reg
           a == r[i.rs]
           b == IF i.opCode \in RdOps THEN r[i.rt] ELSE i.extra
           v == IF i.opCode \in RdOps THEN RdValue(i.opCode, a, b, i.extra)
                                      ELSE RtValue(i.opCode, a, b)
           t == IF i.opCode \in RdOps THEN i.rd ELSE i.rt
           w == [r EXCEPT ![t] = v]
           after == W(r[NextPCReg] + 4)
<1>1. i.rs \in GPReg /\ i.rt \in GPReg /\ i.rd \in GPReg /\ i.extra \in Int
      /\ (i.opCode \in RdOps => i.extra \in Bit)
  BY DEF InstrOK
<1>2. /\ r \in [Reg -> Word] /\ r[LoadReg] \in GPReg /\ a \in Word
      /\ r[i.rt] \in Word /\ after \in Word
  BY <1>1, StateParts
<1>3. v \in Word
  BY <1>1, <1>2, RdValueType, RtValueType
<1>4. t \in 0..5
  BY <1>1, RegNumbers
<1>5. \/ Arithmetic(s, i) = RaiseException(s, "OverflowException", 0)
      \/ Arithmetic(s, i) = Complete(s, w, 0, 0, after)
  BY DEF Arithmetic
<1> HIDE DEF r, v, t, after
<1>6. w \in [Reg -> Word] /\ w[LoadReg] \in GPReg
  BY <1>2, <1>3, <1>4, WriteReg
<1> HIDE DEF w
<1>7. 0 \in Word /\ "OverflowException" \in Exceptions
  BY WordType DEF Exceptions
<1>8. Outcome(s, RaiseException(s, "OverflowException", 0))
  BY Zenon, <1>7, RaiseHere
<1>9. Outcome(s, Complete(s, w, 0, 0, after))
  BY <1>2, <1>6, CompleteHere
<1> QED BY <1>5, <1>8, <1>9

LEMMA HiLoOutcome ==
  ASSUME NEW s, StateOK(s), s.exc = "NoException", NEW i, InstrOK(i),
         i.opCode \in HiLoOps
  PROVE  Outcome(s, HiLo(s, i))
<1> DEFINE r == s.reg
           a == r[i.rs]
           b == r[i.rt]
           hl == CASE i.opCode = "MULT"  -> Mult(a, b, TRUE)
                   [] i.opCode = "MULTU" -> Mult(a, b, FALSE)
                   [] i.opCode = "DIV"   -> Div(a, b, TRUE)
                   [] i.opCode = "DIVU"  -> Div(a, b, FALSE)
                   [] i.opCode = "MTHI"  -> <<a, r[LoReg]>>
                   [] i.opCode = "MTLO"  -> <<r[HiReg], a>>
                   [] OTHER              -> <<r[HiReg], r[LoReg]>>
           reg == CASE i.opCode = "MFHI" -> [r EXCEPT ![i.rd] = r[HiReg]]
                    [] i.opCode = "MFLO" -> [r EXCEPT ![i.rd] = r[LoReg]]
                    [] OTHER             -> [r EXCEPT ![HiReg] = hl[1], ![LoReg] = hl[2]]
           after == W(r[NextPCReg] + 4)
<1>1. i.rs \in GPReg /\ i.rt \in GPReg /\ i.rd \in GPReg
  BY DEF InstrOK
<1>2. /\ r \in [Reg -> Word] /\ r[LoadReg] \in GPReg /\ a \in Word /\ b \in Word
      /\ after \in Word
  BY <1>1, StateParts
<1>3. /\ r[HiReg] \in Word /\ r[LoReg] \in Word /\ i.rd \in 0..5
      /\ HiReg \in 0..5 /\ LoReg \in 0..5
  BY <1>1, <1>2, RegNumbers
<1>4. HiLo(s, i) = Die(s, "divideTrap") \/ HiLo(s, i) = Complete(s, reg, 0, 0, after)
  BY Zenon DEF HiLo
<1>5. hl[1] \in Word /\ hl[2] \in Word
  <2>1. Mult(a, b, TRUE)[1] \in Word /\ Mult(a, b, TRUE)[2] \in Word
    BY <1>2, MultSigned
  <2>2. Mult(a, b, FALSE)[1] \in Word /\ Mult(a, b, FALSE)[2] \in Word
    BY <1>2, MultUnsigned
  <2>3. Div(a, b, TRUE)[1] \in Word /\ Div(a, b, TRUE)[2] \in Word
    BY <1>2, DivType
  <2>4. Div(a, b, FALSE)[1] \in Word /\ Div(a, b, FALSE)[2] \in Word
    BY <1>2, DivType
  <2> QED BY <1>2, <1>3, <2>1, <2>2, <2>3, <2>4
<1> HIDE DEF r, hl, after
<1>6. reg \in [Reg -> Word] /\ reg[LoadReg] \in GPReg
  <2>1. /\ [r EXCEPT ![i.rd] = r[HiReg]] \in [Reg -> Word]
        /\ [r EXCEPT ![i.rd] = r[HiReg]][LoadReg] \in GPReg
    BY <1>2, <1>3, WriteReg
  <2>2. /\ [r EXCEPT ![i.rd] = r[LoReg]] \in [Reg -> Word]
        /\ [r EXCEPT ![i.rd] = r[LoReg]][LoadReg] \in GPReg
    BY <1>2, <1>3, WriteReg
  <2>3. PICK q : q = [r EXCEPT ![HiReg] = hl[1]]
    OBVIOUS
  <2>4. q \in [Reg -> Word] /\ q[LoadReg] \in GPReg
    BY <1>2, <1>3, <1>5, <2>3, WriteReg
  <2>5. [q EXCEPT ![LoReg] = hl[2]] \in [Reg -> Word] /\ [q EXCEPT ![LoReg] = hl[2]][LoadReg] \in GPReg
    BY <1>3, <1>5, <2>4, WriteReg
  <2>6. [r EXCEPT ![HiReg] = hl[1], ![LoReg] = hl[2]] = [q EXCEPT ![LoReg] = hl[2]]
    BY <2>3
  <2> QED BY <2>1, <2>2, <2>5, <2>6
<1> HIDE DEF reg
<1>7. Outcome(s, Complete(s, reg, 0, 0, after))
  BY <1>2, <1>6, CompleteHere
<1>8. "divideTrap" \in Stops
  BY DEF Stops
<1>9. Outcome(s, Die(s, "divideTrap"))
  BY <1>8, DieOutcome
<1> QED BY <1>4, <1>7, <1>9

LEMMA BranchOutcome ==
  ASSUME NEW s, StateOK(s), s.exc = "NoException", NEW i, InstrOK(i)
  PROVE  Outcome(s, Branch(s, i))
<1> DEFINE linked == [s.reg EXCEPT ![R31] = W(s.reg[NextPCReg] + 4)]
           r == IF i.opCode \in {"BLTZAL", "BGEZAL"} THEN linked ELSE s.reg
           b == IF i.opCode \in {"BEQ", "BNE"} THEN r[i.rt] ELSE 0
           after == W(r[NextPCReg] + IF Taken(i.opCode, r[i.rs], b)
                                     THEN IndexToAddr(i.extra) ELSE 4)
<1>1. /\ s.reg \in [Reg -> Word] /\ s.reg[LoadReg] \in GPReg
      /\ W(s.reg[NextPCReg] + 4) \in Word /\ R31 \in 0..5 /\ NextPCReg \in Reg
  BY StateParts, RegNumbers
<1>2. linked \in [Reg -> Word] /\ linked[LoadReg] \in GPReg
  BY <1>1, WriteReg
<1>3. r \in [Reg -> Word] /\ r[LoadReg] \in GPReg
  BY <1>1, <1>2
<1>4. Branch(s, i) = Complete(s, r, 0, 0, after)
  BY DEF Branch
<1> HIDE DEF r
<1>5. after \in Word
  <2>1. IndexToAddr(i.extra) \in Int
    BY WordType DEF InstrOK, IndexToAddr
  <2>2. r[NextPCReg] \in Int
    BY <1>1, <1>3, WordType
  <2> QED BY <2>1, <2>2, WordType
<1> HIDE DEF after
<1> QED BY <1>3, <1>4, <1>5, CompleteHere

(* The address J and JAL put together from the region of the delay slot. *)
LEMMA RegionWord ==
  ASSUME NEW after \in Word, NEW x \in Int
  PROVE  (after \div 2^(WordBits - 2)) * 2^(WordBits - 2)
            + (IndexToAddr(x) % 2^(WordBits - 2)) \in Word
<1> DEFINE region == 2^(WordBits - 2)
<1>0. region \in Nat \ {0} /\ 4 * region = Modulus
  BY WidthPowers
<1> HIDE DEF region
<1>1. PICK e \in Int : e = IndexToAddr(x)
  BY WordType DEF IndexToAddr
<1>2. after \in Nat /\ after < Modulus
  BY ModulusType DEF Word
<1>3. PICK k \in Nat : k = after \div region
  BY <1>0, <1>2
<1>4. after >= region * k
  BY <1>0, <1>2, <1>3
<1>5. k < 4
  <2>1. ASSUME NEW c \in Nat, NEW d \in Nat, c >= 4 PROVE d * c >= 4 * d
    BY <2>1
  <2> QED BY <1>0, <1>2, <1>4, <2>1
<1>6. PICK f \in 0..(region - 1) : f = e % region
  BY <1>0
<1>7. k * region + f \in Nat /\ k * region + f < 4 * region
  <2>1. CASE k = 0
    BY <1>0, <1>6, <2>1
  <2>2. CASE k = 1
    BY <1>0, <1>6, <2>2
  <2>3. CASE k = 2
    BY <1>0, <1>6, <2>3
  <2>4. CASE k = 3
    BY <1>0, <1>6, <2>4
  <2> QED BY <1>5, <2>1, <2>2, <2>3, <2>4
<1> QED BY <1>0, <1>1, <1>3, <1>6, <1>7, ModulusType DEF Word, region

LEMMA JumpOutcome ==
  ASSUME NEW s, StateOK(s), s.exc = "NoException", NEW i, InstrOK(i)
  PROVE  Outcome(s, Jump(s, i))
<1> DEFINE after == W(s.reg[NextPCReg] + 4)
           region == 2^(WordBits - 2)
           r == CASE i.opCode = "JAL"  -> [s.reg EXCEPT ![R31] = after]
                  [] i.opCode = "JALR" -> [s.reg EXCEPT ![i.rd] = after]
                  [] OTHER -> s.reg
           to == IF i.opCode \in {"J", "JAL"}
                 THEN (after \div region) * region + (IndexToAddr(i.extra) % region)
                 ELSE r[i.rs]
<1>1. /\ s.reg \in [Reg -> Word] /\ s.reg[LoadReg] \in GPReg
      /\ after \in Word /\ R31 \in 0..5 /\ i.rd \in 0..5 /\ i.rs \in Reg
  BY StateParts, RegNumbers DEF InstrOK
<1>2. Jump(s, i) = Complete(s, r, 0, 0, to)
  BY Zenon DEF Jump
<1>3. region \in Nat \ {0} /\ 4 * region = Modulus
  BY WidthPowers
<1> HIDE DEF after, region
<1>4. r \in [Reg -> Word] /\ r[LoadReg] \in GPReg
  BY <1>1, WriteReg
<1> HIDE DEF r
<1>5. (after \div region) * region + (IndexToAddr(i.extra) % region) \in Word
  BY <1>1, RegionWord DEF InstrOK, region
<1>6. r[i.rs] \in Word
  BY <1>1, <1>4
<1>7. to \in Word
  BY <1>5, <1>6
<1> HIDE DEF to
<1> QED BY <1>2, <1>4, <1>7, CompleteHere

(* What a load leaves for the register. *)
LEMMA LoadedType ==
  ASSUME NEW s, StateOK(s), NEW i, i.opCode \in LoadOps, i.rt \in GPReg,
         NEW value \in Word,
         i.opCode = "LH" => value \in 0..(2^HalfBits - 1)
  PROVE  Loaded(s, i, value) \in Word
<1> DEFINE old == IF s.reg[LoadReg] = i.rt THEN s.reg[LoadValueReg] ELSE s.reg[i.rt]
           X == 2^ByteBits
           T == 2^(3 * ByteBits)
<1>1. X \in Nat \ {0} /\ T \in Nat \ {0} /\ X * T = Modulus
  BY WidthPowers
<1>2. old \in Word
  BY StateParts, RegNumbers
<1>3. value \in Nat /\ value < Modulus
  BY ModulusType DEF Word
<1>4. \/ i.opCode = "LBU" /\ Loaded(s, i, value) = value % X
      \/ i.opCode = "LH" /\ Loaded(s, i, value) = SignExtend(value, HalfBits)
      \/ i.opCode = "LWR" /\ Loaded(s, i, value) = (old - (old % X)) + value \div T
      \/ Loaded(s, i, value) = value
  BY DEF Loaded
<1> HIDE DEF old, X, T
<1>5. value % X \in Word
  <2>1. value % X \in Nat /\ value % X <= value
    BY <1>1, <1>3
  <2> QED BY <1>3, <2>1, ModulusType DEF Word
<1>6. (old - (old % X)) + value \div T \in Word
  <2>1. PICK o \in Nat : o = old /\ o < Modulus
    BY <1>2, ModulusType DEF Word
  <2>2. PICK q \in Nat : q = o \div X
    BY <1>1
  <2>3. PICK m \in Nat : m = o % X
    BY <1>1
  <2>4. o = X * q + m
    BY <1>1, <2>2, <2>3
  <2>5. PICK v \in Nat : v = value \div T
    BY <1>1, <1>3
  <2>6. q < T
    <3>1. ASSUME NEW c \in Nat, NEW d \in Nat, NEW e \in Nat, c * d < c * e PROVE d < e
      BY <3>1
    <3>2. X * q \in Nat /\ X * q <= o
      BY <1>1, <2>4
    <3>3. X * q < X * T
      BY <1>1, <2>1, <3>2, ModulusType
    <3> QED BY <1>1, <3>1, <3>3
  <2>7. v < X
    <3>1. ASSUME NEW c \in Nat, NEW d \in Nat, NEW e \in Nat, c * d < e * c PROVE d < e
      BY <3>1
    <3>2. T * v \in Nat /\ T * v <= value
      BY <1>1, <1>3, <2>5
    <3>3. T * v < X * T
      BY <1>1, <1>3, <3>2, ModulusType
    <3> QED BY <1>1, <3>1, <3>3
  <2>8. v + q * X \in Nat /\ v + q * X < X * T
    BY <1>1, <2>6, <2>7, TwoDigits
  <2>9. (old - (old % X)) + value \div T = v + q * X
    <3>1. X * q = q * X /\ X * q \in Nat
      BY <1>1
    <3> QED BY <2>1, <2>3, <2>4, <2>5, <3>1
  <2> QED BY <1>1, <2>8, <2>9, ModulusType DEF Word
<1>7. i.opCode = "LH" => SignExtend(value, HalfBits) \in Word
  BY SignExtendType
<1> QED BY <1>4, <1>5, <1>6, <1>7

LEMMA AccessSizes ==
  /\ \A op : AccessSize(op) \in {1, 2, 4}
  /\ AccessSize("LH") = 2
BY DEF AccessSize

(* A page that was touched by a read. *)
LEMMA TouchRead ==
  ASSUME NEW s, StateOK(s), NEW addr \in Word, NEW size \in {1, 2, 4},
         NEW writing \in BOOLEAN,
         Translate(s.pt, addr, size, writing) = "NoException"
  PROVE  LET s1 == [s EXCEPT !.pt = Touch(@, addr, FALSE)] IN
         /\ StateOK(s1) /\ s1.reg = s.reg /\ s1.mem = s.mem
         /\ s1.exc = s.exc /\ s1.stop = s.stop /\ s1.pt = Touch(s.pt, addr, FALSE)
         /\ Ages(s.pt, s1.pt) /\ SameDirty(s.pt, s1.pt)
<1> DEFINE s1 == [s EXCEPT !.pt = Touch(@, addr, FALSE)]
<1>1. s \in MachineState /\ s.pt \in Seq(PageEntry)
  BY DEF StateOK, MachineState
<1>2. (addr \div PageSize) + 1 \in DOMAIN s.pt
  BY <1>1, TranslateIs
<1>3. PICK t : t = Touch(s.pt, addr, FALSE)
  OBVIOUS
<1>9. PICK w \in BOOLEAN : w = FALSE
  OBVIOUS
<1>10. PICK q \in Seq(PageEntry) : q = s.pt
  BY <1>1
<1>11. t = Touch(q, addr, w) /\ (addr \div PageSize) + 1 \in DOMAIN q
  BY <1>2, <1>3, <1>9, <1>10
<1>12. /\ t \in Seq(PageEntry) /\ DOMAIN t = DOMAIN q
       /\ \A p \in DOMAIN q :
               /\ t[p].physicalPage = q[p].physicalPage
               /\ t[p].valid = q[p].valid /\ t[p].readOnly = q[p].readOnly
               /\ t[p].dirty = (q[p].dirty \/ (p = (addr \div PageSize) + 1 /\ w))
  BY <1>11, TouchIs
<1>5. \A p \in DOMAIN q : q[p].dirty \in BOOLEAN
  <2>1. \A p \in DOMAIN q : q[p] \in PageEntry
    OBVIOUS
  <2> QED BY <2>1 DEF PageEntry
<1>4. /\ t \in Seq(PageEntry) /\ DOMAIN t = DOMAIN s.pt
      /\ \A p \in DOMAIN s.pt :
               /\ t[p].physicalPage = s.pt[p].physicalPage
               /\ t[p].valid = s.pt[p].valid /\ t[p].readOnly = s.pt[p].readOnly
               /\ t[p].dirty = s.pt[p].dirty
  BY <1>5, <1>9, <1>10, <1>12
<1>6. Ages(s.pt, t) /\ SameDirty(s.pt, t)
  BY <1>4 DEF Ages, SameDirty
<1>7. s1 = [s EXCEPT !.pt = t]
  BY <1>3
<1>8. /\ s1 \in MachineState /\ s1.pt = t /\ s1.reg = s.reg /\ s1.mem = s.mem
      /\ s1.exc = s.exc /\ s1.stop = s.stop
  BY <1>1, <1>4, <1>7 DEF MachineState
<1> QED BY <1>3, <1>6, <1>8 DEF StateOK

LEMMA HalfIsWord == \A x \in 0..(2^HalfBits - 1) : x \in Word
<1>1. PICK H \in Nat : H = 2^HalfBits /\ H * H = Modulus /\ H > 0
  BY WidthPowers
<1>2. ASSUME NEW n \in Nat, n > 0 PROVE n <= n * n
  BY <1>2
<1>3. H <= Modulus
  BY <1>1, <1>2
<1>4. \A x \in 0..(H - 1) : x \in Word
  BY <1>1, <1>3, ModulusType DEF Word
<1> QED BY <1>1, <1>4

LEMMA LoadOutcome ==
  ASSUME NEW s, StateOK(s), s.exc = "NoException", NEW i, InstrOK(i),
         i.opCode \in LoadOps
  PROVE  Outcome(s, Load(s, i))
<1> DEFINE tmp == W(s.reg[i.rs] + i.extra)
           size == AccessSize(i.opCode)
           exc == Translate(s.pt, tmp, size, FALSE)
           s1 == [s EXCEPT !.pt = Touch(@, tmp, FALSE)]
           v == Loaded(s, i, ReadMem(s, tmp, size))
           after == W(s.reg[NextPCReg] + 4)
<1>1. i.rs \in GPReg /\ i.rt \in GPReg /\ i.extra \in Int
  BY DEF InstrOK
<1>2. /\ s.reg \in [Reg -> Word] /\ s.reg[LoadReg] \in GPReg /\ s.reg[i.rs] \in Word
      /\ after \in Word /\ s.pt \in Seq(PageEntry) /\ s \in MachineState
  BY <1>1, StateParts DEF StateOK
<1>3. tmp \in Word
  BY <1>1, <1>2, WordType
<1>4. size \in {1, 2, 4} /\ (i.opCode = "LH" => size = 2)
  BY AccessSizes
<1>5. \/ Load(s, i) = Die(s, "ASSERT")
      \/ exc # "NoException" /\ Load(s, i) = RaiseException(s, exc, tmp)
      \/ exc = "NoException" /\ Load(s, i) = Complete(s1, s.reg, i.rt, v, after)
  BY Zenon DEF Load
<1> HIDE DEF tmp, size, after
<1>6. exc \in Exceptions
  BY <1>2, <1>3, <1>4, TranslateIs
<1>7. ASSUME exc = "NoException" PROVE v \in Word
  <2>1. PICK val : val = ReadMem(s, tmp, size)
    OBVIOUS
  <2>2. /\ size = 1 => val \in Word
        /\ size = 2 => val \in 0..(2^HalfBits - 1)
        /\ size = 4 => val \in Word
    BY <1>2, <1>3, <1>4, <1>7, <2>1, ReadMemType
  <2>4. val \in Word /\ (i.opCode = "LH" => val \in 0..(2^HalfBits - 1))
    BY <1>4, <2>2, HalfIsWord
  <2> QED BY <1>1, <2>1, <2>4, LoadedType
<1> HIDE DEF exc, v
<1>8. ASSUME exc = "NoException" PROVE Outcome(s, Complete(s1, s.reg, i.rt, v, after))
  <2>1. /\ StateOK(s1) /\ s1.exc = "NoException" /\ s1.mem = s.mem /\ Ages(s.pt, s1.pt)
    BY <1>3, <1>4, <1>8, TouchRead DEF exc
  <2>2. ChangesAreDirty(s.mem, s1.mem, s1.pt)
    BY <2>1, AgesRefl
  <2> HIDE DEF s1
  <2> QED BY <1>1, <1>2, <1>7, <1>8, <2>1, <2>2, CompleteOutcome
<1>9. Outcome(s, Die(s, "ASSERT"))
  BY DieOutcome DEF Stops
<1>10. Outcome(s, RaiseException(s, exc, tmp))
  BY <1>3, <1>6, RaiseHere
<1> QED BY <1>5, <1>8, <1>9, <1>10

(* Use and dirty bits do not matter to Translate. *)
LEMMA SameTranslation ==
  ASSUME NEW pt \in Seq(PageEntry), NEW pt2 \in Seq(PageEntry), Ages(pt, pt2),
         NEW addr \in Word, NEW size \in {1, 2, 4}, NEW writing \in BOOLEAN
  PROVE  Translate(pt2, addr, size, writing) = Translate(pt, addr, size, writing)
<1>1. Len(pt2) = Len(pt)
  BY DEF Ages
<1>2. addr \in Nat /\ addr \div PageSize \in Nat
  BY ModulusType, MachineAssumption DEF Word
<1>3. CASE addr \div PageSize >= Len(pt)
  BY <1>1, <1>3 DEF Translate
<1>4. CASE ~(addr \div PageSize >= Len(pt))
  <2>1. (addr \div PageSize) + 1 \in DOMAIN pt
    BY <1>2, <1>4
  <2>2. /\ Entry(pt2, addr).physicalPage = Entry(pt, addr).physicalPage
        /\ Entry(pt2, addr).valid = Entry(pt, addr).valid
        /\ Entry(pt2, addr).readOnly = Entry(pt, addr).readOnly
    BY <2>1 DEF Ages, Entry
  <2> QED BY <1>1, <2>2 DEF Translate
<1> QED BY <1>3, <1>4

LEMMA AgesTrans ==
  ASSUME NEW pt, NEW pt2, NEW pt3, Ages(pt, pt2), Ages(pt2, pt3)
  PROVE  Ages(pt, pt3)
BY DEF Ages

(* A write marks the page of the frame it changes. *)
LEMMA WriteIsDirty ==
  ASSUME NEW s, StateOK(s), NEW addr \in Word, NEW size \in {1, 2, 4},
         Translate(s.pt, addr, size, TRUE) = "NoException", NEW value \in Int
  PROVE  LET n == WriteMem(s, addr, size, value) IN
         Ages(s.pt, n.pt) /\ ChangesAreDirty(s.mem, n.mem, n.pt)
<1>1. PICK n : n = WriteMem(s, addr, size, value)
  OBVIOUS
<1>2. PICK q \in Seq(PageEntry) : q = s.pt
  BY StateParts
<1>3. PICK w \in BOOLEAN : w = TRUE
  OBVIOUS
<1>4. PICK p0 : p0 = (addr \div PageSize) + 1
  OBVIOUS
<1>5. /\ p0 \in DOMAIN q /\ Entry(q, addr) = q[p0]
      /\ q[p0].valid /\ ~q[p0].readOnly
  <2>1. /\ (addr \div PageSize) + 1 \in DOMAIN q
        /\ Entry(q, addr).valid
        /\ w => ~Entry(q, addr).readOnly
    BY <1>2, <1>3, TranslateIs
  <2> QED BY <1>3, <1>4, <2>1 DEF Entry
<1>6. /\ n.pt = Touch(q, addr, w)
      /\ \A a \in 0..(MemorySize - 1) :
               n.mem[a] # s.mem[a] => a \div PageSize = Entry(q, addr).physicalPage
  BY <1>1, <1>2, <1>3, WriteMemIs
<1>7. PICK t : t = n.pt
  OBVIOUS
<1>8. /\ DOMAIN t = DOMAIN q
      /\ \A p \in DOMAIN q :
               /\ t[p].physicalPage = q[p].physicalPage
               /\ t[p].valid = q[p].valid /\ t[p].readOnly = q[p].readOnly
               /\ t[p].dirty = (q[p].dirty \/ (p = (addr \div PageSize) + 1 /\ w))
  BY <1>4, <1>5, <1>6, <1>7, TouchIs
<1>9. Ages(q, t)
  BY <1>8 DEF Ages
<1>10. t[p0].valid /\ t[p0].dirty /\ ~t[p0].readOnly /\ p0 \in DOMAIN t
       /\ t[p0].physicalPage = Entry(q, addr).physicalPage
  BY <1>3, <1>4, <1>5, <1>8
<1>11. ChangesAreDirty(s.mem, n.mem, t)
  BY <1>6, <1>10 DEF ChangesAreDirty
<1> QED BY <1>1, <1>2, <1>7, <1>9, <1>11

LEMMA StoreOutcome ==
  ASSUME NEW s, StateOK(s), s.exc = "NoException", NEW i, InstrOK(i),
         i.opCode \in StoreOps
  PROVE  Outcome(s, Store(s, i))
<1> DEFINE tmp == W(s.reg[i.rs] + i.extra)
           size == AccessSize(i.opCode)
           reads == i.opCode \in {"SWL", "SWR"}
           readExc == IF reads THEN Translate(s.pt, tmp, size, FALSE) ELSE "NoException"
           writeExc == Translate(s.pt, tmp, size, TRUE)
           rt == s.reg[i.rt]
           value == IF i.opCode = "SWR"
                    THEN (ReadMem(s, tmp, 4) % 2^(3 * ByteBits)) + W(rt * 2^(3 * ByteBits))
                    ELSE rt
           s1 == IF reads THEN [s EXCEPT !.pt = Touch(@, tmp, FALSE)] ELSE s
           after == W(s.reg[NextPCReg] + 4)
<1>1. i.rs \in GPReg /\ i.rt \in GPReg /\ i.extra \in Int
  BY DEF InstrOK
<1>2. /\ s.reg \in [Reg -> Word] /\ s.reg[LoadReg] \in GPReg /\ s.reg[i.rs] \in Word
      /\ rt \in Word /\ after \in Word /\ s.pt \in Seq(PageEntry) /\ s \in MachineState
  BY <1>1, StateParts DEF StateOK
<1>3. tmp \in Word
  BY <1>1, <1>2, WordType
<1>4. size \in {1, 2, 4} /\ (reads => size = 4)
  BY DEF AccessSize
<1>5. \/ Store(s, i) = Die(s, "ASSERT")
      \/ readExc # "NoException" /\ Store(s, i) = RaiseException(s, readExc, tmp)
      \/ /\ readExc = "NoException" /\ writeExc # "NoException"
         /\ Store(s, i) = RaiseException(s1, writeExc, tmp)
      \/ /\ readExc = "NoException" /\ writeExc = "NoException"
         /\ Store(s, i) = Complete(WriteMem(s1, tmp, size, value), s.reg, 0, 0, after)
  BY Zenon DEF Store
<1>6. readExc \in Exceptions
  <2>1. Translate(s.pt, tmp, size, FALSE) \in Exceptions
    BY <1>2, <1>3, <1>4, TranslateIs
  <2> QED BY <2>1 DEF Exceptions
<1>7. writeExc \in Exceptions
  BY <1>2, <1>3, <1>4, TranslateIs
<1> HIDE DEF tmp, size, after
<1>8. ASSUME readExc = "NoException" PROVE value \in Int
  <2>1. CASE i.opCode = "SWR"
    <3>1. Translate(s.pt, tmp, 4, FALSE) = "NoException"
      BY <1>4, <1>8, <2>1
    <3>2. PICK x \in Word : x = ReadMem(s, tmp, 4)
      BY <1>2, <1>3, <3>1, ReadMemType
    <3>3. PICK T \in Nat \ {0} : T = 2^(3 * ByteBits)
      BY WidthPowers
    <3>4. x % T \in Int /\ rt * T \in Int
      BY <1>2, <3>2, <3>3, WordType
    <3>5. W(rt * T) \in Int
      BY <3>4, WordType
    <3> QED BY <2>1, <3>2, <3>3, <3>4, <3>5
  <2>2. CASE i.opCode # "SWR"
    BY <1>2, <2>2, WordType
  <2> QED BY <2>1, <2>2
<1>9. ASSUME readExc = "NoException"
      PROVE  /\ StateOK(s1) /\ s1.reg = s.reg /\ s1.mem = s.mem /\ s1.exc = "NoException"
             /\ Ages(s.pt, s1.pt) /\ SameDirty(s.pt, s1.pt)
  <2>1. CASE reads
    <3>1. Translate(s.pt, tmp, size, FALSE) = "NoException"
      BY <1>9, <2>1
    <3> QED BY <1>3, <1>4, <2>1, <3>1, TouchRead
  <2>2. CASE ~reads
    BY <2>2, AgesRefl
  <2> QED BY <2>1, <2>2
<1> HIDE DEF readExc, writeExc, value, s1
<1>10. Outcome(s, Die(s, "ASSERT"))
  BY DieOutcome DEF Stops
<1>11. Outcome(s, RaiseException(s, readExc, tmp))
  BY <1>3, <1>6, RaiseHere
<1>12. ASSUME readExc = "NoException" PROVE Outcome(s, RaiseException(s1, writeExc, tmp))
  BY <1>3, <1>7, <1>9, <1>12, RaiseOutcome
<1>13. ASSUME readExc = "NoException", writeExc = "NoException"
       PROVE  Outcome(s, Complete(WriteMem(s1, tmp, size, value), s.reg, 0, 0, after))
  <2>1. s1.pt \in Seq(PageEntry)
    BY <1>9, <1>13, StateParts
  <2>2. Translate(s1.pt, tmp, size, TRUE) = Translate(s.pt, tmp, size, TRUE)
    BY <1>2, <1>3, <1>4, <1>9, <1>13, <2>1, SameTranslation
  <2>3. Translate(s1.pt, tmp, size, TRUE) = "NoException"
    BY <1>13, <2>2 DEF writeExc
  <2>4. PICK n : n = WriteMem(s1, tmp, size, value)
    OBVIOUS
  <2>5. StateOK(n) /\ n.exc = s1.exc
    BY <1>3, <1>4, <1>8, <1>9, <1>13, <2>3, <2>4, WriteMemIs
  <2>6. Ages(s1.pt, n.pt) /\ ChangesAreDirty(s1.mem, n.mem, n.pt)
    BY <1>3, <1>4, <1>8, <1>9, <1>13, <2>3, <2>4, WriteIsDirty
  <2>7. Ages(s.pt, n.pt)
    BY <1>9, <1>13, <2>6, AgesTrans
  <2>8. 0 \in GPReg /\ 0 \in Word
    BY RegNumbers, WordType
  <2> QED BY <1>2, <1>9, <1>13, <2>4, <2>5, <2>6, <2>7, <2>8, CompleteOutcome
<1> QED BY <1>5, <1>10, <1>11, <1>12, <1>13

(* Decoding a word of a program gives an instruction that can be executed. *)
LEMMA DecodeOK ==
  ASSUME NEW raw \in Instructions
  PROVE  InstrOK(Decode(raw))
<1> DEFINE code == opTable[raw.op]
           op == CASE code = "SPECIAL" -> specialTable[raw.funct]
                   [] code = "BCOND" -> (CASE raw.rt = 0  -> "BLTZ"   [] raw.rt = 1  -> "BGEZ"
                                           [] raw.rt = 16 -> "BLTZAL" [] raw.rt = 17 -> "BGEZAL"
                                           [] OTHER -> "UNIMP")
                   [] OTHER -> code
           extra == CASE code = "SPECIAL" -> raw.sa
                      [] code \in {"J", "JAL"} -> raw.index
                      [] OTHER -> SignExtend(raw.imm, HalfBits)
<1>1. /\ raw.op \in 0..63 /\ raw.funct \in 0..63
      /\ raw.rs \in GPReg /\ raw.rd \in GPReg /\ (raw.op # 1 => raw.rt \in GPReg)
      /\ raw.sa \in Bit /\ raw.imm \in 0..(2^HalfBits - 1) /\ raw.index \in Nat
  BY InstructionsAssumption
<1>2. /\ Decode(raw).rs = raw.rs /\ Decode(raw).rt = raw.rt /\ Decode(raw).rd = raw.rd
      /\ Decode(raw).opCode = op /\ Decode(raw).extra = extra
  BY DEF Decode
<1>3. \A o \in 0..63 : opTable[o] \notin RdOps
  BY DEF opTable, RdOps
<1>4. opTable[1] = "BCOND"
  BY DEF opTable
<1> HIDE DEF code
<1>5. op \in RdOps => code = "SPECIAL"
  BY <1>1, <1>3 DEF RdOps, code
<1>6. code = "BCOND" => op \in {"BLTZ", "BGEZ", "BLTZAL", "BGEZAL", "UNIMP"}
  OBVIOUS
<1>7. ASSUME raw.op = 1
      PROVE op \notin RdOps \cup RtOps \cup HiLoOps \cup LoadOps \cup StoreOps \cup {"BEQ", "BNE"}
  <2>1. op \in {"BLTZ", "BGEZ", "BLTZAL", "BGEZAL", "UNIMP"}
    BY <1>4, <1>6, <1>7 DEF code
  <2> HIDE DEF op
  <2> QED BY <2>1 DEF RdOps, RtOps, HiLoOps, LoadOps, StoreOps
<1>8. extra \in Int
  <2>1. SignExtend(raw.imm, HalfBits) \in Int
    BY <1>1, SignExtendType, WordType
  <2>2. raw.sa \in Int
    BY <1>1, ModulusType DEF Bit
  <2>3. raw.index \in Int
    BY <1>1
  <2> QED BY <2>1, <2>2, <2>3
<1>9. code = "SPECIAL" => extra \in Bit
  BY <1>1
<1> HIDE DEF op, extra
<1> QED BY <1>1, <1>2, <1>5, <1>7, <1>8, <1>9 DEF InstrOK

LEMMA ExecuteOutcome ==
  ASSUME NEW s, StateOK(s), s.exc = "NoException", NEW i, InstrOK(i)
  PROVE  Outcome(s, Execute(s, i))
<1>1. 0 \in Word /\ "SyscallException" \in Exceptions /\ "IllegalInstrException" \in Exceptions
      /\ "ASSERT" \in Stops
  BY WordType DEF Exceptions, Stops
<1>2. \/ i.opCode \in RdOps \cup RtOps /\ Execute(s, i) = Arithmetic(s, i)
      \/ i.opCode \in HiLoOps /\ Execute(s, i) = HiLo(s, i)
      \/ Execute(s, i) = Branch(s, i)
      \/ Execute(s, i) = Jump(s, i)
      \/ i.opCode \in LoadOps /\ Execute(s, i) = Load(s, i)
      \/ i.opCode \in StoreOps /\ Execute(s, i) = Store(s, i)
      \/ Execute(s, i) = RaiseException(s, "SyscallException", 0)
      \/ Execute(s, i) = RaiseException(s, "IllegalInstrException", 0)
      \/ Execute(s, i) = Die(s, "ASSERT")
  BY DEF Execute
<1>3. CASE i.opCode \in RdOps \cup RtOps /\ Execute(s, i) = Arithmetic(s, i)
  BY <1>3, ArithmeticOutcome
<1>4. CASE i.opCode \in HiLoOps /\ Execute(s, i) = HiLo(s, i)
  BY <1>4, HiLoOutcome
<1>5. CASE Execute(s, i) = Branch(s, i)
  BY <1>5, BranchOutcome
<1>6. CASE Execute(s, i) = Jump(s, i)
  BY <1>6, JumpOutcome
<1>7. CASE i.opCode \in LoadOps /\ Execute(s, i) = Load(s, i)
  BY <1>7, LoadOutcome
<1>8. CASE i.opCode \in StoreOps /\ Execute(s, i) = Store(s, i)
  BY <1>8, StoreOutcome
<1>9. CASE Execute(s, i) = RaiseException(s, "SyscallException", 0)
  BY <1>1, <1>9, RaiseHere
<1>10. CASE Execute(s, i) = RaiseException(s, "IllegalInstrException", 0)
  BY <1>1, <1>10, RaiseHere
<1>11. CASE Execute(s, i) = Die(s, "ASSERT")
  BY <1>1, <1>11, DieOutcome
<1> QED BY <1>2, <1>3, <1>4, <1>5, <1>6, <1>7, <1>8, <1>9, <1>10, <1>11

(* The whole of OneInstruction, the fetch included. *)
LEMMA InstructionOutcome ==
  ASSUME NEW s, StateOK(s), s.exc = "NoException", NEW raw \in Instructions
  PROVE  Outcome(s, OneInstruction(s, raw))
<1> DEFINE pc == s.reg[PCReg]
           exc == Translate(s.pt, pc, 4, FALSE)
           s1 == [s EXCEPT !.pt = Touch(@, pc, FALSE)]
<1>1. pc \in Word /\ s.pt \in Seq(PageEntry)
  BY StateParts
<1>2. exc \in Exceptions
  BY <1>1, TranslateIs
<1>3. \/ OneInstruction(s, raw) = RaiseException(s, exc, pc)
      \/ exc = "NoException" /\ OneInstruction(s, raw) = Execute(s1, Decode(raw))
  BY Zenon DEF OneInstruction
<1> HIDE DEF pc
<1>4. Outcome(s, RaiseException(s, exc, pc))
  <2> HIDE DEF exc
  <2> QED BY <1>1, <1>2, RaiseHere
<1>5. ASSUME exc = "NoException" PROVE Outcome(s, Execute(s1, Decode(raw)))
  <2>1. /\ StateOK(s1) /\ s1.reg = s.reg /\ s1.mem = s.mem /\ s1.exc = "NoException"
        /\ Ages(s.pt, s1.pt) /\ SameDirty(s.pt, s1.pt)
    BY <1>1, <1>5, TouchRead
  <2>2. PICK t : t = s1
    OBVIOUS
  <2>3. PICK n : n = Execute(t, Decode(raw))
    OBVIOUS
  <2>4. Outcome(t, n)
    BY <2>1, <2>2, <2>3, DecodeOK, ExecuteOutcome
  <2>5. Ages(s.pt, n.pt)
    BY <2>1, <2>2, <2>4, AgesTrans DEF Outcome
  <2>6. SameDirty(t.pt, n.pt) => SameDirty(s.pt, n.pt)
    BY <2>1, <2>2 DEF SameDirty, Ages
  <2> HIDE DEF s1
  <2>7. Outcome(s, n)
    BY <2>1, <2>2, <2>4, <2>5, <2>6 DEF Outcome
  <2> QED BY <2>2, <2>3, <2>7
<1> QED BY <1>3, <1>4, <1>5

-----------------------------------------------------------------------------
(* The invariant: types, and what memory and page table say of each other. *)

MachineTypeOK ==
    /\ registers \in [Reg -> Word] /\ RegsOK(registers)
    /\ mainMemory \in Memories /\ pageTable \in Seq(PageEntry)
    /\ exception \in Exceptions /\ stopped \in Stops /\ steps \in Nat

MachineInv == MachineTypeOK /\ CleanFramesUnchanged

LEMMA StateTyped ==
  ASSUME MachineTypeOK
  PROVE  /\ StateOK(State) /\ State.exc = "NoException" /\ State.reg = registers
         /\ State.mem = mainMemory /\ State.pt = pageTable /\ State.stop = stopped
<1>1. State \in MachineState
  BY DEF MachineTypeOK, State, MachineState, Exceptions
<1> QED BY <1>1 DEF MachineTypeOK, State, StateOK

LEMMA InitTyped ==
  ASSUME MachineInit
  PROVE  MachineInv
<1>1. PICK v \in Values, w \in Values :
        registers = [r \in 0..(NumTotalRegs - 1) |->
                       CASE r = 1 -> v [] r = 2 -> w [] r = NextPCReg -> 4 [] OTHER -> 0]
  BY DEF MachineInit
<1>2. v \in Word /\ w \in Word /\ 4 \in Word /\ 0 \in Word
  BY WordType, MachineAssumption DEF Word, Modulus, WordBits
<1>3. registers \in [Reg -> Word]
  BY <1>1, <1>2, RegNumbers DEF Reg
<1>4. registers[0] = 0 /\ registers[LoadReg] = 0
  BY <1>1, RegNumbers DEF Reg
<1>5. RegsOK(registers)
  BY <1>3, <1>4, RegNumbers DEF RegsOK
<1>6. PICK X \in Nat \ {0} : X = 2^ByteBits
  BY WidthPowers
<1>7. MemorySize \in Nat
  BY MachineAssumption DEF MemorySize
<1>8. \A a \in Nat : (3 * a + 2) % X \in 0..(X - 1)
  OBVIOUS
<1>9. \A a \in 0..(MemorySize - 1) : SomeByte(a) \in Bytes
  BY <1>6, <1>7, <1>8 DEF SomeByte, Bytes
<1>10. mainMemory = [a \in 0..(MemorySize - 1) |-> SomeByte(a)]
  BY DEF MachineInit
<1>11. mainMemory \in Memories
  BY <1>9, <1>10 DEF Memories
<1>12. pageTable \in Seq(PageEntry) /\ exception \in Exceptions /\ stopped \in Stops
       /\ steps \in Nat
  BY MachineAssumption DEF MachineInit, PageEntry, Exceptions, Stops
<1>13. CleanFramesUnchanged
  BY <1>10 DEF CleanFramesUnchanged
<1> QED BY <1>3, <1>5, <1>11, <1>12, <1>13 DEF MachineInv, MachineTypeOK

(* A step is one instruction. *)
LEMMA StepOutcome ==
  ASSUME MachineTypeOK, MachineNext
  PROVE  /\ MachineTypeOK'
         /\ Ages(pageTable, pageTable')
         /\ ChangesAreDirty(mainMemory, mainMemory', pageTable')
         /\ exception' # "NoException" =>
               /\ mainMemory' = mainMemory /\ Visible(registers') = Visible(registers)
               /\ SameDirty(pageTable, pageTable')
               /\ registers'[PCReg] = registers[NextPCReg]
<1>1. PICK raw \in Instructions : Run(raw)
  BY DEF MachineNext
<1>2. PICK n : n = OneInstruction(State, raw)
  OBVIOUS
<1>3. PICK s : s = State
  OBVIOUS
<1>4. /\ registers' = n.reg /\ mainMemory' = n.mem /\ pageTable' = n.pt
      /\ exception' = n.exc /\ stopped' = n.stop /\ steps' = steps + 1
  BY <1>1, <1>2 DEF Run
<1>5. /\ StateOK(s) /\ s.exc = "NoException" /\ s.reg = registers
      /\ s.mem = mainMemory /\ s.pt = pageTable
  BY <1>3, StateTyped
<1>6. Outcome(s, n)
  BY <1>2, <1>3, <1>5, InstructionOutcome
<1>7. n \in MachineState /\ RegsOK(n.reg)
  BY <1>6 DEF Outcome, StateOK
<1>8. /\ n.reg \in [Reg -> Word] /\ n.mem \in Memories /\ n.pt \in Seq(PageEntry)
      /\ n.exc \in Exceptions /\ n.stop \in Stops
  BY <1>7 DEF MachineState
<1>9. MachineTypeOK'
  <2>1. steps' \in Nat
    BY <1>4 DEF MachineTypeOK
  <2> QED BY <1>4, <1>7, <1>8, <2>1 DEF MachineTypeOK, RegsOK
<1> QED BY <1>4, <1>5, <1>6, <1>9 DEF Outcome

(* CleanFramesUnchanged is kept: a byte that differs from what was loaded    *)
(* either differed before, and its page has stayed dirty, or it changed now. *)
LEMMA NextInv ==
  ASSUME MachineInv, [MachineNext]_machineVars
  PROVE  MachineInv'
<1>1. CASE UNCHANGED machineVars
  BY <1>1 DEF MachineInv, MachineTypeOK, RegsOK, CleanFramesUnchanged, machineVars
<1>2. CASE MachineNext
  <2>1. MachineTypeOK /\ CleanFramesUnchanged
    BY DEF MachineInv
  <2>2. /\ MachineTypeOK' /\ Ages(pageTable, pageTable')
        /\ ChangesAreDirty(mainMemory, mainMemory', pageTable')
    BY <1>2, <2>1, StepOutcome
  <2>3. DOMAIN mainMemory = 0..(MemorySize - 1) /\ DOMAIN mainMemory' = 0..(MemorySize - 1)
    BY <2>1, <2>2 DEF MachineTypeOK, Memories
  <2>4. CleanFramesUnchanged'
    <3> SUFFICES ASSUME NEW a \in 0..(MemorySize - 1), mainMemory'[a] # SomeByte(a)
                 PROVE  \E p \in DOMAIN pageTable' :
                           /\ pageTable'[p].valid /\ pageTable'[p].dirty
                           /\ ~pageTable'[p].readOnly
                           /\ pageTable'[p].physicalPage = a \div PageSize
      BY <2>3 DEF CleanFramesUnchanged
    <3>1. CASE mainMemory'[a] # mainMemory[a]
      BY <2>2, <3>1 DEF ChangesAreDirty
    <3>2. CASE mainMemory'[a] = mainMemory[a]
      <4>1. PICK p \in DOMAIN pageTable : /\ pageTable[p].valid /\ pageTable[p].dirty
                                          /\ ~pageTable[p].readOnly
                                          /\ pageTable[p].physicalPage = a \div PageSize
        BY <2>1, <2>3, <3>2 DEF CleanFramesUnchanged
      <4>2. /\ p \in DOMAIN pageTable' /\ pageTable'[p].valid /\ pageTable'[p].dirty
            /\ ~pageTable'[p].readOnly /\ pageTable'[p].physicalPage = a \div PageSize
        BY <2>2, <4>1 DEF Ages
      <4> QED BY <4>2
    <3> QED BY <3>1, <3>2
  <2> QED BY <2>2, <2>4 DEF MachineInv
<1> QED BY <1>1, <1>2

LEMMA MachineInvariant == MachineSpec => []MachineInv
<1>1. MachineInit => MachineInv
  BY InitTyped
<1>2. MachineInv /\ [MachineNext]_machineVars => MachineInv'
  BY NextInv
<1> QED BY <1>1, <1>2, PTL DEF MachineSpec

(* ArithmeticExact for every width of a machine word, 32 bits included, and  *)
(* for every value a program can compute: the loop of Mult and its two       *)
(* negations (mipssim.cc), the overflow tests and the division.              *)
THEOREM ArithmeticExactProved == MachineSpec => []ArithmeticExact
<1>1. MachineInv => ArithmeticExact
  BY ExactFromWords DEF MachineInv, MachineTypeOK
<1> QED BY <1>1, MachineInvariant, PTL

(* CleanFramesUnchanged for every page table, memory and program: no store,  *)
(* of whatever width, reaches a frame through a page that is read-only, or   *)
(* without leaving its dirty bit (translate.cc).                             *)
THEOREM CleanFramesProved == MachineSpec => []CleanFramesUnchanged
<1>1. MachineInv => CleanFramesUnchanged
  BY DEF MachineInv
<1> QED BY <1>1, MachineInvariant, PTL

(* FaultsPrecise for every instruction and every exception: RaiseException   *)
(* (machine.cc) comes before any lasting effect of the instruction, the one  *)
(* of SWL and SWR that has already read the word included.                   *)
THEOREM FaultsPreciseProved == MachineSpec => FaultsPrecise
<1> DEFINE Precise == exception' # "NoException" =>
                        /\ mainMemory' = mainMemory
                        /\ Visible(registers') = Visible(registers)
                        /\ \A p \in DOMAIN pageTable : pageTable'[p].dirty = pageTable[p].dirty
                        /\ exception' = "SyscallException" =>
                              registers'[PCReg] = registers[NextPCReg]
<1>1. ASSUME MachineInv, MachineNext PROVE Precise
  BY <1>1, StepOutcome DEF MachineInv, SameDirty
<1>2. MachineInv /\ [MachineNext]_machineVars => [Precise]_machineVars
  BY <1>1
<1> QED BY <1>2, MachineInvariant, PTL DEF MachineSpec, FaultsPrecise

-----------------------------------------------------------------------------
(* Load delays. *)

(* Two register files, one with a load in progress and one in which the same *)
(* load has arrived.                                                         *)
Arrived(q, q2) ==
    /\ q \in [Reg -> Word] /\ q[LoadReg] \in GPReg /\ q[LoadReg] # 0
    /\ q2 \in [Reg -> Word] /\ q2[LoadReg] = 0 /\ q2[LoadValueReg] = 0
    /\ \A r \in 1..5 : q2[r] = IF r = q[LoadReg] THEN q[LoadValueReg] ELSE q[r]
    /\ \A r \in {PCReg, NextPCReg, PrevPCReg, BadVAddrReg} : q2[r] = q[r]

(* Two states that differ in that only. *)
Delayed(s, t) ==
    /\ StateOK(s) /\ StateOK(t) /\ Arrived(s.reg, t.reg)
    /\ t.mem = s.mem /\ t.pt = s.pt /\ t.stop = s.stop
    /\ s.exc = "NoException" /\ t.exc = "NoException"

(* Nothing a program can see tells two states apart. *)
Alike(n, m) ==
    /\ Visible(n.reg) = Visible(m.reg)
    /\ \A r \in {PCReg, NextPCReg, PrevPCReg, BadVAddrReg} : n.reg[r] = m.reg[r]
    /\ n.mem = m.mem /\ n.exc = m.exc /\ n.stop = m.stop

(* Registers other than the one being loaded agree. *)
LEMMA OtherRegs ==
  ASSUME NEW s, NEW t, Delayed(s, t)
  PROVE  /\ \A r \in GPReg : r # s.reg[LoadReg] => t.reg[r] = s.reg[r]
         /\ t.reg[HiReg] = s.reg[HiReg] /\ t.reg[LoReg] = s.reg[LoReg]
         /\ t.reg[PCReg] = s.reg[PCReg] /\ t.reg[NextPCReg] = s.reg[NextPCReg]
         /\ t.reg[0] = 0 /\ s.reg[0] = 0
<1>1. Arrived(s.reg, t.reg) /\ t.reg[0] = 0 /\ s.reg[0] = 0
  BY DEF Delayed, StateOK, RegsOK
<1>2. s.reg[LoadReg] \in 0..3
  BY <1>1, RegNumbers DEF Arrived
<1>3. ASSUME NEW r \in GPReg, r # s.reg[LoadReg] PROVE t.reg[r] = s.reg[r]
  <2>1. CASE r = 0
    BY <1>1, <2>1
  <2>2. CASE r # 0
    <3>1. r \in 1..5
      BY <2>2, RegNumbers
    <3> QED BY <1>1, <1>3, <3>1 DEF Arrived
  <2> QED BY <2>1, <2>2
<1>4. HiReg \in 1..5 /\ LoReg \in 1..5 /\ HiReg # s.reg[LoadReg] /\ LoReg # s.reg[LoadReg]
  BY <1>2, RegNumbers
<1>5. t.reg[HiReg] = s.reg[HiReg] /\ t.reg[LoReg] = s.reg[LoReg]
  BY <1>1, <1>4 DEF Arrived
<1>6. t.reg[PCReg] = s.reg[PCReg] /\ t.reg[NextPCReg] = s.reg[NextPCReg]
  BY <1>1 DEF Arrived
<1> QED BY <1>1, <1>3, <1>5, <1>6

LEMMA DelayedVisible ==
  ASSUME NEW s, NEW t, Delayed(s, t)
  PROVE  Visible(t.reg) = Visible(s.reg)
<1>1. Arrived(s.reg, t.reg) /\ t.reg[0] = 0 /\ s.reg[0] = 0
  BY OtherRegs DEF Delayed
<1>2. \A r \in 0..5 : Visible(s.reg)[r] =
             IF r # 0 /\ r = s.reg[LoadReg] THEN s.reg[LoadValueReg] ELSE s.reg[r]
  BY VisibleIs
<1>3. \A r \in 0..5 : Visible(t.reg)[r] =
             IF r # 0 /\ r = t.reg[LoadReg] THEN t.reg[LoadValueReg] ELSE t.reg[r]
  BY VisibleIs
<1>4. ASSUME NEW r \in 0..5 PROVE Visible(t.reg)[r] = Visible(s.reg)[r]
  <2>1. CASE r = 0
    BY <1>1, <1>2, <1>3, <2>1
  <2>2. CASE r # 0
    <3>1. r \in 1..5 /\ t.reg[LoadReg] = 0
      BY <1>1, <2>2 DEF Arrived
    <3> QED BY <1>1, <1>2, <1>3, <2>2, <3>1 DEF Arrived
  <2> QED BY <2>1, <2>2
<1> QED BY <1>4, VisibleEqual

(* Writing another register than the one being loaded. *)
LEMMA WriteArrived ==
  ASSUME NEW q, NEW q2, Arrived(q, q2), NEW x \in 0..5, x # q[LoadReg], NEW v \in Word
  PROVE  Arrived([q EXCEPT ![x] = v], [q2 EXCEPT ![x] = v])
<1>1. PICK w : w = [q EXCEPT ![x] = v]
  OBVIOUS
<1>2. PICK w2 : w2 = [q2 EXCEPT ![x] = v]
  OBVIOUS
<1>3. /\ q \in [Reg -> Word] /\ q2 \in [Reg -> Word] /\ q[LoadReg] \in GPReg
      /\ q2[LoadReg] \in GPReg
  BY RegNumbers DEF Arrived
<1>4. /\ w \in [Reg -> Word] /\ w[LoadReg] = q[LoadReg]
      /\ w[x] = v /\ \A r \in Reg : r # x => w[r] = q[r]
  BY <1>1, <1>3, WriteReg
<1>5. /\ w2 \in [Reg -> Word] /\ w2[LoadReg] = q2[LoadReg]
      /\ w2[x] = v /\ \A r \in Reg : r # x => w2[r] = q2[r]
  BY <1>2, <1>3, WriteReg
<1>6. /\ LoadValueReg \in Reg /\ LoadValueReg # x
      /\ \A r \in 1..5 : r \in Reg
      /\ \A r \in {PCReg, NextPCReg, PrevPCReg, BadVAddrReg} : r \in Reg /\ r # x
  BY RegNumbers
<1>7. \A r \in 1..5 : w2[r] = IF r = w[LoadReg] THEN w[LoadValueReg] ELSE w[r]
  BY <1>4, <1>5, <1>6 DEF Arrived
<1>8. \A r \in {PCReg, NextPCReg, PrevPCReg, BadVAddrReg} : w2[r] = w[r]
  BY <1>4, <1>5, <1>6 DEF Arrived
<1>9. w2[LoadValueReg] = 0
  BY <1>5, <1>6 DEF Arrived
<1> QED BY <1>1, <1>2, <1>4, <1>5, <1>7, <1>8, <1>9 DEF Arrived

(* The three ways an instruction ends keep two states alike. *)
LEMMA CompleteAlike ==
  ASSUME NEW s, NEW t, StateOK(s), StateOK(t), t.mem = s.mem, t.exc = s.exc,
         t.stop = s.stop, NEW q, NEW q2, Arrived(q, q2),
         NEW nl \in GPReg, NEW nv \in Word, NEW after \in Word
  PROVE  Alike(Complete(s, q, nl, nv, after), Complete(t, q2, nl, nv, after))
<1> DEFINE n == Complete(s, q, nl, nv, after)
           m == Complete(t, q2, nl, nv, after)
<1>3. /\ q \in [Reg -> Word] /\ q2 \in [Reg -> Word] /\ q[LoadReg] \in GPReg
      /\ q2[LoadReg] \in GPReg /\ q2[LoadReg] = 0
  BY RegNumbers DEF Arrived
<1>4. /\ n.exc = s.exc /\ n.mem = s.mem /\ n.stop = s.stop
      /\ n.reg[PCReg] = q[NextPCReg] /\ n.reg[PrevPCReg] = q[PCReg]
      /\ n.reg[NextPCReg] = after /\ n.reg[BadVAddrReg] = q[BadVAddrReg]
      /\ n.reg[LoadReg] = nl /\ n.reg[LoadValueReg] = nv
      /\ \A r \in 0..5 : n.reg[r] =
                IF r = 0 THEN 0 ELSE IF r = q[LoadReg] THEN q[LoadValueReg] ELSE q[r]
  <2>1. Ends(s, q, nl, nv, after, n)
    BY <1>3, CompleteIs
  <2> HIDE DEF n
  <2> QED BY <2>1 DEF Ends
<1>5. /\ m.exc = t.exc /\ m.mem = t.mem /\ m.stop = t.stop
      /\ m.reg[PCReg] = q2[NextPCReg] /\ m.reg[PrevPCReg] = q2[PCReg]
      /\ m.reg[NextPCReg] = after /\ m.reg[BadVAddrReg] = q2[BadVAddrReg]
      /\ m.reg[LoadReg] = nl /\ m.reg[LoadValueReg] = nv
      /\ \A r \in 0..5 : m.reg[r] =
                IF r = 0 THEN 0 ELSE IF r = q2[LoadReg] THEN q2[LoadValueReg] ELSE q2[r]
  <2>1. Ends(t, q2, nl, nv, after, m)
    BY <1>3, CompleteIs
  <2> HIDE DEF m
  <2> QED BY <2>1 DEF Ends
<1> HIDE DEF n, m
<1>6. ASSUME NEW r \in 0..5 PROVE n.reg[r] = m.reg[r]
  <2>1. CASE r = 0
    BY <1>4, <1>5, <2>1
  <2>2. CASE r # 0
    <3>1. r \in 1..5
      BY <2>2
    <3>2. q2[r] = IF r = q[LoadReg] THEN q[LoadValueReg] ELSE q[r]
      BY <3>1 DEF Arrived
    <3> QED BY <1>3, <1>4, <1>5, <2>2, <3>2
  <2> QED BY <2>1, <2>2
<1>7. \A r \in 0..5 : Visible(n.reg)[r] = Visible(m.reg)[r]
  <2>1. \A r \in 0..5 : Visible(n.reg)[r] =
             IF r # 0 /\ r = n.reg[LoadReg] THEN n.reg[LoadValueReg] ELSE n.reg[r]
    BY VisibleIs
  <2>2. \A r \in 0..5 : Visible(m.reg)[r] =
             IF r # 0 /\ r = m.reg[LoadReg] THEN m.reg[LoadValueReg] ELSE m.reg[r]
    BY VisibleIs
  <2> QED BY <1>4, <1>5, <1>6, <2>1, <2>2
<1>8. Visible(n.reg) = Visible(m.reg)
  BY <1>7, VisibleEqual
<1>9. q2[PCReg] = q[PCReg] /\ q2[NextPCReg] = q[NextPCReg] /\ q2[BadVAddrReg] = q[BadVAddrReg]
  BY DEF Arrived
<1>10. \A r \in {PCReg, NextPCReg, PrevPCReg, BadVAddrReg} : n.reg[r] = m.reg[r]
  BY <1>4, <1>5, <1>9
<1>11. Alike(n, m)
  BY <1>4, <1>5, <1>8, <1>10 DEF Alike
<1> QED BY <1>11 DEF n, m

LEMMA RaiseAlike ==
  ASSUME NEW s, NEW t, Delayed(s, t), NEW which \in Exceptions, NEW addr \in Word
  PROVE  Alike(RaiseException(s, which, addr), RaiseException(t, which, addr))
<1>1. PICK n : n = RaiseException(s, which, addr)
  OBVIOUS
<1>2. PICK m : m = RaiseException(t, which, addr)
  OBVIOUS
<1>3. /\ n.exc = which /\ n.mem = s.mem /\ n.stop = s.stop
      /\ Visible(n.reg) = Visible(s.reg)
      /\ n.reg[PCReg] = s.reg[NextPCReg] /\ n.reg[PrevPCReg] = s.reg[PCReg]
      /\ n.reg[NextPCReg] = W(s.reg[NextPCReg] + 4) /\ n.reg[BadVAddrReg] = addr
  BY <1>1, RaiseIs DEF Delayed
<1>4. /\ m.exc = which /\ m.mem = t.mem /\ m.stop = t.stop
      /\ Visible(m.reg) = Visible(t.reg)
      /\ m.reg[PCReg] = t.reg[NextPCReg] /\ m.reg[PrevPCReg] = t.reg[PCReg]
      /\ m.reg[NextPCReg] = W(t.reg[NextPCReg] + 4) /\ m.reg[BadVAddrReg] = addr
  BY <1>2, RaiseIs DEF Delayed
<1>5. t.mem = s.mem /\ t.stop = s.stop
  BY DEF Delayed
<1>6. Alike(n, m)
  BY <1>3, <1>4, <1>5, OtherRegs, DelayedVisible DEF Alike
<1> QED BY <1>1, <1>2, <1>6

LEMMA DieAlike ==
  ASSUME NEW s, NEW t, Delayed(s, t), NEW why \in Stops
  PROVE  Alike(Die(s, why), Die(t, why))
<1>1. PICK n : n = Die(s, why)
  OBVIOUS
<1>2. PICK m : m = Die(t, why)
  OBVIOUS
<1>3. n.reg = s.reg /\ n.exc = s.exc /\ n.mem = s.mem /\ n.stop = why
  BY <1>1, DieIs DEF Delayed
<1>4. m.reg = t.reg /\ m.exc = t.exc /\ m.mem = t.mem /\ m.stop = why
  BY <1>2, DieIs DEF Delayed
<1>5. t.mem = s.mem /\ t.exc = s.exc /\ Arrived(s.reg, t.reg)
  BY DEF Delayed
<1>6. \A r \in {PCReg, NextPCReg, PrevPCReg, BadVAddrReg} : n.reg[r] = m.reg[r]
  BY <1>3, <1>4, <1>5 DEF Arrived
<1>7. Alike(n, m)
  BY <1>3, <1>4, <1>5, <1>6, DelayedVisible DEF Alike
<1> QED BY <1>1, <1>2, <1>7

(* An instruction that ends normally, without a load of its own. *)
LEMMA EndAlike ==
  ASSUME NEW s, NEW t, Delayed(s, t), NEW q, NEW q2, Arrived(q, q2), NEW after \in Word
  PROVE  Alike(Complete(s, q, 0, 0, after), Complete(t, q2, 0, 0, after))
<1>1. 0 \in GPReg /\ 0 \in Word
  BY RegNumbers, WordType
<1>2. StateOK(s) /\ StateOK(t) /\ t.mem = s.mem /\ t.exc = s.exc /\ t.stop = s.stop
  BY DEF Delayed
<1> QED BY <1>1, <1>2, CompleteAlike

LEMMA ArithmeticAlike ==
  ASSUME NEW s, NEW t, Delayed(s, t), NEW i, InstrOK(i), i.opCode \in RdOps \cup RtOps,
         s.reg[LoadReg] # i.rs, s.reg[LoadReg] # i.rt,
         i.opCode \in RdOps => s.reg[LoadReg] # i.rd
  PROVE  Alike(Arithmetic(s, i), Arithmetic(t, i))
<1> DEFINE A(u) == u.reg[i.rs]
           B(u) == IF i.opCode \in RdOps THEN u.reg[i.rt] ELSE i.extra
           Val(u) == IF i.opCode \in RdOps THEN RdValue(i.opCode, A(u), B(u), i.extra)
                                           ELSE RtValue(i.opCode, A(u), B(u))
           x == IF i.opCode \in RdOps THEN i.rd ELSE i.rt
           over(a, b, v) == \/ i.opCode \in {"ADD", "ADDI"} /\ Overflows(a, b, v)
                            \/ i.opCode = "SUB" /\ Underflows(a, b, v)
<1>1. i.rs \in GPReg /\ i.rt \in GPReg /\ i.rd \in GPReg /\ i.extra \in Int
      /\ (i.opCode \in RdOps => i.extra \in Bit)
  BY DEF InstrOK
<1>2. StateOK(s) /\ Arrived(s.reg, t.reg)
  BY DEF Delayed
<1>3. s.reg[i.rs] \in Word /\ s.reg[i.rt] \in Word /\ W(s.reg[NextPCReg] + 4) \in Word
  BY <1>1, <1>2, StateParts
<1>4. PICK a \in Word : a = A(s) /\ a = A(t)
  BY <1>1, <1>3, OtherRegs
<1>5. PICK b : b = B(s) /\ b = B(t)
  BY <1>1, OtherRegs
<1>6. PICK v : v = Val(s) /\ v = Val(t)
  BY <1>4, <1>5
<1>7. v \in Word
  BY <1>1, <1>3, <1>4, <1>5, <1>6, RdValueType, RtValueType
<1>8. PICK after \in Word : after = W(s.reg[NextPCReg] + 4) /\ after = W(t.reg[NextPCReg] + 4)
  BY <1>3, OtherRegs
<1>9. Arithmetic(s, i) = IF over(a, b, v) THEN RaiseException(s, "OverflowException", 0)
                         ELSE Complete(s, [s.reg EXCEPT ![x] = v], 0, 0, after)
  BY <1>4, <1>5, <1>6, <1>8 DEF Arithmetic
<1>10. Arithmetic(t, i) = IF over(a, b, v) THEN RaiseException(t, "OverflowException", 0)
                          ELSE Complete(t, [t.reg EXCEPT ![x] = v], 0, 0, after)
  BY <1>4, <1>5, <1>6, <1>8 DEF Arithmetic
<1>11. x \in 0..5 /\ x # s.reg[LoadReg]
  BY <1>1, RegNumbers
<1> HIDE DEF over, x
<1>12. Arrived([s.reg EXCEPT ![x] = v], [t.reg EXCEPT ![x] = v])
  BY <1>2, <1>7, <1>11, WriteArrived
<1>13. Alike(Complete(s, [s.reg EXCEPT ![x] = v], 0, 0, after),
             Complete(t, [t.reg EXCEPT ![x] = v], 0, 0, after))
  BY <1>12, EndAlike
<1>14. "OverflowException" \in Exceptions /\ 0 \in Word
  BY WordType DEF Exceptions
<1>15. Alike(RaiseException(s, "OverflowException", 0), RaiseException(t, "OverflowException", 0))
  BY <1>14, RaiseAlike
<1> QED BY <1>9, <1>10, <1>13, <1>15

LEMMA HiLoAlike ==
  ASSUME NEW s, NEW t, Delayed(s, t), NEW i, InstrOK(i), i.opCode \in HiLoOps,
         s.reg[LoadReg] # i.rs, s.reg[LoadReg] # i.rt, s.reg[LoadReg] # i.rd
  PROVE  Alike(HiLo(s, i), HiLo(t, i))
<1> DEFINE HL(r, a, b) == CASE i.opCode = "MULT"  -> Mult(a, b, TRUE)
                            [] i.opCode = "MULTU" -> Mult(a, b, FALSE)
                            [] i.opCode = "DIV"   -> Div(a, b, TRUE)
                            [] i.opCode = "DIVU"  -> Div(a, b, FALSE)
                            [] i.opCode = "MTHI"  -> <<a, r[LoReg]>>
                            [] i.opCode = "MTLO"  -> <<r[HiReg], a>>
                            [] OTHER              -> <<r[HiReg], r[LoReg]>>
           R(r, hl) == CASE i.opCode = "MFHI" -> [r EXCEPT ![i.rd] = r[HiReg]]
                         [] i.opCode = "MFLO" -> [r EXCEPT ![i.rd] = r[LoReg]]
                         [] OTHER             -> [r EXCEPT ![HiReg] = hl[1], ![LoReg] = hl[2]]
           trap(a, b) == i.opCode = "DIV" /\ a = SIGN_BIT /\ b = Modulus - 1
<1>1. i.rs \in GPReg /\ i.rt \in GPReg /\ i.rd \in GPReg
  BY DEF InstrOK
<1>2. StateOK(s) /\ Arrived(s.reg, t.reg) /\ s.reg[LoadReg] \in 0..3
  BY RegNumbers DEF Delayed, Arrived
<1>3. /\ s.reg[i.rs] \in Word /\ s.reg[i.rt] \in Word /\ W(s.reg[NextPCReg] + 4) \in Word
      /\ s.reg \in [Reg -> Word]
  BY <1>1, <1>2, StateParts
<1>4. PICK a \in Word : a = s.reg[i.rs] /\ a = t.reg[i.rs]
  BY <1>1, <1>3, OtherRegs
<1>5. PICK b \in Word : b = s.reg[i.rt] /\ b = t.reg[i.rt]
  BY <1>1, <1>3, OtherRegs
<1>6. PICK h \in Word : h = s.reg[HiReg] /\ h = t.reg[HiReg]
  BY <1>3, OtherRegs, RegNumbers
<1>7. PICK l \in Word : l = s.reg[LoReg] /\ l = t.reg[LoReg]
  BY <1>3, OtherRegs, RegNumbers
<1>8. PICK after \in Word : after = W(s.reg[NextPCReg] + 4) /\ after = W(t.reg[NextPCReg] + 4)
  BY <1>3, OtherRegs
<1>9. PICK hl : hl = HL(s.reg, a, b) /\ hl = HL(t.reg, a, b)
  BY <1>6, <1>7
<1>10. hl[1] \in Word /\ hl[2] \in Word
  <2>1. Mult(a, b, TRUE)[1] \in Word /\ Mult(a, b, TRUE)[2] \in Word
    BY MultSigned
  <2>2. Mult(a, b, FALSE)[1] \in Word /\ Mult(a, b, FALSE)[2] \in Word
    BY MultUnsigned
  <2>3. Div(a, b, TRUE)[1] \in Word /\ Div(a, b, TRUE)[2] \in Word
    BY DivType
  <2>4. Div(a, b, FALSE)[1] \in Word /\ Div(a, b, FALSE)[2] \in Word
    BY DivType
  <2>5. \/ hl = Mult(a, b, TRUE) \/ hl = Mult(a, b, FALSE)
        \/ hl = Div(a, b, TRUE) \/ hl = Div(a, b, FALSE)
        \/ hl = <<a, l>> \/ hl = <<h, a>> \/ hl = <<h, l>>
    BY <1>6, <1>7, <1>9
  <2>6. \A x \in Word, y \in Word : <<x, y>>[1] \in Word /\ <<x, y>>[2] \in Word
    OBVIOUS
  <2> QED BY Zenon, <2>1, <2>2, <2>3, <2>4, <2>5, <2>6
<1>11. HiLo(s, i) = IF trap(a, b) THEN Die(s, "divideTrap")
                    ELSE Complete(s, R(s.reg, HL(s.reg, a, b)), 0, 0, after)
  BY Zenon, <1>4, <1>5, <1>8 DEF HiLo
<1>12. HiLo(t, i) = IF trap(a, b) THEN Die(t, "divideTrap")
                    ELSE Complete(t, R(t.reg, HL(t.reg, a, b)), 0, 0, after)
  BY Zenon, <1>4, <1>5, <1>8 DEF HiLo
<1> HIDE DEF trap, HL
<1>13. i.rd \in 0..5 /\ HiReg \in 0..5 /\ LoReg \in 0..5 /\ HiReg # s.reg[LoadReg]
       /\ LoReg # s.reg[LoadReg]
  BY <1>1, <1>2, RegNumbers
<1>14. Arrived([s.reg EXCEPT ![i.rd] = h], [t.reg EXCEPT ![i.rd] = h])
  BY <1>2, <1>13, WriteArrived
<1>15. Arrived([s.reg EXCEPT ![i.rd] = l], [t.reg EXCEPT ![i.rd] = l])
  BY <1>2, <1>13, WriteArrived
<1>16. Arrived([s.reg EXCEPT ![HiReg] = hl[1], ![LoReg] = hl[2]],
               [t.reg EXCEPT ![HiReg] = hl[1], ![LoReg] = hl[2]])
  <2>1. PICK q : q = [s.reg EXCEPT ![HiReg] = hl[1]]
    OBVIOUS
  <2>2. PICK q2 : q2 = [t.reg EXCEPT ![HiReg] = hl[1]]
    OBVIOUS
  <2>3. Arrived(q, q2)
    BY <1>2, <1>10, <1>13, <2>1, <2>2, WriteArrived
  <2>4. q[LoadReg] = s.reg[LoadReg]
    BY <1>3, <2>1, RegNumbers
  <2>5. Arrived([q EXCEPT ![LoReg] = hl[2]], [q2 EXCEPT ![LoReg] = hl[2]])
    BY <1>10, <1>13, <2>3, <2>4, WriteArrived
  <2>6. [s.reg EXCEPT ![HiReg] = hl[1], ![LoReg] = hl[2]] = [q EXCEPT ![LoReg] = hl[2]]
    BY <2>1
  <2>7. [t.reg EXCEPT ![HiReg] = hl[1], ![LoReg] = hl[2]] = [q2 EXCEPT ![LoReg] = hl[2]]
    BY <2>2
  <2> QED BY Zenon, <2>5, <2>6, <2>7
<1>17. Arrived(R(s.reg, hl), R(t.reg, hl))
  BY <1>6, <1>7, <1>14, <1>15, <1>16
<1> HIDE DEF R
<1>18. Alike(Complete(s, R(s.reg, hl), 0, 0, after), Complete(t, R(t.reg, hl), 0, 0, after))
  BY <1>17, EndAlike
<1>19. "divideTrap" \in Stops
  BY DEF Stops
<1>20. Alike(Die(s, "divideTrap"), Die(t, "divideTrap"))
  BY <1>19, DieAlike
<1> QED BY <1>9, <1>11, <1>12, <1>18, <1>20

LEMMA BranchAlike ==
  ASSUME NEW s, NEW t, Delayed(s, t), NEW i, InstrOK(i),
         s.reg[LoadReg] # i.rs,
         i.opCode \in {"BEQ", "BNE"} => s.reg[LoadReg] # i.rt,
         i.opCode \notin {"BEQ", "BNE"} => s.reg[LoadReg] # R31
  PROVE  Alike(Branch(s, i), Branch(t, i))
<1> DEFINE link == i.opCode \in {"BLTZAL", "BGEZAL"}
           after4 == W(s.reg[NextPCReg] + 4)
           R(u) == IF link THEN [u.reg EXCEPT ![R31] = W(u.reg[NextPCReg] + 4)] ELSE u.reg
           B(r) == IF i.opCode \in {"BEQ", "BNE"} THEN r[i.rt] ELSE 0
           To(r) == W(r[NextPCReg] + IF Taken(i.opCode, r[i.rs], B(r))
                                     THEN IndexToAddr(i.extra) ELSE 4)
<1>1. i.rs \in GPReg /\ (i.opCode \in {"BEQ", "BNE"} => i.rt \in GPReg)
  BY DEF InstrOK
<1>2. StateOK(s) /\ Arrived(s.reg, t.reg) /\ s.reg[LoadReg] \in 0..3
      /\ t.reg[NextPCReg] = s.reg[NextPCReg]
  BY RegNumbers, OtherRegs DEF Delayed, Arrived
<1>3. after4 \in Word /\ R31 \in 0..5
  BY <1>2, StateParts, RegNumbers
<1>4. Branch(s, i) = Complete(s, R(s), 0, 0, To(R(s)))
  BY DEF Branch
<1>5. Branch(t, i) = Complete(t, R(t), 0, 0, To(R(t)))
  BY DEF Branch
<1>6. Arrived(R(s), R(t)) /\ R(s)[LoadReg] = s.reg[LoadReg]
  <2>1. CASE link
    <3>1. Arrived([s.reg EXCEPT ![R31] = after4], [t.reg EXCEPT ![R31] = after4])
      BY <1>2, <1>3, <2>1, WriteArrived
    <3>2. [s.reg EXCEPT ![R31] = after4][LoadReg] = s.reg[LoadReg]
      BY <1>2, <1>3, RegNumbers DEF Arrived
    <3> QED BY <1>2, <2>1, <3>1, <3>2
  <2>2. CASE ~link
    BY <1>2, <2>2
  <2> QED BY <2>1, <2>2
<1>7. PICK q : q = R(s)
  OBVIOUS
<1>8. PICK q2 : q2 = R(t)
  OBVIOUS
<1> HIDE DEF R
<1>9. Arrived(q, q2) /\ q[LoadReg] = s.reg[LoadReg]
  BY <1>6, <1>7, <1>8
<1>10. \A r \in 1..5 : r # q[LoadReg] => q2[r] = q[r]
  BY <1>9 DEF Arrived
<1>11. q2[0] = q[0]
  <2>1. q[0] = s.reg[0] /\ q2[0] = t.reg[0]
    BY <1>2, <1>7, <1>8, RegNumbers DEF R, Arrived
  <2> QED BY <2>1, OtherRegs
<1>12. q2[i.rs] = q[i.rs] /\ B(q2) = B(q) /\ q2[NextPCReg] = q[NextPCReg]
  <2>1. \A r \in GPReg : r # q[LoadReg] => q2[r] = q[r]
    BY <1>10, <1>11, RegNumbers
  <2> QED BY <1>1, <1>9, <2>1 DEF Arrived
<1>13. To(q2) = To(q)
  BY <1>12
<1>14. To(q) \in Word
  <2>1. IndexToAddr(i.extra) \in Int
    BY WordType DEF InstrOK, IndexToAddr
  <2>2. q[NextPCReg] \in Int
    BY <1>9, WordType, RegNumbers DEF Arrived
  <2> QED BY <2>1, <2>2, WordType
<1> HIDE DEF To
<1>15. Alike(Complete(s, q, 0, 0, To(q)), Complete(t, q2, 0, 0, To(q)))
  BY <1>9, <1>14, EndAlike
<1> QED BY <1>4, <1>5, <1>7, <1>8, <1>13, <1>15

LEMMA JumpAlike ==
  ASSUME NEW s, NEW t, Delayed(s, t), NEW i, InstrOK(i),
         s.reg[LoadReg] # i.rs, s.reg[LoadReg] # i.rd, s.reg[LoadReg] # R31
  PROVE  Alike(Jump(s, i), Jump(t, i))
<1> DEFINE R(r, after) == CASE i.opCode = "JAL"  -> [r EXCEPT ![R31] = after]
                            [] i.opCode = "JALR" -> [r EXCEPT ![i.rd] = after]
                            [] OTHER -> r
           To(r, after) == IF i.opCode \in {"J", "JAL"}
                           THEN (after \div 2^(WordBits - 2)) * 2^(WordBits - 2)
                                  + (IndexToAddr(i.extra) % 2^(WordBits - 2))
                           ELSE r[i.rs]
<1>1. i.rs \in GPReg /\ i.rd \in GPReg /\ i.rd \in 0..5 /\ R31 \in 0..5 /\ R31 \in GPReg
  BY RegNumbers DEF InstrOK
<1>2. StateOK(s) /\ StateOK(t) /\ Arrived(s.reg, t.reg) /\ s.exc = "NoException"
      /\ t.reg[NextPCReg] = s.reg[NextPCReg]
  BY OtherRegs DEF Delayed
<1>3. PICK after \in Word : after = W(s.reg[NextPCReg] + 4) /\ after = W(t.reg[NextPCReg] + 4)
  BY <1>2, StateParts
<1>4. PICK q : q = R(s.reg, after)
  OBVIOUS
<1>5. PICK q2 : q2 = R(t.reg, after)
  OBVIOUS
<1>6. Jump(s, i) = Complete(s, q, 0, 0, To(q, after))
  <2>1. Jump(s, i) = Complete(s, R(s.reg, W(s.reg[NextPCReg] + 4)), 0, 0,
                     To(R(s.reg, W(s.reg[NextPCReg] + 4)), W(s.reg[NextPCReg] + 4)))
    BY Zenon DEF Jump
  <2> HIDE DEF R, To
  <2> QED BY <1>3, <1>4, <2>1
<1>7. Jump(t, i) = Complete(t, q2, 0, 0, To(q2, after))
  <2>1. Jump(t, i) = Complete(t, R(t.reg, W(t.reg[NextPCReg] + 4)), 0, 0,
                     To(R(t.reg, W(t.reg[NextPCReg] + 4)), W(t.reg[NextPCReg] + 4)))
    BY Zenon DEF Jump
  <2> HIDE DEF R, To
  <2> QED BY <1>3, <1>5, <2>1
<1>8. Arrived([s.reg EXCEPT ![R31] = after], [t.reg EXCEPT ![R31] = after])
  BY <1>1, <1>2, WriteArrived
<1>9. Arrived([s.reg EXCEPT ![i.rd] = after], [t.reg EXCEPT ![i.rd] = after])
  BY <1>1, <1>2, WriteArrived
<1>10. Arrived(q, q2)
  BY <1>2, <1>4, <1>5, <1>8, <1>9
<1>11. q2[i.rs] = q[i.rs] /\ q[i.rs] \in Word
  <2>1. s.reg \in [Reg -> Word] /\ t.reg \in [Reg -> Word] /\ i.rs \in Reg
    BY <1>1, <1>2, StateParts, RegNumbers
  <2>2. t.reg[i.rs] = s.reg[i.rs] /\ s.reg[i.rs] \in Word
    BY <1>1, <2>1, OtherRegs
  <2>3. R31 \in Reg /\ i.rd \in Reg
    BY <1>1, RegNumbers
  <2> QED BY <1>4, <1>5, <2>1, <2>2, <2>3
<1> HIDE DEF R
<1>12. To(q2, after) = To(q, after)
  BY <1>11
<1>13. To(q, after) \in Word
  <2>1. PICK n : n = (after \div 2^(WordBits - 2)) * 2^(WordBits - 2)
                       + (IndexToAddr(i.extra) % 2^(WordBits - 2))
    OBVIOUS
  <2>2. n \in Word
    BY <2>1, RegionWord DEF InstrOK
  <2> QED BY <1>11, <2>1, <2>2
<1> HIDE DEF To
<1>14. Alike(Complete(s, q, 0, 0, To(q, after)), Complete(t, q2, 0, 0, To(q, after)))
  BY <1>10, <1>13, EndAlike
<1> QED BY <1>6, <1>7, <1>12, <1>14

(* A read that goes through the page table in both states. *)
LEMMA TouchDelayed ==
  ASSUME NEW s, NEW t, Delayed(s, t), NEW addr \in Word, NEW size \in {1, 2, 4},
         NEW writing \in BOOLEAN,
         Translate(s.pt, addr, size, writing) = "NoException"
  PROVE  Delayed([s EXCEPT !.pt = Touch(@, addr, FALSE)], [t EXCEPT !.pt = Touch(@, addr, FALSE)])
<1> DEFINE s1 == [s EXCEPT !.pt = Touch(@, addr, FALSE)]
           t1 == [t EXCEPT !.pt = Touch(@, addr, FALSE)]
<1>1. /\ StateOK(s) /\ StateOK(t) /\ Arrived(s.reg, t.reg)
      /\ t.mem = s.mem /\ t.pt = s.pt /\ t.stop = s.stop
      /\ s.exc = "NoException" /\ t.exc = "NoException"
  BY DEF Delayed
<1>2. /\ StateOK(s1) /\ s1.reg = s.reg /\ s1.mem = s.mem
      /\ s1.exc = s.exc /\ s1.stop = s.stop /\ s1.pt = Touch(s.pt, addr, FALSE)
  BY <1>1, TouchRead
<1>3. /\ StateOK(t1) /\ t1.reg = t.reg /\ t1.mem = t.mem
      /\ t1.exc = t.exc /\ t1.stop = t.stop /\ t1.pt = Touch(t.pt, addr, FALSE)
  BY <1>1, TouchRead
<1> HIDE DEF s1, t1
<1>4. Delayed(s1, t1)
  BY <1>1, <1>2, <1>3 DEF Delayed
<1> QED BY <1>4 DEF s1, t1

LEMMA ReadMemSame ==
  ASSUME NEW s, NEW t, t.mem = s.mem, t.pt = s.pt, NEW addr, NEW size
  PROVE  ReadMem(t, addr, size) = ReadMem(s, addr, size)
BY DEF ReadMem

(* A load that is followed by another one to the same register: LWL and LWR  *)
(* find the value that is still under way.                                   *)
LEMMA LoadedSame ==
  ASSUME NEW s, NEW t, Delayed(s, t), NEW i, i.rt \in GPReg, NEW value
  PROVE  Loaded(t, i, value) = Loaded(s, i, value)
<1> DEFINE old(u) == IF u.reg[LoadReg] = i.rt THEN u.reg[LoadValueReg] ELSE u.reg[i.rt]
<1>1. Arrived(s.reg, t.reg) /\ t.reg[0] = 0 /\ s.reg[0] = 0
  BY OtherRegs DEF Delayed
<1>2. old(t) = old(s)
  <2>1. CASE i.rt = 0
    BY <1>1, <2>1 DEF Arrived
  <2>2. CASE i.rt # 0
    <3>1. i.rt \in 1..5
      BY <2>2, RegNumbers
    <3>2. t.reg[i.rt] = IF i.rt = s.reg[LoadReg] THEN s.reg[LoadValueReg] ELSE s.reg[i.rt]
      BY <1>1, <3>1 DEF Arrived
    <3> QED BY <1>1, <2>2, <3>2 DEF Arrived
  <2> QED BY <2>1, <2>2
<1>3. PICK o : o = old(s) /\ o = old(t)
  BY <1>2
<1> QED BY <1>3 DEF Loaded

LEMMA LoadAlike ==
  ASSUME NEW s, NEW t, Delayed(s, t), NEW i, InstrOK(i), i.opCode \in LoadOps,
         s.reg[LoadReg] # i.rs
  PROVE  Alike(Load(s, i), Load(t, i))
<1> DEFINE size == AccessSize(i.opCode)
           odd(a) == i.opCode \in {"LWL", "LWR"} /\ a % 4 # 0
           s1(a) == [s EXCEPT !.pt = Touch(@, a, FALSE)]
           t1(a) == [t EXCEPT !.pt = Touch(@, a, FALSE)]
<1>1. i.rs \in GPReg /\ i.rt \in GPReg /\ i.extra \in Int
  BY DEF InstrOK
<1>2. /\ StateOK(s) /\ StateOK(t) /\ Arrived(s.reg, t.reg) /\ t.mem = s.mem /\ t.pt = s.pt
      /\ t.reg[NextPCReg] = s.reg[NextPCReg] /\ t.reg[i.rs] = s.reg[i.rs]
  BY <1>1, OtherRegs DEF Delayed
<1>3. s.reg[i.rs] \in Word /\ s.pt \in Seq(PageEntry) /\ s \in MachineState
  BY <1>1, <1>2, StateParts DEF StateOK
<1>4. PICK tmp \in Word : tmp = W(s.reg[i.rs] + i.extra) /\ tmp = W(t.reg[i.rs] + i.extra)
  BY <1>1, <1>2, <1>3, WordType
<1>5. size \in {1, 2, 4} /\ (i.opCode = "LH" => size = 2)
  BY AccessSizes
<1>6. PICK exc \in Exceptions : exc = Translate(s.pt, tmp, size, FALSE)
                                /\ exc = Translate(t.pt, tmp, size, FALSE)
  BY <1>2, <1>3, <1>5, TranslateIs
<1>7. PICK after \in Word : after = W(s.reg[NextPCReg] + 4) /\ after = W(t.reg[NextPCReg] + 4)
  BY <1>2, StateParts
<1>8. PICK val : val = ReadMem(s, tmp, size) /\ val = ReadMem(t, tmp, size)
  BY <1>2, ReadMemSame
<1>9. PICK v : v = Loaded(s, i, val) /\ v = Loaded(t, i, val)
  BY <1>1, LoadedSame
<1>10. Load(s, i) = IF odd(tmp) THEN Die(s, "ASSERT")
                    ELSE IF exc # "NoException" THEN RaiseException(s, exc, tmp)
                    ELSE Complete(s1(tmp), s.reg, i.rt, v, after)
  BY Zenon, <1>4, <1>6, <1>7, <1>8, <1>9 DEF Load
<1>11. Load(t, i) = IF odd(tmp) THEN Die(t, "ASSERT")
                    ELSE IF exc # "NoException" THEN RaiseException(t, exc, tmp)
                    ELSE Complete(t1(tmp), t.reg, i.rt, v, after)
  BY Zenon, <1>4, <1>6, <1>7, <1>8, <1>9 DEF Load
<1> HIDE DEF odd, size
<1>12. Alike(Die(s, "ASSERT"), Die(t, "ASSERT"))
  <2>1. "ASSERT" \in Stops
    BY DEF Stops
  <2> QED BY <2>1, DieAlike
<1>13. Alike(RaiseException(s, exc, tmp), RaiseException(t, exc, tmp))
  BY RaiseAlike
<1>14. ASSUME exc = "NoException"
       PROVE  Alike(Complete(s1(tmp), s.reg, i.rt, v, after), Complete(t1(tmp), t.reg, i.rt, v, after))
  <2>1. Delayed(s1(tmp), t1(tmp))
    BY <1>5, <1>6, <1>14, TouchDelayed
  <2>2. /\ size = 1 => val \in Word
        /\ size = 2 => val \in 0..(2^HalfBits - 1)
        /\ size = 4 => val \in Word
    BY <1>3, <1>5, <1>6, <1>8, <1>14, ReadMemType
  <2>3. val \in Word /\ (i.opCode = "LH" => val \in 0..(2^HalfBits - 1))
    BY <1>5, <2>2, HalfIsWord
  <2>4. v \in Word
    BY <1>1, <1>2, <1>9, <2>3, LoadedType
  <2> HIDE DEF s1, t1
  <2>5. PICK x : x = s1(tmp)
    OBVIOUS
  <2>6. PICK y : y = t1(tmp)
    OBVIOUS
  <2>7. StateOK(x) /\ StateOK(y) /\ y.mem = x.mem /\ y.exc = x.exc /\ y.stop = x.stop
    BY <2>1, <2>5, <2>6 DEF Delayed
  <2>8. Alike(Complete(x, s.reg, i.rt, v, after), Complete(y, t.reg, i.rt, v, after))
    BY <1>1, <1>2, <2>4, <2>7, CompleteAlike
  <2> QED BY <2>5, <2>6, <2>8
<1> QED BY <1>10, <1>11, <1>12, <1>13, <1>14

LEMMA WriteMemSame ==
  ASSUME NEW s, NEW t, StateOK(s), StateOK(t), t.mem = s.mem, t.pt = s.pt,
         NEW addr, NEW size, NEW value
  PROVE  WriteMem(t, addr, size, value).mem = WriteMem(s, addr, size, value).mem
<1> DEFINE M(u) == [a \in DOMAIN u.mem |->
                      IF a \in PhysAddr(u.pt, addr)..(PhysAddr(u.pt, addr) + size - 1)
                      THEN (value \div 2^(ByteBits * (a - PhysAddr(u.pt, addr)))) % 2^ByteBits
                      ELSE u.mem[a]]
<1>1. M(t) = M(s)
  OBVIOUS
<1>2. PICK m : m = M(s) /\ m = M(t)
  BY <1>1
<1>3. WriteMem(s, addr, size, value) = [s EXCEPT !.pt = Touch(@, addr, TRUE), !.mem = M(s)]
  BY Zenon DEF WriteMem
<1>4. WriteMem(t, addr, size, value) = [t EXCEPT !.pt = Touch(@, addr, TRUE), !.mem = M(t)]
  BY Zenon DEF WriteMem
<1> HIDE DEF M
<1>5. WriteMem(s, addr, size, value).mem = m
  BY <1>2, <1>3 DEF StateOK, MachineState
<1>6. WriteMem(t, addr, size, value).mem = m
  BY <1>2, <1>4 DEF StateOK, MachineState
<1> QED BY <1>5, <1>6

LEMMA StoreAlike ==
  ASSUME NEW s, NEW t, Delayed(s, t), NEW i, InstrOK(i), i.opCode \in StoreOps,
         s.reg[LoadReg] # i.rs, s.reg[LoadReg] # i.rt
  PROVE  Alike(Store(s, i), Store(t, i))
<1> DEFINE size == AccessSize(i.opCode)
           reads == i.opCode \in {"SWL", "SWR"}
           Tmp(u) == W(u.reg[i.rs] + i.extra)
           RE(u, a) == IF reads THEN Translate(u.pt, a, size, FALSE) ELSE "NoException"
           WE(u, a) == Translate(u.pt, a, size, TRUE)
           Val(u, a) == IF i.opCode = "SWR"
                        THEN (ReadMem(u, a, 4) % 2^(3 * ByteBits)) + W(u.reg[i.rt] * 2^(3 * ByteBits))
                        ELSE u.reg[i.rt]
           S1(u, a) == IF reads THEN [u EXCEPT !.pt = Touch(@, a, FALSE)] ELSE u
           After(u) == W(u.reg[NextPCReg] + 4)
<1>1. i.rs \in GPReg /\ i.rt \in GPReg /\ i.extra \in Int
  BY DEF InstrOK
<1>2. /\ StateOK(s) /\ StateOK(t) /\ Arrived(s.reg, t.reg) /\ t.mem = s.mem /\ t.pt = s.pt
      /\ t.reg[NextPCReg] = s.reg[NextPCReg] /\ t.reg[i.rs] = s.reg[i.rs]
      /\ t.reg[i.rt] = s.reg[i.rt]
  BY <1>1, OtherRegs DEF Delayed
<1>3. /\ s.reg[i.rs] \in Word /\ s.reg[i.rt] \in Word /\ s.pt \in Seq(PageEntry)
      /\ s \in MachineState
  BY <1>1, <1>2, StateParts DEF StateOK
<1>5. size \in {1, 2, 4} /\ (reads => size = 4)
  BY DEF AccessSize
<1>20. \A u : Store(u, i) =
           IF reads /\ Tmp(u) % 4 # 0 THEN Die(u, "ASSERT")
           ELSE IF RE(u, Tmp(u)) # "NoException" THEN RaiseException(u, RE(u, Tmp(u)), Tmp(u))
           ELSE IF WE(u, Tmp(u)) # "NoException"
                THEN RaiseException(S1(u, Tmp(u)), WE(u, Tmp(u)), Tmp(u))
           ELSE Complete(WriteMem(S1(u, Tmp(u)), Tmp(u), size, Val(u, Tmp(u))), u.reg, 0, 0,
                         After(u))
  BY Zenon DEF Store
<1>4. PICK tmp \in Word : tmp = Tmp(s) /\ tmp = Tmp(t)
  BY <1>1, <1>2, <1>3, WordType
<1>6. PICK readExc \in Exceptions : readExc = RE(s, tmp) /\ readExc = RE(t, tmp)
  <2>1. Translate(s.pt, tmp, size, FALSE) \in Exceptions
    BY <1>3, <1>5, TranslateIs
  <2> QED BY <1>2, <2>1 DEF Exceptions
<1>7. PICK writeExc \in Exceptions : writeExc = WE(s, tmp) /\ writeExc = WE(t, tmp)
  BY <1>2, <1>3, <1>5, TranslateIs
<1>8. PICK after \in Word : after = After(s) /\ after = After(t)
  BY <1>2, StateParts
<1>9. PICK value : value = Val(s, tmp) /\ value = Val(t, tmp)
  <2>1. ReadMem(t, tmp, 4) = ReadMem(s, tmp, 4)
    BY <1>2, ReadMemSame
  <2> QED BY <1>2, <2>1
<1>10. ASSUME readExc = "NoException" PROVE Delayed(S1(s, tmp), S1(t, tmp))
  <2>1. CASE reads
    <3>1. Translate(s.pt, tmp, size, FALSE) = "NoException"
      BY <1>6, <1>10, <2>1
    <3>2. Delayed([s EXCEPT !.pt = Touch(@, tmp, FALSE)], [t EXCEPT !.pt = Touch(@, tmp, FALSE)])
      BY <1>5, <3>1, TouchDelayed
    <3> QED BY <2>1, <3>2
  <2>2. CASE ~reads
    BY <2>2
  <2> QED BY <2>1, <2>2
<1>11. ASSUME readExc = "NoException" PROVE value \in Int
  <2>1. CASE i.opCode = "SWR"
    <3>1. Translate(s.pt, tmp, 4, FALSE) = "NoException"
      BY <1>5, <1>6, <1>11, <2>1
    <3>2. PICK x \in Word : x = ReadMem(s, tmp, 4)
      BY <1>3, <3>1, ReadMemType
    <3>3. PICK T \in Nat \ {0} : T = 2^(3 * ByteBits)
      BY WidthPowers
    <3>4. x % T \in Int /\ s.reg[i.rt] * T \in Int
      BY <1>3, <3>2, <3>3, WordType
    <3>5. W(s.reg[i.rt] * T) \in Int
      BY <3>4, WordType
    <3> QED BY <1>9, <2>1, <3>2, <3>3, <3>4, <3>5
  <2>2. CASE i.opCode # "SWR"
    BY <1>3, <1>9, <2>2, WordType
  <2> QED BY <2>1, <2>2
<1>12. ASSUME readExc = "NoException", writeExc = "NoException"
       PROVE  Translate(S1(s, tmp).pt, tmp, size, TRUE) = "NoException"
  <2>1. CASE reads
    <3>1. Translate(s.pt, tmp, size, FALSE) = "NoException"
      BY <1>6, <1>12, <2>1
    <3>2. PICK u : u = S1(s, tmp)
      OBVIOUS
    <3>3. StateOK(u) /\ Ages(s.pt, u.pt)
      BY <1>2, <1>5, <2>1, <3>1, <3>2, TouchRead
    <3>4. u.pt \in Seq(PageEntry)
      BY <3>3, StateParts
    <3>5. Translate(u.pt, tmp, size, TRUE) = Translate(s.pt, tmp, size, TRUE)
      BY <1>3, <1>5, <3>3, <3>4, SameTranslation
    <3> QED BY <1>7, <1>12, <3>2, <3>5
  <2>2. CASE ~reads
    BY <1>7, <1>12, <2>2
  <2> QED BY <2>1, <2>2
<1> HIDE DEF Tmp, RE, WE, Val, S1, After, size, reads
<1>13. Store(s, i) = IF reads /\ tmp % 4 # 0 THEN Die(s, "ASSERT")
                     ELSE IF readExc # "NoException" THEN RaiseException(s, readExc, tmp)
                     ELSE IF writeExc # "NoException" THEN RaiseException(S1(s, tmp), writeExc, tmp)
                     ELSE Complete(WriteMem(S1(s, tmp), tmp, size, value), s.reg, 0, 0, after)
  BY <1>4, <1>6, <1>7, <1>8, <1>9, <1>20
<1>14. Store(t, i) = IF reads /\ tmp % 4 # 0 THEN Die(t, "ASSERT")
                     ELSE IF readExc # "NoException" THEN RaiseException(t, readExc, tmp)
                     ELSE IF writeExc # "NoException" THEN RaiseException(S1(t, tmp), writeExc, tmp)
                     ELSE Complete(WriteMem(S1(t, tmp), tmp, size, value), t.reg, 0, 0, after)
  BY <1>4, <1>6, <1>7, <1>8, <1>9, <1>20
<1>15. Alike(Die(s, "ASSERT"), Die(t, "ASSERT"))
  <2>1. "ASSERT" \in Stops
    BY DEF Stops
  <2> QED BY <2>1, DieAlike
<1>16. Alike(RaiseException(s, readExc, tmp), RaiseException(t, readExc, tmp))
  BY RaiseAlike
<1>17. ASSUME readExc = "NoException"
       PROVE  Alike(RaiseException(S1(s, tmp), writeExc, tmp), RaiseException(S1(t, tmp), writeExc, tmp))
  BY <1>10, <1>17, RaiseAlike
<1>18. ASSUME readExc = "NoException", writeExc = "NoException"
       PROVE  Alike(Complete(WriteMem(S1(s, tmp), tmp, size, value), s.reg, 0, 0, after),
                    Complete(WriteMem(S1(t, tmp), tmp, size, value), t.reg, 0, 0, after))
  <2>1. PICK x : x = S1(s, tmp)
    OBVIOUS
  <2>2. PICK y : y = S1(t, tmp)
    OBVIOUS
  <2>3. Delayed(x, y) /\ Translate(x.pt, tmp, size, TRUE) = "NoException"
    BY <1>10, <1>12, <1>18, <2>1, <2>2
  <2>4. /\ StateOK(x) /\ StateOK(y) /\ y.mem = x.mem /\ y.pt = x.pt
        /\ y.stop = x.stop /\ y.exc = x.exc
    BY <2>3 DEF Delayed
  <2>5. Translate(y.pt, tmp, size, TRUE) = "NoException"
    BY <2>3, <2>4
  <2>6. PICK n : n = WriteMem(x, tmp, size, value)
    OBVIOUS
  <2>7. PICK m : m = WriteMem(y, tmp, size, value)
    OBVIOUS
  <2>8. StateOK(n) /\ n.exc = x.exc /\ n.stop = x.stop
    BY <1>5, <1>11, <1>18, <2>3, <2>4, <2>6, WriteMemIs
  <2>9. StateOK(m) /\ m.exc = y.exc /\ m.stop = y.stop
    BY <1>5, <1>11, <1>18, <2>5, <2>4, <2>7, WriteMemIs
  <2>10. m.mem = n.mem
    BY <2>4, <2>6, <2>7, WriteMemSame
  <2>11. 0 \in GPReg /\ 0 \in Word
    BY RegNumbers, WordType
  <2>12. m.exc = n.exc /\ m.stop = n.stop
    BY <2>4, <2>8, <2>9
  <2>13. Alike(Complete(n, s.reg, 0, 0, after), Complete(m, t.reg, 0, 0, after))
    BY <1>2, <2>8, <2>9, <2>10, <2>11, <2>12, CompleteAlike
  <2> QED BY <2>1, <2>2, <2>6, <2>7, <2>13
<1> QED BY <1>13, <1>14, <1>15, <1>16, <1>17, <1>18

(* An operation belongs to one group of instructions. *)
LEMMA Groups ==
  ASSUME NEW op
  PROVE  /\ op \in RdOps =>
               /\ op \notin RtOps /\ op \notin HiLoOps /\ op \notin BranchOps /\ op \notin JumpOps
               /\ op \notin LoadOps /\ op \notin StoreOps /\ op \notin {"RES", "UNIMP"} /\ op # "SYSCALL" /\ op \notin {"BEQ", "BNE"}
         /\ op \in RtOps =>
               /\ op \notin RdOps /\ op \notin HiLoOps /\ op \notin BranchOps /\ op \notin JumpOps
               /\ op \notin LoadOps /\ op \notin StoreOps /\ op \notin {"RES", "UNIMP"} /\ op # "SYSCALL" /\ op \notin {"BEQ", "BNE"}
         /\ op \in HiLoOps =>
               /\ op \notin RdOps /\ op \notin RtOps /\ op \notin BranchOps /\ op \notin JumpOps
               /\ op \notin LoadOps /\ op \notin StoreOps /\ op \notin {"RES", "UNIMP"} /\ op # "SYSCALL" /\ op \notin {"BEQ", "BNE"}
         /\ op \in BranchOps =>
               /\ op \notin RdOps /\ op \notin RtOps /\ op \notin HiLoOps /\ op \notin JumpOps
               /\ op \notin LoadOps /\ op \notin StoreOps /\ op \notin {"RES", "UNIMP"} /\ op # "SYSCALL"
         /\ op \in JumpOps =>
               /\ op \notin RdOps /\ op \notin RtOps /\ op \notin HiLoOps /\ op \notin BranchOps
               /\ op \notin LoadOps /\ op \notin StoreOps /\ op \notin {"RES", "UNIMP"} /\ op # "SYSCALL" /\ op \notin {"BEQ", "BNE"}
         /\ op \in LoadOps =>
               /\ op \notin RdOps /\ op \notin RtOps /\ op \notin HiLoOps /\ op \notin BranchOps
               /\ op \notin JumpOps /\ op \notin StoreOps /\ op \notin {"RES", "UNIMP"} /\ op # "SYSCALL" /\ op \notin {"BEQ", "BNE"}
         /\ op \in StoreOps =>
               /\ op \notin RdOps /\ op \notin RtOps /\ op \notin HiLoOps /\ op \notin BranchOps
               /\ op \notin JumpOps /\ op \notin LoadOps /\ op \notin {"RES", "UNIMP"} /\ op # "SYSCALL" /\ op \notin {"BEQ", "BNE"}
         /\ op \in {"BEQ", "BNE"} => op \in BranchOps
<1>1. op \in RdOps =>
        /\ op \notin RtOps /\ op \notin HiLoOps /\ op \notin BranchOps /\ op \notin JumpOps
        /\ op \notin LoadOps /\ op \notin StoreOps /\ op \notin {"RES", "UNIMP"} /\ op # "SYSCALL" /\ op \notin {"BEQ", "BNE"}
  BY DEF RdOps, RtOps, HiLoOps, BranchOps, JumpOps, LoadOps, StoreOps
<1>2. op \in RtOps =>
        /\ op \notin RdOps /\ op \notin HiLoOps /\ op \notin BranchOps /\ op \notin JumpOps
        /\ op \notin LoadOps /\ op \notin StoreOps /\ op \notin {"RES", "UNIMP"} /\ op # "SYSCALL" /\ op \notin {"BEQ", "BNE"}
  BY DEF RdOps, RtOps, HiLoOps, BranchOps, JumpOps, LoadOps, StoreOps
<1>3. op \in HiLoOps =>
        /\ op \notin RdOps /\ op \notin RtOps /\ op \notin BranchOps /\ op \notin JumpOps
        /\ op \notin LoadOps /\ op \notin StoreOps /\ op \notin {"RES", "UNIMP"} /\ op # "SYSCALL" /\ op \notin {"BEQ", "BNE"}
  BY DEF RdOps, RtOps, HiLoOps, BranchOps, JumpOps, LoadOps, StoreOps
<1>4. op \in BranchOps =>
        /\ op \notin RdOps /\ op \notin RtOps /\ op \notin HiLoOps /\ op \notin JumpOps
        /\ op \notin LoadOps /\ op \notin StoreOps /\ op \notin {"RES", "UNIMP"} /\ op # "SYSCALL"
  BY DEF RdOps, RtOps, HiLoOps, BranchOps, JumpOps, LoadOps, StoreOps
<1>5. op \in JumpOps =>
        /\ op \notin RdOps /\ op \notin RtOps /\ op \notin HiLoOps /\ op \notin BranchOps
        /\ op \notin LoadOps /\ op \notin StoreOps /\ op \notin {"RES", "UNIMP"} /\ op # "SYSCALL" /\ op \notin {"BEQ", "BNE"}
  BY DEF RdOps, RtOps, HiLoOps, BranchOps, JumpOps, LoadOps, StoreOps
<1>6. op \in LoadOps =>
        /\ op \notin RdOps /\ op \notin RtOps /\ op \notin HiLoOps /\ op \notin BranchOps
        /\ op \notin JumpOps /\ op \notin StoreOps /\ op \notin {"RES", "UNIMP"} /\ op # "SYSCALL" /\ op \notin {"BEQ", "BNE"}
  BY DEF RdOps, RtOps, HiLoOps, BranchOps, JumpOps, LoadOps, StoreOps
<1>7. op \in StoreOps =>
        /\ op \notin RdOps /\ op \notin RtOps /\ op \notin HiLoOps /\ op \notin BranchOps
        /\ op \notin JumpOps /\ op \notin LoadOps /\ op \notin {"RES", "UNIMP"} /\ op # "SYSCALL" /\ op \notin {"BEQ", "BNE"}
  BY DEF RdOps, RtOps, HiLoOps, BranchOps, JumpOps, LoadOps, StoreOps
<1>8. op \in {"BEQ", "BNE"} => op \in BranchOps
  BY DEF BranchOps
<1> QED BY <1>1, <1>2, <1>3, <1>4, <1>5, <1>6, <1>7, <1>8

(* An instruction that does not use the register being loaded. *)
LEMMA ExecuteAlike ==
  ASSUME NEW s, NEW t, Delayed(s, t), NEW i, InstrOK(i), s.reg[LoadReg] \notin Uses(i)
  PROVE  Alike(Execute(s, i), Execute(t, i))
<1>1. CASE i.opCode \in RdOps \cup RtOps
  <2>1. \A u : Execute(u, i) = Arithmetic(u, i)
    BY <1>1, Groups DEF Execute
  <2>2. /\ i.opCode \in RdOps => Uses(i) = {i.rs, i.rt, i.rd}
        /\ i.opCode \in RtOps => Uses(i) = {i.rs, i.rt}
    BY Groups DEF Uses
  <2>4. /\ s.reg[LoadReg] # i.rs /\ s.reg[LoadReg] # i.rt
        /\ i.opCode \in RdOps => s.reg[LoadReg] # i.rd
    BY <1>1, <2>2
  <2> QED BY <1>1, <2>1, <2>4, ArithmeticAlike
<1>2. CASE i.opCode \in HiLoOps
  <2>1. \A u : Execute(u, i) = HiLo(u, i)
    BY <1>2, Groups DEF Execute
  <2>2. Uses(i) = {i.rs, i.rt, i.rd}
    BY <1>2, Groups DEF Uses
  <2> QED BY <1>2, <2>1, <2>2, HiLoAlike
<1>3. CASE i.opCode \in BranchOps
  <2>1. \A u : Execute(u, i) = Branch(u, i)
    BY <1>3, Groups DEF Execute
  <2>2. /\ i.opCode \in {"BEQ", "BNE"} => Uses(i) = {i.rs, i.rt}
        /\ i.opCode \notin {"BEQ", "BNE"} => Uses(i) = {i.rs, R31}
    BY <1>3, Groups DEF Uses
  <2>3. /\ s.reg[LoadReg] # i.rs
        /\ i.opCode \in {"BEQ", "BNE"} => s.reg[LoadReg] # i.rt
        /\ i.opCode \notin {"BEQ", "BNE"} => s.reg[LoadReg] # R31
    BY <2>2
  <2> QED BY <2>1, <2>3, BranchAlike
<1>4. CASE i.opCode \in JumpOps
  <2>1. \A u : Execute(u, i) = Jump(u, i)
    BY <1>4, Groups DEF Execute
  <2>2. Uses(i) = {i.rs, i.rd, R31}
    BY <1>4, Groups DEF Uses
  <2> QED BY <2>1, <2>2, JumpAlike
<1>5. CASE i.opCode \in LoadOps
  <2>1. \A u : Execute(u, i) = Load(u, i)
    BY <1>5, Groups DEF Execute
  <2>2. Uses(i) = {i.rs}
    BY <1>5, Groups DEF Uses
  <2> QED BY <1>5, <2>1, <2>2, LoadAlike
<1>6. CASE i.opCode \in StoreOps
  <2>1. \A u : Execute(u, i) = Store(u, i)
    BY <1>6, Groups DEF Execute
  <2>2. Uses(i) = {i.rs, i.rt}
    BY <1>6, Groups DEF Uses
  <2> QED BY <1>6, <2>1, <2>2, StoreAlike
<1>7. CASE i.opCode \notin RdOps \cup RtOps \cup HiLoOps \cup BranchOps \cup JumpOps
                           \cup LoadOps \cup StoreOps
  <2>1. 0 \in Word /\ "SyscallException" \in Exceptions
        /\ "IllegalInstrException" \in Exceptions /\ "ASSERT" \in Stops
    BY WordType DEF Exceptions, Stops
  <2>2. CASE i.opCode = "SYSCALL"
    <3>1. \A u : Execute(u, i) = RaiseException(u, "SyscallException", 0)
      BY <1>7, <2>2 DEF Execute
    <3> QED BY <2>1, <3>1, RaiseAlike
  <2>3. CASE i.opCode \in {"RES", "UNIMP"}
    <3>1. \A u : Execute(u, i) = RaiseException(u, "IllegalInstrException", 0)
      BY <1>7, <2>3 DEF Execute
    <3> QED BY <2>1, <3>1, RaiseAlike
  <2>4. CASE i.opCode # "SYSCALL" /\ i.opCode \notin {"RES", "UNIMP"}
    <3>1. \A u : Execute(u, i) = Die(u, "ASSERT")
      BY <1>7, <2>4 DEF Execute
    <3> QED BY <2>1, <3>1, DieAlike
  <2> QED BY <2>2, <2>3, <2>4
<1> QED BY <1>1, <1>2, <1>3, <1>4, <1>5, <1>6, <1>7

LEMMA InstructionAlike ==
  ASSUME NEW s, NEW t, Delayed(s, t), NEW raw \in Instructions,
         s.reg[LoadReg] \notin Uses(Decode(raw))
  PROVE  Alike(OneInstruction(s, raw), OneInstruction(t, raw))
<1> DEFINE s1(a) == [s EXCEPT !.pt = Touch(@, a, FALSE)]
           t1(a) == [t EXCEPT !.pt = Touch(@, a, FALSE)]
<1>1. StateOK(s) /\ t.pt = s.pt /\ t.reg[PCReg] = s.reg[PCReg]
  BY OtherRegs DEF Delayed
<1>2. PICK pc \in Word : pc = s.reg[PCReg] /\ pc = t.reg[PCReg]
  BY <1>1, StateParts
<1>3. PICK exc \in Exceptions : exc = Translate(s.pt, pc, 4, FALSE)
                                /\ exc = Translate(t.pt, pc, 4, FALSE)
  BY <1>1, StateParts, TranslateIs
<1>4. OneInstruction(s, raw) = IF exc # "NoException" THEN RaiseException(s, exc, pc)
                               ELSE Execute(s1(pc), Decode(raw))
  BY Zenon, <1>2, <1>3 DEF OneInstruction
<1>5. OneInstruction(t, raw) = IF exc # "NoException" THEN RaiseException(t, exc, pc)
                               ELSE Execute(t1(pc), Decode(raw))
  BY Zenon, <1>2, <1>3 DEF OneInstruction
<1>6. Alike(RaiseException(s, exc, pc), RaiseException(t, exc, pc))
  BY RaiseAlike
<1>7. ASSUME exc = "NoException" PROVE Alike(Execute(s1(pc), Decode(raw)), Execute(t1(pc), Decode(raw)))
  <2>1. Delayed(s1(pc), t1(pc))
    BY <1>3, <1>7, TouchDelayed
  <2>2. s1(pc).reg = s.reg
    BY <1>1, <1>3, <1>7, TouchRead
  <2>3. PICK x : x = s1(pc)
    OBVIOUS
  <2>4. PICK y : y = t1(pc)
    OBVIOUS
  <2> HIDE DEF s1, t1
  <2>5. Alike(Execute(x, Decode(raw)), Execute(y, Decode(raw)))
    BY <2>1, <2>2, <2>3, <2>4, DecodeOK, ExecuteAlike
  <2> QED BY <2>3, <2>4, <2>5
<1> QED BY <1>4, <1>5, <1>6, <1>7

(* A state and the one in which its load has arrived. *)
LEMMA SettledDelayed ==
  ASSUME NEW s, StateOK(s), s.exc = "NoException", s.reg[LoadReg] # 0
  PROVE  Delayed(s, Settled(s))
<1>1. s \in MachineState /\ s.reg \in [Reg -> Word] /\ s.reg[LoadReg] \in GPReg /\ s.reg[0] = 0
  BY DEF StateOK, RegsOK
<1>2. PICK q : q = [r \in DOMAIN s.reg |-> CASE r <= LoReg -> Visible(s.reg)[r]
                                            [] r \in {LoadReg, LoadValueReg} -> 0
                                            [] OTHER -> s.reg[r]]
  OBVIOUS
<1>3. Settled(s) = [s EXCEPT !.reg = q]
  BY <1>2 DEF Settled
<1>4. DOMAIN s.reg = 0..11
  BY <1>1, RegNumbers
<1>5. \A r \in 0..5 : q[r] = Visible(s.reg)[r]
  BY <1>2, <1>4, RegNumbers
<1>6. q[LoadReg] = 0 /\ q[LoadValueReg] = 0
  BY <1>2, <1>4, RegNumbers
<1>7. \A r \in {PCReg, NextPCReg, PrevPCReg, BadVAddrReg} : q[r] = s.reg[r]
  BY <1>2, <1>4, RegNumbers
<1>8. \A r \in 0..5 : q[r] = IF r # 0 /\ r = s.reg[LoadReg] THEN s.reg[LoadValueReg] ELSE s.reg[r]
  BY <1>5, VisibleIs
<1>9. \A r \in 0..11 : q[r] \in Word
  <2>1. \A r \in 0..11 : s.reg[r] \in Word
    BY <1>1, RegNumbers
  <2>2. \A r \in 0..5 : q[r] \in Word
    BY <1>8, <2>1, RegNumbers
  <2>3. \A r \in 6..11 : q[r] \in Word
    BY <1>6, <1>7, <2>1, WordType, RegNumbers
  <2> QED BY <2>2, <2>3
<1>10. q \in [Reg -> Word]
  <2>1. DOMAIN q = 0..11 /\ q = [r \in DOMAIN q |-> q[r]]
    BY <1>2, <1>4
  <2> QED BY <1>9, <2>1, RegNumbers
<1>11. q[0] = 0
  BY <1>1, <1>8
<1>12. RegsOK(q)
  BY <1>6, <1>10, <1>11, RegNumbers DEF RegsOK
<1>13. \A r \in 1..5 : q[r] = IF r = s.reg[LoadReg] THEN s.reg[LoadValueReg] ELSE s.reg[r]
  BY <1>8
<1>14. Arrived(s.reg, q)
  BY <1>1, <1>6, <1>7, <1>10, <1>13 DEF Arrived
<1>15. PICK t : t = Settled(s)
  OBVIOUS
<1>16. /\ t \in MachineState /\ t.reg = q /\ t.mem = s.mem /\ t.pt = s.pt /\ t.exc = s.exc
       /\ t.stop = s.stop
  BY <1>1, <1>3, <1>10, <1>15 DEF MachineState
<1> QED BY <1>12, <1>14, <1>15, <1>16 DEF Delayed, StateOK

(* LoadDelayHidden for every instruction, address and value: what            *)
(* DelayedLoad postpones (mipssim.cc), and what the way into the kernel and  *)
(* a second load do with it, shows only to an instruction that uses the      *)
(* register in the slot behind the load.                                     *)
THEOREM LoadDelayHiddenProved == MachineSpec => []LoadDelayHidden
<1>1. ASSUME MachineInv PROVE LoadDelayHidden
  <2> SUFFICES ASSUME registers[LoadReg] # 0, NEW raw \in Instructions,
                      registers[LoadReg] \notin Uses(Decode(raw))
               PROVE  Alike(OneInstruction(State, raw), OneInstruction(Settled(State), raw))
    BY DEF LoadDelayHidden, Alike
  <2>1. PICK s : s = State
    OBVIOUS
  <2>2. StateOK(s) /\ s.exc = "NoException" /\ s.reg = registers
    BY <1>1, <2>1, StateTyped DEF MachineInv
  <2>3. Delayed(s, Settled(s))
    BY <2>2, SettledDelayed
  <2>4. Alike(OneInstruction(s, raw), OneInstruction(Settled(s), raw))
    BY <2>2, <2>3, InstructionAlike
  <2> QED BY <2>1, <2>4
<1> QED BY <1>1, MachineInvariant, PTL
=============================================================================
