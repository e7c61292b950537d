-------------------------- MODULE PostOffice_proofs --------------------------
(***************************************************************************)
(* Proofs of the safety of the post office and of reliable sending, for    *)
(* any number of attempts and of lost packets.                             *)
(*                                                                         *)
(* The inductive invariant PostInv says which packets can be where, and    *)
(* that what came to a machine that is up is there in order (MailInv), and *)
(* how far each main is (ControlOK).                                       *)
(***************************************************************************)
EXTENDS PostOffice, SequenceTheorems, FiniteSetTheorems, WellFoundedInduction, TLAPS

(* A finite, nonempty set of integers has a smallest element. *)
LEMMA LeastElement ==
    ASSUME NEW S, S \subseteq Int, S # {}, IsFiniteSet(S)
    PROVE  \E x \in S : \A y \in S : x <= y
<1> DEFINE Below(x) == {y \in S : y <= x}
           T == {Below(x) : x \in S}
<1>1. \E u \in T : \A v \in T : ~(<<v, u>> \in StrictSubsetOrdering(S))
  <2>0. FiniteSubsetsOf(S) = SUBSET S
    BY FS_FiniteSubsetsOfFinite
  <2>1. T \subseteq SUBSET S /\ T # {}
    OBVIOUS
  <2>2. IsWellFoundedOn(StrictSubsetOrdering(S), FiniteSubsetsOf(S))
    BY FS_StrictSubsetOrderingWellFounded
  <2>3. T \subseteq FiniteSubsetsOf(S)
    BY <2>0, <2>1
  <2> HIDE DEF T
  <2> QED BY <2>1, <2>2, <2>3, WFMin
<1>2. PICK x \in S : \A z \in S : ~(<<Below(z), Below(x)>> \in StrictSubsetOrdering(S))
  BY <1>1
<1>3. ASSUME NEW z \in S, ~(x <= z) PROVE FALSE
  <2>1. Below(z) \subseteq Below(x) /\ Below(z) # Below(x)
    <3>1. z \in Int /\ x \in Int /\ z < x
      BY <1>3
    <3>2. x \in Below(x) /\ x \notin Below(z)
      BY <3>1
    <3>3. \A y \in S : y <= z => y <= x
      BY <3>1
    <3> QED BY <3>2, <3>3
  <2>2. <<Below(z), Below(x)>> \in StrictSubsetOrdering(S)
    BY <2>1 DEF StrictSubsetOrdering
  <2> QED BY <1>2, <2>2
<1> QED BY <1>3

-----------------------------------------------------------------------------
(* The operators on sequences of packets. *)

LEMMA PlacesFinite ==
    ASSUME NEW G, NEW s \in Seq(G), NEW b, NEW i
    PROVE  /\ IsFiniteSet(Places(s, b)) /\ Cardinality(Places(s, b)) \in Nat
           /\ IsFiniteSet({k \in Places(s, b) : k <= i}) /\ Upto(s, b, i) \in Nat
           /\ Upto(s, b, i) <= Cardinality(Places(s, b))
<1>1. Len(s) \in Int
  OBVIOUS
<1>2. IsFiniteSet(1..Len(s)) /\ Places(s, b) \subseteq 1..Len(s)
  BY <1>1, FS_Interval DEF Places
<1>3. IsFiniteSet(Places(s, b))
  BY <1>2, FS_Subset
<1>4. {k \in Places(s, b) : k <= i} \subseteq Places(s, b)
  OBVIOUS
<1> QED BY <1>3, <1>4, FS_Subset, FS_CardinalityType DEF Upto

(* The count goes up by one at each place, and only there. *)
LEMMA UptoStep ==
    ASSUME NEW G, NEW s \in Seq(G), NEW b, NEW i \in Nat
    PROVE  Upto(s, b, i + 1) = IF i + 1 \in Places(s, b) THEN Upto(s, b, i) + 1
                               ELSE Upto(s, b, i)
<1> DEFINE A == {k \in Places(s, b) : k <= i}
           B == {k \in Places(s, b) : k <= i + 1}
<1>1. IsFiniteSet(A) /\ Upto(s, b, i) = Cardinality(A) /\ Upto(s, b, i + 1) = Cardinality(B)
  BY PlacesFinite DEF Upto
<1>2. \A k \in Places(s, b) : k \in Int
  BY DEF Places
<1>3. CASE i + 1 \in Places(s, b)
  <2>1. B = A \cup {i + 1} /\ i + 1 \notin A
    BY <1>2, <1>3
  <2>2. Cardinality(B) = Cardinality(A) + 1
    BY <1>1, <2>1, FS_AddElement
  <2> QED BY <1>1, <1>3, <2>2
<1>4. CASE i + 1 \notin Places(s, b)
  <2>1. B = A
    BY <1>2, <1>4
  <2> QED BY <1>1, <1>4, <2>1
<1> QED BY <1>3, <1>4

LEMMA UptoEnds ==
    ASSUME NEW G, NEW s \in Seq(G), NEW b
    PROVE  Upto(s, b, 0) = 0 /\ Upto(s, b, Len(s)) = Cardinality(Places(s, b))
<1>1. \A k \in Places(s, b) : k \in 1..Len(s)
  BY DEF Places
<1>2. {k \in Places(s, b) : k <= 0} = {}
  BY <1>1
<1>3. {k \in Places(s, b) : k <= Len(s)} = Places(s, b)
  BY <1>1
<1> QED BY <1>2, <1>3, FS_EmptySet DEF Upto

(* There is a j-th place. *)
LEMMA NthPlace ==
    ASSUME NEW G, NEW s \in Seq(G), NEW b, NEW j \in 1..Cardinality(Places(s, b))
    PROVE  \E i \in Places(s, b) : Upto(s, b, i) = j
<1>0. PICK n \in Nat : n = Len(s)
  OBVIOUS
<1> DEFINE S == {i \in 0..n : Upto(s, b, i) >= j}
<1>1. n \in S
  <2>1. Upto(s, b, n) = Cardinality(Places(s, b)) /\ Cardinality(Places(s, b)) \in Nat
    BY <1>0, UptoEnds, PlacesFinite
  <2> QED BY <1>0, <2>1
<1>2. IsFiniteSet(S) /\ S \subseteq Int
  <2>1. IsFiniteSet(0..n)
    BY FS_Interval
  <2>2. S \subseteq 0..n
    OBVIOUS
  <2> QED BY <2>1, <2>2, FS_Subset
<1>3. PICK i \in S : \A y \in S : i <= y
  BY <1>1, <1>2, LeastElement
<1>4. i \in 0..n /\ Upto(s, b, i) >= j /\ Upto(s, b, i) \in Nat
  BY PlacesFinite
<1>5. j \in Int /\ j >= 1
  BY PlacesFinite
<1>6. i # 0
  BY <1>4, <1>5, UptoEnds
<1>7. PICK h \in Nat : i = h + 1 /\ h \in 0..n
  BY <1>0, <1>4, <1>6
<1>8. Upto(s, b, h) \in Nat
  BY PlacesFinite
<1>9. ~(Upto(s, b, h) >= j)
  <2>1. ~(i <= h)
    BY <1>7
  <2> QED BY <1>3, <1>7, <2>1
<1>10. Upto(s, b, h + 1) = IF h + 1 \in Places(s, b) THEN Upto(s, b, h) + 1 ELSE Upto(s, b, h)
  BY UptoStep
<1>11. i \in Places(s, b) /\ Upto(s, b, i) = Upto(s, b, h) + 1
  BY <1>4, <1>5, <1>7, <1>8, <1>9, <1>10
<1> QED BY <1>4, <1>5, <1>8, <1>9, <1>11

LEMMA NthIn ==
    ASSUME NEW G, NEW s \in Seq(G), NEW b, NEW j \in 1..Cardinality(Places(s, b))
    PROVE  TheOne(Nth(s, b, j)) \in Places(s, b) /\ TheOne(Nth(s, b, j)) \in 1..Len(s)
<1>1. Nth(s, b, j) # {}
  BY NthPlace DEF Nth
<1>2. TheOne(Nth(s, b, j)) \in Nth(s, b, j)
  BY <1>1 DEF TheOne
<1>3. Nth(s, b, j) \subseteq Places(s, b) /\ Places(s, b) \subseteq 1..Len(s)
  BY DEF Nth, Places
<1> QED BY <1>2, <1>3

LEMMA ForBoxType ==
    ASSUME NEW G, NEW s \in Seq(G), NEW b
    PROVE  ForBox(s, b) \in Seq(G) /\ Len(ForBox(s, b)) = Cardinality(Places(s, b))
<1>1. PICK c \in Nat : c = Cardinality(Places(s, b))
  BY PlacesFinite
<1>2. \A j \in 1..c : s[TheOne(Nth(s, b, j))] \in G
  BY <1>1, NthIn
<1>3. ForBox(s, b) \in [1..c -> G]
  BY <1>1, <1>2 DEF ForBox
<1>4. ForBox(s, b) \in Seq(G)
  BY <1>3, SeqDef
<1> QED BY <1>1, <1>3, <1>4

LEMMA PlacesAppend ==
    ASSUME NEW G, NEW s \in Seq(G), NEW p \in G, NEW b
    PROVE  /\ p.box = b => Places(Append(s, p), b) = Places(s, b) \cup {Len(s) + 1}
           /\ p.box # b => Places(Append(s, p), b) = Places(s, b)
           /\ Len(s) + 1 \notin Places(s, b)
           /\ \A i \in 1..Len(s) : Upto(Append(s, p), b, i) = Upto(s, b, i)
<1>1. PICK n \in Nat : n = Len(s)
  OBVIOUS
<1>2. PICK a : a = Append(s, p)
  OBVIOUS
<1>3. Len(a) = n + 1 /\ a[n + 1] = p /\ \A i \in 1..n : a[i] = s[i]
  BY <1>1, <1>2
<1>4. 1..(n + 1) = (1..n) \cup {n + 1} /\ n + 1 \notin 1..n
  OBVIOUS
<1>5. Places(a, b) = {i \in 1..(n + 1) : a[i].box = b} /\ Places(s, b) = {i \in 1..n : s[i].box = b}
  BY <1>1, <1>3 DEF Places
<1>6. /\ p.box = b => Places(a, b) = Places(s, b) \cup {n + 1}
      /\ p.box # b => Places(a, b) = Places(s, b)
  <2>1. \A i \in 1..n : i \in Places(a, b) <=> i \in Places(s, b)
    BY <1>3, <1>4, <1>5
  <2>2. n + 1 \in Places(a, b) <=> p.box = b
    BY <1>3, <1>4, <1>5
  <2>3. Places(a, b) \subseteq (1..n) \cup {n + 1} /\ Places(s, b) \subseteq 1..n
    BY <1>4, <1>5
  <2>4. ASSUME p.box = b PROVE Places(a, b) = Places(s, b) \cup {n + 1}
    BY <2>1, <2>2, <2>3, <2>4, Zenon
  <2>5. ASSUME p.box # b PROVE Places(a, b) = Places(s, b)
    BY <2>1, <2>2, <2>3, <2>5, Zenon
  <2> QED BY <2>4, <2>5
<1>7. n + 1 \notin Places(s, b)
  BY <1>4, <1>5
<1>8. ASSUME NEW i \in 1..n PROVE Upto(a, b, i) = Upto(s, b, i)
  <2>1. ~(n + 1 <= i)
    OBVIOUS
  <2>2. {k \in Places(a, b) : k <= i} = {k \in Places(s, b) : k <= i}
    BY <1>6, <2>1
  <2> QED BY <2>2 DEF Upto
<1> QED BY <1>1, <1>2, <1>6, <1>7, <1>8

LEMMA ForBoxOther ==
    ASSUME NEW G, NEW s \in Seq(G), NEW p \in G, NEW b, p.box # b
    PROVE  ForBox(Append(s, p), b) = ForBox(s, b)
<1>1. PICK n \in Nat : n = Len(s)
  OBVIOUS
<1>2. PICK a : a = Append(s, p)
  OBVIOUS
<1>3. \A i \in 1..n : a[i] = s[i]
  BY <1>1, <1>2
<1>4. Places(a, b) = Places(s, b) /\ \A i \in 1..n : Upto(a, b, i) = Upto(s, b, i)
  <2>1. /\ p.box = b => Places(Append(s, p), b) = Places(s, b) \cup {Len(s) + 1}
        /\ p.box # b => Places(Append(s, p), b) = Places(s, b)
        /\ Len(s) + 1 \notin Places(s, b)
        /\ \A i \in 1..Len(s) : Upto(Append(s, p), b, i) = Upto(s, b, i)
    BY PlacesAppend
  <2> QED BY <1>1, <1>2, <2>1
<1>5. Places(s, b) \subseteq 1..n
  BY <1>1 DEF Places
<1>6. \A j : Nth(a, b, j) = Nth(s, b, j)
  BY <1>4, <1>5 DEF Nth
<1>7. \A j \in 1..Cardinality(Places(s, b)) : TheOne(Nth(s, b, j)) \in 1..n
  BY <1>1, NthIn
<1> QED BY <1>2, <1>3, <1>4, <1>6, <1>7 DEF ForBox

LEMMA ForBoxAppend ==
    ASSUME NEW G, NEW s \in Seq(G), NEW p \in G, NEW b, p.box = b
    PROVE  ForBox(Append(s, p), b) = Append(ForBox(s, b), p)
<1>1. PICK n \in Nat : n = Len(s)
  OBVIOUS
<1>2. PICK a : a = Append(s, p)
  OBVIOUS
<1>3. a \in Seq(G) /\ a[n + 1] = p /\ Len(a) = n + 1 /\ \A i \in 1..n : a[i] = s[i]
  BY <1>1, <1>2
<1>4. /\ Places(a, b) = Places(s, b) \cup {n + 1} /\ n + 1 \notin Places(s, b)
      /\ \A i \in 1..n : Upto(a, b, i) = Upto(s, b, i)
  <2>1. /\ p.box = b => Places(Append(s, p), b) = Places(s, b) \cup {Len(s) + 1}
        /\ p.box # b => Places(Append(s, p), b) = Places(s, b)
        /\ Len(s) + 1 \notin Places(s, b)
        /\ \A i \in 1..Len(s) : Upto(Append(s, p), b, i) = Upto(s, b, i)
    BY PlacesAppend
  <2> QED BY <1>1, <1>2, <2>1
<1>5. Places(s, b) \subseteq 1..n
  BY <1>1 DEF Places
<1>6. PICK c \in Nat : c = Cardinality(Places(s, b))
  BY PlacesFinite
<1>7. Cardinality(Places(a, b)) = c + 1
  BY <1>4, <1>6, PlacesFinite, FS_AddElement
<1>8. Upto(a, b, n + 1) = c + 1
  BY <1>3, <1>7, UptoEnds
<1>9. \A i \in 1..n : Upto(s, b, i) \in Nat /\ Upto(s, b, i) <= c
  BY <1>6, PlacesFinite
<1>10. ASSUME NEW j \in 1..c PROVE Nth(a, b, j) = Nth(s, b, j)
  <2>1. c + 1 # j
    OBVIOUS
  <2> QED BY <1>4, <1>5, <1>8, <2>1 DEF Nth
<1>11. Nth(a, b, c + 1) = {n + 1}
  <2>1. \A i \in 1..n : Upto(a, b, i) # c + 1
    BY <1>4, <1>9
  <2> QED BY <1>4, <1>5, <1>8, <2>1 DEF Nth
<1>12. TheOne({n + 1}) = n + 1
  BY DEF TheOne
<1>13. PICK f \in Seq(G) : f = ForBox(s, b) /\ Len(f) = c
  BY <1>6, ForBoxType
<1>14. PICK g \in Seq(G) : g = ForBox(a, b) /\ Len(g) = c + 1
  BY <1>3, <1>7, ForBoxType
<1>15. \A j \in 1..c : g[j] = f[j]
  <2> SUFFICES ASSUME NEW j \in 1..c PROVE g[j] = f[j]
    OBVIOUS
  <2>1. g[j] = a[TheOne(Nth(a, b, j))]
    BY <1>7, <1>14 DEF ForBox
  <2>2. f[j] = s[TheOne(Nth(s, b, j))]
    BY <1>6, <1>13 DEF ForBox
  <2>3. TheOne(Nth(s, b, j)) \in 1..n
    BY <1>1, <1>6, NthIn
  <2> QED BY <1>3, <1>10, <2>1, <2>2, <2>3
<1>16. g[c + 1] = p
  <2>1. g[c + 1] = a[TheOne(Nth(a, b, c + 1))]
    BY <1>7, <1>14 DEF ForBox
  <2> QED BY <1>3, <1>11, <1>12, <2>1
<1>17. g = Append(f, p)
  <2>1. Append(f, p) \in Seq(G) /\ Len(Append(f, p)) = c + 1
    BY <1>13
  <2>2. \A j \in 1..(c + 1) : g[j] = Append(f, p)[j]
    BY <1>13, <1>15, <1>16
  <2> QED BY <1>14, <2>1, <2>2, SeqEqual
<1> QED BY <1>2, <1>13, <1>14, <1>17

-----------------------------------------------------------------------------
(* Moving one element between sequences that follow each other. *)

LEMMA AppendConcat ==
    ASSUME NEW G, NEW s \in Seq(G), NEW t \in Seq(G), NEW p \in G
    PROVE  s \o Append(t, p) = Append(s \o t, p)
<1>1. Append(t, p) = t \o <<p>> /\ <<p>> \in Seq(G)
  BY AppendIsConcat
<1>2. s \o t \in Seq(G)
  BY ConcatProperties
<1>3. Append(s \o t, p) = (s \o t) \o <<p>>
  BY <1>2, AppendIsConcat
<1> QED BY <1>1, <1>3, ConcatAssociative

LEMMA HeadConcatTail ==
    ASSUME NEW G, NEW s \in Seq(G), s # <<>>
    PROVE  s = <<Head(s)>> \o Tail(s) /\ Head(s) \in G /\ Tail(s) \in Seq(G)
<1>1. PICK p \in G : p = Head(s) /\ p = s[1]
  BY HeadTailProperties
<1>2. PICK t \in Seq(G) : t = Tail(s) /\ Len(t) = Len(s) - 1 /\ \A i \in 1..Len(t) : t[i] = s[i + 1]
  BY HeadTailProperties
<1>3. PICK u \in Seq(G) : u = <<p>> \o t
  <2>1. <<p>> \in Seq(G)
    OBVIOUS
  <2>2. <<p>> \o t \in Seq(G)
    BY <2>1, ConcatProperties
  <2> QED BY <2>2
<1>4. Len(u) = Len(s) /\ \A i \in 1..Len(s) : u[i] = s[i]
  <2>1. <<p>> \in Seq(G) /\ Len(<<p>>) = 1 /\ <<p>>[1] = p
    OBVIOUS
  <2>2. /\ Len(<<p>> \o t) = Len(<<p>>) + Len(t)
        /\ \A i \in 1..(Len(<<p>>) + Len(t)) :
              (<<p>> \o t)[i] = IF i <= Len(<<p>>) THEN <<p>>[i] ELSE t[i - Len(<<p>>)]
    BY <2>1, ConcatProperties
  <2>3. Len(s) \in Nat /\ Len(t) \in Nat
    OBVIOUS
  <2>4. \A i \in 1..Len(s) : u[i] = IF i <= 1 THEN p ELSE t[i - 1]
    BY <1>2, <1>3, <2>1, <2>2, <2>3
  <2>5. \A i \in 1..Len(s) : i <= 1 => i = 1
    BY <2>3
  <2>6. \A i \in 1..Len(s) : ~(i <= 1) => i - 1 \in 1..Len(t) /\ (i - 1) + 1 = i
    BY <1>2, <2>3
  <2> QED BY <1>1, <1>2, <1>3, <2>1, <2>2, <2>3, <2>4, <2>5, <2>6
<1>5. u = s
  BY <1>4, SeqEqual
<1> QED BY <1>1, <1>2, <1>3, <1>5

LEMMA Singleton ==
    ASSUME NEW G, NEW s \in Seq(G), s # <<>>, Len(s) <= 1
    PROVE  s = <<Head(s)>>
<1>1. PICK p \in G : p = Head(s) /\ p = s[1]
  BY HeadTailProperties
<1>2. Len(s) \in Nat \ {0}
  BY EmptySeq
<1>3. Len(s) = 1 /\ \A i \in 1..Len(s) : i = 1
  BY <1>2
<1>4. <<p>> \in Seq(G) /\ Len(<<p>>) = 1 /\ <<p>>[1] = p
  OBVIOUS
<1>5. \A i \in 1..Len(s) : s[i] = <<p>>[i]
  BY <1>1, <1>3, <1>4
<1>6. s = <<p>>
  BY <1>3, <1>4, <1>5, SeqEqual
<1> QED BY <1>1, <1>6

LEMMA ShiftOne ==
    ASSUME NEW G, NEW s \in Seq(G), NEW t \in Seq(G), t # <<>>
    PROVE  s \o t = Append(s, Head(t)) \o Tail(t)
<1>1. PICK p \in G : p = Head(t)
  BY HeadConcatTail
<1>2. PICK r \in Seq(G) : r = Tail(t)
  BY HeadConcatTail
<1>3. t = <<p>> \o r /\ <<p>> \in Seq(G)
  BY <1>1, <1>2, HeadConcatTail
<1>4. (s \o <<p>>) \o r = s \o (<<p>> \o r)
  BY <1>3, ConcatAssociative
<1>5. Append(s, p) = s \o <<p>>
  BY AppendIsConcat
<1> QED BY <1>1, <1>2, <1>3, <1>4, <1>5

LEMMA PrefixOfConcat ==
    ASSUME NEW G, NEW s \in Seq(G), NEW t \in Seq(G)
    PROVE  SubSeq(s \o t, 1, Len(s \o t) - Len(t)) = s
<1>1. PICK n \in Nat : n = Len(s)
  OBVIOUS
<1>2. PICK u \in Seq(G) : u = s \o t
  <2>1. s \o t \in Seq(G)
    BY ConcatProperties
  <2> QED BY <2>1
<1>3. /\ Len(s \o t) = Len(s) + Len(t)
      /\ \A i \in 1..(Len(s) + Len(t)) :
            (s \o t)[i] = IF i <= Len(s) THEN s[i] ELSE t[i - Len(s)]
  BY ConcatProperties
<1>4. Len(t) \in Nat
  OBVIOUS
<1>5. Len(u) - Len(t) = n /\ \A i \in 1..n : u[i] = s[i] /\ s[i] \in G
  BY <1>1, <1>2, <1>3, <1>4
<1>6. \A i \in 1..n : u[i] \in G
  BY <1>5
<1>7. /\ SubSeq(u, 1, n) \in Seq(G)
      /\ Len(SubSeq(u, 1, n)) = IF 1 <= n THEN n - 1 + 1 ELSE 0
      /\ \A i \in 1..(n - 1 + 1) : SubSeq(u, 1, n)[i] = u[1 + i - 1]
  BY <1>6, SubSeqProperties
<1>8. PICK v \in Seq(G) : v = SubSeq(u, 1, n)
  BY <1>7
<1>9. Len(v) = n /\ \A i \in 1..n : v[i] = u[i]
  BY <1>7, <1>8
<1>10. v = s
  BY <1>1, <1>5, <1>9, SeqEqual
<1> QED BY <1>2, <1>5, <1>8, <1>10

-----------------------------------------------------------------------------
(* The packets that are sent to a machine in each test, and those of them    *)
(* that may have been sent by now: an answer needs a message that was taken. *)
Can(m) == IF test = "TestWait" THEN IF m = 1 THEN {Data} ELSE {Resend, Ack(Data)}
          ELSE {Hello(1 - m), Ack(Hello(m))}

Good(m) == {p \in Can(m) : p.text = "ack" => taken[1 - m] # <<>>}

Shapes ==
    /\ up = [m \in Machine |-> up[m]] /\ wire = [m \in Machine |-> wire[m]]
    /\ inHdr = [m \in Machine |-> inHdr[m]] /\ carried = [m \in Machine |-> carried[m]]
    /\ posted = [m \in Machine |-> posted[m]] /\ taken = [m \in Machine |-> taken[m]]
    /\ boxes = [m \in Machine |-> [b \in Box |-> boxes[m][b]]]

GoodMail(m) ==
    /\ wire[m] \in Seq(Good(m)) /\ posted[m] \in Seq(Good(m)) /\ taken[m] \in Seq(Good(m))
    /\ inHdr[m] \in Seq(Good(m)) /\ Len(inHdr[m]) <= 1
    /\ carried[m] \in Seq(Good(m)) /\ Len(carried[m]) <= 1
    /\ \A b \in Box : boxes[m][b] \in Seq({p \in Good(m) : p.box = b})

InOrder(m, pre) ==
    /\ posted[m] = pre \o OnTheWay(m)
    /\ \A b \in Box : ForBox(pre, b) = ForBox(taken[m], b) \o boxes[m][b]

OrderOn(m) == up[m] = "up" => \E pre \in Seq(Good(m)) : InOrder(m, pre)

MailInv == Shapes /\ \A m \in Machine : GoodMail(m) /\ OrderOn(m)

(* How far main is on each machine. *)
ControlOK ==
    /\ test \in {"TestWait", "MailTest"} /\ reem \in Nat
    /\ pc = [th \in Thread |-> pc[th]]
    /\ test = "TestWait" =>
          /\ pc[Main(0)] \in {"send", "sending", "receive"} => reem < MAXREEMISSIONS
          /\ pc[Main(1)] # "receive" => taken[1] # <<>>
    /\ test = "MailTest" =>
          /\ \A k \in Attempt : pc[Timer(k)] = "none"
          /\ \A m \in Machine : pc[Main(m)] # "halt" => Len(taken[m]) <= 1
          /\ \A m \in Machine : taken[m] # <<>> => taken[m][1] = Hello(1 - m)

PostInv == MailInv /\ ControlOK /\ SuccessMeansDelivered

(***************************************************************************)
(* The packets.                                                            *)
(***************************************************************************)
LEMMA PacketFields ==
    /\ Data.text = "data" /\ Data.to = 1 /\ Data.box = 1
    /\ Resend.text = "Resend" /\ Resend.to = 0 /\ Resend.box = 0
    /\ Ack(Data).text = "ack" /\ Ack(Data).to = 0 /\ Ack(Data).box = 0
    /\ \A m \in Machine :
          /\ Hello(m).text = "data" /\ Hello(m).to = 1 - m /\ Hello(m).box = 0
          /\ Ack(Hello(m)).text = "ack" /\ Ack(Hello(m)).to = m /\ Ack(Hello(m)).box = 1
  BY DEF Data, Resend, Ack, Hello

LEMMA Machines == \A m \in Machine : 1 - m \in Machine /\ 1 - (1 - m) = m /\ 1 - m # m
  BY DEF Machine

LEMMA BoxOfMail ==
    ASSUME NEW m \in Machine, NEW p \in Can(m)
    PROVE  p.box \in Box
  BY PacketFields, Machines DEF Can, Box

(* In TestWait machine 1 is sent the message only, and machine 0 answers and *)
(* "Resend"; in MailTest messages are for box 0 and answers for box 1.       *)
LEMMA TestWaitMail ==
    ASSUME test = "TestWait"
    PROVE  /\ \A p \in Can(1) : p = Data
           /\ \A p \in Can(0) : p.text = "Resend" \/ p.text = "ack"
  BY PacketFields DEF Can

LEMMA MailTestMail ==
    ASSUME test = "MailTest", NEW m \in Machine, NEW p \in Can(m)
    PROVE  /\ p.box = 0 => p = Hello(1 - m)
           /\ p.box = 1 => p.text = "ack"
  BY PacketFields, Machines DEF Can

-----------------------------------------------------------------------------
(* Steps that leave the mail of a machine alone. *)

Frame(o) ==
    /\ up'[o] = "up" => up[o] = "up"
    /\ wire'[o] = wire[o] /\ inHdr'[o] = inHdr[o] /\ carried'[o] = carried[o]
    /\ boxes'[o] = boxes[o] /\ posted'[o] = posted[o] /\ taken'[o] = taken[o]

LEMMA GoodSame ==
    ASSUME test' = test, taken' = taken, NEW m
    PROVE  Good(m)' = Good(m)
  BY DEF Good, Can

LEMMA FrameKeeps ==
    ASSUME NEW o, GoodMail(o), OrderOn(o), Frame(o), Good(o) \subseteq Good(o)'
    PROVE  GoodMail(o)' /\ OrderOn(o)'
<1>1. \A s \in Seq(Good(o)) : s \in Seq(Good(o)')
  BY SeqMonotonic
<1>2. GoodMail(o)'
  <2>1. \A b \in Box : boxes[o][b] \in Seq({p \in Good(o)' : p.box = b})
    <3> SUFFICES ASSUME NEW b \in Box PROVE boxes[o][b] \in Seq({p \in Good(o)' : p.box = b})
      OBVIOUS
    <3>1. boxes[o][b] \in Seq({p \in Good(o) : p.box = b})
      BY DEF GoodMail
    <3>2. {p \in Good(o) : p.box = b} \subseteq {p \in Good(o)' : p.box = b}
      OBVIOUS
    <3> QED BY <3>1, <3>2, SeqMonotonic
  <2> QED BY <1>1, <2>1 DEF GoodMail, Frame
<1>3. ASSUME up'[o] = "up" PROVE \E pre \in Seq(Good(o)') : InOrder(o, pre)'
  <2>1. PICK pre \in Seq(Good(o)) : InOrder(o, pre)
    BY <1>3 DEF OrderOn, Frame
  <2>2. InOrder(o, pre)'
    BY <2>1 DEF InOrder, OnTheWay, Frame
  <2> QED BY <1>1, <2>2
<1> QED BY <1>2, <1>3 DEF OrderOn
LEMMA OnTheWayType ==
    ASSUME NEW m, GoodMail(m)
    PROVE  OnTheWay(m) \in Seq(Good(m))
  BY ConcatProperties DEF GoodMail, OnTheWay

(* One machine changes, by a step that leaves its mail in order. *)
LEMMA OneMachine ==
    ASSUME MailInv, Shapes', test' = test, taken' = taken, NEW m \in Machine,
           \A o \in Machine \ {m} : Frame(o), GoodMail(m)', OrderOn(m)'
    PROVE  MailInv'
<1>1. \A o \in Machine \ {m} : Good(o) \subseteq Good(o)'
  BY GoodSame
<1>2. \A o \in Machine \ {m} : GoodMail(o)' /\ OrderOn(o)'
  BY <1>1, FrameKeeps DEF MailInv
<1> QED BY <1>2 DEF MailInv

(* No machine changes, but some may stop. *)
LEMMA NoMachine ==
    ASSUME MailInv, Shapes', test' = test, taken' = taken, \A o \in Machine : Frame(o)
    PROVE  MailInv'
<1>1. \A o \in Machine : Good(o) \subseteq Good(o)'
  BY GoodSame
<1>2. \A o \in Machine : GoodMail(o)' /\ OrderOn(o)'
  BY <1>1, FrameKeeps DEF MailInv
<1> QED BY <1>2 DEF MailInv

-----------------------------------------------------------------------------
(* What the steps do to the mail. *)

Same == UNCHANGED <<test, up, wire, inHdr, carried, boxes, posted, taken>>

LEMMA SameKeeps ==
    ASSUME MailInv, Same
    PROVE  MailInv'
<1>1. Shapes'
  BY DEF MailInv, Shapes, Same
<1>2. \A o \in Machine : Frame(o)
  BY DEF Frame, Same
<1> QED BY <1>1, <1>2, NoMachine DEF Same

LEMMA PolledKeeps ==
    ASSUME MailInv, NEW m \in Machine, inHdr[m] = <<>>, PollSocket(m), ReadFromSocket(m),
           UNCHANGED <<test, up, carried, boxes, posted, taken>>
    PROVE  MailInv'
<1>1. Shapes'
  BY DEF MailInv, Shapes, ReadFromSocket
<1>2. /\ inHdr'[m] = <<Head(wire[m])>> /\ wire'[m] = Tail(wire[m])
      /\ \A o \in Machine \ {m} : inHdr'[o] = inHdr[o] /\ wire'[o] = wire[o]
  BY DEF MailInv, Shapes, ReadFromSocket
<1>3. \A o \in Machine \ {m} : Frame(o)
  BY <1>2 DEF Frame
<1>4. GoodMail(m) /\ OrderOn(m) /\ Good(m)' = Good(m)
  BY GoodSame DEF MailInv
<1>5. PICK w \in Seq(Good(m)) : w = wire[m] /\ w # <<>>
  BY <1>4 DEF GoodMail, PollSocket
<1>6. PICK p \in Good(m) : p = Head(w)
  BY <1>5, HeadConcatTail
<1>7. PICK r \in Seq(Good(m)) : r = Tail(w)
  BY <1>5, HeadConcatTail
<1>8. PICK h \in Seq(Good(m)) : h = <<p>> /\ Len(h) = 1
  <2>1. <<p>> \in Seq(Good(m)) /\ Len(<<p>>) = 1
    OBVIOUS
  <2> QED BY <2>1
<1>9. w = h \o r
  BY <1>5, <1>6, <1>7, <1>8, HeadConcatTail
<1>10. inHdr'[m] = h /\ wire'[m] = r
  BY <1>2, <1>5, <1>6, <1>7, <1>8
<1>11. GoodMail(m)'
  <2>1. h \in Seq(Good(m)) /\ r \in Seq(Good(m)) /\ Len(h) <= 1
    BY <1>7, <1>8
  <2>2. \A b \in Box : (boxes[m][b] \in Seq({x \in Good(m) : x.box = b}))'
    BY <1>4 DEF GoodMail
  <2> QED BY <1>4, <1>10, <2>1, <2>2 DEF GoodMail
<1>12. OnTheWay(m)' = OnTheWay(m)
  <2>1. PICK c \in Seq(Good(m)) : c = carried[m]
    BY <1>4 DEF GoodMail
  <2>2. OnTheWay(m) = (c \o <<>>) \o w /\ OnTheWay(m)' = (c \o h) \o r
    BY <1>5, <1>10, <2>1 DEF OnTheWay
  <2>3. c \o <<>> = c
    BY ConcatEmptySeq
  <2>4. (c \o h) \o r = c \o (h \o r)
    BY ConcatAssociative
  <2> QED BY <1>9, <2>2, <2>3, <2>4
<1>13. OrderOn(m)'
  BY <1>4, <1>12 DEF OrderOn, InOrder
<1> QED BY <1>1, <1>3, <1>11, <1>13, OneMachine

LEMMA CollectedKeeps ==
    ASSUME MailInv, NEW m \in Machine, carried[m] = <<>>, NetworkReceive(m),
           UNCHANGED <<test, up, wire, boxes, posted, taken>>
    PROVE  MailInv'
<1>1. Shapes'
  BY DEF MailInv, Shapes, NetworkReceive
<1>2. /\ carried'[m] = inHdr[m] /\ inHdr'[m] = <<>>
      /\ \A o \in Machine \ {m} : inHdr'[o] = inHdr[o] /\ carried'[o] = carried[o]
  BY DEF MailInv, Shapes, NetworkReceive
<1>3. \A o \in Machine \ {m} : Frame(o)
  BY <1>2 DEF Frame
<1>4. GoodMail(m) /\ OrderOn(m) /\ Good(m)' = Good(m)
  BY GoodSame DEF MailInv
<1>5. GoodMail(m)'
  <2>1. <<>> \in Seq(Good(m)) /\ Len(<<>>) = 0
    BY EmptySeq
  <2> QED BY <1>2, <1>4, <2>1 DEF GoodMail
<1>6. OnTheWay(m)' = OnTheWay(m)
  <2>1. PICK h \in Seq(Good(m)) : h = inHdr[m]
    BY <1>4 DEF GoodMail
  <2>2. OnTheWay(m) = (<<>> \o h) \o wire[m] /\ OnTheWay(m)' = (h \o <<>>) \o wire[m]
    BY <1>2, <2>1 DEF OnTheWay
  <2>3. h \o <<>> = h /\ <<>> \o h = h
    BY ConcatEmptySeq
  <2> QED BY <2>2, <2>3
<1>7. OrderOn(m)'
  BY <1>4, <1>6 DEF OrderOn, InOrder
<1> QED BY <1>1, <1>3, <1>5, <1>7, OneMachine
LEMMA DeliveredKeeps ==
    ASSUME MailInv, NEW m \in Machine, up[m] = "up", carried[m] # <<>>,
           Put(m, Head(carried[m])), carried' = [carried EXCEPT ![m] = <<>>],
           UNCHANGED <<test, up, wire, inHdr, posted, taken>>
    PROVE  MailInv'
<1>1. GoodMail(m) /\ OrderOn(m) /\ Good(m)' = Good(m)
  BY GoodSame DEF MailInv
<1>2. PICK c \in Seq(Good(m)) : c = carried[m] /\ c # <<>> /\ Len(c) <= 1
  BY <1>1 DEF GoodMail
<1>3. PICK p \in Good(m) : p = Head(c)
  BY <1>2, HeadConcatTail
<1>4. c = <<p>>
  BY <1>2, <1>3, Singleton
<1>5. p.box \in Box
  BY BoxOfMail DEF Good
<1>6. boxes' = [boxes EXCEPT ![m][p.box] = Append(@, p)]
  BY <1>2, <1>3 DEF Put
<1>7. /\ boxes'[m][p.box] = Append(boxes[m][p.box], p)
      /\ \A b \in Box \ {p.box} : boxes'[m][b] = boxes[m][b]
      /\ \A o \in Machine \ {m} : boxes'[o] = boxes[o]
      /\ boxes' = [x \in Machine |-> [b \in Box |-> boxes'[x][b]]]
  BY <1>5, <1>6 DEF MailInv, Shapes
<1>8. /\ carried'[m] = <<>> /\ \A o \in Machine \ {m} : carried'[o] = carried[o]
      /\ carried' = [x \in Machine |-> carried'[x]]
  BY DEF MailInv, Shapes
<1>9. Shapes'
  BY <1>7, <1>8 DEF MailInv, Shapes
<1>10. \A o \in Machine \ {m} : Frame(o)
  BY <1>7, <1>8 DEF Frame
<1>11. GoodMail(m)'
  <2>1. <<>> \in Seq(Good(m)) /\ Len(<<>>) = 0
    BY EmptySeq
  <2>2. \A b \in Box : boxes'[m][b] \in Seq({x \in Good(m) : x.box = b})
    <3> SUFFICES ASSUME NEW b \in Box PROVE boxes'[m][b] \in Seq({x \in Good(m) : x.box = b})
      OBVIOUS
    <3>1. boxes[m][b] \in Seq({x \in Good(m) : x.box = b})
      BY <1>1 DEF GoodMail
    <3>2. CASE b = p.box
      <4>1. p \in {x \in Good(m) : x.box = b}
        BY <3>2
      <4>2. Append(boxes[m][b], p) \in Seq({x \in Good(m) : x.box = b})
        BY <3>1, <4>1, AppendProperties
      <4> QED BY <1>7, <3>2, <4>2
    <3>3. CASE b # p.box
      BY <1>7, <3>1, <3>3
    <3> QED BY <3>2, <3>3
  <2>3. \A b \in Box : (boxes[m][b] \in Seq({x \in Good(m) : x.box = b}))'
    BY <1>1, <2>2
  <2>4. (/\ wire[m] \in Seq(Good(m)) /\ posted[m] \in Seq(Good(m)) /\ taken[m] \in Seq(Good(m))
         /\ inHdr[m] \in Seq(Good(m)) /\ Len(inHdr[m]) <= 1)'
    BY <1>1 DEF GoodMail
  <2>5. (carried[m] \in Seq(Good(m)) /\ Len(carried[m]) <= 1)'
    BY <1>1, <1>8, <2>1
  <2> QED BY <2>3, <2>4, <2>5 DEF GoodMail
<1>12. OrderOn(m)'
  <2>1. PICK pre \in Seq(Good(m)) : InOrder(m, pre)
    BY <1>1 DEF OrderOn
  <2>2. PICK h \in Seq(Good(m)) : h = inHdr[m]
    BY <1>1 DEF GoodMail
  <2>3. PICK w \in Seq(Good(m)) : w = wire[m]
    BY <1>1 DEF GoodMail
  <2>4. OnTheWay(m) = (<<p>> \o h) \o w /\ OnTheWay(m)' = (<<>> \o h) \o w
    BY <1>2, <1>4, <1>8, <2>2, <2>3 DEF OnTheWay
  <2>5. PICK q \in Seq(Good(m)) : q = h \o w
    <3>1. h \o w \in Seq(Good(m))
      BY ConcatProperties
    <3> QED BY <3>1
  <2>6. <<p>> \in Seq(Good(m)) /\ <<>> \o h = h
    BY ConcatEmptySeq
  <2>7. (<<p>> \o h) \o w = <<p>> \o (h \o w)
    BY <2>6, ConcatAssociative
  <2>8. OnTheWay(m) = <<p>> \o q /\ OnTheWay(m)' = q
    BY <2>4, <2>5, <2>6, <2>7
  <2>9. (pre \o <<p>>) \o q = pre \o (<<p>> \o q) /\ pre \o <<p>> = Append(pre, p)
    BY <2>6, ConcatAssociative, AppendIsConcat
  <2>10. posted'[m] = Append(pre, p) \o OnTheWay(m)'
    BY <2>1, <2>8, <2>9 DEF InOrder
  <2>11. \A b \in Box : ForBox(Append(pre, p), b) = ForBox(taken[m], b) \o boxes'[m][b]
    <3> SUFFICES ASSUME NEW b \in Box
                 PROVE  ForBox(Append(pre, p), b) = ForBox(taken[m], b) \o boxes'[m][b]
      OBVIOUS
    <3>1. ForBox(pre, b) = ForBox(taken[m], b) \o boxes[m][b]
      BY <2>1 DEF InOrder
    <3>2. CASE p.box = b
      <4>1. ForBox(Append(pre, p), b) = Append(ForBox(pre, b), p)
        BY <3>2, ForBoxAppend
      <4>2. PICK f \in Seq(Good(m)) : f = ForBox(taken[m], b)
        BY <1>1, ForBoxType DEF GoodMail
      <4>3. PICK g \in Seq(Good(m)) : g = boxes[m][b]
        <5>1. boxes[m][b] \in Seq({x \in Good(m) : x.box = b})
          BY <1>1 DEF GoodMail
        <5>2. {x \in Good(m) : x.box = b} \subseteq Good(m)
          OBVIOUS
        <5>3. boxes[m][b] \in Seq(Good(m))
          BY <5>1, <5>2, SeqMonotonic
        <5> QED BY <5>3
      <4>4. f \o Append(g, p) = Append(f \o g, p)
        BY AppendConcat
      <4>5. boxes'[m][b] = Append(g, p)
        BY <1>7, <3>2, <4>3
      <4> QED BY <3>1, <4>1, <4>2, <4>3, <4>4, <4>5
    <3>3. CASE p.box # b
      <4>1. ForBox(Append(pre, p), b) = ForBox(pre, b)
        BY <3>3, ForBoxOther
      <4> QED BY <1>7, <3>1, <3>3, <4>1
    <3> QED BY <3>2, <3>3
  <2>12. InOrder(m, Append(pre, p))'
    BY <2>10, <2>11 DEF InOrder
  <2>13. Append(pre, p) \in Seq(Good(m)')
    BY <1>1, AppendProperties
  <2> QED BY <2>12, <2>13 DEF OrderOn
<1> QED BY <1>9, <1>10, <1>11, <1>12, OneMachine

LEMMA SentKeeps ==
    ASSUME MailInv, NEW p, NEW m \in Machine, p.to = m, p \in Good(m),
           wire' = [wire EXCEPT ![p.to] = Append(@, p)],
           posted' = [posted EXCEPT ![p.to] = Append(@, p)],
           UNCHANGED <<test, up, inHdr, carried, boxes, taken>>
    PROVE  MailInv'
<1>1. GoodMail(m) /\ OrderOn(m) /\ Good(m)' = Good(m)
  BY GoodSame DEF MailInv
<1>2. /\ wire'[m] = Append(wire[m], p) /\ posted'[m] = Append(posted[m], p)
      /\ \A o \in Machine \ {m} : wire'[o] = wire[o] /\ posted'[o] = posted[o]
      /\ wire' = [x \in Machine |-> wire'[x]] /\ posted' = [x \in Machine |-> posted'[x]]
  BY DEF MailInv, Shapes
<1>3. Shapes'
  BY <1>2 DEF MailInv, Shapes
<1>4. \A o \in Machine \ {m} : Frame(o)
  BY <1>2 DEF Frame
<1>5. GoodMail(m)'
  <2>1. Append(wire[m], p) \in Seq(Good(m)) /\ Append(posted[m], p) \in Seq(Good(m))
    BY <1>1, AppendProperties DEF GoodMail
  <2> QED BY <1>1, <1>2, <2>1 DEF GoodMail
<1>6. ASSUME up'[m] = "up" PROVE \E pre \in Seq(Good(m)') : InOrder(m, pre)'
  <2>1. PICK pre \in Seq(Good(m)) : InOrder(m, pre)
    BY <1>1, <1>6 DEF OrderOn
  <2>2. PICK w \in Seq(Good(m)) : w = wire[m]
    BY <1>1 DEF GoodMail
  <2>3. PICK q \in Seq(Good(m)) : q = carried[m] \o inHdr[m]
    <3>1. carried[m] \o inHdr[m] \in Seq(Good(m))
      BY <1>1, ConcatProperties DEF GoodMail
    <3> QED BY <3>1
  <2>4. OnTheWay(m) = q \o w /\ OnTheWay(m)' = q \o Append(w, p)
    BY <1>2, <2>2, <2>3 DEF OnTheWay
  <2>5. OnTheWay(m) \in Seq(Good(m))
    BY <1>1, OnTheWayType
  <2>6. q \o Append(w, p) = Append(q \o w, p)
    BY AppendConcat
  <2>7. pre \o Append(OnTheWay(m), p) = Append(pre \o OnTheWay(m), p)
    BY <2>5, AppendConcat
  <2>8. posted'[m] = pre \o OnTheWay(m)'
    BY <1>2, <2>1, <2>4, <2>6, <2>7 DEF InOrder
  <2>9. InOrder(m, pre)'
    BY <2>1, <2>8 DEF InOrder
  <2> QED BY <1>1, <2>9
<1>7. OrderOn(m)'
  BY <1>6 DEF OrderOn
<1> QED BY <1>3, <1>4, <1>5, <1>7, OneMachine
LEMMA DownKeeps ==
    ASSUME MailInv, NEW m \in Machine, NEW v, v # "up", up' = [up EXCEPT ![m] = v],
           \/ UNCHANGED wire
           \/ wire' = [wire EXCEPT ![m] = <<>>],
           UNCHANGED <<test, inHdr, carried, boxes, posted, taken>>
    PROVE  MailInv'
<1>1. GoodMail(m) /\ Good(m)' = Good(m)
  BY GoodSame DEF MailInv
<1>2. /\ up'[m] # "up" /\ \A o \in Machine \ {m} : up'[o] = up[o]
      /\ up' = [x \in Machine |-> up'[x]]
  BY DEF MailInv, Shapes
<1>3. /\ wire'[m] = wire[m] \/ wire'[m] = <<>>
      /\ \A o \in Machine \ {m} : wire'[o] = wire[o]
      /\ wire' = [x \in Machine |-> wire'[x]]
  BY DEF MailInv, Shapes
<1>4. Shapes'
  BY <1>2, <1>3 DEF MailInv, Shapes
<1>5. \A o \in Machine \ {m} : Frame(o)
  BY <1>2, <1>3 DEF Frame
<1>6. GoodMail(m)'
  <2>1. wire'[m] \in Seq(Good(m))
    BY <1>1, <1>3, EmptySeq DEF GoodMail
  <2> QED BY <1>1, <2>1 DEF GoodMail
<1>7. OrderOn(m)'
  BY <1>2 DEF OrderOn
<1> QED BY <1>4, <1>5, <1>6, <1>7, OneMachine

(* A message that main takes may be answered from now on. *)
LEMMA TakenGrows ==
    ASSUME Shapes, test' = test, NEW m \in Machine, NEW p,
           taken' = [taken EXCEPT ![m] = Append(@, p)], taken[m] \in Seq(Good(m)), p \in Good(m)
    PROVE  /\ \A o \in Machine : Good(o) \subseteq Good(o)'
           /\ taken'[m] = Append(taken[m], p) /\ taken'[m] # <<>>
           /\ \A o \in Machine \ {m} : taken'[o] = taken[o]
           /\ taken' = [x \in Machine |-> taken'[x]]
<1>1. /\ taken'[m] = Append(taken[m], p)
      /\ \A o \in Machine \ {m} : taken'[o] = taken[o]
      /\ taken' = [x \in Machine |-> taken'[x]]
  BY DEF Shapes
<1>2. Append(taken[m], p) # <<>>
  BY AppendProperties
<1>3. \A o \in Machine : taken[o] # <<>> => taken'[o] # <<>>
  BY <1>1, <1>2
<1>4. \A o \in Machine : Can(o)' = Can(o)
  BY DEF Can
<1>5. \A o \in Machine : Good(o) \subseteq Good(o)'
  BY <1>3, <1>4, Machines DEF Good
<1> QED BY <1>1, <1>2, <1>5

LEMMA GotKeeps ==
    ASSUME MailInv, NEW m \in Machine, NEW b \in Box, up[m] = "up", Get(m, b),
           taken' = [taken EXCEPT ![m] = Append(@, Head(boxes[m][b]))],
           UNCHANGED <<test, up, wire, inHdr, carried, posted>>
    PROVE  MailInv'
<1>1. GoodMail(m) /\ OrderOn(m) /\ Shapes
  BY DEF MailInv
<1>2. PICK q \in Seq({x \in Good(m) : x.box = b}) : q = boxes[m][b] /\ q # <<>>
  BY <1>1 DEF GoodMail, Get
<1>3. PICK p \in {x \in Good(m) : x.box = b} : p = Head(q)
  BY <1>2, HeadConcatTail
<1>4. PICK r \in Seq({x \in Good(m) : x.box = b}) : r = Tail(q)
  BY <1>2, HeadConcatTail
<1>5. p \in Good(m) /\ p.box = b /\ taken[m] \in Seq(Good(m))
  BY <1>1 DEF GoodMail
<1>6. /\ \A o \in Machine : Good(o) \subseteq Good(o)'
      /\ taken'[m] = Append(taken[m], p)
      /\ \A o \in Machine \ {m} : taken'[o] = taken[o]
      /\ taken' = [x \in Machine |-> taken'[x]]
  <2>1. taken' = [taken EXCEPT ![m] = Append(@, p)]
    BY <1>2, <1>3
  <2> QED BY <1>1, <1>5, <2>1, TakenGrows
<1>7. /\ boxes'[m][b] = r
      /\ \A x \in Box \ {b} : boxes'[m][x] = boxes[m][x]
      /\ \A o \in Machine \ {m} : boxes'[o] = boxes[o]
      /\ boxes' = [x \in Machine |-> [y \in Box |-> boxes'[x][y]]]
  BY <1>1, <1>2, <1>4 DEF Get, Shapes
<1>8. Shapes'
  BY <1>1, <1>6, <1>7 DEF Shapes
<1>9. \A o \in Machine \ {m} : GoodMail(o)' /\ OrderOn(o)'
  <2>1. \A o \in Machine \ {m} : Frame(o)
    BY <1>6, <1>7 DEF Frame
  <2> QED BY <1>6, <2>1, FrameKeeps DEF MailInv
<1>10. \A s \in Seq(Good(m)) : s \in Seq(Good(m)')
  BY <1>6, SeqMonotonic
<1>11. GoodMail(m)'
  <2>1. \A x \in Box : boxes'[m][x] \in Seq({y \in Good(m) : y.box = x})
    BY <1>1, <1>4, <1>7 DEF GoodMail
  <2>2. \A x \in Box : (boxes[m][x] \in Seq({y \in Good(m) : y.box = x}))'
    <3> SUFFICES ASSUME NEW x \in Box PROVE boxes'[m][x] \in Seq({y \in Good(m)' : y.box = x})
      OBVIOUS
    <3>1. {y \in Good(m) : y.box = x} \subseteq {y \in Good(m)' : y.box = x}
      BY <1>6
    <3> QED BY <2>1, <3>1, SeqMonotonic
  <2>3. Append(taken[m], p) \in Seq(Good(m))
    BY <1>5, AppendProperties
  <2>4. (taken[m] \in Seq(Good(m)))'
    BY <1>6, <1>10, <2>3
  <2>5. (/\ wire[m] \in Seq(Good(m)) /\ posted[m] \in Seq(Good(m))
         /\ inHdr[m] \in Seq(Good(m)) /\ Len(inHdr[m]) <= 1
         /\ carried[m] \in Seq(Good(m)) /\ Len(carried[m]) <= 1)'
    BY <1>1, <1>10 DEF GoodMail
  <2> QED BY <2>2, <2>4, <2>5 DEF GoodMail
<1>12. OrderOn(m)'
  <2>1. PICK pre \in Seq(Good(m)) : InOrder(m, pre)
    BY <1>1 DEF OrderOn
  <2>2. posted'[m] = pre \o OnTheWay(m)'
    BY <2>1 DEF InOrder, OnTheWay
  <2>3. \A x \in Box : ForBox(pre, x) = ForBox(taken'[m], x) \o boxes'[m][x]
    <3> SUFFICES ASSUME NEW x \in Box
                 PROVE  ForBox(pre, x) = ForBox(taken'[m], x) \o boxes'[m][x]
      OBVIOUS
    <3>1. ForBox(pre, x) = ForBox(taken[m], x) \o boxes[m][x]
      BY <2>1 DEF InOrder
    <3>2. CASE x = b
      <4>1. ForBox(Append(taken[m], p), b) = Append(ForBox(taken[m], b), p)
        BY <1>5, ForBoxAppend
      <4>2. PICK f \in Seq(Good(m)) : f = ForBox(taken[m], b)
        BY <1>5, ForBoxType
      <4>3. {y \in Good(m) : y.box = b} \subseteq Good(m)
        OBVIOUS
      <4>4. q \in Seq(Good(m))
        BY <4>3, SeqMonotonic
      <4>5. f \o q = Append(f, Head(q)) \o Tail(q)
        BY <1>2, <4>4, ShiftOne
      <4>6. ForBox(taken'[m], b) = Append(f, p)
        BY <1>6, <4>1, <4>2
      <4>7. Append(f, p) \o r = f \o q
        BY <1>3, <1>4, <4>5
      <4> QED BY <1>2, <1>7, <3>1, <3>2, <4>2, <4>6, <4>7
    <3>3. CASE x # b
      <4>1. ForBox(Append(taken[m], p), x) = ForBox(taken[m], x)
        BY <1>5, <3>3, ForBoxOther
      <4> QED BY <1>6, <1>7, <3>1, <3>3, <4>1
    <3> QED BY <3>2, <3>3
  <2>4. InOrder(m, pre)'
    BY <2>2, <2>3 DEF InOrder
  <2> QED BY <1>10, <2>4 DEF OrderOn
<1> QED BY <1>8, <1>9, <1>11, <1>12 DEF MailInv
-----------------------------------------------------------------------------
(* How far the threads are. *)

LEMMA ThreadFacts ==
    /\ Main(0) \in Thread /\ Main(1) \in Thread /\ Main(0) # Main(1)
    /\ \A m \in Machine : Main(m) \in Thread /\ MachineOf(Main(m)) = m
    /\ \A k \in Attempt : Timer(k) \in Thread /\ MachineOf(Timer(k)) = 0
    /\ \A k \in Attempt : Timer(k) # Main(0) /\ Timer(k) # Main(1)
<1>1. \A k \in Attempt : k # 0
  BY PostOfficeAssumption DEF Attempt
<1> QED BY <1>1 DEF Thread, Main, Timer, MachineOf, Machine

LEMMA TextsAppend ==
    ASSUME NEW G, NEW s \in Seq(G), NEW p \in G
    PROVE  Texts(s) \subseteq Texts(Append(s, p)) /\ p.text \in Texts(Append(s, p))
<1>1. PICK n \in Nat : n = Len(s) /\ DOMAIN s = 1..n
  OBVIOUS
<1>2. PICK a \in Seq(G) : a = Append(s, p) /\ Len(a) = n + 1 /\ DOMAIN a = 1..(n + 1)
  <2>1. Append(s, p) \in Seq(G) /\ Len(Append(s, p)) = n + 1
    BY <1>1, AppendProperties
  <2>2. DOMAIN Append(s, p) = 1..(n + 1)
    BY <2>1, LenProperties
  <2> QED BY <2>1, <2>2
<1>3. a[n + 1] = p /\ \A i \in 1..n : a[i] = s[i]
  BY <1>1, <1>2, AppendProperties
<1>4. n + 1 \in 1..(n + 1) /\ \A i \in 1..n : i \in 1..(n + 1)
  OBVIOUS
<1>5. p.text \in Texts(a)
  BY <1>2, <1>3, <1>4 DEF Texts
<1>6. Texts(s) \subseteq Texts(a)
  BY <1>1, <1>2, <1>3, <1>4 DEF Texts
<1> QED BY <1>2, <1>5, <1>6

LEMMA NonEmpty ==
    ASSUME NEW G, NEW s \in Seq(G), s # <<>>
    PROVE  Len(s) >= 1 /\ s[1] \in G /\ s[1].text \in Texts(s)
<1>1. Len(s) \in Nat \ {0}
  BY EmptySeq
<1>2. 1 \in 1..Len(s) /\ DOMAIN s = 1..Len(s)
  BY <1>1
<1> QED BY <1>1, <1>2 DEF Texts

(* One thread goes on, with no mail taken. *)
LEMMA ThreadKeeps ==
    ASSUME ControlOK, SuccessMeansDelivered, UNCHANGED <<test, reem, taken>>,
           NEW th \in Thread, NEW at, pc' = [pc EXCEPT ![th] = at],
           th = Main(0) => pc[th] \in {"send", "sending"} /\ at # "halt",
           th = Main(1) => pc[th] \in {"send", "sending"},
           test = "MailTest" => th \in {Main(0), Main(1)}
    PROVE  ControlOK' /\ SuccessMeansDelivered'
<1>1. /\ pc'[th] = at /\ pc' = [x \in Thread |-> pc'[x]]
      /\ \A x \in Thread \ {th} : pc'[x] = pc[x]
  BY DEF ControlOK
<1>2. pc'[Main(0)] = "halt" => pc[Main(0)] = "halt"
  BY <1>1, ThreadFacts
<1>3. SuccessMeansDelivered'
  BY <1>2 DEF SuccessMeansDelivered
<1>4. ASSUME test = "TestWait"
      PROVE  /\ pc'[Main(0)] \in {"send", "sending", "receive"} => reem < MAXREEMISSIONS
             /\ pc'[Main(1)] # "receive" => taken[1] # <<>>
  <2>1. CASE th = Main(0)
    BY <1>1, <1>4, <2>1, ThreadFacts DEF ControlOK
  <2>2. CASE th # Main(0)
    BY <1>1, <1>4, <2>2, ThreadFacts DEF ControlOK
  <2> QED BY <2>1, <2>2
<1>5. ASSUME test = "MailTest"
      PROVE  /\ \A k \in Attempt : pc'[Timer(k)] = "none"
             /\ \A m \in Machine : pc'[Main(m)] # "halt" => Len(taken[m]) <= 1
             /\ \A m \in Machine : taken[m] # <<>> => taken[m][1] = Hello(1 - m)
  <2>1. \A k \in Attempt : pc'[Timer(k)] = "none"
    BY <1>1, <1>5, ThreadFacts DEF ControlOK
  <2>2. \A m \in Machine : pc'[Main(m)] # "halt" => pc[Main(m)] # "halt"
    BY <1>1, ThreadFacts DEF Machine
  <2> QED BY <1>5, <2>1, <2>2 DEF ControlOK
<1> QED BY <1>1, <1>3, <1>4, <1>5 DEF ControlOK

LEMMA SameThreads ==
    ASSUME ControlOK, SuccessMeansDelivered, UNCHANGED <<test, reem, taken, pc>>
    PROVE  ControlOK' /\ SuccessMeansDelivered'
  BY DEF ControlOK, SuccessMeansDelivered
(* The actions that take mail. *)

LEMMA TakesMail ==
    ASSUME MailInv, ControlOK, NEW m \in Machine, NEW b \in Box, Receive(m, b), test' = test
    PROVE  /\ MailInv' /\ pc[Main(m)] = "receive"
           /\ \E p \in Good(m) : /\ p = Head(boxes[m][b]) /\ p.box = b
                                 /\ taken'[m] = Append(taken[m], p) /\ taken'[m] # <<>>
           /\ \A o \in Machine \ {m} : taken'[o] = taken[o]
<1>1. up[m] = "up" /\ pc[Main(m)] = "receive"
  BY ThreadFacts DEF Receive, Runs
<1>2. UNCHANGED <<test, up, wire, inHdr, carried, posted>>
  BY DEF Receive, networkVars
<1>3. MailInv'
  BY <1>1, <1>2, GotKeeps DEF Receive
<1>4. boxes[m][b] \in Seq({x \in Good(m) : x.box = b}) /\ boxes[m][b] # <<>>
  BY DEF MailInv, GoodMail, Receive, Get
<1>5. Head(boxes[m][b]) \in {x \in Good(m) : x.box = b}
  BY <1>4, HeadConcatTail
<1>6. PICK p \in Good(m) : p = Head(boxes[m][b]) /\ p.box = b
  BY <1>5
<1>7. Shapes /\ taken[m] \in Seq(Good(m)) /\ taken' = [taken EXCEPT ![m] = Append(@, p)]
  BY <1>6 DEF MailInv, GoodMail, Receive
<1>8. /\ taken'[m] = Append(taken[m], p) /\ taken'[m] # <<>>
      /\ \A o \in Machine \ {m} : taken'[o] = taken[o]
  BY <1>7, TakenGrows
<1> QED BY <1>1, <1>3, <1>6, <1>8

LEMMA GetAnswerKeeps ==
    ASSUME PostInv, GetAnswer, test = "TestWait", test' = test
    PROVE  PostInv'
<1>0. MailInv /\ ControlOK /\ 0 \in Machine /\ 1 \in Machine \ {0} /\ 0 \in Box
  BY DEF PostInv, Machine, Box
<1>1. /\ MailInv' /\ pc[Main(0)] = "receive"
      /\ \E p \in Good(0) : /\ p = Head(boxes[0][0]) /\ p.box = 0
                            /\ taken'[0] = Append(taken[0], p) /\ taken'[0] # <<>>
      /\ \A o \in Machine \ {0} : taken'[o] = taken[o]
  BY <1>0, TakesMail DEF GetAnswer
<1>2. PICK p \in Good(0) : p = Head(boxes[0][0]) /\ taken'[0] = Append(taken[0], p)
  BY <1>1
<1>3. taken'[1] = taken[1]
  BY <1>0, <1>1
<1>4. reem \in Nat /\ reem < MAXREEMISSIONS /\ reem' = reem + 1 /\ MAXREEMISSIONS \in Nat
  BY <1>0, <1>1, PostOfficeAssumption DEF ControlOK, GetAnswer
<1>5. PICK at : /\ at = IF p.text = "Resend" /\ reem' < MAXREEMISSIONS THEN "send" ELSE "halt"
                /\ pc' = [pc EXCEPT ![Main(0)] = at]
  BY <1>2 DEF GetAnswer
<1>6. /\ pc'[Main(0)] = at /\ pc'[Main(1)] = pc[Main(1)]
      /\ pc' = [x \in Thread |-> pc'[x]]
  BY <1>0, <1>5, ThreadFacts DEF ControlOK
<1>7. ControlOK'
  <2>1. pc'[Main(0)] \in {"send", "sending", "receive"} => reem' < MAXREEMISSIONS
    BY <1>5, <1>6
  <2>2. pc'[Main(1)] # "receive" => taken'[1] # <<>>
    BY <1>0, <1>3, <1>6 DEF ControlOK
  <2>3. reem' \in Nat
    BY <1>4
  <2> QED BY <1>6, <2>1, <2>2, <2>3 DEF ControlOK
<1>8. ASSUME pc'[Main(0)] = "halt"
      PROVE  \/ "data" \in Texts(taken'[1]) /\ "ack" \in Texts(taken'[0])
             \/ reem' = MAXREEMISSIONS
  <2>1. p.text = "Resend" \/ p.text = "ack"
    BY TestWaitMail DEF Good
  <2>2. CASE p.text = "Resend"
    BY <1>4, <1>5, <1>6, <1>8, <2>2
  <2>3. CASE p.text = "ack"
    <3>1. taken[1] # <<>>
      BY <2>3 DEF Good
    <3>2. taken[1] \in Seq(Good(1)) /\ taken[0] \in Seq(Good(0))
      BY <1>0 DEF MailInv, GoodMail
    <3>3. taken[1][1] \in Good(1) /\ taken[1][1].text \in Texts(taken[1])
      BY <3>1, <3>2, NonEmpty
    <3>4. taken[1][1].text = "data"
      BY <3>3, TestWaitMail, PacketFields DEF Good
    <3>5. "ack" \in Texts(taken'[0])
      BY <1>2, <2>3, <3>2, TextsAppend
    <3> QED BY <1>3, <3>3, <3>4, <3>5
  <2> QED BY <2>1, <2>2, <2>3
<1>9. SuccessMeansDelivered'
  BY <1>8 DEF SuccessMeansDelivered
<1> QED BY <1>1, <1>7, <1>9 DEF PostInv

LEMMA GetMessageKeeps ==
    ASSUME PostInv, GetMessage, test = "TestWait", test' = test
    PROVE  PostInv'
<1>0. MailInv /\ ControlOK /\ 1 \in Machine /\ 0 \in Machine \ {1} /\ 1 \in Box
  BY DEF PostInv, Machine, Box
<1>1. /\ MailInv' /\ pc[Main(1)] = "receive"
      /\ \E p \in Good(1) : /\ p = Head(boxes[1][1]) /\ p.box = 1
                            /\ taken'[1] = Append(taken[1], p) /\ taken'[1] # <<>>
      /\ \A o \in Machine \ {1} : taken'[o] = taken[o]
  BY <1>0, TakesMail DEF GetMessage
<1>2. PICK p \in Good(1) : taken'[1] = Append(taken[1], p) /\ taken'[1] # <<>>
  BY <1>1
<1>3. taken'[0] = taken[0]
  BY <1>0, <1>1
<1>4. pc' = [pc EXCEPT ![Main(1)] = "send"] /\ reem' = reem
  BY DEF GetMessage
<1>5. /\ pc'[Main(0)] = pc[Main(0)] /\ pc'[Main(1)] = "send"
      /\ pc' = [x \in Thread |-> pc'[x]]
  BY <1>0, <1>4, ThreadFacts DEF ControlOK
<1>6. ControlOK'
  BY <1>0, <1>2, <1>4, <1>5 DEF ControlOK
<1>7. Texts(taken[1]) \subseteq Texts(taken'[1])
  <2>1. taken[1] \in Seq(Good(1))
    BY <1>0 DEF MailInv, GoodMail
  <2> QED BY <1>2, <2>1, TextsAppend
<1>8. SuccessMeansDelivered'
  BY <1>3, <1>4, <1>5, <1>7 DEF PostInv, SuccessMeansDelivered
<1> QED BY <1>1, <1>6, <1>8 DEF PostInv
LEMMA MailGetKeeps ==
    ASSUME PostInv, NEW m \in Machine, MailGet(m), test = "MailTest", test' = test
    PROVE  PostInv'
<1>0. MailInv /\ ControlOK /\ SuccessMeansDelivered
  BY DEF PostInv
<1>1. pc[Main(m)] = "receive" /\ taken[m] \in Seq(Good(m)) /\ Len(taken[m]) <= 1
  <2>1. pc[Main(m)] = "receive"
    BY ThreadFacts DEF MailGet, Receive, Runs
  <2> QED BY <1>0, <2>1 DEF ControlOK, MailInv, GoodMail
<1>2. Len(taken[m]) = 0 \/ Len(taken[m]) = 1
  <2>1. PICK n \in Nat : n = Len(taken[m])
    BY <1>1, LenProperties
  <2>2. n <= 1
    BY <1>1, <2>1
  <2>3. n = 0 \/ n = 1
    BY <2>2
  <2> QED BY <2>1, <2>3
<1>3. taken[m] = <<>> <=> Len(taken[m]) = 0
  BY <1>1, EmptySeq
<1>4. PICK b \in Box : b = Len(taken[m])
  BY <1>2 DEF Box
<1>5. Receive(m, b)
  BY <1>4 DEF MailGet
<1>6. /\ MailInv'
      /\ \E p \in Good(m) : /\ p = Head(boxes[m][b]) /\ p.box = b
                            /\ taken'[m] = Append(taken[m], p) /\ taken'[m] # <<>>
      /\ \A o \in Machine \ {m} : taken'[o] = taken[o]
  BY <1>0, <1>5, TakesMail
<1>7. PICK p \in Good(m) : p.box = b /\ taken'[m] = Append(taken[m], p) /\ taken'[m] # <<>>
  BY <1>6
<1>8. /\ Len(taken'[m]) = Len(taken[m]) + 1
      /\ taken[m] = <<>> => taken'[m][1] = p
      /\ taken[m] # <<>> => taken'[m][1] = taken[m][1]
  <2>1. PICK s \in Seq(Good(m)) : s = taken[m]
    BY <1>1
  <2>2. /\ Len(Append(s, p)) = Len(s) + 1 /\ Append(s, p)[Len(s) + 1] = p
        /\ \A i \in 1..Len(s) : Append(s, p)[i] = s[i]
    BY AppendProperties
  <2>3. s = <<>> => Append(s, p)[1] = p
    BY <1>3, <2>1, <2>2
  <2>4. s # <<>> => Len(s) = 1
    BY <1>2, <1>3, <2>1
  <2>5. s # <<>> => Append(s, p)[1] = s[1]
    BY <2>2, <2>4
  <2> QED BY <1>7, <2>1, <2>2, <2>3, <2>5
<1>9. PICK at : /\ at = IF taken[m] = <<>> THEN "send" ELSE "halt"
                /\ pc' = [pc EXCEPT ![Main(m)] = at]
  BY DEF MailGet
<1>10. /\ pc'[Main(m)] = at /\ pc' = [x \in Thread |-> pc'[x]]
       /\ \A x \in Thread \ {Main(m)} : pc'[x] = pc[x]
  BY <1>0, <1>9, ThreadFacts DEF ControlOK
<1>11. \A o \in Machine \ {m} : pc'[Main(o)] = pc[Main(o)]
  BY <1>10, ThreadFacts DEF Machine
<1>12. \A k \in Attempt : pc'[Timer(k)] = pc[Timer(k)]
  BY <1>10, ThreadFacts DEF Machine
<1>13. ControlOK'
  <2>1. \A k \in Attempt : pc'[Timer(k)] = "none"
    BY <1>0, <1>12 DEF ControlOK
  <2>2. ASSUME NEW o \in Machine, pc'[Main(o)] # "halt" PROVE Len(taken'[o]) <= 1
    <3>1. CASE o = m
      <4>1. at # "halt"
        BY <1>10, <2>2, <3>1
      <4>2. taken[m] = <<>>
        BY <1>9, <4>1
      <4>3. Len(taken'[m]) = 0 + 1
        BY <1>3, <1>8, <4>2
      <4> QED BY <3>1, <4>3
    <3>2. CASE o # m
      BY <1>0, <1>6, <1>11, <2>2, <3>2 DEF ControlOK
    <3> QED BY <3>1, <3>2
  <2>3. ASSUME NEW o \in Machine, taken'[o] # <<>> PROVE taken'[o][1] = Hello(1 - o)
    <3>1. CASE o = m /\ taken[m] = <<>>
      <4>1. p.box = 0
        BY <1>3, <1>4, <1>7, <3>1
      <4>2. p = Hello(1 - m)
        BY <4>1, MailTestMail DEF Good
      <4> QED BY <1>8, <3>1, <4>2
    <3>2. CASE o = m /\ taken[m] # <<>>
      BY <1>0, <1>8, <3>2 DEF ControlOK
    <3>3. CASE o # m
      BY <1>0, <1>6, <2>3, <3>3 DEF ControlOK
    <3> QED BY <3>1, <3>2, <3>3
  <2>4. reem' = reem /\ reem \in Nat
    BY <1>0 DEF MailGet, ControlOK
  <2> QED BY <1>10, <2>1, <2>2, <2>3, <2>4 DEF ControlOK
<1>14. SuccessMeansDelivered'
  <2> SUFFICES ASSUME pc'[Main(0)] = "halt"
               PROVE  "data" \in Texts(taken'[1]) /\ "ack" \in Texts(taken'[0])
    BY DEF SuccessMeansDelivered
  <2>0. 0 \in Machine /\ 1 \in Machine /\ 1 - 0 = 1 /\ (m = 0 \/ m = 1)
    BY DEF Machine
  <2>1. CASE m = 0
    <3>1. taken[m] # <<>> /\ b = 1
      BY <1>2, <1>3, <1>4, <1>9, <1>10, <2>1
    <3>2. p.text = "ack"
      BY <1>7, <3>1, MailTestMail DEF Good
    <3>3. taken[1] # <<>>
      BY <2>0, <2>1, <3>2 DEF Good
    <3>4. taken[1] \in Seq(Good(1))
      BY <1>0, <2>0 DEF MailInv, GoodMail
    <3>5. taken[1][1].text \in Texts(taken[1])
      BY <3>3, <3>4, NonEmpty
    <3>6. taken[1][1] = Hello(1 - 1)
      BY <1>0, <2>0, <3>3 DEF ControlOK
    <3>7. Hello(1 - 1).text = "data"
      BY PacketFields DEF Machine
    <3>8. "ack" \in Texts(taken'[0])
      BY <1>1, <1>7, <2>1, <3>2, TextsAppend
    <3>9. taken'[1] = taken[1]
      BY <1>6, <2>0, <2>1
    <3> QED BY <3>5, <3>6, <3>7, <3>8, <3>9
  <2>2. CASE m = 1
    <3>1. pc[Main(0)] = "halt" /\ taken'[0] = taken[0]
      BY <1>6, <1>11, <2>0, <2>2
    <3>2. Texts(taken[1]) \subseteq Texts(taken'[1])
      BY <1>1, <1>7, <2>2, TextsAppend
    <3>3. "data" \in Texts(taken[1]) /\ "ack" \in Texts(taken[0])
      BY <1>0, <3>1 DEF SuccessMeansDelivered
    <3> QED BY <3>1, <3>2, <3>3
  <2> QED BY <2>0, <2>1, <2>2
<1> QED BY <1>6, <1>13, <1>14 DEF PostInv
(***************************************************************************)
(* Sending.                                                                *)
(***************************************************************************)
LEMMA SendKeeps ==
    ASSUME MailInv, NEW th \in Thread, NEW p, NEW at, NEW m \in Machine,
           SendStart(th, p, at), test' = test, p.to = m, p \in Good(m)
    PROVE  MailInv'
<1>1. MachineOf(th) \in Machine
  BY ThreadFacts DEF Thread, Machine
<1>2. UNCHANGED <<inHdr, carried, boxes, taken>>
  BY DEF SendStart
<1>3. CASE UNCHANGED <<up, wire, posted>>
  BY <1>2, <1>3, SameKeeps DEF Same
<1>4. CASE SendToSocket(MachineOf(th), p)
  <2>1. CASE up[p.to] = "up"
    <3>1. /\ wire' = [wire EXCEPT ![p.to] = Append(@, p)]
          /\ posted' = [posted EXCEPT ![p.to] = Append(@, p)]
          /\ UNCHANGED up
      BY <1>4, <2>1 DEF SendToSocket
    <3> QED BY <1>2, <3>1, SentKeeps
  <2>2. CASE up[p.to] # "up"
    <3>1. up' = [up EXCEPT ![MachineOf(th)] = "aborted"] /\ UNCHANGED <<wire, posted>>
      BY <1>4, <2>2 DEF SendToSocket
    <3> QED BY <1>1, <1>2, <3>1, DownKeeps
  <2> QED BY <2>1, <2>2
<1> QED BY <1>3, <1>4 DEF SendStart, NetworkSend

LEMMA MainSends ==
    ASSUME PostInv, NEW m \in Machine, NEW p, NEW o \in Machine,
           SendStart(Main(m), p, "send"), test' = test, p.to = o, p \in Good(o)
    PROVE  PostInv'
<1>1. MailInv /\ ControlOK /\ SuccessMeansDelivered /\ Main(m) \in Thread
  BY ThreadFacts DEF PostInv
<1>2. MailInv'
  BY <1>1, SendKeeps
<1>3. /\ pc[Main(m)] = "send" /\ UNCHANGED <<test, reem, taken>>
      /\ pc' = [pc EXCEPT ![Main(m)] = "sending"]
  BY DEF SendStart, Runs
<1>4. Main(m) \in {Main(0), Main(1)}
  BY DEF Machine
<1>5. ControlOK' /\ SuccessMeansDelivered'
  BY <1>1, <1>3, <1>4, ThreadKeeps
<1> QED BY <1>2, <1>5 DEF PostInv

(* What each main sends may be sent. *)
LEMMA MayBeSent ==
    ASSUME PostInv
    PROVE  /\ test = "TestWait" => Data.to = 1 /\ Data \in Good(1)
           /\ test = "TestWait" => Resend.to = 0 /\ Resend \in Good(0)
           /\ test = "TestWait" /\ pc[Main(1)] = "send" =>
                 Ack(Last(taken[1])).to = 0 /\ Ack(Last(taken[1])) \in Good(0)
           /\ \A m \in Machine : test = "MailTest" /\ taken[m] = <<>> =>
                 Hello(m).to = 1 - m /\ Hello(m) \in Good(1 - m)
           /\ \A m \in Machine : test = "MailTest" /\ taken[m] # <<>> /\ pc[Main(m)] # "halt" =>
                 Ack(Last(taken[m])).to = 1 - m /\ Ack(Last(taken[m])) \in Good(1 - m)
<1>0. MailInv /\ ControlOK
  BY DEF PostInv
<1>1. \A m \in Machine : taken[m] \in Seq(Good(m))
  BY <1>0 DEF MailInv, GoodMail
<1>2. test = "TestWait" => Data.to = 1 /\ Data \in Good(1)
  BY PacketFields DEF Good, Can
<1>3. test = "TestWait" => Resend.to = 0 /\ Resend \in Good(0)
  BY PacketFields DEF Good, Can
<1>4. ASSUME test = "TestWait", pc[Main(1)] = "send"
      PROVE  Ack(Last(taken[1])).to = 0 /\ Ack(Last(taken[1])) \in Good(0)
  <2>1. taken[1] # <<>> /\ taken[1] \in Seq(Good(1))
    BY <1>0, <1>1, <1>4 DEF ControlOK, Machine
  <2>2. Len(taken[1]) \in Nat \ {0}
    BY <2>1, EmptySeq
  <2>3. Last(taken[1]) \in Good(1)
    BY <2>1, <2>2, ElementOfSeq DEF Last
  <2>4. Last(taken[1]) = Data
    BY <1>4, <2>3, TestWaitMail DEF Good
  <2>5. Ack(Data) \in Good(0)
    BY <1>4, <2>1, PacketFields DEF Good, Can
  <2> QED BY <2>4, <2>5, PacketFields
<1>5. ASSUME NEW m \in Machine, test = "MailTest", taken[m] = <<>>
      PROVE  Hello(m).to = 1 - m /\ Hello(m) \in Good(1 - m)
  BY <1>5, PacketFields, Machines DEF Good, Can
<1>6. ASSUME NEW m \in Machine, test = "MailTest", taken[m] # <<>>, pc[Main(m)] # "halt"
      PROVE  Ack(Last(taken[m])).to = 1 - m /\ Ack(Last(taken[m])) \in Good(1 - m)
  <2>1. Len(taken[m]) <= 1 /\ taken[m][1] = Hello(1 - m)
    BY <1>0, <1>6 DEF ControlOK
  <2>2. Len(taken[m]) \in Nat \ {0}
    BY <1>1, <1>6, EmptySeq
  <2>3. Last(taken[m]) = Hello(1 - m)
    BY <2>1, <2>2 DEF Last
  <2>4. 1 - m \in Machine /\ 1 - (1 - m) = m
    BY Machines
  <2>5. Ack(Hello(1 - m)).to = 1 - m /\ Ack(Hello(1 - m)) \in Good(1 - m)
    BY <1>6, <2>4, PacketFields DEF Good, Can
  <2> QED BY <2>3, <2>5
<1> QED BY <1>2, <1>3, <1>4, <1>5, <1>6
(* Every other step of a thread ends a send, or a delay. *)

LEMMA ThreadStep ==
    ASSUME PostInv, NEW th \in Thread, NEW at, pc' = [pc EXCEPT ![th] = at],
           UNCHANGED <<up, wire, inHdr, carried, boxes, posted, taken, reem, test>>,
           th = Main(0) => pc[th] \in {"send", "sending"} /\ at # "halt",
           th = Main(1) => pc[th] \in {"send", "sending"},
           test = "MailTest" => th \in {Main(0), Main(1)}
    PROVE  PostInv'
<1>1. MailInv'
  BY SameKeeps DEF PostInv, Same
<1>2. ControlOK /\ SuccessMeansDelivered
  BY DEF PostInv
<1>3. ControlOK' /\ SuccessMeansDelivered'
  BY <1>2, ThreadKeeps
<1> QED BY <1>1, <1>3 DEF PostInv

LEMMA ForkKeeps ==
    ASSUME PostInv, Fork, test = "TestWait", test' = test
    PROVE  PostInv'
<1>1. MailInv /\ ControlOK /\ SuccessMeansDelivered
  BY DEF PostInv
<1>2. UNCHANGED <<up, wire, inHdr, carried, boxes, posted, taken, reem, test>>
  BY DEF Fork, networkVars, senderVars, history
<1>3. MailInv'
  BY <1>1, <1>2, SameKeeps DEF Same
<1>4. pc[Main(0)] = "sending"
  BY DEF Fork, SendEnd, Runs
<1>5. reem \in Nat /\ reem < MAXREEMISSIONS
  BY <1>1, <1>4 DEF ControlOK
<1>6. PICK k \in Attempt : k = reem + 1
  BY <1>5, PostOfficeAssumption DEF Attempt
<1>7. pc' = [pc EXCEPT ![Main(0)] = "receive", ![Timer(k)] = "delay"]
  BY <1>6 DEF Fork
<1>8. /\ pc'[Main(0)] = "receive" /\ pc'[Main(1)] = pc[Main(1)]
      /\ pc' = [x \in Thread |-> pc'[x]]
  BY <1>1, <1>7, ThreadFacts DEF ControlOK
<1>9. ControlOK'
  BY <1>1, <1>2, <1>5, <1>8 DEF ControlOK
<1>10. SuccessMeansDelivered'
  BY <1>8 DEF SuccessMeansDelivered
<1> QED BY <1>3, <1>9, <1>10 DEF PostInv

LEMMA HaltKeeps ==
    ASSUME PostInv, NEW m \in Machine, Halt(m), test' = test
    PROVE  PostInv'
<1>1. MailInv /\ ControlOK /\ SuccessMeansDelivered
  BY DEF PostInv
<1>2. /\ up' = [up EXCEPT ![m] = "halted"] /\ wire' = [wire EXCEPT ![m] = <<>>]
      /\ UNCHANGED <<test, inHdr, carried, boxes, posted, taken, pc, reem>>
  BY DEF Halt, officeVars, senderVars, history
<1>3. MailInv'
  BY <1>1, <1>2, DownKeeps
<1>4. ControlOK' /\ SuccessMeansDelivered'
  BY <1>1, <1>2, SameThreads
<1> QED BY <1>3, <1>4 DEF PostInv

LEMMA DevicesKeep ==
    ASSUME PostInv, NEW m \in Machine, DeviceNext(m), test' = test
    PROVE  PostInv'
<1>1. MailInv /\ ControlOK /\ SuccessMeansDelivered
  BY DEF PostInv
<1>2. UNCHANGED <<test, reem, taken, pc>>
  BY DEF DeviceNext, CheckPktAvail, SendDone, Collect, PostalDelivery, senderVars, history
<1>3. ControlOK' /\ SuccessMeansDelivered'
  BY <1>1, <1>2, SameThreads
<1>4. MailInv'
  <2>1. CASE CheckPktAvail(m)
    <3>1. /\ inHdr[m] = <<>> /\ PollSocket(m) /\ ReadFromSocket(m)
          /\ UNCHANGED <<test, up, carried, boxes, posted, taken>>
      BY <2>1 DEF CheckPktAvail, history
    <3> QED BY <1>1, <3>1, PolledKeeps
  <2>2. CASE SendDone(m)
    <3>1. Same
      BY <2>2 DEF SendDone, history, Same
    <3> QED BY <1>1, <3>1, SameKeeps
  <2>3. CASE Collect(m)
    <3>1. /\ carried[m] = <<>> /\ NetworkReceive(m)
          /\ UNCHANGED <<test, up, wire, boxes, posted, taken>>
      BY <2>3 DEF Collect, history
    <3> QED BY <1>1, <3>1, CollectedKeeps
  <2>4. CASE PostalDelivery(m)
    <3>1. /\ up[m] = "up" /\ carried[m] # <<>> /\ Put(m, Head(carried[m]))
          /\ carried' = [carried EXCEPT ![m] = <<>>]
          /\ UNCHANGED <<test, up, wire, inHdr, posted, taken>>
      BY <2>4 DEF PostalDelivery, networkVars, history
    <3> QED BY <1>1, <3>1, DeliveredKeeps
  <2> QED BY <2>1, <2>2, <2>3, <2>4 DEF DeviceNext
<1> QED BY <1>3, <1>4 DEF PostInv
LEMMA TimersKeep ==
    ASSUME PostInv, NEW k \in Attempt, TimerNext(k), test' = test
    PROVE  PostInv'
<1>1. MailInv /\ ControlOK /\ SuccessMeansDelivered
  BY DEF PostInv
<1>2. /\ Timer(k) \in Thread /\ Timer(k) # Main(0) /\ Timer(k) # Main(1)
  BY ThreadFacts
<1>3. pc[Timer(k)] \in {"delay", "resend", "sending"}
  BY DEF TimerNext, Delay, SendStart, Resent, SendEnd, Runs
<1>4. test = "TestWait"
  <2>1. test = "MailTest" => pc[Timer(k)] = "none"
    BY <1>1 DEF ControlOK
  <2>2. test = "TestWait" \/ test = "MailTest"
    BY <1>1 DEF ControlOK
  <2> QED BY <1>3, <2>1, <2>2
<1>5. CASE Delay(k)
  <2>1. /\ UNCHANGED <<up, wire, inHdr, carried, boxes, posted, taken, reem, test>>
        /\ pc' = [pc EXCEPT ![Timer(k)] = "resend"]
    BY <1>5 DEF Delay, networkVars, officeVars, senderVars
  <2> QED BY <1>2, <1>4, <2>1, ThreadStep
<1>6. CASE SendStart(Timer(k), Resend, "resend")
  <2>1. Resend.to = 0 /\ Resend \in Good(0) /\ 0 \in Machine
    BY <1>4, MayBeSent DEF Machine
  <2>2. MailInv'
    BY <1>1, <1>2, <1>6, <2>1, SendKeeps
  <2>3. UNCHANGED <<test, reem, taken>> /\ pc' = [pc EXCEPT ![Timer(k)] = "sending"]
    BY <1>6 DEF SendStart
  <2>4. ControlOK' /\ SuccessMeansDelivered'
    BY <1>1, <1>2, <1>4, <2>3, ThreadKeeps
  <2> QED BY <2>2, <2>4 DEF PostInv
<1>7. CASE Resent(k)
  <2>1. UNCHANGED <<up, wire, inHdr, carried, boxes, posted, taken, reem, test>>
    BY <1>7 DEF Resent, networkVars, history
  <2>2. PICK at : pc' = [pc EXCEPT ![Timer(k)] = at]
    BY <1>7 DEF Resent
  <2> QED BY <1>2, <1>4, <2>1, <2>2, ThreadStep
<1> QED BY <1>5, <1>6, <1>7 DEF TimerNext

LEMMA MainsKeep ==
    ASSUME PostInv, NEW m \in Machine, MainNext(m), test' = test
    PROVE  PostInv'
<1>0. /\ 0 \in Machine /\ 1 \in Machine /\ Main(m) \in {Main(0), Main(1)}
      /\ \A x \in Machine : 1 - x \in Machine
  BY DEF Machine
<1>1. CASE test = "TestWait" /\ m = 0 /\ SenderNext
  <2>1. CASE SendStart(Main(0), Data, "send")
    BY <1>0, <1>1, <2>1, MayBeSent, MainSends
  <2>2. CASE Fork
    BY <1>1, <2>2, ForkKeeps
  <2>3. CASE GetAnswer
    BY <1>1, <2>3, GetAnswerKeeps
  <2>4. CASE Halt(0)
    BY <1>0, <2>4, HaltKeeps
  <2> QED BY <1>1, <2>1, <2>2, <2>3, <2>4 DEF SenderNext
<1>2. CASE test = "TestWait" /\ m = 1 /\ ReceiverNext
  <2>1. CASE GetMessage
    BY <1>2, <2>1, GetMessageKeeps
  <2>2. CASE pc[Main(1)] = "send" /\ SendStart(Main(1), Ack(Last(taken[1])), "send")
    <3>1. Ack(Last(taken[1])).to = 0 /\ Ack(Last(taken[1])) \in Good(0)
      BY <1>2, <2>2, MayBeSent
    <3> QED BY <1>0, <2>2, <3>1, MainSends
  <2>3. CASE Answered
    <3>1. /\ UNCHANGED <<up, wire, inHdr, carried, boxes, posted, taken, reem, test>>
          /\ pc[Main(1)] = "sending" /\ pc' = [pc EXCEPT ![Main(1)] = "halt"]
      BY <2>3 DEF Answered, SendEnd, Runs, networkVars, senderVars, history
    <3> QED BY <1>2, <3>1, ThreadFacts, ThreadStep
  <2>4. CASE Halt(1)
    BY <1>0, <2>4, HaltKeeps
  <2> QED BY <1>2, <2>1, <2>2, <2>3, <2>4 DEF ReceiverNext
<1>3. CASE test = "MailTest" /\ MailNext(m)
  <2>1. CASE MailSend(m)
    <3>1. pc[Main(m)] = "send"
      BY <2>1 DEF MailSend, SendStart, Runs
    <3>2. CASE taken[m] = <<>>
      <4>1. SendStart(Main(m), Hello(m), "send")
        BY <2>1, <3>2 DEF MailSend
      <4>2. Hello(m).to = 1 - m /\ Hello(m) \in Good(1 - m)
        BY <1>3, <3>2, MayBeSent
      <4> QED BY <1>0, <4>1, <4>2, MainSends
    <3>3. CASE taken[m] # <<>>
      <4>1. SendStart(Main(m), Ack(Last(taken[m])), "send")
        BY <2>1, <3>3 DEF MailSend
      <4>2. Ack(Last(taken[m])).to = 1 - m /\ Ack(Last(taken[m])) \in Good(1 - m)
        BY <1>3, <3>1, <3>3, MayBeSent
      <4> QED BY <1>0, <4>1, <4>2, MainSends
    <3> QED BY <3>2, <3>3
  <2>2. CASE MailSent(m)
    <3>1. /\ UNCHANGED <<up, wire, inHdr, carried, boxes, posted, taken, reem, test>>
          /\ pc[Main(m)] = "sending" /\ pc' = [pc EXCEPT ![Main(m)] = "receive"]
      BY <2>2 DEF MailSent, SendEnd, Runs, networkVars, senderVars, history
    <3> QED BY <1>0, <3>1, ThreadFacts, ThreadStep
  <2>3. CASE MailGet(m)
    BY <1>3, <2>3, MailGetKeeps
  <2>4. CASE Halt(m)
    BY <2>4, HaltKeeps
  <2> QED BY <1>3, <2>1, <2>2, <2>3, <2>4 DEF MailNext
<1> QED BY <1>1, <1>2, <1>3 DEF MainNext

LEMMA InitMail ==
    ASSUME PostOfficeInit
    PROVE  PostInv
<1>1. Shapes
  BY DEF PostOfficeInit, Shapes
<1>2. ASSUME NEW m \in Machine PROVE GoodMail(m) /\ OrderOn(m)
  <2>1. /\ wire[m] = <<>> /\ inHdr[m] = <<>> /\ carried[m] = <<>> /\ posted[m] = <<>>
        /\ taken[m] = <<>> /\ \A b \in Box : boxes[m][b] = <<>>
    BY DEF PostOfficeInit
  <2>2. <<>> \in Seq(Good(m)) /\ Len(<<>>) = 0
    BY EmptySeq
  <2>3. GoodMail(m)
    <3>1. ASSUME NEW b \in Box PROVE boxes[m][b] \in Seq({p \in Good(m) : p.box = b})
      <4>1. <<>> \in Seq({p \in Good(m) : p.box = b})
        BY EmptySeq
      <4> QED BY <2>1, <4>1
    <3> QED BY <2>1, <2>2, <3>1 DEF GoodMail
  <2>4. <<>> \o <<>> = <<>>
    BY <2>2, ConcatEmptySeq
  <2>5. \A b \in Box : ForBox(<<>>, b) \o <<>> = ForBox(<<>>, b)
    <3>1. \A b \in Box : ForBox(<<>>, b) \in Seq(Good(m))
      BY <2>2, ForBoxType
    <3> QED BY <3>1, ConcatEmptySeq
  <2>6. InOrder(m, <<>>)
    BY <2>1, <2>4, <2>5 DEF InOrder, OnTheWay
  <2> QED BY <2>2, <2>3, <2>6 DEF OrderOn
<1>3. ControlOK /\ SuccessMeansDelivered
  <2>1. pc[Main(0)] = "send" /\ \A k \in Attempt : pc[Timer(k)] = "none"
    BY ThreadFacts DEF PostOfficeInit
  <2>2. test = "TestWait" => pc[Main(1)] = "receive"
    BY ThreadFacts DEF PostOfficeInit
  <2>3. \A m \in Machine : taken[m] = <<>> /\ Len(<<>>) = 0
    BY EmptySeq DEF PostOfficeInit
  <2>4. test \in {"TestWait", "MailTest"} /\ reem = 0
    BY DEF PostOfficeInit
  <2>5. pc = [th \in Thread |-> pc[th]]
    BY DEF PostOfficeInit
  <2>6. 0 < MAXREEMISSIONS
    BY PostOfficeAssumption
  <2> QED BY <2>1, <2>2, <2>3, <2>4, <2>5, <2>6 DEF ControlOK, SuccessMeansDelivered
<1> QED BY <1>1, <1>2, <1>3 DEF PostInv, MailInv

LEMMA PostInvStep ==
    ASSUME PostInv, [PostOfficeNext]_poVars
    PROVE  PostInv'
<1>1. CASE PostOfficeNext
  <2>0. test' = test
    BY <1>1 DEF PostOfficeNext
  <2>1. CASE \E m \in Machine : DeviceNext(m) \/ MainNext(m)
    BY <2>0, <2>1, DevicesKeep, MainsKeep
  <2>2. CASE \E k \in Attempt : TimerNext(k)
    BY <2>0, <2>2, TimersKeep
  <2> QED BY <1>1, <2>1, <2>2 DEF PostOfficeNext
<1>2. CASE UNCHANGED poVars
  <2>1. UNCHANGED <<test, up, wire, inHdr, carried, boxes, posted, taken, pc, reem>>
    BY <1>2 DEF poVars, networkVars, officeVars, senderVars, history
  <2>2. MailInv'
    BY <2>1, SameKeeps DEF PostInv, Same
  <2>3. ControlOK' /\ SuccessMeansDelivered'
    BY <2>1, SameThreads DEF PostInv
  <2> QED BY <2>2, <2>3 DEF PostInv
<1> QED BY <1>1, <1>2

(* The prefix that MailInv speaks of is what arrived. *)
LEMMA PostInvImplies == PostInv => MailInOrderOnce
<1> SUFFICES ASSUME PostInv, NEW m \in Machine, up[m] = "up"
             PROVE  /\ posted[m] = Arrived(m) \o OnTheWay(m)
                    /\ \A b \in Box : ForBox(Arrived(m), b) = ForBox(taken[m], b) \o boxes[m][b]
  BY DEF MailInOrderOnce
<1>1. GoodMail(m) /\ OrderOn(m)
  BY DEF PostInv, MailInv
<1>2. PICK pre \in Seq(Good(m)) : InOrder(m, pre)
  BY <1>1 DEF OrderOn
<1>3. PICK way \in Seq(Good(m)) : way = OnTheWay(m)
  BY <1>1, OnTheWayType
<1>4. SubSeq(pre \o way, 1, Len(pre \o way) - Len(way)) = pre
  BY PrefixOfConcat
<1>5. Arrived(m) = pre
  BY <1>2, <1>3, <1>4 DEF Arrived, InOrder
<1> QED BY <1>2, <1>5 DEF InOrder

(* Whatever is lost and however the machines, their devices and the threads *)
(* that resend are interleaved, the packets that come to the socket of a    *)
(* machine that is up go to their mailboxes, and from there to main, once   *)
(* and in their order (CheckPktAvail, PostalDelivery, MailBox::Put/Get).    *)
THEOREM MailInOrderOnceProved == PostOfficeSpec => []MailInOrderOnce
<1>1. PostOfficeInit => PostInv
  BY InitMail
<1>2. PostInv /\ [PostOfficeNext]_poVars => PostInv'
  BY PostInvStep
<1>3. PostInv => MailInOrderOnce
  BY PostInvImplies
<1> QED BY <1>1, <1>2, <1>3, PTL DEF PostOfficeSpec

(* ReliableSend ends with the acknowledgement of a message that the other   *)
(* machine took, or after MAXREEMISSIONS attempts; in MailTest machine 0    *)
(* halts only with an answer to the message it sent.                        *)
THEOREM SuccessMeansDeliveredProved == PostOfficeSpec => []SuccessMeansDelivered
<1>1. PostOfficeInit => PostInv
  BY InitMail
<1>2. PostInv /\ [PostOfficeNext]_poVars => PostInv'
  BY PostInvStep
<1>3. PostInv => SuccessMeansDelivered
  BY DEF PostInv
<1> QED BY <1>1, <1>2, <1>3, PTL DEF PostOfficeSpec
=============================================================================
