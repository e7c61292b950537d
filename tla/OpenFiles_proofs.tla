-------------------------- MODULE OpenFiles_proofs --------------------------
(***************************************************************************)
(* Proofs about OpenFiles: a file has one entry in the table, and reads    *)
(* and writes move the bytes they were asked to, for every number of       *)
(* threads, files and table entries, every sector size and file length,    *)
(* and every sequence of operations.                                       *)
(*                                                                         *)
(* Steps are first sorted into a few cases by their effect (StepCases), on *)
(* which the three inductive invariants are proved: TypeInv (where each    *)
(* operation stands), TableInv and MoveInv.                                *)
(***************************************************************************)
EXTENDS OpenFiles, FiniteSetTheorems, WellFoundedInduction, TLAPS

(* A finite, nonempty set of integers has a smallest element. *)
LEMMA MinInt ==
    ASSUME NEW S, S \subseteq Int, S # {}, IsFiniteSet(S)
    PROVE  Min(S) \in S /\ \A y \in S : Min(S) <= y
<1> DEFINE Below(x) == {y \in S : y <= x}
           T == {Below(x) : x \in S}
<1>1. \E u \in T : \A v \in T : ~(<<v, u>> \in StrictSubsetOrdering(S))
  <2>0. FiniteSubsetsOf(S) = SUBSET S
    BY FS_FiniteSubsetsOfFinite
  <2>1. T \subseteq SUBSET S /\ T # {}
    OBVIOUS
  <2>2. IsWellFoundedOn(StrictSubsetOrdering(S), FiniteSubsetsOf(S))
    BY FS_StrictSubsetOrderingWellFounded
  <2>3. T \subseteq FiniteSubsetsOf(S)
    BY <2>0, <2>1
  <2> HIDE DEF T
  <2> QED BY <2>1, <2>2, <2>3, WFMin
<1>2. PICK x \in S : \A z \in S : ~(<<Below(z), Below(x)>> \in StrictSubsetOrdering(S))
  BY <1>1
<1>3. ASSUME NEW z \in S, ~(x <= z) PROVE FALSE
  <2>1. Below(z) \subseteq Below(x) /\ Below(z) # Below(x)
    <3>1. z \in Int /\ x \in Int /\ z < x
      BY <1>3
    <3>2. x \in Below(x) /\ x \notin Below(z)
      BY <3>1
    <3>3. \A y \in S : y <= z => y <= x
      BY <3>1
    <3> QED BY <3>2, <3>3
  <2>2. <<Below(z), Below(x)>> \in StrictSubsetOrdering(S)
    BY <2>1 DEF StrictSubsetOrdering
  <2> QED BY <1>2, <2>2
<1>4. \A y \in S : x <= y
  BY <1>3
<1> QED BY <1>4 DEF Min

LEMMA MinPair ==
    ASSUME NEW x \in Int, NEW y \in Int
    PROVE  Min({x, y}) \in {x, y} /\ Min({x, y}) <= x /\ Min({x, y}) <= y
<1>1. CASE x <= y
  BY <1>1 DEF Min
<1>2. CASE y <= x
  BY <1>2 DEF Min
<1> QED BY <1>1, <1>2

(* Sectors and the bytes in them. *)
LEMMA SectorBounds ==
    ASSUME NEW b \in Nat
    PROVE  /\ SectorOf(b) \in Nat
           /\ SectorOf(b) * SectorSize <= b
           /\ b < (SectorOf(b) + 1) * SectorSize
BY OpenFilesAssumption DEF SectorOf

LEMMA Mono ==
    ASSUME NEW x \in Nat, NEW y \in Nat, x <= y
    PROVE  x * SectorSize <= y * SectorSize /\ x * SectorSize \in Nat /\ y * SectorSize \in Nat
BY OpenFilesAssumption

LEMMA InSector ==
    ASSUME NEW b \in Nat, NEW s \in Nat
    PROVE  b \in BytesOf(s) <=> SectorOf(b) = s
<1>1. CASE SectorOf(b) = s
  BY <1>1, SectorBounds, OpenFilesAssumption DEF BytesOf
<1>2. CASE SectorOf(b) + 1 <= s
  <2>1. (SectorOf(b) + 1) * SectorSize <= s * SectorSize
    BY <1>2, SectorBounds, Mono
  <2> QED BY <1>2, <2>1, SectorBounds, OpenFilesAssumption DEF BytesOf
<1>3. CASE s + 1 <= SectorOf(b)
  <2>1. (s + 1) * SectorSize <= SectorOf(b) * SectorSize
    BY <1>3, SectorBounds, Mono
  <2> QED BY <1>3, <2>1, SectorBounds, OpenFilesAssumption DEF BytesOf
<1> QED BY <1>1, <1>2, <1>3, SectorBounds

LEMMA SectorMono ==
    ASSUME NEW a \in Nat, NEW n \in Nat, n > 0
    PROVE  SectorOf(a) <= SectorOf(a + n - 1)
<1>1. a + n - 1 \in Nat /\ a <= a + n - 1
  OBVIOUS
<1>2. PICK c \in Nat : c = a + n - 1
  BY <1>1
<1>3. ASSUME SectorOf(c) + 1 <= SectorOf(a) PROVE FALSE
  <2>1. (SectorOf(c) + 1) * SectorSize <= SectorOf(a) * SectorSize
    BY <1>3, SectorBounds, Mono
  <2> QED BY <1>1, <1>2, <2>1, SectorBounds, OpenFilesAssumption
<1> QED BY <1>2, <1>3, SectorBounds

-----------------------------------------------------------------------------
(* Types. *)

Byte  == 0..LastByte
Place == {"idle", "fetchDirectory", "fetchHeader", "read", "fetch", "write", "finish"}
Entry == [file : File, mode : {"r", "w"}, seek : Nat, alive : BOOLEAN]
Local == [kind : {"none", "open", "read", "write"}, file : File \cup {NoFile},
          mode : {"r", "w"}, id : Nat, first : Nat, n : Nat, buf : {<<>>} \cup [Byte -> Int],
          fetch : Seq(Nat), next : Nat, last : Int, val : Nat,
          before : {<<>>} \cup [Byte -> Int], alone : BOOLEAN]

OFTypeOK ==
    /\ data \in [File -> [Byte -> Int]]
    /\ heap \in Seq(Entry)
    /\ table \in [Index -> Int]
    /\ \A i \in Index : table[i] \in {None, Wild} \/ table[i] \in 1..Len(heap)
    /\ pc \in [Thread -> Place]
    /\ l \in [Thread -> Local]
    /\ ops \in Nat

(* What an operation under way is about. *)
Moving(t) ==
    /\ l[t].file \in File /\ l[t].id \in 1..Len(heap)
    /\ l[t].n > 0 /\ l[t].first + l[t].n <= FileLength
    /\ l[t].last = SectorOf(l[t].first + l[t].n - 1)
    /\ SectorOf(l[t].first) <= l[t].next
    /\ l[t].buf \in [Byte -> Int] /\ l[t].before \in [Byte -> Int]
    /\ pc[t] = "finish" => l[t].next = l[t].last + 1 /\ l[t].kind \in {"read", "write"}
    /\ pc[t] # "finish" => l[t].next <= l[t].last
    /\ pc[t] = "read" => l[t].kind = "read"
    /\ pc[t] = "fetch" => l[t].next = SectorOf(l[t].first)
    /\ pc[t] \in {"fetch", "write"} => l[t].kind = "write"
    /\ pc[t] # "fetch" => l[t].fetch = <<>>

PlaceOK ==
    \A t \in Thread : /\ pc[t] = "fetchHeader" => l[t].file \in File
                      /\ t \in Transferring => Moving(t)

TypeInv == OFTypeOK /\ PlaceOK

LEMMA NoOpLocal == NoOp \in Local
BY DEF NoOp, Local, None

LEMMA InitType == OpenFilesInit => TypeInv
<1> SUFFICES ASSUME OpenFilesInit PROVE TypeInv
  OBVIOUS
<1>1. NoOp \in Local
  BY NoOpLocal
<1>2. OFTypeOK
  BY <1>1, OpenFilesAssumption DEF OpenFilesInit, OFTypeOK, Byte, Place, None, Wild
<1>3. PlaceOK
  BY DEF OpenFilesInit, PlaceOK, Transferring
<1> QED BY <1>2, <1>3 DEF TypeInv

(* Steps on the table, and on one thread. *)
LEMMA StartOp ==
    ASSUME TypeInv, NEW kind \in {"read", "write"}, NEW i \in Index, NEW n \in Int,
           table[i] > None, NEW o, o = Operation(kind, i, n), o.n > 0
    PROVE  /\ o \in Local /\ o.kind = kind
           /\ o.file \in File /\ o.id \in 1..Len(heap) /\ o.first + o.n <= FileLength
           /\ o.buf = [b \in Byte |-> Garbage] /\ o.before = data[o.file]
           /\ o.fetch = <<>> /\ o.next = SectorOf(o.first)
           /\ o.last = SectorOf(o.first + o.n - 1)
<1> DEFINE e == heap[table[i]]
           m == Clipped(e.seek, n)
<1>1. table[i] \in 1..Len(heap)
  BY DEF TypeInv, OFTypeOK, None, Wild
<1>2. e \in Entry
  BY <1>1 DEF TypeInv, OFTypeOK
<1>3. /\ e.file \in File /\ e.seek \in Nat /\ e.mode \in {"r", "w"}
      /\ data[e.file] \in [Byte -> Int]
  BY <1>2 DEF Entry, TypeInv, OFTypeOK
<1>4. m \in Nat /\ m > 0 /\ e.seek + m <= FileLength
  <2>1. ~(n <= 0 \/ e.seek >= FileLength) /\ m = Min({n, FileLength - e.seek})
    BY <1>3, OpenFilesAssumption DEF Clipped, Operation
  <2> HIDE DEF m, e
  <2>2. m \in {n, FileLength - e.seek} /\ m <= n /\ m <= FileLength - e.seek
    <3>1. n \in Int /\ FileLength - e.seek \in Int
      BY <1>3, OpenFilesAssumption
    <3> QED BY <2>1, <3>1, MinPair
  <2> QED BY <1>3, <2>1, <2>2, OpenFilesAssumption
<1>5. SectorOf(e.seek) \in Nat /\ SectorOf(e.seek + m - 1) \in Nat
  <2>1. e.seek + m - 1 \in Nat
    BY <1>3, <1>4
  <2> QED BY <1>3, <2>1, SectorBounds
<1>6. o =
        [kind |-> kind, file |-> e.file, mode |-> e.mode, id |-> table[i], first |-> e.seek,
         n |-> m, buf |-> [b \in Byte |-> Garbage], fetch |-> <<>>, next |-> SectorOf(e.seek),
         last |-> SectorOf(e.seek + m - 1), val |-> 0, before |-> data[e.file], alone |-> TRUE]
  BY Zenon DEF Operation, Byte
<1>7. [b \in Byte |-> Garbage] \in [Byte -> Int]
  BY DEF Garbage
<1> HIDE DEF e, m
<1> QED
  BY <1>1, <1>3, <1>4, <1>5, <1>6, <1>7 DEF Local

(* Locals that differ at most in whether the operation is alone. *)
SameOp(o, p) ==
    /\ o.kind = p.kind /\ o.file = p.file /\ o.id = p.id /\ o.first = p.first /\ o.n = p.n
    /\ o.buf = p.buf /\ o.fetch = p.fetch /\ o.next = p.next /\ o.last = p.last
    /\ o.val = p.val /\ o.before = p.before

LEMMA OthersMove ==
    ASSUME PlaceOK, NEW u \in Thread, pc'[u] = pc[u], SameOp(l'[u], l[u]),
           Len(heap) \in Nat, Len(heap') \in Nat, Len(heap) <= Len(heap')
    PROVE  /\ pc'[u] = "fetchHeader" => l'[u].file \in File
           /\ u \in Transferring' => Moving(u)'
<1>1. u \in Transferring' => Moving(u)
  BY DEF PlaceOK, Transferring
<1>2. Moving(u) => Moving(u)'
  BY DEF Moving, SameOp
<1> QED BY <1>1, <1>2 DEF PlaceOK, SameOp

LEMMA SameSame == \A o : SameOp(o, o)
BY DEF SameOp

(* The effect of Start. *)
LEMMA StartEffect ==
    ASSUME TypeInv, NEW t \in Thread, NEW o \in Local, NEW where \in {"read", "fetch"},
           Start(t, o, where)
    PROVE  /\ pc[t] = "idle" /\ pc' = [pc EXCEPT ![t] = where]
           /\ UNCHANGED <<data, heap, table, nbFiles, lock, stopped>>
           /\ l' \in [Thread -> Local]
           /\ SameOp(l'[t], o)
           /\ \A u \in Thread \ {t} : SameOp(l'[u], l[u])
           /\ l'[t].alone <=> \A u \in Transferring : ~Overlap(o, l[u])
           /\ \A u \in Transferring \ {t} : l'[u].alone <=> l[u].alone /\ ~Overlap(o, l[u])
<1> DEFINE others == {u \in Transferring : Overlap(o, l[u])}
           mine == [o EXCEPT !.alone = (others = {})]
<1>1. /\ pc[t] = "idle" /\ pc' = [pc EXCEPT ![t] = where]
      /\ UNCHANGED <<data, heap, table, nbFiles, lock, stopped>>
      /\ l' = [u \in Thread |->
                 CASE u = t -> mine
                   [] u \in others -> [l[u] EXCEPT !.alone = FALSE]
                   [] OTHER -> l[u]]
  BY Zenon DEF Start, Goto
<1> HIDE DEF others, mine
<1>0. t \notin others
  BY <1>1 DEF others, Transferring
<1>2. l'[t] = mine
  BY <1>0, <1>1
<1>3. l'[t] \in Local /\ SameOp(l'[t], o) /\ (l'[t].alone <=> others = {})
  <2>1. CASE others = {}
    <3>1. l'[t] = [o EXCEPT !.alone = TRUE]
      BY <1>2, <2>1 DEF mine
    <3> QED BY <2>1, <3>1 DEF Local, SameOp
  <2>2. CASE others # {}
    <3>1. l'[t] = [o EXCEPT !.alone = FALSE]
      BY <1>2, <2>2 DEF mine
    <3> QED BY <2>2, <3>1 DEF Local, SameOp
  <2> QED BY <2>1, <2>2
<1>4. \A u \in Thread : l[u] \in Local
  BY DEF TypeInv, OFTypeOK
<1>5. ASSUME NEW u \in Thread \ {t}
      PROVE  /\ l'[u] \in Local /\ SameOp(l'[u], l[u])
             /\ l'[u].alone <=> l[u].alone /\ u \notin others
  <2>1. CASE u \in others
    <3>1. l'[u] = [l[u] EXCEPT !.alone = FALSE]
      BY <1>1, <1>5, <2>1
    <3> QED BY <1>4, <1>5, <2>1, <3>1 DEF Local, SameOp
  <2>2. CASE u \notin others
    <3>1. l'[u] = l[u]
      BY <1>1, <1>5, <2>2
    <3> QED BY <1>4, <1>5, <2>2, <3>1, SameSame
  <2> QED BY <2>1, <2>2
<1>6. l' \in [Thread -> Local]
  <2>1. \A u \in Thread : l'[u] \in Local
    BY <1>3, <1>5
  <2> QED BY <1>1, <2>1
<1> QED BY <1>1, <1>3, <1>5, <1>6 DEF others, Transferring

(* The effect of the steps that move a sector: the operation stays what it   *)
(* is, and the other threads keep their locals.                              *)
SameRequest(o, p) ==
    /\ o.kind = p.kind /\ o.file = p.file /\ o.id = p.id /\ o.first = p.first /\ o.n = p.n
    /\ o.last = p.last /\ o.val = p.val /\ o.before = p.before /\ (o.alone <=> p.alone)

LEMMA ReadEffect ==
    ASSUME TypeInv, NEW t \in Thread, ReadSector(t)
    PROVE  /\ pc[t] = "read" /\ Moving(t)
           /\ pc' = [pc EXCEPT ![t] = IF l[t].next = l[t].last THEN "finish" ELSE "read"]
           /\ UNCHANGED <<data, heap, table, nbFiles, lock, stopped, ops>>
           /\ l' \in [Thread -> Local] /\ \A u \in Thread \ {t} : l'[u] = l[u]
           /\ SameRequest(l'[t], l[t]) /\ l'[t].fetch = l[t].fetch
           /\ l'[t].next = l[t].next + 1
           /\ l'[t].buf = [b \in Byte |-> IF b \in BytesOf(l[t].next) THEN data[l[t].file][b]
                                                                     ELSE l[t].buf[b]]
<1> DEFINE B == [b \in Byte |-> IF b \in BytesOf(l[t].next) THEN data[l[t].file][b]
                                                           ELSE l[t].buf[b]]
<1>1. /\ pc[t] = "read"
      /\ pc' = [pc EXCEPT ![t] = IF l[t].next = l[t].last THEN "finish" ELSE "read"]
      /\ UNCHANGED <<data, heap, table, nbFiles, lock, stopped, ops>>
  BY DEF ReadSector, Goto
<1>2. Moving(t)
  BY <1>1 DEF TypeInv, PlaceOK, Transferring
<1>0. l \in [Thread -> Local]
  BY DEF TypeInv, OFTypeOK
<1>3. l[t] \in Local /\ data[l[t].file] \in [Byte -> Int]
  BY <1>2 DEF TypeInv, OFTypeOK, Moving
<1>4. B \in [Byte -> Int]
  BY <1>2, <1>3 DEF Moving
<1>5. l' = [l EXCEPT ![t] = [l[t] EXCEPT !.buf = B, !.next = l[t].next + 1]]
  BY <1>0, <1>3 DEF ReadSector, Byte, Local
<1> HIDE DEF B
<1>6. l'[t] = [l[t] EXCEPT !.buf = B, !.next = l[t].next + 1]
  BY <1>0, <1>5
<1>7. /\ l'[t] \in Local /\ SameRequest(l'[t], l[t]) /\ l'[t].fetch = l[t].fetch
      /\ l'[t].next = l[t].next + 1 /\ l'[t].buf = B
  <2>0. PICK k \in Nat : k = l[t].next + 1
    BY <1>3 DEF Local
  <2>1. l'[t] \in Local
    <3>1. l'[t] = [l[t] EXCEPT !.buf = B, !.next = k]
      BY <1>6, <2>0
    <3> QED BY <1>3, <1>4, <3>1 DEF Local
  <2>2. SameRequest(l'[t], l[t])
    BY <1>3, <1>6 DEF Local, SameRequest
  <2>3. l'[t].fetch = l[t].fetch /\ l'[t].next = l[t].next + 1 /\ l'[t].buf = B
    BY <1>3, <1>6 DEF Local
  <2> QED BY <2>1, <2>2, <2>3
<1>8. l' \in [Thread -> Local] /\ \A u \in Thread \ {t} : l'[u] = l[u]
  BY <1>0, <1>5, <1>7
<1> QED BY <1>1, <1>2, <1>7, <1>8 DEF B

LEMMA TailSeq ==
    ASSUME NEW s \in Seq(Nat), s # <<>>
    PROVE  Tail(s) \in Seq(Nat) /\ Head(s) \in Nat /\ Len(Tail(s)) = Len(s) - 1
OBVIOUS

LEMMA FetchEffect ==
    ASSUME TypeInv, NEW t \in Thread, FetchSector(t)
    PROVE  /\ pc[t] = "fetch" /\ Moving(t) /\ pc' = pc /\ l[t].fetch # <<>>
           /\ UNCHANGED <<data, heap, table, nbFiles, lock, stopped, ops>>
           /\ l' \in [Thread -> Local] /\ \A u \in Thread \ {t} : l'[u] = l[u]
           /\ SameRequest(l'[t], l[t]) /\ l'[t].fetch = Tail(l[t].fetch)
           /\ l'[t].next = l[t].next
           /\ l'[t].buf = [b \in Byte |-> IF b \in InFile(BytesOf(Head(l[t].fetch)))
                                          THEN data[l[t].file][b] ELSE l[t].buf[b]]
<1> DEFINE B == [b \in Byte |-> IF b \in InFile(BytesOf(Head(l[t].fetch)))
                                THEN data[l[t].file][b] ELSE l[t].buf[b]]
<1>1. /\ pc[t] = "fetch" /\ l[t].fetch # <<>> /\ pc' = pc
      /\ UNCHANGED <<data, heap, table, nbFiles, lock, stopped, ops>>
  BY DEF FetchSector, Goto, TypeInv, OFTypeOK
<1>2. Moving(t)
  BY <1>1 DEF TypeInv, PlaceOK, Transferring
<1>0. l \in [Thread -> Local]
  BY DEF TypeInv, OFTypeOK
<1>3. l[t] \in Local /\ data[l[t].file] \in [Byte -> Int]
  BY <1>2 DEF TypeInv, OFTypeOK, Moving
<1>4. B \in [Byte -> Int]
  BY <1>2, <1>3 DEF Moving
<1>5. l' = [l EXCEPT ![t] = [l[t] EXCEPT !.buf = B, !.fetch = Tail(l[t].fetch)]]
  BY <1>0, <1>3 DEF FetchSector, Byte, Local
<1> HIDE DEF B
<1>6. l'[t] = [l[t] EXCEPT !.buf = B, !.fetch = Tail(l[t].fetch)]
  BY <1>0, <1>5
<1>7. /\ l'[t] \in Local /\ SameRequest(l'[t], l[t]) /\ l'[t].fetch = Tail(l[t].fetch)
      /\ l'[t].next = l[t].next /\ l'[t].buf = B
  <2>0. PICK s \in Seq(Nat) : s = Tail(l[t].fetch)
    <3>1. l[t].fetch \in Seq(Nat)
      BY <1>3 DEF Local
    <3>2. Tail(l[t].fetch) \in Seq(Nat)
      BY <1>1, <3>1, TailSeq
    <3> QED BY <3>2
  <2>1. l'[t] \in Local
    <3>1. l'[t] = [l[t] EXCEPT !.buf = B, !.fetch = s]
      BY <1>6, <2>0
    <3> QED BY <1>3, <1>4, <3>1 DEF Local
  <2>2. SameRequest(l'[t], l[t])
    BY <1>3, <1>6 DEF Local, SameRequest
  <2>3. l'[t].fetch = Tail(l[t].fetch) /\ l'[t].next = l[t].next /\ l'[t].buf = B
    BY <1>3, <1>6 DEF Local
  <2> QED BY <2>1, <2>2, <2>3
<1>8. l' \in [Thread -> Local] /\ \A u \in Thread \ {t} : l'[u] = l[u]
  BY <1>0, <1>5, <1>7
<1> QED BY <1>1, <1>2, <1>7, <1>8 DEF B

LEMMA WriteEffect ==
    ASSUME TypeInv, NEW t \in Thread, WriteSector(t)
    PROVE  /\ pc[t] \in {"fetch", "write"} /\ Moving(t) /\ l[t].fetch = <<>>
           /\ pc' = [pc EXCEPT ![t] = IF l[t].next = l[t].last THEN "finish" ELSE "write"]
           /\ UNCHANGED <<heap, table, nbFiles, lock, stopped, ops>>
           /\ data' \in [File -> [Byte -> Int]]
           /\ \A f \in File : \A b \in Byte :
                 data'[f][b] = IF f = l[t].file /\ b \in BytesOf(l[t].next)
                               THEN Copied(l[t])[b] ELSE data[f][b]
           /\ l' \in [Thread -> Local] /\ \A u \in Thread \ {t} : l'[u] = l[u]
           /\ SameRequest(l'[t], l[t]) /\ l'[t].fetch = l[t].fetch
           /\ l'[t].next = l[t].next + 1
           /\ l'[t].buf = Copied(l[t])
<1> DEFINE B == Copied(l[t])
           D == [b \in Byte |-> IF b \in BytesOf(l[t].next) THEN B[b] ELSE data[l[t].file][b]]
<1>1. /\ pc[t] \in {"fetch", "write"} /\ l[t].fetch = <<>>
      /\ pc' = [pc EXCEPT ![t] = IF l[t].next = l[t].last THEN "finish" ELSE "write"]
      /\ UNCHANGED <<heap, table, nbFiles, lock, stopped, ops>>
  BY DEF WriteSector, Goto
<1>2. Moving(t)
  BY <1>1 DEF TypeInv, PlaceOK, Transferring
<1>0. l \in [Thread -> Local]
  BY DEF TypeInv, OFTypeOK
<1>3. /\ l[t] \in Local /\ data[l[t].file] \in [Byte -> Int]
      /\ data \in [File -> [Byte -> Int]] /\ l[t].file \in File
  BY <1>2 DEF TypeInv, OFTypeOK, Moving
<1>4. B \in [Byte -> Int]
  <2>1. l[t].val \in Int /\ l[t].buf \in [Byte -> Int]
    BY <1>2, <1>3 DEF Moving, Local
  <2> QED BY <2>1 DEF Copied, Byte
<1> HIDE DEF B
<1>5. l' = [l EXCEPT ![t] = [l[t] EXCEPT !.buf = B, !.next = l[t].next + 1]]
  <2>1. l' = [l EXCEPT ![t].buf = B, ![t].next = @ + 1]
    BY DEF WriteSector, B
  <2> QED BY <1>0, <1>3, <2>1 DEF Local
<1>6. l'[t] = [l[t] EXCEPT !.buf = B, !.next = l[t].next + 1]
  BY <1>0, <1>5
<1>7. /\ l'[t] \in Local /\ SameRequest(l'[t], l[t]) /\ l'[t].fetch = l[t].fetch
      /\ l'[t].next = l[t].next + 1 /\ l'[t].buf = B
  <2>0. PICK k \in Nat : k = l[t].next + 1
    BY <1>3 DEF Local
  <2>1. l'[t] \in Local
    <3>1. l'[t] = [l[t] EXCEPT !.buf = B, !.next = k]
      BY <1>6, <2>0
    <3> QED BY <1>3, <1>4, <3>1 DEF Local
  <2>2. SameRequest(l'[t], l[t])
    BY <1>3, <1>6 DEF Local, SameRequest
  <2>3. l'[t].fetch = l[t].fetch /\ l'[t].next = l[t].next + 1 /\ l'[t].buf = B
    BY <1>3, <1>6 DEF Local
  <2> QED BY <2>1, <2>2, <2>3
<1>8. l' \in [Thread -> Local] /\ \A u \in Thread \ {t} : l'[u] = l[u]
  BY <1>0, <1>5, <1>7
<1>9. data' = [data EXCEPT ![l[t].file] = D]
  BY DEF WriteSector, B, Byte
<1>10. D \in [Byte -> Int]
  BY <1>3, <1>4
<1>11. data' \in [File -> [Byte -> Int]]
  BY <1>3, <1>9, <1>10
<1>12. ASSUME NEW f \in File, NEW b \in Byte
       PROVE  data'[f][b] = IF f = l[t].file /\ b \in BytesOf(l[t].next)
                            THEN B[b] ELSE data[f][b]
  <2>1. CASE f = l[t].file
    <3>1. data'[f] = D
      BY <1>3, <1>9, <2>1
    <3> QED BY <2>1, <3>1
  <2>2. CASE f # l[t].file
    BY <1>3, <1>9, <2>2
  <2> QED BY <2>1, <2>2
<1> QED BY <1>1, <1>2, <1>7, <1>8, <1>11, <1>12 DEF B

LEMMA FinishEffect ==
    ASSUME TypeInv, NEW t \in Thread, Finish(t)
    PROVE  /\ pc[t] = "finish" /\ pc' = [pc EXCEPT ![t] = "idle"]
           /\ UNCHANGED <<data, table, nbFiles, lock, stopped, ops>>
           /\ l' \in [Thread -> Local] /\ \A u \in Thread \ {t} : l'[u] = l[u]
           /\ heap' \in Seq(Entry) /\ Len(heap') = Len(heap)
           /\ \A x \in 1..Len(heap) : heap'[x].file = heap[x].file
<1>1. /\ pc[t] = "finish" /\ pc' = [pc EXCEPT ![t] = "idle"]
      /\ UNCHANGED <<data, table, nbFiles, lock, stopped, ops>>
      /\ l' = [l EXCEPT ![t] = NoOp]
      /\ heap' = [heap EXCEPT ![l[t].id].seek = @ + l[t].n]
  BY DEF Finish, Goto
<1>2. Moving(t)
  BY <1>1 DEF TypeInv, PlaceOK, Transferring
<1>3. l \in [Thread -> Local] /\ NoOp \in Local
  BY NoOpLocal DEF TypeInv, OFTypeOK
<1>4. l[t].id \in 1..Len(heap) /\ l[t].n \in Nat /\ heap \in Seq(Entry)
  BY <1>2, <1>3 DEF TypeInv, OFTypeOK, Moving, Local
<1>5. PICK e \in Entry : e = heap[l[t].id]
  BY <1>4
<1>6. PICK f \in Entry : f = [e EXCEPT !.seek = @ + l[t].n]
  <2>1. PICK k \in Nat : k = e.seek + l[t].n
    BY <1>4 DEF Entry
  <2>2. [e EXCEPT !.seek = k] \in Entry
    BY DEF Entry
  <2> QED BY <2>1, <2>2 DEF Entry
<1>7. heap' = [heap EXCEPT ![l[t].id] = f] /\ f.file = e.file
  BY <1>1, <1>4, <1>5, <1>6 DEF Entry
<1>8. heap' \in Seq(Entry) /\ Len(heap') = Len(heap)
  BY <1>4, <1>7
<1>9. \A x \in 1..Len(heap) : heap'[x].file = heap[x].file
  BY <1>4, <1>5, <1>7
<1> QED BY <1>1, <1>3, <1>8, <1>9

(* What the steps other than these can do. *)
Quiet == UNCHANGED <<data, heap, table, nbFiles, pc, l>>

Opening(t) ==
    /\ UNCHANGED <<data, heap, table, nbFiles>>
    /\ pc[t] \in {"idle", "fetchDirectory"}
    /\ \E to \in {"fetchDirectory", "fetchHeader", "idle"} :
          /\ pc' = [pc EXCEPT ![t] = to]
          /\ to = "fetchHeader" => l'[t].file \in File
    /\ l' \in [Thread -> Local] /\ \A u \in Thread \ {t} : l'[u] = l[u]

Closing(i) ==
    /\ table[i] > None
    /\ nbFiles' = nbFiles - 1
    /\ table' = [table EXCEPT ![i] = None]
    /\ heap' \in Seq(Entry) /\ Len(heap') = Len(heap)
    /\ \A x \in 1..Len(heap) : heap'[x].file = heap[x].file
    /\ UNCHANGED <<data, pc, l>>

(* A request to read or write as Operation makes it. *)
Requested(o, kind) ==
    /\ o.kind = kind /\ o.file \in File /\ o.id \in 1..Len(heap)
    /\ o.n > 0 /\ o.first + o.n <= FileLength
    /\ o.buf = [b \in Byte |-> Garbage] /\ o.before = data[o.file]
    /\ o.next = SectorOf(o.first) /\ o.last = SectorOf(o.first + o.n - 1)
    /\ o.fetch = IF kind = "write" THEN PartialSectors(o) ELSE <<>>

LEMMA OpenCases ==
    ASSUME TypeInv, NEW t \in Thread, NEW f \in File \cup {NoFile}, NEW mode \in {"r", "w"},
           Open(t, f, mode)
    PROVE  Opening(t) /\ ops' \in Nat
<1> DEFINE o == [NoOp EXCEPT !.kind = "open", !.file = f, !.mode = mode]
<1>1. /\ pc[t] = "idle" /\ pc' = [pc EXCEPT ![t] = "fetchDirectory"] /\ ops' = ops + 1
      /\ UNCHANGED <<data, heap, table, nbFiles>>
      /\ l' = [l EXCEPT ![t] = o]
  BY DEF Open, Begin, Goto
<1>2. o \in Local
  <2>1. PICK x \in Local : x = NoOp
    BY NoOpLocal
  <2>2. PICK y \in Local : y = [x EXCEPT !.kind = "open"]
    <3>1. [x EXCEPT !.kind = "open"] \in Local
      BY DEF Local
    <3> QED BY <3>1
  <2>3. PICK z \in Local : z = [y EXCEPT !.file = f]
    <3>1. [y EXCEPT !.file = f] \in Local
      BY DEF Local
    <3> QED BY <3>1
  <2>4. [z EXCEPT !.mode = mode] \in Local
    BY DEF Local
  <2>5. o = [[[x EXCEPT !.kind = "open"] EXCEPT !.file = f] EXCEPT !.mode = mode]
    BY <2>1
  <2> QED BY <2>2, <2>3, <2>4, <2>5
<1>3. l \in [Thread -> Local] /\ ops \in Nat
  BY DEF TypeInv, OFTypeOK
<1> HIDE DEF o
<1>4. l' \in [Thread -> Local] /\ \A u \in Thread \ {t} : l'[u] = l[u]
  BY <1>1, <1>2, <1>3
<1> QED BY <1>1, <1>3, <1>4 DEF Opening

LEMMA FetchDirectoryCases ==
    ASSUME TypeInv, NEW t \in Thread, FetchDirectory(t)
    PROVE  Opening(t) /\ ops' \in Nat
<1>1. l \in [Thread -> Local] /\ ops \in Nat
  BY DEF TypeInv, OFTypeOK
<1> QED BY <1>1 DEF FetchDirectory, Goto, Opening

LEMMA CloseCases ==
    ASSUME TypeInv, NEW t \in Thread, NEW i, Close(t, i)
    PROVE  /\ ops' \in Nat
           /\ Quiet \/ (i \in Index /\ Closing(i))
<1>1. ops' \in Nat
  BY DEF Close, Begin, TypeInv, OFTypeOK
<1>2. CASE i \in Index /\ table[i] > None
  <2>1. /\ nbFiles' = nbFiles - 1 /\ heap' = [heap EXCEPT ![table[i]].alive = FALSE]
        /\ table' = [table EXCEPT ![i] = None]
        /\ UNCHANGED <<data, pc, l>>
    BY <1>2 DEF Close, None, Wild
  <2>2. table[i] \in 1..Len(heap) /\ heap \in Seq(Entry)
    BY <1>2 DEF TypeInv, OFTypeOK, None, Wild
  <2>3. PICK e \in Entry : e = heap[table[i]]
    BY <2>2
  <2>4. PICK f \in Entry : f = [e EXCEPT !.alive = FALSE]
    <3>1. [e EXCEPT !.alive = FALSE] \in Entry
      BY DEF Entry
    <3> QED BY <3>1
  <2>5. heap' = [heap EXCEPT ![table[i]] = f] /\ f.file = e.file
    BY <2>1, <2>2, <2>3, <2>4 DEF Entry
  <2>6. heap' \in Seq(Entry) /\ Len(heap') = Len(heap)
    BY <2>2, <2>5
  <2>7. \A x \in 1..Len(heap) : heap'[x].file = heap[x].file
    BY <2>2, <2>3, <2>5
  <2> QED BY <1>1, <1>2, <2>1, <2>6, <2>7 DEF Closing
<1>3. CASE ~(i \in Index /\ table[i] > None)
  BY <1>1, <1>3 DEF Close, Astray, Refused, Quiet
<1> QED BY <1>2, <1>3

LEMMA ReadCases ==
    ASSUME TypeInv, NEW t \in Thread, NEW i, NEW n \in Sizes, Read(t, i, n)
    PROVE  /\ ops' \in Nat
           /\ Quiet \/ \E o \in Local : Requested(o, "read") /\ Start(t, o, "read")
<1>1. ops' \in Nat
  BY DEF Read, Begin, TypeInv, OFTypeOK
<1>2. CASE GetFails(i, "r")
  BY <1>1, <1>2 DEF GetFails, Astray, Refused, Quiet
<1>3. CASE Usable(i, "r")
  <2> DEFINE o == Operation("read", i, n)
  <2>1. CASE o.n > 0 /\ Start(t, o, "read")
    <3>1. i \in Index /\ table[i] > None /\ n \in Int
      BY <1>3, OpenFilesAssumption DEF Usable
    <3>2. PICK p : p = o
      OBVIOUS
    <3>3. p \in Local /\ Requested(p, "read")
      BY <2>1, <3>1, <3>2, StartOp DEF Requested
    <3> QED BY <1>1, <2>1, <3>2, <3>3
  <2>2. CASE Refused
    BY <1>1, <2>2 DEF Refused, Quiet
  <2>3. CASE GetFails(i, "r")
    BY <1>2, <2>3
  <2> QED BY <2>1, <2>2, <2>3 DEF Read
<1> QED BY <1>2, <1>3 DEF Read

LEMMA WriteCases ==
    ASSUME TypeInv, NEW t \in Thread, NEW i, NEW n \in Sizes, Write(t, i, n)
    PROVE  /\ ops' \in Nat
           /\ Quiet \/ \E o \in Local : Requested(o, "write") /\ Start(t, o, "fetch")
<1>1. ops \in Nat /\ ops' \in Nat
  BY DEF Write, Begin, TypeInv, OFTypeOK
<1>2. CASE GetFails(i, "w")
  BY <1>1, <1>2 DEF GetFails, Astray, Refused, Quiet
<1>3. CASE Usable(i, "w")
  <2> DEFINE q == Operation("write", i, n)
             o == [q EXCEPT !.val = ops + 1]
             p == [o EXCEPT !.fetch = PartialSectors(o)]
  <2>1. CASE o.n > 0 /\ Start(t, p, "fetch")
    <3>1. i \in Index /\ table[i] > None /\ n \in Int
      BY <1>3, OpenFilesAssumption DEF Usable
    <3>2. PICK x : x = q
      OBVIOUS
    <3>3. x.n > 0
      BY <2>1, <3>2 DEF Operation
    <3>4. /\ x \in Local /\ x.kind = "write"
          /\ x.file \in File /\ x.id \in 1..Len(heap) /\ x.first + x.n <= FileLength
          /\ x.buf = [b \in Byte |-> Garbage] /\ x.before = data[x.file]
          /\ x.next = SectorOf(x.first) /\ x.last = SectorOf(x.first + x.n - 1)
      BY <3>1, <3>2, <3>3, StartOp
    <3>5. PICK v \in Nat : v = ops + 1
      BY <1>1
    <3>6. PICK y : y = [x EXCEPT !.val = v]
      OBVIOUS
    <3>7. /\ y \in Local /\ y.first = x.first /\ y.n = x.n /\ y.next = x.next /\ y.last = x.last
          /\ y.kind = x.kind /\ y.file = x.file /\ y.id = x.id /\ y.buf = x.buf
          /\ y.before = x.before
      BY <3>4, <3>6 DEF Local
    <3>8. PartialSectors(y) \in Seq(Nat)
      <4>1. y.next \in Nat /\ y.last \in Nat
        <5>1. x.first \in Nat /\ x.n \in Nat
          BY <3>4 DEF Local
        <5>2. x.first + x.n - 1 \in Nat
          BY <3>3, <5>1
        <5> QED BY <3>4, <3>7, <5>1, <5>2, SectorBounds
      <4>2. /\ <<>> \in Seq(Nat) /\ <<y.next>> \in Seq(Nat) /\ <<y.last>> \in Seq(Nat)
            /\ \A c, d \in Seq(Nat) : c \o d \in Seq(Nat)
        BY <4>1
      <4> QED BY <4>2 DEF PartialSectors
    <3>9. PICK s \in Seq(Nat) : s = PartialSectors(y)
      BY <3>8
    <3>10. PICK z : z = [y EXCEPT !.fetch = s]
      OBVIOUS
    <3>11. /\ z \in Local /\ z.first = y.first /\ z.n = y.n /\ z.next = y.next /\ z.last = y.last
           /\ z.kind = y.kind /\ z.file = y.file /\ z.id = y.id /\ z.buf = y.buf
           /\ z.before = y.before /\ z.fetch = s
      BY <3>7, <3>10 DEF Local
    <3>12. PartialSectors(z) = PartialSectors(y)
      BY <3>11 DEF PartialSectors
    <3>13. Requested(z, "write")
      BY <3>3, <3>4, <3>7, <3>9, <3>11, <3>12 DEF Requested
    <3>14. p = z
      BY <3>2, <3>5, <3>6, <3>9, <3>10
    <3> QED BY <1>1, <2>1, <3>11, <3>13, <3>14
  <2>2. CASE Refused
    BY <1>1, <2>2 DEF Refused, Quiet
  <2>3. CASE GetFails(i, "w")
    BY <1>2, <2>3
  <2> QED BY <2>1, <2>2, <2>3 DEF Write
<1> QED BY <1>2, <1>3 DEF Write

(* Every step is quiet or one of those whose effect is known. *)
StepCases ==
    /\ ops' \in Nat
    /\ \/ Quiet
       \/ \E i \in Index : Closing(i)
       \/ \E t \in Thread :
             \/ Opening(t) \/ FetchHeader(t)
             \/ \E o \in Local : Requested(o, "read") /\ Start(t, o, "read")
             \/ \E o \in Local : Requested(o, "write") /\ Start(t, o, "fetch")
             \/ ReadSector(t) \/ FetchSector(t) \/ WriteSector(t) \/ Finish(t)

LEMMA Cases == TypeInv /\ [OpenFilesNext]_ofVars => StepCases
<1> SUFFICES ASSUME TypeInv, [OpenFilesNext]_ofVars PROVE StepCases
  OBVIOUS
<1>0. ops \in Nat
  BY DEF TypeInv, OFTypeOK
<1>1. ASSUME NEW t \in Thread, NEW f \in File \cup {NoFile}, NEW mode \in {"r", "w"},
             Open(t, f, mode)
      PROVE  Opening(t) /\ ops' \in Nat
  BY <1>1, OpenCases
<1>2. ASSUME NEW t \in Thread, FetchHeaderAstray(t) \/ Deleted(t) PROVE Quiet /\ ops' \in Nat
  BY <1>0, <1>2 DEF FetchHeaderAstray, Deleted, Astray, Quiet
<1>3. ASSUME NEW t \in Thread, \/ FetchHeader(t) \/ ReadSector(t) \/ FetchSector(t)
                               \/ WriteSector(t) \/ Finish(t)
      PROVE  ops' \in Nat
  BY <1>0, <1>3 DEF FetchHeader, ReadSector, FetchSector, WriteSector, Finish
<1>4. CASE UNCHANGED ofVars
  BY <1>0, <1>4 DEF ofVars, Quiet, StepCases
<1>5. ASSUME NEW t \in Thread, NEW i, Close(t, i) PROVE StepCases
  BY <1>5, CloseCases DEF StepCases
<1>6. ASSUME NEW t \in Thread, NEW i, NEW n \in Sizes, Read(t, i, n) PROVE StepCases
  BY <1>6, ReadCases DEF StepCases
<1>7. ASSUME NEW t \in Thread, NEW i, NEW n \in Sizes, Write(t, i, n) PROVE StepCases
  BY <1>7, WriteCases DEF StepCases
<1>8. ASSUME NEW t \in Thread, FetchDirectory(t) PROVE Opening(t) /\ ops' \in Nat
  BY <1>8, FetchDirectoryCases
<1> QED
  BY <1>1, <1>2, <1>3, <1>4, <1>5, <1>6, <1>7, <1>8 DEF OpenFilesNext, StepCases

LEMMA NextType == TypeInv /\ [OpenFilesNext]_ofVars => TypeInv'
<1> SUFFICES ASSUME TypeInv, [OpenFilesNext]_ofVars PROVE TypeInv'
  OBVIOUS
<1>0. ops' \in Nat /\ StepCases
  BY Cases DEF StepCases
<1>1. CASE Quiet
  BY <1>0, <1>1 DEF Quiet, TypeInv, OFTypeOK, PlaceOK, Transferring, Moving
<1>2. /\ heap \in Seq(Entry) /\ Len(heap) \in Nat /\ pc \in [Thread -> Place]
      /\ \A i \in Index : table[i] \in {None, Wild} \/ table[i] \in 1..Len(heap)
  BY DEF TypeInv, OFTypeOK
<1>3. ASSUME NEW i \in Index, Closing(i) PROVE TypeInv'
  <2>1. OFTypeOK'
    BY <1>0, <1>2, <1>3 DEF Closing, TypeInv, OFTypeOK, None, Wild
  <2>2. PlaceOK'
    BY <1>2, <1>3, SameSame, OthersMove DEF Closing, TypeInv, PlaceOK
  <2> QED BY <2>1, <2>2 DEF TypeInv
<1>4. ASSUME NEW t \in Thread, Opening(t) PROVE TypeInv'
  <2>1. OFTypeOK'
    BY <1>0, <1>4 DEF Opening, TypeInv, OFTypeOK, Place
  <2>2. \A u \in Thread \ {t} : /\ pc'[u] = "fetchHeader" => l'[u].file \in File
                                /\ u \in Transferring' => Moving(u)'
    BY <1>2, <1>4, SameSame, OthersMove DEF Opening, TypeInv
  <2>3. (pc'[t] = "fetchHeader" => l'[t].file \in File) /\ t \notin Transferring'
    BY <1>2, <1>4 DEF Opening, Transferring
  <2> QED BY <2>1, <2>2, <2>3 DEF TypeInv, PlaceOK
<1>5. ASSUME NEW t \in Thread, FetchHeader(t) PROVE TypeInv'
  <2>1. /\ pc[t] = "fetchHeader" /\ pc' = [pc EXCEPT ![t] = "idle"]
        /\ heap' = Append(heap, [file |-> l[t].file, mode |-> l[t].mode, seek |-> 0,
                                 alive |-> TRUE])
        /\ table' = table \/ table' = [table EXCEPT ![Min(FreeIndex)] = Len(heap')]
        /\ UNCHANGED <<data, l>>
    BY <1>5 DEF FetchHeader, Goto
  <2>2. PICK e \in Entry : e = [file |-> l[t].file, mode |-> l[t].mode, seek |-> 0, alive |-> TRUE]
    <3>1. l[t].file \in File /\ l[t] \in Local
      BY <2>1 DEF TypeInv, PlaceOK, OFTypeOK
    <3>2. l[t].mode \in {"r", "w"}
      BY <3>1 DEF Local
    <3> QED BY <3>1, <3>2 DEF Entry
  <2>3. heap' \in Seq(Entry) /\ Len(heap') = Len(heap) + 1
    BY <1>2, <2>1, <2>2
  <2>4. /\ table' \in [Index -> Int]
        /\ \A i \in Index : table'[i] \in {None, Wild} \/ table'[i] \in 1..Len(heap')
    <3>1. table \in [Index -> Int] /\ Len(heap') \in Int
      BY <1>2, <2>3 DEF TypeInv, OFTypeOK
    <3>2. \A i \in Index : table'[i] = table[i] \/ table'[i] = Len(heap')
      BY <2>1, <3>1
    <3>3. table' \in [Index -> Int]
      BY <2>1, <3>1
    <3> QED BY <1>2, <2>3, <3>2, <3>3
  <2>5. OFTypeOK'
    BY <1>0, <2>1, <2>3, <2>4 DEF TypeInv, OFTypeOK, Place
  <2>6. \A u \in Thread \ {t} : /\ pc'[u] = "fetchHeader" => l'[u].file \in File
                                /\ u \in Transferring' => Moving(u)'
    BY <1>2, <2>1, <2>3, SameSame, OthersMove DEF TypeInv
  <2>7. pc'[t] # "fetchHeader" /\ t \notin Transferring'
    BY <1>2, <2>1 DEF Transferring
  <2> QED BY <2>5, <2>6, <2>7 DEF TypeInv, PlaceOK
<1>6. ASSUME NEW t \in Thread, NEW o \in Local, NEW kind, NEW where,
             <<kind, where>> \in {<<"read", "read">>, <<"write", "fetch">>},
             Requested(o, kind), Start(t, o, where)
      PROVE  TypeInv'
  <2>0. /\ where \in {"read", "fetch"} /\ kind \in {"read", "write"}
        /\ where = "read" <=> kind = "read"
    BY <1>6
  <2>1. /\ pc' = [pc EXCEPT ![t] = where]
        /\ UNCHANGED <<data, heap, table>>
        /\ l' \in [Thread -> Local]
        /\ SameOp(l'[t], o)
        /\ \A u \in Thread \ {t} : SameOp(l'[u], l[u])
    BY <1>6, <2>0, StartEffect
  <2>2. OFTypeOK'
    BY <1>0, <2>0, <2>1 DEF TypeInv, OFTypeOK, Place
  <2>3. \A u \in Thread \ {t} : /\ pc'[u] = "fetchHeader" => l'[u].file \in File
                                /\ u \in Transferring' => Moving(u)'
    BY <1>2, <2>1, OthersMove DEF TypeInv
  <2>4. pc'[t] = where
    BY <1>2, <2>1
  <2>5. SectorOf(o.first) <= SectorOf(o.first + o.n - 1) /\ SectorOf(o.first) \in Nat
    <3>1. o.first \in Nat /\ o.n \in Nat /\ o.n > 0
      BY <1>6 DEF Local, Requested
    <3> QED BY <3>1, SectorMono, SectorBounds
  <2>6. o.buf \in [Byte -> Int] /\ o.before \in [Byte -> Int]
    BY <1>6 DEF Garbage, TypeInv, OFTypeOK, Requested
  <2>7. Moving(t)'
    <3>1. CASE kind = "read"
      <4>1. where = "read" /\ Requested(o, "read")
        BY <1>6, <2>0, <3>1
      <4> QED BY <2>1, <2>4, <2>5, <2>6, <4>1 DEF Requested, SameOp, Moving
    <3>2. CASE kind = "write"
      <4>1. where = "fetch" /\ Requested(o, "write")
        BY <1>6, <2>0, <3>2
      <4> QED BY <2>1, <2>4, <2>5, <2>6, <4>1 DEF Requested, SameOp, Moving
    <3> QED BY <2>0, <3>1, <3>2
  <2> QED BY <2>0, <2>2, <2>3, <2>4, <2>7 DEF TypeInv, PlaceOK
<1>7. ASSUME NEW t \in Thread, ReadSector(t) PROVE TypeInv'
  <2>1. /\ pc[t] = "read" /\ Moving(t)
        /\ pc' = [pc EXCEPT ![t] = IF l[t].next = l[t].last THEN "finish" ELSE "read"]
        /\ UNCHANGED <<data, heap, table, ops>>
        /\ l' \in [Thread -> Local] /\ \A u \in Thread \ {t} : l'[u] = l[u]
        /\ SameRequest(l'[t], l[t]) /\ l'[t].fetch = l[t].fetch
        /\ l'[t].next = l[t].next + 1
    BY <1>7, ReadEffect
  <2>2. l'[t].buf \in [Byte -> Int]
    <3>1. /\ l'[t].buf = [b \in Byte |-> IF b \in BytesOf(l[t].next) THEN data[l[t].file][b]
                                                                     ELSE l[t].buf[b]]
      BY <1>7, ReadEffect
    <3> QED BY <2>1, <3>1 DEF Moving, TypeInv, OFTypeOK
  <2>3. OFTypeOK'
    BY <1>0, <2>1 DEF TypeInv, OFTypeOK, Place
  <2>4. \A u \in Thread \ {t} : /\ pc'[u] = "fetchHeader" => l'[u].file \in File
                                /\ u \in Transferring' => Moving(u)'
    BY <1>2, <2>1, SameSame, OthersMove DEF TypeInv
  <2>5. pc'[t] = IF l[t].next = l[t].last THEN "finish" ELSE "read"
    BY <1>2, <2>1
  <2>6. Moving(t)'
    <3>1. l[t] \in Local
      BY DEF TypeInv, OFTypeOK
    <3>2. /\ l'[t].kind = l[t].kind /\ l'[t].file = l[t].file /\ l'[t].id = l[t].id
          /\ l'[t].first = l[t].first /\ l'[t].n = l[t].n /\ l'[t].last = l[t].last
          /\ l'[t].before = l[t].before
      BY <2>1 DEF SameRequest
    <3>3. l[t].next \in Nat /\ l[t].last \in Int /\ l[t].first \in Nat
      BY <3>1 DEF Local
    <3>4. SectorOf(l[t].first) \in Nat
      BY <3>3, SectorBounds
    <3>5. CASE l[t].next = l[t].last
      BY <2>1, <2>2, <2>5, <3>2, <3>3, <3>4, <3>5 DEF Moving
    <3>6. CASE l[t].next # l[t].last
      BY <2>1, <2>2, <2>5, <3>2, <3>3, <3>4, <3>6 DEF Moving
    <3> QED BY <3>5, <3>6
  <2> QED BY <2>3, <2>4, <2>5, <2>6 DEF TypeInv, PlaceOK
<1>8. ASSUME NEW t \in Thread, FetchSector(t) PROVE TypeInv'
  <2>1. /\ pc[t] = "fetch" /\ Moving(t) /\ pc' = pc
        /\ UNCHANGED <<data, heap, table, ops>>
        /\ l' \in [Thread -> Local] /\ \A u \in Thread \ {t} : l'[u] = l[u]
        /\ SameRequest(l'[t], l[t]) /\ l'[t].next = l[t].next
    BY <1>8, FetchEffect
  <2>2. l'[t].buf \in [Byte -> Int]
    <3>1. l'[t].buf = [b \in Byte |-> IF b \in InFile(BytesOf(Head(l[t].fetch)))
                                      THEN data[l[t].file][b] ELSE l[t].buf[b]]
      BY <1>8, FetchEffect
    <3> QED BY <2>1, <3>1 DEF Moving, TypeInv, OFTypeOK
  <2>3. OFTypeOK'
    BY <1>0, <2>1 DEF TypeInv, OFTypeOK
  <2>4. \A u \in Thread \ {t} : /\ pc'[u] = "fetchHeader" => l'[u].file \in File
                                /\ u \in Transferring' => Moving(u)'
    BY <1>2, <2>1, SameSame, OthersMove DEF TypeInv
  <2>5. Moving(t)'
    BY <2>1, <2>2 DEF Moving, SameRequest
  <2> QED BY <2>1, <2>3, <2>4, <2>5 DEF TypeInv, PlaceOK
<1>9. ASSUME NEW t \in Thread, WriteSector(t) PROVE TypeInv'
  <2>1. /\ pc[t] \in {"fetch", "write"} /\ Moving(t) /\ l[t].fetch = <<>>
        /\ pc' = [pc EXCEPT ![t] = IF l[t].next = l[t].last THEN "finish" ELSE "write"]
        /\ UNCHANGED <<heap, table, ops>>
        /\ data' \in [File -> [Byte -> Int]]
        /\ l' \in [Thread -> Local] /\ \A u \in Thread \ {t} : l'[u] = l[u]
        /\ SameRequest(l'[t], l[t]) /\ l'[t].fetch = l[t].fetch
        /\ l'[t].next = l[t].next + 1 /\ l'[t].buf = Copied(l[t])
    BY <1>9, WriteEffect
  <2>2. l'[t].buf \in [Byte -> Int]
    <3>1. l[t] \in Local /\ l[t].buf \in [Byte -> Int]
      BY <2>1 DEF Moving, TypeInv, OFTypeOK
    <3>2. l[t].val \in Int
      BY <3>1 DEF Local
    <3>3. Copied(l[t]) \in [Byte -> Int]
      BY <3>1, <3>2 DEF Copied, Byte
    <3> QED BY <2>1, <3>3
  <2>3. OFTypeOK'
    BY <1>0, <2>1 DEF TypeInv, OFTypeOK, Place
  <2>4. \A u \in Thread \ {t} : /\ pc'[u] = "fetchHeader" => l'[u].file \in File
                                /\ u \in Transferring' => Moving(u)'
    BY <1>2, <2>1, SameSame, OthersMove DEF TypeInv
  <2>5. pc'[t] = IF l[t].next = l[t].last THEN "finish" ELSE "write"
    BY <1>2, <2>1
  <2>6. Moving(t)'
    <3>1. l[t] \in Local
      BY DEF TypeInv, OFTypeOK
    <3>2. /\ l'[t].kind = l[t].kind /\ l'[t].file = l[t].file /\ l'[t].id = l[t].id
          /\ l'[t].first = l[t].first /\ l'[t].n = l[t].n /\ l'[t].last = l[t].last
          /\ l'[t].before = l[t].before
      BY <2>1 DEF SameRequest
    <3>3. l[t].next \in Nat /\ l[t].last \in Int /\ l[t].first \in Nat
      BY <3>1 DEF Local
    <3>4. SectorOf(l[t].first) \in Nat
      BY <3>3, SectorBounds
    <3>5. CASE l[t].next = l[t].last
      BY <2>1, <2>2, <2>5, <3>2, <3>3, <3>4, <3>5 DEF Moving
    <3>6. CASE l[t].next # l[t].last
      BY <2>1, <2>2, <2>5, <3>2, <3>3, <3>4, <3>6 DEF Moving
    <3> QED BY <3>5, <3>6
  <2> QED BY <2>3, <2>4, <2>5, <2>6 DEF TypeInv, PlaceOK
<1>10. ASSUME NEW t \in Thread, Finish(t) PROVE TypeInv'
  <2>1. /\ pc' = [pc EXCEPT ![t] = "idle"]
        /\ UNCHANGED <<data, table, ops>>
        /\ l' \in [Thread -> Local] /\ \A u \in Thread \ {t} : l'[u] = l[u]
        /\ heap' \in Seq(Entry) /\ Len(heap') = Len(heap)
    BY <1>10, FinishEffect
  <2>2. OFTypeOK'
    BY <1>0, <2>1 DEF TypeInv, OFTypeOK, Place
  <2>3. \A u \in Thread \ {t} : /\ pc'[u] = "fetchHeader" => l'[u].file \in File
                                /\ u \in Transferring' => Moving(u)'
    BY <1>2, <2>1, SameSame, OthersMove DEF TypeInv
  <2>4. pc'[t] = "idle"
    BY <1>2, <2>1
  <2> QED BY <2>2, <2>3, <2>4 DEF TypeInv, PlaceOK, Transferring
<1> QED
  BY <1>0, <1>1, <1>3, <1>4, <1>5, <1>6, <1>7, <1>8, <1>9, <1>10 DEF StepCases
-----------------------------------------------------------------------------
(* The table. *)
Filled == {i \in Index : table[i] > None}

FilesDiffer ==
    \A i, j \in Filled : heap[table[i]].file = heap[table[j]].file => i = j

TableInv == TypeInv /\ nbFiles = Cardinality(Filled) /\ FilesDiffer

LEMMA FilledFinite ==
    IsFiniteSet(Index) /\ IsFiniteSet(Filled) /\ Cardinality(Index) = NbFileTableEntries
<1>1. IsFiniteSet(Index) /\ Cardinality(Index) = NbFileTableEntries
  BY FS_Interval, OpenFilesAssumption DEF Index
<1>2. Filled \subseteq Index
  BY DEF Filled
<1> QED BY <1>1, <1>2, FS_Subset

(* Add finds an index. *)
LEMMA FreeFound ==
    ASSUME TableInv, ~HasWild, nbFiles < NbFileTableEntries
    PROVE  Min(FreeIndex) \in FreeIndex
<1>1. FreeIndex # {}
  <2>1. SUFFICES ASSUME FreeIndex = {} PROVE FALSE
    OBVIOUS
  <2>2. Filled = Index
    BY <2>1 DEF TableInv, TypeInv, OFTypeOK, FreeIndex, HasWild, Filled, None, Wild
  <2> QED BY <2>2, FilledFinite, OpenFilesAssumption DEF TableInv
<1>2. FreeIndex \subseteq Index /\ FreeIndex \subseteq Int
  BY DEF FreeIndex, Index
<1>3. IsFiniteSet(FreeIndex)
  BY <1>2, FilledFinite, FS_Subset
<1> QED BY <1>1, <1>2, <1>3, MinInt

LEMMA InitTable == OpenFilesInit => TableInv
<1> SUFFICES ASSUME OpenFilesInit PROVE TableInv
  OBVIOUS
<1>1. Filled = {}
  BY DEF OpenFilesInit, Filled, None, Wild
<1> QED BY <1>1, InitType, FS_EmptySet DEF OpenFilesInit, TableInv, FilesDiffer

LEMMA NextTable == TableInv /\ [OpenFilesNext]_ofVars => TableInv'
<1> SUFFICES ASSUME TableInv, [OpenFilesNext]_ofVars PROVE TableInv'
  OBVIOUS
<1>0. TypeInv /\ TypeInv' /\ StepCases
  BY NextType, Cases DEF TableInv
<1>1. \A i \in Filled : i \in Index /\ table[i] \in 1..Len(heap)
  <2>1. \A i \in Index : table[i] \in {None, Wild} \/ table[i] \in 1..Len(heap)
    BY DEF TableInv, TypeInv, OFTypeOK
  <2> QED BY <2>1 DEF Filled, None, Wild
<1>2. heap \in Seq(Entry) /\ table \in [Index -> Int]
  BY <1>0 DEF TypeInv, OFTypeOK
(* The table stays, and the files of its entries. *)
<1>3. ASSUME UNCHANGED <<table, nbFiles>>, \A x \in 1..Len(heap) : heap'[x].file = heap[x].file
      PROVE  TableInv'
  <2>1. Filled' = Filled
    BY <1>3 DEF Filled
  <2>2. FilesDiffer'
    BY <1>1, <1>3, <2>1 DEF TableInv, FilesDiffer
  <2> QED BY <1>0, <1>3, <2>1, <2>2 DEF TableInv
<1>4. ASSUME NEW i \in Index, Closing(i) PROVE TableInv'
  <2>1. Filled' = Filled \ {i} /\ i \in Filled
    BY <1>2, <1>4 DEF Closing, Filled, None
  <2>2. Cardinality(Filled') = Cardinality(Filled) - 1
    BY <2>1, FilledFinite, FS_RemoveElement
  <2>3. \A j \in Filled' : table'[j] = table[j]
    BY <1>1, <1>2, <1>4, <2>1 DEF Closing
  <2>4. FilesDiffer'
    <3>1. \A j \in Filled' : heap'[table'[j]].file = heap[table[j]].file
      BY <1>1, <1>4, <2>1, <2>3 DEF Closing
    <3> QED BY <2>1, <3>1 DEF TableInv, FilesDiffer
  <2> QED BY <1>0, <1>4, <2>2, <2>4 DEF TableInv, Closing
<1>5. ASSUME NEW t \in Thread, FetchHeader(t) PROVE TableInv'
  <2>0. PICK e : e = [file |-> l[t].file, mode |-> l[t].mode, seek |-> 0, alive |-> TRUE]
    OBVIOUS
  <2>1. heap' = Append(heap, e) /\ e.file = l[t].file
    BY <1>5, <2>0 DEF FetchHeader
  <2>2. /\ \A x \in 1..Len(heap) : heap'[x] = heap[x]
        /\ heap'[Len(heap) + 1] = e /\ Len(heap') = Len(heap) + 1 /\ Len(heap) \in Nat
    BY <1>2, <2>1
  <2>3. CASE UNCHANGED <<table, nbFiles>>
    BY <1>3, <2>2, <2>3
  <2>4. CASE ~UNCHANGED <<table, nbFiles>>
    <3>1. /\ ~HasWild /\ FindFile(l[t].file) = {} /\ nbFiles < NbFileTableEntries
          /\ nbFiles' = nbFiles + 1
          /\ table' = [table EXCEPT ![Min(FreeIndex)] = Len(heap')]
      BY <1>5, <2>4 DEF FetchHeader
    <3>2. PICK m \in FreeIndex : m = Min(FreeIndex)
      BY <3>1, FreeFound
    <3>3. m \in Index /\ m \notin Filled
      BY DEF FreeIndex, Filled, None
    <3>4. table' = [table EXCEPT ![m] = Len(heap) + 1]
      BY <2>2, <3>1, <3>2
    <3>5. Filled' = Filled \cup {m}
      BY <1>2, <2>2, <3>3, <3>4 DEF Filled, None
    <3>6. Cardinality(Filled') = Cardinality(Filled) + 1
      BY <3>3, <3>5, FilledFinite, FS_AddElement
    <3>7. \A j \in Filled : /\ heap'[table'[j]].file = heap[table[j]].file
                            /\ heap[table[j]].file # l[t].file
      <4> TAKE j \in Filled
      <4>1. j # m /\ table'[j] = table[j] /\ table[j] \in 1..Len(heap)
        BY <1>1, <1>2, <3>3, <3>4
      <4>2. heap[table[j]].file # l[t].file
        BY <3>1 DEF FindFile, Filled
      <4> QED BY <2>2, <4>1, <4>2
    <3>8. heap'[table'[m]].file = l[t].file
      BY <1>2, <2>1, <2>2, <3>3, <3>4
    <3>9. FilesDiffer'
      BY <3>5, <3>7, <3>8 DEF TableInv, FilesDiffer
    <3> QED BY <1>0, <3>1, <3>6, <3>9 DEF TableInv
  <2> QED BY <2>3, <2>4
<1>6. ASSUME NEW t \in Thread, NEW o \in Local, NEW where \in {"read", "fetch"}, Start(t, o, where)
      PROVE  TableInv'
  BY <1>0, <1>3, <1>6, StartEffect
<1>7. ASSUME NEW t \in Thread, ReadSector(t) PROVE TableInv'
  BY <1>0, <1>3, <1>7, ReadEffect
<1>8. ASSUME NEW t \in Thread, FetchSector(t) PROVE TableInv'
  BY <1>0, <1>3, <1>8, FetchEffect
<1>9. ASSUME NEW t \in Thread, WriteSector(t) PROVE TableInv'
  BY <1>0, <1>3, <1>9, WriteEffect
<1>10. ASSUME NEW t \in Thread, Finish(t) PROVE TableInv'
  BY <1>0, <1>3, <1>10, FinishEffect
<1>11. CASE Quiet
  BY <1>3, <1>11 DEF Quiet
<1>12. ASSUME NEW t \in Thread, Opening(t) PROVE TableInv'
  BY <1>3, <1>12 DEF Opening
<1> QED
  BY <1>0, <1>4, <1>5, <1>6, <1>7, <1>8, <1>9, <1>10, <1>11, <1>12 DEF StepCases

LEMMA TableGood == TableInv => OneEntryPerFile
<1> SUFFICES ASSUME TableInv PROVE OneEntryPerFile
  OBVIOUS
<1>1. ASSUME NEW f \in File PROVE Cardinality(FindFile(f)) <= 1
  <2>1. \A i, j \in FindFile(f) : i = j
    BY DEF TableInv, FilesDiffer, Filled, FindFile
  <2>2. CASE FindFile(f) = {}
    BY <2>2, FS_EmptySet
  <2>3. CASE FindFile(f) # {}
    <3>1. PICK i : i \in FindFile(f)
      BY <2>3
    <3>2. FindFile(f) = {i}
      BY <2>1, <3>1
    <3>3. Cardinality(FindFile(f)) = 1
      BY <3>2, FS_Singleton, Zenon
    <3> QED BY <3>3
  <2> QED BY <2>2, <2>3
<1> QED BY <1>1 DEF TableInv, OneEntryPerFile, Filled

(* However many threads open and close files, a file has at most one entry   *)
(* in the table and nbFiles counts the entries: OpenFileTable::Open holds    *)
(* its lock from the search for the file to the entry it adds.               *)
THEOREM OneEntryProved == OpenFilesSpec => []OneEntryPerFile
<1>1. OpenFilesInit => TableInv
  BY InitTable
<1>2. TableInv /\ [OpenFilesNext]_ofVars => TableInv'
  BY NextTable
<1>3. TableInv => OneEntryPerFile
  BY TableGood
<1> QED BY <1>1, <1>2, <1>3, PTL DEF OpenFilesSpec
-----------------------------------------------------------------------------
(* Reads and writes under way. *)
FileByte == 0..(FileLength - 1)

(* The byte b is in a sector that the operation o reads or writes. *)
Covers(o, b) == SectorOf(o.first) <= SectorOf(b) /\ SectorOf(b) <= o.last

NoGarbage == \A f \in File : \A b \in FileByte : data[f][b] # Garbage

(* Operations that share a sector with a write know of it. *)
Exclusive ==
    \A t, u \in Transferring : t # u /\ Overlap(l[t], l[u]) => ~l[t].alone

ReadSoFar(o) ==
    \A b \in FileByte : Covers(o, b) /\ SectorOf(b) < o.next =>
        o.buf[b] # Garbage /\ (o.alone => o.buf[b] = o.before[b])

(* The bytes that share a sector with those asked for are in the buffer, or  *)
(* their sector is still to be fetched.                                      *)
Fetched(o) ==
    \A b \in FileByte : Covers(o, b) /\ b \notin Asked(o) =>
        \/ \E j \in 1..Len(o.fetch) : o.fetch[j] = SectorOf(b)
        \/ o.buf[b] # Garbage /\ (o.alone => o.buf[b] = o.before[b])

OnDisk(o) ==
    o.alone => \A b \in FileByte : Covers(o, b) =>
        data[o.file][b] = IF o.kind = "write" /\ SectorOf(b) < o.next /\ b \in Asked(o)
                          THEN o.val ELSE o.before[b]

Exact(t) == /\ l[t].kind = "read" => ReadSoFar(l[t])
            /\ l[t].kind = "write" => Fetched(l[t])
            /\ OnDisk(l[t])

MoveInv == TypeInv /\ NoGarbage /\ Exclusive /\ \A t \in Transferring : Exact(t)

LEMMA FileBytes == FileByte \subseteq Byte /\ FileByte \subseteq Nat
<1> SUFFICES ASSUME NEW b \in FileByte PROVE b \in Byte /\ b \in Nat
  OBVIOUS
<1>1. b \in Nat /\ b <= FileLength - 1 /\ FileLength - 1 \in Nat
  BY OpenFilesAssumption DEF FileByte
<1>2. /\ FileLength - 1 < (SectorOf(FileLength - 1) + 1) * SectorSize
      /\ SectorOf(FileLength - 1) \in Nat
  BY <1>1, SectorBounds
<1>3. (SectorOf(FileLength - 1) + 1) * SectorSize \in Nat
  BY <1>2, OpenFilesAssumption
<1>4. PICK k \in Nat : k = (SectorOf(FileLength - 1) + 1) * SectorSize
  BY <1>3
<1> QED BY <1>1, <1>2, <1>4, OpenFilesAssumption DEF Byte, LastByte

(* A later byte is in the same sector or a later one. *)
LEMMA SectorOrder ==
    ASSUME NEW a \in Nat, NEW b \in Nat, a <= b
    PROVE  SectorOf(a) <= SectorOf(b)
<1>1. b - a + 1 \in Nat /\ b - a + 1 > 0 /\ a + (b - a + 1) - 1 = b
  OBVIOUS
<1>2. PICK n \in Nat : n = b - a + 1
  BY <1>1
<1>3. SectorOf(a) <= SectorOf(a + n - 1)
  BY <1>1, <1>2, SectorMono
<1> QED BY <1>1, <1>2, <1>3

(* A multiple of SectorSize is the first byte of its sector. *)
LEMMA Aligned ==
    ASSUME NEW x \in Nat, x % SectorSize = 0
    PROVE  x = SectorOf(x) * SectorSize
BY OpenFilesAssumption DEF SectorOf

LEMMA BeforeAligned ==
    ASSUME NEW x \in Nat, NEW b \in Nat, x % SectorSize = 0, b < x
    PROVE  SectorOf(b) < SectorOf(x)
<1>1. SUFFICES ASSUME SectorOf(x) <= SectorOf(b) PROVE FALSE
  BY SectorBounds
<1>2. SectorOf(x) * SectorSize <= SectorOf(b) * SectorSize
  BY <1>1, SectorBounds, Mono
<1>3. SectorOf(b) * SectorSize <= b /\ x = SectorOf(x) * SectorSize
  BY Aligned, SectorBounds
<1>4. SectorOf(b) * SectorSize \in Nat
  BY SectorBounds, OpenFilesAssumption
<1> QED BY <1>2, <1>3, <1>4

(* WriteAt fetches every sector that holds bytes it was not asked to write.  *)
LEMMA PartialFetched ==
    ASSUME NEW o \in Local, Requested(o, "write")
    PROVE  \A b \in FileByte : Covers(o, b) /\ b \notin Asked(o) =>
              \E j \in 1..Len(o.fetch) : o.fetch[j] = SectorOf(b)
<1> SUFFICES ASSUME NEW b \in FileByte, Covers(o, b), b \notin Asked(o)
             PROVE  \E j \in 1..Len(o.fetch) : o.fetch[j] = SectorOf(b)
  OBVIOUS
<1>1. /\ o.first \in Nat /\ o.n \in Nat /\ o.n > 0 /\ b \in Nat
      /\ o.next = SectorOf(o.first) /\ o.last = SectorOf(o.first + o.n - 1)
      /\ o.fetch = PartialSectors(o)
  BY FileBytes DEF Local, Requested
<1>2. PICK z \in Nat : z = o.first + o.n
  BY <1>1
<1>3. /\ SectorOf(b) \in Nat /\ SectorOf(o.first) \in Nat /\ SectorOf(z - 1) \in Nat
      /\ z - 1 \in Nat /\ z > 0 /\ o.last = SectorOf(z - 1)
  BY <1>1, <1>2, SectorBounds
<1>4. \/ SectorOf(b) = o.next /\ o.first % SectorSize # 0
      \/ SectorOf(b) = o.last /\ z % SectorSize # 0
  <2>1. CASE b < o.first
    <3>1. SectorOf(b) <= SectorOf(o.first)
      BY <1>1, <2>1, SectorOrder
    <3>2. o.first % SectorSize = 0 => SectorOf(b) < SectorOf(o.first)
      BY <1>1, <2>1, BeforeAligned
    <3> QED BY <1>1, <1>3, <3>1, <3>2 DEF Covers
  <2>2. CASE z <= b
    <3>1. SectorOf(z - 1) <= SectorOf(z) /\ SectorOf(z) <= SectorOf(b)
      BY <1>1, <1>2, <1>3, <2>2, SectorOrder
    <3>2. z % SectorSize = 0 => SectorOf(z - 1) < SectorOf(z)
      BY <1>2, <1>3, BeforeAligned
    <3>3. SectorOf(z) \in Nat
      BY SectorBounds
    <3> QED BY <1>3, <3>1, <3>2, <3>3 DEF Covers
  <2> QED BY <1>1, <1>2, <2>1, <2>2 DEF Asked
<1>5. PICK c, d : c = o.next /\ d = o.last
  OBVIOUS
<1>6. CASE o.first % SectorSize = 0
  <2>1. z % SectorSize # 0 /\ SectorOf(b) = d
    BY <1>4, <1>5, <1>6
  <2>2. o.fetch = <<>> \o <<d>>
    BY <1>1, <1>2, <1>5, <1>6, <2>1 DEF PartialSectors
  <2> QED BY <2>1, <2>2
<1>7. CASE o.first % SectorSize # 0 /\ z % SectorSize # 0 /\ c # d
  <2>1. o.fetch = <<c>> \o <<d>>
    BY <1>1, <1>2, <1>5, <1>7 DEF PartialSectors
  <2>2. Len(o.fetch) = 2 /\ o.fetch[1] = c /\ o.fetch[2] = d
    BY <2>1
  <2> QED BY <1>4, <1>5, <2>2
<1>8. CASE o.first % SectorSize # 0 /\ (z % SectorSize = 0 \/ c = d)
  <2>1. o.fetch = <<c>> \o <<>>
    BY <1>1, <1>2, <1>5, <1>8 DEF PartialSectors
  <2>2. Len(o.fetch) = 1 /\ o.fetch[1] = c
    BY <2>1
  <2> QED BY <1>4, <1>5, <1>8, <2>2
<1> QED BY <1>6, <1>7, <1>8

LEMMA CopiedAt ==
    ASSUME NEW o, NEW b \in Byte
    PROVE  Copied(o)[b] = IF b \in Asked(o) THEN o.val ELSE o.buf[b]
BY DEF Copied, Asked, Byte

LEMMA OverlapSymmetric == \A o, p : Overlap(o, p) <=> Overlap(p, o)
BY DEF Overlap

LEMMA SameOverlap ==
    ASSUME NEW o, NEW p, NEW q, NEW r, SameOp(o, q), SameOp(p, r)
    PROVE  Overlap(o, p) <=> Overlap(q, r)
BY DEF Overlap, SameOp

(* A step of t leaves what is known of another thread, whose operation may   *)
(* only cease to be alone.                                                   *)
LEMMA KeepsExact ==
    ASSUME NEW u \in Thread, Exact(u), SameOp(l'[u], l[u]), l'[u].alone => l[u].alone,
           data' = data
    PROVE  Exact(u)'
<1>1. PICK o, p : o = l[u] /\ p = l'[u]
  OBVIOUS
<1>2. /\ p.kind = o.kind /\ p.file = o.file /\ p.first = o.first /\ p.n = o.n /\ p.buf = o.buf
      /\ p.fetch = o.fetch /\ p.next = o.next /\ p.last = o.last /\ p.val = o.val
      /\ p.before = o.before
  BY <1>1 DEF SameOp
<1>3. \A b : Covers(p, b) <=> Covers(o, b)
  BY <1>2 DEF Covers
<1>4. Asked(p) = Asked(o)
  BY <1>2 DEF Asked
<1>5. p.alone => o.alone
  BY <1>1
<1>6. ReadSoFar(o) => ReadSoFar(p)
  BY <1>2, <1>3, <1>5 DEF ReadSoFar
<1>7. Fetched(o) => Fetched(p)
  BY <1>2, <1>3, <1>4, <1>5 DEF Fetched
<1>8. OnDisk(l[u]) => OnDisk(l[u])'
  <2>1. p.alone /\ OnDisk(o) => \A b \in FileByte : Covers(p, b) =>
        data[p.file][b] = IF p.kind = "write" /\ SectorOf(b) < p.next /\ b \in Asked(p)
                          THEN p.val ELSE p.before[b]
    BY <1>2, <1>3, <1>4, <1>5 DEF OnDisk
  <2> QED BY <1>1, <2>1 DEF OnDisk
<1> QED BY <1>1, <1>2, <1>6, <1>7, <1>8 DEF Exact, ReadSoFar, Fetched

LEMMA StepMove ==
    ASSUME MoveInv, TypeInv', NoGarbage', NEW t \in Thread,
           \A u \in Thread \ {t} : pc'[u] = pc[u] /\ SameOp(l'[u], l[u]),
           \A u \in Transferring \ {t} : (l'[u].alone => l[u].alone) /\ Exact(u)',
           t \in Transferring' =>
              /\ Exact(t)'
              /\ \A u \in Transferring \ {t} :
                    Overlap(l'[t], l'[u]) => ~l'[t].alone /\ ~l'[u].alone
    PROVE  MoveInv'
<1>1. \A u \in Thread \ {t} : u \in Transferring' <=> u \in Transferring
  BY DEF Transferring
<1>2. \A u \in Transferring' : Exact(u)'
  BY <1>1 DEF Transferring
<1>3. ASSUME NEW u \in Transferring', NEW v \in Transferring', u # v, Overlap(l'[u], l'[v])
      PROVE  ~l'[u].alone
  <2>1. CASE u = t
    BY <1>1, <1>3, <2>1 DEF Transferring
  <2>2. CASE v = t
    <3>1. Overlap(l'[t], l'[u])
      BY <1>3, <2>2, OverlapSymmetric
    <3> QED BY <1>1, <1>3, <2>2, <3>1 DEF Transferring
  <2>3. CASE u # t /\ v # t
    <3>1. u \in Thread \ {t} /\ v \in Thread \ {t} /\ u \in Transferring /\ v \in Transferring
      BY <1>1, <1>3, <2>3 DEF Transferring
    <3>2. Overlap(l[u], l[v])
      BY <1>3, <3>1, SameOverlap
    <3> QED BY <1>3, <3>1, <3>2 DEF MoveInv, Exclusive
  <2> QED BY <2>1, <2>2, <2>3
<1>4. Exclusive'
  BY <1>3 DEF Exclusive
<1> QED BY <1>2, <1>4 DEF MoveInv

LEMMA StartMove ==
    ASSUME MoveInv, TypeInv', NEW t \in Thread, NEW o \in Local, NEW where \in {"read", "fetch"},
           Requested(o, "read") \/ Requested(o, "write"), Start(t, o, where)
    PROVE  MoveInv'
<1>1. /\ pc[t] = "idle" /\ pc' = [pc EXCEPT ![t] = where] /\ data' = data
      /\ SameOp(l'[t], o)
      /\ \A u \in Thread \ {t} : SameOp(l'[u], l[u])
      /\ l'[t].alone <=> \A u \in Transferring : ~Overlap(o, l[u])
      /\ \A u \in Transferring \ {t} : l'[u].alone <=> l[u].alone /\ ~Overlap(o, l[u])
  BY StartEffect DEF MoveInv
<1>2. NoGarbage'
  BY <1>1 DEF MoveInv, NoGarbage
<1>3. \A u \in Transferring : u \in Thread \ {t}
  BY <1>1 DEF Transferring
<1>4. \A u \in Transferring : Exact(u)'
  BY <1>1, <1>3, KeepsExact DEF MoveInv
<1>5. ASSUME NEW u \in Transferring, Overlap(l'[t], l'[u]) PROVE ~l'[t].alone /\ ~l'[u].alone
  <2>1. Overlap(o, l[u])
    BY <1>1, <1>3, <1>5, SameOverlap
  <2> QED BY <1>1, <1>3, <1>5, <2>1
<1>6. Exact(t)'
  <2>0. PICK p : p = l'[t]
    OBVIOUS
  <2>1. /\ p.kind = o.kind /\ p.file = o.file /\ p.first = o.first /\ p.n = o.n /\ p.buf = o.buf
        /\ p.fetch = o.fetch /\ p.next = o.next /\ p.last = o.last /\ p.val = o.val
        /\ p.before = o.before
    BY <1>1, <2>0 DEF SameOp
  <2>2. p.next = SectorOf(p.first) /\ p.before = data[p.file] /\ p.first \in Nat
    BY <2>1 DEF Requested, Local
  <2>3. \A b \in FileByte : SectorOf(b) \in Nat /\ SectorOf(p.first) \in Nat
    BY <2>2, FileBytes, SectorBounds
  <2>4. ReadSoFar(p)
    BY <2>2, <2>3 DEF ReadSoFar, Covers
  <2>5. o.kind = "write" => Requested(o, "write")
    BY DEF Requested
  <2>6. p.kind = "write" => Fetched(p)
    <3>1. SUFFICES ASSUME p.kind = "write" PROVE Fetched(p)
      OBVIOUS
    <3>2. Requested(o, "write")
      BY <2>1, <2>5, <3>1
    <3>3. \A b \in FileByte : Covers(o, b) /\ b \notin Asked(o) =>
             \E j \in 1..Len(o.fetch) : o.fetch[j] = SectorOf(b)
      BY <3>2, PartialFetched
    <3> QED BY <2>1, <3>3 DEF Fetched, Covers, Asked
  <2>7. \A b \in FileByte : Covers(p, b) =>
        data[p.file][b] = IF p.kind = "write" /\ SectorOf(b) < p.next /\ b \in Asked(p)
                          THEN p.val ELSE p.before[b]
    BY <2>2, <2>3 DEF Covers
  <2> QED BY <1>1, <2>0, <2>4, <2>6, <2>7 DEF Exact, ReadSoFar, Fetched, OnDisk
<1>7. \A u \in Thread \ {t} : pc'[u] = pc[u] /\ SameOp(l'[u], l[u])
  BY <1>1 DEF MoveInv, TypeInv, OFTypeOK
<1>8. \A u \in Transferring \ {t} : (l'[u].alone => l[u].alone) /\ Exact(u)'
  BY <1>1, <1>4
<1> QED BY <1>2, <1>5, <1>6, <1>7, <1>8, StepMove

(* The steps of an operation under way change neither what it asks for nor   *)
(* whether it is alone.                                                      *)
LEMMA SectorMove ==
    ASSUME MoveInv, TypeInv', NoGarbage', NEW t \in Transferring, SameRequest(l'[t], l[t]),
           \A u \in Thread \ {t} : pc'[u] = pc[u] /\ l'[u] = l[u],
           \A u \in Transferring : Exact(u)'
    PROVE  MoveInv'
<1>1. t \in Thread /\ \A u \in Transferring : u \in Thread
  BY DEF Transferring
<1>2. ASSUME NEW u \in Transferring \ {t}, Overlap(l'[t], l'[u])
      PROVE  ~l'[t].alone /\ ~l'[u].alone
  <2>1. l'[u] = l[u]
    BY <1>1, <1>2
  <2>2. Overlap(l[t], l[u]) /\ Overlap(l[u], l[t])
    <3>1. Overlap(l[t], l[u])
      BY <1>2, <2>1 DEF SameRequest, Overlap
    <3> QED BY <3>1, OverlapSymmetric
  <2>3. ~l[t].alone /\ ~l[u].alone
    BY <1>2, <2>2 DEF MoveInv, Exclusive
  <2> QED BY <2>1, <2>3 DEF SameRequest
<1>3. \A u \in Thread \ {t} : pc'[u] = pc[u] /\ SameOp(l'[u], l[u])
  BY SameSame
<1>4. \A u \in Transferring \ {t} : (l'[u].alone => l[u].alone) /\ Exact(u)'
  BY <1>1
<1> QED BY <1>1, <1>2, <1>3, <1>4, StepMove

LEMMA ReadMove ==
    ASSUME MoveInv, TypeInv', NEW t \in Thread, ReadSector(t)
    PROVE  MoveInv'
<1>1. /\ pc[t] = "read" /\ Moving(t) /\ data' = data
      /\ pc' = [pc EXCEPT ![t] = IF l[t].next = l[t].last THEN "finish" ELSE "read"]
      /\ \A u \in Thread \ {t} : l'[u] = l[u]
      /\ SameRequest(l'[t], l[t]) /\ l'[t].next = l[t].next + 1
      /\ l'[t].buf = [b \in Byte |-> IF b \in BytesOf(l[t].next) THEN data[l[t].file][b]
                                                                ELSE l[t].buf[b]]
  BY ReadEffect DEF MoveInv
<1>2. t \in Transferring /\ Exact(t) /\ l[t].kind = "read" /\ l[t].file \in File
  BY <1>1 DEF MoveInv, Transferring, Moving
<1>3. NoGarbage /\ NoGarbage'
  BY <1>1 DEF MoveInv, NoGarbage
<1>4. \A u \in Thread \ {t} : pc'[u] = pc[u]
  BY <1>1 DEF MoveInv, TypeInv, OFTypeOK
<1>5. Exact(t)'
  <2>0. PICK o, p : o = l[t] /\ p = l'[t]
    OBVIOUS
  <2>1. /\ p.kind = "read" /\ o.kind = "read" /\ p.file = o.file /\ p.first = o.first
        /\ p.n = o.n /\ p.last = o.last /\ p.val = o.val /\ p.before = o.before
        /\ p.alone <=> o.alone
    BY <1>1, <1>2, <2>0 DEF SameRequest
  <2>2. o.next \in Nat /\ p.next = o.next + 1 /\ o.file \in File
    BY <1>1, <1>2, <2>0 DEF MoveInv, TypeInv, OFTypeOK, Local
  <2>3. ASSUME NEW b \in FileByte
        PROVE  /\ Covers(p, b) <=> Covers(o, b)
               /\ SectorOf(b) \in Nat
               /\ p.buf[b] = IF SectorOf(b) = o.next THEN data[o.file][b] ELSE o.buf[b]
    <3>1. b \in Nat /\ b \in Byte /\ SectorOf(b) \in Nat
      BY FileBytes, SectorBounds
    <3>2. b \in BytesOf(o.next) <=> SectorOf(b) = o.next
      BY <2>2, <3>1, InSector
    <3> QED BY <1>1, <2>0, <2>1, <3>1, <3>2 DEF Covers
  <2>4. ReadSoFar(o) /\ OnDisk(o)
    BY <1>2, <2>0 DEF Exact
  <2>5. \A b \in FileByte : Covers(o, b) =>
           /\ data[o.file][b] # Garbage
           /\ o.alone => data[o.file][b] = o.before[b]
    BY <1>3, <2>1, <2>2, <2>4 DEF NoGarbage, OnDisk
  <2>6. ReadSoFar(p)
    <3> SUFFICES ASSUME NEW b \in FileByte, Covers(p, b), SectorOf(b) < p.next
                 PROVE  p.buf[b] # Garbage /\ (p.alone => p.buf[b] = p.before[b])
      BY DEF ReadSoFar
    <3>1. CASE SectorOf(b) = o.next
      BY <2>1, <2>3, <2>5, <3>1
    <3>2. CASE SectorOf(b) < o.next
      BY <2>1, <2>2, <2>3, <2>4, <3>2 DEF ReadSoFar
    <3> QED BY <2>2, <2>3, <3>1, <3>2
  <2>7. p.alone => \A b \in FileByte : Covers(p, b) => data[p.file][b] = p.before[b]
    BY <2>1, <2>3, <2>5
  <2> QED BY <1>1, <2>0, <2>1, <2>6, <2>7 DEF Exact, OnDisk, ReadSoFar
<1>6. \A u \in Transferring : Exact(u)'
  <2> SUFFICES ASSUME NEW u \in Transferring, u # t PROVE Exact(u)'
    BY <1>5
  <2>1. u \in Thread /\ Exact(u) /\ l'[u] = l[u]
    BY <1>1 DEF MoveInv, Transferring
  <2> QED BY <1>1, <2>1, SameSame, KeepsExact
<1> QED BY <1>1, <1>2, <1>3, <1>4, <1>6, SectorMove

LEMMA FetchMove ==
    ASSUME MoveInv, TypeInv', NEW t \in Thread, FetchSector(t)
    PROVE  MoveInv'
<1>1. /\ pc[t] = "fetch" /\ Moving(t) /\ data' = data /\ pc' = pc /\ l[t].fetch # <<>>
      /\ \A u \in Thread \ {t} : l'[u] = l[u]
      /\ SameRequest(l'[t], l[t]) /\ l'[t].next = l[t].next
      /\ l'[t].fetch = Tail(l[t].fetch)
      /\ l'[t].buf = [b \in Byte |-> IF b \in InFile(BytesOf(Head(l[t].fetch)))
                                     THEN data[l[t].file][b] ELSE l[t].buf[b]]
  BY FetchEffect DEF MoveInv
<1>2. /\ t \in Transferring /\ Exact(t) /\ l[t].kind = "write" /\ l[t].file \in File
      /\ l[t].next = SectorOf(l[t].first)
  BY <1>1 DEF MoveInv, Transferring, Moving
<1>3. NoGarbage /\ NoGarbage'
  BY <1>1 DEF MoveInv, NoGarbage
<1>4. Exact(t)'
  <2>0. PICK o, p : o = l[t] /\ p = l'[t]
    OBVIOUS
  <2>1. /\ p.kind = "write" /\ o.kind = "write" /\ p.file = o.file /\ p.first = o.first
        /\ p.n = o.n /\ p.last = o.last /\ p.val = o.val /\ p.before = o.before
        /\ p.next = o.next /\ (p.alone <=> o.alone)
    BY <1>1, <1>2, <2>0 DEF SameRequest
  <2>2. /\ o.first \in Nat /\ o.next = SectorOf(o.first) /\ o.file \in File
        /\ o.fetch \in Seq(Nat) /\ o.fetch # <<>> /\ p.fetch = Tail(o.fetch)
    BY <1>1, <1>2, <2>0 DEF MoveInv, TypeInv, OFTypeOK, Local
  <2>3. PICK h \in Nat : h = Head(o.fetch)
    BY <2>2, TailSeq
  <2>4. ASSUME NEW b \in FileByte
        PROVE  /\ Covers(p, b) <=> Covers(o, b)
               /\ SectorOf(b) \in Nat /\ SectorOf(o.first) \in Nat
               /\ p.buf[b] = IF SectorOf(b) = h THEN data[o.file][b] ELSE o.buf[b]
    <3>1. /\ b \in Nat /\ b \in Byte /\ SectorOf(b) \in Nat /\ SectorOf(o.first) \in Nat
          /\ b \in 0..(FileLength - 1)
      BY <2>2, FileBytes, SectorBounds DEF FileByte
    <3>2. b \in InFile(BytesOf(h)) <=> SectorOf(b) = h
      BY <3>1, InSector DEF InFile
    <3> QED BY <1>1, <2>0, <2>1, <2>3, <3>1, <3>2 DEF Covers
  <2>5. Fetched(o) /\ OnDisk(o) /\ Asked(p) = Asked(o)
    BY <1>2, <2>0, <2>1 DEF Exact, Asked
  <2>6. \A b \in FileByte : Covers(o, b) =>
           /\ data[o.file][b] # Garbage
           /\ o.alone => data[o.file][b] = o.before[b]
    BY <1>3, <2>2, <2>4, <2>5 DEF NoGarbage, OnDisk, Covers
  <2>7. Fetched(p)
    <3> SUFFICES ASSUME NEW b \in FileByte, Covers(p, b), b \notin Asked(p)
                 PROVE  \/ \E j \in 1..Len(p.fetch) : p.fetch[j] = SectorOf(b)
                        \/ p.buf[b] # Garbage /\ (p.alone => p.buf[b] = p.before[b])
      BY DEF Fetched
    <3>1. CASE SectorOf(b) = h
      BY <2>1, <2>4, <2>6, <3>1
    <3>2. CASE SectorOf(b) # h
      <4>1. CASE \E j \in 1..Len(o.fetch) : o.fetch[j] = SectorOf(b)
        <5>1. PICK j \in 1..Len(o.fetch) : o.fetch[j] = SectorOf(b)
          BY <4>1
        <5>2. j # 1
          BY <2>2, <2>3, <3>2, <5>1
        <5>3. j - 1 \in 1..Len(Tail(o.fetch)) /\ Tail(o.fetch)[j - 1] = o.fetch[j]
          BY <2>2, <5>1, <5>2
        <5> QED BY <2>2, <5>1, <5>3
      <4>2. CASE o.buf[b] # Garbage /\ (o.alone => o.buf[b] = o.before[b])
        BY <2>1, <2>4, <3>2, <4>2
      <4> QED BY <2>4, <2>5, <4>1, <4>2 DEF Fetched
    <3> QED BY <3>1, <3>2
  <2>8. p.alone => \A b \in FileByte : Covers(p, b) =>
          data[p.file][b] = IF p.kind = "write" /\ SectorOf(b) < p.next /\ b \in Asked(p)
                            THEN p.val ELSE p.before[b]
    BY <2>1, <2>4, <2>5 DEF OnDisk
  <2> QED BY <1>1, <2>0, <2>1, <2>7, <2>8 DEF Exact, OnDisk, Fetched
<1>5. \A u \in Transferring : Exact(u)'
  <2> SUFFICES ASSUME NEW u \in Transferring, u # t PROVE Exact(u)'
    BY <1>4
  <2>1. u \in Thread /\ Exact(u) /\ l'[u] = l[u]
    BY <1>1 DEF MoveInv, Transferring
  <2> QED BY <1>1, <2>1, SameSame, KeepsExact
<1> QED BY <1>1, <1>2, <1>3, <1>5, SectorMove

LEMMA WriteMove ==
    ASSUME MoveInv, TypeInv', NEW t \in Thread, WriteSector(t)
    PROVE  MoveInv'
<1> DEFINE c == Copied(l[t])
<1>1. /\ pc[t] \in {"fetch", "write"} /\ Moving(t) /\ l[t].fetch = <<>>
      /\ pc' = [pc EXCEPT ![t] = IF l[t].next = l[t].last THEN "finish" ELSE "write"]
      /\ \A f \in File : \A b \in Byte :
            data'[f][b] = IF f = l[t].file /\ b \in BytesOf(l[t].next) THEN c[b] ELSE data[f][b]
      /\ \A u \in Thread \ {t} : l'[u] = l[u]
      /\ SameRequest(l'[t], l[t]) /\ l'[t].fetch = l[t].fetch
      /\ l'[t].next = l[t].next + 1
      /\ l'[t].buf = c
  BY WriteEffect DEF MoveInv
<1> HIDE DEF c
<1>2. PICK o, p : o = l[t] /\ p = l'[t]
  OBVIOUS
<1>3. /\ t \in Transferring /\ Fetched(o) /\ OnDisk(o) /\ o.kind = "write" /\ o.file \in File
      /\ o.next <= o.last /\ SectorOf(o.first) <= o.next
  BY <1>1, <1>2 DEF MoveInv, Transferring, Moving, Exact
<1>4. o \in Local
  BY <1>2 DEF MoveInv, TypeInv, OFTypeOK
<1>5. /\ o.first \in Nat /\ o.next \in Nat /\ o.val \in Nat /\ o.last \in Int
      /\ SectorOf(o.first) \in Nat
  BY <1>4, SectorBounds DEF Local
<1>6. ASSUME NEW b \in FileByte
      PROVE  /\ SectorOf(b) \in Nat
             /\ c[b] = IF b \in Asked(o) THEN o.val ELSE o.buf[b]
             /\ \A f \in File : data'[f][b] = IF f = o.file /\ SectorOf(b) = o.next
                                              THEN c[b] ELSE data[f][b]
             /\ SectorOf(b) = o.next => Covers(o, b)
             /\ Covers(o, b) => /\ c[b] # Garbage
                                /\ b \notin Asked(o) /\ o.alone => c[b] = o.before[b]
  <2>1. b \in Nat /\ b \in Byte /\ SectorOf(b) \in Nat
    BY FileBytes, SectorBounds
  <2>2. b \in BytesOf(o.next) <=> SectorOf(b) = o.next
    BY <1>5, <2>1, InSector
  <2>3. c[b] = IF b \in Asked(o) THEN o.val ELSE o.buf[b]
    BY <1>2, <2>1, CopiedAt DEF c
  <2>4. SectorOf(b) = o.next => Covers(o, b)
    BY <1>3, <1>5 DEF Covers
  <2>5. Covers(o, b) => c[b] # Garbage /\ (b \notin Asked(o) /\ o.alone => c[b] = o.before[b])
    <3>1. Len(o.fetch) = 0
      BY <1>1, <1>2
    <3> QED BY <1>3, <1>5, <2>3, <3>1 DEF Fetched, Garbage
  <2> QED BY <1>1, <1>2, <2>1, <2>2, <2>3, <2>4, <2>5
<1>7. NoGarbage'
  BY <1>3, <1>6 DEF MoveInv, NoGarbage
<1>8. \A u \in Thread \ {t} : pc'[u] = pc[u]
  BY <1>1 DEF MoveInv, TypeInv, OFTypeOK
<1>9. Exact(t)'
  <2>1. /\ p.kind = "write" /\ p.file = o.file /\ p.first = o.first
        /\ p.n = o.n /\ p.last = o.last /\ p.val = o.val /\ p.before = o.before
        /\ p.next = o.next + 1 /\ (p.alone <=> o.alone) /\ p.buf = c
    BY <1>1, <1>2, <1>3 DEF SameRequest
  <2>2. Asked(p) = Asked(o) /\ \A b : Covers(p, b) <=> Covers(o, b)
    BY <2>1 DEF Asked, Covers
  <2>3. Fetched(p)
    BY <1>6, <2>1, <2>2 DEF Fetched
  <2>4. ASSUME p.alone, NEW b \in FileByte, Covers(p, b)
        PROVE  data'[p.file][b] = IF SectorOf(b) < p.next /\ b \in Asked(p)
                                  THEN p.val ELSE p.before[b]
    <3>1. o.alone /\ Covers(o, b) /\ SectorOf(b) \in Nat
      BY <1>6, <2>1, <2>2, <2>4
    <3>2. CASE SectorOf(b) = o.next
      <4>1. data'[p.file][b] = c[b] /\ SectorOf(b) < p.next
        BY <1>3, <1>5, <1>6, <2>1, <3>2
      <4> QED BY <1>6, <2>1, <2>2, <3>1, <4>1
    <3>3. CASE SectorOf(b) # o.next
      <4>1. data'[p.file][b] = data[o.file][b]
        BY <1>3, <1>6, <2>1, <3>3
      <4>2. SectorOf(b) < p.next <=> SectorOf(b) < o.next
        BY <1>5, <2>1, <3>1, <3>3
      <4>3. data[o.file][b] = IF SectorOf(b) < o.next /\ b \in Asked(o) THEN o.val ELSE o.before[b]
        BY <1>3, <3>1 DEF OnDisk
      <4> QED BY <2>1, <2>2, <4>1, <4>2, <4>3
    <3> QED BY <3>2, <3>3
  <2> QED BY <1>2, <2>1, <2>3, <2>4 DEF Exact, OnDisk, Fetched
<1>10. ASSUME NEW u \in Transferring, u # t PROVE Exact(u)'
  <2>1. u \in Thread /\ Exact(u) /\ l'[u] = l[u] /\ Moving(u) /\ l[u] \in Local
    BY <1>1, <1>10 DEF MoveInv, Transferring, TypeInv, PlaceOK, OFTypeOK
  <2>2. ASSUME l[u].alone, NEW b \in FileByte, Covers(l[u], b)
        PROVE  data'[l[u].file][b] = data[l[u].file][b]
    <3>0. l[u].file \in File
      BY <2>1 DEF Moving
    <3>1. SUFFICES ASSUME l[u].file = o.file, SectorOf(b) = o.next PROVE FALSE
      BY <1>6, <3>0
    <3>2. /\ SectorOf(b) \in SectorsIn(l[u].first, l[u].n)
          /\ SectorOf(b) \in SectorsIn(o.first, o.n)
      <4>1. l[u].last = SectorOf(l[u].first + l[u].n - 1) /\ o.last = SectorOf(o.first + o.n - 1)
        BY <1>1, <1>2, <2>1 DEF Moving
      <4>2. l[u].first \in Nat /\ l[u].last \in Int
        BY <2>1 DEF Local
      <4>3. SectorOf(l[u].first) \in Nat /\ SectorOf(b) \in Nat
        BY <1>6, <4>2, SectorBounds
      <4> QED BY <1>3, <1>5, <2>2, <3>1, <4>1, <4>2, <4>3 DEF Covers, SectorsIn
    <3>3. Overlap(l[u], o)
      BY <1>3, <3>1, <3>2 DEF Overlap
    <3> QED BY <1>2, <1>3, <1>10, <2>2, <3>3 DEF MoveInv, Exclusive
  <2>3. OnDisk(l[u])'
    <3>1. OnDisk(l[u])
      BY <2>1 DEF Exact
    <3> QED BY <2>1, <2>2, <3>1 DEF OnDisk
  <2> QED BY <2>1, <2>3 DEF Exact
<1> QED BY <1>1, <1>3, <1>7, <1>8, <1>9, <1>10, SectorMove

LEMMA InitMove == OpenFilesInit => MoveInv
<1> SUFFICES ASSUME OpenFilesInit PROVE MoveInv
  OBVIOUS
<1>1. NoGarbage
  BY FileBytes DEF OpenFilesInit, NoGarbage, Byte, Garbage
<1>2. Transferring = {}
  BY DEF OpenFilesInit, Transferring
<1> QED BY <1>1, <1>2, InitType DEF MoveInv, Exclusive

LEMMA NextMove == MoveInv /\ [OpenFilesNext]_ofVars => MoveInv'
<1> SUFFICES ASSUME MoveInv, [OpenFilesNext]_ofVars PROVE MoveInv'
  OBVIOUS
<1>1. TypeInv /\ TypeInv' /\ StepCases
  BY NextType, Cases DEF MoveInv
(* Steps that move no byte and after which no more threads do. *)
<1>2. ASSUME UNCHANGED data, NEW t \in Thread, t \notin Transferring',
             \A u \in Thread \ {t} : pc'[u] = pc[u] /\ l'[u] = l[u]
      PROVE  MoveInv'
  <2>1. NoGarbage'
    BY <1>2 DEF MoveInv, NoGarbage
  <2>2. \A u \in Transferring \ {t} : (l'[u].alone => l[u].alone) /\ Exact(u)'
    <3> TAKE u \in Transferring \ {t}
    <3>1. u \in Thread /\ Exact(u) /\ l'[u] = l[u]
      BY <1>2 DEF MoveInv, Transferring
    <3> QED BY <1>2, <3>1, SameSame, KeepsExact
  <2> QED BY <1>1, <1>2, <2>1, <2>2, SameSame, StepMove
<1>3. ASSUME UNCHANGED <<data, pc, l>> PROVE MoveInv'
  BY <1>1, <1>3
     DEF MoveInv, NoGarbage, Exclusive, Transferring, Exact, ReadSoFar, Fetched, OnDisk
<1>4. pc \in [Thread -> Place]
  BY <1>1 DEF TypeInv, OFTypeOK
<1>5. ASSUME NEW t \in Thread, Opening(t) PROVE MoveInv'
  <2>1. t \notin Transferring'
    BY <1>4, <1>5 DEF Opening, Transferring
  <2>2. \A u \in Thread \ {t} : pc'[u] = pc[u] /\ l'[u] = l[u]
    BY <1>4, <1>5 DEF Opening
  <2> QED BY <1>2, <1>5, <2>1, <2>2 DEF Opening
<1>6. ASSUME NEW t \in Thread, FetchHeader(t) PROVE MoveInv'
  <2>1. pc' = [pc EXCEPT ![t] = "idle"] /\ UNCHANGED <<data, l>>
    BY <1>6 DEF FetchHeader, Goto
  <2>2. t \notin Transferring' /\ \A u \in Thread \ {t} : pc'[u] = pc[u] /\ l'[u] = l[u]
    BY <1>4, <2>1 DEF Transferring
  <2> QED BY <1>2, <2>1, <2>2
<1>7. ASSUME NEW t \in Thread, Finish(t) PROVE MoveInv'
  <2>1. /\ pc' = [pc EXCEPT ![t] = "idle"] /\ UNCHANGED data
        /\ \A u \in Thread \ {t} : l'[u] = l[u]
    BY <1>1, <1>7, FinishEffect
  <2>2. t \notin Transferring' /\ \A u \in Thread \ {t} : pc'[u] = pc[u] /\ l'[u] = l[u]
    BY <1>4, <2>1 DEF Transferring
  <2> QED BY <1>2, <2>1, <2>2
<1>8. ASSUME NEW t \in Thread, ReadSector(t) \/ FetchSector(t) \/ WriteSector(t) PROVE MoveInv'
  BY <1>1, <1>8, ReadMove, FetchMove, WriteMove
<1>9. ASSUME NEW t \in Thread, NEW o \in Local, NEW where \in {"read", "fetch"},
             Requested(o, "read") \/ Requested(o, "write"), Start(t, o, where)
      PROVE  MoveInv'
  BY <1>1, <1>9, StartMove
<1>10. CASE Quiet \/ \E i \in Index : Closing(i)
  BY <1>3, <1>10 DEF Quiet, Closing
<1> QED BY <1>1, <1>5, <1>6, <1>7, <1>8, <1>9, <1>10 DEF StepCases

(* What ends, ends as it should. *)
LEMMA AskedCovered ==
    ASSUME NEW t \in Transferring, MoveInv
    PROVE  \A b \in Asked(l[t]) : b \in FileByte /\ Covers(l[t], b)
<1>1. Moving(t) /\ l[t] \in Local
  BY DEF Transferring, MoveInv, TypeInv, PlaceOK, OFTypeOK
<1>2. /\ l[t].first \in Nat /\ l[t].n \in Nat /\ l[t].n > 0
      /\ l[t].first + l[t].n <= FileLength
      /\ l[t].last = SectorOf(l[t].first + l[t].n - 1)
  BY <1>1 DEF Moving, Local
<1> TAKE b \in Asked(l[t])
<1>3. /\ b \in Nat /\ b \in FileByte /\ l[t].first <= b
      /\ b <= l[t].first + l[t].n - 1 /\ l[t].first + l[t].n - 1 \in Nat
  BY <1>2, OpenFilesAssumption DEF Asked, FileByte
<1> QED BY <1>2, <1>3, SectorOrder DEF Covers

LEMMA MoveReads == MoveInv => ReadsExact
<1> SUFFICES ASSUME MoveInv, NEW t \in Thread, pc[t] = "finish", l[t].kind = "read",
                    NEW b \in Asked(l[t])
             PROVE  l[t].buf[b] # Garbage /\ (l[t].alone => l[t].buf[b] = l[t].before[b])
  BY DEF ReadsExact
<1>1. t \in Transferring
  BY DEF Transferring
<1>2. ReadSoFar(l[t]) /\ l[t].next = l[t].last + 1 /\ l[t] \in Local
  BY <1>1 DEF MoveInv, Exact, TypeInv, PlaceOK, OFTypeOK, Moving
<1>3. b \in FileByte /\ Covers(l[t], b)
  BY <1>1, AskedCovered
<1>4. SectorOf(b) \in Nat /\ l[t].last \in Int
  BY <1>2, <1>3, FileBytes, SectorBounds DEF Local
<1>5. SectorOf(b) < l[t].next
  BY <1>2, <1>3, <1>4 DEF Covers
<1> QED BY <1>2, <1>3, <1>5 DEF ReadSoFar

LEMMA MoveWrites == MoveInv => WritesExact
<1> SUFFICES ASSUME MoveInv PROVE WritesExact
  OBVIOUS
<1>1. \A f \in File : \A b \in InFile(0..LastByte) : data[f][b] # Garbage
  BY DEF MoveInv, NoGarbage, InFile, FileByte
<1>2. ASSUME NEW t \in Thread, pc[t] = "finish", l[t].kind = "write", l[t].alone,
             NEW s \in SectorsIn(l[t].first, l[t].n), NEW b \in InFile(BytesOf(s))
      PROVE  data[l[t].file][b] = IF b \in Asked(l[t]) THEN l[t].val ELSE l[t].before[b]
  <2>1. t \in Transferring
    BY <1>2 DEF Transferring
  <2>2. /\ OnDisk(l[t]) /\ l[t].next = l[t].last + 1 /\ l[t] \in Local
        /\ l[t].last = SectorOf(l[t].first + l[t].n - 1)
    BY <1>2, <2>1 DEF MoveInv, Exact, TypeInv, PlaceOK, OFTypeOK, Moving
  <2>3. l[t].first \in Nat /\ l[t].last \in Int
    BY <2>2 DEF Local
  <2>4. SectorOf(l[t].first) \in Nat
    BY <2>3, SectorBounds
  <2>5. b \in FileByte /\ b \in Nat
    BY <1>2, FileBytes DEF InFile, FileByte
  <2>6. s \in Nat /\ SectorOf(l[t].first) <= s /\ s <= l[t].last
    BY <1>2, <2>2, <2>3, <2>4 DEF SectorsIn
  <2>7. SectorOf(b) = s
    BY <1>2, <2>5, <2>6, InSector DEF InFile
  <2>8. Covers(l[t], b) /\ SectorOf(b) < l[t].next
    BY <2>2, <2>3, <2>6, <2>7 DEF Covers
  <2> QED BY <1>2, <2>2, <2>5, <2>8 DEF OnDisk
<1> QED BY <1>1, <1>2 DEF WritesExact

(* OpenFile::ReadAt gives the caller the bytes of the file from the position *)
(* on, whatever the size of the sectors, the length of the file, the         *)
(* position and the number of bytes, and however other threads interleave;   *)
(* with a write to the same sectors under way, it still gives bytes that     *)
(* were in the file.                                                         *)
THEOREM ReadsExactProved == OpenFilesSpec => []ReadsExact
<1>1. OpenFilesInit => MoveInv
  BY InitMove
<1>2. MoveInv /\ [OpenFilesNext]_ofVars => MoveInv'
  BY NextMove
<1>3. MoveInv => ReadsExact
  BY MoveReads
<1> QED BY <1>1, <1>2, <1>3, PTL DEF OpenFilesSpec

(* OpenFile::WriteAt changes the bytes it was asked to and keeps the rest of *)
(* the first and of the last sector, which it fetched before: for every      *)
(* sector size and every position within the file, if no other write to its  *)
(* sectors is under way; and no write at all leaves a byte of its buffer     *)
(* that was never set in the file.                                           *)
THEOREM WritesExactProved == OpenFilesSpec => []WritesExact
<1>1. OpenFilesInit => MoveInv
  BY InitMove
<1>2. MoveInv /\ [OpenFilesNext]_ofVars => MoveInv'
  BY NextMove
<1>3. MoveInv => WritesExact
  BY MoveWrites
<1> QED BY <1>1, <1>2, <1>3, PTL DEF OpenFilesSpec
=============================================================================
