------------------------- MODULE FileSystem_proofs -------------------------
(***************************************************************************)
(* Proofs of the safety of the file system, for any number of threads,     *)
(* sectors, names and paths.                                               *)
(*                                                                         *)
(* While no operations overlapped, none was cut off and nothing was        *)
(* written or freed astray, the tables on the disk, the free map and the   *)
(* history agree as Tidy says (Clean).  After the first accident only the  *)
(* bystanders are spoken of: Calm says what keeps the threads, with        *)
(* whatever stale tables, maps and headers they hold, away from them.      *)
(* Clean implies Calm.                                                     *)
(***************************************************************************)
EXTENDS FileSystem, FiniteSetTheorems, WellFoundedInduction, TLAPS

-----------------------------------------------------------------------------
(* Types. *)

Headers  == [kind : {"header"}, data : Seq(Sector), lost : SUBSET Sector]
(* ".." of a directory made in one without "." leads to -1. *)
Entries  == {e \in [inUse : BOOLEAN, name : Name \cup {".", ".."}, isDirectory : BOOLEAN,
                    sector : Sector \cup {-1}] : e.name \in Name => e.sector \in Sector}
Tables   == [kind : {"table"}, table : [Index -> Entries]]
Maps     == [kind : {"map"}, marked : SUBSET Sector]
Contents == Headers \cup Tables \cup Maps \cup {Nothing}
Disks    == {D \in [Sector -> Contents] : D[MapData] \in Maps}

Kinds    == {"create file", "create dir", "remove file", "remove dir"}
Sizes    == FileSizes \cup {0, DirSectors}
Ops      == [kind : Kinds \cup {"none"}, path : Seq(Name), name : Name \cup {"."}, size : Sizes]
Locals   == [op : Ops, cwd : [sector : Sector, data : Seq(Sector)], walk : Seq(Name),
             dir : [Index -> Entries], map : SUBSET Sector, hdr : Headers, old : Headers,
             sector : Sector \cup {-1}]
Files    == [path : Seq(Name), name : Name, isDir : BOOLEAN, sector : Sector, hdr : Headers]

MakingHdr == {"fetch old", "write new dir", "write hdr"}
Making    == MakingHdr \cup {"write dir", "write map"}
Fetched   == {"fetch hdr"} \cup {"fetch rm dir", "free", "write map first", "write dir last"}
HasDir    == {"fetch map"} \cup Making \cup Fetched
Places    == {"idle", "walk", "walk open", "fetch dir"} \cup HasDir

(* The rest of the way is the end of the path. *)
Suffix(p, w) == /\ Len(w) <= Len(p)
                /\ \A i \in 1..Len(w) : w[i] = p[(Len(p) - Len(w)) + i]
Walked(L)    == SubSeq(L.op.path, 1, Len(L.op.path) - Len(L.walk))

(* A thread at place k with locals L. *)
PhaseOK(k, L) ==
    /\ L.op.kind \in Kinds /\ L.op.name \in Name
    /\ L.op.kind = "create dir" => L.op.size = DirSectors
    /\ Suffix(L.op.path, L.walk)
    /\ k = "walk" => L.walk # <<>>
    /\ k \in {"fetch dir"} \cup HasDir => L.walk = <<>>
    /\ k \in {"fetch map"} \cup Making => L.op.kind \in {"create file", "create dir"}
    /\ k \in {"fetch old", "write new dir"} => L.op.kind = "create dir"
    /\ k \in Making => L.sector \in Sector
    /\ k \in Fetched \cup {"walk open"} => L.sector \in Sector
    /\ k \in Fetched => L.op.kind \in {"remove file", "remove dir"}
    /\ k \in {"fetch hdr", "fetch rm dir", "free"} => FindIndex(L.dir, L.op.name) # {}

TypesOK ==
    /\ disk \in Disks
    /\ pc \in [Thread -> Places]
    /\ l \in [Thread -> Locals]
    /\ files \subseteq Files
    /\ orphans \subseteq Sector
    /\ suspects \subseteq Seq(Name) \X Name
    /\ \A t \in Busy : PhaseOK(pc[t], l[t])

(* Without suspects, one operation is under way at most. *)
SuspectsOK ==
    /\ suspects # {} => \A t \in Busy : Target(l[t].op) \in suspects
    /\ suspects = {} => \A t, u \in Busy : t = u

-----------------------------------------------------------------------------
(* What the disk holds. *)

Fixed       == 0..3
DataSet(h)  == Range(h.data) \cup h.lost
Obj(D, x)   == {x} \cup DataSet(D[x])

(* Entry i of the table in sector s is in use; its name, and its file. *)
Slot(D, s, i) == D[s].kind = "table" /\ D[s].table[i].inUse /\ D[s].table[i].name \in Name
Nam(D, s, i)  == D[s].table[i].name
Sec(D, s, i)  == D[s].table[i].sector

(* The table a directory file leads to. *)
FetchIn(D, f) == IF f.data = <<>> THEN EmptyTable ELSE AsTable(D[f.data[1]])

(* s is the sector of the table of directory p, among the files F. *)
Leads(F, p, s) ==
    \/ p = <<>> /\ s = RootData
    \/ \E d \in F : d.isDir /\ Append(d.path, d.name) = p /\ s = d.hdr.data[1]
DirIn(F, p) == p = <<>> \/ \E d \in F : d.isDir /\ Append(d.path, d.name) = p

AllOf(F)    == UNION {AllSectors(f) : f \in F}

KeysOK(F) ==
    /\ \A f, g \in F : f.path = g.path /\ f.name = g.name => f = g
    /\ \A f \in F : f.isDir => f.hdr.data # <<>>

(* A header in sector x, all within the marked sectors M. *)
Placed(D, M, x) ==
    x \in Sector /\ D[x] \in Headers /\ x \notin DataSet(D[x]) /\ Obj(D, x) \subseteq M \ Fixed

(* Every entry leads to a file of its own. *)
EntriesApart(D, M) ==
    /\ \A s \in Sector, i \in Index : Slot(D, s, i) => Placed(D, M, Sec(D, s, i))
    /\ \A s, r \in Sector, i, j \in Index :
          Slot(D, s, i) /\ Slot(D, r, j) /\ (s # r \/ i # j)
            => Obj(D, Sec(D, s, i)) \cap Obj(D, Sec(D, r, j)) = {}
    /\ \A s \in Sector, i, j \in Index :
          Slot(D, s, i) /\ Slot(D, s, j) /\ Nam(D, s, i) = Nam(D, s, j) => i = j

(* The files are the entries of the directories. *)
Listed(D, F, f) ==
    \E s \in Sector, i \in Index : /\ Slot(D, s, i) /\ Leads(F, f.path, s)
                                  /\ Nam(D, s, i) = f.name /\ Sec(D, s, i) = f.sector
FilesListed(D, F) ==
    /\ \A f \in F : D[f.sector] = f.hdr /\ Listed(D, F, f)
    /\ \A f, g \in F : f # g => AllSectors(f) \cap AllSectors(g) = {}
    /\ \A s \in Sector, i \in Index, p \in Seq(Name) :
          Slot(D, s, i) /\ Leads(F, p, s) =>
            \E f \in F : f.path = p /\ f.name = Nam(D, s, i) /\ f.sector = Sec(D, s, i)

Tidy(D, M, F, O) ==
    /\ EntriesApart(D, M)
    /\ FilesListed(D, F)
    /\ KeysOK(F)
    /\ M = Fixed \cup O \cup AllOf(F)

-----------------------------------------------------------------------------
(* One operation at a time.  D is the disk, M what its map marks, F the      *)
(* files, O the orphans, k and L place and locals of the thread.             *)

NewFile(L) == [path |-> L.op.path, name |-> L.op.name, isDir |-> L.op.kind = "create dir",
               sector |-> L.sector, hdr |-> L.hdr]
FilesAfter(F, L) ==
    IF DirIn(F, L.op.path)
    THEN {g \in F : <<g.path, g.name>> # Target(L.op)} \cup {NewFile(L)} ELSE F
OrphansAfter(F, O, L) == IF DirIn(F, L.op.path) THEN O ELSE O \cup AllSectors(NewFile(L))

(* The sectors of the file a thread makes or removes. *)
Work(L) == {L.sector} \cup DataSet(L.hdr)

(* currentDirectory is the directory the path leads to, or within a file     *)
(* that is no directory.                                                     *)
CwdClean(D, M, F, L) ==
    /\ DirIn(F, Walked(L)) => L.cwd.data # <<>> /\ Leads(F, Walked(L), L.cwd.data[1])
    /\ ~DirIn(F, Walked(L)) /\ L.cwd.data # <<>> =>
          \E s \in Sector, i \in Index :
              /\ s \in M /\ Slot(D, s, i) /\ L.cwd.data[1] \in DataSet(D[Sec(D, s, i)])
              /\ \A d \in F : d.isDir => d.sector # Sec(D, s, i)

OpenClean(D, M, F, L) ==
    /\ \E s \in Sector, i \in Index : s \in M /\ Slot(D, s, i) /\ Sec(D, s, i) = L.sector
    /\ \/ \E f \in F : f.sector = L.sector /\ Append(f.path, f.name) = Walked(L)
       \/ ~DirIn(F, Walked(L)) /\ \A f \in F : f.sector # L.sector

(* A new file, in memory: its sectors are marked in memory only. *)
NewClean(M, L) ==
    /\ L.sector \notin DataSet(L.hdr) /\ Work(L) \cap M = {} /\ L.map = M \cup Work(L)
    /\ L.op.kind = "create dir" => L.hdr.data # <<>>

MadeClean(D, k, L) ==
    /\ FindIndex(FetchIn(D, L.cwd), L.op.name) = {} /\ Room(FetchIn(D, L.cwd)) # {}
    /\ L.dir = Add(FetchIn(D, L.cwd), L.op.name, L.op.kind = "create dir", L.sector)
    /\ k \in {"write hdr", "write dir"} /\ L.op.kind = "create dir" =>
          \A i \in Index : ~Slot(D, L.hdr.data[1], i)
    /\ k = "write dir" => D[L.sector] = L.hdr

(* The entry of the file to be removed. *)
FoundClean(D, M, k, L) ==
    /\ L.cwd.data # <<>>
    /\ \E i \in Index : /\ Slot(D, L.cwd.data[1], i)
                        /\ Nam(D, L.cwd.data[1], i) = L.op.name
                        /\ Sec(D, L.cwd.data[1], i) = L.sector
    /\ k # "fetch hdr" => L.hdr = D[L.sector]
    /\ k \notin {"write map first", "write dir last"} => L.dir = FetchIn(D, L.cwd)
    /\ k \in {"write map first", "write dir last"} =>
          L.dir = RemoveEntry(FetchIn(D, L.cwd), L.op.name)
    /\ k = "write map first" => L.map = M \ Work(L)

CleanLocal(D, M, F, k, L) ==
    /\ k \notin {"walk open", "write map", "write dir last"} => CwdClean(D, M, F, L)
    /\ k = "write dir last" => CwdClean(D, M \cup Work(L), F, L)
    /\ k = "walk open" => OpenClean(D, M, F, L)
    /\ k = "fetch map" => L.dir = FetchIn(D, L.cwd) /\ FindIndex(L.dir, L.op.name) = {}
    /\ k \in Making => NewClean(M, L)
    /\ k \in Making \ {"write map"} => MadeClean(D, k, L)
    /\ k \in Fetched => FoundClean(D, M, k, L)

CleanDisk(D, M, F, O, k, L) ==
    /\ k \notin {"write map", "write dir last"} => Tidy(D, M, F, O)
    /\ k = "write map" => /\ Tidy(D, L.map, FilesAfter(F, L), OrphansAfter(F, O, L))
                          /\ Fixed \cup AllOf(F) \subseteq M /\ F \subseteq FilesAfter(F, L)
    /\ k = "write dir last" => Tidy(D, M \cup Work(L), F, O) /\ M \cap Work(L) = {}

CleanOne(D, M, F, O, k, L) ==
    /\ k = "idle" => Tidy(D, M, F, O)
    /\ k # "idle" => CleanLocal(D, M, F, k, L) /\ CleanDisk(D, M, F, O, k, L)

Clean ==
    /\ Busy = {} => Tidy(disk, MapMarks, files, orphans)
    /\ \A t \in Busy : CleanOne(disk, MapMarks, files, orphans, pc[t], l[t])

-----------------------------------------------------------------------------
(* After an accident.  B are the bystanders. *)

By         == {f \in files : Bystander(f)}
Guarded(B) == Fixed \cup AllOf(B)

(* x is no sector of a bystander, and neither is any its header names. *)
Safe(D, B, x) == /\ x \in Sector \ Guarded(B)
                 /\ D[x].kind = "header" => DataSet(D[x]) \cap Guarded(B) = {}

(* An entry n, x of the table in sector s is that of a bystander. *)
Own(B, s, n, x) == \E f \in B : f.name = n /\ f.sector = x /\ Leads(B, f.path, s)

ByIntact(D, B, F) ==
    \A f \in B :
        /\ D[f.sector] = f.hdr /\ f.sector \notin DataSet(f.hdr)
        /\ AllSectors(f) \cap Fixed = {}
        /\ \E s \in Sector : /\ Leads(B, f.path, s) /\ D[s].kind = "table"
                             /\ Find(D[s].table, f.name) = f.sector
        /\ \A g \in F \ {f} : AllSectors(f) \cap AllSectors(g) = {}

TablesCalm(D, B) ==
    \A s \in Sector, i \in Index :
        Slot(D, s, i) => Safe(D, B, Sec(D, s, i)) \/ Own(B, s, Nam(D, s, i), Sec(D, s, i))

CwdCalm(B, L) ==
    L.cwd.data # <<>> =>
        /\ L.cwd.data[1] \notin 0..2
        /\ \A f \in B : f.sector # L.cwd.data[1]
        /\ \A p \in Seq(Name) : Leads(B, p, L.cwd.data[1]) => p = Walked(L)

OpenCalm(D, B, L) ==
    \/ Safe(D, B, L.sector)
    \/ \E f \in B : f.sector = L.sector /\ Append(f.path, f.name) = Walked(L)

(* What a table in memory would do to the disk. *)
TableCalm(D, B, c, t, X) ==
    /\ \A f \in B : Leads(B, f.path, c) => Find(t, f.name) = f.sector
    /\ \A i \in Index : t[i].inUse /\ t[i].name \in Name =>
          Safe(D, B, t[i].sector) \/ Own(B, c, t[i].name, t[i].sector) \/ t[i].sector \in X
DirCalm(D, B, k, L) ==
    L.cwd.data # <<>> =>
        TableCalm(D, B, L.cwd.data[1], L.dir, IF k \in MakingHdr THEN {L.sector} ELSE {})

CalmLocal(D, B, k, L) ==
    /\ k \notin {"walk open", "write map"} => CwdCalm(B, L)
    /\ k = "walk open" => OpenCalm(D, B, L)
    /\ k \in HasDir \ {"write map"} => DirCalm(D, B, k, L)
    /\ k \in Making /\ L.op.kind = "create dir" => L.hdr.data # <<>>
    /\ k \in Making \cup {"fetch rm dir", "free"} => Work(L) \cap Guarded(B) = {}
    /\ k \in Making \cup {"write map first"} => Guarded(B) \subseteq L.map
    /\ k = "fetch hdr" => Safe(D, B, L.sector)

(* Bystanders, the disk and its map. *)
CalmTree(D, B, F) == KeysOK(F) /\ ByIntact(D, B, F) /\ TablesCalm(D, B)
CalmDisk(D, B, F) == CalmTree(D, B, F) /\ Guarded(B) \subseteq D[MapData].marked

Calm ==
    /\ CalmDisk(disk, By, files)
    /\ \A t \in Busy : CalmLocal(disk, By, pc[t], l[t])

Good ==
    /\ TypesOK /\ SuspectsOK
    /\ suspects = {} => Clean
    /\ suspects # {} => Calm


-----------------------------------------------------------------------------
(* Numbers, sequences and tables. *)

(* Every set of numbers that holds 0 and the successor of each of its        *)
(* members holds all of them: induction, for a set.                          *)
LEMMA SetInduction ==
  ASSUME NEW S, 0 \in S, \A n \in Nat : n \in S => n + 1 \in S
  PROVE  Nat \subseteq S
<1> DEFINE T == Nat \ S
<1> SUFFICES ASSUME T # {} PROVE FALSE
  OBVIOUS
<1>1. PICK x \in T : \A y \in T : ~ (<<y, x>> \in OpToRel(<, Nat))
  BY NatLessThanWellFounded, WFMin
<1>2. \A y \in T : ~(y < x)
  BY <1>1 DEF OpToRel
<1>3. x # 0 /\ x - 1 \in Nat /\ x - 1 < x
  OBVIOUS
<1>4. x - 1 \in S
  BY <1>2, <1>3
<1> QED BY <1>3, <1>4

LEMMA MinIs ==
  ASSUME NEW S, S \subseteq Nat, S # {}
  PROVE  Min(S) \in S /\ \A y \in S : Min(S) <= y
<1>1. PICK x \in S : \A y \in S : ~ (<<y, x>> \in OpToRel(<, Nat))
  BY NatLessThanWellFounded, WFMin
<1>2. x \in Nat /\ \A y \in S : y \in Nat
  OBVIOUS
<1>3. \A y \in S : ~(y < x)
  BY <1>1, <1>2 DEF OpToRel
<1>4. \A y \in S : x <= y
  BY <1>2, <1>3
<1> QED BY <1>4 DEF Min

LEMMA Basics ==
  /\ NumSectors \in Nat /\ NumDirEntries \in Nat /\ NumDirect \in Nat /\ NumDirect > 0
  /\ Sector \subseteq Nat /\ Index \subseteq Nat /\ IsFiniteSet(Sector)
  /\ Fixed \subseteq Sector /\ 0 \in Sector /\ 1 \in Sector /\ 2 \in Sector /\ 3 \in Sector
  /\ 0 \in Index /\ 1 \in Index /\ -1 \notin Sector
  /\ DirSectors \in Nat /\ DirSectors > 0 /\ FileSizes \subseteq Nat /\ Sizes \subseteq Nat
  /\ "." \notin Name /\ ".." \notin Name /\ DirPath \subseteq Seq(Name)
<1>1. NumSectors \in Nat /\ NumSectors > 4 /\ NumDirEntries \in Nat /\ NumDirEntries > 2
      /\ NumDirect \in Nat /\ NumDirect > 0 /\ DirSectors \in Nat /\ DirSectors > 0
      /\ FileSizes \subseteq Nat
      /\ "." \notin Name /\ ".." \notin Name /\ DirPath \subseteq Seq(Name)
  BY FileSystemAssumption
<1>2. IsFiniteSet(Sector)
  BY <1>1, FS_Interval DEF Sector
<1> QED BY <1>1, <1>2 DEF Sector, Index, Fixed, Sizes

LEMMA Shapes ==
  /\ Unused \in Entries /\ EmptyTable \in [Index -> Entries]
  /\ \A i \in Index : EmptyTable[i] = Unused
  /\ \A n \in Name \cup {".", ".."}, d \in BOOLEAN, s \in Sector : Entry(n, d, s) \in Entries
  /\ Header(<<>>, {}) \in Headers
  /\ NoOp \in Ops /\ Idle \in Locals
<1>1. Unused \in Entries /\ EmptyTable \in [Index -> Entries]
      /\ \A i \in Index : EmptyTable[i] = Unused
  BY Basics DEF Unused, Entries, EmptyTable
<1>2. \A n \in Name \cup {".", ".."}, d \in BOOLEAN, s \in Sector : Entry(n, d, s) \in Entries
  BY DEF Entry, Entries
<1>3. Header(<<>>, {}) \in Headers
  BY DEF Header, Headers
<1>4. NoOp \in Ops
  BY DEF NoOp, Ops, Sizes
<1>5. RootFile \in [sector : Sector, data : Seq(Sector)]
  BY Basics DEF RootFile, DirectorySector, RootData
<1>6. Idle \in Locals
  BY <1>1, <1>3, <1>4, <1>5, Basics DEF Idle, Locals
<1> QED BY <1>1, <1>2, <1>3, <1>4, <1>6

LEMMA NoEntries == \A i \in Index : ~EmptyTable[i].inUse
BY Shapes DEF Unused

-----------------------------------------------------------------------------
(* FileHeader::Allocate. *)

(* The recursion of Marks defines a function. *)
LEMMA MarksExist ==
  ASSUME NEW m, NEW N \in Nat
  PROVE  \E f : f = [k \in 0..N |-> IF k = 0 THEN m ELSE f[k - 1] \cup {FindClear(f[k - 1])}]
<1> DEFINE Mark(x) == x \cup {FindClear(x)}
           Has(k) == \E f : f = [n \in 0..k |-> IF n = 0 THEN m ELSE Mark(f[n - 1])]
           S == {k \in Nat : Has(k)}
<1> HIDE DEF Mark
<1>1. 0 \in S
  <2>1. PICK f : f = [n \in 0..0 |-> m]
    OBVIOUS
  <2>2. f = [n \in 0..0 |-> IF n = 0 THEN m ELSE Mark(f[n - 1])]
    BY <2>1
  <2> QED BY <2>2
<1>2. ASSUME NEW k \in Nat, k \in S PROVE k + 1 \in S
  <2>1. PICK f : f = [n \in 0..k |-> IF n = 0 THEN m ELSE Mark(f[n - 1])]
    BY <1>2
  <2>2. PICK g : g = [n \in 0..(k + 1) |-> IF n = k + 1 THEN Mark(f[k]) ELSE f[n]]
    OBVIOUS
  <2>3. \A n \in 0..k : g[n] = f[n] /\ f[n] = IF n = 0 THEN m ELSE Mark(f[n - 1])
    BY <2>1, <2>2
  <2>4. \A n \in 0..(k + 1) : g[n] = IF n = 0 THEN m ELSE Mark(g[n - 1])
    <3> TAKE n \in 0..(k + 1)
    <3>1. CASE n = k + 1
      <4>1. n - 1 = k /\ g[k] = f[k] /\ g[n] = Mark(f[k]) /\ n # 0
        BY <2>2, <2>3, <3>1
      <4> QED BY <4>1
    <3>2. CASE n # k + 1
      <4>1. n \in 0..k /\ (n # 0 => n - 1 \in 0..k)
        BY <3>2
      <4> QED BY <2>3, <4>1
    <3> QED BY <3>1, <3>2
  <2>5. g = [n \in 0..(k + 1) |-> IF n = 0 THEN m ELSE Mark(g[n - 1])]
    BY <2>2, <2>4
  <2> QED BY <2>5
<1> HIDE DEF Has
<1>3. Nat \subseteq S
  BY <1>1, <1>2, SetInduction
<1>4. Has(N)
  BY <1>3
<1> QED BY Zenon, <1>4 DEF Has, Mark

LEMMA MarksStep ==
  ASSUME NEW m, NEW N \in Nat
  PROVE  /\ Marks(m, N)[0] = m
         /\ \A k \in 1..N : Marks(m, N)[k] = Marks(m, N)[k - 1] \cup {FindClear(Marks(m, N)[k - 1])}
<1> DEFINE f == CHOOSE f : f = [k \in 0..N |-> IF k = 0 THEN m ELSE f[k - 1] \cup {FindClear(f[k - 1])}]
<1>1. f = [k \in 0..N |-> IF k = 0 THEN m ELSE f[k - 1] \cup {FindClear(f[k - 1])}]
  <2>1. \E g : g = [k \in 0..N |-> IF k = 0 THEN m ELSE g[k - 1] \cup {FindClear(g[k - 1])}]
    <3>1. N \in Nat
      OBVIOUS
    <3> HIDE DEF f
    <3>2. \A n \in Nat : \E g : g = [k \in 0..n |-> IF k = 0 THEN m ELSE g[k - 1] \cup {FindClear(g[k - 1])}]
      BY MarksExist
    <3> QED BY ONLY Zenon, <3>1, <3>2
  <2> QED BY Zenon, <2>1
<1>2. Marks(m, N) = f
  BY DEF Marks
<1> HIDE DEF f
<1> DEFINE Mark(x) == x \cup {FindClear(x)}
<1> HIDE DEF Mark
<1>3. f = [k \in 0..N |-> IF k = 0 THEN m ELSE Mark(f[k - 1])]
  BY Zenon, <1>1 DEF Mark
<1>4. \A k \in 0..N : f[k] = IF k = 0 THEN m ELSE Mark(f[k - 1])
  BY <1>3
<1>5. f[0] = m /\ \A k \in 1..N : f[k] = Mark(f[k - 1])
  BY <1>4
<1> QED BY <1>2, <1>5 DEF Mark

LEMMA MarksGrow ==
  ASSUME NEW m, m \subseteq Sector, NEW N \in Nat, N <= Cardinality(Clear(m))
  PROVE  \A k \in 0..N : /\ Marks(m, N)[k] \subseteq Sector /\ m \subseteq Marks(m, N)[k]
                         /\ Cardinality(Clear(Marks(m, N)[k])) = Cardinality(Clear(m)) - k
                         /\ Marks(m, N)[k] = m \cup {FindClear(Marks(m, N)[j - 1]) : j \in 1..k}
<1> DEFINE f == Marks(m, N)
           x(j) == FindClear(f[j - 1])
           P(k) == /\ f[k] \subseteq Sector /\ m \subseteq f[k]
                   /\ Cardinality(Clear(f[k])) = Cardinality(Clear(m)) - k
                   /\ f[k] = m \cup {x(j) : j \in 1..k}
           S == {k \in Nat : k <= N => P(k)}
<1>1. f[0] = m /\ \A k \in 1..N : f[k] = f[k - 1] \cup {x(k)}
  BY MarksStep
<1>2. \A q : IsFiniteSet(Clear(q)) /\ Cardinality(Clear(q)) \in Nat
  BY Basics, FS_Subset, FS_CardinalityType DEF Clear
<1> HIDE DEF f
<1>3. 0 \in S
  <2>1. Cardinality(Clear(m)) - 0 = Cardinality(Clear(m))
    BY <1>2
  <2>2. {x(j) : j \in 1..0} = {}
    OBVIOUS
  <2> QED BY <1>1, <2>1, <2>2
<1>4. ASSUME NEW k \in Nat, k \in S PROVE k + 1 \in S
  <2> SUFFICES ASSUME k + 1 <= N PROVE P(k + 1)
    OBVIOUS
  <2>1. P(k) /\ k + 1 \in 1..N /\ (k + 1) - 1 = k
    BY <1>4
  <2>2. x(k + 1) = FindClear(f[k]) /\ f[k + 1] = f[k] \cup {x(k + 1)}
    BY <1>1, <2>1
  <2>3. Clear(f[k]) # {}
    <3>1. Cardinality(Clear(f[k])) # 0
      BY <1>2, <2>1
    <3> QED BY <3>1, FS_EmptySet
  <2>4. x(k + 1) \in Clear(f[k])
    <3>1. Clear(f[k]) \subseteq Nat
      BY Basics DEF Clear
    <3> QED BY <2>2, <2>3, <3>1, MinIs DEF FindClear
  <2>5. Clear(f[k + 1]) = Clear(f[k]) \ {x(k + 1)}
    BY <2>2, <2>4 DEF Clear
  <2>6. Cardinality(Clear(f[k + 1])) = Cardinality(Clear(f[k])) - 1
    <3>1. PICK C : C = Clear(f[k])
      OBVIOUS
    <3>2. PICK y : y = x(k + 1)
      OBVIOUS
    <3>3. IsFiniteSet(C) /\ y \in C
      BY <1>2, <2>4, <3>1, <3>2
    <3>4. Cardinality(C \ {y}) = Cardinality(C) - 1
      BY ONLY <3>3, FS_RemoveElement
    <3> QED BY <2>5, <3>1, <3>2, <3>4
  <2>7. f[k + 1] \subseteq Sector /\ m \subseteq f[k + 1]
    BY <2>1, <2>2, <2>4 DEF Clear
  <2>8. {x(j) : j \in 1..(k + 1)} = {x(j) : j \in 1..k} \cup {x(k + 1)}
    <3>1. 1..(k + 1) = (1..k) \cup {k + 1}
      OBVIOUS
    <3> HIDE DEF x
    <3> QED BY <3>1
  <2>9. Cardinality(Clear(f[k])) - 1 = Cardinality(Clear(m)) - (k + 1)
    BY <1>2, <2>1
  <2> HIDE DEF x
  <2> QED BY <2>1, <2>2, <2>6, <2>7, <2>8, <2>9
<1> HIDE DEF P
<1>5. Nat \subseteq S
  BY <1>3, <1>4, SetInduction
<1>6. \A k \in 0..N : P(k)
  BY <1>5
<1> QED BY <1>6 DEF P, f

(* The sectors allocated were clear, and are all that is newly marked. *)
LEMMA AllocateIs ==
  ASSUME NEW m, m \subseteq Sector, NEW n \in Nat, n <= Cardinality(Clear(m))
  PROVE  LET a == Allocate(m, n) IN
         /\ a.hdr \in Headers /\ a.map = m \cup DataSet(a.hdr)
         /\ DataSet(a.hdr) \cap m = {} /\ DataSet(a.hdr) \subseteq Sector
         /\ n > 0 => a.hdr.data # <<>>
<1> DEFINE f == Marks(m, n)
           taken == [k \in 1..n |-> FindClear(f[k - 1])]
           c == IF n < NumDirect THEN n ELSE NumDirect
           kept == SubSeq(taken, 1, c)
           h == Header(kept, Range(taken) \ Range(kept))
<1>1. Allocate(m, n) = [map |-> f[n], hdr |-> h]
  BY Zenon DEF Allocate
<1>2. \A k \in 0..n : /\ f[k] \subseteq Sector /\ m \subseteq f[k]
                      /\ Cardinality(Clear(f[k])) = Cardinality(Clear(m)) - k
                      /\ f[k] = m \cup {FindClear(f[j - 1]) : j \in 1..k}
  BY MarksGrow
<1> HIDE DEF f
<1>3. \A k \in 1..n : taken[k] \in Sector /\ taken[k] \notin m
  <2> TAKE k \in 1..n
  <2>1. k - 1 \in 0..n /\ k - 1 < n
    OBVIOUS
  <2>2. Cardinality(Clear(m)) \in Nat
    BY Basics, FS_Subset, FS_CardinalityType DEF Clear
  <2>3. Cardinality(Clear(f[k - 1])) # 0
    BY <1>2, <2>1, <2>2
  <2>4. Clear(f[k - 1]) # {}
    BY <2>3, FS_EmptySet
  <2>5. Clear(f[k - 1]) \subseteq Nat
    BY Basics DEF Clear
  <2>6. FindClear(f[k - 1]) \in Clear(f[k - 1])
    BY <2>4, <2>5, MinIs DEF FindClear
  <2> QED BY <1>2, <2>1, <2>6 DEF Clear
<1>4. Range(taken) = {FindClear(f[j - 1]) : j \in 1..n}
  BY DEF Range
<1>5. f[n] = m \cup Range(taken)
  BY <1>2, <1>4
<1>6. taken \in Seq(Sector) /\ Len(taken) = n
  BY <1>3
<1>7. Range(taken) \subseteq Sector /\ Range(taken) \cap m = {}
  BY <1>3, <1>4
<1>8. c \in Nat /\ c <= n /\ (n > 0 => c > 0)
  BY Basics
<1> HIDE DEF taken, c
<1>9. kept \in Seq(Sector) /\ Len(kept) = c /\ \A i \in 1..c : kept[i] = taken[i]
  BY <1>6, <1>8
<1>10. Range(kept) \subseteq Range(taken)
  BY <1>6, <1>8, <1>9 DEF Range
<1> HIDE DEF kept
<1>11. n > 0 => kept # <<>>
  <2>1. Len(<<>>) = 0
    OBVIOUS
  <2> QED BY <1>8, <1>9, <2>1
<1>12. h \in Headers /\ h.data = kept /\ h.lost = Range(taken) \ Range(kept)
  BY <1>7, <1>9 DEF Header, Headers
<1>13. DataSet(h) = Range(taken)
  BY <1>10, <1>12 DEF DataSet
<1> HIDE DEF h
<1>14. Allocate(m, n).hdr = h /\ Allocate(m, n).map = f[n]
  BY <1>1
<1> QED BY <1>5, <1>7, <1>11, <1>12, <1>13, <1>14

-----------------------------------------------------------------------------
(* Paths. *)

LEMMA AppendInj ==
  ASSUME NEW p \in Seq(Name), NEW q \in Seq(Name), NEW m \in Name, NEW n \in Name,
         Append(p, m) = Append(q, n)
  PROVE  p = q /\ m = n
<1>1. Len(Append(p, m)) = Len(p) + 1 /\ Len(Append(q, n)) = Len(q) + 1
  OBVIOUS
<1>2. Len(p) = Len(q)
  BY <1>1
<1>3. \A i \in 1..Len(p) : Append(p, m)[i] = p[i] /\ Append(q, n)[i] = q[i]
  BY <1>2
<1>4. Append(p, m)[Len(p) + 1] = m /\ Append(q, n)[Len(q) + 1] = n
  OBVIOUS
<1> QED BY <1>2, <1>3, <1>4

LEMMA AppendIsNone ==
  ASSUME NEW p \in Seq(Name), NEW n \in Name
  PROVE  Append(p, n) # <<>> /\ Append(p, n) \in Seq(Name)
<1>1. Len(Append(p, n)) = Len(p) + 1 /\ Len(<<>>) = 0 /\ Len(p) \in Nat
  OBVIOUS
<1>2. Append(p, n) # <<>>
  BY <1>1
<1> QED BY <1>2

LEMMA PrefixOf ==
  ASSUME NEW a \in Seq(Name), NEW q \in Seq(Name)
  PROVE  IsPrefix(a, q) <=> Len(a) <= Len(q) /\ \A i \in 1..Len(a) : a[i] = q[i]
<1>1. Len(a) \in Nat /\ Len(q) \in Nat
  OBVIOUS
<1>2. SubSeq(a, 1, Len(a)) = a
  OBVIOUS
<1>3. ASSUME Len(a) <= Len(q)
      PROVE  SubSeq(a, 1, Len(a)) = SubSeq(q, 1, Len(a)) <=> \A i \in 1..Len(a) : a[i] = q[i]
  <2> DEFINE r == SubSeq(q, 1, Len(a))
  <2>1. r \in Seq(Name) /\ Len(r) = Len(a) /\ \A i \in 1..Len(a) : r[i] = q[i]
    BY <1>1, <1>3
  <2> HIDE DEF r
  <2>2. a = r <=> \A i \in 1..Len(a) : a[i] = r[i]
    BY <2>1
  <2> QED BY <1>2, <2>1, <2>2 DEF r
<1> QED BY <1>1, <1>3 DEF IsPrefix

(* What lies under a directory, or is it. *)
LEMMA PrefixAppend ==
  ASSUME NEW a \in Seq(Name), NEW q \in Seq(Name), NEW n \in Name
  PROVE  IsPrefix(a, Append(q, n)) <=> IsPrefix(a, q) \/ a = Append(q, n)
<1> DEFINE b == Append(q, n)
<1>1. /\ b \in Seq(Name) /\ Len(b) = Len(q) + 1 /\ b[Len(q) + 1] = n
      /\ \A i \in 1..Len(q) : b[i] = q[i]
      /\ Len(a) \in Nat /\ Len(q) \in Nat
  OBVIOUS
<1> HIDE DEF b
<1>2. IsPrefix(a, b) <=> Len(a) <= Len(b) /\ \A i \in 1..Len(a) : a[i] = b[i]
  BY <1>1, PrefixOf
<1>3. IsPrefix(a, q) <=> Len(a) <= Len(q) /\ \A i \in 1..Len(a) : a[i] = q[i]
  BY PrefixOf
<1>4. CASE Len(a) <= Len(q)
  <2>1. a # b
    BY <1>1, <1>4
  <2>2. \A i \in 1..Len(a) : b[i] = q[i]
    BY <1>1, <1>4
  <2> QED BY <1>1, <1>2, <1>3, <1>4, <2>1, <2>2 DEF b
<1>5. CASE Len(a) > Len(q)
  <2>1. Len(a) = Len(b) => (a = b <=> \A i \in 1..Len(a) : a[i] = b[i])
    BY <1>1
  <2>2. ~IsPrefix(a, q)
    BY <1>1, <1>3, <1>5
  <2>3. Len(a) <= Len(b) <=> Len(a) = Len(b)
    BY <1>1, <1>5
  <2> QED BY <1>2, <2>1, <2>2, <2>3 DEF b
<1> QED BY <1>1, <1>4, <1>5

LEMMA PrefixTrans ==
  ASSUME NEW a \in Seq(Name), NEW b \in Seq(Name), NEW c \in Seq(Name),
         IsPrefix(a, b), IsPrefix(b, c)
  PROVE  IsPrefix(a, c)
<1>1. Len(a) <= Len(b) /\ \A i \in 1..Len(a) : a[i] = b[i]
  BY PrefixOf
<1>2. Len(b) <= Len(c) /\ \A i \in 1..Len(b) : b[i] = c[i]
  BY PrefixOf
<1>3. Len(a) \in Nat /\ Len(b) \in Nat /\ Len(c) \in Nat
  OBVIOUS
<1>4. Len(a) <= Len(c) /\ \A i \in 1..Len(a) : a[i] = c[i]
  BY <1>1, <1>2, <1>3
<1> QED BY <1>4, PrefixOf

(* The path walked so far, and a step further. *)
LEMMA WalkOn ==
  ASSUME NEW p \in Seq(Name), NEW w \in Seq(Name), Suffix(p, w), w # <<>>
  PROVE  /\ Tail(w) \in Seq(Name) /\ Head(w) \in Name /\ Suffix(p, Tail(w))
         /\ SubSeq(p, 1, Len(p) - Len(w)) \in Seq(Name)
         /\ SubSeq(p, 1, Len(p) - Len(Tail(w))) = Append(SubSeq(p, 1, Len(p) - Len(w)), Head(w))
<1>1. /\ Len(w) \in Nat /\ Len(p) \in Nat /\ Len(w) > 0
      /\ Tail(w) \in Seq(Name) /\ Len(Tail(w)) = Len(w) - 1 /\ Head(w) \in Name /\ Head(w) = w[1]
      /\ \A i \in 1..(Len(w) - 1) : Tail(w)[i] = w[i + 1]
  OBVIOUS
<1>2. Len(w) <= Len(p) /\ \A i \in 1..Len(w) : w[i] = p[(Len(p) - Len(w)) + i]
  BY DEF Suffix
<1>3. PICK k \in Nat : k = Len(p) - Len(w)
  <2>1. Len(p) - Len(w) \in Nat
    BY <1>1, <1>2
  <2> QED BY <2>1
<1>4. Len(p) - Len(Tail(w)) = k + 1 /\ k + 1 <= Len(p)
  BY <1>1, <1>3
<1>5. w[1] = p[k + 1]
  BY <1>1, <1>2, <1>3
<1>6. SubSeq(p, 1, k) \in Seq(Name) /\ SubSeq(p, 1, k + 1) = Append(SubSeq(p, 1, k), p[k + 1])
  BY <1>1, <1>4
<1>7. Suffix(p, Tail(w))
  <2>1. \A i \in 1..Len(Tail(w)) : Tail(w)[i] = p[(k + 1) + i]
    <3> TAKE i \in 1..Len(Tail(w))
    <3>1. i + 1 \in 1..Len(w) /\ i \in 1..(Len(w) - 1) /\ k + (i + 1) = (k + 1) + i
      BY <1>1
    <3> QED BY <1>1, <1>2, <1>3, <3>1
  <2> QED BY <1>1, <1>2, <1>4, <2>1 DEF Suffix
<1> QED BY <1>1, <1>3, <1>4, <1>5, <1>6, <1>7

LEMMA WalkEnds ==
  ASSUME NEW p \in Seq(Name)
  PROVE  /\ SubSeq(p, 1, Len(p) - Len(<<>>)) = p
         /\ SubSeq(p, 1, Len(p) - Len(p)) = <<>> /\ Suffix(p, p)
<1>1. Len(p) \in Nat /\ Len(<<>>) = 0
  OBVIOUS
<1>2. Len(p) - Len(<<>>) = Len(p) /\ Len(p) - Len(p) = 0
  BY <1>1
<1>3. SubSeq(p, 1, Len(p)) = p /\ SubSeq(p, 1, 0) = <<>>
  OBVIOUS
<1>4. Suffix(p, p)
  BY <1>1 DEF Suffix
<1> QED BY <1>2, <1>3, <1>4

-----------------------------------------------------------------------------
(* Directory tables. *)

(* Find returns the sector of the first entry of the name, or -1. *)
LEMMA FindIs ==
  ASSUME NEW t \in [Index -> Entries], NEW n
  PROVE  /\ n \in Name => (Find(t, n) = -1 <=> FindIndex(t, n) = {})
         /\ Find(t, n) \in Sector \cup {-1}
         /\ FindIndex(t, n) # {} =>
              /\ Min(FindIndex(t, n)) \in Index
              /\ t[Min(FindIndex(t, n))].inUse /\ t[Min(FindIndex(t, n))].name = n
              /\ Find(t, n) = t[Min(FindIndex(t, n))].sector
              /\ n \in Name => Find(t, n) \in Sector
<1>1. FindIndex(t, n) \subseteq Nat
  BY Basics DEF FindIndex
<1>2. FindIndex(t, n) # {} => Min(FindIndex(t, n)) \in FindIndex(t, n)
  BY <1>1, MinIs
<1>3. FindIndex(t, n) # {} => Find(t, n) = t[Min(FindIndex(t, n))].sector
  BY DEF Find
<1>4. \A i \in FindIndex(t, n) :
         /\ i \in Index /\ t[i].inUse /\ t[i].name = n
         /\ t[i].sector \in Sector \cup {-1} /\ (n \in Name => t[i].sector \in Sector)
  BY DEF FindIndex, Entries
<1>5. FindIndex(t, n) = {} => Find(t, n) = -1
  BY DEF Find
<1> QED BY <1>2, <1>3, <1>4, <1>5, Basics

(* Find looks at the entries of its name only. *)
LEMMA FindSame ==
  ASSUME NEW t \in [Index -> Entries], NEW u \in [Index -> Entries], NEW n,
         \A i \in Index : (u[i].inUse /\ u[i].name = n) <=> (t[i].inUse /\ t[i].name = n),
         \A i \in Index : t[i].inUse /\ t[i].name = n => u[i].sector = t[i].sector
  PROVE  Find(u, n) = Find(t, n)
<1>1. FindIndex(u, n) = FindIndex(t, n)
  BY DEF FindIndex
<1>2. CASE FindIndex(t, n) = {}
  BY <1>1, <1>2 DEF Find
<1>3. CASE FindIndex(t, n) # {}
  <2>1. PICK k : k = Min(FindIndex(t, n))
    OBVIOUS
  <2>2. k \in Index /\ t[k].inUse /\ t[k].name = n /\ Find(t, n) = t[k].sector
    BY <1>3, <2>1, FindIs
  <2>3. Find(u, n) = u[k].sector
    BY <1>1, <1>3, <2>1, FindIs
  <2> QED BY <2>2, <2>3
<1> QED BY <1>2, <1>3

LEMMA AddIs ==
  ASSUME NEW t \in [Index -> Entries], NEW n \in Name, NEW d \in BOOLEAN, NEW s \in Sector,
         Room(t) # {}
  PROVE  \E k \in Index : /\ ~t[k].inUse /\ Add(t, n, d, s) = [t EXCEPT ![k] = Entry(n, d, s)]
                          /\ Add(t, n, d, s) \in [Index -> Entries]
                          /\ \A m : m # n => Find(Add(t, n, d, s), m) = Find(t, m)
<1>1. Room(t) \subseteq Nat
  BY Basics DEF Room
<1>2. PICK k : k = Min(Room(t))
  OBVIOUS
<1>3. k \in Index /\ ~t[k].inUse
  BY <1>1, <1>2, MinIs DEF Room
<1>4. Entry(n, d, s) \in Entries
  BY Shapes
<1>5. PICK u : u = [t EXCEPT ![k] = Entry(n, d, s)]
  OBVIOUS
<1>6. Add(t, n, d, s) = u
  BY <1>2, <1>5 DEF Add
<1>7. u \in [Index -> Entries]
  BY <1>3, <1>4, <1>5
<1>8. ASSUME NEW m, m # n PROVE Find(u, m) = Find(t, m)
  <2>1. u[k] = Entry(n, d, s) /\ u[k].name = n /\ \A i \in Index : i # k => u[i] = t[i]
    BY <1>3, <1>5 DEF Entry
  <2>2. \A i \in Index : (u[i].inUse /\ u[i].name = m) <=> (t[i].inUse /\ t[i].name = m)
    BY <1>3, <1>8, <2>1
  <2>3. \A i \in Index : t[i].inUse /\ t[i].name = m => u[i].sector = t[i].sector
    BY <1>3, <2>1
  <2> QED BY <1>7, <2>2, <2>3, FindSame
<1> QED BY <1>3, <1>5, <1>6, <1>7, <1>8

LEMMA RemoveIs ==
  ASSUME NEW t \in [Index -> Entries], NEW n \in Name, FindIndex(t, n) # {}
  PROVE  \E k \in Index : /\ t[k].inUse /\ t[k].name = n /\ t[k].sector = Find(t, n)
                          /\ RemoveEntry(t, n) = [t EXCEPT ![k].inUse = FALSE]
                          /\ RemoveEntry(t, n) \in [Index -> Entries]
                          /\ \A m : m # n => Find(RemoveEntry(t, n), m) = Find(t, m)
<1>1. PICK k : k = Min(FindIndex(t, n))
  OBVIOUS
<1>2. k \in Index /\ t[k].inUse /\ t[k].name = n /\ t[k].sector = Find(t, n)
  BY <1>1, FindIs
<1>3. PICK u : u = [t EXCEPT ![k].inUse = FALSE]
  OBVIOUS
<1>4. RemoveEntry(t, n) = u
  BY <1>1, <1>3 DEF RemoveEntry
<1>5. /\ u[k] = [t[k] EXCEPT !.inUse = FALSE] /\ \A i \in Index : i # k => u[i] = t[i]
      /\ DOMAIN u = Index /\ u = [i \in Index |-> u[i]]
  BY <1>2, <1>3
<1>6. u[k] \in Entries /\ ~u[k].inUse
  <2>1. PICK e \in Entries : e = t[k]
    BY <1>2
  <2>2. [e EXCEPT !.inUse = FALSE] \in Entries /\ ~[e EXCEPT !.inUse = FALSE].inUse
    BY DEF Entries
  <2> QED BY <1>5, <2>1, <2>2
<1>7. u \in [Index -> Entries]
  BY <1>5, <1>6
<1>8. ASSUME NEW m, m # n PROVE Find(u, m) = Find(t, m)
  <2>1. \A i \in Index : (u[i].inUse /\ u[i].name = m) <=> (t[i].inUse /\ t[i].name = m)
    BY <1>2, <1>5, <1>6, <1>8
  <2>2. \A i \in Index : t[i].inUse /\ t[i].name = m => u[i].sector = t[i].sector
    BY <1>2, <1>5, <1>8
  <2> QED BY <1>7, <2>1, <2>2, FindSame
<1> QED BY <1>2, <1>3, <1>4, <1>7, <1>8

(* What the sectors hold. *)
LEMMA KindIs ==
  ASSUME NEW D \in Disks, NEW s \in Sector
  PROVE  /\ D[s] \in Contents
         /\ D[s].kind = "table" <=> D[s] \in Tables
         /\ D[s].kind = "header" <=> D[s] \in Headers
         /\ D[s].kind = "table" => D[s].table \in [Index -> Entries] /\ D[s] = Table(D[s].table)
         /\ D[s].kind = "header" => D[s].data \in Seq(Sector) /\ D[s].lost \subseteq Sector
<1>1. D[s] \in Contents
  BY DEF Disks
<1>2. D[s].kind = "table" <=> D[s] \in Tables
  BY <1>1 DEF Contents, Tables, Headers, Maps, Nothing
<1>3. D[s].kind = "header" <=> D[s] \in Headers
  BY <1>1 DEF Contents, Tables, Headers, Maps, Nothing
<1>4. D[s] \in Tables => D[s].table \in [Index -> Entries] /\ D[s] = Table(D[s].table)
  BY DEF Tables, Table
<1>5. D[s] \in Headers => D[s].data \in Seq(Sector) /\ D[s].lost \subseteq Sector
  BY DEF Headers
<1> QED BY <1>1, <1>2, <1>3, <1>4, <1>5

LEMMA HeaderSectors ==
  ASSUME NEW h \in Headers
  PROVE  /\ h.data \in Seq(Sector) /\ h.lost \subseteq Sector /\ DataSet(h) \subseteq Sector
         /\ h.kind = "header"
         /\ h.data # <<>> => h.data[1] \in DataSet(h) /\ h.data[1] \in Sector
<1>1. h.data \in Seq(Sector) /\ h.lost \subseteq Sector /\ h.kind = "header"
  BY DEF Headers
<1>2. Range(h.data) \subseteq Sector
  BY <1>1 DEF Range
<1>3. h.data # <<>> => 1 \in DOMAIN h.data
  BY <1>1
<1>4. h.data # <<>> => h.data[1] \in Range(h.data)
  BY <1>3 DEF Range
<1> QED BY <1>1, <1>2, <1>4 DEF DataSet

(* The table read through an open file, and the entries on the disk. *)
LEMMA FetchIs ==
  ASSUME NEW D \in Disks, NEW f, f.data \in Seq(Sector)
  PROVE  /\ FetchIn(D, f) \in [Index -> Entries]
         /\ f.data # <<>> =>
              /\ f.data[1] \in Sector
              /\ \A i \in Index :
                   /\ FetchIn(D, f)[i].inUse /\ FetchIn(D, f)[i].name \in Name
                        <=> Slot(D, f.data[1], i)
                   /\ Slot(D, f.data[1], i) => /\ FetchIn(D, f)[i].name = Nam(D, f.data[1], i)
                                               /\ FetchIn(D, f)[i].sector = Sec(D, f.data[1], i)
              /\ D[f.data[1]].kind = "table" => FetchIn(D, f) = D[f.data[1]].table
              /\ D[f.data[1]].kind # "table" => FetchIn(D, f) = EmptyTable
         /\ f.data = <<>> => FetchIn(D, f) = EmptyTable
<1>1. CASE f.data = <<>>
  BY <1>1, Shapes DEF FetchIn
<1>2. CASE f.data # <<>>
  <2>1. PICK c : c = f.data[1]
    OBVIOUS
  <2>2. c \in Sector /\ FetchIn(D, f) = AsTable(D[c])
    BY <1>2, <2>1 DEF FetchIn
  <2>3. CASE D[c].kind = "table"
    <3>1. FetchIn(D, f) = D[c].table /\ D[c].table \in [Index -> Entries]
      BY <2>2, <2>3, KindIs DEF AsTable
    <3> QED BY <1>2, <2>1, <2>2, <2>3, <3>1 DEF Slot, Nam, Sec
  <2>4. CASE D[c].kind # "table"
    <3>1. FetchIn(D, f) = EmptyTable
      BY <2>2, <2>4 DEF AsTable
    <3>2. \A i \in Index : ~EmptyTable[i].inUse
      BY Shapes DEF Unused
    <3> QED BY <1>2, <2>1, <2>2, <2>4, <3>1, <3>2, Shapes DEF Slot
  <2> QED BY <2>3, <2>4
<1> QED BY <1>1, <1>2

-----------------------------------------------------------------------------
(* What Tidy says. *)

LEMMA FileIs ==
  ASSUME NEW f \in Files
  PROVE  /\ f.path \in Seq(Name) /\ f.name \in Name /\ f.isDir \in BOOLEAN
         /\ f.sector \in Sector /\ f.hdr \in Headers
         /\ AllSectors(f) = {f.sector} \cup DataSet(f.hdr) /\ AllSectors(f) \subseteq Sector
         /\ f.hdr.data # <<>> => f.hdr.data[1] \in AllSectors(f) /\ f.hdr.data[1] \in DataSet(f.hdr)
         /\ Append(f.path, f.name) # <<>> /\ Append(f.path, f.name) \in Seq(Name)
<1>1. /\ f.path \in Seq(Name) /\ f.name \in Name /\ f.isDir \in BOOLEAN
      /\ f.sector \in Sector /\ f.hdr \in Headers
  BY DEF Files
<1>2. AllSectors(f) = {f.sector} \cup DataSet(f.hdr)
  BY DEF AllSectors, SectorsOf, DataSet
<1>3. Append(f.path, f.name) # <<>> /\ Append(f.path, f.name) \in Seq(Name)
  BY <1>1, AppendIsNone
<1> QED BY <1>1, <1>2, <1>3, HeaderSectors

LEMMA SameKey ==
  ASSUME NEW d \in Files, NEW e \in Files, Append(d.path, d.name) = Append(e.path, e.name)
  PROVE  d.path = e.path /\ d.name = e.name
<1>1. \A q, r \in Seq(Name), m, n \in Name : Append(q, m) = Append(r, n) => q = r /\ m = n
  BY ONLY AppendInj
<1>2. PICK q, r, m, n : q = d.path /\ r = e.path /\ m = d.name /\ n = e.name
  OBVIOUS
<1>3. q \in Seq(Name) /\ r \in Seq(Name) /\ m \in Name /\ n \in Name /\ Append(q, m) = Append(r, n)
  BY <1>2, FileIs
<1>4. q = r /\ m = n
  BY ONLY <1>1, <1>3
<1> QED BY ONLY <1>2, <1>4

LEMMA TidyFile ==
  ASSUME NEW D \in Disks, NEW M, NEW F, F \subseteq Files, NEW O, Tidy(D, M, F, O), NEW f \in F
  PROVE  /\ D[f.sector] = f.hdr /\ AllSectors(f) = Obj(D, f.sector)
         /\ AllSectors(f) \subseteq M \ Fixed /\ f.sector \notin DataSet(f.hdr)
         /\ Listed(D, F, f)
<1>1. D[f.sector] = f.hdr /\ Listed(D, F, f)
  BY DEF Tidy, FilesListed
<1>2. PICK s \in Sector, i \in Index : /\ Slot(D, s, i) /\ Leads(F, f.path, s)
                                       /\ Nam(D, s, i) = f.name /\ Sec(D, s, i) = f.sector
  BY <1>1 DEF Listed
<1>3. Placed(D, M, f.sector)
  BY <1>2 DEF Tidy, EntriesApart
<1>4. f \in Files
  OBVIOUS
<1>5. AllSectors(f) = Obj(D, f.sector)
  BY <1>1, <1>4, FileIs DEF Obj
<1> QED BY <1>1, <1>2, <1>3, <1>5 DEF Placed

(* The table of a directory lies in a sector of its own file. *)
TableIn(F, p, s) ==
    \/ p = <<>> /\ s = 3
    \/ \E d \in F : /\ d.isDir /\ Append(d.path, d.name) = p /\ s = d.hdr.data[1]
                    /\ s \in DataSet(d.hdr) /\ s \in AllSectors(d) /\ s \notin Fixed

LEMMA TidyLeads ==
  ASSUME NEW D \in Disks, NEW M, NEW F, F \subseteq Files, NEW O, Tidy(D, M, F, O),
         NEW p, NEW s, Leads(F, p, s)
  PROVE  s \in M /\ s \in Sector /\ s \notin 0..2 /\ DirIn(F, p) /\ TableIn(F, p, s)
<1>1. CASE p = <<>> /\ s = RootData
  BY <1>1, Basics DEF Tidy, Fixed, RootData, DirIn, TableIn
<1>2. CASE \E d \in F : d.isDir /\ Append(d.path, d.name) = p /\ s = d.hdr.data[1]
  <2>1. PICK d \in F : d.isDir /\ Append(d.path, d.name) = p /\ s = d.hdr.data[1]
    BY <1>2
  <2>2. d.hdr.data # <<>> /\ d \in Files
    BY <2>1 DEF Tidy, KeysOK
  <2>3. s \in DataSet(d.hdr) /\ s \in AllSectors(d) /\ AllSectors(d) \subseteq Sector
    BY <2>1, <2>2, FileIs
  <2>4. AllSectors(d) \subseteq M \ Fixed
    BY TidyFile
  <2> QED BY <2>1, <2>3, <2>4 DEF Fixed, DirIn, TableIn
<1> QED BY <1>1, <1>2 DEF Leads

LEMMA TidyLeadsOne ==
  ASSUME NEW D \in Disks, NEW M, NEW F, F \subseteq Files, NEW O, Tidy(D, M, F, O),
         NEW p, NEW s, Leads(F, p, s), NEW q, NEW r, Leads(F, q, r)
  PROVE  p = q <=> s = r
<1>1. TableIn(F, p, s) /\ TableIn(F, q, r)
  BY TidyLeads
<1>2. \A d \in F : /\ d.path \in Seq(Name) /\ d.name \in Name /\ Append(d.path, d.name) # <<>>
  BY FileIs
<1>3. 3 \in Fixed
  BY DEF Fixed
<1>4. CASE p = <<>> \/ q = <<>>
  <2>1. p = <<>> <=> s = 3
    BY <1>1, <1>2, <1>3 DEF TableIn
  <2>2. q = <<>> <=> r = 3
    BY <1>1, <1>2, <1>3 DEF TableIn
  <2> QED BY <1>4, <2>1, <2>2
<1>5. CASE p # <<>> /\ q # <<>>
  <2>1. PICK d \in F : Append(d.path, d.name) = p /\ s = d.hdr.data[1] /\ s \in AllSectors(d)
    BY <1>1, <1>5 DEF TableIn
  <2>2. PICK e \in F : Append(e.path, e.name) = q /\ r = e.hdr.data[1] /\ r \in AllSectors(e)
    BY <1>1, <1>5 DEF TableIn
  <2>3. s = r => d = e
    BY <2>1, <2>2 DEF Tidy, FilesListed
  <2>4. p = q => d.path = e.path /\ d.name = e.name
    <3>1. d \in Files /\ e \in Files
      BY <2>1, <2>2
    <3> QED BY ONLY <2>1, <2>2, <3>1, SameKey
  <2>5. p = q => d = e
    BY <2>4 DEF Tidy, KeysOK
  <2> QED BY <2>1, <2>2, <2>3, <2>5
<1> QED BY <1>4, <1>5

(* An entry is that of a file, or has nothing in common with it. *)
LEMMA TidySlot ==
  ASSUME NEW D \in Disks, NEW M, NEW F, F \subseteq Files, NEW O, Tidy(D, M, F, O),
         NEW s \in Sector, NEW i \in Index, Slot(D, s, i), NEW f \in F
  PROVE  \/ Obj(D, Sec(D, s, i)) \cap AllSectors(f) = {} /\ Sec(D, s, i) # f.sector
         \/ Sec(D, s, i) = f.sector /\ Leads(F, f.path, s) /\ Nam(D, s, i) = f.name
<1>1. AllSectors(f) = Obj(D, f.sector) /\ Listed(D, F, f)
  BY TidyFile
<1>2. PICK r \in Sector, j \in Index : /\ Slot(D, r, j) /\ Leads(F, f.path, r)
                                       /\ Nam(D, r, j) = f.name /\ Sec(D, r, j) = f.sector
  BY <1>1 DEF Listed
<1>3. CASE r = s /\ j = i
  BY <1>2, <1>3
<1>4. CASE r # s \/ j # i
  <2>1. Obj(D, Sec(D, s, i)) \cap Obj(D, Sec(D, r, j)) = {}
    BY <1>2, <1>4 DEF Tidy, EntriesApart
  <2>2. Sec(D, s, i) \in Obj(D, Sec(D, s, i)) /\ f.sector \in Obj(D, f.sector)
    BY DEF Obj
  <2> QED BY <1>1, <1>2, <2>1, <2>2
<1> QED BY <1>3, <1>4

LEMMA TidyPlaced ==
  ASSUME NEW D \in Disks, NEW M, NEW F, NEW O, Tidy(D, M, F, O),
         NEW s \in Sector, NEW i \in Index, Slot(D, s, i)
  PROVE  /\ Sec(D, s, i) \in Sector /\ D[Sec(D, s, i)] \in Headers
         /\ Sec(D, s, i) \notin DataSet(D[Sec(D, s, i)])
         /\ Sec(D, s, i) \in M \ Fixed /\ DataSet(D[Sec(D, s, i)]) \subseteq M \ Fixed
         /\ Obj(D, Sec(D, s, i)) \subseteq M \ Fixed
<1>1. Placed(D, M, Sec(D, s, i))
  BY DEF Tidy, EntriesApart
<1> QED BY <1>1 DEF Placed, Obj

(* Writes to sectors that are not marked, and to the map. *)
LEMMA TidyStable ==
  ASSUME NEW D \in Disks, NEW E \in Disks, NEW M, NEW F, F \subseteq Files, NEW O, Tidy(D, M, F, O),
         \A s \in Sector : s \in M /\ s # 2 => E[s] = D[s],
         \A s \in Sector : E[s] = D[s] \/ \A i \in Index : ~Slot(E, s, i)
  PROVE  Tidy(E, M, F, O)
<1>1. \A s \in Sector, i \in Index :
         Slot(E, s, i) => Slot(D, s, i) /\ Sec(E, s, i) = Sec(D, s, i) /\ Nam(E, s, i) = Nam(D, s, i)
  BY DEF Slot, Sec, Nam
<1>2. \A s \in Sector, i \in Index :
         s \in M /\ s # 2 /\ Slot(D, s, i) =>
            Slot(E, s, i) /\ Sec(E, s, i) = Sec(D, s, i) /\ Nam(E, s, i) = Nam(D, s, i)
  BY DEF Slot, Sec, Nam
<1>3. \A x \in Sector : Placed(D, M, x) => E[x] = D[x] /\ Obj(E, x) = Obj(D, x) /\ Placed(E, M, x)
  <2>1. 2 \in Fixed
    BY DEF Fixed
  <2> QED BY <2>1 DEF Placed, Obj
<1>4. \A s \in Sector, i \in Index :
         Slot(D, s, i) => Placed(D, M, Sec(D, s, i)) /\ Sec(D, s, i) \in Sector
  BY DEF Tidy, EntriesApart, Placed
<1>5. EntriesApart(E, M)
  <2>1. \A s \in Sector, i \in Index : Slot(E, s, i) => Placed(E, M, Sec(E, s, i))
    BY <1>1, <1>3, <1>4
  <2>2. \A s \in Sector, i \in Index : Slot(E, s, i) =>
           Obj(E, Sec(E, s, i)) = Obj(D, Sec(D, s, i))
    BY <1>1, <1>3, <1>4
  <2>3. \A s, r \in Sector, i, j \in Index :
          Slot(E, s, i) /\ Slot(E, r, j) /\ (s # r \/ i # j)
            => Obj(E, Sec(E, s, i)) \cap Obj(E, Sec(E, r, j)) = {}
    BY <1>1, <2>2 DEF Tidy, EntriesApart
  <2>4. \A s \in Sector, i, j \in Index :
          Slot(E, s, i) /\ Slot(E, s, j) /\ Nam(E, s, i) = Nam(E, s, j) => i = j
    BY <1>1 DEF Tidy, EntriesApart
  <2> QED BY <2>1, <2>3, <2>4 DEF EntriesApart
<1>6. FilesListed(E, F)
  <2>1. ASSUME NEW f \in F PROVE E[f.sector] = f.hdr /\ Listed(E, F, f)
    <3>0. D[f.sector] = f.hdr /\ Listed(D, F, f)
      BY TidyFile
    <3>1. PICK s \in Sector, i \in Index : /\ Slot(D, s, i) /\ Leads(F, f.path, s)
                                           /\ Nam(D, s, i) = f.name /\ Sec(D, s, i) = f.sector
      BY <3>0 DEF Listed
    <3>2. s \in M /\ s # 2
      BY <3>1, TidyLeads
    <3> QED BY <1>2, <1>3, <1>4, <3>0, <3>1, <3>2 DEF Listed
  <2>2. \A f, g \in F : f # g => AllSectors(f) \cap AllSectors(g) = {}
    BY DEF Tidy, FilesListed
  <2>3. \A s \in Sector, i \in Index, p \in Seq(Name) :
          Slot(E, s, i) /\ Leads(F, p, s) =>
            \E f \in F : f.path = p /\ f.name = Nam(E, s, i) /\ f.sector = Sec(E, s, i)
    BY <1>1 DEF Tidy, FilesListed
  <2> QED BY <2>1, <2>2, <2>3 DEF FilesListed
<1> QED BY <1>5, <1>6 DEF Tidy

-----------------------------------------------------------------------------
(* The current directory. *)

LEMMA LocalsAre ==
  ASSUME NEW L \in Locals
  PROVE  /\ L.op \in Ops /\ L.op.path \in Seq(Name) /\ L.cwd.data \in Seq(Sector)
         /\ L.walk \in Seq(Name) /\ L.dir \in [Index -> Entries] /\ L.map \subseteq Sector
         /\ L.hdr \in Headers /\ L.old \in Headers /\ L.op.size \in Sizes /\ L.cwd.sector \in Sector
         /\ L.cwd.data # <<>> => L.cwd.data[1] \in Sector
         /\ Target(L.op) = <<L.op.path, L.op.name>>
<1>1. /\ L.op \in Ops /\ L.cwd \in [sector : Sector, data : Seq(Sector)]
      /\ L.walk \in Seq(Name) /\ L.dir \in [Index -> Entries] /\ L.map \subseteq Sector
      /\ L.hdr \in Headers /\ L.old \in Headers
  BY DEF Locals
<1>2. L.op.path \in Seq(Name) /\ L.op.size \in Sizes
  BY <1>1 DEF Ops
<1>3. L.cwd.data \in Seq(Sector) /\ L.cwd.sector \in Sector
  BY <1>1
<1>4. L.cwd.data # <<>> => L.cwd.data[1] \in Sector
  BY <1>3
<1> QED BY <1>1, <1>2, <1>3, <1>4 DEF Target

(* The table of the current directory is in no one's way. *)
CwdApart(D, M, F, L, c) ==
    /\ c \in Sector /\ c \in M /\ c \notin 0..2
    /\ \A s \in Sector, i \in Index : Slot(D, s, i) => Sec(D, s, i) # c
    /\ \A f \in F : f.sector # c
    /\ \A p : Leads(F, p, c) => p = Walked(L) /\ DirIn(F, Walked(L))
    /\ DirIn(F, Walked(L)) => Leads(F, Walked(L), c)

LEMMA CwdWhere ==
  ASSUME NEW D \in Disks, NEW M, NEW F, F \subseteq Files, NEW O, Tidy(D, M, F, O),
         NEW L \in Locals, CwdClean(D, M, F, L), L.cwd.data # <<>>
  PROVE  CwdApart(D, M, F, L, L.cwd.data[1])
<1>1. PICK c : c = L.cwd.data[1]
  OBVIOUS
<1>2. PICK w : w = Walked(L)
  OBVIOUS
<1>3. /\ DirIn(F, w) => Leads(F, w, c)
      /\ ~DirIn(F, w) => \E s \in Sector, i \in Index :
                            /\ Slot(D, s, i) /\ c \in DataSet(D[Sec(D, s, i)])
                            /\ \A d \in F : d.isDir => d.sector # Sec(D, s, i)
  BY <1>1, <1>2 DEF CwdClean
<1>4. \A s \in Sector, i \in Index : Slot(D, s, i) =>
        /\ Sec(D, s, i) \in Obj(D, Sec(D, s, i)) /\ Sec(D, s, i) \notin Fixed
        /\ DataSet(D[Sec(D, s, i)]) \subseteq M \ Fixed
        /\ DataSet(D[Sec(D, s, i)]) \subseteq Obj(D, Sec(D, s, i))
        /\ DataSet(D[Sec(D, s, i)]) \subseteq Sector
        /\ Sec(D, s, i) \notin DataSet(D[Sec(D, s, i)])
  BY TidyPlaced, HeaderSectors DEF Obj
<1>5. /\ c \in Sector /\ c \in M /\ c \notin 0..2
      /\ \A s \in Sector, i \in Index : Slot(D, s, i) => Sec(D, s, i) # c
      /\ \A p : Leads(F, p, c) => p = w /\ DirIn(F, w)
  <2>1. CASE DirIn(F, w)
    <3>1. Leads(F, w, c) /\ c \in Sector /\ c \in M /\ c \notin 0..2 /\ TableIn(F, w, c)
      BY <1>3, <2>1, TidyLeads
    <3>2. \A p : Leads(F, p, c) => p = w
      BY <3>1, TidyLeadsOne
    <3>3. ASSUME NEW s \in Sector, NEW i \in Index, Slot(D, s, i) PROVE Sec(D, s, i) # c
      <4>1. CASE c = 3
        BY <1>4, <3>3, <4>1 DEF Fixed
      <4>2. CASE c # 3
        <5>1. PICK d \in F : c \in DataSet(d.hdr) /\ c \in AllSectors(d)
          BY <3>1, <4>2 DEF TableIn
        <5>2. d.sector \notin DataSet(d.hdr)
          BY TidyFile
        <5>3. \/ Obj(D, Sec(D, s, i)) \cap AllSectors(d) = {}
              \/ Sec(D, s, i) = d.sector
          BY <3>3, TidySlot
        <5> QED BY <1>4, <3>3, <5>1, <5>2, <5>3
      <4> QED BY <4>1, <4>2
    <3> QED BY <2>1, <3>1, <3>2, <3>3
  <2>2. CASE ~DirIn(F, w)
    <3>1. PICK r \in Sector, j \in Index :
             /\ Slot(D, r, j) /\ c \in DataSet(D[Sec(D, r, j)])
             /\ \A d \in F : d.isDir => d.sector # Sec(D, r, j)
      BY <1>3, <2>2
    <3>2. c \in Obj(D, Sec(D, r, j)) /\ c \in M /\ c \notin Fixed /\ c \in Sector
      BY <1>4, <3>1
    <3>3. ASSUME NEW s \in Sector, NEW i \in Index, Slot(D, s, i) PROVE Sec(D, s, i) # c
      <4>1. CASE s = r /\ i = j
        BY <1>4, <3>1, <4>1
      <4>2. CASE s # r \/ i # j
        <5>1. Obj(D, Sec(D, s, i)) \cap Obj(D, Sec(D, r, j)) = {}
          BY <3>1, <3>3, <4>2 DEF Tidy, EntriesApart
        <5> QED BY <1>4, <3>2, <3>3, <5>1
      <4> QED BY <4>1, <4>2
    <3>4. ASSUME NEW p, Leads(F, p, c) PROVE FALSE
      <4>1. TableIn(F, p, c)
        BY <3>4, TidyLeads
      <4>2. PICK d \in F : d.isDir /\ c \in AllSectors(d)
        BY <3>2, <4>1 DEF TableIn, Fixed
      <4>3. \/ Obj(D, Sec(D, r, j)) \cap AllSectors(d) = {}
            \/ Sec(D, r, j) = d.sector
        BY <3>1, TidySlot
      <4> QED BY <3>1, <3>2, <4>2, <4>3
    <3> QED BY <3>2, <3>3, <3>4 DEF Fixed
  <2> QED BY <2>1, <2>2
<1>6. \A f \in F : f.sector # c
  <2> TAKE f \in F
  <2>1. Listed(D, F, f)
    BY TidyFile
  <2> QED BY <1>5, <2>1 DEF Listed
<1> QED BY <1>1, <1>2, <1>3, <1>5, <1>6 DEF CwdApart

-----------------------------------------------------------------------------
(* A new entry. *)

(* E is D with entry k added to the table in sector c: name n, file x. *)
Added(D, E, c, k, n, x) ==
    /\ \A s \in Sector : s # c => E[s] = D[s]
    /\ \A s \in Sector, i \in Index : Slot(E, s, i) <=> Slot(D, s, i) \/ (s = c /\ i = k)
    /\ \A s \in Sector, i \in Index : Slot(D, s, i) =>
          Sec(E, s, i) = Sec(D, s, i) /\ Nam(E, s, i) = Nam(D, s, i)
    /\ ~Slot(D, c, k) /\ Nam(E, c, k) = n /\ Sec(E, c, k) = x
    /\ \A i \in Index : Slot(D, c, i) => Nam(D, c, i) # n

LEMMA AddAdds ==
  ASSUME NEW D \in Disks, NEW E \in Disks, NEW f, f.data \in Seq(Sector), f.data # <<>>,
         NEW n \in Name, NEW d \in BOOLEAN, NEW x \in Sector, FindIndex(FetchIn(D, f), n) = {},
         Room(FetchIn(D, f)) # {},
         E = [D EXCEPT ![f.data[1]] = Table(Add(FetchIn(D, f), n, d, x))]
  PROVE  \E k \in Index : Added(D, E, f.data[1], k, n, x)
<1>1. PICK c : c = f.data[1]
  OBVIOUS
<1>2. PICK t : t = FetchIn(D, f)
  OBVIOUS
<1>3. /\ t \in [Index -> Entries] /\ c \in Sector
      /\ \A i \in Index : /\ t[i].inUse /\ t[i].name \in Name <=> Slot(D, c, i)
                          /\ Slot(D, c, i) => t[i].name = Nam(D, c, i) /\ t[i].sector = Sec(D, c, i)
  BY <1>1, <1>2, FetchIs
<1>4. PICK u : u = Add(t, n, d, x)
  OBVIOUS
<1>5. PICK k \in Index : ~t[k].inUse /\ u = [t EXCEPT ![k] = Entry(n, d, x)]
  <2>1. Room(t) # {}
    BY <1>2
  <2>2. \E k \in Index : /\ ~t[k].inUse /\ Add(t, n, d, x) = [t EXCEPT ![k] = Entry(n, d, x)]
                         /\ Add(t, n, d, x) \in [Index -> Entries]
                         /\ \A m : m # n => Find(Add(t, n, d, x), m) = Find(t, m)
    BY <1>3, <2>1, AddIs
  <2> QED BY <1>4, <2>2
<1>6. E[c] = Table(u) /\ \A s \in Sector : s # c => E[s] = D[s]
  BY <1>1, <1>2, <1>3, <1>4 DEF Disks
<1>7. u[k] = Entry(n, d, x) /\ \A i \in Index : i # k => u[i] = t[i]
  BY <1>3, <1>5
<1>8. E[c].kind = "table" /\ E[c].table = u
  BY <1>6 DEF Table
<1>9. u[k].inUse /\ u[k].name = n /\ u[k].sector = x
  BY <1>7 DEF Entry
<1>10. \A i \in Index : /\ Slot(E, c, i) <=> u[i].inUse /\ u[i].name \in Name
                        /\ Nam(E, c, i) = u[i].name /\ Sec(E, c, i) = u[i].sector
  BY <1>8 DEF Slot, Nam, Sec
<1>11. \A s \in Sector, i \in Index : s # c =>
          (Slot(E, s, i) <=> Slot(D, s, i)) /\ Nam(E, s, i) = Nam(D, s, i) /\ Sec(E, s, i) = Sec(D, s, i)
  BY <1>6 DEF Slot, Nam, Sec
<1>12. \A i \in Index : Slot(D, c, i) => Nam(D, c, i) # n
  BY <1>2, <1>3 DEF FindIndex
<1>13. ~Slot(D, c, k)
  BY <1>3, <1>5
<1>14. \A i \in Index : /\ Slot(E, c, i) <=> Slot(D, c, i) \/ i = k
                        /\ Slot(D, c, i) => /\ Sec(E, c, i) = Sec(D, c, i)
                                            /\ Nam(E, c, i) = Nam(D, c, i)
  <2> TAKE i \in Index
  <2>1. CASE i = k
    BY <1>9, <1>10, <1>13, <2>1
  <2>2. CASE i # k
    BY <1>3, <1>7, <1>10, <2>2
  <2> QED BY <2>1, <2>2
<1>15. Added(D, E, c, k, n, x)
  <2>1. \A s \in Sector, i \in Index : Slot(E, s, i) <=> Slot(D, s, i) \/ (s = c /\ i = k)
    BY ONLY <1>11, <1>14
  <2>2. \A s \in Sector, i \in Index : Slot(D, s, i) =>
          Sec(E, s, i) = Sec(D, s, i) /\ Nam(E, s, i) = Nam(D, s, i)
    BY ONLY <1>11, <1>14
  <2>3. Nam(E, c, k) = n /\ Sec(E, c, k) = x
    BY ONLY <1>9, <1>10, k \in Index
  <2>4. \A s \in Sector : s # c => E[s] = D[s]
    BY ONLY <1>6
  <2> QED BY ONLY <1>12, <1>13, <2>1, <2>2, <2>3, <2>4 DEF Added
<1> QED BY <1>1, <1>15

LEMMA AddedApart ==
  ASSUME NEW D \in Disks, NEW E \in Disks, NEW M, NEW N, NEW c \in M, c \in Sector, NEW k \in Index,
         NEW n, NEW x \in Sector, Added(D, E, c, k, n, x), EntriesApart(D, M),
         \A s \in Sector, i \in Index : Slot(D, s, i) => Sec(D, s, i) # c,
         x \notin M, D[x] \in Headers, x \notin DataSet(D[x]),
         Obj(D, x) \cap M = {}, Fixed \subseteq M, M \subseteq N, Obj(D, x) \subseteq N
  PROVE  EntriesApart(E, N)
<1>1. \A s \in Sector, i \in Index : Slot(D, s, i) =>
        /\ Sec(E, s, i) = Sec(D, s, i) /\ Nam(E, s, i) = Nam(D, s, i)
        /\ Placed(D, M, Sec(D, s, i)) /\ Sec(D, s, i) \in Sector /\ Sec(D, s, i) # c
  BY DEF EntriesApart, Added, Placed
<1>2. \A y \in Sector : y # c => E[y] = D[y] /\ Obj(E, y) = Obj(D, y)
  BY DEF Added, Obj
<1>3. \A y \in Sector : y # c /\ Placed(D, M, y) => Placed(E, N, y) /\ Obj(E, y) \subseteq M
  BY <1>2 DEF Placed
<1>4. Placed(E, N, x) /\ Obj(E, x) = Obj(D, x)
  BY <1>2 DEF Placed
<1>5. \A s \in Sector, i \in Index : Slot(E, s, i) <=> Slot(D, s, i) \/ (s = c /\ i = k)
  BY DEF Added
<1>6. Sec(E, c, k) = x /\ Nam(E, c, k) = n /\ ~Slot(D, c, k)
      /\ \A i \in Index : Slot(D, c, i) => Nam(D, c, i) # n
  BY DEF Added
<1>7. \A s \in Sector, i \in Index : Slot(E, s, i) => Placed(E, N, Sec(E, s, i))
  BY <1>1, <1>3, <1>4, <1>5, <1>6
<1>8. ASSUME NEW s \in Sector, NEW r \in Sector, NEW i \in Index, NEW j \in Index,
             Slot(E, s, i), Slot(E, r, j), s # r \/ i # j
      PROVE  Obj(E, Sec(E, s, i)) \cap Obj(E, Sec(E, r, j)) = {}
  <2>1. CASE Slot(D, s, i) /\ Slot(D, r, j)
    <3>1. Obj(D, Sec(D, s, i)) \cap Obj(D, Sec(D, r, j)) = {}
      BY <1>8, <2>1 DEF EntriesApart
    <3> QED BY <1>1, <1>2, <2>1, <3>1
  <2>2. CASE Slot(D, s, i) /\ ~Slot(D, r, j)
    BY <1>1, <1>3, <1>4, <1>5, <1>6, <1>8, <2>2
  <2>3. CASE ~Slot(D, s, i) /\ Slot(D, r, j)
    BY <1>1, <1>3, <1>4, <1>5, <1>6, <1>8, <2>3
  <2>4. CASE ~Slot(D, s, i) /\ ~Slot(D, r, j)
    BY <1>5, <1>8, <2>4
  <2> QED BY <2>1, <2>2, <2>3, <2>4
<1>9. ASSUME NEW s \in Sector, NEW i \in Index, NEW j \in Index, Slot(E, s, i), Slot(E, s, j),
             Nam(E, s, i) = Nam(E, s, j)
      PROVE  i = j
  <2>1. CASE Slot(D, s, i) /\ Slot(D, s, j)
    BY <1>1, <1>9, <2>1 DEF EntriesApart
  <2>2. CASE ~(Slot(D, s, i) /\ Slot(D, s, j))
    BY <1>1, <1>5, <1>6, <1>9, <2>2
  <2> QED BY <2>1, <2>2
<1> QED BY <1>7, <1>8, <1>9 DEF EntriesApart

LEMMA NewFileIs ==
  ASSUME NEW L \in Locals, L.sector \in Sector, L.op.name \in Name
  PROVE  /\ NewFile(L) \in Files /\ AllSectors(NewFile(L)) = Work(L)
         /\ NewFile(L).path = L.op.path /\ NewFile(L).name = L.op.name
         /\ NewFile(L).sector = L.sector /\ NewFile(L).hdr = L.hdr
         /\ NewFile(L).isDir <=> L.op.kind = "create dir"
<1>1. L.op.path \in Seq(Name) /\ L.hdr \in Headers
  BY LocalsAre
<1>2. /\ NewFile(L).path = L.op.path /\ NewFile(L).name = L.op.name
      /\ NewFile(L).sector = L.sector /\ NewFile(L).hdr = L.hdr
      /\ NewFile(L).isDir <=> L.op.kind = "create dir"
  BY DEF NewFile
<1>3. NewFile(L) \in Files
  BY <1>1 DEF NewFile, Files
<1> QED BY <1>2, <1>3, FileIs DEF Work

LEMMA AllOfAdd ==
  ASSUME NEW F, NEW f
  PROVE  AllOf(F \cup {f}) = AllOf(F) \cup AllSectors(f)
BY DEF AllOf

(* WriteDir completes a creation, but for the map. *)
LEMMA TidyCreate ==
  ASSUME NEW D \in Disks, NEW E \in Disks, NEW M, M \subseteq Sector, NEW F, F \subseteq Files,
         NEW O, Tidy(D, M, F, O), NEW L \in Locals, PhaseOK("write dir", L), CwdClean(D, M, F, L),
         NewClean(M, L), MadeClean(D, "write dir", L),
         E = IF L.cwd.data = <<>> THEN D ELSE [D EXCEPT ![L.cwd.data[1]] = Table(L.dir)]
  PROVE  /\ Tidy(E, L.map, FilesAfter(F, L), OrphansAfter(F, O, L))
         /\ F \subseteq FilesAfter(F, L)
<1>1. /\ L.op.path \in Seq(Name) /\ L.cwd.data \in Seq(Sector) /\ L.hdr \in Headers
      /\ Target(L.op) = <<L.op.path, L.op.name>>
  BY LocalsAre
<1>2. L.walk = <<>> /\ L.op.name \in Name /\ L.sector \in Sector
  BY DEF PhaseOK, HasDir, Making
<1>3. Walked(L) = L.op.path
  BY <1>1, <1>2, WalkEnds DEF Walked
<1>4. /\ L.sector \notin DataSet(L.hdr) /\ Work(L) \cap M = {} /\ L.map = M \cup Work(L)
      /\ L.op.kind = "create dir" => L.hdr.data # <<>>
  BY DEF NewClean
<1>5. PICK g : g = NewFile(L)
  OBVIOUS
<1>6. /\ g \in Files /\ AllSectors(g) = Work(L) /\ g.path = L.op.path /\ g.name = L.op.name
      /\ g.sector = L.sector /\ g.hdr = L.hdr /\ (g.isDir <=> L.op.kind = "create dir")
  BY <1>2, <1>5, NewFileIs
<1>7. D[L.sector] = L.hdr /\ Obj(D, L.sector) = Work(L)
  BY DEF MadeClean, Obj, Work
<1>8. Fixed \subseteq M /\ M = Fixed \cup O \cup AllOf(F) /\ EntriesApart(D, M)
      /\ FilesListed(D, F) /\ KeysOK(F)
  BY DEF Tidy
<1>9. CASE L.cwd.data = <<>>
  <2>1. ~DirIn(F, L.op.path) /\ E = D
    BY <1>3, <1>9 DEF CwdClean
  <2>2. FilesAfter(F, L) = F /\ OrphansAfter(F, O, L) = O \cup Work(L)
    BY <1>5, <1>6, <2>1 DEF FilesAfter, OrphansAfter
  <2>3. \A x : Placed(D, M, x) => Placed(D, L.map, x)
    BY <1>4 DEF Placed
  <2>4. EntriesApart(D, L.map)
    BY <1>8, <2>3 DEF EntriesApart
  <2>5. L.map = Fixed \cup (O \cup Work(L)) \cup AllOf(F)
    BY <1>4, <1>8
  <2> QED BY <1>8, <2>1, <2>2, <2>4, <2>5 DEF Tidy
<1>10. CASE L.cwd.data # <<>>
  <2>1. PICK c : c = L.cwd.data[1]
    OBVIOUS
  <2>2. CwdApart(D, M, F, L, c)
    BY <1>10, <2>1, CwdWhere
  <2>3. /\ c \in Sector /\ c \in M
        /\ \A s \in Sector, i \in Index : Slot(D, s, i) => Sec(D, s, i) # c
        /\ \A f \in F : f.sector # c
        /\ \A p : Leads(F, p, c) => p = L.op.path /\ DirIn(F, L.op.path)
        /\ DirIn(F, L.op.path) => Leads(F, L.op.path, c)
    BY <1>3, <2>2 DEF CwdApart
  <2>4. \E k \in Index : Added(D, E, c, k, L.op.name, L.sector)
    <3>1. PICK d \in BOOLEAN : d = (L.op.kind = "create dir")
      OBVIOUS
    <3>2. /\ FindIndex(FetchIn(D, L.cwd), L.op.name) = {} /\ Room(FetchIn(D, L.cwd)) # {}
          /\ L.dir = Add(FetchIn(D, L.cwd), L.op.name, d, L.sector)
      BY <3>1 DEF MadeClean
    <3>3. E = [D EXCEPT ![L.cwd.data[1]] = Table(Add(FetchIn(D, L.cwd), L.op.name, d, L.sector))]
      BY <1>10, <3>2
    <3>4. \E k \in Index : Added(D, E, L.cwd.data[1], k, L.op.name, L.sector)
      BY <1>1, <1>2, <1>10, <3>2, <3>3, AddAdds
    <3> QED BY <2>1, <3>4
  <2>5. PICK k \in Index : Added(D, E, c, k, L.op.name, L.sector)
    BY <2>4
  <2>6. /\ \A s \in Sector : s # c => E[s] = D[s]
        /\ \A s \in Sector, i \in Index : Slot(E, s, i) <=> Slot(D, s, i) \/ (s = c /\ i = k)
        /\ \A s \in Sector, i \in Index : Slot(D, s, i) =>
              Sec(E, s, i) = Sec(D, s, i) /\ Nam(E, s, i) = Nam(D, s, i)
        /\ ~Slot(D, c, k) /\ Nam(E, c, k) = L.op.name /\ Sec(E, c, k) = L.sector
        /\ \A i \in Index : Slot(D, c, i) => Nam(D, c, i) # L.op.name
    BY <2>5 DEF Added
  <2>7. EntriesApart(E, L.map)
    <3>1. L.sector \notin M /\ Work(L) \subseteq L.map /\ M \subseteq L.map
      BY <1>4 DEF Work
    <3>2. /\ D[L.sector] \in Headers /\ L.sector \notin DataSet(D[L.sector])
          /\ Obj(D, L.sector) \cap M = {} /\ Obj(D, L.sector) \subseteq L.map
      BY <1>1, <1>4, <1>7, <3>1
    <3>3. /\ c \in M /\ c \in Sector /\ L.sector \in Sector
          /\ \A s \in Sector, i \in Index : Slot(D, s, i) => Sec(D, s, i) # c
      BY <1>2, <2>3
    <3>4. /\ D \in Disks /\ E \in Disks /\ EntriesApart(D, M) /\ Fixed \subseteq M /\ k \in Index
          /\ Added(D, E, c, k, L.op.name, L.sector)
      BY <1>8, <2>5
    <3> QED BY ONLY Zenon, <3>1, <3>2, <3>3, <3>4, AddedApart
  <2>8. E[L.sector] = L.hdr
    <3>1. L.sector # c
      BY <1>4, <2>3 DEF Work
    <3> QED BY <1>2, <1>7, <2>6, <3>1
  <2>9. ASSUME NEW f \in F
        PROVE  /\ E[f.sector] = f.hdr /\ Listed(E, F, f) /\ AllSectors(f) \subseteq M
    <3>1. D[f.sector] = f.hdr /\ Listed(D, F, f) /\ AllSectors(f) \subseteq M /\ f.sector \in Sector
      BY TidyFile, FileIs
    <3>2. E[f.sector] = f.hdr
      BY ONLY <2>3, <2>6, <3>1, f \in F
    <3>3. Listed(E, F, f)
      BY ONLY <2>6, <3>1 DEF Listed
    <3> QED BY <3>1, <3>2, <3>3
  <2>10. CASE ~DirIn(F, L.op.path)
    <3>1. FilesAfter(F, L) = F /\ OrphansAfter(F, O, L) = O \cup Work(L)
      BY <1>5, <1>6, <2>10 DEF FilesAfter, OrphansAfter
    <3>2. \A s \in Sector, i \in Index, p \in Seq(Name) :
            Slot(E, s, i) /\ Leads(F, p, s) =>
              \E f \in F : f.path = p /\ f.name = Nam(E, s, i) /\ f.sector = Sec(E, s, i)
      <4>1. \A p : ~Leads(F, p, c)
        BY <2>3, <2>10
      <4>2. \A s \in Sector, i \in Index : s # c /\ Slot(E, s, i) =>
               Slot(D, s, i) /\ Sec(E, s, i) = Sec(D, s, i) /\ Nam(E, s, i) = Nam(D, s, i)
        BY <2>6
      <4>3. \A s \in Sector, i \in Index, p \in Seq(Name) :
              Slot(D, s, i) /\ Leads(F, p, s) =>
                \E f \in F : f.path = p /\ f.name = Nam(D, s, i) /\ f.sector = Sec(D, s, i)
        BY <1>8 DEF FilesListed
      <4> QED BY ONLY <4>1, <4>2, <4>3
    <3>3. FilesListed(E, F)
      BY <1>8, <2>9, <3>2 DEF FilesListed
    <3>4. L.map = Fixed \cup (O \cup Work(L)) \cup AllOf(F)
      BY <1>4, <1>8
    <3> QED BY <1>8, <2>7, <3>1, <3>3, <3>4 DEF Tidy
  <2>11. CASE DirIn(F, L.op.path)
    <3>1. \A f \in F : ~(f.path = L.op.path /\ f.name = L.op.name)
      <4> SUFFICES ASSUME NEW f \in F, f.path = L.op.path, f.name = L.op.name PROVE FALSE
        OBVIOUS
      <4>0. Listed(D, F, f)
        BY TidyFile
      <4>1. PICK s \in Sector, i \in Index : /\ Slot(D, s, i) /\ Leads(F, f.path, s)
                                             /\ Nam(D, s, i) = f.name /\ Sec(D, s, i) = f.sector
        BY <4>0 DEF Listed
      <4>2. s = c
        <5>1. Leads(F, L.op.path, s) /\ Leads(F, L.op.path, c)
          BY <2>3, <2>11, <4>1
        <5>2. D \in Disks /\ F \subseteq Files /\ Tidy(D, M, F, O)
          OBVIOUS
        <5>3. PICK p : p = L.op.path
          OBVIOUS
        <5>4. p = p <=> s = c
          BY ONLY <5>1, <5>2, <5>3, TidyLeadsOne
        <5> QED BY <5>4
      <4> QED BY <2>6, <4>1, <4>2
    <3>2. FilesAfter(F, L) = F \cup {g} /\ OrphansAfter(F, O, L) = O
      <4>1. {f \in F : <<f.path, f.name>> # Target(L.op)} = F
        <5>1. Target(L.op) = <<L.op.path, L.op.name>>
          BY <1>1
        <5> QED BY ONLY <3>1, <5>1
      <4> QED BY <1>5, <2>11, <4>1 DEF FilesAfter, OrphansAfter
    <3>3. PICK G : G = F \cup {g}
      OBVIOUS
    <3>4. \A p, s : Leads(F, p, s) => Leads(G, p, s)
      BY <3>3 DEF Leads
    <3>5. \A p, s : Leads(G, p, s) => Leads(F, p, s) \/ (g.isDir /\ s = g.hdr.data[1])
      BY <3>3 DEF Leads
    <3>6. Listed(E, G, g)
      <4>1. Slot(E, c, k) /\ Leads(G, g.path, c) /\ Nam(E, c, k) = g.name /\ Sec(E, c, k) = g.sector
        BY <1>6, <2>3, <2>6, <2>11, <3>4
      <4> QED BY <2>3, <4>1 DEF Listed
    <3>7. \A f \in G : E[f.sector] = f.hdr /\ Listed(E, G, f)
      <4>1. \A f \in F : E[f.sector] = f.hdr /\ Listed(E, F, f)
        BY ONLY <2>9
      <4>2. \A f \in F : Listed(E, G, f)
        BY ONLY <3>4, <4>1 DEF Listed
      <4>3. E[g.sector] = g.hdr
        BY <1>6, <2>8
      <4> QED BY ONLY <3>3, <3>6, <4>1, <4>2, <4>3
    <3>8. \A f, h \in G : f # h => AllSectors(f) \cap AllSectors(h) = {}
      <4>1. \A f \in F : AllSectors(f) \cap AllSectors(g) = {}
        BY <1>4, <1>6, <2>9
      <4>2. \A f, h \in F : f # h => AllSectors(f) \cap AllSectors(h) = {}
        BY <1>8 DEF FilesListed
      <4> QED BY <3>3, <4>1, <4>2
    <3>9. ASSUME NEW s \in Sector, NEW i \in Index, NEW p \in Seq(Name), Slot(E, s, i), Leads(G, p, s)
          PROVE  \E f \in G : f.path = p /\ f.name = Nam(E, s, i) /\ f.sector = Sec(E, s, i)
      <4>1. CASE Leads(F, p, s) /\ Slot(D, s, i)
        <5>1. \E f \in F : f.path = p /\ f.name = Nam(D, s, i) /\ f.sector = Sec(D, s, i)
          BY <1>8, <4>1 DEF FilesListed
        <5> QED BY <2>6, <3>3, <4>1, <5>1
      <4>2. CASE Leads(F, p, s) /\ ~Slot(D, s, i)
        <5>1. s = c /\ i = k
          BY <2>6, <3>9, <4>2
        <5>2. p = L.op.path
          BY <2>3, <4>2, <5>1
        <5>3. Nam(E, s, i) = L.op.name /\ Sec(E, s, i) = L.sector
          BY <2>6, <5>1
        <5> QED BY <1>6, <3>3, <5>2, <5>3
      <4>3. CASE ~Leads(F, p, s)
        <5>1. g.isDir /\ s = L.hdr.data[1]
          BY <1>6, <3>5, <3>9, <4>3
        <5>2. (\A j \in Index : ~Slot(D, s, j)) /\ L.hdr.data # <<>>
          BY <1>4, <1>6, <5>1 DEF MadeClean
        <5>3. s \in Work(L)
          BY <1>1, <5>1, <5>2, HeaderSectors DEF Work
        <5>4. s # c
          BY <1>4, <2>3, <5>3
        <5>5. Slot(D, s, i)
          BY <2>6, <3>9, <5>4
        <5> QED BY <5>2, <5>5
      <4> QED BY <4>1, <4>2, <4>3
    <3>10. KeysOK(G)
      <4>1. g.isDir => g.hdr.data # <<>>
        BY <1>4, <1>6
      <4>2. \A f \in F : ~(f.path = g.path /\ f.name = g.name)
        BY <1>6, <3>1
      <4> QED BY <1>8, <3>3, <4>1, <4>2 DEF KeysOK
    <3>11. L.map = Fixed \cup O \cup AllOf(G)
      <4>1. AllOf(G) = AllOf(F) \cup Work(L)
        BY <1>6, <3>3, AllOfAdd
      <4>2. L.map = M \cup Work(L) /\ M = Fixed \cup O \cup AllOf(F)
        BY <1>4, <1>8
      <4> QED BY ONLY <4>1, <4>2
    <3>12. FilesListed(E, G)
      BY <3>7, <3>8, <3>9 DEF FilesListed
    <3> QED BY <2>7, <3>2, <3>3, <3>10, <3>11, <3>12 DEF Tidy
  <2> QED BY <2>10, <2>11
<1> QED BY <1>9, <1>10

-----------------------------------------------------------------------------
(* An entry less. *)

(* E is D without entry k of the table in sector c. *)
Gone(D, E, c, k) ==
    /\ \A s \in Sector : s # c => E[s] = D[s]
    /\ \A s \in Sector, i \in Index : Slot(E, s, i) <=> Slot(D, s, i) /\ ~(s = c /\ i = k)
    /\ \A s \in Sector, i \in Index : Slot(E, s, i) =>
          Sec(E, s, i) = Sec(D, s, i) /\ Nam(E, s, i) = Nam(D, s, i)
    /\ Slot(D, c, k)

(* E is D with v written to sector w. *)
Wrote(D, E, w, v) == E \in Disks /\ E[w] = v /\ \A s \in Sector : s # w => E[s] = D[s]

(* Entry j, or an earlier one, of name n is taken out of the table of f. *)
Removes(D, E, f, n, j) ==
    /\ D \in Disks /\ f.data \in Seq(Sector) /\ f.data # <<>> /\ n \in Name /\ j \in Index
    /\ Slot(D, f.data[1], j) /\ Nam(D, f.data[1], j) = n
    /\ Wrote(D, E, f.data[1], Table(RemoveEntry(FetchIn(D, f), n)))

LEMMA RemoveRemoves ==
  ASSUME NEW D, NEW E, NEW f, NEW n, NEW j, Removes(D, E, f, n, j)
  PROVE  \E k \in Index : Gone(D, E, f.data[1], k) /\ Nam(D, f.data[1], k) = n
<1> USE DEF Removes
<1>1. PICK c : c = f.data[1]
  OBVIOUS
<1>2. PICK t : t = FetchIn(D, f)
  OBVIOUS
<1>3. /\ t \in [Index -> Entries] /\ c \in Sector
      /\ \A i \in Index : /\ t[i].inUse /\ t[i].name \in Name <=> Slot(D, c, i)
                          /\ Slot(D, c, i) => t[i].name = Nam(D, c, i) /\ t[i].sector = Sec(D, c, i)
  BY <1>1, <1>2, FetchIs
<1>4. PICK u : u = RemoveEntry(t, n)
  OBVIOUS
<1>5. j \in FindIndex(t, n)
  BY <1>1, <1>3 DEF FindIndex
<1>6. PICK k \in Index : t[k].inUse /\ t[k].name = n /\ u = [t EXCEPT ![k].inUse = FALSE]
  <2>1. FindIndex(t, n) # {}
    BY <1>5
  <2>2. \E k \in Index : /\ t[k].inUse /\ t[k].name = n /\ t[k].sector = Find(t, n)
                         /\ RemoveEntry(t, n) = [t EXCEPT ![k].inUse = FALSE]
                         /\ RemoveEntry(t, n) \in [Index -> Entries]
                         /\ \A m : m # n => Find(RemoveEntry(t, n), m) = Find(t, m)
    <3>1. t \in [Index -> Entries] /\ n \in Name
      BY <1>3
    <3> QED BY ONLY ZenonT(30), <2>1, <3>1, RemoveIs
  <2> QED BY <1>4, <2>2
<1>7. E[c] = Table(u) /\ \A s \in Sector : s # c => E[s] = D[s]
  BY <1>1, <1>2, <1>3, <1>4 DEF Wrote
<1>8. E[c].kind = "table" /\ E[c].table = u
  BY <1>7 DEF Table
<1>9. ~u[k].inUse /\ \A i \in Index : i # k => u[i] = t[i]
  <2>1. u[k] = [t[k] EXCEPT !.inUse = FALSE] /\ \A i \in Index : i # k => u[i] = t[i]
    BY <1>3, <1>6
  <2>2. PICK e \in Entries : e = t[k]
    BY <1>3
  <2>3. ~[e EXCEPT !.inUse = FALSE].inUse
    BY DEF Entries
  <2> QED BY <2>1, <2>2, <2>3
<1>10. \A i \in Index : /\ Slot(E, c, i) <=> u[i].inUse /\ u[i].name \in Name
                        /\ Nam(E, c, i) = u[i].name /\ Sec(E, c, i) = u[i].sector
  BY <1>8 DEF Slot, Nam, Sec
<1>11. \A s \in Sector, i \in Index : s # c =>
          (Slot(E, s, i) <=> Slot(D, s, i)) /\ Nam(E, s, i) = Nam(D, s, i) /\ Sec(E, s, i) = Sec(D, s, i)
  BY <1>7 DEF Slot, Nam, Sec
<1>12. Slot(D, c, k) /\ Nam(D, c, k) = n
  BY <1>3, <1>6
<1>13. \A i \in Index : /\ Slot(E, c, i) <=> Slot(D, c, i) /\ i # k
                        /\ Slot(E, c, i) => /\ Sec(E, c, i) = Sec(D, c, i)
                                            /\ Nam(E, c, i) = Nam(D, c, i)
  <2> TAKE i \in Index
  <2>1. CASE i = k
    BY <1>9, <1>10, <2>1
  <2>2. CASE i # k
    BY <1>3, <1>9, <1>10, <2>2
  <2> QED BY <2>1, <2>2
<1>14. Gone(D, E, c, k)
  BY <1>7, <1>11, <1>12, <1>13 DEF Gone
<1> QED BY <1>1, <1>12, <1>14

LEMMA GoneApart ==
  ASSUME NEW D \in Disks, NEW E \in Disks, NEW M, NEW W, NEW c \in Sector, NEW k \in Index,
         Gone(D, E, c, k), EntriesApart(D, M \cup W), W = Obj(D, Sec(D, c, k)),
         \A s \in Sector, i \in Index : Slot(D, s, i) => Sec(D, s, i) # c
  PROVE  EntriesApart(E, M)
<1>1. \A s \in Sector, i \in Index : Slot(E, s, i) =>
        /\ Slot(D, s, i) /\ (s # c \/ i # k)
        /\ Sec(E, s, i) = Sec(D, s, i) /\ Nam(E, s, i) = Nam(D, s, i)
        /\ Placed(D, M \cup W, Sec(D, s, i)) /\ Sec(D, s, i) \in Sector /\ Sec(D, s, i) # c
  BY DEF EntriesApart, Gone, Placed
<1>2. \A y \in Sector : y # c => E[y] = D[y] /\ Obj(E, y) = Obj(D, y)
  BY DEF Gone, Obj
<1>3. Slot(D, c, k)
  BY DEF Gone
<1>4. \A s \in Sector, i \in Index : Slot(E, s, i) => Obj(D, Sec(D, s, i)) \cap W = {}
  BY <1>1, <1>3 DEF EntriesApart
<1>5. \A s \in Sector, i \in Index : Slot(E, s, i) => Placed(E, M, Sec(E, s, i))
  BY <1>1, <1>2, <1>4 DEF Placed
<1>6. \A s \in Sector, i \in Index : Slot(E, s, i) =>
         Obj(E, Sec(E, s, i)) = Obj(D, Sec(D, s, i))
  BY <1>1, <1>2
<1>7. \A s, r \in Sector, i, j \in Index :
          Slot(E, s, i) /\ Slot(E, r, j) /\ (s # r \/ i # j)
            => Obj(E, Sec(E, s, i)) \cap Obj(E, Sec(E, r, j)) = {}
  BY <1>1, <1>6 DEF EntriesApart
<1>8. \A s \in Sector, i, j \in Index :
          Slot(E, s, i) /\ Slot(E, s, j) /\ Nam(E, s, i) = Nam(E, s, j) => i = j
  BY <1>1 DEF EntriesApart
<1> QED BY <1>5, <1>7, <1>8 DEF EntriesApart

Inside(F, p, n)    == {f \in F : IsPrefix(Append(p, n), f.path)}
FilesLess(F, p, n) == {f \in F \ Inside(F, p, n) : <<f.path, f.name>> # <<p, n>>}

LEMMA LessIs ==
  ASSUME NEW F, F \subseteq Files, NEW p \in Seq(Name), NEW n \in Name
  PROVE  /\ FilesLess(F, p, n) \subseteq F
         /\ \A f \in F : f \in FilesLess(F, p, n) <=>
               ~IsPrefix(Append(p, n), f.path) /\ ~(f.path = p /\ f.name = n)
         /\ \A f \in F : f \in FilesLess(F, p, n) <=> ~IsPrefix(Append(p, n), Append(f.path, f.name))
         /\ \A f \in F : f \in FilesLess(F, p, n) \/ f \in Inside(F, p, n) \/ (f.path = p /\ f.name = n)
<1>1. /\ FilesLess(F, p, n) \subseteq F
      /\ \A f \in F : f \in FilesLess(F, p, n) <=>
            ~IsPrefix(Append(p, n), f.path) /\ ~(f.path = p /\ f.name = n)
      /\ \A f \in F : f \in FilesLess(F, p, n) \/ f \in Inside(F, p, n) \/ (f.path = p /\ f.name = n)
  BY DEF FilesLess, Inside
<1>2. ASSUME NEW f \in F
      PROVE  IsPrefix(Append(p, n), Append(f.path, f.name)) <=>
                IsPrefix(Append(p, n), f.path) \/ (f.path = p /\ f.name = n)
  <2>1. f.path \in Seq(Name) /\ f.name \in Name
    BY FileIs
  <2>2. Append(p, n) \in Seq(Name)
    BY AppendIsNone
  <2>3. IsPrefix(Append(p, n), Append(f.path, f.name)) <=>
           IsPrefix(Append(p, n), f.path) \/ Append(p, n) = Append(f.path, f.name)
    BY <2>1, <2>2, PrefixAppend
  <2>4. Append(p, n) = Append(f.path, f.name) <=> f.path = p /\ f.name = n
    BY <2>1, AppendInj
  <2> QED BY <2>3, <2>4
<1> QED BY <1>1, <1>2

(* The entry leads to the file of its name, if any. *)
LEMMA TargetIs ==
  ASSUME NEW D \in Disks, NEW M, NEW F, F \subseteq Files, NEW O, Tidy(D, M, F, O),
         NEW L \in Locals, NEW c, CwdApart(D, M, F, L, c), NEW k \in Index, Slot(D, c, k),
         NEW f \in F
  PROVE  /\ f.path = Walked(L) /\ f.name = Nam(D, c, k) => f.sector = Sec(D, c, k)
         /\ ~(f.path = Walked(L) /\ f.name = Nam(D, c, k)) =>
              AllSectors(f) \cap Obj(D, Sec(D, c, k)) = {} /\ f.sector # Sec(D, c, k)
<1>1. c \in Sector /\ \A p : Leads(F, p, c) => p = Walked(L)
  BY DEF CwdApart
<1>2. PICK s \in Sector, i \in Index : /\ Slot(D, s, i) /\ Leads(F, f.path, s)
                                       /\ Nam(D, s, i) = f.name /\ Sec(D, s, i) = f.sector
  BY TidyFile DEF Listed
<1>3. ASSUME f.path = Walked(L), f.name = Nam(D, c, k) PROVE f.sector = Sec(D, c, k)
  <2>1. DirIn(F, f.path)
    BY <1>2 DEF Leads, DirIn
  <2>2. Leads(F, f.path, c)
    BY <1>3, <2>1 DEF CwdApart
  <2>3. PICK p : p = f.path
    OBVIOUS
  <2>4. p = p <=> s = c
    BY <1>2, <2>2, <2>3, TidyLeadsOne
  <2>5. i = k
    BY <1>1, <1>2, <1>3, <2>4 DEF Tidy, EntriesApart
  <2> QED BY <1>2, <2>4, <2>5
<1>4. \/ Obj(D, Sec(D, c, k)) \cap AllSectors(f) = {} /\ Sec(D, c, k) # f.sector
      \/ Sec(D, c, k) = f.sector /\ Leads(F, f.path, c) /\ Nam(D, c, k) = f.name
  BY <1>1, TidySlot
<1> QED BY <1>1, <1>3, <1>4

(* WriteDirLast completes a removal. *)
LEMMA TidyRemove ==
  ASSUME NEW D \in Disks, NEW E \in Disks, NEW M, NEW W, NEW F, F \subseteq Files, NEW O,
         Tidy(D, M \cup W, F, O), M \cap W = {}, NEW L \in Locals, NEW c,
         CwdApart(D, M \cup W, F, L, c), NEW k \in Index, Gone(D, E, c, k),
         W = Obj(D, Sec(D, c, k)), NEW p \in Seq(Name), NEW n \in Name,
         p = Walked(L), n = Nam(D, c, k)
  PROVE  Tidy(E, M, FilesLess(F, p, n), (O \cup AllOf(Inside(F, p, n))) \ W)
<1>1. /\ c \in Sector /\ \A s \in Sector, i \in Index : Slot(D, s, i) => Sec(D, s, i) # c
      /\ \A f \in F : f.sector # c
      /\ \A q : Leads(F, q, c) => q = p /\ DirIn(F, p)
      /\ DirIn(F, p) => Leads(F, p, c)
  BY DEF CwdApart
<1>2. /\ \A s \in Sector : s # c => E[s] = D[s]
      /\ \A s \in Sector, i \in Index : Slot(E, s, i) <=> Slot(D, s, i) /\ ~(s = c /\ i = k)
      /\ \A s \in Sector, i \in Index : Slot(E, s, i) =>
            Sec(E, s, i) = Sec(D, s, i) /\ Nam(E, s, i) = Nam(D, s, i)
      /\ Slot(D, c, k)
  BY DEF Gone
<1>3. EntriesApart(D, M \cup W) /\ FilesListed(D, F) /\ KeysOK(F) /\ M \cup W = Fixed \cup O \cup AllOf(F)
  BY DEF Tidy
<1>4. EntriesApart(E, M)
  BY <1>1, <1>3, GoneApart
<1>5. PICK G : G = FilesLess(F, p, n)
  OBVIOUS
<1>6. PICK I : I = Inside(F, p, n)
  OBVIOUS
<1>7. PICK a : a = Append(p, n)
  OBVIOUS
<1>8. /\ G \subseteq F /\ I \subseteq F
      /\ \A f \in F : f \in G <=> ~IsPrefix(a, f.path) /\ ~(f.path = p /\ f.name = n)
      /\ \A f \in F : f \in G <=> ~IsPrefix(a, Append(f.path, f.name))
      /\ \A f \in F : f \in G \/ f \in I \/ (f.path = p /\ f.name = n)
  BY <1>5, <1>6, <1>7, LessIs DEF Inside
<1>9. ASSUME NEW f \in F
      PROVE  /\ D[f.sector] = f.hdr /\ Listed(D, F, f) /\ AllSectors(f) = Obj(D, f.sector)
             /\ f.sector \in Sector /\ f.path \in Seq(Name)
             /\ f.path = p /\ f.name = n => f.sector = Sec(D, c, k)
             /\ ~(f.path = p /\ f.name = n) => AllSectors(f) \cap W = {} /\ f.sector # Sec(D, c, k)
  <2>1. /\ f.path = Walked(L) /\ f.name = Nam(D, c, k) => f.sector = Sec(D, c, k)
        /\ ~(f.path = Walked(L) /\ f.name = Nam(D, c, k)) =>
              AllSectors(f) \cap Obj(D, Sec(D, c, k)) = {} /\ f.sector # Sec(D, c, k)
    BY <1>2, TargetIs
  <2> QED BY <2>1, TidyFile, FileIs
<1>10. \A q, s : Leads(G, q, s) => Leads(F, q, s)
  BY <1>8 DEF Leads
<1>11. \A f \in F : Append(f.path, f.name) # <<>> /\ Append(f.path, f.name) \in Seq(Name)
  BY FileIs
<1>12. ASSUME NEW q \in Seq(Name), NEW s, ~IsPrefix(a, q), Leads(F, q, s) PROVE Leads(G, q, s)
  BY <1>8, <1>12 DEF Leads
<1>13. ASSUME NEW f \in G PROVE E[f.sector] = f.hdr /\ Listed(E, G, f)
  <2>1. /\ D[f.sector] = f.hdr /\ Listed(D, F, f) /\ f.sector \in Sector /\ f.sector # Sec(D, c, k)
        /\ ~IsPrefix(a, f.path) /\ f.path \in Seq(Name)
    BY <1>8, <1>9
  <2>2. PICK s \in Sector, i \in Index : /\ Slot(D, s, i) /\ Leads(F, f.path, s)
                                         /\ Nam(D, s, i) = f.name /\ Sec(D, s, i) = f.sector
    BY <2>1 DEF Listed
  <2>3. Slot(E, s, i)
    BY <1>2, <2>1, <2>2
  <2>4. Leads(G, f.path, s)
    BY <1>12, <2>1, <2>2
  <2> QED BY <1>1, <1>2, <1>8, <2>1, <2>2, <2>3, <2>4 DEF Listed
<1>14. ASSUME NEW s \in Sector, NEW i \in Index, NEW q \in Seq(Name), Slot(E, s, i), Leads(G, q, s)
       PROVE  \E f \in G : f.path = q /\ f.name = Nam(E, s, i) /\ f.sector = Sec(E, s, i)
  <2>1. PICK f \in F : f.path = q /\ f.name = Nam(D, s, i) /\ f.sector = Sec(D, s, i)
    BY <1>2, <1>3, <1>10, <1>14 DEF FilesListed
  <2>2. ~IsPrefix(a, q)
    <3>1. CASE q = <<>>
      <4>1. IsPrefix(a, q) <=> Len(a) <= Len(q) /\ \A j \in 1..Len(a) : a[j] = q[j]
        <5>1. a \in Seq(Name)
          BY <1>7, AppendIsNone
        <5> QED BY <5>1, PrefixOf
      <4>2. Len(a) = Len(p) + 1 /\ Len(p) \in Nat /\ Len(q) = 0
        <5>1. Len(Append(p, n)) = Len(p) + 1 /\ Len(p) \in Nat /\ Len(<<>>) = 0
          OBVIOUS
        <5> QED BY ONLY <1>7, <3>1, <5>1
      <4> QED BY ONLY <4>1, <4>2
    <3>2. CASE q # <<>>
      BY <1>8, <1>14, <3>2 DEF Leads
    <3> QED BY <3>1, <3>2
  <2>3. ~(f.path = p /\ f.name = n)
    <3> SUFFICES ASSUME f.path = p, f.name = n PROVE FALSE
      OBVIOUS
    <3>1. f.sector = Sec(D, c, k)
      BY <1>9
    <3>2. Slot(D, s, i) /\ (s # c \/ i # k) /\ Slot(D, c, k)
      BY <1>2, <1>14
    <3>3. Obj(D, Sec(D, s, i)) \cap Obj(D, Sec(D, c, k)) = {}
      BY <1>1, <1>3, <3>2 DEF EntriesApart
    <3> QED BY <2>1, <3>1, <3>3 DEF Obj
  <2> QED BY <1>2, <1>8, <1>14, <2>1, <2>2, <2>3
<1>15. FilesListed(E, G)
  <2>1. \A f, g \in G : f # g => AllSectors(f) \cap AllSectors(g) = {}
    BY <1>3, <1>8 DEF FilesListed
  <2> QED BY <1>13, <1>14, <2>1 DEF FilesListed
<1>16. KeysOK(G)
  BY <1>3, <1>8 DEF KeysOK
<1>17. M = Fixed \cup ((O \cup AllOf(I)) \ W) \cup AllOf(G)
  <2>1. Fixed \cap W = {}
    BY <1>1, <1>2, TidyPlaced
  <2>2. AllOf(G) \cap W = {} /\ AllOf(G) \subseteq AllOf(F) /\ AllOf(I) \subseteq AllOf(F)
    BY <1>8, <1>9 DEF AllOf
  <2>3. \A f \in F : AllSectors(f) \subseteq AllOf(G) \cup AllOf(I) \cup W
    BY <1>8, <1>9 DEF AllOf
  <2>4. AllOf(F) \subseteq AllOf(G) \cup AllOf(I) \cup W
    BY <2>3 DEF AllOf
  <2>5. M \cap W = {}
    OBVIOUS
  <2> QED BY ONLY <1>3, <2>1, <2>2, <2>4, <2>5
<1> QED BY <1>4, <1>5, <1>6, <1>15, <1>16, <1>17 DEF Tidy

-----------------------------------------------------------------------------
(* Fewer bystanders. *)

LEMMA CalmLeads ==
  ASSUME NEW D \in Disks, NEW F, F \subseteq Files, NEW B, B \subseteq F, CalmTree(D, B, F),
         NEW p, NEW s, Leads(B, p, s)
  PROVE  TableIn(B, p, s) /\ s \in Guarded(B) /\ s \in Sector /\ s \notin 0..2
<1>1. CASE p = <<>> /\ s = RootData
  BY <1>1, Basics DEF Fixed, RootData, TableIn, Guarded
<1>2. CASE \E d \in B : d.isDir /\ Append(d.path, d.name) = p /\ s = d.hdr.data[1]
  <2>1. PICK d \in B : d.isDir /\ Append(d.path, d.name) = p /\ s = d.hdr.data[1]
    BY <1>2
  <2>2. d.hdr.data # <<>> /\ d \in Files
    BY <2>1 DEF CalmTree, KeysOK
  <2>3. s \in DataSet(d.hdr) /\ s \in AllSectors(d) /\ AllSectors(d) \subseteq Sector
    BY <2>1, <2>2, FileIs
  <2>4. AllSectors(d) \cap Fixed = {}
    BY DEF CalmTree, ByIntact
  <2>5. s \in Guarded(B)
    BY <2>3 DEF Guarded, AllOf
  <2> QED BY <2>1, <2>3, <2>4, <2>5 DEF Fixed, TableIn
<1> QED BY <1>1, <1>2 DEF Leads

LEMMA CalmLeadsOne ==
  ASSUME NEW D \in Disks, NEW F, F \subseteq Files, NEW B, B \subseteq F, CalmTree(D, B, F),
         NEW p, NEW s, Leads(B, p, s), NEW r, Leads(B, p, r)
  PROVE  s = r
<1>1. TableIn(B, p, s) /\ TableIn(B, p, r)
  BY CalmLeads
<1>2. \A d \in B : d.path \in Seq(Name) /\ d.name \in Name /\ Append(d.path, d.name) # <<>>
  BY FileIs
<1>3. CASE p = <<>>
  BY <1>1, <1>2, <1>3 DEF TableIn
<1>4. CASE p # <<>>
  <2>1. PICK d \in B : Append(d.path, d.name) = p /\ s = d.hdr.data[1]
    BY <1>1, <1>4 DEF TableIn
  <2>2. PICK e \in B : Append(e.path, e.name) = p /\ r = e.hdr.data[1]
    BY <1>1, <1>4 DEF TableIn
  <2>3. d.path = e.path /\ d.name = e.name
    <3>1. d \in Files /\ e \in Files /\ Append(d.path, d.name) = Append(e.path, e.name)
      BY <2>1, <2>2
    <3> QED BY ONLY <3>1, SameKey
  <2>4. d = e
    <3>1. \A f, g \in F : f.path = g.path /\ f.name = g.name => f = g
      BY DEF CalmTree, KeysOK
    <3> QED BY <2>3, <3>1
  <2> QED BY <2>1, <2>2, <2>4
<1> QED BY <1>3, <1>4

(* With a bystander, its directories are bystanders. *)
Closed(B, C) == \A f \in B, d \in C : d.isDir /\ Append(d.path, d.name) = f.path => d \in B

LEMMA FewerGuarded ==
  ASSUME NEW D, NEW C, NEW B, B \subseteq C
  PROVE  /\ Guarded(B) \subseteq Guarded(C)
         /\ \A x : Safe(D, C, x) => Safe(D, B, x)
         /\ \A p, s : Leads(B, p, s) => Leads(C, p, s)
<1>1. Guarded(B) \subseteq Guarded(C)
  BY DEF Guarded, AllOf
<1>2. \A x : Safe(D, C, x) => Safe(D, B, x)
  BY <1>1 DEF Safe
<1>3. \A p, s : Leads(B, p, s) => Leads(C, p, s)
  BY DEF Leads
<1> QED BY <1>1, <1>2, <1>3

(* What is no longer a bystander's is still no other's. *)
LEMMA SafeFile ==
  ASSUME NEW D \in Disks, NEW F, F \subseteq Files, NEW C, C \subseteq F, CalmTree(D, C, F),
         NEW B, B \subseteq C, NEW f \in C, f \notin B
  PROVE  Safe(D, B, f.sector)
<1>1. D[f.sector] = f.hdr /\ AllSectors(f) \cap Fixed = {}
      /\ \A g \in F \ {f} : AllSectors(f) \cap AllSectors(g) = {}
  BY DEF CalmTree, ByIntact
<1>2. AllSectors(f) = {f.sector} \cup DataSet(f.hdr) /\ AllSectors(f) \subseteq Sector
  BY FileIs
<1>3. \A g \in B : AllSectors(f) \cap AllSectors(g) = {}
  BY <1>1
<1>4. AllSectors(f) \cap Guarded(B) = {}
  BY <1>1, <1>3 DEF Guarded, AllOf
<1> QED BY <1>1, <1>2, <1>4 DEF Safe

LEMMA ClosedLeads ==
  ASSUME NEW C, NEW B, B \subseteq C, Closed(B, C), NEW f \in B, NEW s, Leads(C, f.path, s)
  PROVE  Leads(B, f.path, s)
BY DEF Closed, Leads

LEMMA OwnLess ==
  ASSUME NEW D \in Disks, NEW F, F \subseteq Files, NEW C, C \subseteq F, CalmTree(D, C, F),
         NEW B, B \subseteq C, Closed(B, C), NEW s, NEW n, NEW x, Own(C, s, n, x)
  PROVE  Safe(D, B, x) \/ Own(B, s, n, x)
<1>1. PICK f \in C : f.name = n /\ f.sector = x /\ Leads(C, f.path, s)
  BY DEF Own
<1>2. CASE f \in B
  <2>1. Leads(B, f.path, s)
    BY <1>1, <1>2, ClosedLeads
  <2> QED BY <1>1, <1>2, <2>1 DEF Own
<1>3. CASE f \notin B
  <2>1. Safe(D, B, f.sector)
    BY <1>3, SafeFile
  <2> QED BY <1>1, <2>1
<1> QED BY <1>2, <1>3

LEMMA Shrink ==
  ASSUME NEW D \in Disks, NEW F, F \subseteq Files, NEW C, C \subseteq F, CalmTree(D, C, F),
         NEW B, B \subseteq C, Closed(B, C)
  PROVE  CalmTree(D, B, F)
<1>1. ByIntact(D, B, F)
  <2>1. ASSUME NEW f \in B
        PROVE  \E s \in Sector : /\ Leads(B, f.path, s) /\ D[s].kind = "table"
                                 /\ Find(D[s].table, f.name) = f.sector
    <3>1. PICK s \in Sector : /\ Leads(C, f.path, s) /\ D[s].kind = "table"
                              /\ Find(D[s].table, f.name) = f.sector
      BY DEF CalmTree, ByIntact
    <3>2. Leads(B, f.path, s)
      BY <3>1, ClosedLeads
    <3> QED BY <3>1, <3>2
  <2> QED BY <2>1 DEF CalmTree, ByIntact
<1>2. TablesCalm(D, B)
  <2>1. ASSUME NEW s \in Sector, NEW i \in Index, Slot(D, s, i)
        PROVE  Safe(D, B, Sec(D, s, i)) \/ Own(B, s, Nam(D, s, i), Sec(D, s, i))
    <3>1. Safe(D, C, Sec(D, s, i)) \/ Own(C, s, Nam(D, s, i), Sec(D, s, i))
      BY <2>1 DEF CalmTree, TablesCalm
    <3>2. PICK x : x = Sec(D, s, i)
      OBVIOUS
    <3>3. PICK n : n = Nam(D, s, i)
      OBVIOUS
    <3> QED BY <3>1, <3>2, <3>3, OwnLess, FewerGuarded
  <2> QED BY <2>1 DEF TablesCalm
<1> QED BY <1>1, <1>2 DEF CalmTree

LEMMA ShrinkLocal ==
  ASSUME NEW D \in Disks, NEW F, F \subseteq Files, NEW C, C \subseteq F, CalmTree(D, C, F),
         NEW B, B \subseteq C, Closed(B, C), NEW k, NEW L \in Locals, CalmLocal(D, C, k, L)
  PROVE  CalmLocal(D, B, k, L)
<1>1. /\ Guarded(B) \subseteq Guarded(C)
      /\ \A x : Safe(D, C, x) => Safe(D, B, x)
      /\ \A p, s : Leads(B, p, s) => Leads(C, p, s)
  BY FewerGuarded
<1>2. CwdCalm(C, L) => CwdCalm(B, L)
  BY <1>1 DEF CwdCalm
<1>3. OpenCalm(D, C, L) => OpenCalm(D, B, L)
  <2>1. \A f \in C : f \notin B => Safe(D, B, f.sector)
    BY SafeFile
  <2> QED BY <1>1, <2>1 DEF OpenCalm
<1>4. ASSUME NEW c, NEW t, NEW X, TableCalm(D, C, c, t, X) PROVE TableCalm(D, B, c, t, X)
  <2>1. \A f \in B : Leads(B, f.path, c) => Find(t, f.name) = f.sector
    BY <1>1, <1>4 DEF TableCalm
  <2>2. \A n, x : Own(C, c, n, x) => Safe(D, B, x) \/ Own(B, c, n, x)
    BY OwnLess
  <2>3. \A i \in Index : t[i].inUse /\ t[i].name \in Name =>
          Safe(D, B, t[i].sector) \/ Own(B, c, t[i].name, t[i].sector) \/ t[i].sector \in X
    BY <1>1, <1>4, <2>2 DEF TableCalm
  <2> QED BY <2>1, <2>3 DEF TableCalm
<1>5. DirCalm(D, C, k, L) => DirCalm(D, B, k, L)
  BY <1>4 DEF DirCalm
<1> QED BY <1>1, <1>2, <1>3, <1>5 DEF CalmLocal

-----------------------------------------------------------------------------
(* Tables and bystanders. *)

LEMMA FetchCalm ==
  ASSUME NEW D \in Disks, NEW F, F \subseteq Files, NEW B, B \subseteq F, CalmTree(D, B, F),
         NEW f, f.data \in Seq(Sector), f.data # <<>>
  PROVE  TableCalm(D, B, f.data[1], FetchIn(D, f), {})
<1>1. PICK c : c = f.data[1]
  OBVIOUS
<1>2. PICK t : t = FetchIn(D, f)
  OBVIOUS
<1>3. /\ c \in Sector
      /\ \A i \in Index : /\ t[i].inUse /\ t[i].name \in Name <=> Slot(D, c, i)
                          /\ Slot(D, c, i) => t[i].name = Nam(D, c, i) /\ t[i].sector = Sec(D, c, i)
      /\ D[c].kind = "table" => t = D[c].table
  BY <1>1, <1>2, FetchIs
<1>4. ASSUME NEW g \in B, Leads(B, g.path, c) PROVE Find(t, g.name) = g.sector
  <2>1. PICK s \in Sector : /\ Leads(B, g.path, s) /\ D[s].kind = "table"
                            /\ Find(D[s].table, g.name) = g.sector
    BY DEF CalmTree, ByIntact
  <2>2. s = c
    BY <1>4, <2>1, CalmLeadsOne
  <2> QED BY <1>3, <2>1, <2>2
<1>5. \A i \in Index : t[i].inUse /\ t[i].name \in Name =>
         Safe(D, B, t[i].sector) \/ Own(B, c, t[i].name, t[i].sector)
  BY <1>3 DEF CalmTree, TablesCalm
<1> QED BY <1>1, <1>2, <1>4, <1>5 DEF TableCalm

LEMMA AddCalm ==
  ASSUME NEW D, NEW B, NEW c, NEW t \in [Index -> Entries], TableCalm(D, B, c, t, {}),
         NEW n \in Name, NEW d \in BOOLEAN, NEW x \in Sector, Room(t) # {},
         \A f \in B : Leads(B, f.path, c) => f.name # n
  PROVE  TableCalm(D, B, c, Add(t, n, d, x), {x})
<1>1. PICK k \in Index : /\ ~t[k].inUse /\ Add(t, n, d, x) = [t EXCEPT ![k] = Entry(n, d, x)]
                         /\ Add(t, n, d, x) \in [Index -> Entries]
                         /\ \A m : m # n => Find(Add(t, n, d, x), m) = Find(t, m)
  BY AddIs
<1>2. PICK u : u = Add(t, n, d, x)
  OBVIOUS
<1>3. u = [t EXCEPT ![k] = Entry(n, d, x)] /\ \A m : m # n => Find(u, m) = Find(t, m)
  BY <1>1, <1>2
<1>4. u[k] = Entry(n, d, x) /\ \A i \in Index : i # k => u[i] = t[i]
  BY <1>3
<1>5. u[k].sector = x
  BY <1>4 DEF Entry
<1>6. \A f \in B : Leads(B, f.path, c) => Find(u, f.name) = f.sector
  BY <1>3 DEF TableCalm
<1>7. \A i \in Index : u[i].inUse /\ u[i].name \in Name =>
         Safe(D, B, u[i].sector) \/ Own(B, c, u[i].name, u[i].sector) \/ u[i].sector \in {x}
  BY <1>4, <1>5 DEF TableCalm
<1>8. TableCalm(D, B, c, u, {x})
  BY <1>6, <1>7 DEF TableCalm
<1> QED BY <1>2, <1>8

LEMMA RemoveCalm ==
  ASSUME NEW D, NEW B, NEW c, NEW t \in [Index -> Entries], TableCalm(D, B, c, t, {}),
         NEW n \in Name, FindIndex(t, n) # {},
         \A f \in B : Leads(B, f.path, c) => f.name # n
  PROVE  TableCalm(D, B, c, RemoveEntry(t, n), {})
<1>1. PICK k \in Index : /\ t[k].inUse /\ t[k].name = n /\ t[k].sector = Find(t, n)
                         /\ RemoveEntry(t, n) = [t EXCEPT ![k].inUse = FALSE]
                         /\ RemoveEntry(t, n) \in [Index -> Entries]
                         /\ \A m : m # n => Find(RemoveEntry(t, n), m) = Find(t, m)
  BY RemoveIs
<1>2. PICK u : u = RemoveEntry(t, n)
  OBVIOUS
<1>3. u = [t EXCEPT ![k].inUse = FALSE] /\ \A m : m # n => Find(u, m) = Find(t, m)
  BY <1>1, <1>2
<1>4. u[k] = [t[k] EXCEPT !.inUse = FALSE] /\ \A i \in Index : i # k => u[i] = t[i]
  BY <1>3
<1>5. ~u[k].inUse
  <2>1. PICK e \in Entries : e = t[k]
    BY <1>1
  <2>2. ~[e EXCEPT !.inUse = FALSE].inUse
    BY DEF Entries
  <2> QED BY <1>4, <2>1, <2>2
<1>6. \A f \in B : Leads(B, f.path, c) => Find(u, f.name) = f.sector
  BY <1>3 DEF TableCalm
<1>7. \A i \in Index : u[i].inUse /\ u[i].name \in Name =>
         Safe(D, B, u[i].sector) \/ Own(B, c, u[i].name, u[i].sector) \/ u[i].sector \in {}
  BY <1>4, <1>5 DEF TableCalm
<1>8. TableCalm(D, B, c, u, {})
  BY <1>6, <1>7 DEF TableCalm
<1> QED BY <1>2, <1>8

(* The operation's own file is no bystander. *)
TargetOut(B, L) == \A f \in B : ~(f.path = L.op.path /\ f.name = L.op.name)

LEMMA NamesOut ==
  ASSUME NEW B, B \subseteq Files, NEW L \in Locals, L.walk = <<>>, CwdCalm(B, L), TargetOut(B, L),
         L.cwd.data # <<>>
  PROVE  \A f \in B : Leads(B, f.path, L.cwd.data[1]) => f.name # L.op.name /\ f.path = L.op.path
<1>1. Walked(L) = L.op.path
  BY LocalsAre, WalkEnds DEF Walked
<1>2. \A f \in B : f.path \in Seq(Name)
  BY FileIs
<1> QED BY <1>1, <1>2 DEF CwdCalm, TargetOut

Keeps(D, E, B) == \A x : Safe(D, B, x) => Safe(E, B, x)

LEMMA SafeKept ==
  ASSUME NEW D, NEW E, NEW B,
         \A x \in Sector : E[x] # D[x] /\ E[x].kind = "header" => DataSet(E[x]) \cap Guarded(B) = {}
  PROVE  Keeps(D, E, B)
BY DEF Keeps, Safe

LEMMA TableKept ==
  ASSUME NEW D, NEW E, NEW B, Keeps(D, E, B), NEW c, NEW t, NEW X, TableCalm(D, B, c, t, X)
  PROVE  TableCalm(E, B, c, t, X)
BY DEF Keeps, TableCalm

LEMMA LocalKept ==
  ASSUME NEW D, NEW E, NEW B, Keeps(D, E, B), NEW k, NEW L, CalmLocal(D, B, k, L)
  PROVE  CalmLocal(E, B, k, L)
<1>1. OpenCalm(D, B, L) => OpenCalm(E, B, L)
  BY DEF Keeps, OpenCalm
<1>2. DirCalm(D, B, k, L) => DirCalm(E, B, k, L)
  BY TableKept DEF DirCalm
<1> QED BY <1>1, <1>2 DEF CalmLocal, Keeps

(* One sector w is written. *)
LEMMA WriteCalm ==
  ASSUME NEW D \in Disks, NEW E \in Disks, NEW F, F \subseteq Files, NEW B, B \subseteq F,
         CalmTree(D, B, F), Keeps(D, E, B), NEW w \in Sector,
         \A s \in Sector : s # w => E[s] = D[s],
         \A f \in B : f.sector # w,
         \/ E[w].kind # "table" /\ \A p : ~Leads(B, p, w)
         \/ E[w].kind = "table" /\ TableCalm(E, B, w, E[w].table, {}),
         NEW G, KeysOK(G), \A f \in B : \A g \in G \ {f} : AllSectors(f) \cap AllSectors(g) = {}
  PROVE  CalmTree(E, B, G)
<1>1. \A f \in B : f.sector \in Sector
  BY FileIs
<1>2. ASSUME NEW f \in B
      PROVE  \E s \in Sector : /\ Leads(B, f.path, s) /\ E[s].kind = "table"
                               /\ Find(E[s].table, f.name) = f.sector
  <2>1. PICK s \in Sector : /\ Leads(B, f.path, s) /\ D[s].kind = "table"
                            /\ Find(D[s].table, f.name) = f.sector
    BY DEF CalmTree, ByIntact
  <2>2. CASE s # w
    BY <2>1, <2>2
  <2>3. CASE s = w
    <3>1. E[w].kind = "table" /\ TableCalm(E, B, w, E[w].table, {})
      BY <2>1, <2>3
    <3> QED BY <2>1, <2>3, <3>1 DEF TableCalm
  <2> QED BY <2>2, <2>3
<1>3. ByIntact(E, B, G)
  BY <1>1, <1>2 DEF CalmTree, ByIntact
<1>4. TablesCalm(E, B)
  <2>1. ASSUME NEW s \in Sector, NEW i \in Index, Slot(E, s, i)
        PROVE  Safe(E, B, Sec(E, s, i)) \/ Own(B, s, Nam(E, s, i), Sec(E, s, i))
    <3>1. CASE s # w
      <4>1. Slot(D, s, i) /\ Sec(E, s, i) = Sec(D, s, i) /\ Nam(E, s, i) = Nam(D, s, i)
        BY <2>1, <3>1 DEF Slot, Sec, Nam
      <4>2. Safe(D, B, Sec(D, s, i)) \/ Own(B, s, Nam(D, s, i), Sec(D, s, i))
        BY <4>1 DEF CalmTree, TablesCalm
      <4> QED BY <4>1, <4>2 DEF Keeps
    <3>2. CASE s = w
      <4>1. E[w].kind = "table" /\ E[w].table[i].inUse /\ E[w].table[i].name \in Name
        BY <2>1, <3>2 DEF Slot
      <4>2. TableCalm(E, B, w, E[w].table, {})
        BY <4>1
      <4> QED BY <3>2, <4>1, <4>2 DEF TableCalm, Sec, Nam
    <3> QED BY <3>1, <3>2
  <2> QED BY <2>1 DEF TablesCalm
<1> QED BY <1>3, <1>4 DEF CalmTree

(* Tables without entries are written to the sectors W. *)
Written(D, E, W) ==
    /\ E \in Disks /\ W \cap Fixed = {}
    /\ \A s \in Sector : s \notin W => E[s] = D[s]
    /\ \A s \in Sector : s \in W => E[s].kind = "table" /\ \A i \in Index : ~Slot(E, s, i)

LEMMA WrittenCalm ==
  ASSUME NEW D \in Disks, NEW E, NEW F, F \subseteq Files, NEW B, B \subseteq F,
         CalmTree(D, B, F), NEW W, Written(D, E, W), W \cap Guarded(B) = {}
  PROVE  CalmTree(E, B, F) /\ Keeps(D, E, B)
<1>1. Keeps(D, E, B)
  <2>1. \A x \in Sector : E[x] # D[x] => E[x].kind = "table"
    BY DEF Written
  <2> QED BY <2>1, SafeKept
<1>2. \A s \in Sector : s \in Guarded(B) => E[s] = D[s]
  BY DEF Written
<1>3. \A f \in B : f.sector \in Sector /\ f.sector \in Guarded(B)
  BY FileIs DEF Guarded, AllOf
<1>4. ASSUME NEW f \in B
      PROVE  \E s \in Sector : /\ Leads(B, f.path, s) /\ E[s].kind = "table"
                               /\ Find(E[s].table, f.name) = f.sector
  <2>1. PICK s \in Sector : /\ Leads(B, f.path, s) /\ D[s].kind = "table"
                            /\ Find(D[s].table, f.name) = f.sector
    BY DEF CalmTree, ByIntact
  <2>2. s \in Guarded(B)
    BY <2>1, CalmLeads
  <2> QED BY <1>2, <2>1, <2>2
<1>5. ByIntact(E, B, F)
  BY <1>2, <1>3, <1>4 DEF CalmTree, ByIntact
<1>6. TablesCalm(E, B)
  <2>1. ASSUME NEW s \in Sector, NEW i \in Index, Slot(E, s, i)
        PROVE  Safe(E, B, Sec(E, s, i)) \/ Own(B, s, Nam(E, s, i), Sec(E, s, i))
    <3>1. E[s] = D[s]
      BY <2>1 DEF Written
    <3>2. Slot(D, s, i) /\ Sec(E, s, i) = Sec(D, s, i) /\ Nam(E, s, i) = Nam(D, s, i)
      BY <2>1, <3>1 DEF Slot, Sec, Nam
    <3>3. Safe(D, B, Sec(D, s, i)) \/ Own(B, s, Nam(D, s, i), Sec(D, s, i))
      BY <3>2 DEF CalmTree, TablesCalm
    <3> QED BY <1>1, <3>2, <3>3 DEF Keeps
  <2> QED BY <2>1 DEF TablesCalm
<1> QED BY <1>1, <1>5, <1>6 DEF CalmTree

-----------------------------------------------------------------------------
(* Clean implies Calm. *)

LEMMA TidyCalm ==
  ASSUME NEW D \in Disks, NEW M, NEW F, F \subseteq Files, NEW O, Tidy(D, M, F, O)
  PROVE  CalmTree(D, F, F) /\ Guarded(F) \subseteq M
<1>1. KeysOK(F) /\ Guarded(F) \subseteq M
  BY DEF Tidy, Guarded
<1>2. ASSUME NEW f \in F
      PROVE  /\ D[f.sector] = f.hdr /\ f.sector \notin DataSet(f.hdr)
             /\ AllSectors(f) \cap Fixed = {}
             /\ \E s \in Sector : /\ Leads(F, f.path, s) /\ D[s].kind = "table"
                                  /\ Find(D[s].table, f.name) = f.sector
             /\ \A g \in F \ {f} : AllSectors(f) \cap AllSectors(g) = {}
  <2>1. /\ D[f.sector] = f.hdr /\ AllSectors(f) \subseteq M \ Fixed /\ f.sector \notin DataSet(f.hdr)
        /\ Listed(D, F, f)
    BY TidyFile
  <2>2. PICK s \in Sector, i \in Index : /\ Slot(D, s, i) /\ Leads(F, f.path, s)
                                         /\ Nam(D, s, i) = f.name /\ Sec(D, s, i) = f.sector
    BY <2>1 DEF Listed
  <2>3. D[s].kind = "table" /\ D[s].table \in [Index -> Entries]
    BY <2>2, KindIs DEF Slot
  <2>4. PICK t \in [Index -> Entries] : t = D[s].table
    BY <2>3
  <2>5. f.name \in Name
    BY FileIs
  <2>6. i \in FindIndex(t, f.name)
    BY <2>2, <2>4 DEF FindIndex, Slot, Nam
  <2>7. PICK m : m = Min(FindIndex(t, f.name))
    OBVIOUS
  <2>8. m \in Index /\ t[m].inUse /\ t[m].name = f.name /\ Find(t, f.name) = t[m].sector
    BY <2>6, <2>7, FindIs
  <2>9. Slot(D, s, m) /\ Nam(D, s, m) = f.name
    BY <2>3, <2>4, <2>5, <2>8 DEF Slot, Nam
  <2>10. m = i
    BY <2>2, <2>8, <2>9 DEF Tidy, EntriesApart
  <2>11. Find(t, f.name) = f.sector
    BY <2>2, <2>4, <2>8, <2>10 DEF Sec
  <2>12. \A g \in F \ {f} : AllSectors(f) \cap AllSectors(g) = {}
    BY DEF Tidy, FilesListed
  <2> QED BY <2>1, <2>2, <2>3, <2>4, <2>11, <2>12
<1>3. ByIntact(D, F, F)
  BY <1>2 DEF ByIntact
<1>4. ASSUME NEW s \in Sector, NEW i \in Index, Slot(D, s, i)
      PROVE  Safe(D, F, Sec(D, s, i)) \/ Own(F, s, Nam(D, s, i), Sec(D, s, i))
  <2>1. CASE \E f \in F : f.sector = Sec(D, s, i)
    <3>1. PICK f \in F : f.sector = Sec(D, s, i)
      BY <2>1
    <3>2. Leads(F, f.path, s) /\ Nam(D, s, i) = f.name
      BY <1>4, <3>1, TidySlot
    <3> QED BY <3>1, <3>2 DEF Own
  <2>2. CASE \A f \in F : f.sector # Sec(D, s, i)
    <3>1. \A f \in F : Obj(D, Sec(D, s, i)) \cap AllSectors(f) = {}
      BY <1>4, <2>2, TidySlot
    <3>2. Sec(D, s, i) \in Sector /\ Obj(D, Sec(D, s, i)) \cap Fixed = {}
      BY <1>4, TidyPlaced
    <3>3. Obj(D, Sec(D, s, i)) \cap Guarded(F) = {}
      BY <3>1, <3>2 DEF Guarded, AllOf
    <3> QED BY <3>2, <3>3 DEF Safe, Obj
  <2> QED BY <2>1, <2>2
<1>5. TablesCalm(D, F)
  BY <1>4 DEF TablesCalm
<1> QED BY <1>1, <1>3, <1>5 DEF CalmTree

LEMMA LessClosed ==
  ASSUME NEW F, F \subseteq Files, NEW p \in Seq(Name), NEW n \in Name
  PROVE  Closed(FilesLess(F, p, n), F)
<1>1. /\ FilesLess(F, p, n) \subseteq F
      /\ \A f \in F : f \in FilesLess(F, p, n) <=>
            ~IsPrefix(Append(p, n), f.path) /\ ~(f.path = p /\ f.name = n)
      /\ \A f \in F : f \in FilesLess(F, p, n) <=> ~IsPrefix(Append(p, n), Append(f.path, f.name))
  BY LessIs
<1> QED BY <1>1 DEF Closed

LEMMA AfterLess ==
  ASSUME NEW L \in Locals, L.sector \in Sector, L.op.name \in Name, NEW F, F \subseteq Files
  PROVE  /\ FilesAfter(F, L) \subseteq Files
         /\ FilesLess(FilesAfter(F, L), L.op.path, L.op.name) = FilesLess(F, L.op.path, L.op.name)
         /\ \A f \in FilesAfter(F, L) : f \in F \/ f = NewFile(L)
<1>1. L.op.path \in Seq(Name) /\ Target(L.op) = <<L.op.path, L.op.name>>
  BY LocalsAre
<1>2. PICK g : g = NewFile(L)
  OBVIOUS
<1>3. g \in Files /\ g.path = L.op.path /\ g.name = L.op.name
  BY <1>2, NewFileIs
<1>4. FilesAfter(F, L) = F \/ FilesAfter(F, L) = {f \in F : <<f.path, f.name>> # Target(L.op)} \cup {g}
  BY <1>2 DEF FilesAfter
<1>5. PICK G : G = FilesAfter(F, L)
  OBVIOUS
<1>6. /\ \A f \in G : f \in F \/ f = g
      /\ \A f \in F : ~(f.path = L.op.path /\ f.name = L.op.name) => f \in G
  BY <1>1, <1>4, <1>5
<1>7. G \subseteq Files
  BY <1>3, <1>6
<1>8. FilesLess(G, L.op.path, L.op.name) = FilesLess(F, L.op.path, L.op.name)
  BY <1>3, <1>6 DEF FilesLess, Inside
<1> QED BY <1>2, <1>5, <1>6, <1>7, <1>8

(* The files the operation of a thread does not work on. *)
Others(F, L) == FilesLess(F, L.op.path, L.op.name)

LEMMA CleanCalmDisk ==
  ASSUME NEW D \in Disks, NEW F, F \subseteq Files, NEW O, NEW L \in Locals, NEW k, PhaseOK(k, L),
         CleanLocal(D, D[MapData].marked, F, k, L), CleanDisk(D, D[MapData].marked, F, O, k, L)
  PROVE  /\ Others(F, L) \subseteq F /\ TargetOut(Others(F, L), L)
         /\ CalmDisk(D, Others(F, L), F)
<1>a. PICK M : M = D[MapData].marked
  OBVIOUS
<1>b. PICK B : B = Others(F, L) /\ B = FilesLess(F, L.op.path, L.op.name)
  BY DEF Others
<1>c. CleanLocal(D, M, F, k, L) /\ CleanDisk(D, M, F, O, k, L)
  BY <1>a
<1>1. L.op.path \in Seq(Name) /\ L.op.name \in Name
  BY LocalsAre DEF PhaseOK
<1>2. B \subseteq F /\ TargetOut(B, L) /\ Closed(B, F)
  BY <1>1, <1>b, LessIs, LessClosed DEF TargetOut
<1>3. CASE k \notin {"write map", "write dir last"}
  <2>1. Tidy(D, M, F, O)
    BY <1>3, <1>c DEF CleanDisk
  <2>2. CalmTree(D, F, F) /\ Guarded(F) \subseteq M
    BY <2>1, TidyCalm
  <2>3. CalmTree(D, B, F)
    BY <1>2, <2>2, Shrink
  <2>4. Guarded(B) \subseteq M
    BY <1>2, <2>2, FewerGuarded
  <2> QED BY <1>2, <1>a, <1>b, <2>3, <2>4 DEF CalmDisk
<1>4. CASE k = "write map"
  <2>1. PICK G : G = FilesAfter(F, L)
    OBVIOUS
  <2>2. /\ Tidy(D, L.map, G, OrphansAfter(F, O, L)) /\ F \subseteq G
        /\ Fixed \cup AllOf(F) \subseteq M
    BY <1>4, <1>c, <2>1 DEF CleanDisk
  <2>3. L.sector \in Sector
    BY <1>4 DEF PhaseOK, Making
  <2>4. G \subseteq Files /\ B = FilesLess(G, L.op.path, L.op.name)
    BY <1>1, <1>b, <2>1, <2>3, AfterLess
  <2>5. B \subseteq G /\ Closed(B, G)
    BY <1>1, <2>4, LessIs, LessClosed
  <2>6. CalmTree(D, G, G)
    BY <2>2, <2>4, TidyCalm
  <2>7. CalmTree(D, B, G)
    BY <2>4, <2>5, <2>6, Shrink
  <2>8. KeysOK(F)
    BY <2>2, <2>7 DEF CalmTree, KeysOK
  <2>9. ByIntact(D, B, F)
    BY <2>2, <2>7 DEF CalmTree, ByIntact
  <2>10. CalmTree(D, B, F)
    BY <2>7, <2>8, <2>9 DEF CalmTree
  <2>11. Guarded(B) \subseteq M
    BY <1>2, <2>2 DEF Guarded, AllOf
  <2> QED BY <1>2, <1>a, <1>b, <2>10, <2>11 DEF CalmDisk
<1>5. CASE k = "write dir last"
  <2>1. PICK W : W = Work(L)
    OBVIOUS
  <2>2. Tidy(D, M \cup W, F, O) /\ M \cap W = {} /\ CwdClean(D, M \cup W, F, L)
        /\ FoundClean(D, M, k, L)
    BY <1>5, <1>c, <2>1 DEF CleanDisk, CleanLocal, Fetched
  <2>3. CalmTree(D, B, F)
    BY <1>2, <2>2, TidyCalm, Shrink
  <2>4. /\ L.cwd.data # <<>> /\ L.hdr = D[L.sector]
        /\ \E i \in Index : /\ Slot(D, L.cwd.data[1], i)
                            /\ Nam(D, L.cwd.data[1], i) = L.op.name
                            /\ Sec(D, L.cwd.data[1], i) = L.sector
    BY <1>5, <2>2 DEF FoundClean
  <2>5. PICK c : c = L.cwd.data[1]
    OBVIOUS
  <2>6. PICK i \in Index : Slot(D, c, i) /\ Nam(D, c, i) = L.op.name /\ Sec(D, c, i) = L.sector
    BY <2>4, <2>5
  <2>7. W = Obj(D, Sec(D, c, i))
    BY <2>1, <2>4, <2>6 DEF Work, Obj
  <2>8. CwdApart(D, M \cup W, F, L, c) /\ c \in Sector
    BY <2>2, <2>4, <2>5, CwdWhere DEF CwdApart
  <2>9. Walked(L) = L.op.path
    <3>1. L.walk = <<>>
      BY <1>5 DEF PhaseOK, HasDir, Fetched
    <3> QED BY <1>1, <3>1, WalkEnds DEF Walked
  <2>10. \A f \in F : ~(f.path = L.op.path /\ f.name = L.op.name) => AllSectors(f) \cap W = {}
    BY <2>2, <2>6, <2>7, <2>8, <2>9, TargetIs
  <2>11. Fixed \cap W = {} /\ Guarded(F) \subseteq M \cup W
    BY <2>2, <2>6, <2>7, <2>8, TidyPlaced, TidyCalm
  <2>12. Guarded(B) \subseteq M \cup W
    BY <1>2, <2>11, FewerGuarded
  <2>13. Guarded(B) \cap W = {}
    BY <1>2, <2>10, <2>11 DEF Guarded, AllOf, TargetOut
  <2>14. Guarded(B) \subseteq M
    BY <2>12, <2>13
  <2> QED BY <1>2, <1>a, <1>b, <2>3, <2>14 DEF CalmDisk
<1> QED BY <1>3, <1>4, <1>5

LEMMA ApartCalm ==
  ASSUME NEW D, NEW N, NEW F, NEW L, NEW B, B \subseteq F,
         L.cwd.data # <<>> => CwdApart(D, N, F, L, L.cwd.data[1])
  PROVE  CwdCalm(B, L)
<1>1. \A p, s : Leads(B, p, s) => Leads(F, p, s)
  BY FewerGuarded
<1> QED BY <1>1 DEF CwdApart, CwdCalm

(* The entry of the operation's name is no bystander's. *)
LEMMA EntrySafe ==
  ASSUME NEW D, NEW F, F \subseteq Files, NEW B, B \subseteq F, CalmTree(D, B, F),
         NEW L \in Locals, L.walk = <<>>, CwdCalm(B, L), TargetOut(B, L), L.cwd.data # <<>>,
         NEW i \in Index, Slot(D, L.cwd.data[1], i), Nam(D, L.cwd.data[1], i) = L.op.name
  PROVE  Safe(D, B, Sec(D, L.cwd.data[1], i))
<1>1. PICK c : c = L.cwd.data[1]
  OBVIOUS
<1>2. c \in Sector
  BY <1>1, LocalsAre
<1>3. Safe(D, B, Sec(D, c, i)) \/ Own(B, c, L.op.name, Sec(D, c, i))
  BY <1>1, <1>2 DEF CalmTree, TablesCalm
<1>4. \A f \in B : Leads(B, f.path, c) => f.name # L.op.name
  BY <1>1, NamesOut
<1>5. ~Own(B, c, L.op.name, Sec(D, c, i))
  BY <1>4 DEF Own
<1> QED BY <1>1, <1>3, <1>5

LEMMA FoundSafe ==
  ASSUME NEW D \in Disks, NEW M, NEW F, F \subseteq Files, NEW O, Tidy(D, M, F, O), NEW B,
         B \subseteq F, CalmTree(D, B, F), NEW L \in Locals, L.walk = <<>>, CwdCalm(B, L),
         TargetOut(B, L), NEW N, NEW k, FoundClean(D, N, k, L)
  PROVE  /\ Safe(D, B, L.sector) /\ D[L.sector] \in Headers
         /\ k # "fetch hdr" => Work(L) \cap Guarded(B) = {}
<1>1. /\ L.cwd.data # <<>> /\ (k # "fetch hdr" => L.hdr = D[L.sector])
      /\ \E i \in Index : /\ Slot(D, L.cwd.data[1], i)
                          /\ Nam(D, L.cwd.data[1], i) = L.op.name
                          /\ Sec(D, L.cwd.data[1], i) = L.sector
  BY DEF FoundClean
<1>2. PICK i \in Index : /\ Slot(D, L.cwd.data[1], i)
                         /\ Nam(D, L.cwd.data[1], i) = L.op.name
                         /\ Sec(D, L.cwd.data[1], i) = L.sector
  BY <1>1
<1>3. Safe(D, B, Sec(D, L.cwd.data[1], i))
  BY <1>1, <1>2, EntrySafe
<1>4. L.cwd.data[1] \in Sector
  BY <1>1, LocalsAre
<1>5. D[L.sector] \in Headers
  BY <1>2, <1>4, TidyPlaced
<1>6. D[L.sector].kind = "header"
  BY <1>5 DEF Headers
<1>7. Safe(D, B, L.sector)
  BY <1>2, <1>3
<1> QED BY <1>1, <1>5, <1>6, <1>7 DEF Safe, Work

LEMMA CleanCalmLocal ==
  ASSUME NEW D \in Disks, NEW F, F \subseteq Files, NEW O, NEW L \in Locals, NEW k, PhaseOK(k, L),
         CleanLocal(D, D[MapData].marked, F, k, L), CleanDisk(D, D[MapData].marked, F, O, k, L)
  PROVE  CalmLocal(D, Others(F, L), k, L)
<1>a. PICK M : M = D[MapData].marked
  OBVIOUS
<1>b. PICK B : B = Others(F, L)
  OBVIOUS
<1>c. CleanLocal(D, M, F, k, L) /\ CleanDisk(D, M, F, O, k, L)
  BY <1>a
<1>1. B \subseteq F /\ TargetOut(B, L) /\ CalmTree(D, B, F) /\ Guarded(B) \subseteq M
  <2>1. /\ Others(F, L) \subseteq F /\ TargetOut(Others(F, L), L)
        /\ CalmDisk(D, Others(F, L), F)
    BY CleanCalmDisk
  <2> QED BY <1>a, <1>b, <2>1 DEF CalmDisk
<1>2. L.op.name \in Name /\ L.op.path \in Seq(Name) /\ L.cwd.data \in Seq(Sector)
  BY LocalsAre DEF PhaseOK
<1>3. ASSUME k \notin {"write map", "write dir last"} PROVE Tidy(D, M, F, O)
  BY <1>c, <1>3 DEF CleanDisk
<1>4. ASSUME k = "write dir last" PROVE Tidy(D, M \cup Work(L), F, O)
  BY <1>c, <1>4 DEF CleanDisk
<1>5. ASSUME k \notin {"walk open", "write map"} PROVE CwdCalm(B, L)
  <2>1. CASE k # "write dir last"
    <3>1. Tidy(D, M, F, O) /\ CwdClean(D, M, F, L)
      BY <1>c, <1>3, <1>5, <2>1 DEF CleanLocal
    <3>2. L.cwd.data # <<>> => CwdApart(D, M, F, L, L.cwd.data[1])
      BY <3>1, CwdWhere
    <3> QED BY <1>1, <3>2, ApartCalm
  <2>2. CASE k = "write dir last"
    <3>1. PICK N : N = M \cup Work(L)
      OBVIOUS
    <3>2. Tidy(D, N, F, O) /\ CwdClean(D, N, F, L)
      BY <1>c, <1>4, <2>2, <3>1 DEF CleanLocal
    <3>3. L.cwd.data # <<>> => CwdApart(D, N, F, L, L.cwd.data[1])
      BY <3>2, CwdWhere
    <3> QED BY <1>1, <3>3, ApartCalm
  <2> QED BY <2>1, <2>2
<1>6. ASSUME k = "walk open" PROVE OpenCalm(D, B, L)
  <2>1. Tidy(D, M, F, O) /\ OpenClean(D, M, F, L)
    BY <1>c, <1>3, <1>6 DEF CleanLocal
  <2>2. PICK s \in Sector, i \in Index : Slot(D, s, i) /\ Sec(D, s, i) = L.sector
    BY <2>1 DEF OpenClean
  <2>3. Safe(D, B, L.sector) \/ Own(B, s, Nam(D, s, i), L.sector)
    BY <1>1, <2>2 DEF CalmTree, TablesCalm
  <2>4. ASSUME NEW f \in B, f.sector = L.sector
        PROVE  Append(f.path, f.name) = Walked(L)
    <3>1. PICK g \in F : g.sector = L.sector /\ Append(g.path, g.name) = Walked(L)
      BY <1>1, <2>1, <2>4 DEF OpenClean
    <3>2. f.sector \in AllSectors(f) /\ g.sector \in AllSectors(g) /\ f \in F
      BY <1>1, FileIs
    <3>3. f = g
      BY <2>1, <2>4, <3>1, <3>2 DEF Tidy, FilesListed
    <3> QED BY <3>1, <3>3
  <2> QED BY <2>3, <2>4 DEF OpenCalm, Own
<1>7. ASSUME k \in Making PROVE NewClean(M, L) /\ Work(L) \cap Guarded(B) = {}
  <2>1. NewClean(M, L)
    BY <1>c, <1>7 DEF CleanLocal
  <2> QED BY <1>1, <2>1 DEF NewClean
<1>8. ASSUME k \in Fetched
      PROVE  /\ L.walk = <<>> /\ FoundClean(D, M, k, L) /\ Safe(D, B, L.sector)
             /\ k # "fetch hdr" => Work(L) \cap Guarded(B) = {}
  <2>1. L.walk = <<>> /\ FoundClean(D, M, k, L) /\ k \notin {"walk open", "write map"}
    BY <1>c, <1>8 DEF CleanLocal, PhaseOK, HasDir, Fetched
  <2>2. CASE k # "write dir last"
    <3>1. Tidy(D, M, F, O)
      BY <1>3, <2>1, <2>2
    <3> QED BY <1>1, <1>5, <2>1, <3>1, FoundSafe
  <2>3. CASE k = "write dir last"
    <3>1. PICK N : N = M \cup Work(L)
      OBVIOUS
    <3>2. Tidy(D, N, F, O)
      BY <1>4, <2>3, <3>1
    <3> QED BY <1>1, <1>5, <2>1, <3>2, FoundSafe
  <2> QED BY <2>2, <2>3
<1>9. ASSUME k \in HasDir \ {"write map"} PROVE DirCalm(D, B, k, L)
  <2>1. L.walk = <<>> /\ k \notin {"walk open", "write map"}
    BY <1>9 DEF PhaseOK, HasDir, Making, MakingHdr, Fetched
  <2>2. CwdCalm(B, L)
    BY <1>5, <2>1
  <2> SUFFICES ASSUME L.cwd.data # <<>>
               PROVE  TableCalm(D, B, L.cwd.data[1], L.dir, IF k \in MakingHdr THEN {L.sector} ELSE {})
    BY DEF DirCalm
  <2>3. PICK c : c = L.cwd.data[1]
    OBVIOUS
  <2>4. PICK t : t = FetchIn(D, L.cwd)
    OBVIOUS
  <2>5. t \in [Index -> Entries] /\ TableCalm(D, B, c, t, {})
    <3>1. TableCalm(D, B, L.cwd.data[1], FetchIn(D, L.cwd), {})
      BY <1>1, <1>2, FetchCalm
    <3>2. FetchIn(D, L.cwd) \in [Index -> Entries]
      BY <1>2, FetchIs
    <3> QED BY <2>3, <2>4, <3>1, <3>2
  <2>6. \A f \in B : Leads(B, f.path, c) => f.name # L.op.name
    <3>1. B \subseteq Files
      BY <1>1
    <3>2. \A f \in B : Leads(B, f.path, L.cwd.data[1]) => f.name # L.op.name /\ f.path = L.op.path
      <4>1. /\ L \in Locals /\ L.walk = <<>> /\ CwdCalm(B, L) /\ TargetOut(B, L)
            /\ L.cwd.data # <<>>
        BY <1>1, <2>1, <2>2
      <4> QED BY ONLY <3>1, <4>1, NamesOut
    <3> QED BY <2>3, <3>2
  <2>7. CASE k = "fetch map"
    <3>1. L.dir = t /\ k \notin MakingHdr
      BY <1>c, <2>4, <2>7 DEF CleanLocal, MakingHdr
    <3> QED BY <2>3, <2>5, <3>1
  <2>8. CASE k \in Making
    <3>1. MadeClean(D, k, L) /\ L.sector \in Sector
      BY <1>c, <1>9, <2>8 DEF CleanLocal, PhaseOK
    <3>2. PICK d \in BOOLEAN : d = (L.op.kind = "create dir")
      OBVIOUS
    <3>3. Room(t) # {} /\ L.dir = Add(t, L.op.name, d, L.sector)
      BY <2>4, <3>1, <3>2 DEF MadeClean
    <3>4. TableCalm(D, B, c, L.dir, {L.sector})
      BY <1>2, <2>5, <2>6, <3>1, <3>3, AddCalm
    <3>5. CASE k \in MakingHdr
      BY <2>3, <3>4, <3>5
    <3>6. CASE k \notin MakingHdr
      <4>1. k = "write dir"
        BY <1>9, <2>8, <3>6 DEF Making
      <4>2. D[L.sector] = L.hdr
        BY <3>1, <4>1 DEF MadeClean
      <4>3. Safe(D, B, L.sector)
        BY <1>7, <2>8, <3>1, <4>2 DEF Safe, Work
      <4>4. TableCalm(D, B, c, L.dir, {})
        BY <3>4, <4>3 DEF TableCalm
      <4> QED BY <2>3, <3>6, <4>4
    <3> QED BY <3>5, <3>6
  <2>9. CASE k \in Fetched
    <3>1. FoundClean(D, M, k, L) /\ k \notin MakingHdr
      BY <1>8, <2>9 DEF Fetched, MakingHdr
    <3>2. CASE k \notin {"write map first", "write dir last"}
      <4>1. L.dir = t
        BY <2>4, <3>1, <3>2 DEF FoundClean
      <4> QED BY <2>3, <2>5, <3>1, <4>1
    <3>3. CASE k \in {"write map first", "write dir last"}
      <4>1. L.dir = RemoveEntry(t, L.op.name)
        BY <2>4, <3>1, <3>3 DEF FoundClean
      <4>2. PICK i \in Index : Slot(D, c, i) /\ Nam(D, c, i) = L.op.name
        BY <2>3, <3>1 DEF FoundClean
      <4>3. t[i].inUse /\ t[i].name = L.op.name
        BY <1>2, <2>3, <2>4, <4>2, FetchIs
      <4>4. FindIndex(t, L.op.name) # {}
        BY <4>3 DEF FindIndex
      <4>5. TableCalm(D, B, c, L.dir, {})
        BY <1>2, <2>5, <2>6, <4>1, <4>4, RemoveCalm
      <4> QED BY <2>3, <3>1, <4>5
    <3> QED BY <3>2, <3>3
  <2> QED BY <1>9, <2>7, <2>8, <2>9 DEF HasDir
<1>10. k \in Making /\ L.op.kind = "create dir" => L.hdr.data # <<>>
  BY <1>7 DEF NewClean
<1>11. k \in Making \cup {"fetch rm dir", "free"} => Work(L) \cap Guarded(B) = {}
  BY <1>7, <1>8 DEF Fetched
<1>12. k \in Making \cup {"write map first"} => Guarded(B) \subseteq L.map
  <2>1. CASE k \in Making
    BY <1>1, <1>7, <2>1 DEF NewClean
  <2>2. CASE k = "write map first"
    <3>1. k \in Fetched
      BY <2>2 DEF Fetched
    <3>2. L.map = M \ Work(L) /\ Work(L) \cap Guarded(B) = {}
      BY <1>8, <2>2, <3>1 DEF FoundClean
    <3> QED BY <1>1, <3>2
  <2> QED BY <2>1, <2>2
<1>13. k = "fetch hdr" => Safe(D, B, L.sector)
  BY <1>8 DEF Fetched
<1> QED BY <1>b, <1>5, <1>6, <1>9, <1>10, <1>11, <1>12, <1>13 DEF CalmLocal

-----------------------------------------------------------------------------
(* One step of a thread: disk, files, orphans, place and locals before and   *)
(* after.                                                                    *)

Typed(D, F, O, k, L) ==
    /\ D \in Disks /\ F \subseteq Files /\ O \subseteq Sector /\ k \in Places /\ L \in Locals
    /\ k # "idle" => PhaseOK(k, L)

CalmStep(D, F, k, L, E, G, m, N, B) ==
    CalmDisk(D, B, F) /\ CalmLocal(D, B, k, L) =>
        CalmDisk(E, B, G) /\ Keeps(D, E, B) /\ (m # "idle" => CalmLocal(E, B, m, N))

Moves(D, F, O, k, L, E, G, P, m, N) ==
    /\ Typed(E, G, P, m, N)
    /\ m # "idle" => N.op = L.op
    /\ Others(G, L) = Others(F, L)
    /\ CleanOne(D, D[MapData].marked, F, O, k, L) => CleanOne(E, E[MapData].marked, G, P, m, N)
    /\ \A B : B \subseteq Others(F, L) => CalmStep(D, F, k, L, E, G, m, N, B)

LEMMA OthersAre ==
  ASSUME NEW F, F \subseteq Files, NEW L \in Locals, L.op.name \in Name, NEW B, B \subseteq Others(F, L)
  PROVE  B \subseteq F /\ B \subseteq Files /\ TargetOut(B, L)
<1>1. L.op.path \in Seq(Name)
  BY LocalsAre
<1>2. Others(F, L) \subseteq F /\ \A f \in Others(F, L) : ~(f.path = L.op.path /\ f.name = L.op.name)
  BY <1>1, LessIs DEF Others
<1> QED BY <1>2 DEF TargetOut

(* The disk is not written. *)
LEMMA LocalMoves ==
  ASSUME NEW D, NEW F, NEW O, NEW k, NEW L, NEW m, NEW N, Typed(D, F, O, m, N),
         m # "idle" => N.op = L.op,
         CleanOne(D, D[MapData].marked, F, O, k, L) => CleanOne(D, D[MapData].marked, F, O, m, N),
         \A B : B \subseteq Others(F, L) /\ CalmDisk(D, B, F) /\ CalmLocal(D, B, k, L) /\ m # "idle"
                  => CalmLocal(D, B, m, N)
  PROVE  Moves(D, F, O, k, L, D, F, O, m, N)
<1>1. \A B : Keeps(D, D, B)
  BY DEF Keeps
<1> QED BY <1>1 DEF Moves, CalmStep

(* Nothing is done. *)
LEMMA IdleMoves ==
  ASSUME NEW D, NEW F, NEW O, NEW k, NEW L, Typed(D, F, O, k, L),
         k \in {"fetch dir", "fetch map", "fetch rm dir"}
  PROVE  Moves(D, F, O, k, L, D, F, O, "idle", Idle)
<1>1. Typed(D, F, O, "idle", Idle)
  BY Shapes DEF Typed, Places
<1>2. CleanOne(D, D[MapData].marked, F, O, k, L) => CleanOne(D, D[MapData].marked, F, O, "idle", Idle)
  BY DEF CleanOne, CleanDisk
<1> QED BY <1>1, <1>2, LocalMoves

(* What Find finds through an open file is an entry on the disk. *)
LEMMA FindSlot ==
  ASSUME NEW D \in Disks, NEW f, f.data \in Seq(Sector), NEW n \in Name, Find(FetchIn(D, f), n) # -1
  PROVE  /\ f.data # <<>> /\ f.data[1] \in Sector /\ FindIndex(FetchIn(D, f), n) # {}
         /\ \E i \in Index : /\ Slot(D, f.data[1], i) /\ Nam(D, f.data[1], i) = n
                             /\ Sec(D, f.data[1], i) = Find(FetchIn(D, f), n)
<1>1. PICK t : t = FetchIn(D, f)
  OBVIOUS
<1>2. t \in [Index -> Entries] /\ (f.data = <<>> => t = EmptyTable)
  BY <1>1, FetchIs
<1>3. FindIndex(t, n) # {}
  BY <1>1, <1>2, FindIs
<1>4. PICK i \in Index : t[i].inUse /\ t[i].name = n /\ Find(t, n) = t[i].sector
  BY <1>2, <1>3, FindIs
<1>5. f.data # <<>>
  BY <1>2, <1>4, NoEntries
<1>6. PICK c : c = f.data[1]
  OBVIOUS
<1>7. /\ c \in Sector
      /\ \A j \in Index : /\ t[j].inUse /\ t[j].name \in Name <=> Slot(D, c, j)
                          /\ Slot(D, c, j) => t[j].name = Nam(D, c, j) /\ t[j].sector = Sec(D, c, j)
  BY <1>1, <1>5, <1>6, FetchIs
<1>8. Slot(D, c, i) /\ Nam(D, c, i) = n /\ Sec(D, c, i) = Find(t, n)
  BY <1>4, <1>7
<1> QED BY <1>1, <1>3, <1>5, <1>6, <1>7, <1>8

LEMMA WalkMoves ==
  ASSUME NEW D, NEW F, NEW O, NEW L, Typed(D, F, O, "walk", L), NEW s,
         s = Find(FetchIn(D, L.cwd), Head(L.walk)), s # -1, NEW N,
         N = [L EXCEPT !.sector = s, !.walk = Tail(L.walk)]
  PROVE  Moves(D, F, O, "walk", L, D, F, O, "walk open", N)
<1>1. D \in Disks /\ F \subseteq Files /\ O \subseteq Sector /\ L \in Locals /\ PhaseOK("walk", L)
  BY DEF Typed
<1>2. /\ L.op.kind \in Kinds /\ L.op.name \in Name /\ L.walk # <<>> /\ Suffix(L.op.path, L.walk)
      /\ L.op.kind = "create dir" => L.op.size = DirSectors
  BY <1>1 DEF PhaseOK
<1>3. L.op.path \in Seq(Name) /\ L.walk \in Seq(Name) /\ L.cwd.data \in Seq(Sector)
  BY <1>1, LocalsAre
<1>4. PICK h : h = Head(L.walk)
  OBVIOUS
<1>5. PICK w : w = Walked(L)
  OBVIOUS
<1>6. /\ Tail(L.walk) \in Seq(Name) /\ h \in Name /\ Suffix(L.op.path, Tail(L.walk))
      /\ w \in Seq(Name)
      /\ SubSeq(L.op.path, 1, Len(L.op.path) - Len(Tail(L.walk))) = Append(w, h)
  BY <1>2, <1>3, <1>4, <1>5, WalkOn DEF Walked
<1>7. PICK c : c = L.cwd.data[1]
  OBVIOUS
<1>8. /\ L.cwd.data # <<>> /\ c \in Sector
      /\ \E i \in Index : Slot(D, c, i) /\ Nam(D, c, i) = h /\ Sec(D, c, i) = s
  BY <1>1, <1>3, <1>4, <1>6, <1>7, FindSlot
<1>9. PICK i \in Index : Slot(D, c, i) /\ Nam(D, c, i) = h /\ Sec(D, c, i) = s
  BY <1>8
<1>10. s \in Sector
  <2>1. D[c].kind = "table"
    BY <1>9 DEF Slot
  <2>2. D[c].table \in [Index -> Entries]
    BY <1>1, <1>8, <2>1, KindIs
  <2> QED BY <1>9, <2>2 DEF Sec, Entries
<1>11. /\ N \in Locals /\ N.op = L.op /\ N.cwd = L.cwd /\ N.walk = Tail(L.walk) /\ N.sector = s
  BY <1>1, <1>6, <1>10 DEF Locals
<1>12. Walked(N) = Append(w, h)
  BY <1>6, <1>11 DEF Walked
<1>13. Typed(D, F, O, "walk open", N)
  <2>1. PhaseOK("walk open", N)
    BY <1>2, <1>6, <1>10, <1>11 DEF PhaseOK, HasDir, Making, MakingHdr, Fetched
  <2> QED BY <1>1, <1>11, <2>1 DEF Typed, Places
<1>14. PICK M : M = D[MapData].marked
  OBVIOUS
<1>15. ASSUME CleanOne(D, M, F, O, "walk", L) PROVE CleanOne(D, M, F, O, "walk open", N)
  <2>1. Tidy(D, M, F, O) /\ CwdClean(D, M, F, L)
    BY <1>15 DEF CleanOne, CleanLocal, CleanDisk
  <2>2. CwdApart(D, M, F, L, c)
    BY <1>1, <1>7, <1>8, <2>1, CwdWhere
  <2>3. /\ c \in M /\ \A p : Leads(F, p, c) => p = w /\ DirIn(F, w)
        /\ DirIn(F, w) => Leads(F, w, c)
    BY <1>5, <2>2 DEF CwdApart
  <2>4. CASE DirIn(F, w)
    <3>1. PICK f \in F : f.path = w /\ f.name = h /\ f.sector = s
      BY <1>6, <1>8, <1>9, <2>1, <2>3, <2>4 DEF Tidy, FilesListed
    <3>2. OpenClean(D, M, F, N)
      BY <1>8, <1>9, <1>11, <1>12, <2>3, <3>1 DEF OpenClean
    <3> QED BY <2>1, <3>2 DEF CleanOne, CleanLocal, CleanDisk, Making, MakingHdr, Fetched
  <2>5. CASE ~DirIn(F, w)
    <3>1. \A f \in F : f.sector # s
      <4> TAKE f \in F
      <4>0. D \in Disks /\ F \subseteq Files /\ c \in Sector /\ i \in Index /\ Slot(D, c, i) /\ f \in F
        BY <1>1, <1>8, <1>9
      <4>1. \/ Obj(D, Sec(D, c, i)) \cap AllSectors(f) = {} /\ Sec(D, c, i) # f.sector
            \/ Sec(D, c, i) = f.sector /\ Leads(F, f.path, c) /\ Nam(D, c, i) = f.name
        BY ONLY <2>1, <4>0, TidySlot
      <4> QED BY <1>9, <2>3, <2>5, <4>1
    <3>2. ~DirIn(F, Append(w, h))
      <4> SUFFICES ASSUME DirIn(F, Append(w, h)) PROVE FALSE
        OBVIOUS
      <4>1. Append(w, h) # <<>>
        BY <1>6, AppendIsNone
      <4>2. PICK d \in F : d.isDir /\ Append(d.path, d.name) = Append(w, h)
        BY <4>1 DEF DirIn
      <4>3. d.path \in Seq(Name) /\ d.name \in Name
        BY <1>1, FileIs
      <4>4. d.path = w
        BY <1>6, <4>2, <4>3, AppendInj
      <4>5. Listed(D, F, d)
        BY <1>1, <2>1, TidyFile
      <4>6. DirIn(F, w)
        BY <4>4, <4>5 DEF Listed, Leads, DirIn
      <4> QED BY <2>5, <4>6
    <3>3. OpenClean(D, M, F, N)
      BY <1>8, <1>9, <1>11, <1>12, <2>3, <3>1, <3>2 DEF OpenClean
    <3> QED BY <2>1, <3>3 DEF CleanOne, CleanLocal, CleanDisk, Making, MakingHdr, Fetched
  <2> QED BY <2>4, <2>5
<1>16. ASSUME NEW B, B \subseteq Others(F, L), CalmDisk(D, B, F), CalmLocal(D, B, "walk", L)
       PROVE  CalmLocal(D, B, "walk open", N)
  <2>1. B \subseteq F /\ B \subseteq Files
    BY <1>1, <1>2, <1>16, OthersAre
  <2>2. CwdCalm(B, L) /\ TablesCalm(D, B)
    BY <1>16 DEF CalmLocal, CalmDisk, CalmTree
  <2>3. Safe(D, B, s) \/ Own(B, c, h, s)
    BY <1>8, <1>9, <2>2 DEF TablesCalm
  <2>4. ASSUME Own(B, c, h, s) PROVE \E f \in B : f.sector = s /\ Append(f.path, f.name) = Append(w, h)
    <3>1. PICK f \in B : f.name = h /\ f.sector = s /\ Leads(B, f.path, c)
      BY <2>4 DEF Own
    <3>2. f.path \in Seq(Name)
      BY <2>1, FileIs
    <3>3. f.path = w
      BY <1>5, <1>7, <1>8, <2>2, <3>1, <3>2 DEF CwdCalm
    <3> QED BY <3>1, <3>3
  <2>5. OpenCalm(D, B, N)
    BY <1>11, <1>12, <2>3, <2>4 DEF OpenCalm
  <2> QED BY <2>5 DEF CalmLocal, HasDir, Making, MakingHdr, Fetched
<1> QED BY <1>11, <1>13, <1>14, <1>15, <1>16, LocalMoves

LEMMA AsHeaderIs ==
  ASSUME NEW D \in Disks, NEW x \in Sector
  PROVE  /\ AsHeader(D[x]) \in Headers
         /\ D[x].kind = "header" => AsHeader(D[x]) = D[x]
         /\ D[x].kind # "header" => AsHeader(D[x]).data = <<>> /\ DataSet(AsHeader(D[x])) = {}
<1>1. D[x].kind = "header" => AsHeader(D[x]) = D[x] /\ D[x] \in Headers
  BY KindIs DEF AsHeader
<1>2. D[x].kind # "header" => AsHeader(D[x]) = Header(<<>>, {})
  BY DEF AsHeader
<1>3. Header(<<>>, {}).data = <<>> /\ Header(<<>>, {}).lost = {}
  BY DEF Header
<1>4. Range(<<>>) = {}
  BY DEF Range
<1>5. DataSet(Header(<<>>, {})) = {}
  BY <1>3, <1>4 DEF DataSet
<1> QED BY <1>1, <1>2, <1>3, <1>5, Shapes

LEMMA WalkOpenMoves ==
  ASSUME NEW D, NEW F, NEW O, NEW L, Typed(D, F, O, "walk open", L), NEW N, NEW m,
         N = [L EXCEPT !.cwd = [sector |-> L.sector, data |-> AsHeader(D[L.sector]).data]],
         m = IF L.walk = <<>> THEN "fetch dir" ELSE "walk"
  PROVE  Moves(D, F, O, "walk open", L, D, F, O, m, N)
<1>1. D \in Disks /\ F \subseteq Files /\ O \subseteq Sector /\ L \in Locals /\ PhaseOK("walk open", L)
  BY DEF Typed
<1>2. /\ L.op.kind \in Kinds /\ L.op.name \in Name /\ Suffix(L.op.path, L.walk)
      /\ L.op.kind = "create dir" => L.op.size = DirSectors
      /\ L.sector \in Sector
  BY <1>1 DEF PhaseOK
<1>3. PICK x : x = L.sector
  OBVIOUS
<1>4. PICK e : e = AsHeader(D[x]).data
  OBVIOUS
<1>5. /\ e \in Seq(Sector) /\ x \in Sector
      /\ e # <<>> => D[x] \in Headers /\ D[x].kind = "header" /\ e = D[x].data
                     /\ e[1] \in DataSet(D[x]) /\ e[1] \in Sector
  <2>1. x \in Sector
    BY <1>2, <1>3
  <2>2. AsHeader(D[x]) \in Headers /\ (e # <<>> => D[x].kind = "header" /\ AsHeader(D[x]) = D[x])
    BY <1>1, <1>4, <2>1, AsHeaderIs
  <2>3. PICK h \in Headers : h = AsHeader(D[x])
    BY <2>2
  <2>4. h.data \in Seq(Sector) /\ (h.data # <<>> => h.data[1] \in DataSet(h) /\ h.data[1] \in Sector)
    BY HeaderSectors
  <2> QED BY <1>4, <2>1, <2>2, <2>3, <2>4
<1>6. /\ N \in Locals /\ N.op = L.op /\ N.cwd = [sector |-> x, data |-> e]
      /\ N.walk = L.walk /\ N.sector = L.sector
  BY <1>1, <1>3, <1>4, <1>5 DEF Locals
<1>7. N.cwd.data = e /\ Walked(N) = Walked(L)
  BY ONLY <1>6 DEF Walked
<1>8. PICK w : w = Walked(L)
  OBVIOUS
<1>9. m \in {"walk", "fetch dir"} /\ (m = "walk" => L.walk # <<>>) /\ (m = "fetch dir" => L.walk = <<>>)
  OBVIOUS
<1>10. Typed(D, F, O, m, N)
  <2>1. PhaseOK(m, N)
    BY <1>2, <1>6, <1>9 DEF PhaseOK, HasDir, Making, MakingHdr, Fetched
  <2> QED BY <1>1, <1>6, <1>9, <2>1 DEF Typed, Places
<1>11. PICK M : M = D[MapData].marked
  OBVIOUS
<1>12. ASSUME CleanOne(D, M, F, O, "walk open", L) PROVE CleanOne(D, M, F, O, m, N)
  <2>1. Tidy(D, M, F, O) /\ OpenClean(D, M, F, L)
    BY <1>12 DEF CleanOne, CleanLocal, CleanDisk
  <2>2. PICK s \in Sector, i \in Index : s \in M /\ Slot(D, s, i) /\ Sec(D, s, i) = x
    BY <1>3, <2>1 DEF OpenClean
  <2>3. CwdClean(D, M, F, N)
    <3>1. CASE \E f \in F : f.sector = x /\ Append(f.path, f.name) = w
      <4>1. PICK f \in F : f.sector = x /\ Append(f.path, f.name) = w
        BY <3>1
      <4>2. D[x] = f.hdr /\ x \in AllSectors(f) /\ f.path \in Seq(Name) /\ f.name \in Name /\ w # <<>>
            /\ f.hdr \in Headers
        <5>1. D \in Disks /\ F \subseteq Files /\ f \in F /\ f \in Files
          BY <1>1
        <5>2. D[f.sector] = f.hdr
          BY ONLY <2>1, <5>1, TidyFile
        <5>3. /\ f.path \in Seq(Name) /\ f.name \in Name /\ f.hdr \in Headers
              /\ AllSectors(f) = {f.sector} \cup DataSet(f.hdr) /\ Append(f.path, f.name) # <<>>
          BY <5>1, FileIs
        <5> QED BY <4>1, <5>2, <5>3
      <4>3. \A d \in F : d.sector = x => d = f
        <5> TAKE d \in F
        <5>1. d.sector \in AllSectors(d)
          BY <1>1, FileIs
        <5> QED BY <2>1, <4>2, <5>1 DEF Tidy, FilesListed
      <4>4. \A d \in F : Append(d.path, d.name) = w => d = f
        <5> SUFFICES ASSUME NEW d \in F, Append(d.path, d.name) = w PROVE d = f
          OBVIOUS
        <5>1. d.path \in Seq(Name) /\ d.name \in Name
          BY <1>1, FileIs
        <5>2. Append(d.path, d.name) = Append(f.path, f.name)
          BY <4>1
        <5>3. d.path = f.path /\ d.name = f.name
          BY ONLY <4>2, <5>1, <5>2, AppendInj
        <5>4. \A g, h \in F : g.path = h.path /\ g.name = h.name => g = h
          BY <2>1 DEF Tidy, KeysOK
        <5> QED BY <5>3, <5>4
      <4>5. e = f.hdr.data
        <5>1. D[x].kind = "header"
          BY <4>2 DEF Headers
        <5> QED BY <1>1, <1>4, <1>5, <4>2, <5>1, AsHeaderIs
      <4>6. CASE f.isDir
        <5>1. DirIn(F, w) /\ Leads(F, w, e[1]) /\ e # <<>>
          BY <2>1, <4>1, <4>5, <4>6 DEF DirIn, Leads, Tidy, KeysOK
        <5> QED BY <1>7, <1>8, <5>1 DEF CwdClean
      <4>7. CASE ~f.isDir
        <5>1. ~DirIn(F, w)
          BY <4>2, <4>4, <4>7 DEF DirIn
        <5>2. \A d \in F : d.isDir => d.sector # x
          BY <4>3, <4>7
        <5> QED BY <1>5, <1>7, <1>8, <2>2, <5>1, <5>2 DEF CwdClean
      <4> QED BY <4>6, <4>7
    <3>2. CASE ~DirIn(F, w) /\ \A f \in F : f.sector # x
      BY <1>5, <1>7, <1>8, <2>2, <3>2 DEF CwdClean
    <3> QED BY <1>3, <1>8, <2>1, <3>1, <3>2 DEF OpenClean
  <2> QED BY <1>9, <2>1, <2>3 DEF CleanOne, CleanLocal, CleanDisk, Making, MakingHdr, Fetched
<1>13. ASSUME NEW B, B \subseteq Others(F, L), CalmDisk(D, B, F), CalmLocal(D, B, "walk open", L)
       PROVE  CalmLocal(D, B, m, N)
  <2>1. B \subseteq F /\ B \subseteq Files
    BY <1>1, <1>2, <1>13, OthersAre
  <2>2. OpenCalm(D, B, L) /\ CalmTree(D, B, F)
    BY <1>13 DEF CalmLocal, CalmDisk
  <2>3. CwdCalm(B, N)
    <3> SUFFICES ASSUME e # <<>>
                 PROVE  /\ e[1] \notin 0..2 /\ \A f \in B : f.sector # e[1]
                        /\ \A p \in Seq(Name) : Leads(B, p, e[1]) => p = w
      BY <1>7, <1>8 DEF CwdCalm
    <3>1. PICK c : c = e[1]
      OBVIOUS
    <3>2. c \in DataSet(D[x]) /\ D[x].kind = "header"
      BY <1>5, <3>1
    <3>3. \A p : Leads(B, p, c) => TableIn(B, p, c) /\ c \in Guarded(B)
      BY <1>1, <2>1, <2>2, CalmLeads
    <3>4. \A f \in B : f.sector \in Guarded(B) /\ f.sector \in AllSectors(f)
      BY <2>1, FileIs DEF Guarded, AllOf
    <3>5. CASE Safe(D, B, x)
      <4>1. c \notin Guarded(B)
        BY <3>2, <3>5 DEF Safe
      <4>2. c \notin Fixed
        BY <4>1 DEF Guarded
      <4> QED BY ONLY <3>1, <3>3, <3>4, <4>1, <4>2 DEF Fixed
    <3>6. CASE \E f \in B : f.sector = x /\ Append(f.path, f.name) = w
      <4>1. PICK f \in B : f.sector = x /\ Append(f.path, f.name) = w
        BY <3>6
      <4>2. /\ D[x] = f.hdr /\ f.sector \notin DataSet(f.hdr) /\ AllSectors(f) \cap Fixed = {}
            /\ \A g \in F \ {f} : AllSectors(f) \cap AllSectors(g) = {}
        BY <2>2, <4>1 DEF CalmTree, ByIntact
      <4>3. c \in AllSectors(f) /\ c \in DataSet(f.hdr)
        BY <2>1, <3>2, <4>2, FileIs
      <4>4. c \notin Fixed
        BY <4>2, <4>3
      <4>5. \A g \in B : g.sector # c
        BY <2>1, <3>4, <4>2, <4>3
      <4>6. \A p : Leads(B, p, c) => p = w
        <5> SUFFICES ASSUME NEW p, Leads(B, p, c) PROVE p = w
          OBVIOUS
        <5>1. TableIn(B, p, c)
          BY <3>3
        <5>2. PICK d \in B : Append(d.path, d.name) = p /\ c \in AllSectors(d)
          BY ONLY <4>4, <5>1 DEF TableIn, Fixed
        <5>3. d = f
          BY <2>1, <4>2, <4>3, <5>2
        <5> QED BY <4>1, <5>2, <5>3
      <4> QED BY ONLY <3>1, <4>4, <4>5, <4>6 DEF Fixed
    <3> QED BY <1>3, <1>8, <2>2, <3>5, <3>6 DEF OpenCalm
  <2> QED BY <1>9, <2>3 DEF CalmLocal, HasDir, Making, MakingHdr, Fetched
<1> QED BY <1>6, <1>10, <1>11, <1>12, <1>13, LocalMoves

LEMMA SameCwd ==
  ASSUME NEW L, NEW N, N.op = L.op, N.walk = L.walk, N.cwd = L.cwd
  PROVE  /\ Walked(N) = Walked(L)
         /\ \A D, M, F : CwdClean(D, M, F, L) => CwdClean(D, M, F, N)
         /\ \A B : CwdCalm(B, L) => CwdCalm(B, N)
         /\ \A B : TargetOut(B, L) => TargetOut(B, N)
<1>1. Walked(N) = Walked(L)
  BY DEF Walked
<1>2. \A D, M, F : CwdClean(D, M, F, L) => CwdClean(D, M, F, N)
  BY <1>1 DEF CwdClean
<1>3. \A B : CwdCalm(B, L) => CwdCalm(B, N)
  BY <1>1 DEF CwdCalm
<1>4. \A B : TargetOut(B, L) => TargetOut(B, N)
  BY DEF TargetOut
<1> QED BY <1>1, <1>2, <1>3, <1>4

LEMMA FetchDirMoves ==
  ASSUME NEW D, NEW F, NEW O, NEW L, Typed(D, F, O, "fetch dir", L), NEW t, NEW x, NEW m, NEW N,
         t = FetchIn(D, L.cwd), x = Find(t, L.op.name), N = [L EXCEPT !.dir = t, !.sector = x],
         \/ m = "fetch map" /\ x = -1 /\ L.op.kind \in {"create file", "create dir"}
         \/ m = "fetch hdr" /\ x # -1 /\ L.op.kind \in {"remove file", "remove dir"}
  PROVE  Moves(D, F, O, "fetch dir", L, D, F, O, m, N)
<1>1. D \in Disks /\ F \subseteq Files /\ O \subseteq Sector /\ L \in Locals /\ PhaseOK("fetch dir", L)
  BY DEF Typed
<1>2. /\ L.op.kind \in Kinds /\ L.op.name \in Name /\ Suffix(L.op.path, L.walk) /\ L.walk = <<>>
      /\ L.op.kind = "create dir" => L.op.size = DirSectors
      /\ L.cwd.data \in Seq(Sector)
  BY <1>1, LocalsAre DEF PhaseOK
<1>3. t \in [Index -> Entries]
  BY <1>1, <1>2, FetchIs
<1>4. x \in Sector \cup {-1} /\ (x = -1 <=> FindIndex(t, L.op.name) = {})
  BY <1>2, <1>3, FindIs
<1>5. N \in Locals /\ N.op = L.op /\ N.cwd = L.cwd /\ N.walk = L.walk /\ N.dir = t /\ N.sector = x
  BY <1>1, <1>3, <1>4 DEF Locals
<1>6. /\ m \in {"fetch map", "fetch hdr"} /\ (m = "fetch map" <=> x = -1)
      /\ m = "fetch map" => L.op.kind \in {"create file", "create dir"}
      /\ m = "fetch hdr" => L.op.kind \in {"remove file", "remove dir"}
  OBVIOUS
<1>7. Typed(D, F, O, m, N)
  <2>1. PhaseOK(m, N)
    BY ONLY <1>2, <1>4, <1>5, <1>6 DEF PhaseOK, HasDir, Making, MakingHdr, Fetched
  <2> QED BY <1>1, <1>5, <1>6, <2>1 DEF Typed, Places, HasDir, Fetched
<1>8. PICK M : M = D[MapData].marked
  OBVIOUS
<1>10. /\ Walked(N) = Walked(L) /\ (\A B : CwdCalm(B, L) => CwdCalm(B, N))
       /\ (CwdClean(D, M, F, L) => CwdClean(D, M, F, N)) /\ (\A B : TargetOut(B, L) => TargetOut(B, N))
  BY ONLY <1>5, SameCwd
<1>11. PICK c : c = L.cwd.data[1]
  OBVIOUS
<1>12. ASSUME x # -1
       PROVE  /\ L.cwd.data # <<>> /\ c \in Sector
              /\ \E i \in Index : Slot(D, c, i) /\ Nam(D, c, i) = L.op.name /\ Sec(D, c, i) = x
  BY <1>1, <1>2, <1>11, <1>12, FindSlot
<1>13. N.dir = FetchIn(D, N.cwd)
  BY <1>5
<1>14. ASSUME CleanOne(D, M, F, O, "fetch dir", L) PROVE CleanOne(D, M, F, O, m, N)
  <2>1. Tidy(D, M, F, O) /\ CwdClean(D, M, F, N)
    BY <1>10, <1>14 DEF CleanOne, CleanLocal, CleanDisk
  <2>2. CASE m = "fetch map"
    <3>1. FindIndex(N.dir, N.op.name) = {}
      BY <1>4, <1>5, <1>6, <2>2
    <3> QED BY ONLY <1>13, <2>1, <2>2, <3>1 DEF CleanOne, CleanLocal, CleanDisk, Making, MakingHdr, Fetched
  <2>3. CASE m = "fetch hdr"
    <3>1. FoundClean(D, M, "fetch hdr", N)
      <4>1. /\ L.cwd.data # <<>> /\ c \in Sector
            /\ \E i \in Index : Slot(D, c, i) /\ Nam(D, c, i) = L.op.name /\ Sec(D, c, i) = x
        BY <1>6, <1>12, <2>3
      <4> QED BY ONLY <1>5, <1>11, <1>13, <4>1 DEF FoundClean
    <3> QED BY ONLY <2>1, <2>3, <3>1 DEF CleanOne, CleanLocal, CleanDisk, Making, MakingHdr, Fetched
  <2> QED BY <1>6, <2>2, <2>3
<1>15. ASSUME NEW B, B \subseteq Others(F, L), CalmDisk(D, B, F), CalmLocal(D, B, "fetch dir", L)
       PROVE  CalmLocal(D, B, m, N)
  <2>1. B \subseteq F /\ B \subseteq Files /\ TargetOut(B, L)
    BY <1>1, <1>2, <1>15, OthersAre
  <2>2. CwdCalm(B, L) /\ CwdCalm(B, N) /\ CalmTree(D, B, F)
    BY <1>10, <1>15 DEF CalmLocal, CalmDisk
  <2>3. L.cwd.data # <<>> => TableCalm(D, B, L.cwd.data[1], FetchIn(D, L.cwd), {})
    BY <1>1, <1>2, <2>1, <2>2, FetchCalm
  <2>4. DirCalm(D, B, m, N)
    <3>1. m \notin MakingHdr
      BY <1>6 DEF MakingHdr
    <3> QED BY ONLY <1>5, <1>13, <2>3, <3>1 DEF DirCalm
  <2>5. m = "fetch hdr" => Safe(D, B, N.sector)
    <3> SUFFICES ASSUME m = "fetch hdr" PROVE Safe(D, B, x)
      BY <1>5
    <3>1. L.cwd.data # <<>>
      BY <1>6, <1>12
    <3>2. PICK i \in Index : Slot(D, L.cwd.data[1], i) /\ Nam(D, L.cwd.data[1], i) = L.op.name
                             /\ Sec(D, L.cwd.data[1], i) = x
      BY <1>6, <1>11, <1>12
    <3>3. Safe(D, B, Sec(D, L.cwd.data[1], i))
      BY ONLY <1>1, <1>2, <2>1, <2>2, <3>1, <3>2, EntrySafe
    <3> QED BY <3>2, <3>3
  <2> QED BY ONLY <1>6, <2>2, <2>4, <2>5 DEF CalmLocal, HasDir, Making, MakingHdr, Fetched
<1> QED BY <1>5, <1>7, <1>8, <1>14, <1>15, LocalMoves

LEMMA MarksAre ==
  ASSUME NEW D \in Disks
  PROVE  D[MapData] \in Maps /\ D[MapData].marked \subseteq Sector /\ D[MapData].kind = "map"
BY DEF Disks, Maps

(* Create has found sector x and allocated a, and added the entry. *)
Allots(D, L, M, x, a, d, u, m, N) ==
    /\ M = D[MapData].marked /\ Clear(M) # {} /\ Room(L.dir) # {} /\ x = FindClear(M)
    /\ Cardinality(Clear(M \cup {x})) >= L.op.size /\ a = Allocate(M \cup {x}, L.op.size)
    /\ m = (IF L.op.kind = "create dir" THEN "fetch old" ELSE "write hdr")
    /\ d \in BOOLEAN /\ d = (L.op.kind = "create dir") /\ u = Add(L.dir, L.op.name, d, x)
    /\ N = [L EXCEPT !.sector = x, !.dir = u, !.map = a.map, !.hdr = a.hdr]

LEMMA FetchMapMoves ==
  ASSUME NEW D, NEW F, NEW O, NEW L, Typed(D, F, O, "fetch map", L), NEW M, NEW x, NEW a, NEW d,
         NEW u, NEW m, NEW N, Allots(D, L, M, x, a, d, u, m, N)
  PROVE  Moves(D, F, O, "fetch map", L, D, F, O, m, N)
<1> USE DEF Allots
<1>1. D \in Disks /\ F \subseteq Files /\ O \subseteq Sector /\ L \in Locals /\ PhaseOK("fetch map", L)
  BY DEF Typed
<1>2. /\ L.op.kind \in {"create file", "create dir"} /\ L.op.kind \in Kinds /\ L.op.name \in Name
      /\ Suffix(L.op.path, L.walk) /\ L.walk = <<>>
      /\ L.op.kind = "create dir" => L.op.size = DirSectors
      /\ L.cwd.data \in Seq(Sector) /\ L.dir \in [Index -> Entries]
  BY <1>1, LocalsAre DEF PhaseOK, HasDir
<1>3. L.op.size \in Nat /\ (L.op.kind = "create dir" => L.op.size > 0)
  BY <1>1, <1>2, LocalsAre, Basics
<1>4. M \subseteq Sector
  BY <1>1, MarksAre
<1>5. x \in Sector /\ x \notin M
  BY <1>4, Basics, MinIs DEF FindClear, Clear
<1>6. /\ a.hdr \in Headers /\ a.map = (M \cup {x}) \cup DataSet(a.hdr)
      /\ DataSet(a.hdr) \cap (M \cup {x}) = {} /\ DataSet(a.hdr) \subseteq Sector
      /\ L.op.size > 0 => a.hdr.data # <<>>
  <2>1. PICK n : n = M \cup {x}
    OBVIOUS
  <2>2. PICK z \in Nat : z = L.op.size
    BY <1>3
  <2>3. n \subseteq Sector /\ a = Allocate(n, z)
    BY <1>4, <1>5, <2>1, <2>2
  <2>4. Cardinality(Clear(n)) \in Nat
    BY Basics, FS_Subset, FS_CardinalityType DEF Clear
  <2>5. z <= Cardinality(Clear(n))
    <3>1. Cardinality(Clear(n)) >= z
      BY <2>1, <2>2
    <3> QED BY ONLY <2>4, <3>1, z \in Nat
  <2>6. /\ Allocate(n, z).hdr \in Headers /\ Allocate(n, z).map = n \cup DataSet(Allocate(n, z).hdr)
        /\ DataSet(Allocate(n, z).hdr) \cap n = {} /\ DataSet(Allocate(n, z).hdr) \subseteq Sector
        /\ z > 0 => Allocate(n, z).hdr.data # <<>>
    BY ONLY <2>3, <2>5, z \in Nat, AllocateIs
  <2> QED BY ONLY <2>1, <2>2, <2>3, <2>6
<1>7. u \in [Index -> Entries]
  BY <1>2, <1>5, AddIs
<1>8. a.map \subseteq Sector
  BY ONLY <1>4, <1>5, <1>6
<1>9. /\ N \in Locals /\ N.op = L.op /\ N.cwd = L.cwd /\ N.walk = L.walk /\ N.dir = u /\ N.sector = x
      /\ N.map = a.map /\ N.hdr = a.hdr
  <2>1. PICK h \in Headers : h = a.hdr
    BY <1>6
  <2>2. PICK b \in SUBSET Sector : b = a.map
    BY <1>8
  <2>3. N = [L EXCEPT !.sector = x, !.dir = u, !.map = b, !.hdr = h]
    BY <2>1, <2>2
  <2> QED BY ONLY <1>1, <1>5, <1>7, <2>1, <2>2, <2>3, h \in Headers, b \in SUBSET Sector DEF Locals
<1>10. Work(N) \cap M = {} /\ N.map = M \cup Work(N) /\ N.sector \notin DataSet(N.hdr)
       /\ (N.op.kind = "create dir" => N.hdr.data # <<>>)
  BY ONLY <1>3, <1>5, <1>6, <1>9 DEF Work
<1>11. /\ m \in {"fetch old", "write hdr"} /\ (m = "fetch old" => L.op.kind = "create dir")
       /\ m = "write hdr" => L.op.kind # "create dir"
  OBVIOUS
<1>12. m \in MakingHdr /\ m \in Making /\ m \in HasDir /\ m \notin Fetched
  BY ONLY <1>11 DEF HasDir, Making, MakingHdr, Fetched
<1>13. Typed(D, F, O, m, N)
  <2>1. PhaseOK(m, N)
    BY ONLY <1>2, <1>5, <1>9, <1>11 DEF PhaseOK, HasDir, Making, MakingHdr, Fetched
  <2> QED BY <1>1, <1>9, <1>12, <2>1 DEF Typed, Places
<1>14. /\ Walked(N) = Walked(L) /\ (\A B : CwdCalm(B, L) => CwdCalm(B, N))
       /\ (CwdClean(D, M, F, L) => CwdClean(D, M, F, N)) /\ (\A B : TargetOut(B, L) => TargetOut(B, N))
  BY ONLY <1>9, SameCwd
<1>15. ASSUME CleanOne(D, M, F, O, "fetch map", L) PROVE CleanOne(D, M, F, O, m, N)
  <2>1. /\ Tidy(D, M, F, O) /\ CwdClean(D, M, F, L)
        /\ L.dir = FetchIn(D, L.cwd) /\ FindIndex(L.dir, L.op.name) = {}
    BY ONLY <1>15 DEF CleanOne, CleanLocal, CleanDisk
  <2>2. NewClean(M, N)
    BY ONLY <1>10 DEF NewClean
  <2>3. MadeClean(D, m, N)
    <3>1. /\ FetchIn(D, N.cwd) = L.dir /\ N.op.name = L.op.name /\ N.dir = Add(L.dir, L.op.name, d, x)
          /\ Room(L.dir) # {} /\ d = (L.op.kind = "create dir")
      BY <1>9, <2>1
    <3> QED BY ONLY <1>9, <1>11, <2>1, <3>1 DEF MadeClean
  <2> QED BY ONLY <1>11, <1>12, <1>14, <2>1, <2>2, <2>3 DEF CleanOne, CleanLocal, CleanDisk
<1>16. ASSUME NEW B, B \subseteq Others(F, L), CalmDisk(D, B, F), CalmLocal(D, B, "fetch map", L)
       PROVE  CalmLocal(D, B, m, N)
  <2>1. B \subseteq F /\ B \subseteq Files /\ TargetOut(B, L)
    BY ONLY <1>1, <1>2, <1>16, OthersAre
  <2>2. /\ CwdCalm(B, L) /\ CwdCalm(B, N) /\ CalmTree(D, B, F) /\ Guarded(B) \subseteq M
        /\ DirCalm(D, B, "fetch map", L)
    <3>1. M = D[MapData].marked
      OBVIOUS
    <3> QED BY ONLY <1>14, <1>16, <3>1 DEF CalmLocal, CalmDisk, HasDir
  <2>3. DirCalm(D, B, m, N)
    <3> SUFFICES ASSUME L.cwd.data # <<>>
                 PROVE  TableCalm(D, B, L.cwd.data[1], N.dir, {N.sector})
      BY <1>9, <1>12 DEF DirCalm
    <3>1. PICK c : c = L.cwd.data[1]
      OBVIOUS
    <3>2. \A f \in B : Leads(B, f.path, L.cwd.data[1]) => f.name # L.op.name /\ f.path = L.op.path
      <4>1. L.cwd.data # <<>>
        OBVIOUS
      <4>2. B \subseteq Files /\ L \in Locals /\ L.walk = <<>> /\ CwdCalm(B, L) /\ TargetOut(B, L)
        BY ONLY <1>1, <1>2, <2>1, <2>2
      <4> QED BY ONLY SMTT(30), <4>1, <4>2, NamesOut
    <3>3. TableCalm(D, B, c, L.dir, {})
      <4>1. L.cwd.data # <<>> /\ "fetch map" \notin MakingHdr
        BY DEF MakingHdr
      <4> QED BY ONLY <2>2, <3>1, <4>1 DEF DirCalm
    <3>4. d \in BOOLEAN /\ Room(L.dir) # {} /\ (\A f \in B : Leads(B, f.path, c) => f.name # L.op.name)
      BY <3>1, <3>2
    <3>5. TableCalm(D, B, c, Add(L.dir, L.op.name, d, x), {x})
      BY ONLY Zenon, <1>2, <1>5, <3>3, <3>4, AddCalm
    <3> QED BY <1>9, <3>1, <3>5
  <2>4. Work(N) \cap Guarded(B) = {} /\ Guarded(B) \subseteq N.map
    BY ONLY <1>10, <2>2
  <2> QED BY ONLY <1>10, <1>11, <1>12, <2>2, <2>3, <2>4 DEF CalmLocal, Making, Fetched
<1> QED BY <1>9, <1>13, <1>15, <1>16, LocalMoves

(* FetchOldHeader. *)
LEMMA OldMoves ==
  ASSUME NEW D, NEW F, NEW O, NEW k, NEW m, NEW L, Typed(D, F, O, k, L), NEW N \in Locals,
         N.op = L.op, N.walk = L.walk, N.cwd = L.cwd, N.dir = L.dir, N.map = L.map, N.hdr = L.hdr,
         N.sector = L.sector, k = "fetch old", m = "write new dir"
  PROVE  Moves(D, F, O, k, L, D, F, O, m, N)
<1>1. D \in Disks /\ F \subseteq Files /\ O \subseteq Sector /\ L \in Locals /\ PhaseOK(k, L)
  BY DEF Typed
<1>2. /\ k \in Making /\ m \in Making /\ k \in MakingHdr /\ m \in MakingHdr /\ m \in HasDir
      /\ k \in HasDir /\ m \notin Fetched /\ m # "idle" /\ k # "idle"
  BY DEF HasDir, Making, MakingHdr, Fetched
<1>3. Typed(D, F, O, m, N)
  <2>1. PhaseOK(m, N)
    BY <1>1 DEF PhaseOK, HasDir, Making, MakingHdr, Fetched
  <2> QED BY <1>1, <1>2, <2>1 DEF Typed, Places
<1>4. PICK M : M = D[MapData].marked
  OBVIOUS
<1>5. /\ Walked(N) = Walked(L) /\ (\A B : CwdCalm(B, L) => CwdCalm(B, N))
      /\ (CwdClean(D, M, F, L) => CwdClean(D, M, F, N)) /\ (\A B : TargetOut(B, L) => TargetOut(B, N))
  BY SameCwd
<1>6. Work(N) = Work(L)
  BY DEF Work
<1>7. ASSUME CleanOne(D, M, F, O, k, L) PROVE CleanOne(D, M, F, O, m, N)
  <2>1. Tidy(D, M, F, O) /\ CwdClean(D, M, F, L) /\ NewClean(M, L) /\ MadeClean(D, k, L)
    BY <1>2, <1>7 DEF CleanOne, CleanLocal, CleanDisk
  <2>2. NewClean(M, N)
    BY <1>6, <2>1 DEF NewClean
  <2>3. MadeClean(D, m, N)
    BY <2>1 DEF MadeClean
  <2> QED BY <1>2, <1>5, <2>1, <2>2, <2>3 DEF CleanOne, CleanLocal, CleanDisk
<1>8. ASSUME NEW B, CalmLocal(D, B, k, L) PROVE CalmLocal(D, B, m, N)
  <2>1. /\ CwdCalm(B, L) /\ DirCalm(D, B, k, L) /\ (L.op.kind = "create dir" => L.hdr.data # <<>>)
        /\ Work(L) \cap Guarded(B) = {} /\ Guarded(B) \subseteq L.map
    BY <1>2, <1>8 DEF CalmLocal
  <2>2. DirCalm(D, B, m, N)
    BY <1>2, <2>1 DEF DirCalm
  <2> QED BY <1>2, <1>5, <1>6, <2>1, <2>2 DEF CalmLocal
<1> QED BY <1>3, <1>4, <1>7, <1>8, LocalMoves

LEMMA FetchHeaderMoves ==
  ASSUME NEW D, NEW F, NEW O, NEW L, Typed(D, F, O, "fetch hdr", L), NEW m, NEW N,
         N = [L EXCEPT !.hdr = AsHeader(D[L.sector])],
         m = IF L.op.kind = "remove dir" THEN "fetch rm dir" ELSE "free"
  PROVE  Moves(D, F, O, "fetch hdr", L, D, F, O, m, N)
<1>1. D \in Disks /\ F \subseteq Files /\ O \subseteq Sector /\ L \in Locals /\ PhaseOK("fetch hdr", L)
  BY DEF Typed
<1>2. L.sector \in Sector /\ L.op.name \in Name
  BY <1>1 DEF PhaseOK, Fetched
<1>3. /\ AsHeader(D[L.sector]) \in Headers
      /\ D[L.sector].kind = "header" => AsHeader(D[L.sector]) = D[L.sector]
      /\ D[L.sector].kind # "header" => DataSet(AsHeader(D[L.sector])) = {}
  BY <1>1, <1>2, AsHeaderIs
<1>4. /\ N \in Locals /\ N.op = L.op /\ N.cwd = L.cwd /\ N.walk = L.walk /\ N.dir = L.dir
      /\ N.sector = L.sector /\ N.map = L.map /\ N.hdr = AsHeader(D[L.sector])
  BY <1>1, <1>3 DEF Locals
<1>5. m \in {"fetch rm dir", "free"}
  OBVIOUS
<1>6. Typed(D, F, O, m, N)
  <2>1. PhaseOK(m, N)
    BY ONLY <1>1, <1>4, <1>5 DEF PhaseOK, HasDir, Making, MakingHdr, Fetched
  <2> QED BY ONLY <1>1, <1>4, <1>5, <2>1 DEF Typed, Places, HasDir, Fetched
<1>7. PICK M : M = D[MapData].marked
  OBVIOUS
<1>8. /\ Walked(N) = Walked(L) /\ (\A B : CwdCalm(B, L) => CwdCalm(B, N))
      /\ (CwdClean(D, M, F, L) => CwdClean(D, M, F, N)) /\ (\A B : TargetOut(B, L) => TargetOut(B, N))
  BY ONLY <1>4, SameCwd
<1>9. ASSUME CleanOne(D, M, F, O, "fetch hdr", L) PROVE CleanOne(D, M, F, O, m, N)
  <2>1. Tidy(D, M, F, O) /\ CwdClean(D, M, F, L) /\ FoundClean(D, M, "fetch hdr", L)
    BY ONLY <1>9 DEF CleanOne, CleanLocal, CleanDisk, Fetched
  <2>2. PICK i \in Index : /\ L.cwd.data # <<>> /\ Slot(D, L.cwd.data[1], i)
                           /\ Nam(D, L.cwd.data[1], i) = L.op.name
                           /\ Sec(D, L.cwd.data[1], i) = L.sector
    BY ONLY <2>1 DEF FoundClean
  <2>3. L.cwd.data[1] \in Sector
    BY ONLY <1>1, <2>2, LocalsAre
  <2>4. D[L.sector] \in Headers
    <3>1. D[Sec(D, L.cwd.data[1], i)] \in Headers
      <4>1. i \in Index
        OBVIOUS
      <4> QED BY ONLY <1>1, <2>1, <2>2, <2>3, <4>1, TidyPlaced
    <3> QED BY ONLY <2>2, <3>1
  <2>5. N.hdr = D[L.sector]
    BY ONLY <1>3, <1>4, <2>4 DEF Headers
  <2>6. FoundClean(D, M, m, N)
    BY ONLY <1>4, <1>5, <2>1, <2>5 DEF FoundClean
  <2> QED BY ONLY <1>5, <1>8, <2>1, <2>6 DEF CleanOne, CleanLocal, CleanDisk, Making, MakingHdr
<1>10. ASSUME NEW B, CalmLocal(D, B, "fetch hdr", L) PROVE CalmLocal(D, B, m, N)
  <2>1. CwdCalm(B, L) /\ DirCalm(D, B, "fetch hdr", L) /\ Safe(D, B, L.sector)
    BY ONLY <1>10 DEF CalmLocal, HasDir, Fetched
  <2>2. DirCalm(D, B, m, N)
    BY ONLY <1>4, <1>5, <2>1 DEF DirCalm, MakingHdr
  <2>3. Work(N) \cap Guarded(B) = {}
    BY ONLY <1>3, <1>4, <2>1 DEF Work, Safe
  <2> QED BY ONLY <1>5, <1>8, <2>1, <2>2, <2>3 DEF CalmLocal, Making, MakingHdr
<1> QED BY <1>4, <1>6, <1>7, <1>9, <1>10, LocalMoves

LEMMA RmDirMoves ==
  ASSUME NEW D, NEW F, NEW O, NEW L, Typed(D, F, O, "fetch rm dir", L)
  PROVE  Moves(D, F, O, "fetch rm dir", L, D, F, O, "free", L)
<1>1. D \in Disks /\ F \subseteq Files /\ O \subseteq Sector /\ L \in Locals /\ PhaseOK("fetch rm dir", L)
  BY DEF Typed
<1>2. Typed(D, F, O, "free", L)
  <2>1. PhaseOK("free", L)
    BY <1>1 DEF PhaseOK, HasDir, Making, MakingHdr, Fetched
  <2> QED BY <1>1, <2>1 DEF Typed, Places, HasDir, Fetched
<1>3. PICK M : M = D[MapData].marked
  OBVIOUS
<1>4. ASSUME CleanOne(D, M, F, O, "fetch rm dir", L) PROVE CleanOne(D, M, F, O, "free", L)
  <2>1. Tidy(D, M, F, O) /\ CwdClean(D, M, F, L) /\ FoundClean(D, M, "fetch rm dir", L)
    BY <1>4 DEF CleanOne, CleanLocal, CleanDisk, Fetched
  <2>2. FoundClean(D, M, "free", L)
    BY <2>1 DEF FoundClean
  <2> QED BY <2>1, <2>2 DEF CleanOne, CleanLocal, CleanDisk, Making, MakingHdr
<1>5. ASSUME NEW B, CalmLocal(D, B, "fetch rm dir", L) PROVE CalmLocal(D, B, "free", L)
  <2>1. CwdCalm(B, L) /\ DirCalm(D, B, "fetch rm dir", L) /\ Work(L) \cap Guarded(B) = {}
    BY <1>5 DEF CalmLocal, HasDir, Fetched
  <2>2. DirCalm(D, B, "free", L)
    BY <2>1 DEF DirCalm, MakingHdr
  <2> QED BY <2>1, <2>2 DEF CalmLocal, Making, MakingHdr
<1> QED BY <1>2, <1>3, <1>4, <1>5, LocalMoves

(* Free: x are the sectors freed behind an over-full header. *)
Frees(L, M, x, N) ==
    /\ M \subseteq Sector
    /\ N = [L EXCEPT !.map = M \ (Range(L.hdr.data) \cup x \cup {L.sector}),
                     !.dir = RemoveEntry(L.dir, L.op.name)]

Freed(D, F, O, L, M, x, N) ==
    /\ Typed(D, F, O, "write map first", N)
    /\ N \in Locals /\ N.op = L.op /\ N.cwd = L.cwd /\ N.walk = L.walk /\ N.sector = L.sector
    /\ N.map = M \ (Range(L.hdr.data) \cup x \cup {L.sector}) /\ N.hdr = L.hdr
    /\ N.dir = RemoveEntry(L.dir, L.op.name)
    /\ L.op.name \in Name /\ FindIndex(L.dir, L.op.name) # {} /\ L.dir \in [Index -> Entries]
    /\ L.walk = <<>>
    /\ D \in Disks /\ F \subseteq Files /\ L \in Locals

LEMMA FreeIs ==
  ASSUME NEW D, NEW F, NEW O, NEW L, Typed(D, F, O, "free", L), NEW M, NEW x, NEW N, Frees(L, M, x, N)
  PROVE  Freed(D, F, O, L, M, x, N)
<1>1. D \in Disks /\ F \subseteq Files /\ O \subseteq Sector /\ L \in Locals /\ PhaseOK("free", L)
  BY DEF Typed
<1>2. /\ L.op.name \in Name /\ FindIndex(L.dir, L.op.name) # {} /\ L.dir \in [Index -> Entries]
      /\ L.walk = <<>>
  BY <1>1, LocalsAre DEF PhaseOK, HasDir, Fetched
<1>3. PICK u : u = RemoveEntry(L.dir, L.op.name)
  OBVIOUS
<1>4. u \in [Index -> Entries]
  BY <1>2, <1>3, RemoveIs
<1>5. PICK b \in SUBSET Sector : b = M \ (Range(L.hdr.data) \cup x \cup {L.sector})
  BY DEF Frees
<1>6. /\ N \in Locals /\ N.op = L.op /\ N.cwd = L.cwd /\ N.walk = L.walk /\ N.dir = u
      /\ N.sector = L.sector /\ N.map = b /\ N.hdr = L.hdr
  <2>1. N = [L EXCEPT !.map = b, !.dir = u]
    BY <1>3, <1>5 DEF Frees
  <2> QED BY ONLY <1>1, <1>4, <2>1, b \in SUBSET Sector DEF Locals
<1>7. Typed(D, F, O, "write map first", N)
  <2>1. PhaseOK("write map first", N)
    BY ONLY <1>1, <1>6 DEF PhaseOK, HasDir, Making, MakingHdr, Fetched
  <2> QED BY ONLY <1>1, <1>6, <2>1 DEF Typed, Places, HasDir, Fetched
<1> QED BY ONLY <1>1, <1>2, <1>3, <1>5, <1>6, <1>7 DEF Freed

LEMMA FreeCalm ==
  ASSUME NEW D, NEW F, NEW O, NEW L, Typed(D, F, O, "free", L), NEW M, M = D[MapData].marked,
         NEW x, NEW N, Frees(L, M, x, N),
         NEW B, B \subseteq Others(F, L), x \cap Guarded(B) = {}
  PROVE  CalmStep(D, F, "free", L, D, F, "write map first", N, B)
<1>1. SUFFICES ASSUME CalmDisk(D, B, F), CalmLocal(D, B, "free", L)
               PROVE  CalmLocal(D, B, "write map first", N)
  BY DEF CalmStep, Keeps
<1>2. /\ N.op = L.op /\ N.cwd = L.cwd /\ N.walk = L.walk /\ N.sector = L.sector /\ N.hdr = L.hdr
      /\ N.map = M \ (Range(L.hdr.data) \cup x \cup {L.sector})
      /\ N.dir = RemoveEntry(L.dir, L.op.name) /\ N \in Locals
      /\ L.op.name \in Name /\ FindIndex(L.dir, L.op.name) # {} /\ L.dir \in [Index -> Entries]
      /\ L.walk = <<>> /\ D \in Disks /\ F \subseteq Files /\ L \in Locals
  <2>1. Freed(D, F, O, L, M, x, N)
    BY FreeIs
  <2> QED BY ONLY <2>1 DEF Freed
<1>3. \A K : CwdCalm(K, L) => CwdCalm(K, N)
  BY ONLY <1>2, SameCwd
<1>4. B \subseteq F /\ B \subseteq Files /\ TargetOut(B, L)
  BY <1>2, OthersAre
<1>5. CwdCalm(B, L) /\ DirCalm(D, B, "free", L) /\ Work(L) \cap Guarded(B) = {}
  BY ONLY <1>1 DEF CalmLocal, HasDir, Fetched
<1>6. Guarded(B) \subseteq N.map
  <2>1. Guarded(B) \subseteq M
    BY <1>1 DEF CalmDisk
  <2>2. (Range(L.hdr.data) \cup {L.sector}) \cap Guarded(B) = {}
    BY ONLY <1>5 DEF Work, DataSet
  <2> QED BY <1>2, <2>1, <2>2
<1>7. DirCalm(D, B, "write map first", N)
  <2>1. ASSUME L.cwd.data # <<>> PROVE TableCalm(D, B, L.cwd.data[1], N.dir, {})
    <3>1. \A f \in B : Leads(B, f.path, L.cwd.data[1]) => f.name # L.op.name /\ f.path = L.op.path
      BY ONLY <1>2, <1>4, <1>5, <2>1, NamesOut
    <3>2. PICK c : c = L.cwd.data[1]
      OBVIOUS
    <3>3. TableCalm(D, B, c, L.dir, {})
      BY ONLY <1>5, <2>1, <3>2 DEF DirCalm, MakingHdr
    <3>4. \A f \in B : Leads(B, f.path, c) => f.name # L.op.name
      BY ONLY <3>1, <3>2
    <3>5. TableCalm(D, B, c, RemoveEntry(L.dir, L.op.name), {})
      BY ONLY Zenon, <1>2, <3>3, <3>4, RemoveCalm
    <3> QED BY ONLY <1>2, <3>2, <3>5
  <2> QED BY ONLY <1>2, <2>1 DEF DirCalm, MakingHdr
<1> QED BY ONLY <1>3, <1>5, <1>6, <1>7 DEF CalmLocal, Making, MakingHdr

(* Nothing but what Allocate left there is freed. *)
LEMMA FreeMoves ==
  ASSUME NEW D, NEW F, NEW O, NEW L, Typed(D, F, O, "free", L), NEW M, M = D[MapData].marked,
         NEW N, Frees(L, M, L.hdr.lost, N)
  PROVE  Moves(D, F, O, "free", L, D, F, O, "write map first", N)
<1>1. /\ Typed(D, F, O, "write map first", N)
      /\ N.op = L.op /\ N.cwd = L.cwd /\ N.walk = L.walk /\ N.sector = L.sector /\ N.hdr = L.hdr
      /\ N.map = M \ (Range(L.hdr.data) \cup L.hdr.lost \cup {L.sector})
      /\ N.dir = RemoveEntry(L.dir, L.op.name) /\ N \in Locals /\ L \in Locals
  <2>1. Freed(D, F, O, L, M, L.hdr.lost, N)
    BY FreeIs
  <2> QED BY ONLY <2>1 DEF Freed
<1>2. CwdClean(D, M, F, L) => CwdClean(D, M, F, N)
  BY ONLY <1>1, SameCwd
<1>3. Work(N) = Work(L) /\ N.map = M \ Work(L)
  BY ONLY <1>1 DEF Work, DataSet
<1>4. ASSUME CleanOne(D, M, F, O, "free", L) PROVE CleanOne(D, M, F, O, "write map first", N)
  <2>1. Tidy(D, M, F, O) /\ CwdClean(D, M, F, L) /\ FoundClean(D, M, "free", L)
    BY ONLY <1>4 DEF CleanOne, CleanLocal, CleanDisk, Fetched
  <2>2. FoundClean(D, M, "write map first", N)
    BY ONLY <1>1, <1>3, <2>1 DEF FoundClean
  <2> QED BY ONLY <1>2, <2>1, <2>2 DEF CleanOne, CleanLocal, CleanDisk, Making, MakingHdr
<1>5. ASSUME NEW B, B \subseteq Others(F, L), CalmDisk(D, B, F), CalmLocal(D, B, "free", L)
      PROVE  CalmLocal(D, B, "write map first", N)
  <2>1. L.hdr.lost \cap Guarded(B) = {}
    BY ONLY <1>5 DEF CalmLocal, Work, DataSet
  <2>2. CalmStep(D, F, "free", L, D, F, "write map first", N, B)
    BY <1>5, <2>1, FreeCalm
  <2> QED BY ONLY <1>5, <2>2 DEF CalmStep
<1> QED BY <1>1, <1>4, <1>5, LocalMoves

LEMMA WriteIs ==
  ASSUME NEW D, D \in Disks, NEW w, w \in Sector, NEW v, v \in Contents, w # 2 \/ v \in Maps
  PROVE  Wrote(D, [D EXCEPT ![w] = v], w, v)
<1>1. PICK E : E = [D EXCEPT ![w] = v]
  OBVIOUS
<1>2. D \in [Sector -> Contents] /\ D[2] \in Maps
  BY DEF Disks, MapData
<1>3. E \in [Sector -> Contents] /\ E[w] = v /\ \A s \in Sector : s # w => E[s] = D[s]
  BY ONLY <1>1, <1>2, w \in Sector, v \in Contents
<1>4. E[2] \in Maps
  BY <1>2, <1>3, Basics
<1>5. E \in Disks
  BY ONLY <1>3, <1>4 DEF Disks, MapData
<1>6. Wrote(D, E, w, v)
  BY ONLY <1>3, <1>5 DEF Wrote
<1> QED BY ONLY <1>1, <1>6

LEMMA WriteHeaderMoves ==
  ASSUME NEW D, NEW F, NEW O, NEW L, Typed(D, F, O, "write hdr", L), L.sector # 2
  PROVE  Moves(D, F, O, "write hdr", L, [D EXCEPT ![L.sector] = L.hdr], F, O, "write dir", L)
<1>1. D \in Disks /\ F \subseteq Files /\ O \subseteq Sector /\ L \in Locals /\ PhaseOK("write hdr", L)
  BY DEF Typed
<1>2. /\ L.op.name \in Name /\ L.sector \in Sector /\ L.walk = <<>> /\ L.hdr \in Headers
      /\ L.cwd.data \in Seq(Sector)
      /\ L.cwd.data # <<>> => L.cwd.data[1] \in Sector
  BY <1>1, LocalsAre DEF PhaseOK, HasDir, Making, MakingHdr
<1>3. PICK w : w = L.sector
  OBVIOUS
<1>4. PICK E : E = [D EXCEPT ![L.sector] = L.hdr]
  OBVIOUS
<1>5. L.hdr \in Contents /\ L.hdr.kind = "header" /\ DataSet(L.hdr) \subseteq Sector
      /\ (L.hdr.data # <<>> => L.hdr.data[1] \in DataSet(L.hdr) /\ L.hdr.data[1] \in Sector)
  BY <1>2, HeaderSectors DEF Contents
<1>6. E \in Disks /\ E[w] = L.hdr /\ (\A s \in Sector : s # w => E[s] = D[s]) /\ w \in Sector /\ w # 2
  <2>1. w \in Sector /\ w # 2
    BY <1>2, <1>3
  <2>2. Wrote(D, [D EXCEPT ![w] = L.hdr], w, L.hdr)
    BY ONLY Zenon, <1>1, <1>5, <2>1, WriteIs
  <2> QED BY ONLY <1>3, <1>4, <2>1, <2>2 DEF Wrote
<1>7. Typed(E, F, O, "write dir", L)
  <2>1. PhaseOK("write dir", L)
    BY ONLY <1>1 DEF PhaseOK, HasDir, Making, MakingHdr, Fetched
  <2> QED BY ONLY <1>1, <1>6, <2>1 DEF Typed, Places, HasDir, Making
<1>8. E[MapData].marked = D[MapData].marked
  BY ONLY <1>6, Basics DEF MapData
<1>9. PICK M : M = D[MapData].marked
  OBVIOUS
<1>10. M \subseteq Sector
  BY <1>1, <1>9, MarksAre
<1>11. ASSUME CleanOne(D, M, F, O, "write hdr", L) PROVE CleanOne(E, M, F, O, "write dir", L)
  <2>1. Tidy(D, M, F, O) /\ CwdClean(D, M, F, L) /\ NewClean(M, L) /\ MadeClean(D, "write hdr", L)
    BY ONLY <1>11 DEF CleanOne, CleanLocal, CleanDisk, Making, MakingHdr
  <2>2. w \notin M /\ w \notin DataSet(L.hdr)
    BY ONLY <1>3, <2>1 DEF NewClean, Work
  <2>3. Tidy(E, M, F, O)
    <3>1. \A s \in Sector : s \in M /\ s # 2 => E[s] = D[s]
      BY ONLY <1>6, <2>2
    <3>2. \A s \in Sector : E[s] = D[s] \/ \A i \in Index : ~Slot(E, s, i)
      BY ONLY <1>5, <1>6 DEF Slot
    <3> QED BY ONLY Zenon, <1>1, <1>6, <2>1, <3>1, <3>2, TidyStable
  <2>4. FetchIn(E, L.cwd) = FetchIn(D, L.cwd)
    <3>1. CASE L.cwd.data = <<>>
      BY ONLY <3>1 DEF FetchIn
    <3>2. CASE L.cwd.data # <<>>
      <4>1. L.cwd.data[1] \in M /\ L.cwd.data[1] \in Sector
        BY ONLY <1>1, <2>1, <3>2, CwdWhere DEF CwdApart
      <4>2. E[L.cwd.data[1]] = D[L.cwd.data[1]]
        BY ONLY <1>6, <2>2, <4>1
      <4> QED BY ONLY <4>2 DEF FetchIn
    <3> QED BY ONLY <3>1, <3>2
  <2>5. CwdClean(E, M, F, L)
    <3>1. ASSUME ~DirIn(F, Walked(L)), L.cwd.data # <<>>
          PROVE  \E s \in Sector, i \in Index :
                   /\ s \in M /\ Slot(E, s, i) /\ L.cwd.data[1] \in DataSet(E[Sec(E, s, i)])
                   /\ \A d \in F : d.isDir => d.sector # Sec(E, s, i)
      <4>1. PICK s \in Sector, i \in Index :
                   /\ s \in M /\ Slot(D, s, i) /\ L.cwd.data[1] \in DataSet(D[Sec(D, s, i)])
                   /\ \A d \in F : d.isDir => d.sector # Sec(D, s, i)
        BY ONLY <2>1, <3>1 DEF CwdClean
      <4>2. E[s] = D[s]
        BY ONLY <1>6, <2>2, <4>1
      <4>3. Slot(E, s, i) /\ Sec(E, s, i) = Sec(D, s, i)
        BY ONLY <4>1, <4>2 DEF Slot, Sec
      <4>4. Sec(D, s, i) \in Sector /\ Sec(D, s, i) \in M
        BY ONLY <1>1, <2>1, <4>1, TidyPlaced
      <4>5. E[Sec(D, s, i)] = D[Sec(D, s, i)]
        BY ONLY <1>6, <2>2, <4>4
      <4> QED BY ONLY <4>1, <4>3, <4>5
    <3> QED BY ONLY <2>1, <3>1 DEF CwdClean
  <2>6. MadeClean(E, "write dir", L)
    <3>1. L.op.kind = "create dir" => \A i \in Index : ~Slot(E, L.hdr.data[1], i)
      <4>1. SUFFICES ASSUME L.op.kind = "create dir" PROVE \A i \in Index : ~Slot(E, L.hdr.data[1], i)
        OBVIOUS
      <4>2. L.hdr.data # <<>> /\ \A i \in Index : ~Slot(D, L.hdr.data[1], i)
        BY ONLY <2>1, <4>1 DEF NewClean, MadeClean
      <4>3. E[L.hdr.data[1]] = D[L.hdr.data[1]]
        BY ONLY <1>5, <1>6, <2>2, <4>2
      <4> QED BY ONLY <4>2, <4>3 DEF Slot
    <3>2. E[L.sector] = L.hdr
      BY ONLY <1>3, <1>6
    <3> QED BY ONLY <2>1, <2>4, <3>1, <3>2 DEF MadeClean
  <2> QED BY ONLY <2>1, <2>3, <2>5, <2>6 DEF CleanOne, CleanLocal, CleanDisk, Making, MakingHdr, Fetched
<1>12. ASSUME NEW B, B \subseteq Others(F, L) PROVE CalmStep(D, F, "write hdr", L, E, F, "write dir", L, B)
  <2>1. B \subseteq F /\ B \subseteq Files /\ TargetOut(B, L)
    BY ONLY <1>1, <1>2, <1>12, OthersAre
  <2>2. SUFFICES ASSUME CalmDisk(D, B, F), CalmLocal(D, B, "write hdr", L)
                 PROVE CalmDisk(E, B, F) /\ Keeps(D, E, B) /\ CalmLocal(E, B, "write dir", L)
    BY DEF CalmStep
  <2>3. /\ CwdCalm(B, L) /\ DirCalm(D, B, "write hdr", L) /\ Work(L) \cap Guarded(B) = {}
        /\ Guarded(B) \subseteq L.map /\ (L.op.kind = "create dir" => L.hdr.data # <<>>)
    BY ONLY <2>2 DEF CalmLocal, HasDir, Making, MakingHdr
  <2>4. CalmTree(D, B, F) /\ KeysOK(F) /\ Guarded(B) \subseteq M
        /\ \A f \in B : \A g \in F \ {f} : AllSectors(f) \cap AllSectors(g) = {}
    BY ONLY <1>9, <2>2 DEF CalmDisk, CalmTree, ByIntact
  <2>5. w \notin Guarded(B) /\ DataSet(L.hdr) \cap Guarded(B) = {}
    BY ONLY <1>3, <2>3 DEF Work
  <2>6. Keeps(D, E, B)
    <3>1. \A x \in Sector : E[x] # D[x] /\ E[x].kind = "header" => DataSet(E[x]) \cap Guarded(B) = {}
      BY ONLY <1>6, <2>5
    <3> QED BY ONLY <3>1, SafeKept
  <2>7. CalmTree(E, B, F)
    <3>1. \A f \in B : f.sector # w
      <4>1. \A f \in B : f.sector \in AllSectors(f)
        BY DEF AllSectors, SectorsOf
      <4> QED BY ONLY <2>5, <4>1 DEF Guarded, AllOf
    <3>2. E[w].kind # "table" /\ \A p : ~Leads(B, p, w)
      <4>1. \A p, s : Leads(B, p, s) => s \in Guarded(B)
        BY ONLY <1>1, <2>1, <2>4, CalmLeads
      <4> QED BY ONLY <1>5, <1>6, <2>5, <4>1
    <3> QED BY ONLY Zenon, <1>1, <1>6, <2>1, <2>4, <2>6, <3>1, <3>2, WriteCalm
  <2>8. CalmDisk(E, B, F)
    BY ONLY <1>8, <1>9, <2>4, <2>7 DEF CalmDisk
  <2>9. DirCalm(E, B, "write dir", L)
    <3>1. ASSUME L.cwd.data # <<>> PROVE TableCalm(E, B, L.cwd.data[1], L.dir, {})
      <4>1. TableCalm(D, B, L.cwd.data[1], L.dir, {w})
        BY ONLY <1>3, <2>3, <3>1 DEF DirCalm, MakingHdr
      <4>2. TableCalm(E, B, L.cwd.data[1], L.dir, {w})
        BY ONLY <2>6, <4>1, TableKept
      <4>3. Safe(E, B, w)
        BY ONLY <1>6, <2>5 DEF Safe
      <4> QED BY ONLY <4>2, <4>3 DEF TableCalm
    <3> QED BY ONLY <3>1 DEF DirCalm, MakingHdr
  <2> QED BY ONLY <2>3, <2>6, <2>8, <2>9 DEF CalmLocal, HasDir, Making, MakingHdr, Fetched
<1> QED
  <2>1. CleanOne(D, D[MapData].marked, F, O, "write hdr", L)
          => CleanOne(E, E[MapData].marked, F, O, "write dir", L)
    BY ONLY <1>8, <1>9, <1>11
  <2>2. \A B : B \subseteq Others(F, L) => CalmStep(D, F, "write hdr", L, E, F, "write dir", L, B)
    BY <1>12
  <2>3. Moves(D, F, O, "write hdr", L, E, F, O, "write dir", L)
    BY ONLY <1>7, <2>1, <2>2 DEF Moves
  <2> QED BY ONLY <1>4, <2>3

(* WriteNewDir, when it hits no sector of a file. *)
LEMMA NewDirCalm ==
  ASSUME NEW D, NEW F, NEW O, NEW L, Typed(D, F, O, "write new dir", L), NEW E, NEW W, Written(D, E, W),
         NEW B, B \subseteq F, W \cap Guarded(B) = {}
  PROVE  /\ Typed(E, F, O, "write hdr", L) /\ E[MapData] = D[MapData]
         /\ CalmStep(D, F, "write new dir", L, E, F, "write hdr", L, B)
<1>1. D \in Disks /\ F \subseteq Files /\ O \subseteq Sector /\ L \in Locals /\ PhaseOK("write new dir", L)
  BY DEF Typed
<1>2. Typed(E, F, O, "write hdr", L)
  <2>1. PhaseOK("write hdr", L)
    BY ONLY <1>1 DEF PhaseOK, HasDir, Making, MakingHdr, Fetched
  <2>2. E \in Disks
    BY DEF Written
  <2> QED BY ONLY <1>1, <2>1, <2>2 DEF Typed, Places, HasDir, Making, MakingHdr
<1>3. E[MapData] = D[MapData]
  <2>1. 2 \in Sector /\ 2 \in Fixed
    BY ONLY Basics DEF Fixed
  <2>2. 2 \notin W /\ \A s \in Sector : s \notin W => E[s] = D[s]
    BY <2>1 DEF Written
  <2> QED BY ONLY <2>1, <2>2 DEF MapData
<1>4. SUFFICES ASSUME CalmDisk(D, B, F), CalmLocal(D, B, "write new dir", L)
               PROVE  CalmDisk(E, B, F) /\ Keeps(D, E, B) /\ CalmLocal(E, B, "write hdr", L)
  BY <1>2, <1>3 DEF CalmStep
<1>5. CalmTree(E, B, F) /\ Keeps(D, E, B)
  BY <1>1, <1>4, WrittenCalm DEF CalmDisk
<1>6. CalmLocal(E, B, "write new dir", L)
  BY ONLY <1>4, <1>5, LocalKept
<1>7. CalmLocal(E, B, "write hdr", L)
  <2>1. DirCalm(E, B, "write new dir", L) => DirCalm(E, B, "write hdr", L)
    BY DEF DirCalm, MakingHdr
  <2> QED BY ONLY <1>6, <2>1 DEF CalmLocal, HasDir, Making, MakingHdr, Fetched
<1> QED BY <1>3, <1>4, <1>5, <1>7 DEF CalmDisk

LEMMA NewDirMoves ==
  ASSUME NEW D, NEW F, NEW O, NEW L, Typed(D, F, O, "write new dir", L), NEW E, NEW W, Written(D, E, W),
         W \cap D[MapData].marked = {}, \A i \in Index : ~Slot(E, L.hdr.data[1], i)
  PROVE  Moves(D, F, O, "write new dir", L, E, F, O, "write hdr", L)
<1>1. D \in Disks /\ E \in Disks /\ F \subseteq Files /\ L \in Locals /\ L.op.name \in Name
      /\ L.cwd.data \in Seq(Sector) /\ L.op.path \in Seq(Name) /\ L.walk = <<>>
  BY LocalsAre DEF Typed, Written, PhaseOK, HasDir, Making, MakingHdr
<1>2. PICK M : M = D[MapData].marked
  OBVIOUS
<1>3. Typed(E, F, O, "write hdr", L) /\ E[MapData] = D[MapData]
  <2>1. W \cap Guarded({}) = {} /\ {} \subseteq F
    BY DEF Written, Guarded, AllOf
  <2> QED BY <2>1, NewDirCalm
<1>4. ASSUME CleanOne(D, M, F, O, "write new dir", L) PROVE CleanOne(E, M, F, O, "write hdr", L)
  <2>1. Tidy(D, M, F, O) /\ CwdClean(D, M, F, L) /\ NewClean(M, L) /\ MadeClean(D, "write new dir", L)
    BY ONLY <1>4 DEF CleanOne, CleanLocal, CleanDisk, Making, MakingHdr
  <2>2. \A s \in Sector : s \in M => E[s] = D[s]
    BY <1>2 DEF Written
  <2>3. Tidy(E, M, F, O)
    <3>1. \A s \in Sector : s \in M /\ s # 2 => E[s] = D[s]
      BY ONLY <2>2
    <3>2. \A s \in Sector : E[s] = D[s] \/ \A i \in Index : ~Slot(E, s, i)
      BY DEF Written
    <3> QED BY ONLY Zenon, <1>1, <2>1, <3>1, <3>2, TidyStable
  <2>4. FetchIn(E, L.cwd) = FetchIn(D, L.cwd)
    <3>1. CASE L.cwd.data = <<>>
      BY ONLY <3>1 DEF FetchIn
    <3>2. CASE L.cwd.data # <<>>
      <4>1. L.cwd.data[1] \in M /\ L.cwd.data[1] \in Sector
        BY ONLY <1>1, <2>1, <3>2, CwdWhere DEF CwdApart
      <4>2. E[L.cwd.data[1]] = D[L.cwd.data[1]]
        BY ONLY <2>2, <4>1
      <4> QED BY ONLY <4>2 DEF FetchIn
    <3> QED BY ONLY <3>1, <3>2
  <2>5. CwdClean(E, M, F, L)
    <3>1. ASSUME ~DirIn(F, Walked(L)), L.cwd.data # <<>>
          PROVE  \E s \in Sector, i \in Index :
                   /\ s \in M /\ Slot(E, s, i) /\ L.cwd.data[1] \in DataSet(E[Sec(E, s, i)])
                   /\ \A d \in F : d.isDir => d.sector # Sec(E, s, i)
      <4>1. PICK s \in Sector, i \in Index :
                   /\ s \in M /\ Slot(D, s, i) /\ L.cwd.data[1] \in DataSet(D[Sec(D, s, i)])
                   /\ \A d \in F : d.isDir => d.sector # Sec(D, s, i)
        BY ONLY <2>1, <3>1 DEF CwdClean
      <4>2. E[s] = D[s]
        BY ONLY <2>2, <4>1
      <4>3. Slot(E, s, i) /\ Sec(E, s, i) = Sec(D, s, i)
        BY ONLY <4>1, <4>2 DEF Slot, Sec
      <4>4. Sec(D, s, i) \in Sector /\ Sec(D, s, i) \in M
        BY ONLY <1>1, <2>1, <4>1, TidyPlaced
      <4>5. E[Sec(D, s, i)] = D[Sec(D, s, i)]
        BY ONLY <2>2, <4>4
      <4> QED BY ONLY <4>1, <4>3, <4>5
    <3> QED BY ONLY <2>1, <3>1 DEF CwdClean
  <2>6. MadeClean(E, "write hdr", L)
    BY <2>1, <2>4 DEF MadeClean
  <2> QED BY ONLY <2>1, <2>3, <2>5, <2>6 DEF CleanOne, CleanLocal, CleanDisk, Making, MakingHdr, Fetched
<1>5. ASSUME NEW B, B \subseteq Others(F, L)
      PROVE  CalmStep(D, F, "write new dir", L, E, F, "write hdr", L, B)
  <2>1. B \subseteq F
    BY ONLY <1>1, <1>5, OthersAre
  <2>2. CASE CalmDisk(D, B, F)
    <3>1. W \cap Guarded(B) = {}
      BY <2>2 DEF CalmDisk
    <3> QED BY <2>1, <3>1, NewDirCalm
  <2>3. CASE ~CalmDisk(D, B, F)
    BY ONLY <2>3 DEF CalmStep
  <2> QED BY ONLY <2>2, <2>3
<1>6. CleanOne(D, D[MapData].marked, F, O, "write new dir", L)
        => CleanOne(E, E[MapData].marked, F, O, "write hdr", L)
  BY ONLY <1>2, <1>3, <1>4
<1> QED BY ONLY <1>3, <1>5, <1>6 DEF Moves

(* Directory::WriteBack, through an open file. *)
WriteIn(D, f, t) == IF f.data = <<>> THEN D ELSE [D EXCEPT ![f.data[1]] = Table(t)]

LEMMA WriteInIs ==
  ASSUME NEW D \in Disks, NEW L \in Locals, L.cwd.data # <<>> => L.cwd.data[1] # 2,
         NEW E, E = WriteIn(D, L.cwd, L.dir)
  PROVE  /\ E \in Disks /\ E[MapData].marked = D[MapData].marked
         /\ L.cwd.data = <<>> => E = D
         /\ L.cwd.data # <<>> => /\ Wrote(D, E, L.cwd.data[1], Table(L.dir))
                                 /\ L.cwd.data[1] \in Sector
                                 /\ E[L.cwd.data[1]].kind = "table"
                                 /\ E[L.cwd.data[1]].table = L.dir
<1>1. L.dir \in [Index -> Entries] /\ (L.cwd.data # <<>> => L.cwd.data[1] \in Sector)
  BY LocalsAre
<1>2. CASE L.cwd.data = <<>>
  BY <1>2 DEF WriteIn
<1>3. CASE L.cwd.data # <<>>
  <2>1. PICK c : c = L.cwd.data[1]
    OBVIOUS
  <2>2. PICK v : v = Table(L.dir)
    OBVIOUS
  <2>3. v \in Contents /\ v.kind = "table" /\ v.table = L.dir
    BY ONLY <1>1, <2>2 DEF Contents, Tables, Table
  <2>4. c \in Sector /\ c # 2
    BY <1>1, <1>3, <2>1
  <2>5. E = [D EXCEPT ![c] = v]
    BY <1>3, <2>1, <2>2 DEF WriteIn
  <2>6. Wrote(D, [D EXCEPT ![c] = v], c, v)
    BY ONLY Zenon, D \in Disks, <2>3, <2>4, WriteIs
  <2>7. Wrote(D, E, c, v)
    BY ONLY <2>5, <2>6
  <2>8. E \in Disks /\ E[c] = v /\ E[2] = D[2]
    BY ONLY <2>4, <2>7, Basics DEF Wrote
  <2> QED BY ONLY <1>3, <2>1, <2>2, <2>3, <2>4, <2>7, <2>8 DEF MapData
<1> QED BY <1>2, <1>3

LEMMA WriteInCalm ==
  ASSUME NEW D \in Disks, NEW F, F \subseteq Files, NEW B, B \subseteq F, CalmDisk(D, B, F),
         NEW L \in Locals, CwdCalm(B, L),
         L.cwd.data # <<>> => TableCalm(D, B, L.cwd.data[1], L.dir, {}),
         NEW E, E = WriteIn(D, L.cwd, L.dir), NEW G, KeysOK(G),
         \A f \in B : \A g \in G \ {f} : AllSectors(f) \cap AllSectors(g) = {}
  PROVE  CalmDisk(E, B, G) /\ Keeps(D, E, B)
<1>1. /\ E \in Disks /\ E[MapData].marked = D[MapData].marked
      /\ L.cwd.data = <<>> => E = D
      /\ L.cwd.data # <<>> => /\ Wrote(D, E, L.cwd.data[1], Table(L.dir))
                              /\ L.cwd.data[1] \in Sector
                              /\ E[L.cwd.data[1]].kind = "table" /\ E[L.cwd.data[1]].table = L.dir
  <2>1. L.cwd.data # <<>> => L.cwd.data[1] # 2
    BY DEF CwdCalm
  <2> QED BY <2>1, WriteInIs
<1>2. CalmTree(D, B, F) /\ Guarded(B) \subseteq D[MapData].marked
  BY DEF CalmDisk
<1>3. CASE L.cwd.data = <<>>
  <2>1. E = D
    BY <1>1, <1>3
  <2>2. Keeps(D, E, B)
    BY ONLY <2>1 DEF Keeps
  <2>3. ByIntact(D, B, G)
    BY <1>2 DEF CalmTree, ByIntact
  <2> QED BY <1>2, <2>1, <2>2, <2>3 DEF CalmDisk, CalmTree
<1>4. CASE L.cwd.data # <<>>
  <2>1. PICK c : c = L.cwd.data[1]
    OBVIOUS
  <2>2. /\ c \in Sector /\ \A s \in Sector : s # c => E[s] = D[s]
        /\ E[c].kind = "table" /\ E[c].table = L.dir /\ E \in Disks
    BY ONLY <1>1, <1>4, <2>1 DEF Wrote
  <2>3. Keeps(D, E, B)
    <3>1. \A x \in Sector : E[x] # D[x] /\ E[x].kind = "header" => DataSet(E[x]) \cap Guarded(B) = {}
      BY ONLY <2>2
    <3> QED BY ONLY <3>1, SafeKept
  <2>4. TableCalm(D, B, c, L.dir, {})
    BY <1>4, <2>1
  <2>5. TableCalm(E, B, c, L.dir, {})
    BY ONLY <2>3, <2>4, TableKept
  <2>6. \A f \in B : f.sector # c
    BY <1>4, <2>1 DEF CwdCalm
  <2>7. E[c].kind = "table" /\ TableCalm(E, B, c, E[c].table, {})
    BY ONLY <2>2, <2>5
  <2>8. /\ D \in Disks /\ F \subseteq Files /\ B \subseteq F /\ KeysOK(G)
        /\ \A f \in B : \A g \in G \ {f} : AllSectors(f) \cap AllSectors(g) = {}
    OBVIOUS
  <2>9. CalmTree(E, B, G)
    BY ONLY Zenon, <1>2, <2>2, <2>3, <2>6, <2>7, <2>8, WriteCalm
  <2> QED BY ONLY <1>1, <1>2, <2>3, <2>9 DEF CalmDisk
<1> QED BY <1>3, <1>4

LEMMA WriteDirMoves ==
  ASSUME NEW D, NEW F, NEW O, NEW L, Typed(D, F, O, "write dir", L),
         L.cwd.data # <<>> => L.cwd.data[1] # 2
  PROVE  Moves(D, F, O, "write dir", L, WriteIn(D, L.cwd, L.dir), F, O, "write map", L)
<1>1. D \in Disks /\ F \subseteq Files /\ O \subseteq Sector /\ L \in Locals /\ PhaseOK("write dir", L)
  BY DEF Typed
<1>2. L.op.name \in Name
  BY <1>1 DEF PhaseOK
<1>3. PICK E : E = WriteIn(D, L.cwd, L.dir)
  OBVIOUS
<1>4. E \in Disks /\ E[MapData].marked = D[MapData].marked
  BY <1>1, <1>3, WriteInIs
<1>5. Typed(E, F, O, "write map", L)
  <2>1. PhaseOK("write map", L)
    BY ONLY <1>1 DEF PhaseOK, HasDir, Making, MakingHdr, Fetched
  <2> QED BY ONLY <1>1, <1>4, <2>1 DEF Typed, Places, HasDir, Making
<1>6. PICK M : M = D[MapData].marked
  OBVIOUS
<1>7. M \subseteq Sector
  BY <1>1, <1>6, MarksAre
<1>8. ASSUME CleanOne(D, M, F, O, "write dir", L) PROVE CleanOne(E, M, F, O, "write map", L)
  <2>1. Tidy(D, M, F, O) /\ CwdClean(D, M, F, L) /\ NewClean(M, L) /\ MadeClean(D, "write dir", L)
    BY ONLY <1>8 DEF CleanOne, CleanLocal, CleanDisk, Making, MakingHdr
  <2>2. E = IF L.cwd.data = <<>> THEN D ELSE [D EXCEPT ![L.cwd.data[1]] = Table(L.dir)]
    BY ONLY <1>3 DEF WriteIn
  <2>3. Tidy(E, L.map, FilesAfter(F, L), OrphansAfter(F, O, L)) /\ F \subseteq FilesAfter(F, L)
    BY ONLY <1>1, <1>4, <1>7, <2>1, <2>2, TidyCreate
  <2>4. Fixed \cup AllOf(F) \subseteq M
    BY ONLY <2>1 DEF Tidy
  <2> QED BY ONLY <2>1, <2>3, <2>4 DEF CleanOne, CleanLocal, CleanDisk, Making, MakingHdr, Fetched
<1>9. ASSUME NEW B, B \subseteq Others(F, L) PROVE CalmStep(D, F, "write dir", L, E, F, "write map", L, B)
  <2>1. B \subseteq F /\ B \subseteq Files
    BY ONLY <1>1, <1>2, <1>9, OthersAre
  <2>2. SUFFICES ASSUME CalmDisk(D, B, F), CalmLocal(D, B, "write dir", L)
                 PROVE CalmDisk(E, B, F) /\ Keeps(D, E, B) /\ CalmLocal(E, B, "write map", L)
    BY DEF CalmStep
  <2>3. /\ CwdCalm(B, L) /\ DirCalm(D, B, "write dir", L) /\ Work(L) \cap Guarded(B) = {}
        /\ Guarded(B) \subseteq L.map /\ (L.op.kind = "create dir" => L.hdr.data # <<>>)
    BY ONLY <2>2 DEF CalmLocal, HasDir, Making, MakingHdr
  <2>4. KeysOK(F) /\ \A f \in B : \A g \in F \ {f} : AllSectors(f) \cap AllSectors(g) = {}
    BY ONLY <2>2 DEF CalmDisk, CalmTree, ByIntact
  <2>5. L.cwd.data # <<>> => TableCalm(D, B, L.cwd.data[1], L.dir, {})
    BY ONLY <2>3 DEF DirCalm, MakingHdr
  <2>6. CalmDisk(E, B, F) /\ Keeps(D, E, B)
    BY ONLY Zenon, <1>1, <1>3, <2>1, <2>2, <2>3, <2>4, <2>5, WriteInCalm
  <2> QED BY ONLY <2>3, <2>6 DEF CalmLocal, HasDir, Making, MakingHdr, Fetched
<1> QED
  <2>1. CleanOne(D, D[MapData].marked, F, O, "write dir", L)
          => CleanOne(E, E[MapData].marked, F, O, "write map", L)
    BY ONLY <1>4, <1>6, <1>8
  <2>2. \A B : B \subseteq Others(F, L) => CalmStep(D, F, "write dir", L, E, F, "write map", L, B)
    BY <1>9
  <2>3. Moves(D, F, O, "write dir", L, E, F, O, "write map", L)
    BY ONLY <1>5, <2>1, <2>2 DEF Moves
  <2> QED BY ONLY <1>3, <2>3

(* The removal is completed. *)
LEMMA WriteDirLastMoves ==
  ASSUME NEW D, NEW F, NEW O, NEW L, Typed(D, F, O, "write dir last", L),
         L.cwd.data # <<>> => L.cwd.data[1] # 2
  PROVE  Moves(D, F, O, "write dir last", L, WriteIn(D, L.cwd, L.dir), Others(F, L),
               (O \cup AllOf(Inside(F, L.op.path, L.op.name))) \ Work(L), "idle", Idle)
<1>1. D \in Disks /\ F \subseteq Files /\ O \subseteq Sector /\ L \in Locals
      /\ PhaseOK("write dir last", L)
  BY DEF Typed
<1>2. /\ L.op.name \in Name /\ L.walk = <<>> /\ L.op.path \in Seq(Name)
      /\ L.cwd.data \in Seq(Sector)
  BY <1>1, LocalsAre DEF PhaseOK, HasDir, Fetched
<1>3. PICK E : E = WriteIn(D, L.cwd, L.dir)
  OBVIOUS
<1>4. E \in Disks /\ E[MapData].marked = D[MapData].marked
  BY <1>1, <1>3, WriteInIs
<1>5. PICK p, n : p = L.op.path /\ n = L.op.name
  OBVIOUS
<1>6. p \in Seq(Name) /\ n \in Name
  BY ONLY <1>2, <1>5
<1>7. PICK G : G = FilesLess(F, p, n)
  OBVIOUS
<1>8. PICK P : P = (O \cup AllOf(Inside(F, p, n))) \ Work(L)
  OBVIOUS
<1>9. G \subseteq F /\ G = Others(F, L)
  <2>1. FilesLess(F, p, n) \subseteq F
    BY ONLY <1>1, <1>6, LessIs
  <2> QED BY ONLY <1>5, <1>7, <2>1 DEF Others
<1>10. P \subseteq Sector
  <2>1. \A f \in F : AllSectors(f) \subseteq Sector
    BY <1>1, FileIs
  <2>2. AllOf(Inside(F, p, n)) \subseteq Sector
    BY ONLY <2>1 DEF AllOf, Inside
  <2> QED BY ONLY <1>1, <1>8, <2>2
<1>11. Typed(E, G, P, "idle", Idle)
  BY ONLY <1>1, <1>4, <1>9, <1>10, Shapes DEF Typed, Places
<1>12. Others(G, L) = Others(F, L)
  <2>1. G \subseteq Files
    BY ONLY <1>1, <1>9
  <2>2. \A f \in F : f \in FilesLess(F, p, n) <=>
               ~IsPrefix(Append(p, n), f.path) /\ ~(f.path = p /\ f.name = n)
    BY ONLY <1>1, <1>6, LessIs
  <2>3. FilesLess(G, p, n) \subseteq G /\ \A f \in G : f \in FilesLess(G, p, n) <=>
               ~IsPrefix(Append(p, n), f.path) /\ ~(f.path = p /\ f.name = n)
    BY ONLY <2>1, <1>6, LessIs
  <2>4. FilesLess(G, p, n) = G
    BY ONLY <1>7, <1>9, <2>2, <2>3
  <2> QED BY ONLY <1>5, <1>7, <2>4 DEF Others
<1>13. PICK M : M = D[MapData].marked
  OBVIOUS
<1>14. ASSUME CleanOne(D, M, F, O, "write dir last", L) PROVE CleanOne(E, M, G, P, "idle", Idle)
  <2>1. /\ CwdClean(D, M \cup Work(L), F, L) /\ FoundClean(D, M, "write dir last", L)
        /\ Tidy(D, M \cup Work(L), F, O) /\ M \cap Work(L) = {}
    BY ONLY <1>14 DEF CleanOne, CleanLocal, CleanDisk, Fetched
  <2>2. PICK c : c = L.cwd.data[1]
    OBVIOUS
  <2>3. /\ L.cwd.data # <<>> /\ L.hdr = D[L.sector] /\ L.dir = RemoveEntry(FetchIn(D, L.cwd), n)
        /\ \E i \in Index : Slot(D, c, i) /\ Nam(D, c, i) = n /\ Sec(D, c, i) = L.sector
    BY ONLY <1>5, <2>1, <2>2 DEF FoundClean
  <2>4. PICK i \in Index : Slot(D, c, i) /\ Nam(D, c, i) = n /\ Sec(D, c, i) = L.sector
    BY <2>3
  <2>5. CwdApart(D, M \cup Work(L), F, L, c)
    BY ONLY <1>1, <2>1, <2>2, <2>3, CwdWhere
  <2>6. Wrote(D, E, c, Table(RemoveEntry(FetchIn(D, L.cwd), n)))
    <3>1. Wrote(D, E, L.cwd.data[1], Table(L.dir))
      BY <1>1, <1>3, <2>3, WriteInIs
    <3> QED BY ONLY <2>2, <2>3, <3>1
  <2>7. PICK k \in Index : Gone(D, E, c, k) /\ Nam(D, c, k) = n
    <3>1. Removes(D, E, L.cwd, n, i)
      BY ONLY <1>1, <1>2, <1>6, <2>2, <2>3, <2>4, <2>6, i \in Index DEF Removes
    <3>2. \E k \in Index : Gone(D, E, L.cwd.data[1], k) /\ Nam(D, L.cwd.data[1], k) = n
      BY ONLY <3>1, RemoveRemoves
    <3> QED BY ONLY <2>2, <3>2
  <2>8. Sec(D, c, k) = L.sector
    <3>1. c \in Sector
      BY ONLY <2>5 DEF CwdApart
    <3>2. Slot(D, c, k)
      BY ONLY <2>7 DEF Gone
    <3>3. k = i
      BY ONLY <2>1, <2>4, <2>7, <3>1, <3>2, i \in Index, k \in Index DEF Tidy, EntriesApart
    <3> QED BY ONLY <2>4, <3>3
  <2>9. Work(L) = Obj(D, Sec(D, c, k))
    BY ONLY <2>3, <2>8 DEF Work, Obj
  <2>10. p = Walked(L) /\ n = Nam(D, c, k)
    BY ONLY <1>2, <1>5, <2>7, WalkEnds DEF Walked
  <2>11. Tidy(E, M, FilesLess(F, p, n), (O \cup AllOf(Inside(F, p, n))) \ Work(L))
    BY ONLY Zenon, <1>1, <1>4, <1>6, <2>1, <2>5, <2>7, <2>9, <2>10, k \in Index, TidyRemove
  <2>12. Tidy(E, M, G, P)
    BY ONLY <1>7, <1>8, <2>11
  <2> QED BY ONLY <2>12 DEF CleanOne
<1>15. ASSUME NEW B, B \subseteq Others(F, L)
       PROVE  CalmStep(D, F, "write dir last", L, E, G, "idle", Idle, B)
  <2>1. B \subseteq F /\ B \subseteq Files
    BY ONLY <1>1, <1>2, <1>15, OthersAre
  <2>2. SUFFICES ASSUME CalmDisk(D, B, F), CalmLocal(D, B, "write dir last", L)
                 PROVE CalmDisk(E, B, G) /\ Keeps(D, E, B)
    BY DEF CalmStep
  <2>3. CwdCalm(B, L) /\ DirCalm(D, B, "write dir last", L)
    BY ONLY <2>2 DEF CalmLocal, HasDir, Fetched
  <2>4. KeysOK(F) /\ \A f \in B : \A g \in F \ {f} : AllSectors(f) \cap AllSectors(g) = {}
    BY ONLY <2>2 DEF CalmDisk, CalmTree, ByIntact
  <2>5. KeysOK(G) /\ \A f \in B : \A g \in G \ {f} : AllSectors(f) \cap AllSectors(g) = {}
    BY ONLY <1>9, <2>4 DEF KeysOK
  <2>6. L.cwd.data # <<>> => TableCalm(D, B, L.cwd.data[1], L.dir, {})
    BY ONLY <2>3 DEF DirCalm, MakingHdr
  <2> QED BY ONLY Zenon, <1>1, <1>3, <2>1, <2>2, <2>3, <2>5, <2>6, WriteInCalm
<1> QED
  <2>1. CleanOne(D, D[MapData].marked, F, O, "write dir last", L)
          => CleanOne(E, E[MapData].marked, G, P, "idle", Idle)
    BY ONLY <1>4, <1>13, <1>14
  <2>2. \A B : B \subseteq Others(F, L) => CalmStep(D, F, "write dir last", L, E, G, "idle", Idle, B)
    BY <1>15
  <2>3. Moves(D, F, O, "write dir last", L, E, G, P, "idle", Idle)
    BY ONLY <1>11, <1>12, <2>1, <2>2 DEF Moves
  <2> QED BY ONLY <1>3, <1>5, <1>8, <1>9, <2>3

(* The free map is written. *)
WriteFree(D, L) == [D EXCEPT ![MapData] = FreeMap(L.map)]

FreeWritten(D, E, L) ==
    /\ E \in Disks /\ E[MapData].marked = L.map /\ E[2].kind = "map" /\ D[2].kind = "map"
    /\ \A s \in Sector : s # 2 => E[s] = D[s]
    /\ \A s \in Sector : E[s].kind = "table" => E[s] = D[s]
    /\ \A s \in Sector, i \in Index : /\ Slot(E, s, i) <=> Slot(D, s, i)
                                      /\ Slot(D, s, i) => s # 2
                                      /\ s # 2 => Sec(E, s, i) = Sec(D, s, i)
                                      /\ s # 2 => Nam(E, s, i) = Nam(D, s, i)

LEMMA WriteFreeIs ==
  ASSUME NEW D \in Disks, NEW L \in Locals
  PROVE  FreeWritten(D, WriteFree(D, L), L)
<1>0. PICK E : E = WriteFree(D, L)
  OBVIOUS
<1>1. L.map \subseteq Sector
  BY LocalsAre
<1>2. PICK v : v = FreeMap(L.map)
  OBVIOUS
<1>3. v \in Maps /\ v \in Contents /\ v.kind = "map" /\ v.marked = L.map
  BY ONLY <1>1, <1>2 DEF Contents, Maps, FreeMap
<1>4. E = [D EXCEPT ![2] = v] /\ 2 \in Sector
  BY <1>0, <1>2, Basics DEF WriteFree, MapData
<1>5. Wrote(D, [D EXCEPT ![2] = v], 2, v)
  BY ONLY Zenon, D \in Disks, <1>3, <1>4, WriteIs
<1>6. E \in Disks /\ E[2] = v /\ \A s \in Sector : s # 2 => E[s] = D[s]
  BY ONLY <1>4, <1>5 DEF Wrote
<1>7. D[2].kind = "map"
  BY MarksAre DEF MapData
<1>8. \A s \in Sector : E[s].kind = "table" => E[s] = D[s]
  BY ONLY <1>3, <1>6
<1>9. \A s \in Sector, i \in Index : /\ Slot(E, s, i) <=> Slot(D, s, i)
                                     /\ Slot(D, s, i) => s # 2
                                     /\ s # 2 => Sec(E, s, i) = Sec(D, s, i)
                                     /\ s # 2 => Nam(E, s, i) = Nam(D, s, i)
  BY ONLY <1>3, <1>6, <1>7 DEF Slot, Sec, Nam
<1>10. FreeWritten(D, E, L)
  BY ONLY <1>3, <1>6, <1>7, <1>8, <1>9 DEF MapData, FreeWritten
<1> QED BY ONLY <1>0, <1>10

LEMMA WriteFreeCalm ==
  ASSUME NEW D \in Disks, NEW F, F \subseteq Files, NEW B, B \subseteq F, CalmDisk(D, B, F),
         NEW L \in Locals, Guarded(B) \subseteq L.map, NEW E, E = WriteFree(D, L), NEW G, KeysOK(G),
         \A f \in B : \A g \in G \ {f} : AllSectors(f) \cap AllSectors(g) = {}
  PROVE  CalmDisk(E, B, G) /\ Keeps(D, E, B)
<1>1. /\ E \in Disks /\ E[MapData].marked = L.map /\ E[2].kind = "map" /\ 2 \in Sector
      /\ \A s \in Sector : s # 2 => E[s] = D[s]
  <2>1. FreeWritten(D, E, L)
    BY WriteFreeIs
  <2> QED BY ONLY <2>1, Basics DEF FreeWritten
<1>2. CalmTree(D, B, F)
  BY DEF CalmDisk
<1>3. Keeps(D, E, B)
  <2>1. \A x \in Sector : E[x] # D[x] /\ E[x].kind = "header" => DataSet(E[x]) \cap Guarded(B) = {}
    BY ONLY <1>1
  <2> QED BY ONLY <2>1, SafeKept
<1>4. \A f \in B : f.sector # 2
  <2>1. \A f \in B : f.sector \in AllSectors(f) /\ AllSectors(f) \cap Fixed = {}
    BY <1>2 DEF CalmTree, ByIntact, AllSectors, SectorsOf
  <2> QED BY <2>1 DEF Fixed
<1>5. E[2].kind # "table" /\ \A p : ~Leads(B, p, 2)
  <2>1. D \in Disks /\ F \subseteq Files /\ B \subseteq F
    OBVIOUS
  <2>2. \A p, s : Leads(B, p, s) => s \notin 0..2
    BY ONLY <1>2, <2>1, CalmLeads
  <2>3. 2 \in 0..2
    OBVIOUS
  <2> QED BY ONLY <1>1, <2>2, <2>3
<1>6. /\ D \in Disks /\ F \subseteq Files /\ B \subseteq F /\ KeysOK(G)
      /\ \A f \in B : \A g \in G \ {f} : AllSectors(f) \cap AllSectors(g) = {}
  OBVIOUS
<1>7. CalmTree(E, B, G)
  BY ONLY Zenon, <1>1, <1>2, <1>3, <1>4, <1>5, <1>6, WriteCalm
<1> QED BY <1>1, <1>3, <1>7 DEF CalmDisk

LEMMA WriteMapMoves ==
  ASSUME NEW D, NEW F, NEW O, NEW L, Typed(D, F, O, "write map", L)
  PROVE  Moves(D, F, O, "write map", L, WriteFree(D, L), FilesAfter(F, L), OrphansAfter(F, O, L),
               "idle", Idle)
<1>1. D \in Disks /\ F \subseteq Files /\ O \subseteq Sector /\ L \in Locals /\ PhaseOK("write map", L)
  BY DEF Typed
<1>2. L.op.name \in Name /\ L.sector \in Sector
  BY <1>1 DEF PhaseOK, Making
<1>3. PICK E : E = WriteFree(D, L)
  OBVIOUS
<1>4. /\ E \in Disks /\ E[MapData].marked = L.map
      /\ (\A s \in Sector : s # 2 => E[s] = D[s])
      /\ (\A s \in Sector : E[s].kind = "table" => E[s] = D[s])
  <2>1. FreeWritten(D, E, L)
    BY ONLY <1>1, <1>3, WriteFreeIs
  <2> QED BY ONLY <2>1 DEF FreeWritten
<1>5. PICK G : G = FilesAfter(F, L)
  OBVIOUS
<1>6. PICK P : P = OrphansAfter(F, O, L)
  OBVIOUS
<1>7. PICK f : f = NewFile(L)
  OBVIOUS
<1>8. /\ f \in Files /\ AllSectors(f) = Work(L) /\ f.path = L.op.path /\ f.name = L.op.name
      /\ f.hdr = L.hdr /\ (f.isDir <=> L.op.kind = "create dir")
  BY ONLY <1>1, <1>2, <1>7, NewFileIs
<1>9. /\ G \subseteq Files /\ Others(G, L) = Others(F, L)
      /\ \A g \in G : g \in F \/ g = f
  BY ONLY <1>1, <1>2, <1>5, <1>7, AfterLess DEF Others
<1>10. P \subseteq Sector
  <2>1. AllSectors(f) \subseteq Sector
    BY <1>8, FileIs
  <2> QED BY ONLY <1>1, <1>6, <1>7, <2>1 DEF OrphansAfter
<1>11. Typed(E, G, P, "idle", Idle)
  BY ONLY <1>4, <1>9, <1>10, Shapes DEF Typed, Places
<1>12. PICK M : M = D[MapData].marked
  OBVIOUS
<1>13. ASSUME CleanOne(D, M, F, O, "write map", L) PROVE CleanOne(E, L.map, G, P, "idle", Idle)
  <2>1. Tidy(D, L.map, G, P)
    BY ONLY <1>5, <1>6, <1>13 DEF CleanOne, CleanDisk
  <2>2. \A s \in Sector : s \in L.map /\ s # 2 => E[s] = D[s]
    BY ONLY <1>4
  <2>3. \A s \in Sector : E[s] = D[s] \/ \A i \in Index : ~Slot(E, s, i)
    BY ONLY <1>4 DEF Slot
  <2>4. Tidy(E, L.map, G, P)
    BY ONLY Zenon, <1>1, <1>4, <1>9, <2>1, <2>2, <2>3, TidyStable
  <2> QED BY ONLY <2>4 DEF CleanOne
<1>14. ASSUME NEW B, B \subseteq Others(F, L)
       PROVE  CalmStep(D, F, "write map", L, E, G, "idle", Idle, B)
  <2>1. B \subseteq F /\ B \subseteq Files
    BY ONLY <1>1, <1>2, <1>14, OthersAre
  <2>2. SUFFICES ASSUME CalmDisk(D, B, F), CalmLocal(D, B, "write map", L)
                 PROVE CalmDisk(E, B, G) /\ Keeps(D, E, B)
    BY DEF CalmStep
  <2>3. /\ Work(L) \cap Guarded(B) = {}
        /\ Guarded(B) \subseteq L.map /\ (L.op.kind = "create dir" => L.hdr.data # <<>>)
    BY ONLY <2>2 DEF CalmLocal, HasDir, Making, MakingHdr
  <2>4. KeysOK(F) /\ \A h \in B : \A g \in F \ {h} : AllSectors(h) \cap AllSectors(g) = {}
    BY ONLY <2>2 DEF CalmDisk, CalmTree, ByIntact
  <2>5. KeysOK(G)
    <3>1. CASE DirIn(F, L.op.path)
      <4>1. G = {g \in F : <<g.path, g.name>> # <<L.op.path, L.op.name>>} \cup {f}
        BY ONLY <1>5, <1>7, <3>1 DEF FilesAfter, Target
      <4>2. \A g \in G : (g \in F /\ ~(g.path = L.op.path /\ g.name = L.op.name)) \/ g = f
        BY ONLY <4>1
      <4>3. \A g, h \in G : g.path = h.path /\ g.name = h.name => g = h
        <5>1. \A g, h \in F : g.path = h.path /\ g.name = h.name => g = h
          BY ONLY <2>4 DEF KeysOK
        <5>2. f.path = L.op.path /\ f.name = L.op.name
          BY ONLY <1>8
        <5>3. SUFFICES ASSUME NEW g \in G, NEW h \in G, g.path = h.path, g.name = h.name
                       PROVE  g = h
          OBVIOUS
        <5>4. CASE g = f
          BY ONLY <4>2, <5>2, <5>3, <5>4
        <5>5. CASE h = f
          BY ONLY <4>2, <5>2, <5>3, <5>5
        <5>6. CASE g # f /\ h # f
          BY ONLY <4>2, <5>1, <5>3, <5>6
        <5> QED BY ONLY <5>4, <5>5, <5>6
      <4>4. \A g \in G : g.isDir => g.hdr.data # <<>>
        <5>1. \A g \in F : g.isDir => g.hdr.data # <<>>
          BY ONLY <2>4 DEF KeysOK
        <5> QED BY ONLY <1>8, <2>3, <4>2, <5>1
      <4> QED BY ONLY <4>3, <4>4 DEF KeysOK
    <3>2. CASE ~DirIn(F, L.op.path)
      BY ONLY <1>5, <2>4, <3>2 DEF FilesAfter
    <3> QED BY ONLY <3>1, <3>2
  <2>6. \A h \in B : \A g \in G \ {h} : AllSectors(h) \cap AllSectors(g) = {}
    <3>1. \A h \in B : AllSectors(h) \subseteq Guarded(B)
      BY DEF Guarded, AllOf
    <3> QED BY ONLY <1>8, <1>9, <2>3, <2>4, <3>1
  <2> QED BY ONLY Zenon, <1>1, <1>3, <2>1, <2>2, <2>3, <2>5, <2>6, WriteFreeCalm
<1> QED
  <2>1. CleanOne(D, D[MapData].marked, F, O, "write map", L)
          => CleanOne(E, E[MapData].marked, G, P, "idle", Idle)
    BY ONLY <1>4, <1>12, <1>13
  <2>2. \A B : B \subseteq Others(F, L) => CalmStep(D, F, "write map", L, E, G, "idle", Idle, B)
    BY <1>14
  <2>3. Moves(D, F, O, "write map", L, E, G, P, "idle", Idle)
    BY ONLY <1>9, <1>11, <2>1, <2>2 DEF Moves
  <2> QED BY ONLY <1>3, <1>5, <1>6, <2>3

LEMMA WriteMapFirstMoves ==
  ASSUME NEW D, NEW F, NEW O, NEW L, Typed(D, F, O, "write map first", L)
  PROVE  Moves(D, F, O, "write map first", L, WriteFree(D, L), F, O, "write dir last", L)
<1>1. D \in Disks /\ F \subseteq Files /\ O \subseteq Sector /\ L \in Locals
      /\ PhaseOK("write map first", L)
  BY DEF Typed
<1>2. L.op.name \in Name /\ L.sector \in Sector
  BY <1>1 DEF PhaseOK, Fetched
<1>3. PICK E : E = WriteFree(D, L)
  OBVIOUS
<1>4. /\ E \in Disks /\ E[MapData].marked = L.map
      /\ (\A s \in Sector : s # 2 => E[s] = D[s])
      /\ (\A s \in Sector : E[s].kind = "table" => E[s] = D[s])
      /\ \A s \in Sector, i \in Index : /\ Slot(E, s, i) <=> Slot(D, s, i)
                                        /\ Slot(D, s, i) => s # 2
                                        /\ s # 2 => Sec(E, s, i) = Sec(D, s, i)
                                        /\ s # 2 => Nam(E, s, i) = Nam(D, s, i)
  <2>1. FreeWritten(D, E, L)
    BY ONLY <1>1, <1>3, WriteFreeIs
  <2> QED BY ONLY <2>1 DEF FreeWritten
<1>5. Typed(E, F, O, "write dir last", L)
  <2>1. PhaseOK("write dir last", L)
    BY ONLY <1>1 DEF PhaseOK, HasDir, Making, MakingHdr, Fetched
  <2> QED BY ONLY <1>1, <1>4, <2>1 DEF Typed, Places, HasDir, Fetched
<1>6. PICK M : M = D[MapData].marked
  OBVIOUS
<1>7. ASSUME CleanOne(D, M, F, O, "write map first", L)
      PROVE  CleanOne(E, L.map, F, O, "write dir last", L)
  <2>1. Tidy(D, M, F, O) /\ CwdClean(D, M, F, L) /\ FoundClean(D, M, "write map first", L)
    BY ONLY <1>7 DEF CleanOne, CleanLocal, CleanDisk, Fetched
  <2>2. PICK c : c = L.cwd.data[1]
    OBVIOUS
  <2>3. /\ L.cwd.data # <<>> /\ L.hdr = D[L.sector] /\ L.dir = RemoveEntry(FetchIn(D, L.cwd), L.op.name)
        /\ L.map = M \ Work(L)
        /\ \E i \in Index : Slot(D, c, i) /\ Nam(D, c, i) = L.op.name /\ Sec(D, c, i) = L.sector
    BY ONLY <2>1, <2>2 DEF FoundClean
  <2>4. PICK i \in Index : Slot(D, c, i) /\ Nam(D, c, i) = L.op.name /\ Sec(D, c, i) = L.sector
    BY <2>3
  <2>5. c \in Sector /\ c # 2
    <3>1. CwdApart(D, M, F, L, c)
      BY ONLY <1>1, <2>1, <2>2, <2>3, CwdWhere
    <3>2. c \in Sector /\ c \notin 0..2
      BY ONLY <3>1 DEF CwdApart
    <3> QED BY ONLY <3>2
  <2>6. Obj(D, L.sector) \subseteq M \ Fixed /\ L.sector # 2
    <3>1. Obj(D, L.sector) \subseteq M \ Fixed /\ L.sector \in M \ Fixed
      <4>1. Obj(D, Sec(D, c, i)) \subseteq M \ Fixed /\ Sec(D, c, i) \in M \ Fixed
        BY ONLY <1>1, <2>1, <2>4, <2>5, i \in Index, TidyPlaced
      <4> QED BY ONLY <2>4, <4>1
    <3>2. 2 \in Fixed
      BY ONLY TRUE DEF Fixed
    <3> QED BY ONLY <3>1, <3>2
  <2>7. Work(L) \subseteq M
    BY ONLY <2>3, <2>6 DEF Work, Obj
  <2>8. L.map \cup Work(L) = M /\ L.map \cap Work(L) = {}
    BY ONLY <2>3, <2>7
  <2>9. Tidy(E, M, F, O)
    <3>1. \A s \in Sector : s \in M /\ s # 2 => E[s] = D[s]
      BY ONLY <1>4
    <3> QED BY ONLY Zenon, <1>1, <1>4, <2>1, <3>1, TidyStable
  <2>10. CwdClean(E, M, F, L)
    <3>1. ASSUME ~DirIn(F, Walked(L)), L.cwd.data # <<>>
          PROVE  \E s \in Sector, j \in Index :
                   /\ s \in M /\ Slot(E, s, j) /\ L.cwd.data[1] \in DataSet(E[Sec(E, s, j)])
                   /\ \A d \in F : d.isDir => d.sector # Sec(E, s, j)
      <4>1. PICK s \in Sector, j \in Index :
                   /\ s \in M /\ Slot(D, s, j) /\ L.cwd.data[1] \in DataSet(D[Sec(D, s, j)])
                   /\ \A d \in F : d.isDir => d.sector # Sec(D, s, j)
        BY ONLY <2>1, <3>1 DEF CwdClean
      <4>2. Slot(E, s, j) /\ Sec(E, s, j) = Sec(D, s, j)
        BY ONLY <1>4, <4>1
      <4>3. Sec(D, s, j) \in Sector /\ Sec(D, s, j) \in M \ Fixed
        BY ONLY <1>1, <2>1, <4>1, TidyPlaced
      <4>4. E[Sec(D, s, j)] = D[Sec(D, s, j)]
        BY ONLY <1>4, <4>3 DEF Fixed
      <4> QED BY ONLY <4>1, <4>2, <4>4
    <3> QED BY ONLY <2>1, <3>1 DEF CwdClean
  <2>11. FoundClean(E, L.map, "write dir last", L)
    <3>1. FetchIn(E, L.cwd) = FetchIn(D, L.cwd)
      BY ONLY <1>4, <2>2, <2>5 DEF FetchIn
    <3>2. Slot(E, c, i) /\ Nam(E, c, i) = L.op.name /\ Sec(E, c, i) = L.sector
      BY ONLY <1>4, <2>4, <2>5, i \in Index
    <3>3. L.hdr = E[L.sector]
      BY ONLY <1>2, <1>4, <2>3, <2>6
    <3> QED BY ONLY <2>2, <2>3, <3>1, <3>2, <3>3, i \in Index DEF FoundClean
  <2>12. CleanLocal(E, L.map, F, "write dir last", L)
    BY ONLY <2>8, <2>10, <2>11 DEF CleanLocal, Making, MakingHdr
  <2>13. CleanDisk(E, L.map, F, O, "write dir last", L)
    BY ONLY <2>8, <2>9 DEF CleanDisk
  <2> QED BY ONLY <2>12, <2>13 DEF CleanOne
<1>8. ASSUME NEW B, B \subseteq Others(F, L)
      PROVE  CalmStep(D, F, "write map first", L, E, F, "write dir last", L, B)
  <2>1. B \subseteq F /\ B \subseteq Files
    BY ONLY <1>1, <1>2, <1>8, OthersAre
  <2>2. SUFFICES ASSUME CalmDisk(D, B, F), CalmLocal(D, B, "write map first", L)
                 PROVE CalmDisk(E, B, F) /\ Keeps(D, E, B) /\ CalmLocal(E, B, "write dir last", L)
    BY DEF CalmStep
  <2>3. /\ CwdCalm(B, L) /\ DirCalm(D, B, "write map first", L) /\ Guarded(B) \subseteq L.map
    BY ONLY <2>2 DEF CalmLocal, HasDir, Fetched
  <2>4. KeysOK(F) /\ \A f \in B : \A g \in F \ {f} : AllSectors(f) \cap AllSectors(g) = {}
    BY ONLY <2>2 DEF CalmDisk, CalmTree, ByIntact
  <2>5. CalmDisk(E, B, F) /\ Keeps(D, E, B)
    BY ONLY Zenon, <1>1, <1>3, <2>1, <2>2, <2>3, <2>4, WriteFreeCalm
  <2>6. DirCalm(E, B, "write dir last", L)
    <3>1. ASSUME L.cwd.data # <<>> PROVE TableCalm(E, B, L.cwd.data[1], L.dir, {})
      <4>1. TableCalm(D, B, L.cwd.data[1], L.dir, {})
        BY ONLY <2>3, <3>1 DEF DirCalm, MakingHdr
      <4> QED BY ONLY <2>5, <4>1, TableKept
    <3> QED BY ONLY <3>1 DEF DirCalm, MakingHdr
  <2> QED BY ONLY <2>3, <2>5, <2>6 DEF CalmLocal, HasDir, Making, MakingHdr, Fetched
<1> QED
  <2>1. CleanOne(D, D[MapData].marked, F, O, "write map first", L)
          => CleanOne(E, E[MapData].marked, F, O, "write dir last", L)
    BY ONLY <1>4, <1>6, <1>7
  <2>2. \A B : B \subseteq Others(F, L)
          => CalmStep(D, F, "write map first", L, E, F, "write dir last", L, B)
    BY <1>8
  <2>3. Moves(D, F, O, "write map first", L, E, F, O, "write dir last", L)
    BY ONLY <1>5, <2>1, <2>2 DEF Moves
  <2> QED BY ONLY <1>3, <2>3

-----------------------------------------------------------------------------
(* Steps of the file system. *)

Unsuspected(S, f) ==
    \A p \in S : p # <<f.path, f.name>> /\ ~IsPrefix(Append(p[1], p[2]), f.path)

LEMMA NoTarget ==
  ASSUME NEW S, NEW o, Target(o) \in S, NEW f, Unsuspected(S, f)
  PROVE  Target(o) # <<f.path, f.name>> /\ ~IsPrefix(Append(o.path, o.name), f.path)
<1>1. Target(o)[1] = o.path /\ Target(o)[2] = o.name
  BY DEF Target
<1> QED BY <1>1 DEF Unsuspected

(* Once there are suspects, they say who is a bystander. *)
LEMMA ByIs ==
  ASSUME SuspectsOK, suspects # {}
  PROVE  By = {f \in files : Unsuspected(suspects, f)}
<1>1. \A f : Bystander(f) => Unsuspected(suspects, f)
  BY DEF Bystander, AtWork, Unsuspected
<1>2. ASSUME NEW f, Unsuspected(suspects, f) PROVE Bystander(f)
  <2>1. \A t \in Busy : /\ Target(l[t].op) # <<f.path, f.name>>
                        /\ ~IsPrefix(Append(l[t].op.path, l[t].op.name), f.path)
    BY <1>2, NoTarget DEF SuspectsOK
  <2> QED BY <1>2, <2>1 DEF Bystander, AtWork, Unsuspected
<1> QED BY <1>1, <1>2 DEF By

LEMMA ByIsNext ==
  ASSUME SuspectsOK', suspects' # {}
  PROVE  By' = {f \in files' : Unsuspected(suspects', f)}
<1>1. \A f : Bystander(f)' => Unsuspected(suspects', f)
  BY DEF Bystander, AtWork, Unsuspected
<1>2. ASSUME NEW f, Unsuspected(suspects', f) PROVE Bystander(f)'
  <2>1. \A t \in Busy' : /\ Target(l'[t].op) # <<f.path, f.name>>
                         /\ ~IsPrefix(Append(l'[t].op.path, l'[t].op.name), f.path)
    BY <1>2, NoTarget DEF SuspectsOK
  <2> QED BY <1>2, <2>1 DEF Bystander, AtWork, Unsuspected
<1> QED BY <1>1, <1>2 DEF By

(* Nobody is a bystander of his own file's removal. *)
LEMMA ByOthers ==
  ASSUME TypesOK, NEW t \in Busy
  PROVE  By \subseteq Others(files, l[t])
<1>1. l[t] \in Locals /\ files \subseteq Files /\ PhaseOK(pc[t], l[t])
  BY DEF TypesOK, Busy
<1>2. l[t].op.path \in Seq(Name) /\ l[t].op.name \in Name
  BY <1>1, LocalsAre DEF PhaseOK
<1>3. \A f \in files : f \in FilesLess(files, l[t].op.path, l[t].op.name) <=>
         /\ ~IsPrefix(Append(l[t].op.path, l[t].op.name), f.path)
         /\ ~(f.path = l[t].op.path /\ f.name = l[t].op.name)
  BY ONLY <1>1, <1>2, LessIs
<1>4. \A f \in By : f \in files /\ Target(l[t].op) # <<f.path, f.name>>
                                /\ ~IsPrefix(Append(l[t].op.path, l[t].op.name), f.path)
  BY DEF By, Bystander, AtWork
<1> QED BY <1>3, <1>4 DEF Others, Target

(* A step of one thread. *)
LEMMA StepGood ==
  ASSUME Good, NEW t \in Busy, NEW m, NEW N, pc' = [pc EXCEPT ![t] = m], l' = [l EXCEPT ![t] = N],
         suspects' = suspects, Moves(disk, files, orphans, pc[t], l[t], disk', files', orphans', m, N)
  PROVE  Good'
<1>1. /\ TypesOK /\ SuspectsOK /\ (suspects = {} => Clean) /\ (suspects # {} => Calm)
      /\ pc \in [Thread -> Places] /\ l \in [Thread -> Locals] /\ t \in Thread /\ pc[t] # "idle"
  BY DEF Good, TypesOK, Busy
<1>2. /\ Typed(disk', files', orphans', m, N) /\ (m # "idle" => N.op = l[t].op)
      /\ Others(files', l[t]) = Others(files, l[t])
      /\ CleanOne(disk, disk[MapData].marked, files, orphans, pc[t], l[t])
           => CleanOne(disk', disk'[MapData].marked, files', orphans', m, N)
      /\ \A B : B \subseteq Others(files, l[t])
           => CalmStep(disk, files, pc[t], l[t], disk', files', m, N, B)
  BY DEF Moves
<1>3. /\ pc'[t] = m /\ l'[t] = N
      /\ \A u \in Thread : u # t => pc'[u] = pc[u] /\ l'[u] = l[u]
  BY ONLY <1>1, pc' = [pc EXCEPT ![t] = m], l' = [l EXCEPT ![t] = N]
<1>4. \A u : u \in Busy' <=> (u \in Busy /\ u # t) \/ (u = t /\ m # "idle")
  BY ONLY <1>1, <1>3 DEF Busy
<1>5. TypesOK'
  <2>1. /\ disk' \in Disks /\ files' \subseteq Files /\ orphans' \subseteq Sector /\ m \in Places
        /\ N \in Locals /\ (m # "idle" => PhaseOK(m, N))
    BY ONLY <1>2 DEF Typed
  <2>2. pc' \in [Thread -> Places] /\ l' \in [Thread -> Locals]
    BY ONLY <1>1, <2>1, pc' = [pc EXCEPT ![t] = m], l' = [l EXCEPT ![t] = N]
  <2>3. \A u \in Busy : u # t => PhaseOK(pc'[u], l'[u])
    BY ONLY <1>1, <1>3 DEF TypesOK, Busy
  <2>4. \A u \in Busy' : PhaseOK(pc'[u], l'[u])
    BY ONLY <1>3, <1>4, <2>1, <2>3
  <2>5. suspects' \subseteq Seq(Name) \X Name
    BY <1>1 DEF TypesOK
  <2> QED BY ONLY <2>1, <2>2, <2>4, <2>5 DEF TypesOK
<1>6. SuspectsOK'
  <2>1. ASSUME suspects' # {} PROVE \A u \in Busy' : Target(l'[u].op) \in suspects'
    <3>1. \A u \in Busy : Target(l[u].op) \in suspects
      BY <1>1, <2>1 DEF SuspectsOK
    <3>2. \A u \in Busy' : u \in Busy /\ u \in Thread /\ l'[u].op = l[u].op
      BY ONLY <1>2, <1>3, <1>4, t \in Busy DEF Busy
    <3> QED BY ONLY <3>1, <3>2, suspects' = suspects
  <2>2. suspects' = {} => \A u, v \in Busy' : u = v
    BY <1>1, <1>4 DEF SuspectsOK
  <2> QED BY ONLY <2>1, <2>2 DEF SuspectsOK
<1>7. ASSUME suspects' = {} PROVE Clean'
  <2>1. \A u \in Busy : u = t
    BY <1>1, <1>7 DEF SuspectsOK
  <2>2. CleanOne(disk, disk[MapData].marked, files, orphans, pc[t], l[t])
    BY <1>1, <1>7 DEF Clean, MapMarks
  <2>3. CleanOne(disk', disk'[MapData].marked, files', orphans', m, N)
    BY ONLY <1>2, <2>2
  <2>4. Busy' = {} => Tidy(disk', disk'[MapData].marked, files', orphans')
    BY ONLY <1>4, <2>3 DEF CleanOne
  <2>5. \A u \in Busy' : CleanOne(disk', disk'[MapData].marked, files', orphans', pc'[u], l'[u])
    BY ONLY <1>3, <1>4, <2>1, <2>3
  <2> QED BY ONLY <2>4, <2>5 DEF Clean, MapMarks
<1>8. ASSUME suspects' # {} PROVE Calm'
  <2>1. CalmDisk(disk, By, files) /\ \A u \in Busy : CalmLocal(disk, By, pc[u], l[u])
    BY <1>1, <1>8 DEF Calm
  <2>2. By \subseteq Others(files, l[t])
    BY ONLY <1>1, t \in Busy, ByOthers
  <2>3. Others(files, l[t]) \subseteq files /\ Others(files', l[t]) \subseteq files'
    BY DEF Others, FilesLess
  <2>4. By = {f \in files : Unsuspected(suspects, f)}
    BY <1>1, <1>8, ByIs
  <2>5. By' = {f \in files' : Unsuspected(suspects, f)}
    BY ONLY <1>6, <1>8, suspects' = suspects, ByIsNext
  <2>6. By' = By
    <3>1. By \subseteq By'
      BY ONLY <1>2, <2>2, <2>3, <2>4, <2>5
    <3>2. ASSUME NEW f \in By' PROVE f \in By
      <4>1. files' \subseteq Files /\ l[t] \in Locals /\ PhaseOK(pc[t], l[t])
        BY ONLY <1>1, <1>5, t \in Busy DEF TypesOK
      <4>2. l[t].op.path \in Seq(Name) /\ l[t].op.name \in Name
        BY <4>1, LocalsAre DEF PhaseOK
      <4>3. f \in files' /\ Unsuspected(suspects, f)
        BY ONLY <2>5, <3>2
      <4>4. Target(l[t].op) # <<f.path, f.name>> /\ ~IsPrefix(Append(l[t].op.path, l[t].op.name), f.path)
        <5>1. Target(l[t].op) \in suspects
          BY <1>1, <1>8 DEF SuspectsOK
        <5> QED BY ONLY <4>3, <5>1, NoTarget
      <4>5. \A g \in files' : g \in FilesLess(files', l[t].op.path, l[t].op.name) <=>
               /\ ~IsPrefix(Append(l[t].op.path, l[t].op.name), g.path)
               /\ ~(g.path = l[t].op.path /\ g.name = l[t].op.name)
        BY ONLY <4>1, <4>2, LessIs
      <4>6. f \in Others(files', l[t])
        BY ONLY <4>3, <4>4, <4>5 DEF Others, Target
      <4> QED BY ONLY <1>2, <2>3, <2>4, <4>3, <4>6
    <3> QED BY ONLY <3>1, <3>2
  <2>7. CalmDisk(disk', By, files') /\ Keeps(disk, disk', By)
        /\ (m # "idle" => CalmLocal(disk', By, m, N))
    BY ONLY <1>2, <2>1, <2>2, t \in Busy DEF CalmStep
  <2>8. \A u \in Busy : CalmLocal(disk', By, pc[u], l[u])
    BY ONLY <2>1, <2>7, LocalKept
  <2>9. \A u \in Busy' : CalmLocal(disk', By, pc'[u], l'[u])
    <3>1. \A u \in Busy : u \in Thread
      BY DEF Busy
    <3> QED BY ONLY <1>3, <1>4, <2>7, <2>8, <3>1
  <2>10. CalmDisk(disk', By', files') /\ \A u \in Busy' : CalmLocal(disk', By', pc'[u], l'[u])
    BY ONLY <2>6, <2>7, <2>9
  <2> QED BY ONLY <2>10 DEF Calm
<1> QED BY ONLY <1>5, <1>6, <1>7, <1>8 DEF Good

LEMMA SameGood ==
  ASSUME Good, UNCHANGED <<disk, pc, l, history>>
  PROVE  Good'
<1>1. /\ disk' = disk /\ pc' = pc /\ l' = l /\ files' = files /\ orphans' = orphans
      /\ suspects' = suspects
  BY DEF history
<1>2. TypesOK' = TypesOK /\ SuspectsOK' = SuspectsOK /\ Busy' = Busy
  BY ONLY <1>1 DEF TypesOK, SuspectsOK, Busy
<1>3. By' = By
  BY ONLY <1>1, <1>2 DEF By, Bystander, AtWork
<1>4. Clean' = Clean /\ Calm' = Calm
  BY ONLY <1>1, <1>2, <1>3 DEF Clean, Calm, MapMarks
<1> QED BY <1>1, <1>2, <1>4 DEF Good

LEMMA Ready ==
  ASSUME Good, NEW t \in Thread, pc[t] # "idle"
  PROVE  /\ t \in Busy /\ Typed(disk, files, orphans, pc[t], l[t])
         /\ l[t] \in Locals /\ PhaseOK(pc[t], l[t])
         /\ l \in [Thread -> Locals] /\ pc \in [Thread -> Places] /\ disk \in Disks
BY DEF Good, TypesOK, Typed, Busy

(* The map is not written by mistake. *)
LEMMA Away ==
  ASSUME Good, NEW t \in Busy
  PROVE  /\ pc[t] = "write hdr" => l[t].sector # 2
         /\ pc[t] \in {"write dir", "write dir last"} /\ l[t].cwd.data # <<>>
              => l[t].cwd.data[1] # 2
<1>1. /\ t \in Busy /\ Typed(disk, files, orphans, pc[t], l[t])
      /\ l[t] \in Locals /\ disk \in Disks /\ files \subseteq Files
  BY Ready DEF Busy, Typed
<1>2. PICK k, L : k = pc[t] /\ L = l[t]
  OBVIOUS
<1>3. PICK M : M = disk[MapData].marked
  OBVIOUS
<1>4. CASE suspects = {}
  <2>1. CleanOne(disk, M, files, orphans, k, L) /\ k # "idle"
    BY <1>2, <1>3, <1>4 DEF Good, Clean, MapMarks, Busy
  <2>2. ASSUME k = "write hdr" PROVE L.sector # 2
    <3>1. NewClean(M, L) /\ Tidy(disk, M, files, orphans)
      BY ONLY <2>1, <2>2 DEF CleanOne, CleanLocal, CleanDisk, Making, MakingHdr
    <3>2. L.sector \notin M
      BY ONLY <3>1 DEF NewClean, Work
    <3>3. 2 \in M
      BY ONLY <3>1 DEF Tidy, Fixed
    <3> QED BY ONLY <3>2, <3>3
  <2>3. ASSUME k \in {"write dir", "write dir last"}, L.cwd.data # <<>> PROVE L.cwd.data[1] # 2
    <3>1. \E K : Tidy(disk, K, files, orphans) /\ CwdClean(disk, K, files, L)
      BY ONLY <2>1, <2>3 DEF CleanOne, CleanLocal, CleanDisk
    <3>2. PICK K : Tidy(disk, K, files, orphans) /\ CwdClean(disk, K, files, L)
      BY <3>1
    <3>3. CwdApart(disk, K, files, L, L.cwd.data[1])
      BY ONLY <1>1, <1>2, <2>3, <3>2, CwdWhere
    <3>4. L.cwd.data[1] \notin 0..2
      BY ONLY <3>3 DEF CwdApart
    <3> QED BY ONLY <3>4
  <2> QED BY ONLY <1>2, <2>2, <2>3
<1>5. CASE suspects # {}
  <2>1. CalmLocal(disk, By, k, L)
    BY <1>2, <1>5 DEF Good, Calm
  <2>2. ASSUME k = "write hdr" PROVE L.sector # 2
    <3>1. Work(L) \cap Guarded(By) = {}
      BY ONLY <2>1, <2>2 DEF CalmLocal, Making, MakingHdr
    <3> QED BY ONLY <3>1 DEF Work, Guarded, Fixed
  <2>3. ASSUME k \in {"write dir", "write dir last"}, L.cwd.data # <<>> PROVE L.cwd.data[1] # 2
    <3>1. L.cwd.data[1] \notin 0..2
      BY ONLY <2>1, <2>3 DEF CalmLocal, CwdCalm
    <3> QED BY ONLY <3>1
  <2> QED BY ONLY <1>2, <2>2, <2>3
<1> QED BY <1>4, <1>5

LEMMA WalkGood ==
  ASSUME Good, NEW t \in Thread, Walk(t)
  PROVE  Good'
<1>1. pc[t] = "walk" /\ pc' = [pc EXCEPT ![t] = "walk open"]
  BY DEF Walk, Goto
<1>2. t \in Busy /\ Typed(disk, files, orphans, "walk", l[t])
  BY <1>1, Ready
<1>3. PICK s : s = Find(FetchIn(disk, l[t].cwd), Head(l[t].walk))
  OBVIOUS
<1>4. PICK N : N = [l[t] EXCEPT !.sector = s, !.walk = Tail(l[t].walk)]
  OBVIOUS
<1>5. s # -1 /\ l' = [l EXCEPT ![t] = N] /\ UNCHANGED <<disk, history>>
  BY <1>3, <1>4 DEF Walk, FetchFrom, FetchIn
<1>6. Moves(disk, files, orphans, "walk", l[t], disk, files, orphans, "walk open", N)
  BY ONLY <1>2, <1>3, <1>4, <1>5, WalkMoves
<1>7. disk' = disk /\ files' = files /\ orphans' = orphans /\ suspects' = suspects
  BY ONLY <1>5 DEF history
<1> QED BY ONLY Good, <1>1, <1>2, <1>5, <1>6, <1>7, StepGood

LEMMA WalkOpenGood ==
  ASSUME Good, NEW t \in Thread, WalkOpen(t)
  PROVE  Good'
<1>1. PICK m : m = IF l[t].walk = <<>> THEN "fetch dir" ELSE "walk"
  OBVIOUS
<1>2. pc[t] = "walk open" /\ pc' = [pc EXCEPT ![t] = m]
  BY <1>1 DEF WalkOpen, Goto
<1>3. t \in Busy /\ Typed(disk, files, orphans, "walk open", l[t])
  BY <1>2, Ready
<1>4. PICK N : N = [l[t] EXCEPT !.cwd = [sector |-> l[t].sector, data |-> AsHeader(disk[l[t].sector]).data]]
  OBVIOUS
<1>5. l' = [l EXCEPT ![t] = N] /\ UNCHANGED <<disk, history>>
  BY <1>4 DEF WalkOpen
<1>6. Moves(disk, files, orphans, "walk open", l[t], disk, files, orphans, m, N)
  BY ONLY <1>1, <1>3, <1>4, WalkOpenMoves
<1>7. disk' = disk /\ files' = files /\ orphans' = orphans /\ suspects' = suspects
  BY ONLY <1>5 DEF history
<1> QED BY ONLY Good, <1>2, <1>3, <1>5, <1>6, <1>7, StepGood

LEMMA FetchDirGood ==
  ASSUME Good, NEW t \in Thread, FetchDir(t)
  PROVE  Good'
<1>1. pc[t] = "fetch dir"
  BY DEF FetchDir
<1>2. t \in Busy /\ Typed(disk, files, orphans, "fetch dir", l[t]) /\ PhaseOK("fetch dir", l[t])
  BY <1>1, Ready
<1>3. PICK d : d = FetchIn(disk, l[t].cwd)
  OBVIOUS
<1>4. PICK x : x = Find(d, l[t].op.name)
  OBVIOUS
<1>5. FetchFrom(l[t].cwd) = d
  BY <1>3 DEF FetchFrom, FetchIn
<1>6. l[t].op.kind \in Kinds
  BY <1>2 DEF PhaseOK
<1>7. UNCHANGED <<disk, history>>
  BY DEF FetchDir
<1>8. disk' = disk /\ files' = files /\ orphans' = orphans /\ suspects' = suspects
  BY ONLY <1>7 DEF history
<1>9. \/ Return(t, "fetch dir")
      \/ \E m : /\ \/ m = "fetch map" /\ x = -1 /\ l[t].op.kind \in {"create file", "create dir"}
                   \/ m = "fetch hdr" /\ x # -1 /\ l[t].op.kind \in {"remove file", "remove dir"}
                /\ pc' = [pc EXCEPT ![t] = m]
                /\ l' = [l EXCEPT ![t].dir = d, ![t].sector = x]
  BY <1>4, <1>5, <1>6 DEF FetchDir, Goto, Kinds
<1>10. CASE Return(t, "fetch dir")
  <2>1. pc' = [pc EXCEPT ![t] = "idle"] /\ l' = [l EXCEPT ![t] = Idle]
    BY <1>10 DEF Return, Goto
  <2>2. Moves(disk, files, orphans, "fetch dir", l[t], disk, files, orphans, "idle", Idle)
    BY ONLY <1>2, IdleMoves
  <2> QED BY ONLY Good, <1>1, <1>2, <1>8, <2>1, <2>2, StepGood
<1>11. ASSUME NEW m,
              \/ m = "fetch map" /\ x = -1 /\ l[t].op.kind \in {"create file", "create dir"}
              \/ m = "fetch hdr" /\ x # -1 /\ l[t].op.kind \in {"remove file", "remove dir"},
              pc' = [pc EXCEPT ![t] = m], l' = [l EXCEPT ![t].dir = d, ![t].sector = x]
       PROVE  Good'
  <2>1. PICK N : N = [l[t] EXCEPT !.dir = d, !.sector = x]
    OBVIOUS
  <2>2. l' = [l EXCEPT ![t] = N]
    BY ONLY <1>11, <2>1
  <2>3. Moves(disk, files, orphans, "fetch dir", l[t], disk, files, orphans, m, N)
    BY ONLY <1>2, <1>3, <1>4, <1>11, <2>1, FetchDirMoves
  <2> QED BY ONLY Good, <1>1, <1>2, <1>8, <1>11, <2>2, <2>3, StepGood
<1> QED BY <1>9, <1>10, <1>11

LEMMA FetchMapGood ==
  ASSUME Good, NEW t \in Thread, CreateFetchMap(t)
  PROVE  Good'
<1>1. pc[t] = "fetch map"
  BY DEF CreateFetchMap
<1>2. t \in Busy /\ Typed(disk, files, orphans, "fetch map", l[t])
  BY <1>1, Ready
<1>3. PICK M : M = disk[MapData].marked
  OBVIOUS
<1>4. PICK x : x = FindClear(M)
  OBVIOUS
<1>5. PICK a : a = Allocate(M \cup {x}, l[t].op.size)
  OBVIOUS
<1>6. PICK d \in BOOLEAN : d = (l[t].op.kind = "create dir")
  OBVIOUS
<1>7. PICK u : u = Add(l[t].dir, l[t].op.name, d, x)
  OBVIOUS
<1>8. PICK m : m = IF l[t].op.kind = "create dir" THEN "fetch old" ELSE "write hdr"
  OBVIOUS
<1>9. PICK N : N = [l[t] EXCEPT !.sector = x, !.dir = u, !.map = a.map, !.hdr = a.hdr]
  OBVIOUS
<1>10. UNCHANGED <<disk, history>>
  BY DEF CreateFetchMap
<1>11. disk' = disk /\ files' = files /\ orphans' = orphans /\ suspects' = suspects
  BY ONLY <1>10 DEF history
<1>12. \/ Return(t, "fetch map")
       \/ /\ Clear(M) # {} /\ Room(l[t].dir) # {} /\ Cardinality(Clear(M \cup {x})) >= l[t].op.size
          /\ pc' = [pc EXCEPT ![t] = m] /\ l' = [l EXCEPT ![t] = N]
  <2>1. MapMarks = M
    BY <1>3 DEF MapMarks
  <2>2. \/ Return(t, "fetch map")
        \/ /\ Clear(M) # {} /\ Room(l[t].dir) # {} /\ Cardinality(Clear(M \cup {x})) >= l[t].op.size
           /\ pc' = [pc EXCEPT ![t] = m]
           /\ l' = [l EXCEPT ![t].sector = x, ![t].dir = Add(@, l[t].op.name, d, x),
                             ![t].map = a.map, ![t].hdr = a.hdr]
    BY <1>4, <1>5, <1>6, <1>8, <2>1 DEF CreateFetchMap, Goto
  <2> QED BY ONLY <1>7, <1>9, <2>2
<1>13. CASE Return(t, "fetch map")
  <2>1. pc' = [pc EXCEPT ![t] = "idle"] /\ l' = [l EXCEPT ![t] = Idle]
    BY <1>13 DEF Return, Goto
  <2>2. Moves(disk, files, orphans, "fetch map", l[t], disk, files, orphans, "idle", Idle)
    BY ONLY <1>2, IdleMoves
  <2> QED BY ONLY Good, <1>1, <1>2, <1>11, <2>1, <2>2, StepGood
<1>14. CASE /\ Clear(M) # {} /\ Room(l[t].dir) # {} /\ Cardinality(Clear(M \cup {x})) >= l[t].op.size
            /\ pc' = [pc EXCEPT ![t] = m] /\ l' = [l EXCEPT ![t] = N]
  <2>1. Moves(disk, files, orphans, "fetch map", l[t], disk, files, orphans, m, N)
    <3>1. PICK L : L = l[t]
      OBVIOUS
    <3>2. Typed(disk, files, orphans, "fetch map", L) /\ Allots(disk, L, M, x, a, d, u, m, N)
      BY ONLY Zenon, <1>2, <1>3, <1>4, <1>5, <1>6, <1>7, <1>8, <1>9, <1>14, <3>1, d \in BOOLEAN
         DEF Allots
    <3>3. Moves(disk, files, orphans, "fetch map", L, disk, files, orphans, m, N)
      BY ONLY <3>2, FetchMapMoves
    <3> QED BY ONLY <3>1, <3>3
  <2> QED BY ONLY Good, <1>1, <1>2, <1>11, <1>14, <2>1, StepGood
<1> QED BY ONLY <1>12, <1>13, <1>14

LEMMA OldHeadersAre ==
  ASSUME NEW c \in Contents, NEW h \in OldHeaders(c)
  PROVE  h \in Headers
<1>1. CASE IsHeader(c)
  <2>1. PICK x \in SUBSET Sector : h = Header(AsHeader(c).data, x)
    BY <1>1 DEF OldHeaders
  <2>2. AsHeader(c).data \in Seq(Sector)
    BY DEF AsHeader, Header, Contents, Headers, Tables, Maps, Nothing
  <2> QED BY <2>1, <2>2 DEF Header, Headers
<1>2. CASE ~IsHeader(c)
  <2>1. PICK d \in UNION {[1..n -> Sector] : n \in 0..DirSectors} : h = Header(d, {})
    BY <1>2 DEF OldHeaders
  <2>2. PICK n \in 0..DirSectors : d \in [1..n -> Sector]
    BY <2>1
  <2>3. d \in Seq(Sector)
    BY <2>2, Basics
  <2> QED BY <2>1, <2>3 DEF Header, Headers
<1> QED BY <1>1, <1>2

LEMMA OldHeaderGood ==
  ASSUME Good, NEW t \in Thread, FetchOldHeader(t)
  PROVE  Good'
<1>1. pc[t] = "fetch old" /\ pc' = [pc EXCEPT ![t] = "write new dir"]
  BY DEF FetchOldHeader, Goto
<1>2. t \in Busy /\ Typed(disk, files, orphans, "fetch old", l[t]) /\ l[t] \in Locals
      /\ disk \in Disks /\ PhaseOK("fetch old", l[t])
  BY <1>1, Ready
<1>3. PICK h \in OldHeaders(disk[l[t].sector]) : l' = [l EXCEPT ![t].old = h]
  BY DEF FetchOldHeader
<1>4. h \in Headers
  <2>1. l[t].sector \in Sector
    BY ONLY <1>2 DEF PhaseOK, Making, MakingHdr
  <2>2. disk[l[t].sector] \in Contents
    BY ONLY <1>2, <2>1, KindIs
  <2> QED BY ONLY <1>3, <2>2, OldHeadersAre
<1>5. PICK N : N = [l[t] EXCEPT !.old = h]
  OBVIOUS
<1>6. PICK L : L = l[t]
  OBVIOUS
<1>7. /\ N \in Locals /\ N.op = L.op /\ N.walk = L.walk /\ N.cwd = L.cwd /\ N.dir = L.dir
      /\ N.map = L.map /\ N.hdr = L.hdr /\ N.sector = L.sector
  BY ONLY <1>2, <1>4, <1>5, <1>6 DEF Locals
<1>8. l' = [l EXCEPT ![t] = N] /\ UNCHANGED <<disk, history>>
  BY <1>3, <1>5 DEF FetchOldHeader
<1>9. disk' = disk /\ files' = files /\ orphans' = orphans /\ suspects' = suspects
  BY ONLY <1>8 DEF history
<1>10. Moves(disk, files, orphans, "fetch old", L, disk, files, orphans, "write new dir", N)
  BY ONLY <1>2, <1>6, <1>7, OldMoves
<1> QED BY ONLY Good, <1>1, <1>2, <1>6, <1>8, <1>9, <1>10, StepGood

LEMMA WriteHeaderGood ==
  ASSUME Good, NEW t \in Thread, WriteHeader(t)
  PROVE  Good'
<1>1. pc[t] = "write hdr" /\ pc' = [pc EXCEPT ![t] = "write dir"]
  BY DEF WriteHeader, Goto
<1>2. t \in Busy /\ Typed(disk, files, orphans, "write hdr", l[t]) /\ l \in [Thread -> Locals]
  BY <1>1, Ready
<1>3. l[t].sector # 2
  BY ONLY Good, <1>1, <1>2, Away
<1>4. /\ disk' = [disk EXCEPT ![l[t].sector] = l[t].hdr] /\ l' = l
      /\ files' = files /\ orphans' = orphans /\ suspects' = suspects
  BY DEF WriteHeader, history
<1>5. l' = [l EXCEPT ![t] = l[t]]
  BY ONLY <1>2, <1>4
<1>6. Moves(disk, files, orphans, "write hdr", l[t], [disk EXCEPT ![l[t].sector] = l[t].hdr], files,
            orphans, "write dir", l[t])
  BY ONLY Zenon, <1>2, <1>3, WriteHeaderMoves
<1>7. Moves(disk, files, orphans, "write hdr", l[t], disk', files', orphans', "write dir", l[t])
  BY ONLY <1>4, <1>6
<1> QED BY ONLY Good, <1>1, <1>2, <1>4, <1>5, <1>7, StepGood

LEMMA WriteDirGood ==
  ASSUME Good, NEW t \in Thread, WriteDir(t)
  PROVE  Good'
<1>1. pc[t] = "write dir" /\ pc' = [pc EXCEPT ![t] = "write map"]
  BY DEF WriteDir, Goto
<1>2. t \in Busy /\ Typed(disk, files, orphans, "write dir", l[t]) /\ l \in [Thread -> Locals]
  BY <1>1, Ready
<1>3. l[t].cwd.data # <<>> => l[t].cwd.data[1] # 2
  BY ONLY Good, <1>1, <1>2, Away
<1>4. /\ disk' = WriteIn(disk, l[t].cwd, l[t].dir) /\ l' = l
      /\ files' = files /\ orphans' = orphans /\ suspects' = suspects
  BY DEF WriteDir, history, WriteBack, WriteIn
<1>5. l' = [l EXCEPT ![t] = l[t]]
  BY ONLY <1>2, <1>4
<1>6. Moves(disk, files, orphans, "write dir", l[t], WriteIn(disk, l[t].cwd, l[t].dir), files,
            orphans, "write map", l[t])
  BY ONLY Zenon, <1>2, <1>3, WriteDirMoves
<1>7. Moves(disk, files, orphans, "write dir", l[t], disk', files', orphans', "write map", l[t])
  BY ONLY <1>4, <1>6
<1> QED BY ONLY Good, <1>1, <1>2, <1>4, <1>5, <1>7, StepGood

LEMMA WriteMapGood ==
  ASSUME Good, NEW t \in Thread, WriteMap(t)
  PROVE  Good'
<1>1. pc[t] = "write map" /\ pc' = [pc EXCEPT ![t] = "idle"] /\ l' = [l EXCEPT ![t] = Idle]
  BY DEF WriteMap, Return, Goto
<1>2. t \in Busy /\ Typed(disk, files, orphans, "write map", l[t])
  BY <1>1, Ready
<1>3. disk' = WriteFree(disk, l[t]) /\ suspects' = suspects
  BY DEF WriteMap, WriteFree
<1>4. files' = FilesAfter(files, l[t]) /\ orphans' = OrphansAfter(files, orphans, l[t])
  <2>1. RecordNew(l[t].op, l[t].sector, l[t].hdr)
    BY DEF WriteMap
  <2>2. IsDir(l[t].op.path) <=> DirIn(files, l[t].op.path)
    BY DEF IsDir, DirIn
  <2>3. PICK f : f = NewFile(l[t])
    OBVIOUS
  <2>4. \/ /\ DirIn(files, l[t].op.path) /\ orphans' = orphans
           /\ files' = {g \in files : <<g.path, g.name>> # Target(l[t].op)} \cup {f}
        \/ /\ ~DirIn(files, l[t].op.path) /\ files' = files
           /\ orphans' = orphans \cup AllSectors(f)
    BY <2>1, <2>2, <2>3 DEF RecordNew, NewFile
  <2> QED BY ONLY <2>3, <2>4 DEF FilesAfter, OrphansAfter
<1>5. Moves(disk, files, orphans, "write map", l[t], WriteFree(disk, l[t]), FilesAfter(files, l[t]),
            OrphansAfter(files, orphans, l[t]), "idle", Idle)
  BY ONLY Zenon, <1>2, WriteMapMoves
<1>6. Moves(disk, files, orphans, "write map", l[t], disk', files', orphans', "idle", Idle)
  BY ONLY <1>3, <1>4, <1>5
<1> QED BY ONLY Good, <1>1, <1>2, <1>3, <1>6, StepGood

LEMMA FetchHeaderGood ==
  ASSUME Good, NEW t \in Thread, FetchHeader(t)
  PROVE  Good'
<1>1. PICK m : m = IF l[t].op.kind = "remove dir" THEN "fetch rm dir" ELSE "free"
  OBVIOUS
<1>2. pc[t] = "fetch hdr" /\ pc' = [pc EXCEPT ![t] = m]
  BY <1>1 DEF FetchHeader, Goto
<1>3. t \in Busy /\ Typed(disk, files, orphans, "fetch hdr", l[t])
  BY <1>2, Ready
<1>4. PICK N : N = [l[t] EXCEPT !.hdr = AsHeader(disk[l[t].sector])]
  OBVIOUS
<1>5. /\ l' = [l EXCEPT ![t] = N] /\ disk' = disk /\ files' = files /\ orphans' = orphans
      /\ suspects' = suspects
  BY <1>4 DEF FetchHeader, history
<1>6. Moves(disk, files, orphans, "fetch hdr", l[t], disk, files, orphans, m, N)
  BY ONLY <1>1, <1>3, <1>4, FetchHeaderMoves
<1> QED BY ONLY Good, <1>2, <1>3, <1>5, <1>6, StepGood

LEMMA RmDirGood ==
  ASSUME Good, NEW t \in Thread, FetchRmDir(t)
  PROVE  Good'
<1>1. pc[t] = "fetch rm dir"
  BY DEF FetchRmDir
<1>2. t \in Busy /\ Typed(disk, files, orphans, "fetch rm dir", l[t]) /\ l \in [Thread -> Locals]
  BY <1>1, Ready
<1>3. disk' = disk /\ files' = files /\ orphans' = orphans /\ suspects' = suspects
  BY DEF FetchRmDir, history
<1>4. \/ pc' = [pc EXCEPT ![t] = "idle"] /\ l' = [l EXCEPT ![t] = Idle]
      \/ pc' = [pc EXCEPT ![t] = "free"] /\ l' = l
  BY DEF FetchRmDir, Return, Goto
<1>5. CASE pc' = [pc EXCEPT ![t] = "idle"] /\ l' = [l EXCEPT ![t] = Idle]
  <2>1. Moves(disk, files, orphans, "fetch rm dir", l[t], disk, files, orphans, "idle", Idle)
    BY ONLY <1>2, IdleMoves
  <2> QED BY ONLY Good, <1>1, <1>2, <1>3, <1>5, <2>1, StepGood
<1>6. CASE pc' = [pc EXCEPT ![t] = "free"] /\ l' = l
  <2>1. l' = [l EXCEPT ![t] = l[t]]
    BY ONLY <1>2, <1>6
  <2>2. Moves(disk, files, orphans, "fetch rm dir", l[t], disk, files, orphans, "free", l[t])
    BY ONLY Zenon, <1>2, RmDirMoves
  <2> QED BY ONLY Good, <1>1, <1>2, <1>3, <1>6, <2>1, <2>2, StepGood
<1> QED BY ONLY <1>4, <1>5, <1>6

LEMMA WriteMapFirstGood ==
  ASSUME Good, NEW t \in Thread, WriteMapFirst(t)
  PROVE  Good'
<1>1. pc[t] = "write map first" /\ pc' = [pc EXCEPT ![t] = "write dir last"]
  BY DEF WriteMapFirst, Goto
<1>2. t \in Busy /\ Typed(disk, files, orphans, "write map first", l[t]) /\ l \in [Thread -> Locals]
  BY <1>1, Ready
<1>3. /\ disk' = WriteFree(disk, l[t]) /\ l' = l
      /\ files' = files /\ orphans' = orphans /\ suspects' = suspects
  BY DEF WriteMapFirst, history, WriteFree
<1>4. l' = [l EXCEPT ![t] = l[t]]
  BY ONLY <1>2, <1>3
<1>5. Moves(disk, files, orphans, "write map first", l[t], WriteFree(disk, l[t]), files, orphans,
            "write dir last", l[t])
  BY ONLY Zenon, <1>2, WriteMapFirstMoves
<1>6. Moves(disk, files, orphans, "write map first", l[t], disk', files', orphans', "write dir last",
            l[t])
  BY ONLY <1>3, <1>5
<1> QED BY ONLY Good, <1>1, <1>2, <1>3, <1>4, <1>6, StepGood

LEMMA WriteDirLastGood ==
  ASSUME Good, NEW t \in Thread, WriteDirLast(t)
  PROVE  Good'
<1>1. pc[t] = "write dir last" /\ pc' = [pc EXCEPT ![t] = "idle"] /\ l' = [l EXCEPT ![t] = Idle]
  BY DEF WriteDirLast, Return, Goto
<1>2. t \in Busy /\ Typed(disk, files, orphans, "write dir last", l[t])
  BY <1>1, Ready
<1>3. l[t].cwd.data # <<>> => l[t].cwd.data[1] # 2
  BY ONLY Good, <1>1, <1>2, Away
<1>4. disk' = WriteIn(disk, l[t].cwd, l[t].dir) /\ suspects' = suspects
  BY DEF WriteDirLast, WriteBack, WriteIn
<1>5. files' = Others(files, l[t])
  BY DEF WriteDirLast, Others, FilesLess, Inside, Target
<1>6. PICK P : P = (orphans \cup AllOf(Inside(files, l[t].op.path, l[t].op.name))) \ Work(l[t])
  OBVIOUS
<1>7. orphans' = P
  <2>1. AllSectors([sector |-> l[t].sector, hdr |-> l[t].hdr]) = Work(l[t])
    BY ONLY TRUE DEF AllSectors, SectorsOf, Work, DataSet
  <2> QED BY <1>6, <2>1 DEF WriteDirLast, AllOf, Inside
<1>8. Moves(disk, files, orphans, "write dir last", l[t], WriteIn(disk, l[t].cwd, l[t].dir),
            Others(files, l[t]), (orphans \cup AllOf(Inside(files, l[t].op.path, l[t].op.name)))
              \ Work(l[t]), "idle", Idle)
  BY ONLY Zenon, <1>2, <1>3, WriteDirLastMoves
<1>9. Moves(disk, files, orphans, "write dir last", l[t], disk', files', orphans', "idle", Idle)
  BY ONLY <1>4, <1>5, <1>6, <1>7, <1>8
<1> QED BY ONLY Good, <1>1, <1>2, <1>4, <1>9, StepGood

(* Before the first accident, too, the bystanders are safe. *)
LEMMA GoodCalm ==
  ASSUME Good
  PROVE  Calm
<1>1. TypesOK /\ SuspectsOK /\ (suspects = {} => Clean) /\ (suspects # {} => Calm)
  BY DEF Good
<1>2. disk \in Disks /\ files \subseteq Files
  BY <1>1 DEF TypesOK
<1>3. CASE suspects = {} /\ Busy = {}
  <2>1. Tidy(disk, disk[MapData].marked, files, orphans)
    BY <1>1, <1>3 DEF Clean, MapMarks
  <2>2. By = files
    BY ONLY <1>3 DEF By, Bystander, AtWork
  <2>3. CalmTree(disk, files, files) /\ Guarded(files) \subseteq disk[MapData].marked
    BY ONLY <1>2, <2>1, TidyCalm
  <2> QED BY ONLY <1>3, <2>2, <2>3 DEF Calm, CalmDisk
<1>4. CASE suspects = {} /\ Busy # {}
  <2>1. PICK t : t \in Busy
    BY <1>4
  <2>2. \A u \in Busy : u = t
    BY <1>1, <1>4, <2>1 DEF SuspectsOK
  <2>3. t \in Thread /\ pc[t] # "idle"
    BY ONLY <2>1 DEF Busy
  <2>4. l[t] \in Locals /\ PhaseOK(pc[t], l[t])
    BY <2>3, Ready
  <2>5. CleanOne(disk, disk[MapData].marked, files, orphans, pc[t], l[t])
    BY <1>1, <1>4, <2>1 DEF Clean, MapMarks
  <2>6. /\ CleanLocal(disk, disk[MapData].marked, files, pc[t], l[t])
        /\ CleanDisk(disk, disk[MapData].marked, files, orphans, pc[t], l[t])
    BY ONLY <2>3, <2>5 DEF CleanOne
  <2>7. By = Others(files, l[t])
    <3>1. By \subseteq Others(files, l[t])
      BY ONLY <1>1, <2>1, ByOthers
    <3>2. l[t].op.path \in Seq(Name) /\ l[t].op.name \in Name
      BY ONLY <2>4, LocalsAre DEF PhaseOK
    <3>3. Others(files, l[t]) \subseteq files /\ \A f \in files : f \in Others(files, l[t]) <=>
            /\ ~IsPrefix(Append(l[t].op.path, l[t].op.name), f.path)
            /\ ~(f.path = l[t].op.path /\ f.name = l[t].op.name)
      <4>1. PICK p, n : p = l[t].op.path /\ n = l[t].op.name
        OBVIOUS
      <4>2. FilesLess(files, p, n) \subseteq files /\ \A f \in files : f \in FilesLess(files, p, n) <=>
               ~IsPrefix(Append(p, n), f.path) /\ ~(f.path = p /\ f.name = n)
        BY ONLY <1>2, <3>2, <4>1, LessIs
      <4> QED BY ONLY <4>1, <4>2 DEF Others
    <3>4. \A f \in Others(files, l[t]) : f \in By
      BY ONLY <1>4, <2>2, <3>3 DEF By, Bystander, AtWork, Target
    <3> QED BY ONLY <3>1, <3>4
  <2>8. CalmDisk(disk, Others(files, l[t]), files)
    BY ONLY Zenon, <1>2, <2>4, <2>6, CleanCalmDisk
  <2>9. CalmLocal(disk, Others(files, l[t]), pc[t], l[t])
    BY ONLY Zenon, <1>2, <2>4, <2>6, CleanCalmLocal
  <2>10. CalmDisk(disk, By, files) /\ \A u \in Busy : CalmLocal(disk, By, pc[u], l[u])
    BY ONLY <2>2, <2>7, <2>8, <2>9
  <2> QED BY ONLY <2>10 DEF Calm
<1> QED BY <1>1, <1>3, <1>4

(* More suspects, fewer bystanders. *)
LEMMA UnsuspectedClosed ==
  ASSUME NEW S, S \subseteq Seq(Name) \X Name, NEW f \in Files, NEW d \in Files,
         Append(d.path, d.name) = f.path, Unsuspected(S, f)
  PROVE  Unsuspected(S, d)
<1>1. d.path \in Seq(Name) /\ d.name \in Name /\ f.path \in Seq(Name)
  BY FileIs
<1>2. SUFFICES ASSUME NEW p \in S
               PROVE  p # <<d.path, d.name>> /\ ~IsPrefix(Append(p[1], p[2]), d.path)
  BY DEF Unsuspected
<1>3. p[1] \in Seq(Name) /\ p[2] \in Name /\ p = <<p[1], p[2]>>
  BY <1>2
<1>4. PICK a : a = Append(p[1], p[2])
  OBVIOUS
<1>5. a \in Seq(Name) /\ ~IsPrefix(a, f.path)
  BY <1>2, <1>3, <1>4, AppendIsNone DEF Unsuspected
<1>6. IsPrefix(a, Append(d.path, d.name)) <=> IsPrefix(a, d.path) \/ a = Append(d.path, d.name)
  BY ONLY <1>1, <1>5, PrefixAppend
<1>7. ~IsPrefix(a, d.path) /\ a # Append(d.path, d.name)
  BY <1>5, <1>6
<1>8. p # <<d.path, d.name>>
  <2>1. SUFFICES ASSUME p = <<d.path, d.name>> PROVE FALSE
    OBVIOUS
  <2>2. p[1] = d.path /\ p[2] = d.name
    BY ONLY <2>1
  <2> QED BY ONLY <1>4, <1>7, <2>2
<1> QED BY ONLY <1>4, <1>7, <1>8

LEMMA LessBy ==
  ASSUME Good, files' = files, SuspectsOK', suspects' # {}, suspects \subseteq suspects',
         \A u \in Busy : Target(l[u].op) \in suspects', suspects' \subseteq Seq(Name) \X Name
  PROVE  /\ CalmDisk(disk, By', files) /\ By' \subseteq files /\ By' \subseteq By
         /\ \A f \in By' : Unsuspected(suspects', f)
         /\ \A u \in Busy : CalmLocal(disk, By', pc[u], l[u])
<1>1. CalmDisk(disk, By, files) /\ \A u \in Busy : CalmLocal(disk, By, pc[u], l[u])
  BY GoodCalm DEF Calm
<1>2. disk \in Disks /\ files \subseteq Files /\ l \in [Thread -> Locals]
  BY DEF Good, TypesOK
<1>3. By' = {f \in files' : Unsuspected(suspects', f)}
  BY ByIsNext
<1>4. PICK B : B = By'
  OBVIOUS
<1>5. B \subseteq files /\ \A f : f \in B <=> f \in files /\ Unsuspected(suspects', f)
  BY <1>3, <1>4
<1>6. By \subseteq files
  BY DEF By
<1>7. B \subseteq By
  <2>1. SUFFICES ASSUME NEW f \in B PROVE f \in By
    OBVIOUS
  <2>2. f \in files /\ Unsuspected(suspects', f)
    BY <1>5, <2>1
  <2>3. \A p \in suspects : p # <<f.path, f.name>> /\ ~IsPrefix(Append(p[1], p[2]), f.path)
    BY <2>2 DEF Unsuspected
  <2>4. \A u \in Busy : /\ Target(l[u].op) # <<f.path, f.name>>
                        /\ ~IsPrefix(Append(l[u].op.path, l[u].op.name), f.path)
    BY <2>2, NoTarget
  <2> QED BY ONLY <2>2, <2>3, <2>4 DEF By, Bystander, AtWork
<1>8. Closed(B, By)
  <2>1. SUFFICES ASSUME NEW f \in B, NEW d \in By, d.isDir, Append(d.path, d.name) = f.path
                 PROVE  d \in B
    BY DEF Closed
  <2>2. f \in Files /\ d \in Files /\ d \in files /\ Unsuspected(suspects', f)
    BY ONLY <1>2, <1>5, <1>6, <2>1
  <2>3. suspects' \subseteq Seq(Name) \X Name
    OBVIOUS
  <2>4. Unsuspected(suspects', d)
    BY ONLY <2>1, <2>2, <2>3, UnsuspectedClosed
  <2> QED BY ONLY <1>5, <2>2, <2>4
<1>9. CalmTree(disk, By, files) /\ Guarded(By) \subseteq disk[MapData].marked
  BY ONLY <1>1 DEF CalmDisk
<1>10. CalmTree(disk, B, files)
  BY ONLY Zenon, <1>2, <1>6, <1>7, <1>8, <1>9, Shrink
<1>11. Guarded(B) \subseteq disk[MapData].marked
  BY ONLY <1>7, <1>9, FewerGuarded
<1>12. \A u \in Busy : CalmLocal(disk, B, pc[u], l[u])
  <2>1. SUFFICES ASSUME NEW u \in Busy PROVE CalmLocal(disk, B, pc[u], l[u])
    OBVIOUS
  <2>2. l[u] \in Locals /\ CalmLocal(disk, By, pc[u], l[u])
    BY ONLY <1>1, <1>2, <2>1 DEF Busy
  <2> QED BY ONLY Zenon, <1>2, <1>6, <1>7, <1>8, <1>9, <2>2, ShrinkLocal
<1> QED BY ONLY <1>4, <1>5, <1>7, <1>10, <1>11, <1>12 DEF CalmDisk

(* A stray write or a stray free, of sectors X, makes S the suspects. *)
Blamed(S, X) ==
    /\ S # {} /\ suspects \subseteq S /\ S \subseteq Seq(Name) \X Name
    /\ \A u \in Busy : Target(l[u].op) \in S
    /\ \A f \in files : Unsuspected(S, f) => AllSectors(f) \cap X = {}

LEMMA StrayIs ==
  ASSUME Good, NEW t \in Busy, NEW X
  PROVE  Blamed(Stray(l[t].op, X), X)
<1> DEFINE S == Stray(l[t].op, X)
<1>1. TypesOK /\ SuspectsOK /\ files \subseteq Files /\ suspects \subseteq Seq(Name) \X Name
  BY DEF Good, TypesOK
<1>2. Target(l[t].op) \in S /\ suspects \subseteq S
  BY DEF Stray
<1>3. \A u \in Busy : Target(l[u].op) \in S
  BY <1>1, <1>2 DEF SuspectsOK
<1>4. Target(l[t].op) \in Seq(Name) \X Name
  <2>1. t \in Thread /\ pc[t] # "idle"
    BY DEF Busy
  <2>2. l[t] \in Locals /\ l[t].op.name \in Name
    BY <2>1, Ready DEF PhaseOK
  <2>3. l[t].op.path \in Seq(Name)
    BY <2>2, LocalsAre
  <2> QED BY ONLY <2>2, <2>3 DEF Target
<1>5. \A f \in files : <<f.path, f.name>> \in Seq(Name) \X Name
  BY <1>1, FileIs
<1>6. S \subseteq Seq(Name) \X Name
  BY <1>1, <1>4, <1>5 DEF Stray
<1>7. ASSUME NEW f \in files, Unsuspected(S, f) PROVE AllSectors(f) \cap X = {}
  <2>1. <<f.path, f.name>> \notin S
    BY <1>7 DEF Unsuspected
  <2> QED BY <2>1 DEF Stray
<1> HIDE DEF S
<1>8. Blamed(S, X)
  BY <1>2, <1>3, <1>6, <1>7 DEF Blamed
<1> QED BY <1>8 DEF S

LEMMA AccidentGood ==
  ASSUME Good, NEW t \in Busy, NEW m, m # "idle", NEW N, N.op = l[t].op, NEW X,
         pc' = [pc EXCEPT ![t] = m], l' = [l EXCEPT ![t] = N], files' = files, orphans' = orphans,
         suspects' = Stray(l[t].op, X), Typed(disk', files, orphans, m, N), X \cap Fixed = {},
         \A B : B \subseteq Others(files, l[t]) /\ X \cap Guarded(B) = {}
                 => CalmStep(disk, files, pc[t], l[t], disk', files, m, N, B)
  PROVE  Good'
<1>1. /\ TypesOK /\ SuspectsOK /\ pc \in [Thread -> Places] /\ l \in [Thread -> Locals]
      /\ t \in Thread /\ pc[t] # "idle"
  BY DEF Good, TypesOK, Busy
<1>2. /\ suspects' # {} /\ suspects \subseteq suspects' /\ suspects' \subseteq Seq(Name) \X Name
      /\ \A u \in Busy : Target(l[u].op) \in suspects'
      /\ \A f \in files : Unsuspected(suspects', f) => AllSectors(f) \cap X = {}
  <2>1. Blamed(Stray(l[t].op, X), X)
    BY StrayIs
  <2>2. Blamed(suspects', X)
    BY <2>1
  <2> QED BY ONLY <2>2 DEF Blamed
<1>3. /\ pc'[t] = m /\ l'[t] = N
      /\ \A u \in Thread : u # t => pc'[u] = pc[u] /\ l'[u] = l[u]
  BY ONLY <1>1, pc' = [pc EXCEPT ![t] = m], l' = [l EXCEPT ![t] = N]
<1>4. Busy' = Busy /\ \A u \in Busy : u \in Thread
  BY <1>1, <1>3 DEF Busy
<1>5. TypesOK'
  <2>1. /\ disk' \in Disks /\ files' \subseteq Files /\ orphans' \subseteq Sector /\ m \in Places
        /\ N \in Locals /\ PhaseOK(m, N)
    BY DEF Typed
  <2>2. pc' \in [Thread -> Places] /\ l' \in [Thread -> Locals]
    BY ONLY <1>1, <2>1, pc' = [pc EXCEPT ![t] = m], l' = [l EXCEPT ![t] = N]
  <2>3. \A u \in Busy' : PhaseOK(pc'[u], l'[u])
    BY ONLY <1>1, <1>3, <1>4, <2>1 DEF TypesOK
  <2> QED BY ONLY <1>2, <2>1, <2>2, <2>3 DEF TypesOK
<1>6. SuspectsOK'
  <2>1. \A u \in Busy' : l'[u].op = l[u].op
    BY <1>3, <1>4
  <2> QED BY ONLY <1>2, <1>4, <2>1 DEF SuspectsOK
<1>7. /\ CalmDisk(disk, By', files) /\ By' \subseteq files /\ By' \subseteq By
      /\ \A f \in By' : Unsuspected(suspects', f)
      /\ \A u \in Busy : CalmLocal(disk, By', pc[u], l[u])
  BY <1>2, <1>6, LessBy
<1>8. PICK B : B = By'
  OBVIOUS
<1>9. B \subseteq Others(files, l[t])
  BY <1>1, <1>7, <1>8, ByOthers
<1>10. X \cap Guarded(B) = {}
  BY <1>2, <1>7, <1>8 DEF Guarded, AllOf
<1>11. CalmDisk(disk', B, files) /\ Keeps(disk, disk', B) /\ CalmLocal(disk', B, m, N)
  BY <1>7, <1>8, <1>9, <1>10 DEF CalmStep
<1>12. \A u \in Busy : CalmLocal(disk', B, pc[u], l[u])
  BY ONLY <1>7, <1>8, <1>11, LocalKept
<1>13. \A u \in Busy' : CalmLocal(disk', B, pc'[u], l'[u])
  BY ONLY <1>3, <1>4, <1>11, <1>12
<1>14. CalmDisk(disk', By', files') /\ \A u \in Busy' : CalmLocal(disk', By', pc'[u], l'[u])
  BY <1>8, <1>11, <1>13
<1>15. Calm'
  BY ONLY <1>14 DEF Calm
<1> QED BY ONLY <1>2, <1>5, <1>6, <1>15 DEF Good

(* What WriteNewDir writes has no entries but "." and "..". *)
LEMMA NewDirWrites ==
  ASSUME Good, NEW t \in Thread, WriteNewDir(t)
  PROVE  Written(disk, disk', WrittenTo(l[t].old))
<1>1. pc[t] = "write new dir"
  BY DEF WriteNewDir, Goto
<1>2. l[t] \in Locals /\ disk \in Disks /\ PhaseOK("write new dir", l[t])
  BY <1>1, Ready
<1>3. l[t].sector \in Sector /\ l[t].dir \in [Index -> Entries]
  BY <1>2, LocalsAre DEF PhaseOK, Making, MakingHdr
<1>4. PICK new : new = SpecialDirs(l[t].sector, Find(l[t].dir, "."))
  OBVIOUS
<1>5. new \in [Index -> Entries] /\ \A i \in Index : new[i].name \in {".", ".."}
  <2>1. PICK a : a = Entry(".", TRUE, l[t].sector)
    OBVIOUS
  <2>2. PICK b : b = Entry("..", TRUE, Find(l[t].dir, "."))
    OBVIOUS
  <2>3. Find(l[t].dir, ".") \in Sector \cup {-1}
    BY <1>3, FindIs
  <2>4. a \in Entries /\ b \in Entries /\ a.name = "." /\ b.name = ".."
    BY ONLY <1>3, <2>1, <2>2, <2>3, Basics DEF Entry, Entries
  <2>5. new = [EmptyTable EXCEPT ![0] = a, ![1] = b]
    BY ONLY <1>4, <2>1, <2>2 DEF SpecialDirs
  <2>6. EmptyTable \in [Index -> Entries] /\ \A i \in Index : EmptyTable[i].name = "."
    BY ONLY Shapes DEF Unused
  <2> QED BY ONLY <2>4, <2>5, <2>6, Basics
<1>6. PICK W : W = WrittenTo(l[t].old)
  OBVIOUS
<1>7. /\ W \cap Fixed = {}
      /\ \E P : disk' = [s \in Sector |-> IF s \notin W THEN disk[s]
                                         ELSE Table(IF s \in P THEN new ELSE EmptyTable)]
  <2>1. PICK P : P = {s \in Sector : /\ l[t].old.data # <<>> /\ s = l[t].old.data[1]
                                     /\ s \notin Range(Tail(l[t].old.data))}
    OBVIOUS
  <2>2. disk' = [s \in Sector |-> IF s \notin W THEN disk[s]
                                  ELSE Table(IF s \in P THEN new ELSE EmptyTable)]
    BY <1>4, <1>6, <2>1 DEF WriteNewDir
  <2> QED BY <1>6, <2>2 DEF WriteNewDir, SystemSectors, Fixed
<1>8. PICK P : disk' = [s \in Sector |-> IF s \notin W THEN disk[s]
                                        ELSE Table(IF s \in P THEN new ELSE EmptyTable)]
  BY <1>7
<1>9. ASSUME NEW u \in {new, EmptyTable}
      PROVE  /\ Table(u) \in Contents /\ Table(u).kind = "table" /\ Table(u).table = u
             /\ \A i \in Index : ~(u[i].inUse /\ u[i].name \in Name)
  <2>1. u \in [Index -> Entries] /\ \A i \in Index : u[i].inUse => u[i].name \in {".", ".."}
    BY <1>5, Shapes, NoEntries
  <2> QED BY ONLY <2>1, Basics DEF Table, Tables, Contents
<1>10. \A s \in Sector : s \notin W => disk'[s] = disk[s]
  BY ONLY <1>8
<1>11. \A s \in Sector : s \in W => \E u \in {new, EmptyTable} : disk'[s] = Table(u)
  BY ONLY <1>8
<1>12. \A s \in Sector : s \in W => disk'[s].kind = "table" /\ \A i \in Index : ~Slot(disk', s, i)
  <2> TAKE s \in Sector
  <2> HAVE s \in W
  <2>1. PICK u \in {new, EmptyTable} : disk'[s] = Table(u)
    BY <1>11
  <2> QED BY <1>9, <2>1 DEF Slot
<1>13. disk' \in Disks
  <2>1. disk \in [Sector -> Contents] /\ disk[MapData] \in Maps
    BY <1>2 DEF Disks
  <2>2. \A s \in Sector : disk'[s] \in Contents
    BY <1>9, <1>10, <1>11, <2>1
  <2>3. disk' \in [Sector -> Contents]
    BY ONLY <1>8, <2>2
  <2>4. disk'[MapData] = disk[MapData]
    BY <1>7, <1>10, Basics DEF MapData, Fixed
  <2> QED BY <2>1, <2>3, <2>4 DEF Disks
<1> QED BY <1>6, <1>7, <1>10, <1>12, <1>13 DEF Written

LEMMA NewDirGood ==
  ASSUME Good, NEW t \in Thread, WriteNewDir(t)
  PROVE  Good'
<1>1. pc[t] = "write new dir" /\ pc' = [pc EXCEPT ![t] = "write hdr"]
  BY DEF WriteNewDir, Goto
<1>2. t \in Busy /\ Typed(disk, files, orphans, "write new dir", l[t]) /\ l[t] \in Locals
      /\ disk \in Disks /\ l \in [Thread -> Locals]
  BY <1>1, Ready
<1>3. PICK W : W = WrittenTo(l[t].old)
  OBVIOUS
<1>4. Written(disk, disk', W)
  BY <1>3, NewDirWrites
<1>5. l' = l /\ files' = files /\ orphans' = orphans
  BY DEF WriteNewDir
<1>6. suspects' = IF W \cap MapMarks # {} \/ HasEntries(disk'[l[t].hdr.data[1]])
                  THEN Stray(l[t].op, W) ELSE suspects
  BY <1>3 DEF WriteNewDir
<1>7. PICK L : L = l[t]
  OBVIOUS
<1>8. l' = [l EXCEPT ![t] = L]
  BY ONLY <1>2, <1>5, <1>7
<1>9. CASE W \cap MapMarks = {} /\ ~HasEntries(disk'[L.hdr.data[1]])
  <2>1. suspects' = suspects
    BY <1>6, <1>7, <1>9
  <2>2. \A i \in Index : ~Slot(disk', L.hdr.data[1], i)
    BY <1>9 DEF HasEntries, Slot, AsTable
  <2>3. Moves(disk, files, orphans, "write new dir", L, disk', files, orphans, "write hdr", L)
    BY ONLY <1>2, <1>4, <1>7, <1>9, <2>2, NewDirMoves DEF MapMarks
  <2> QED BY ONLY Good, <1>1, <1>2, <1>5, <1>7, <1>8, <2>1, <2>3, StepGood
<1>10. CASE ~(W \cap MapMarks = {} /\ ~HasEntries(disk'[L.hdr.data[1]]))
  <2>1. suspects' = Stray(L.op, W)
    BY <1>6, <1>7, <1>10
  <2>2. W \cap Fixed = {} /\ W \cap Guarded({}) = {}
    BY <1>4 DEF Written, Guarded, AllOf
  <2>3. Typed(disk', files, orphans, "write hdr", L)
    BY <1>2, <1>4, <1>7, <2>2, NewDirCalm
  <2>4. ASSUME NEW B, B \subseteq Others(files, L), W \cap Guarded(B) = {}
        PROVE  CalmStep(disk, files, "write new dir", L, disk', files, "write hdr", L, B)
    <3>1. B \subseteq files
      BY <2>4 DEF Others, FilesLess
    <3> QED BY <1>2, <1>4, <1>7, <2>4, <3>1, NewDirCalm
  <2>5. \A B : B \subseteq Others(files, l[t]) /\ W \cap Guarded(B) = {}
                => CalmStep(disk, files, pc[t], l[t], disk', files, "write hdr", L, B)
    BY ONLY <1>1, <1>7, <2>4
  <2>6. L.op = l[t].op /\ suspects' = Stray(l[t].op, W) /\ "write hdr" # "idle"
    BY ONLY <1>7, <2>1
  <2> QED BY ONLY Zenon, Good, <1>1, <1>2, <1>5, <1>8, <2>2, <2>3, <2>5, <2>6, AccidentGood
<1> QED BY <1>9, <1>10

LEMMA FreeGood ==
  ASSUME Good, NEW t \in Thread, Free(t)
  PROVE  Good'
<1>1. pc[t] = "free" /\ pc' = [pc EXCEPT ![t] = "write map first"]
  BY DEF Free, Goto
<1>2. t \in Busy /\ Typed(disk, files, orphans, "free", l[t]) /\ l \in [Thread -> Locals]
      /\ disk \in Disks
  BY <1>1, Ready
<1>3. PICK M : M = disk[MapData].marked
  OBVIOUS
<1>4. disk' = disk /\ files' = files /\ orphans' = orphans
  BY DEF Free
<1>5. PICK x \in Behind(l[t].hdr) :
        /\ l' = [l EXCEPT ![t].map = MapMarks \ (Range(l[t].hdr.data) \cup x \cup {l[t].sector}),
                          ![t].dir = RemoveEntry(@, l[t].op.name)]
        /\ suspects' = IF x = l[t].hdr.lost THEN suspects ELSE Stray(l[t].op, x)
  BY DEF Free
<1>6. x \cap Fixed = {}
  BY DEF Behind, SystemSectors, Fixed
<1>7. PICK N : N = [l[t] EXCEPT !.map = M \ (Range(l[t].hdr.data) \cup x \cup {l[t].sector}),
                               !.dir = RemoveEntry(l[t].dir, l[t].op.name)]
  OBVIOUS
<1>8. l' = [l EXCEPT ![t] = N]
  BY ONLY <1>3, <1>5, <1>7 DEF MapMarks
<1>9. Frees(l[t], M, x, N)
  BY <1>2, <1>3, <1>7, MarksAre DEF Frees
<1>10. CASE x = l[t].hdr.lost
  <2>1. suspects' = suspects
    BY <1>5, <1>10
  <2>2. Moves(disk, files, orphans, "free", l[t], disk, files, orphans, "write map first", N)
    BY ONLY <1>2, <1>3, <1>9, <1>10, FreeMoves
  <2> QED BY ONLY Good, <1>1, <1>2, <1>4, <1>8, <2>1, <2>2, StepGood
<1>11. CASE x # l[t].hdr.lost
  <2>1. suspects' = Stray(l[t].op, x)
    BY <1>5, <1>11
  <2>2. Typed(disk, files, orphans, "write map first", N) /\ N.op = l[t].op
    <3>1. Freed(disk, files, orphans, l[t], M, x, N)
      BY ONLY <1>2, <1>9, FreeIs
    <3> QED BY ONLY <3>1 DEF Freed
  <2>3. ASSUME NEW B, B \subseteq Others(files, l[t]), x \cap Guarded(B) = {}
        PROVE  CalmStep(disk, files, "free", l[t], disk, files, "write map first", N, B)
    BY ONLY <1>2, <1>3, <1>9, <2>3, FreeCalm
  <2> QED BY <1>1, <1>2, <1>4, <1>6, <1>8, <2>1, <2>2, <2>3, AccidentGood
<1> QED BY <1>10, <1>11

LEMMA StepKeeps ==
  ASSUME Good, NEW t \in Thread, Step(t)
  PROVE  Good'
<1>1. CASE \/ WalkFails(t) \/ HeaderOverflows(t) \/ OldHeaderFails(t) \/ FreeFails(t)
           \/ Misread(t) \/ LosesSystem(t)
  BY <1>1, SameGood DEF WalkFails, HeaderOverflows, OldHeaderFails, FreeFails, Misread, LosesSystem, Stop
<1>2. CASE Walk(t)
  BY <1>2, WalkGood
<1>3. CASE WalkOpen(t)
  BY <1>3, WalkOpenGood
<1>4. CASE FetchDir(t)
  BY <1>4, FetchDirGood
<1>5. CASE CreateFetchMap(t)
  BY <1>5, FetchMapGood
<1>6. CASE FetchOldHeader(t)
  BY <1>6, OldHeaderGood
<1>7. CASE WriteNewDir(t)
  BY <1>7, NewDirGood
<1>8. CASE WriteHeader(t)
  BY <1>8, WriteHeaderGood
<1>9. CASE WriteDir(t)
  BY <1>9, WriteDirGood
<1>10. CASE WriteMap(t)
  BY <1>10, WriteMapGood
<1>11. CASE FetchHeader(t)
  BY <1>11, FetchHeaderGood
<1>12. CASE FetchRmDir(t)
  BY <1>12, RmDirGood
<1>13. CASE Free(t)
  BY <1>13, FreeGood
<1>14. CASE WriteMapFirst(t)
  BY <1>14, WriteMapFirstGood
<1>15. CASE WriteDirLast(t)
  BY <1>15, WriteDirLastGood
<1> QED BY <1>1, <1>2, <1>3, <1>4, <1>5, <1>6, <1>7, <1>8, <1>9, <1>10, <1>11, <1>12, <1>13, <1>14,
           <1>15 DEF Step

LEMMA HaltGood ==
  ASSUME Good, Halt
  PROVE  Good'
<1>1. /\ disk' = disk /\ files' = files /\ orphans' = orphans /\ Busy # {}
      /\ suspects' = suspects \cup {Target(l[t].op) : t \in Busy}
      /\ pc' = [t \in Thread |-> "idle"] /\ l' = [t \in Thread |-> Idle]
  BY DEF Halt
<1>2. /\ TypesOK /\ l \in [Thread -> Locals] /\ \A t \in Busy : t \in Thread /\ PhaseOK(pc[t], l[t])
  BY DEF Good, TypesOK, Busy
<1>3. Busy' = {}
  BY ONLY <1>1 DEF Busy
<1>4. suspects' # {} /\ suspects \subseteq suspects' /\ \A u \in Busy : Target(l[u].op) \in suspects'
  BY ONLY <1>1
<1>5. suspects' \subseteq Seq(Name) \X Name
  <2>1. \A t \in Busy : Target(l[t].op) \in Seq(Name) \X Name
    <3> TAKE t \in Busy
    <3>1. l[t] \in Locals /\ l[t].op.name \in Name
      BY ONLY <1>2, t \in Busy DEF PhaseOK
    <3>2. l[t].op.path \in Seq(Name)
      BY ONLY <3>1, LocalsAre
    <3> QED BY ONLY <3>1, <3>2 DEF Target
  <2>2. suspects \subseteq Seq(Name) \X Name
    BY ONLY <1>2 DEF TypesOK
  <2> QED BY ONLY <1>1, <2>1, <2>2
<1>6. TypesOK'
  <2>1. /\ disk' \in Disks /\ files' \subseteq Files /\ orphans' \subseteq Sector
        /\ pc' \in [Thread -> Places] /\ l' \in [Thread -> Locals]
    BY ONLY <1>1, <1>2, Shapes DEF TypesOK, Places
  <2> QED BY ONLY <1>3, <1>5, <2>1 DEF TypesOK
<1>7. SuspectsOK'
  BY ONLY <1>3 DEF SuspectsOK
<1>8. CalmDisk(disk, By', files)
  BY <1>1, <1>4, <1>5, <1>7, LessBy
<1>9. Calm'
  BY ONLY <1>1, <1>3, <1>8 DEF Calm
<1> QED BY ONLY <1>4, <1>6, <1>7, <1>9 DEF Good

LEMMA BeginGood ==
  ASSUME Good, NEW t \in Thread, NEW o \in Ops, o.kind \in Kinds, o.name \in Name,
         o.kind = "create dir" => o.size = DirSectors, Begin(t, o)
  PROVE  Good'
<1>1. PICK m : m = IF o.path = <<>> THEN "fetch dir" ELSE "walk"
  OBVIOUS
<1>2. PICK N : N = [Idle EXCEPT !.op = o, !.walk = o.path]
  OBVIOUS
<1>3. /\ disk' = disk /\ files' = files /\ orphans' = orphans /\ pc[t] = "idle"
      /\ pc' = [pc EXCEPT ![t] = m] /\ l' = [l EXCEPT ![t] = N]
      /\ suspects' = IF Busy = {} /\ suspects = {} THEN {}
                     ELSE suspects \cup {Target(o)} \cup {Target(l[u].op) : u \in Busy}
  BY <1>1, <1>2 DEF Begin, Goto
<1>4. /\ TypesOK /\ SuspectsOK /\ l \in [Thread -> Locals] /\ pc \in [Thread -> Places]
      /\ disk \in Disks /\ files \subseteq Files
      /\ \A u \in Busy : u \in Thread /\ PhaseOK(pc[u], l[u])
  BY DEF Good, TypesOK, Busy
<1>5. o.path \in Seq(Name) /\ o \in Ops /\ o.kind \in Kinds /\ o.name \in Name
      /\ (o.kind = "create dir" => o.size = DirSectors) /\ t \in Thread
  BY DEF Ops
<1>6. /\ N \in Locals /\ N.op = o /\ N.walk = o.path /\ N.cwd.data = <<3>>
  BY ONLY <1>2, <1>5, Shapes DEF Locals, Idle, RootFile, RootData
<1>7. N.cwd.data # <<>> /\ N.cwd.data[1] = 3
  BY ONLY <1>6
<1>8. Walked(N) = <<>> /\ Suffix(o.path, o.path)
  BY ONLY <1>5, <1>6, WalkEnds DEF Walked
<1>9. PhaseOK(m, N) /\ m \in Places /\ m \in {"walk", "fetch dir"}
  BY ONLY <1>1, <1>5, <1>6, <1>8 DEF PhaseOK, Places, HasDir, Making, MakingHdr, Fetched
<1>10. /\ pc'[t] = m /\ l'[t] = N
       /\ \A u \in Thread : u # t => pc'[u] = pc[u] /\ l'[u] = l[u]
  BY ONLY <1>3, <1>4, <1>5
<1>11. t \notin Busy /\ \A u : u \in Busy' <=> u \in Busy \/ u = t
  BY ONLY <1>3, <1>5, <1>9, <1>10 DEF Busy
<1>12. \A u \in Busy : u # t /\ pc'[u] = pc[u] /\ l'[u] = l[u]
  BY ONLY <1>4, <1>10, <1>11
<1>13. Target(o) \in Seq(Name) \X Name
  BY ONLY <1>5 DEF Target
<1>14. suspects' \subseteq Seq(Name) \X Name
  <2>1. \A u \in Busy : Target(l[u].op) \in Seq(Name) \X Name
    <3> TAKE u \in Busy
    <3>1. l[u] \in Locals /\ l[u].op.name \in Name
      BY ONLY <1>4, u \in Busy DEF PhaseOK
    <3>2. l[u].op.path \in Seq(Name)
      BY ONLY <3>1, LocalsAre
    <3> QED BY ONLY <3>1, <3>2 DEF Target
  <2>2. suspects \subseteq Seq(Name) \X Name
    BY ONLY <1>4 DEF TypesOK
  <2> QED BY ONLY <1>3, <1>13, <2>1, <2>2
<1>15. TypesOK'
  <2>1. pc' \in [Thread -> Places] /\ l' \in [Thread -> Locals]
    BY ONLY <1>3, <1>4, <1>6, <1>9
  <2>2. \A u \in Busy' : PhaseOK(pc'[u], l'[u])
    BY ONLY <1>4, <1>9, <1>10, <1>11, <1>12
  <2> QED BY ONLY <1>3, <1>4, <1>14, <2>1, <2>2 DEF TypesOK
<1>16. CASE Busy = {} /\ suspects = {}
  <2>1. suspects' = {} /\ \A u \in Busy' : u = t
    BY ONLY <1>3, <1>11, <1>16
  <2>2. PICK M : M = disk[MapData].marked
    OBVIOUS
  <2>3. Tidy(disk, M, files, orphans)
    BY <1>16, <2>2 DEF Good, Clean, MapMarks
  <2>4. CwdClean(disk, M, files, N)
    BY ONLY <1>7, <1>8 DEF CwdClean, DirIn, Leads, RootData
  <2>5. CleanOne(disk, M, files, orphans, m, N)
    BY ONLY <1>9, <2>3, <2>4 DEF CleanOne, CleanLocal, CleanDisk, Making, MakingHdr, Fetched
  <2>6. Clean'
    BY ONLY <1>3, <1>10, <1>11, <2>1, <2>2, <2>5 DEF Clean, MapMarks
  <2>7. SuspectsOK'
    BY ONLY <2>1 DEF SuspectsOK
  <2> QED BY ONLY <1>15, <2>1, <2>6, <2>7 DEF Good
<1>17. CASE ~(Busy = {} /\ suspects = {})
  <2>1. /\ suspects' # {} /\ suspects \subseteq suspects' /\ Target(o) \in suspects'
        /\ \A u \in Busy : Target(l[u].op) \in suspects'
    BY ONLY <1>3, <1>17
  <2>2. SuspectsOK'
    <3>1. \A u \in Busy' : Target(l'[u].op) \in suspects'
      BY ONLY <1>6, <1>10, <1>11, <1>12, <2>1
    <3> QED BY ONLY <2>1, <3>1 DEF SuspectsOK
  <2>3. /\ CalmDisk(disk, By', files) /\ By' \subseteq files
        /\ \A u \in Busy : CalmLocal(disk, By', pc[u], l[u])
    BY <1>3, <1>14, <2>1, <2>2, LessBy
  <2>4. PICK B : B = By'
    OBVIOUS
  <2>5. CalmTree(disk, B, files) /\ B \subseteq files
    BY ONLY <2>3, <2>4 DEF CalmDisk
  <2>6. CwdCalm(B, N)
    <3>1. \A f \in B : f.sector # 3
      <4>1. \A f \in B : f.sector \in AllSectors(f) /\ AllSectors(f) \cap Fixed = {}
        BY ONLY <2>5 DEF CalmTree, ByIntact, AllSectors, SectorsOf
      <4>2. 3 \in Fixed
        BY ONLY TRUE DEF Fixed
      <4> QED BY ONLY <4>1, <4>2
    <3>2. \A p : Leads(B, p, 3) => p = <<>>
      <4>1. \A p : Leads(B, p, 3) => TableIn(B, p, 3)
        BY ONLY <1>4, <2>5, CalmLeads
      <4>2. 3 \in Fixed
        BY ONLY TRUE DEF Fixed
      <4> QED BY ONLY <4>1, <4>2 DEF TableIn
    <3>3. 3 \notin 0..2
      BY ONLY TRUE
    <3> QED BY ONLY <1>7, <1>8, <3>1, <3>2, <3>3 DEF CwdCalm
  <2>7. CalmLocal(disk, B, m, N)
    BY ONLY <1>9, <2>6 DEF CalmLocal, HasDir, Making, MakingHdr, Fetched
  <2>8. \A u \in Busy' : CalmLocal(disk', By', pc'[u], l'[u])
    BY ONLY <1>3, <1>10, <1>11, <1>12, <2>3, <2>4, <2>7
  <2>9. Calm'
    BY ONLY <1>3, <2>3, <2>8 DEF Calm
  <2> QED BY ONLY <1>15, <2>1, <2>2, <2>9 DEF Good
<1> QED BY ONLY <1>16, <1>17

LEMMA CallGood ==
  ASSUME Good, NEW t \in Thread, Call(t)
  PROVE  Good'
<1>1. PICK p \in DirPath, n \in Name :
        \/ \E z \in FileSizes : CreateFile(t, p, n, z)
        \/ CreateDir(t, p, n) \/ RemoveFile(t, p, n) \/ RemoveDir(t, p, n)
  BY DEF Call
<1>2. p \in Seq(Name)
  BY Basics
<1>3. PICK k \in Kinds, z \in Sizes :
        /\ k = "create dir" => z = DirSectors
        /\ Begin(t, [kind |-> k, path |-> p, name |-> n, size |-> z])
  BY <1>1 DEF CreateFile, CreateDir, RemoveFile, RemoveDir, Kinds, Sizes
<1>4. PICK o : o = [kind |-> k, path |-> p, name |-> n, size |-> z]
  OBVIOUS
<1>5. o \in Ops /\ o.kind \in Kinds /\ o.name \in Name /\ (o.kind = "create dir" => o.size = DirSectors)
  BY ONLY <1>2, <1>3, <1>4, n \in Name, k \in Kinds, z \in Sizes DEF Ops
<1>6. Begin(t, o)
  BY ONLY <1>3, <1>4
<1> QED BY ONLY Good, t \in Thread, <1>5, <1>6, BeginGood

LEMMA NextKeeps ==
  ASSUME Good, [FileSystemNext]_fsVars
  PROVE  Good'
<1>1. CASE UNCHANGED fsVars
  <2>1. UNCHANGED <<disk, pc, l, history>>
    BY <1>1 DEF fsVars, history
  <2> QED BY <2>1, SameGood
<1>2. CASE Halt
  BY <1>2, HaltGood
<1>3. ASSUME NEW t \in Thread, Call(t) PROVE Good'
  BY <1>3, CallGood
<1>4. ASSUME NEW t \in Thread, Step(t) PROVE Good'
  BY <1>4, StepKeeps
<1> QED BY <1>1, <1>2, <1>3, <1>4 DEF FileSystemNext

LEMMA InitGood ==
  ASSUME FileSystemInit
  PROVE  Good
<1>1. /\ pc = [t \in Thread |-> "idle"] /\ l = [t \in Thread |-> Idle]
      /\ files = {} /\ orphans = {} /\ suspects = {}
  BY DEF FileSystemInit
<1>2. PICK u : u = SpecialDirs(DirectorySector, DirectorySector)
  OBVIOUS
<1>3. u \in [Index -> Entries] /\ \A i \in Index : u[i].name \in {".", ".."}
  <2>1. PICK a : a = Entry(".", TRUE, 1)
    OBVIOUS
  <2>2. PICK b : b = Entry("..", TRUE, 1)
    OBVIOUS
  <2>3. a \in Entries /\ b \in Entries /\ a.name = "." /\ b.name = ".."
    BY ONLY <2>1, <2>2, Basics DEF Entry, Entries
  <2>4. u = [EmptyTable EXCEPT ![0] = a, ![1] = b]
    BY ONLY <1>2, <2>1, <2>2 DEF SpecialDirs, DirectorySector
  <2>5. EmptyTable \in [Index -> Entries] /\ \A i \in Index : EmptyTable[i].name = "."
    BY ONLY Shapes DEF Unused
  <2> QED BY ONLY <2>3, <2>4, <2>5, Basics
<1>4. /\ disk = [s \in Sector |-> disk[s]]
      /\ disk[0] = Header(<<2>>, {}) /\ disk[1] = Header(<<3>>, {}) /\ disk[2] = FreeMap(0..3)
      /\ disk[3] = Table(u) /\ \A s \in Sector : s \notin 0..3 => disk[s] = Nothing
  <2>1. disk = [s \in Sector |-> CASE s = 0 -> Header(<<2>>, {})
                                   [] s = 1 -> Header(<<3>>, {})
                                   [] s = 2 -> FreeMap(0..3)
                                   [] s = 3 -> Table(u)
                                   [] OTHER -> Nothing]
    BY <1>2 DEF FileSystemInit, FreeMapSector, DirectorySector, MapData, RootData, SystemSectors
  <2>2. Sector \subseteq Nat /\ 0 \in Sector /\ 1 \in Sector /\ 2 \in Sector /\ 3 \in Sector
    BY ONLY Basics
  <2> QED BY ONLY <2>1, <2>2
<1>5. /\ Header(<<2>>, {}) \in Contents /\ Header(<<3>>, {}) \in Contents
      /\ FreeMap(0..3) \in Maps /\ FreeMap(0..3) \in Contents /\ FreeMap(0..3).marked = 0..3
      /\ FreeMap(0..3).kind = "map" /\ Table(u) \in Contents /\ Nothing \in Contents
      /\ Nothing.kind = "nothing" /\ Header(<<2>>, {}).kind = "header"
      /\ Header(<<3>>, {}).kind = "header" /\ Table(u).kind = "table" /\ Table(u).table = u
  <2>1. 2 \in Sector /\ 3 \in Sector /\ 0..3 \subseteq Sector
    BY ONLY Basics DEF Fixed
  <2>2. <<2>> \in Seq(Sector) /\ <<3>> \in Seq(Sector)
    BY ONLY <2>1
  <2> QED BY ONLY <1>3, <2>1, <2>2 DEF Contents, Headers, Tables, Maps, Header, FreeMap, Table, Nothing
<1>6. disk \in Disks /\ disk[MapData].marked = Fixed
  <2>1. \A s \in Sector : disk[s] \in Contents
    <3> TAKE s \in Sector
    <3>1. s \in 0..3 => s = 0 \/ s = 1 \/ s = 2 \/ s = 3
      BY ONLY TRUE
    <3> QED BY ONLY <1>4, <1>5, <3>1, s \in Sector
  <2>2. disk \in [Sector -> Contents]
    BY ONLY <1>4, <2>1
  <2> QED BY ONLY <1>4, <1>5, <2>2 DEF Disks, MapData, Fixed
<1>7. \A s \in Sector, i \in Index : ~Slot(disk, s, i)
  <2>1. \A s \in Sector : disk[s].kind = "table" => disk[s].table = u
    <3> TAKE s \in Sector
    <3>1. s \in 0..3 => s = 0 \/ s = 1 \/ s = 2 \/ s = 3
      BY ONLY TRUE
    <3> QED BY ONLY <1>4, <1>5, <3>1, s \in Sector
  <2> QED BY ONLY <1>3, <2>1, Basics DEF Slot
<1>8. Tidy(disk, Fixed, {}, {})
  <2>1. EntriesApart(disk, Fixed)
    BY ONLY <1>7 DEF EntriesApart
  <2>2. FilesListed(disk, {})
    BY ONLY <1>7 DEF FilesListed
  <2>3. KeysOK({}) /\ AllOf({}) = {}
    BY ONLY TRUE DEF KeysOK, AllOf
  <2> QED BY ONLY <2>1, <2>2, <2>3 DEF Tidy
<1>9. Busy = {}
  BY ONLY <1>1 DEF Busy
<1>10. TypesOK
  <2>1. pc \in [Thread -> Places] /\ l \in [Thread -> Locals]
    BY ONLY <1>1, Shapes DEF Places
  <2> QED BY ONLY <1>1, <1>6, <1>9, <2>1 DEF TypesOK
<1>11. SuspectsOK
  BY ONLY <1>1, <1>9 DEF SuspectsOK
<1>12. Clean
  BY ONLY <1>1, <1>6, <1>8, <1>9 DEF Clean, MapMarks
<1> QED BY ONLY <1>1, <1>10, <1>11, <1>12 DEF Good

LEMMA Invariant == FileSystemSpec => []Good
<1>1. FileSystemInit => Good
  BY InitGood
<1>2. Good /\ [FileSystemNext]_fsVars => Good'
  BY NextKeeps
<1> QED BY <1>1, <1>2, PTL DEF FileSystemSpec

(* The table a path leads to. *)
LEMMA TableIs ==
  ASSUME files \subseteq Files, NEW B, B \subseteq files, KeysOK(files), NEW p, NEW s, Leads(B, p, s)
  PROVE  TableOf(p) = AsTable(disk[s])
<1>1. CASE p = <<>>
  <2>1. \A d \in B : Append(d.path, d.name) # <<>>
    BY FileIs
  <2>2. s = RootData
    BY <1>1, <2>1 DEF Leads
  <2> QED BY <1>1, <2>2 DEF TableOf
<1>2. CASE p # <<>>
  <2>1. PICK d \in B : d.isDir /\ Append(d.path, d.name) = p /\ s = d.hdr.data[1]
    BY <1>2 DEF Leads
  <2>2. PICK e : e = CHOOSE f \in files : f.isDir /\ Append(f.path, f.name) = p
    OBVIOUS
  <2>3. e \in files /\ e.isDir /\ Append(e.path, e.name) = p
    BY <2>1, <2>2
  <2>4. e \in Files /\ d \in Files /\ d \in files
    BY <2>1, <2>3
  <2>5. Append(e.path, e.name) = Append(d.path, d.name)
    BY ONLY <2>1, <2>3
  <2>6. e.path = d.path /\ e.name = d.name
    BY ONLY <2>4, <2>5, SameKey
  <2>7. e = d
    BY <2>3, <2>4, <2>6 DEF KeysOK
  <2> QED BY <1>2, <2>1, <2>2, <2>7 DEF TableOf
<1> QED BY <1>1, <1>2

LEMMA FsIntact ==
  ASSUME Good
  PROVE  BystandersIntact
<1>1. SUFFICES ASSUME NEW f \in {g \in files : Bystander(g)}
               PROVE  /\ Find(TableOf(f.path), f.name) = f.sector
                      /\ disk[f.sector] = f.hdr /\ SectorsOf(f) \subseteq MapMarks
                      /\ \A g \in files \ {f} : SectorsOf(f) \cap SectorsOf(g) = {}
  BY DEF BystandersIntact, Intact
<1>3. files \subseteq Files
  BY DEF Good, TypesOK
<1>4. KeysOK(files) /\ ByIntact(disk, By, files) /\ Guarded(By) \subseteq MapMarks
  BY GoodCalm DEF Calm, CalmDisk, CalmTree, MapMarks
<1>5. f \in By /\ By \subseteq files /\ f \in files
  BY <1>1 DEF By
<1>6. /\ disk[f.sector] = f.hdr /\ \A g \in files \ {f} : AllSectors(f) \cap AllSectors(g) = {}
      /\ \E s \in Sector : /\ Leads(By, f.path, s) /\ disk[s].kind = "table"
                           /\ Find(disk[s].table, f.name) = f.sector
  BY ONLY <1>4, <1>5 DEF ByIntact
<1>7. PICK s \in Sector : /\ Leads(By, f.path, s) /\ disk[s].kind = "table"
                          /\ Find(disk[s].table, f.name) = f.sector
  BY <1>6
<1>8. TableOf(f.path) = disk[s].table
  <2>1. TableOf(f.path) = AsTable(disk[s])
    BY ONLY <1>3, <1>4, <1>5, <1>7, TableIs
  <2> QED BY <1>7, <2>1 DEF AsTable
<1>9. \A g : SectorsOf(g) \subseteq AllSectors(g)
  BY DEF AllSectors
<1>10. AllSectors(f) \subseteq MapMarks
  BY ONLY <1>4, <1>5 DEF Guarded, AllOf
<1> QED BY ONLY <1>6, <1>7, <1>8, <1>9, <1>10

LEMMA FsTight ==
  ASSUME Good
  PROVE  NothingLeaks
<1>1. SUFFICES ASSUME Busy = {}, suspects = {}
               PROVE  MapMarks = 0..3 \cup orphans \cup UNION {AllSectors(f) : f \in files}
  BY DEF NothingLeaks, SystemSectors
<1>2. Tidy(disk, MapMarks, files, orphans)
  BY <1>1 DEF Good, Clean
<1> QED BY ONLY <1>2 DEF Tidy, Fixed, AllOf

(* Whatever operations overlap (CreateFile, CreateDir, RemoveFile,           *)
(* RemoveDir), wherever the machine halts, and whichever sectors CreateDir   *)
(* writes through an old header or RemoveDir frees behind an over-full one,  *)
(* a file that was not itself worked on meanwhile, cut off or hit keeps its  *)
(* entry, its header and its sectors: for any number of threads, sectors,    *)
(* names, sizes and operations.                                              *)
THEOREM BystandersIntactProved == FileSystemSpec => []BystandersIntact
<1>1. Good => BystandersIntact
  BY FsIntact
<1> QED BY <1>1, Invariant, PTL

(* As long as no operations overlapped, none was cut off and nothing was     *)
(* written or freed astray, the free map marks between operations the        *)
(* sectors of the files and nothing else, but for what over-full headers     *)
(* lost and for the files of removed directories.                            *)
THEOREM NothingLeaksProved == FileSystemSpec => []NothingLeaks
<1>1. Good => NothingLeaks
  BY FsTight
<1> QED BY <1>1, Invariant, PTL
=============================================================================
