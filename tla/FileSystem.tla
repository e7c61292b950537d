---------------------------- MODULE FileSystem ----------------------------
(***************************************************************************)
(* Files and directories on the disk (filesys/filesys.cc, directory.cc,    *)
(* filehdr.cc, userprog/bitmap.cc).                                        *)
(*                                                                         *)
(* Every disk access waits for the disk, so another thread can run before  *)
(* each of them, and the machine can halt: an operation is cut there.  A   *)
(* sector holds a header, a directory table, the free map, or nothing yet; *)
(* the table of a directory and the free map fit a sector, and nothing is  *)
(* written into files.  What happens after a sector was walked into as     *)
(* what was never written there, or after the map or the root was lost, is *)
(* not followed: the machine stops there.                                  *)
(***************************************************************************)
EXTENDS Integers, Sequences, FiniteSets, SequencesExt, FiniteSetsExt

CONSTANTS
    Thread,
    NumSectors,
    NumDirect,      \* sectors a header has room for
    NumDirEntries,  \* entries of a directory table
    DirSectors,     \* sectors CreateDir allocates for a directory
    FileSizes,      \* sizes of files, in sectors
    Name,           \* of files and directories, "." and ".." left out
    DirPath,        \* paths in front of a name, as sequences of names
    MaxOps, MaxHalts

ASSUME FileSystemAssumption ==
    /\ NumSectors \in Nat /\ NumSectors > 4
    /\ NumDirect \in Nat \ {0} /\ NumDirEntries \in Nat /\ NumDirEntries > 2
    /\ DirSectors \in Nat \ {0} /\ FileSizes \subseteq Nat
    /\ "." \notin Name /\ ".." \notin Name /\ DirPath \subseteq Seq(Name)
    /\ MaxOps \in Nat /\ MaxHalts \in Nat

VARIABLES
    disk,      \* contents of each sector
    pc,        \* where each thread is
    l,         \* its locals
    files,     \* history: what was created and not removed since
    orphans,   \* history: sectors of files no directory leads to any more
    suspects,  \* history: names that an overlap, a halt or a stray write may
               \* have damaged
    stopped,   \* "no", or why the machine stopped
    ops, halts \* operations begun and halts, for the bounds

history == <<files, orphans, suspects>>
fsVars  == <<disk, pc, l, history, stopped, ops, halts>>

-----------------------------------------------------------------------------
Sector == 0..(NumSectors - 1)
Index  == 0..(NumDirEntries - 1)

FreeMapSector   == 0
DirectorySector == 1

(* Contents of a sector.  data are the dataSectors that fit the header, lost *)
(* the ones that Allocate wrote behind it, in memory only.                   *)
Nothing         == [kind |-> "nothing"]
Header(d, x)    == [kind |-> "header", data |-> d, lost |-> x]
Table(t)        == [kind |-> "table", table |-> t]
FreeMap(m)      == [kind |-> "map", marked |-> m]

Unused          == [inUse |-> FALSE, name |-> ".", isDirectory |-> FALSE, sector |-> 0]
EmptyTable      == [i \in Index |-> Unused]
Entry(n, d, s)  == [inUse |-> TRUE, name |-> n, isDirectory |-> d, sector |-> s]

(* Sectors of a new disk read as zeros: a header without sectors, a table    *)
(* without entries.                                                          *)
IsHeader(c) == c.kind \in {"header", "nothing"}
IsTable(c)  == c.kind \in {"table", "nothing"}
AsHeader(c) == IF c.kind = "header" THEN c ELSE Header(<<>>, {})
AsTable(c)  == IF c.kind = "table" THEN c.table ELSE EmptyTable

MapData  == 2
RootData == 3
SystemSectors == 0..3    \* the map, the root and their headers
RootFile == [sector |-> DirectorySector, data |-> <<RootData>>]
MapMarks == disk[MapData].marked

(* Directory *)
FindIndex(t, n) == {i \in Index : t[i].inUse /\ t[i].name = n}
Find(t, n)      == IF FindIndex(t, n) = {} THEN -1 ELSE t[Min(FindIndex(t, n))].sector
Room(t)         == {i \in Index : ~t[i].inUse}
Add(t, n, d, s) == [t EXCEPT ![Min(Room(t))] = Entry(n, d, s)]
RemoveEntry(t, n) == [t EXCEPT ![Min(FindIndex(t, n))].inUse = FALSE]
SpecialDirs(s, parent) == [EmptyTable EXCEPT ![0] = Entry(".", TRUE, s),
                                             ![1] = Entry("..", TRUE, parent)]
(* "." and ".." are taken to be the first two entries. *)
IsEmpty(t)      == \A i \in Index \ {0, 1} : ~t[i].inUse

(* BitMap *)
Clear(m)        == Sector \ m
FindClear(m)    == Min(Clear(m))

(* The map after each call of Find that marks a sector, up to n calls. *)
Marks(m, n) ==
    LET marks[k \in 0..n] == IF k = 0 THEN m ELSE marks[k - 1] \cup {FindClear(marks[k - 1])}
    IN  marks

(* Mistake: the sectors chosen are not marked. *)
AllocateNoMark(m, n) ==
    LET taken == [k \in 1..n |-> FindClear(Marks(m, n)[k - 1])]
        kept  == SubSeq(taken, 1, IF n < NumDirect THEN n ELSE NumDirect)
    IN  [map |-> m, hdr |-> Header(kept, Range(taken) \ Range(kept))]

(* FileHeader::Allocate, once NumClear has said there are n sectors. *)
Allocate(m, n) ==
    LET taken == [k \in 1..n |-> FindClear(Marks(m, n)[k - 1])]
        kept  == SubSeq(taken, 1, IF n < NumDirect THEN n ELSE NumDirect)
    IN  [map |-> Marks(m, n)[n], hdr |-> Header(kept, Range(taken) \ Range(kept))]

(* Directory::FetchFrom and WriteBack through an open file: a file without   *)
(* sectors reads as it was in memory, and nothing is written to it.          *)
Readable(f)  == f.data # <<>> => IsTable(disk[f.data[1]])
FetchFrom(f) == IF f.data = <<>> THEN EmptyTable ELSE AsTable(disk[f.data[1]])
WriteBack(f, t) ==
    IF f.data = <<>> THEN disk ELSE [disk EXCEPT ![f.data[1]] = Table(t)]

-----------------------------------------------------------------------------
NoOp == [kind |-> "none", path |-> <<>>, name |-> ".", size |-> 0]

(* currentDirectory, the path still to walk, and what has been read or made: *)
(* the directory, the free map, a header, the header's sector.               *)
Idle == [op |-> NoOp, cwd |-> RootFile, walk |-> <<>>, dir |-> EmptyTable, map |-> {},
         hdr |-> Header(<<>>, {}), old |-> Header(<<>>, {}), sector |-> 0]

(* FileSystem(format = TRUE) *)
FileSystemInit ==
    /\ disk = [s \in Sector |->
                 CASE s = FreeMapSector   -> Header(<<MapData>>, {})
                   [] s = DirectorySector -> Header(<<RootData>>, {})
                   [] s = MapData  -> FreeMap(SystemSectors)
                   [] s = RootData -> Table(SpecialDirs(DirectorySector, DirectorySector))
                   [] OTHER -> Nothing]
    /\ pc = [t \in Thread |-> "idle"]
    /\ l = [t \in Thread |-> Idle]
    /\ files = {} /\ orphans = {} /\ suspects = {}
    /\ stopped = "no"
    /\ ops = 0 /\ halts = 0

Running == stopped = "no"
Goto(t, from, to) == Running /\ pc[t] = from /\ pc' = [pc EXCEPT ![t] = to]

(* The operation ends; currentDirectory is what it was. *)
Return(t, from) == Goto(t, from, "idle") /\ l' = [l EXCEPT ![t] = Idle]

(* An assertion fails, or the behaviour is not followed any further. *)
Stop(t, from, why) ==
    /\ Running /\ pc[t] = from
    /\ stopped' = why
    /\ UNCHANGED <<disk, pc, l, history, ops, halts>>

Target(o) == <<o.path, o.name>>
Busy      == {t \in Thread : pc[t] # "idle"}

SectorsOf(f)  == {f.sector} \cup Range(f.hdr.data)
AllSectors(f) == SectorsOf(f) \cup f.hdr.lost

(* Sectors of files that are no business of operation o were written or      *)
(* freed: these files, and what o makes, are suspect from now on.            *)
Stray(o, sectors) ==
    suspects \cup {Target(o)} \cup
        {<<f.path, f.name>> : f \in {g \in files : AllSectors(g) \cap sectors # {}}}

(* Operations that overlap share the free map without a lock.  What they     *)
(* work on is suspect, and so is all that is worked on afterwards.           *)
Begin(t, o) ==
    /\ ops < MaxOps /\ ops' = ops + 1
    /\ Goto(t, "idle", IF o.path = <<>> THEN "fetch dir" ELSE "walk")
    /\ l' = [l EXCEPT ![t] = [Idle EXCEPT !.op = o, !.walk = o.path]]
    /\ suspects' = IF Busy = {} /\ suspects = {} THEN {}
                   ELSE suspects \cup {Target(o)} \cup {Target(l[u].op) : u \in Busy}
    /\ UNCHANGED <<disk, files, orphans, stopped, halts>>

CreateFile(t, path, name, size) ==
    Begin(t, [kind |-> "create file", path |-> path, name |-> name, size |-> size])
CreateDir(t, path, name) ==
    Begin(t, [kind |-> "create dir", path |-> path, name |-> name, size |-> DirSectors])
RemoveFile(t, path, name) ==
    Begin(t, [kind |-> "remove file", path |-> path, name |-> name, size |-> 0])
RemoveDir(t, path, name) ==
    Begin(t, [kind |-> "remove dir", path |-> path, name |-> name, size |-> 0])

-----------------------------------------------------------------------------
(* ChangeCurrentDir and SetCurrentDir: for each name, the table of the       *)
(* current directory is read, then the header of the next.  A name that is   *)
(* not found is reported, and sector -1 read all the same.                   *)
Walk(t) ==
    LET s == Find(FetchFrom(l[t].cwd), Head(l[t].walk)) IN
    /\ Goto(t, "walk", "walk open")
    /\ Readable(l[t].cwd) /\ s # -1
    /\ l' = [l EXCEPT ![t].sector = s, ![t].walk = Tail(@)]
    /\ UNCHANGED <<disk, history, stopped, ops, halts>>

WalkOpen(t) ==
    /\ Goto(t, "walk open", IF l[t].walk = <<>> THEN "fetch dir" ELSE "walk")
    /\ IsHeader(disk[l[t].sector])
    /\ l' = [l EXCEPT ![t].cwd = [sector |-> l[t].sector, data |-> AsHeader(disk[l[t].sector]).data]]
    /\ UNCHANGED <<disk, history, stopped, ops, halts>>

WalkFails(t) ==
    /\ pc[t] = "walk" /\ Readable(l[t].cwd)
    /\ Find(FetchFrom(l[t].cwd), Head(l[t].walk)) = -1
    /\ Stop(t, "walk", "assert")

(* directory->FetchFrom(currentDirectory); Find decides. *)
FetchDir(t) ==
    LET dir   == FetchFrom(l[t].cwd)
        found == Find(dir, l[t].op.name)
        creates == l[t].op.kind \in {"create file", "create dir"}
    IN  /\ pc[t] = "fetch dir" /\ Readable(l[t].cwd)
        /\ UNCHANGED <<disk, history, stopped, ops, halts>>
        /\ \/ creates = (found # -1) /\ Return(t, "fetch dir")
           \/ /\ creates = (found = -1)
              /\ Goto(t, "fetch dir", IF creates THEN "fetch map" ELSE "fetch hdr")
              /\ l' = [l EXCEPT ![t].dir = dir, ![t].sector = found]

-----------------------------------------------------------------------------
(* Creation.  The free map is read, and the rest is done in memory: a sector *)
(* for the header, a directory entry, the data sectors.                      *)
CreateFetchMap(t) ==
    LET o == l[t].op
        m == MapMarks \cup {FindClear(MapMarks)}
        a == Allocate(m, o.size)
    IN  /\ pc[t] = "fetch map"
        /\ UNCHANGED <<disk, history, stopped, ops, halts>>
        /\ \/ /\ \/ Clear(MapMarks) = {}
                 \/ Room(l[t].dir) = {}
                 \/ Cardinality(Clear(MapMarks)) - 1 < o.size
              /\ Return(t, "fetch map")
           \/ /\ Clear(MapMarks) # {} /\ Room(l[t].dir) # {}
              /\ Cardinality(Clear(m)) >= o.size
              /\ Goto(t, "fetch map", IF o.kind = "create dir" THEN "fetch old" ELSE "write hdr")
              /\ l' = [l EXCEPT ![t].sector = FindClear(MapMarks),
                                ![t].dir = Add(@, o.name, o.kind = "create dir", FindClear(MapMarks)),
                                ![t].map = a.map, ![t].hdr = a.hdr]

(* Allocate filled more entries than a header has: the heap may be broken.   *)
HeaderOverflows(t) ==
    /\ pc[t] \in {"fetch old", "write hdr"} /\ l[t].hdr.lost # {}
    /\ Stop(t, pc[t], "heap")

(* CreateDir: new OpenFile(sector) reads a header before there is one: an    *)
(* old one, zeros, or whatever else the sector holds.  Behind a header that  *)
(* is too full there may be any sectors.                                     *)
OldHeaders(c) ==
    IF IsHeader(c)
    THEN {Header(AsHeader(c).data, x) :
            x \in {y \in SUBSET Sector : Cardinality(y) <= Cardinality(AsHeader(c).lost)}}
    ELSE {Header(d, {}) : d \in UNION {[1..n -> Sector] : n \in 0..DirSectors}}

FetchOldHeader(t) ==
    /\ Goto(t, "fetch old", "write new dir")
    /\ \E h \in OldHeaders(disk[l[t].sector]) : l' = [l EXCEPT ![t].old = h]
    /\ UNCHANGED <<disk, history, stopped, ops, halts>>

(* What is taken for a header names sectors the disk does not have. *)
OldHeaderFails(t) ==
    /\ pc[t] = "fetch old"
    /\ LET c == disk[l[t].sector] IN ~IsHeader(c) \/ AsHeader(c).lost # {}
    /\ Stop(t, "fetch old", "assert")

(* newDir goes where that header says, if anywhere: into sectors that may be *)
(* those of a file by now.  The new directory begins with what is in its own *)
(* sectors: if these are entries, they are no business of it either.         *)
WrittenTo(old) == {old.data[i] : i \in DOMAIN old.data \cap 1..DirSectors} \cup old.lost

HasEntries(c) == ~IsTable(c) \/ \E i \in Index : AsTable(c)[i].inUse /\ AsTable(c)[i].name \in Name

WriteNewDir(t) ==
    LET old == l[t].old
        new == SpecialDirs(l[t].sector, Find(l[t].dir, "."))
        W   == WrittenTo(old)
    IN  /\ Goto(t, "write new dir", "write hdr")
        /\ W \cap SystemSectors = {}
        /\ disk' = [s \in Sector |->
                      IF s \notin W THEN disk[s]
                      ELSE Table(IF old.data # <<>> /\ s = old.data[1] /\ s \notin Range(Tail(old.data))
                                 THEN new ELSE EmptyTable)]
        /\ suspects' = IF W \cap MapMarks # {} \/ HasEntries(disk'[l[t].hdr.data[1]])
                       THEN Stray(l[t].op, W) ELSE suspects
        /\ UNCHANGED <<l, files, orphans, stopped, ops, halts>>

WriteHeader(t) ==
    /\ Goto(t, "write hdr", "write dir")
    /\ disk' = [disk EXCEPT ![l[t].sector] = l[t].hdr]
    /\ UNCHANGED <<l, history, stopped, ops, halts>>

WriteDir(t) ==
    /\ Goto(t, "write dir", "write map")
    /\ disk' = WriteBack(l[t].cwd, l[t].dir)
    /\ UNCHANGED <<l, history, stopped, ops, halts>>

(* Whether a path leads to a directory, not to a file used as one. *)
IsDir(p) == p = <<>> \/ \E f \in files : f.isDir /\ Append(f.path, f.name) = p

(* What is created where a file is used as a directory is not counted on. *)
RecordNew(o, s, h) ==
    LET f == [path |-> o.path, name |-> o.name, isDir |-> o.kind = "create dir",
              sector |-> s, hdr |-> h]
    IN  IF IsDir(o.path)
        THEN /\ files' = {g \in files : <<g.path, g.name>> # Target(o)} \cup {f}
             /\ UNCHANGED orphans
        ELSE orphans' = orphans \cup AllSectors(f) /\ UNCHANGED files

WriteMap(t) ==
    LET o == l[t].op IN
    /\ Return(t, "write map")
    /\ disk' = [disk EXCEPT ![MapData] = FreeMap(l[t].map)]
    /\ RecordNew(o, l[t].sector, l[t].hdr)
    /\ UNCHANGED <<suspects, stopped, ops, halts>>

-----------------------------------------------------------------------------
(* Removal. *)

FetchHeader(t) ==
    /\ Goto(t, "fetch hdr", IF l[t].op.kind = "remove dir" THEN "fetch rm dir" ELSE "free")
    /\ IsHeader(disk[l[t].sector])
    /\ l' = [l EXCEPT ![t].hdr = AsHeader(disk[l[t].sector])]
    /\ UNCHANGED <<disk, history, stopped, ops, halts>>

(* RemoveDir reads the table of the directory and refuses if it has entries. *)
FetchRmDir(t) ==
    LET f == [sector |-> l[t].sector, data |-> l[t].hdr.data] IN
    /\ pc[t] = "fetch rm dir" /\ Readable(f)
    /\ UNCHANGED <<disk, history, stopped, ops, halts>>
    /\ \/ ~IsEmpty(FetchFrom(f)) /\ Return(t, "fetch rm dir")
       \/ IsEmpty(FetchFrom(f)) /\ Goto(t, "fetch rm dir", "free") /\ UNCHANGED l

(* What Deallocate reads behind a header that is too full: what Allocate     *)
(* left there, or any other sectors that are marked.                         *)
Behind(h) == {x \in SUBSET (MapMarks \ SystemSectors) : Cardinality(x) = Cardinality(h.lost)}

(* Mistake: the sector of the header is not cleared. *)
FreeKeepsHeader(t) ==
    LET h == l[t].hdr IN
    /\ Goto(t, "free", "write map first")
    /\ Range(h.data) \subseteq MapMarks
    /\ \E x \in Behind(h) :
          /\ l' = [l EXCEPT ![t].map = MapMarks \ (Range(h.data) \cup x),
                            ![t].dir = RemoveEntry(@, l[t].op.name)]
          /\ suspects' = IF x = h.lost THEN suspects ELSE Stray(l[t].op, x)
    /\ UNCHANGED <<disk, files, orphans, stopped, ops, halts>>

(* Deallocate and Clear, on the free map just read. *)
Free(t) ==
    LET h == l[t].hdr IN
    /\ Goto(t, "free", "write map first")
    /\ Range(h.data) \subseteq MapMarks
    /\ \E x \in Behind(h) :
          /\ l' = [l EXCEPT ![t].map = MapMarks \ (Range(h.data) \cup x \cup {l[t].sector}),
                            ![t].dir = RemoveEntry(@, l[t].op.name)]
          /\ suspects' = IF x = h.lost THEN suspects ELSE Stray(l[t].op, x)
    /\ UNCHANGED <<disk, files, orphans, stopped, ops, halts>>

FreeFails(t) ==
    /\ pc[t] = "free"
    /\ ~(Range(l[t].hdr.data) \subseteq MapMarks) \/ l[t].hdr.lost # {}
    /\ Stop(t, "free", "assert")

WriteMapFirst(t) ==
    /\ Goto(t, "write map first", "write dir last")
    /\ disk' = [disk EXCEPT ![MapData] = FreeMap(l[t].map)]
    /\ UNCHANGED <<l, history, stopped, ops, halts>>

(* The files of a directory go with it. *)
WriteDirLast(t) ==
    LET o == l[t].op
        inside == {f \in files : IsPrefix(Append(o.path, o.name), f.path)}
    IN  /\ Return(t, "write dir last")
        /\ disk' = WriteBack(l[t].cwd, l[t].dir)
        /\ files' = {f \in files \ inside : <<f.path, f.name>> # Target(o)}
        /\ orphans' = (orphans \cup UNION {AllSectors(f) : f \in inside})
                         \ AllSectors([sector |-> l[t].sector, hdr |-> l[t].hdr])
        /\ UNCHANGED <<suspects, stopped, ops, halts>>

-----------------------------------------------------------------------------
(* A sector is read as what was never written there. *)
Misread(t) ==
    /\ \/ pc[t] \in {"walk", "fetch dir"} /\ ~Readable(l[t].cwd)
       \/ pc[t] \in {"walk open", "fetch hdr"} /\ ~IsHeader(disk[l[t].sector])
       \/ pc[t] = "fetch rm dir" /\ ~Readable(l[t].hdr)
    /\ Stop(t, pc[t], "misread")

(* The map or the root is overwritten or given away. *)
LosesSystem(t) ==
    /\ \/ pc[t] = "write new dir" /\ WrittenTo(l[t].old) \cap SystemSectors # {}
       \/ pc[t] = "free" /\ l[t].hdr.lost # {}
    /\ Stop(t, pc[t], "system")

-----------------------------------------------------------------------------
(* The machine halts and is started again on the same disk. *)
Halt ==
    /\ Running /\ Busy # {} /\ halts < MaxHalts /\ halts' = halts + 1
    /\ suspects' = suspects \cup {Target(l[t].op) : t \in Busy}
    /\ pc' = [t \in Thread |-> "idle"]
    /\ l' = [t \in Thread |-> Idle]
    /\ UNCHANGED <<disk, files, orphans, stopped, ops>>

Call(t) ==
    \E p \in DirPath, n \in Name :
        \/ \E z \in FileSizes : CreateFile(t, p, n, z)
        \/ CreateDir(t, p, n) \/ RemoveFile(t, p, n) \/ RemoveDir(t, p, n)

Step(t) ==
    \/ Walk(t) \/ WalkOpen(t) \/ WalkFails(t) \/ FetchDir(t)
    \/ CreateFetchMap(t) \/ HeaderOverflows(t)
    \/ FetchOldHeader(t) \/ OldHeaderFails(t) \/ WriteNewDir(t) \/ WriteHeader(t) \/ WriteDir(t) \/ WriteMap(t)
    \/ FetchHeader(t) \/ FetchRmDir(t)
    \/ Free(t) \/ FreeFails(t) \/ WriteMapFirst(t) \/ WriteDirLast(t)
    \/ Misread(t) \/ LosesSystem(t)

FileSystemNext == Halt \/ \E t \in Thread : Call(t) \/ Step(t)

FileSystemSpec == FileSystemInit /\ [][FileSystemNext]_fsVars

-----------------------------------------------------------------------------
(* Correctness. *)

(* The operation of some thread is to make or remove the file, or a          *)
(* directory it is in.                                                       *)
AtWork(f) ==
    \E t \in Busy : \/ Target(l[t].op) = <<f.path, f.name>>
                    \/ IsPrefix(Append(l[t].op.path, l[t].op.name), f.path)

(* Files nothing has gone wrong for: neither they nor their directory were   *)
(* worked on while another operation was under way, were cut off by a halt,  *)
(* were hit by a stray write or a stray free, or came after such an accident *)
(* and were worked on; nor are they at work just now.                        *)
Bystander(f) ==
    /\ \A p \in suspects : p # <<f.path, f.name>> /\ ~IsPrefix(Append(p[1], p[2]), f.path)
    /\ ~AtWork(f)

TableOf(p) ==
    IF p = <<>> THEN AsTable(disk[RootData])
    ELSE LET d == CHOOSE f \in files : f.isDir /\ Append(f.path, f.name) = p
         IN  AsTable(disk[d.hdr.data[1]])

(* The directory entry and the header of a file are on the disk, its sectors *)
(* are marked in the free map on the disk, and no other file has any of them. *)
Intact(f) ==
    /\ Find(TableOf(f.path), f.name) = f.sector
    /\ disk[f.sector] = f.hdr
    /\ SectorsOf(f) \subseteq MapMarks
    /\ \A g \in files \ {f} : SectorsOf(f) \cap SectorsOf(g) = {}

(* Whatever other operations overlap, wherever the machine halts, and        *)
(* whatever CreateDir writes through an old header or RemoveDir frees behind *)
(* one that is too full, a file that was not itself worked on at the same    *)
(* time, cut off or hit stays intact: such accidents never spread to other   *)
(* files through stale tables, maps and headers.                             *)
BystandersIntact == \A f \in {g \in files : Bystander(g)} : Intact(f)

(* Sectors do not leak: as long as there was no such accident, the sectors   *)
(* marked between operations are those of the files, the root and the map,   *)
(* those an over-full header lost, and those of files whose directory was    *)
(* removed under them.                                                       *)
NothingLeaks ==
    Busy = {} /\ suspects = {} =>
        MapMarks = SystemSectors \cup orphans \cup UNION {AllSectors(f) : f \in files}

(* filesys.cc names two things that may corrupt the disk: concurrent         *)
(* accesses, and an exit in the middle of an operation.  Without them, every *)
(* file that is not at work is intact.  The code does not keep it: CreateDir *)
(* writes through the header that the sector of the new one still holds.     *)
SequentialIntact == \A f \in files : AtWork(f) \/ Intact(f)

(* A directory that CreateDir made holds ".".  The code does not keep it: it *)
(* writes the table through a header that is not written yet.                *)
NewDirHasDots ==
    \A f \in files : f.isDir /\ Bystander(f) => Find(TableOf(Append(f.path, f.name)), ".") = f.sector
=============================================================================
