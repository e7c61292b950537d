----------------------------- MODULE OpenFiles -----------------------------
(***************************************************************************)
(* Open files (filesys/openfiletable.cc, filesys/openfile.cc and the calls *)
(* of filesys/filesys.cc on them).                                         *)
(*                                                                         *)
(* Threads open, read, write and close files through one table.  A thread  *)
(* waits at each disk access, so the others run in between; the lock of    *)
(* the table is held over the accesses of Open, and over nothing else.     *)
(* A file is its bytes, in sectors that are read and written whole.  The   *)
(* data written by the operation number n are the value n.                 *)
(***************************************************************************)
EXTENDS Integers, Sequences, FiniteSets, FiniteSetsExt

CONSTANTS
    Thread,
    File,                \* files in the directory, known by their header's sector
    NoFile,              \* a name the directory does not have
    FileLength,          \* in bytes, of each file
    SectorSize,
    NbFileTableEntries,
    Sizes,               \* numbers of bytes asked for
    Nobody,              \* holds the lock when no thread does
    MaxOps               \* bound on the operations begun

ASSUME OpenFilesAssumption ==
    /\ FileLength \in Nat /\ SectorSize \in Nat \ {0}
    /\ NbFileTableEntries \in Nat \ {0}
    /\ Sizes \subseteq Int /\ MaxOps \in Nat
    /\ Nobody \notin Thread /\ NoFile \notin File

VARIABLES
    data,     \* bytes of each file on the disk
    heap,     \* the OpenFileEntry objects made, with their OpenFile
    table,    \* for each index, an object, None, or what was there before
    nbFiles,
    lock,     \* thread that holds the lock of the table, or Nobody
    pc, l,    \* where each thread is, and its locals
    stopped,  \* a thread went astray: used an object that was deleted, or an
              \* entry that was never set
    ops

ofVars == <<data, heap, table, nbFiles, lock, pc, l, stopped, ops>>

-----------------------------------------------------------------------------
Index      == 0..(NbFileTableEntries - 1)
None       == 0
Wild       == -1    \* an entry of table that the constructor left as it was
Garbage    == -1    \* a byte of a buffer that was not set

SectorOf(b)    == b \div SectorSize
LastByte       == (SectorOf(FileLength - 1) + 1) * SectorSize - 1
BytesOf(s)     == (s * SectorSize)..((s + 1) * SectorSize - 1)
InFile(bytes)  == bytes \cap 0..(FileLength - 1)

NoOp == [kind |-> "none", file |-> NoFile, mode |-> "r", id |-> None, first |-> 0, n |-> 0,
         buf |-> <<>>, fetch |-> <<>>, next |-> 0, last |-> 0, val |-> 0, before |-> <<>>,
         alone |-> TRUE]

OpenFilesInit ==
    /\ data = [f \in File |-> [b \in 0..LastByte |-> 0]]
    /\ heap = <<>>
    /\ table \in [Index -> {None, Wild}]
    /\ nbFiles = 0
    /\ lock = Nobody
    /\ pc = [t \in Thread |-> "idle"]
    /\ l = [t \in Thread |-> NoOp]
    /\ stopped = FALSE
    /\ ops = 0

Goto(t, from, to) == ~stopped /\ pc[t] = from /\ pc' = [pc EXCEPT ![t] = to]

Begin(t)  == ~stopped /\ pc[t] = "idle" /\ ops < MaxOps /\ ops' = ops + 1

(* The operation returns an error, or has nothing to do. *)
Refused == UNCHANGED <<data, heap, table, nbFiles, lock, pc, l, stopped>>

Astray == stopped' = TRUE /\ UNCHANGED <<data, heap, table, nbFiles, lock, pc, l>>

-----------------------------------------------------------------------------
(* OpenFileTable *)

(* Open takes the lock and reads the directory ... *)
Open(t, f, mode) ==
    /\ Begin(t) /\ Goto(t, "idle", "fetchDirectory")
    /\ lock = Nobody /\ lock' = t
    /\ l' = [l EXCEPT ![t] = [NoOp EXCEPT !.kind = "open", !.file = f, !.mode = mode]]
    /\ UNCHANGED <<data, heap, table, nbFiles, stopped>>

(* ... the header, for a new entry ... *)
FetchDirectory(t) ==
    /\ UNCHANGED <<data, heap, table, nbFiles, l, stopped, ops>>
    /\ \/ l[t].file \in File /\ Goto(t, "fetchDirectory", "fetchHeader") /\ UNCHANGED lock
       \/ l[t].file = NoFile /\ Goto(t, "fetchDirectory", "idle") /\ lock' = Nobody

FindFile(f) == {i \in Index : table[i] > None /\ heap[table[i]].file = f}
FreeIndex   == {i \in Index : table[i] = None}
HasWild     == \E i \in Index : table[i] = Wild

(* Mistake: the table is not searched for the file. *)
FetchHeaderNoFind(t) ==
    /\ ~HasWild
    /\ Goto(t, "fetchHeader", "idle")
    /\ heap' = Append(heap, [file |-> l[t].file, mode |-> l[t].mode, seek |-> 0, alive |-> TRUE])
    /\ lock' = Nobody
    /\ \/ nbFiles >= NbFileTableEntries /\ UNCHANGED <<table, nbFiles>>
       \/ /\ nbFiles < NbFileTableEntries
          /\ nbFiles' = nbFiles + 1
          /\ table' = [table EXCEPT ![Min(FreeIndex)] = Len(heap')]
    /\ UNCHANGED <<data, l, stopped, ops>>

(* ... and looks for the file in the table: an entry there is returned as it *)
(* is, with its mode.                                                        *)
FetchHeader(t) ==
    /\ ~HasWild
    /\ Goto(t, "fetchHeader", "idle")
    /\ heap' = Append(heap, [file |-> l[t].file, mode |-> l[t].mode, seek |-> 0, alive |-> TRUE])
    /\ lock' = Nobody
    /\ \/ /\ FindFile(l[t].file) # {} \/ nbFiles >= NbFileTableEntries
          /\ UNCHANGED <<table, nbFiles>>
       \/ /\ FindFile(l[t].file) = {} /\ nbFiles < NbFileTableEntries
          /\ nbFiles' = nbFiles + 1
          /\ table' = [table EXCEPT ![Min(FreeIndex)] = Len(heap')]
    /\ UNCHANGED <<data, l, stopped, ops>>

FetchHeaderAstray(t) ==
    ~stopped /\ pc[t] = "fetchHeader" /\ HasWild /\ Astray /\ UNCHANGED ops

(* Close does not look whether i is an index. *)
Close(t, i) ==
    /\ Begin(t) /\ lock = Nobody
    /\ \/ i \notin Index /\ Astray
       \/ i \in Index /\ table[i] = Wild /\ Astray
       \/ i \in Index /\ table[i] = None /\ Refused
       \/ /\ i \in Index /\ table[i] > None
          /\ nbFiles' = nbFiles - 1
          /\ heap' = [heap EXCEPT ![table[i]].alive = FALSE]
          /\ table' = [table EXCEPT ![i] = None]
          /\ UNCHANGED <<data, lock, pc, l, stopped>>

-----------------------------------------------------------------------------
(* OpenFile::ReadAt and WriteAt, from the position of the open file.  An     *)
(* operation that shares a sector with a write under way is not alone.       *)
SectorsIn(first, n) == SectorOf(first)..SectorOf(first + n - 1)
Overlap(o, p)  == /\ o.file = p.file /\ "write" \in {o.kind, p.kind}
                  /\ SectorsIn(o.first, o.n) \cap SectorsIn(p.first, p.n) # {}
Transferring   == {t \in Thread : pc[t] \in {"read", "fetch", "write", "finish"}}

Start(t, o, where) ==
    LET others == {u \in Transferring : Overlap(o, l[u])} IN
    /\ Goto(t, "idle", where)
    /\ l' = [u \in Thread |->
               CASE u = t -> [o EXCEPT !.alone = (others = {})]
                 [] u \in others -> [l[u] EXCEPT !.alone = FALSE]
                 [] OTHER -> l[u]]
    /\ UNCHANGED <<data, heap, table, nbFiles, lock, stopped>>

(* numBytes, cut off at the end of the file: 0 if there is nothing to do.    *)
Clipped(first, n) ==
    IF n <= 0 \/ first >= FileLength THEN 0 ELSE Min({n, FileLength - first})

(* FileSystem::Read and Write: the entry is looked up under the lock, and    *)
(* used without it.                                                          *)
Usable(i, mode) == i \in Index /\ table[i] > None /\ heap[table[i]].mode = mode

Operation(kind, i, n) ==
    LET e == heap[table[i]]
        m == Clipped(e.seek, n)
    IN  [kind |-> kind, file |-> e.file, mode |-> e.mode, id |-> table[i], first |-> e.seek,
         n |-> m, buf |-> [b \in 0..LastByte |-> Garbage], fetch |-> <<>>,
         next |-> SectorOf(e.seek), last |-> SectorOf(e.seek + m - 1), val |-> 0,
         before |-> data[e.file], alone |-> TRUE]

GetFails(i, mode) ==
    \/ i \notin Index /\ Refused
    \/ i \in Index /\ lock = Nobody /\ table[i] = Wild /\ Astray
    \/ i \in Index /\ lock = Nobody /\ table[i] # Wild /\ ~Usable(i, mode) /\ Refused

Read(t, i, n) ==
    /\ Begin(t)
    /\ \/ GetFails(i, "r")
       \/ /\ lock = Nobody /\ Usable(i, "r")
          /\ LET o == Operation("read", i, n) IN
             \/ o.n = 0 /\ Refused
             \/ o.n > 0 /\ Start(t, o, "read")

(* Mistake: the last sector is not fetched. *)
FirstPartialOnly(o) ==
    IF o.first % SectorSize = 0 THEN <<>> ELSE <<o.next>>

(* The sectors that a write changes in part are fetched first. *)
PartialSectors(o) ==
    LET firstAligned == o.first % SectorSize = 0
        lastAligned  == (o.first + o.n) % SectorSize = 0
    IN  (IF firstAligned THEN <<>> ELSE <<o.next>>)
          \o (IF ~lastAligned /\ (o.next # o.last \/ firstAligned) THEN <<o.last>> ELSE <<>>)

Write(t, i, n) ==
    /\ Begin(t)
    /\ \/ GetFails(i, "w")
       \/ /\ lock = Nobody /\ Usable(i, "w")
          /\ LET o == [Operation("write", i, n) EXCEPT !.val = ops + 1] IN
             \/ o.n = 0 /\ Refused
             \/ o.n > 0 /\ Start(t, [o EXCEPT !.fetch = PartialSectors(o)], "fetch")

(* The disk copies a sector to the buffer, as far as the caller asked for it *)
(* and the file goes.  hdr belongs to the entry, which Close may delete.     *)
Alive(t) == heap[l[t].id].alive

(* Mistake: the loop over the sectors stops before the last. *)
ReadSectorShort(t) ==
    /\ Goto(t, "read", IF l[t].next + 1 >= l[t].last THEN "finish" ELSE "read")
    /\ Alive(t)
    /\ l' = [l EXCEPT ![t].buf = [b \in 0..LastByte |->
                                    IF b \in BytesOf(l[t].next) THEN data[l[t].file][b] ELSE @[b]],
                      ![t].next = @ + 1]
    /\ UNCHANGED <<data, heap, table, nbFiles, lock, stopped, ops>>

ReadSector(t) ==
    /\ Goto(t, "read", IF l[t].next = l[t].last THEN "finish" ELSE "read")
    /\ Alive(t)
    /\ l' = [l EXCEPT ![t].buf = [b \in 0..LastByte |->
                                    IF b \in BytesOf(l[t].next) THEN data[l[t].file][b] ELSE @[b]],
                      ![t].next = @ + 1]
    /\ UNCHANGED <<data, heap, table, nbFiles, lock, stopped, ops>>

FetchSector(t) ==
    /\ l[t].fetch # <<>>
    /\ Goto(t, "fetch", "fetch")
    /\ Alive(t)
    /\ l' = [l EXCEPT ![t].buf = [b \in 0..LastByte |->
                                    IF b \in InFile(BytesOf(Head(l[t].fetch)))
                                    THEN data[l[t].file][b] ELSE @[b]],
                      ![t].fetch = Tail(@)]
    /\ UNCHANGED <<data, heap, table, nbFiles, lock, stopped, ops>>

(* bcopy of the caller's bytes, then the sectors of the buffer, in order. *)
Copied(o) == [b \in 0..LastByte |->
                IF b \in o.first..(o.first + o.n - 1) THEN o.val ELSE o.buf[b]]

WriteSector(t) ==
    LET o == l[t] IN
    /\ o.fetch = <<>>
    /\ \/ Goto(t, "fetch", IF o.next = o.last THEN "finish" ELSE "write")
       \/ Goto(t, "write", IF o.next = o.last THEN "finish" ELSE "write")
    /\ Alive(t)
    /\ data' = [data EXCEPT ![o.file] = [b \in 0..LastByte |->
                  IF b \in BytesOf(o.next) THEN Copied(o)[b] ELSE @[b]]]
    /\ l' = [l EXCEPT ![t].buf = Copied(o), ![t].next = @ + 1]
    /\ UNCHANGED <<heap, table, nbFiles, lock, stopped, ops>>

(* OpenFile::Read and Write: seekPosition += result. *)
Finish(t) ==
    /\ Goto(t, "finish", "idle")
    /\ Alive(t)
    /\ heap' = [heap EXCEPT ![l[t].id].seek = @ + l[t].n]
    /\ l' = [l EXCEPT ![t] = NoOp]
    /\ UNCHANGED <<data, table, nbFiles, lock, stopped, ops>>

(* The entry was closed while the thread used it. *)
Deleted(t) ==
    /\ ~stopped /\ t \in Transferring /\ ~Alive(t)
    /\ Astray /\ UNCHANGED ops

-----------------------------------------------------------------------------
OpenFilesNext ==
    \E t \in Thread :
        \/ \E f \in File \cup {NoFile}, mode \in {"r", "w"} : Open(t, f, mode)
        \/ \E i \in -1..NbFileTableEntries :
              Close(t, i) \/ \E n \in Sizes : Read(t, i, n) \/ Write(t, i, n)
        \/ FetchDirectory(t) \/ FetchHeader(t) \/ FetchHeaderAstray(t)
        \/ ReadSector(t) \/ FetchSector(t) \/ WriteSector(t) \/ Finish(t) \/ Deleted(t)

OpenFilesSpec == OpenFilesInit /\ [][OpenFilesNext]_ofVars

-----------------------------------------------------------------------------
(* Correctness. *)

(* However threads interleave, a file has one entry in the table, so that    *)
(* all who open it share its position, and nbFiles counts the entries: Add   *)
(* finds a free index whenever nbFiles is below the limit.                   *)
OneEntryPerFile ==
    /\ \A f \in File : Cardinality(FindFile(f)) <= 1
    /\ nbFiles = Cardinality({i \in Index : table[i] > None})

Asked(o) == o.first..(o.first + o.n - 1)

(* A read that no write to its sectors overlaps fills the caller's buffer    *)
(* with the bytes of the file from the position on, wherever they start and  *)
(* end within their sectors.                                                 *)
ReadsExact ==
    \A t \in Thread : pc[t] = "finish" /\ l[t].kind = "read" =>
        \A b \in Asked(l[t]) : /\ l[t].buf[b] # Garbage
                               /\ l[t].alone => l[t].buf[b] = l[t].before[b]

(* A write changes the bytes it was asked to and no other byte of the file,  *)
(* unless another write to one of its sectors overlaps it; not even then     *)
(* does a byte of the file become one that nobody wrote.                     *)
WritesExact ==
    /\ \A f \in File : \A b \in InFile(0..LastByte) : data[f][b] # Garbage
    /\ \A t \in Thread : pc[t] = "finish" /\ l[t].kind = "write" /\ l[t].alone =>
          \A s \in SectorsIn(l[t].first, l[t].n) : \A b \in InFile(BytesOf(s)) :
             data[l[t].file][b] = IF b \in Asked(l[t]) THEN l[t].val ELSE l[t].before[b]
=============================================================================
