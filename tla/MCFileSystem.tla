--------------------------- MODULE MCFileSystem ---------------------------
(* Instances of FileSystem for TLC. *)
EXTENDS FileSystem, TLC

CONSTANTS t1, t2

(* The root, and a directory in it. *)
MCDirPath == {<<>>, <<"d">>}

(* The root only. *)
MCRoot == {<<>>}

(* No directory was written where a header could be looked for: the headers  *)
(* CreateDir finds are old ones, not other bytes.                            *)
OldHeadersOnly == \A s \in Sector \ SystemSectors : disk[s].kind # "table"

(* After a halt, one operation at a time. *)
AloneAfterHalt == halts = 0 \/ Cardinality(Busy) <= 1

Symmetry == Permutations(Thread)
=============================================================================
