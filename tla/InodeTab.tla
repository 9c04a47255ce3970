-------------------------------- MODULE InodeTab --------------------------------
(***************************************************************************)
(* inodetab.c: the paths of each scanned inode.  An entry has room for as many    *)
(* paths as the inode had names when it was met first, and a terminating NULL.     *)
(***************************************************************************)
EXTENDS Naturals, Sequences

VARIABLE itab   \* fs_dat.itab: the entry of each inode

NoNode == [paths |-> << >>, slots |-> 0, mtime |-> 0]
NewNode(nlnks, mtime) == [paths |-> << >>, slots |-> nlnks, mtime |-> mtime]

(* inodetab_get finds the inode. *)
Recorded(i) == itab[i].slots # 0

PathsOf(i) == {itab[i].paths[j] : j \in 1..Len(itab[i].paths)}

(* Mutant of NodeFor: an entry has one slot. *)
NodeForOne(i, nlnks, mtime) == IF Recorded(i) THEN itab[i] ELSE NewNode(1, mtime)

NodeFor(i, nlnks, mtime) == IF Recorded(i) THEN itab[i] ELSE NewNode(nlnks, mtime)

(* inodetab_add ends the program when the slots are exceeded. *)
HasSlot(i, nlnks) ==
  LET s == NodeFor(i, nlnks, 0) IN Len(s.paths) < s.slots

InodetabAdd(i, p, nlnks, mtime) ==
  itab' = [itab EXCEPT ![i] = [NodeFor(i, nlnks, mtime) EXCEPT !.paths = Append(@, p)]]
================================================================================
