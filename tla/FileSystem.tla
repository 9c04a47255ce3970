------------------------------- MODULE FileSystem -------------------------------
(***************************************************************************)
(* The file system undup(1) runs on, as src/ uses it through lstat(2),      *)
(* unlink(2), link(2), open(2) and read(2), and the other processes that    *)
(* work on it at the same time: undup is meant for live file systems        *)
(* (undup.c:340-344), takes no lock on the files it looks at, and sees       *)
(* every change they make between two of its own system calls.              *)
(*                                                                         *)
(* A path is a directory entry and an inode a file.  Directories are left   *)
(* out: a path names its whole chain of directories.                        *)
(***************************************************************************)
EXTENDS Naturals, FiniteSets, Sequences

CONSTANTS
  Path,        \* every directory entry
  Tree,        \* those below undup's argument that no -X pattern excludes
  Inode,       \* inode numbers
  NoInode,     \* what a path without a file maps to
  Owner,       \* gid, uid and permission bits, which undup compares together
  Data,        \* file contents: sequences of bytes
  Mtime,       \* modification times, in seconds
  MaxLinks,    \* the file system's limit on names per inode (EMLINK)
  MaxChanges,  \* bound: changes other processes make
  LiveKinds,   \* the kinds of changes they make while undup runs; between two
               \* runs they make every kind
  RacyEdits    \* TRUE: an edit may leave the mtime as it was, as two edits in
               \* one second do, or set it back (utimes)

Kinds == {"edit", "chown", "create", "remove", "rename"}

ASSUME FileSystemAssumption ==
  /\ IsFiniteSet(Path) /\ Tree \subseteq Path
  /\ NoInode \notin Inode
  /\ \A d \in Data : Len(d) \in Nat
  /\ Mtime \subseteq Nat
  /\ MaxLinks \in Nat \ {0}
  /\ MaxChanges \in Nat
  /\ LiveKinds \subseteq Kinds
  /\ RacyEdits \in BOOLEAN

VARIABLES
  dir,      \* the inode each path names
  node,     \* what each inode holds; one without a name keeps its last value
  dir0,     \* history: dir when undup scanned the tree
  node0,    \* history: node then
  touched,  \* history: inodes others have changed, named or unnamed since
  moved,    \* history: paths others have changed since
  changes   \* how many changes others have made

fsVars == <<dir, node, dir0, node0, touched, moved, changes>>
history == <<dir0, node0>>

File == [owner : Owner, data : Data, mtime : Mtime]

FileSystemTypeOK ==
  /\ dir \in [Path -> Inode \cup {NoInode}]
  /\ node \in [Inode -> File]
  /\ dir0 \in [Path -> Inode \cup {NoInode}]
  /\ node0 \in [Inode -> File]
  /\ touched \subseteq Inode
  /\ moved \subseteq Path
  /\ changes \in Nat

Exists(p) == dir[p] # NoInode
Names(i) == {p \in Path : dir[p] = i}
Files == {i \in Inode : Names(i) # {}}

(* Two files undup may merge: same contents, owner and permissions. *)
SameFile(f, g) == f.owner = g.owner /\ f.data = g.data

FileSystemInit ==
  /\ dir \in [Path -> Inode \cup {NoInode}]
  /\ \A i \in Inode : Cardinality(Names(i)) <= MaxLinks
  /\ node \in [Inode -> File]
  /\ dir0 = dir
  /\ node0 = node
  /\ touched = {}
  /\ moved = {}
  /\ changes = 0

--------------------------------------------------------------------------------
(* The calls undup makes that change the file system.  Each CanX is the       *)
(* condition under which the call returns 0.                                  *)

CanUnlink(p) == Exists(p)
UnlinkPath(p) == dir' = [dir EXCEPT ![p] = NoInode]

CanLink(old, new) ==
  /\ Exists(old)
  /\ ~Exists(new)
  /\ Cardinality(Names(dir[old])) < MaxLinks
LinkPath(old, new) == dir' = [dir EXCEPT ![new] = dir[old]]

--------------------------------------------------------------------------------
(* What other processes do.                                                   *)

Advances(i, m) == RacyEdits \/ m > node[i].mtime

(* One change by others to the inodes `is' and the paths `ps'. *)
Change(is, ps) ==
  /\ changes < MaxChanges
  /\ changes' = changes + 1
  /\ touched' = touched \cup (is \ {NoInode})
  /\ moved' = moved \cup ps
  /\ UNCHANGED history

Edit(i) ==
  /\ i \in Files
  /\ \E d \in Data \ {node[i].data}, m \in Mtime :
       /\ Advances(i, m)
       /\ node' = [node EXCEPT ![i].data = d, ![i].mtime = m]
  /\ Change({i}, {})
  /\ UNCHANGED dir

Chown(i) ==
  /\ i \in Files
  /\ \E o \in Owner \ {node[i].owner} : node' = [node EXCEPT ![i].owner = o]
  /\ Change({i}, {})
  /\ UNCHANGED dir

(* A file is created, or written aside and renamed over an old one.  The      *)
(* inode number may be one that undup has met under another name.             *)
Create(p, i) ==
  /\ i \notin Files
  /\ dir' = [dir EXCEPT ![p] = i]
  /\ \E f \in File : Advances(i, f.mtime) /\ node' = [node EXCEPT ![i] = f]
  /\ Change({dir[p], i}, {p})

Remove(p) ==
  /\ Exists(p)
  /\ dir' = [dir EXCEPT ![p] = NoInode]
  /\ Change({dir[p]}, {p})
  /\ UNCHANGED node

(* rename(2) of p to q does nothing when both name one file. *)
Rename(p, q) ==
  /\ Exists(p)
  /\ dir[p] # dir[q]
  /\ dir' = [dir EXCEPT ![p] = NoInode, ![q] = dir[p]]
  /\ Change({dir[p], dir[q]}, {p, q})
  /\ UNCHANGED node

LiveChange(kinds) ==
  \/ "edit" \in kinds /\ \E i \in Inode : Edit(i)
  \/ "chown" \in kinds /\ \E i \in Inode : Chown(i)
  \/ "remove" \in kinds /\ \E p \in Path : Remove(p)
  \/ "create" \in kinds /\ \E p \in Path, i \in Inode : Create(p, i)
  \/ "rename" \in kinds /\ \E p \in Path, q \in Path : Rename(p, q)
================================================================================
