-------------------------------- MODULE DoDedup --------------------------------
(***************************************************************************)
(* do_dedup (undup.c:98-143): given a cluster of inodes, hard-link every    *)
(* path of each of them to the oldest.  It is the only code of undup that   *)
(* changes the tree, one unlink(2) and one link(2) per path, and it can be   *)
(* killed between any two of them while other processes change the tree.    *)
(*                                                                         *)
(* What it relies on is the contract of its caller, Mergeable: a cluster is  *)
(* made of distinct scanned inodes, of no earlier cluster of the run, whose  *)
(* files were the same when the tree was scanned, unless others changed      *)
(* them since.  Here any cluster that honours it may come; module Dedup       *)
(* replaces that choice by the passes of dedup.c.                            *)
(*                                                                         *)
(* The scan of the tree (fscanner, undup.c:389) is one step here.            *)
(***************************************************************************)
EXTENDS FileSystem

CONSTANTS
  NoPath,      \* no path
  MaxRuns      \* bound: runs of the program

ASSUME DoDedupAssumption == NoPath \notin Path /\ MaxRuns \in Nat

VARIABLES
  itab,     \* fs_dat.itab: paths and mtime recorded for each inode
  dryrun,   \* gopts.dryrun: TRUE unless -e was given
  pc,       \* where the program is
  base,     \* inos[0] after the sort
  rest,     \* inos[i..], the inodes still to be handled
  vic,      \* inos[i]
  pend,     \* *fpt.., the paths of vic still to be handled
  name,     \* vpath, the path being replaced
  stb,      \* stb.st_ino: the inode lstat(2) returned last
  files,    \* dedup_stats.files
  blocks,   \* dedup_stats.blocks; a file has one block per byte
  merged,   \* history: inodes handed to do_dedup in this run
  kept,     \* history: those of them that were a cluster's oldest
  runs      \* how often the program was started

cluster == <<base, rest, vic, pend, name, stb>>
stats == <<files, blocks>>
tables == <<itab, dryrun, merged, kept, runs>>
mergeVars == <<fsVars, tables, cluster, stats, pc>>

Entry == [names : SUBSET Tree, first : Tree \cup {NoPath}, mtime : Mtime]
Stopped == {"idle", "done", "failed", "killed"}
Merging == {"merge", "unlink", "link"}

TypeOK ==
  /\ FileSystemTypeOK
  /\ itab \in [Inode -> Entry]
  /\ dryrun \in BOOLEAN
  /\ pc \in Stopped \cup Merging \cup {"ready"}
  /\ base \in Inode \cup {NoInode}
  /\ vic \in Inode \cup {NoInode}
  /\ stb \in Inode \cup {NoInode}
  /\ rest \subseteq Inode
  /\ pend \subseteq Tree
  /\ name \in Tree \cup {NoPath}
  /\ files \in Nat
  /\ blocks \in Nat
  /\ merged \subseteq Inode
  /\ kept \subseteq Inode
  /\ runs \in Nat

NoEntry(i) == [names |-> {}, first |-> NoPath, mtime |-> node[i].mtime]

MergeInit ==
  /\ FileSystemInit
  /\ itab = [i \in Inode |-> NoEntry(i)]
  /\ dryrun = TRUE
  /\ pc = "idle"
  /\ base = NoInode /\ vic = NoInode /\ stb = NoInode
  /\ rest = {} /\ pend = {} /\ name = NoPath
  /\ files = 0 /\ blocks = 0
  /\ merged = {} /\ kept = {} /\ runs = 0

--------------------------------------------------------------------------------
(* Mutant of Recorded: excluded entries are recorded too. *)
RecordedAnywhere(i) == IF node[i].data = << >> THEN {} ELSE Names(i)

(* The tables fscanner can leave: the paths of each inode below the root, in  *)
(* the order readdir(3) had for them, which is any; only which one comes first *)
(* is told apart.  Empty files are not recorded.                               *)
Recorded(i) == IF node[i].data = << >> THEN {} ELSE Names(i) \cap Tree

EntriesOf(i) ==
  IF Recorded(i) = {}
    THEN {NoEntry(i)}
    ELSE {[names |-> Recorded(i), first |-> p, mtime |-> node[i].mtime] : p \in Recorded(i)}

Scan == {t \in [Inode -> UNION {EntriesOf(i) : i \in Inode}] :
           \A i \in Inode : t[i] \in EntriesOf(i)}

Known(i) == itab[i].names # {}

(* undup_main up to the sort: options, scan, clusters by size. *)
StartRun ==
  /\ pc \in Stopped
  /\ runs < MaxRuns
  /\ runs' = runs + 1
  /\ dryrun' \in BOOLEAN
  /\ itab' \in Scan
  /\ pc' = "ready"
  /\ dir0' = dir /\ node0' = node /\ touched' = {} /\ moved' = {}
  /\ base' = NoInode /\ vic' = NoInode /\ stb' = NoInode
  /\ rest' = {} /\ pend' = {} /\ name' = NoPath
  /\ files' = 0 /\ blocks' = 0
  /\ merged' = {} /\ kept' = {}
  /\ UNCHANGED <<dir, node, changes>>

(* Mutant of Mergeable: only the sizes are compared. *)
MergeableBySize(C) ==
  /\ Cardinality(C) >= 2 /\ C \cap merged = {} /\ \A i \in C : Known(i)
  /\ \A i, j \in C \ touched : Len(node0[i].data) = Len(node0[j].data)

Mergeable(C) ==
  /\ Cardinality(C) >= 2
  /\ C \cap merged = {}
  /\ \A i \in C : Known(i)
  /\ \A i, j \in C \ touched : SameFile(node0[i], node0[j])

(* Mutant of Oldest: dedup_cmp with its signs exchanged. *)
Youngest(C) == {i \in C : \A j \in C : itab[j].mtime <= itab[i].mtime}

(* qsort by dedup_cmp: the inodes that can come first. *)
Oldest(C) == {i \in C : \A j \in C : itab[i].mtime <= itab[j].mtime}

(* do_dedup is called: sort the inodes, take the first path of the oldest. *)
Call(C) ==
  /\ pc = "ready"
  /\ \E b \in Oldest(C) :
       /\ base' = b
       /\ rest' = C \ {b}
       /\ stb' = b
       /\ kept' = kept \cup {b}
  /\ merged' = merged \cup C
  /\ vic' = NoInode /\ pend' = {} /\ name' = NoPath
  /\ pc' = "merge"
  /\ UNCHANGED <<fsVars, itab, dryrun, runs, stats>>

DoDedup(C) == Mergeable(C) /\ Call(C)

BasePath == itab[base].first

(* Mutant of NextVictim: only its first path is handled. *)
NextVictimFirstPath ==
  /\ pc = "merge" /\ pend = {}
  /\ \E v \in Oldest(rest) :
       /\ vic' = v
       /\ rest' = rest \ {v}
       /\ pend' = {itab[v].first}
  /\ UNCHANGED <<fsVars, tables, base, name, stb, stats, pc>>

(* The outer loop: the next inode, by age. *)
NextVictim ==
  /\ pc = "merge" /\ pend = {}
  /\ \E v \in Oldest(rest) :
       /\ vic' = v
       /\ rest' = rest \ {v}
       /\ pend' = itab[v].names
  /\ UNCHANGED <<fsVars, tables, base, name, stb, stats, pc>>

(* The paths of vic in the order of its entry, of which the first is known. *)
NextPaths == IF itab[vic].first \in pend THEN {itab[vic].first} ELSE pend

(* Mutants: every path counts its blocks; -e is taken for granted. *)
AlwaysUncounted == TRUE
AlwaysExecute == "unlink"

(* lstat(2) has not just returned this inode. *)
Uncounted == stb # vic

(* Where a counted path goes from here. *)
AfterCount == IF dryrun THEN "merge" ELSE "unlink"

(* The inner loop: count the path, and the blocks of an uncounted inode; a       *)
(* vanished path ends the program.                                               *)
NextPath ==
  /\ pc = "merge" /\ pend # {}
  /\ \E p \in NextPaths :
       /\ name' = p
       /\ pend' = pend \ {p}
       /\ \/ /\ Uncounted /\ ~Exists(p)
             /\ pc' = "failed"
             /\ UNCHANGED <<stb, stats>>
          \/ /\ Uncounted /\ Exists(p)
             /\ stb' = dir[p]
             /\ blocks' = blocks + Len(node[dir[p]].data)
             /\ files' = files + 1
             /\ pc' = AfterCount
          \/ /\ ~Uncounted
             /\ files' = files + 1
             /\ pc' = AfterCount
             /\ UNCHANGED <<stb, blocks>>
  /\ UNCHANGED <<fsVars, tables, base, rest, vic>>

(* Either call that fails ends the program through errormsg (utils.h:105). *)
Unlink ==
  /\ pc = "unlink"
  /\ \/ CanUnlink(name) /\ UnlinkPath(name) /\ pc' = "link"
     \/ ~CanUnlink(name) /\ pc' = "failed" /\ UNCHANGED dir
  /\ UNCHANGED <<node, history, touched, moved, changes, tables, cluster, stats>>

(* Mutant of Link: a failure is reported, and the loop goes on. *)
LinkGoesOn ==
  /\ pc = "link" /\ pc' = "merge"
  /\ IF CanLink(BasePath, name) THEN LinkPath(BasePath, name) ELSE UNCHANGED dir
  /\ UNCHANGED <<node, history, touched, moved, changes, tables, cluster, stats>>

Link ==
  /\ pc = "link"
  /\ \/ CanLink(BasePath, name) /\ LinkPath(BasePath, name) /\ pc' = "merge"
     \/ ~CanLink(BasePath, name) /\ pc' = "failed" /\ UNCHANGED dir
  /\ UNCHANGED <<node, history, touched, moved, changes, tables, cluster, stats>>

Return ==
  /\ pc = "merge" /\ pend = {} /\ rest = {}
  /\ pc' = "ready"
  /\ UNCHANGED <<fsVars, tables, cluster, stats>>

(* The scan or a comparison fails: errormsg or fatal before the next cluster.   *)
Abort ==
  /\ pc = "ready"
  /\ pc' = "failed"
  /\ UNCHANGED <<fsVars, tables, cluster, stats>>

Finish ==
  /\ pc = "ready"
  /\ pc' = "done"
  /\ UNCHANGED <<fsVars, tables, cluster, stats>>

(* The process is killed, or the machine stops, between two of its steps. *)
Kill ==
  /\ pc \notin Stopped
  /\ pc' = "killed"
  /\ UNCHANGED <<fsVars, tables, cluster, stats>>

Others ==
  /\ LiveChange(IF pc \in Stopped THEN Kinds ELSE LiveKinds)
  /\ UNCHANGED <<tables, cluster, stats, pc>>

MergeStep == NextVictim \/ NextPath \/ Unlink \/ Link \/ Return

(* Nothing is left to do: not a deadlock. *)
Terminated == pc \in Stopped /\ runs = MaxRuns /\ UNCHANGED mergeVars

MergeNext ==
  \/ StartRun
  \/ \E C \in SUBSET Inode : DoDedup(C)
  \/ MergeStep
  \/ Abort
  \/ Finish
  \/ Kill
  \/ Others
  \/ Terminated

MergeSpec == MergeInit /\ [][MergeNext]_mergeVars

--------------------------------------------------------------------------------
(* Properties.                                                                 *)

(* Whatever others do meanwhile, and wherever the program stops, a path that   *)
(* named a file before and names one now, neither of them touched by others,   *)
(* has the same contents, owner and permissions: merging is invisible to the   *)
(* readers of a file ("preserve permissions and file ownerships",               *)
(* undup.c:343).                                                                *)
UntouchedPreserved ==
  \A p \in Path :
    /\ dir0[p] \in Inode \ touched
    /\ dir[p] \in Inode \ touched
    => SameFile(node0[dir0[p]], node[dir[p]])

(* A stop, a kill or a failed link(2) between unlink and link (undup.c:132-133) *)
(* costs at most one name: the one in flight.                                    *)
Missing == {p \in Path \ moved : dir0[p] # NoInode /\ dir[p] = NoInode}
AtMostOneNameLost ==
  /\ Missing \subseteq {name}
  /\ Missing # {} => pc \in {"link", "failed", "killed"}

(* As long as others leave the merged inodes alone, the contents of every       *)
(* scanned file they leave alone is within reach of some path, in the middle of  *)
(* a replacement and after any stop (undup.c:132-133).                           *)
NoContentLost ==
  touched \cap merged = {} =>
    \A p \in Path : dir0[p] \in Inode \ touched =>
      \E q \in Path : Exists(q) /\ SameFile(node[dir[q]], node0[dir0[p]])

(* Without -e no path is changed ("NO CHANGES are made on the filesystem",      *)
(* undup.c:264).                                                                *)
DryRunReadOnly == dryrun => \A p \in Path \ moved : dir[p] = dir0[p]

(* A replaced path names a file no younger than the one it named ("Hard link   *)
(* all i-nodes to the oldest one", undup.c:337-338), and every path of an inode *)
(* outside the tree or excluded stays as it was.                                *)
OldestWins ==
  \A p \in Path \ moved :
    (dir0[p] \in Inode \ touched /\ dir[p] \in Inode \ touched /\ dir[p] # dir0[p])
      => p \in Tree /\ node0[dir[p]].mtime <= node0[dir0[p]].mtime

(* The number printed at the end ("Files de-duped", undup.c:409) is that of all   *)
(* paths of the inodes that were not kept, each counted once, with -e or without,   *)
(* whatever others have done to the tree since it was scanned (undup.c:119-129).     *)
FilesExact ==
  pc = "done" => files = Cardinality(UNION {itab[i].names : i \in merged \ kept})

(* The storage said to be freed is that of the inodes that were not kept, each      *)
(* counted once however many paths it had, where nobody else changes files; a dry    *)
(* run predicts it (undup.c:125-128, 410).                                            *)
BlocksOf(i) == {i} \X (1..Len(node0[i].data))
BlocksExact ==
  (pc = "done" /\ touched = {}) =>
    blocks = Cardinality(UNION {BlocksOf(i) : i \in merged \ kept})

(* "In that situation, we want to preserve permissions and file ownerships" of   *)
(* files on live filesystems (undup.c:342-344): a path undup redirects to a file   *)
(* others have left alone keeps the owner and permissions it had to the last.       *)
OwnersPreserved ==
  \A p \in Path \ moved :
    (dir0[p] # NoInode /\ dir[p] \in Inode \ touched)
      => node[dir[p]].owner = node[dir0[p]].owner
================================================================================
