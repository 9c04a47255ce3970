-------------------------------- MODULE FScanner --------------------------------
(***************************************************************************)
(* fscanner.c step by step: a stack of directories to read, readdir(3) and        *)
(* lstat(2) on one entry after the other, the patterns of -X and -I, and the        *)
(* tables that are filled; then the clusters as dedup_pass1 gets them.  Other         *)
(* processes change files, and the names they have, between any two entries.          *)
(*                                                                         *)
(* Modules DoDedup and Dedup take the scan for one step; ScanExact is what they         *)
(* may rely on.  Every path is that of a regular file, and nobody makes or removes       *)
(* directories.                                                                           *)
(***************************************************************************)
EXTENDS FileSystem, InodeTab, DupTable, Exclude

CONSTANTS
  Root,      \* the directory undup was given
  Up,        \* the directory each path and each other directory is in
  Above,     \* those above it, without the root
  OtherFS,   \* directories on another device
  HcdPath,   \* .hcd in the root
  VPath,     \* .hcd.validate in the root
  HcdFile,   \* what gdbm_open makes of the latter
  Options,   \* lists of the options -X and -I to consider
  UseCache   \* the values of gopts.usecache to consider

Entries == Path \cup Subdir

(* -X or -I, whether its pattern starts and ends with a slash, and what it matches. *)
Option ==
  [opt : {"X", "I"}, leads : BOOLEAN, trails : BOOLEAN,
   texts : SUBSET (Entries \cup {Name[e] : e \in Entries})]

ASSUME FScannerAssumption ==
  /\ Inode = Ino
  /\ IsFiniteSet(Subdir)
  /\ Root \notin Subdir /\ Path \cap (Subdir \cup {Root}) = {}
  /\ Up \in [Entries -> Subdir \cup {Root}]
  /\ Above \in [Entries -> SUBSET Subdir]
  /\ \A e \in Entries :
       /\ Above[e] = IF Up[e] = Root THEN {} ELSE {Up[e]} \cup Above[Up[e]]
       /\ e \notin Above[e]
       /\ \A d \in Above[e] : Above[d] \subseteq Above[e]
  /\ OtherFS \subseteq Subdir
  /\ {HcdPath, VPath} \subseteq Path /\ Up[HcdPath] = Root /\ Up[VPath] = Root
  /\ Options \subseteq Seq(Option)
  /\ HcdFile \in File
  /\ \A f \in File : f.data # << >> => [owner |-> f.owner, size |-> Len(f.data)] \in Key
  /\ UseCache \subseteq BOOLEAN

VARIABLES
  fpc,       \* "open" a directory, "read" its entries; "scanned", "failed"
  dirs,      \* the stack of directories to read
  cdir,      \* the one that is being read
  may,       \* entries of it readdir(3) may still return
  must,      \* those of them that nobody has changed since it was opened
  options,   \* the options -X and -I of the command line
  usecache,  \* gopts.usecache
  vopen      \* cache->validated # NULL

scanLocal == <<dirs, cdir, may, must>>
argv == <<options, excludes, usecache>>
scanVars == <<fsVars, itab, dupVars, argv, fpc, scanLocal, vopen>>

In(d) == {p \in Path : Up[p] = d /\ Exists(p)} \cup {s \in Subdir : Up[s] = d}
KeyOf(f) == [owner |-> f.owner, size |-> Len(f.data)]

ScanTypeOK ==
  /\ FileSystemTypeOK
  /\ DupTypeOK /\ WithinSlots
  /\ \A i \in Inode : Len(itab[i].paths) <= itab[i].slots
  /\ fpc \in {"open", "read", "scanned", "failed"}
  /\ dirs \in Seq(Subdir \cup {Root}) /\ cdir \in Subdir \cup {Root}
  /\ must \subseteq may /\ may \subseteq {e \in Entries : Up[e] = cdir}

Init ==
  /\ FileSystemInit
  /\ DupInit
  /\ itab = [i \in Inode |-> NoNode]
  /\ options \in Options /\ excludes = ExcludesOf(options)
  /\ usecache \in UseCache /\ vopen = FALSE
  /\ fpc = "open" /\ dirs = <<Root>> /\ cdir = Root /\ may = {} /\ must = {}

--------------------------------------------------------------------------------
(* Mutant of OpenDir: the stack is read and not popped. *)
OpenDirAgain ==
  /\ fpc = "open" /\ dirs # << >>
  /\ cdir' = dirs[Len(dirs)]
  /\ may' = In(cdir') /\ must' = In(cdir')
  /\ fpc' = "read"
  /\ UNCHANGED <<fsVars, itab, dupVars, argv, vopen, dirs>>

OpenDir ==
  /\ fpc = "open" /\ dirs # << >>
  /\ cdir' = dirs[Len(dirs)]
  /\ dirs' = SubSeq(dirs, 1, Len(dirs) - 1)
  /\ may' = In(cdir') /\ must' = In(cdir')
  /\ fpc' = "read"
  /\ UNCHANGED <<fsVars, itab, dupVars, argv, vopen>>

(* "Make sure that we always ignore the caches", and what -X says. *)
Ignored(e) == e = HcdPath \/ ExcludesCheck(e)

NotScanned(e) == Ignored(e) \/ e \in OtherFS \/ (e \in Path /\ node[dir[e]].data = << >>)

(* readdir(3) returns e, and lstat(2) finds it. *)
Found(e) == fpc = "read" /\ e \in may /\ (e \in Path => Exists(e))
Returned(e) == may' = may \ {e} /\ must' = must \ {e}

PassOver(e) ==
  /\ Found(e) /\ NotScanned(e)
  /\ Returned(e)
  /\ UNCHANGED <<fsVars, itab, dupVars, argv, fpc, dirs, cdir, vopen>>

(* A directory is read later. *)
PushDir(e) ==
  /\ Found(e) /\ ~NotScanned(e) /\ e \in Subdir
  /\ dirs' = Append(dirs, e)
  /\ Returned(e)
  /\ UNCHANGED <<fsVars, itab, dupVars, argv, fpc, cdir, vopen>>

(* The first hcache_validate empties or creates .hcd.validate, which readdir(3) may   *)
(* return from then on.                                                                *)
OpenValidate(e) ==
  /\ vopen' = TRUE
  /\ \E i \in (IF Exists(VPath) THEN {dir[VPath]} ELSE Inode \ Files) :
       dir' = [dir EXCEPT ![VPath] = i] /\ node' = [node EXCEPT ![i] = HcdFile]
  /\ may' = (may \ {e}) \cup (IF cdir = Root /\ ~Exists(VPath) THEN {VPath} ELSE {})
  /\ must' = must \ {e}
  /\ UNCHANGED <<history, touched, moved, changes>>

Validates == usecache /\ ~vopen

AddPath(p) ==
  /\ Found(p) /\ ~NotScanned(p) /\ p \in Path
  /\ LET i == dir[p]  nlnks == Cardinality(Names(i)) IN
       /\ HasSlot(i, nlnks)
       /\ InodetabAdd(i, p, nlnks, node[i].mtime)
       /\ IF Recorded(i)
            THEN Returned(p) /\ UNCHANGED <<fsVars, dupVars, vopen>>
            ELSE /\ AddScanned(KeyOf(node[i]), i)
                 /\ IF Validates THEN OpenValidate(p) ELSE Returned(p) /\ UNCHANGED <<fsVars, vopen>>
  /\ UNCHANGED <<argv, fpc, dirs, cdir>>

(* .hcd.validate is missing and there is no inode for it. *)
NoRoom == Validates /\ ~Exists(VPath) /\ Files = Inode

(* lstat(2) fails, the links exceed the slots, or .hcd.validate cannot be created. *)
ScanFails ==
  /\ fpc = "read"
  /\ \E p \in may \cap Path :
       \/ ~Exists(p)
       \/ /\ Found(p) /\ ~NotScanned(p)
          /\ HasSlot(dir[p], Cardinality(Names(dir[p]))) => ~Recorded(dir[p]) /\ NoRoom
  /\ fpc' = "failed"
  /\ UNCHANGED <<fsVars, itab, dupVars, argv, scanLocal, vopen>>

(* readdir(3) has returned every entry that nobody has changed meanwhile. *)
CloseDir ==
  /\ fpc = "read" /\ must = {}
  /\ fpc' = "open" /\ may' = {}
  /\ UNCHANGED <<fsVars, itab, dupVars, argv, dirs, cdir, must, vopen>>

ScanDone ==
  /\ fpc = "open" /\ dirs = << >>
  /\ fpc' = "scanned"
  /\ UNCHANGED <<fsVars, itab, dupVars, argv, scanLocal, vopen>>

(* dedup_cluster, duptab_sort and the iterations of dedup_pass1. *)
Clusters ==
  /\ fpc = "scanned" /\ DupStep
  /\ UNCHANGED <<fsVars, itab, argv, fpc, scanLocal, vopen>>

(* link(2) by others. *)
Hardlink(p, q) ==
  /\ CanLink(p, q) /\ LinkPath(p, q)
  /\ Change({dir[p]}, {q})
  /\ UNCHANGED node

(* A name that others change while its directory is read may be returned or not, and   *)
(* a new one even when it was returned before.                                          *)
Others ==
  /\ fpc \in {"open", "read"} /\ changes < MaxChanges
  /\ \/ LiveChange(LiveKinds)
     \/ \E p, q \in Path : Hardlink(p, q)
  /\ LET changed == {p \in Path : dir'[p] # dir[p]} IN
       /\ must' = must \ changed
       /\ may' = may \cup (IF fpc = "read"
                             THEN {p \in changed : Up[p] = cdir /\ dir'[p] # NoInode} ELSE {})
  /\ UNCHANGED <<itab, dupVars, argv, fpc, dirs, cdir, vopen>>

Step ==
  \/ OpenDir
  \/ \E e \in Entries : PassOver(e) \/ PushDir(e) \/ AddPath(e)
  \/ ScanFails \/ CloseDir \/ ScanDone \/ Clusters

(* The scan is over: not a deadlock. *)
Ended == fpc = "failed" \/ dphase = "done"
Stays == Ended /\ UNCHANGED scanVars

Next == Step \/ Others \/ Stays

Spec == Init /\ [][Next]_scanVars

(* The scheduler runs the program. *)
FairSpec == Spec /\ WF_scanVars(Step)

--------------------------------------------------------------------------------
(* Properties.                                                                  *)

(* What an option is documented to match ("Start with "/" for a full path match.  End    *)
(* with "/" to match directories only", undup.c:318-319); the first one that does counts,  *)
(* and what is below an excluded directory is out of reach of any -I.                       *)
Says(o, e) == (o.trails => e \in Subdir) /\ (IF o.leads THEN e ELSE Name[e]) \in o.texts
Unwanted(e) ==
  \E j \in DOMAIN options :
    /\ options[j].opt = "X" /\ Says(options[j], e)
    /\ \A k \in 1..(j - 1) : ~Says(options[k], e)
Wanted(p) ==
  p # HcdPath /\ ~Unwanted(p) /\ \A d \in Above[p] : ~Unwanted(d) /\ d \notin OtherFS

Times(i, p) == Cardinality({j \in 1..Len(itab[i].paths) : itab[i].paths[j] = p})
Empty0(p) == dir0[p] # NoInode /\ node0[dir0[p]].data = << >>

(* The tables of a scan that others disturb are right about all paths and files they    *)
(* leave alone: a path whose name nobody changes is recorded under its own inode or not  *)
(* at all, is recorded once if the patterns let it and its file is left alone, and such   *)
(* a file is in the one cluster of its owner and size, once (fscanner.c:62-117).  This is *)
(* what the one step of DoDedup!StartRun stands for.                                       *)
ScanExact ==
  (fpc = "scanned" /\ dphase = "fill") =>
    /\ \A p \in Path \ (moved \cup {VPath}) :
         /\ \A i \in Inode \ {dir0[p]} : Times(i, p) = 0
         /\ dir0[p] \in Inode \ (touched \cup {dir0[VPath]}) =>
              /\ Times(dir0[p], p) = IF Wanted(p) /\ ~Empty0(p) THEN 1 ELSE 0
              /\ Recorded(dir0[p]) =>
                   /\ <<KeyOf(node0[dir0[p]]), dir0[p]>> \in Holds(dtab)
                   /\ itab[dir0[p]].mtime = node0[dir0[p]].mtime

(* Edits, chmods and chowns never end a scan, nor do an inode's links outside the tree    *)
(* or the directories left out: it takes a name that others change (fscanner.c:76,          *)
(* inodetab.c:71), or a full disk (hcache.c:147).                                           *)
FailsOnlyOnRenames == fpc = "failed" => moved # {} \/ NoRoom

(* Every scan comes to an end, and all its clusters are handed out (fscanner.c:62).          *)
ScanEnds == <>Ended

(* "Make sure that we always ignore the caches..." (fscanner.c:79): the cache's own files     *)
(* are not scanned.                                                                            *)
CachesIgnored == \A i \in Inode : PathsOf(i) \cap {HcdPath, VPath} = {}
================================================================================
