---------------------------------- MODULE Runs ----------------------------------
(***************************************************************************)
(* Several runs of undup on one tree at the same time, as cron(8) starts them     *)
(* when one takes longer than the interval.  The option -l is to avoid that: the   *)
(* flock(2) it takes is held until the process ends.  What runs share otherwise is  *)
(* the tree, the catalogue of -c, and the cache files of module HashFiles.             *)
(*                                                                         *)
(* The options are read one after the other, and -c and -l take effect at once        *)
(* (undup.c:174-182).  All runs are given -e and the same tree, lock and catalogue.    *)
(* Files are larger than two blocks, so that pass 3 hashes them, and all mtimes are     *)
(* equal, so that which inode is the oldest is up to qsort(3).  Nobody but the runs      *)
(* works on the tree; module DoDedup has those who do.                                    *)
(***************************************************************************)
EXTENDS HashFiles, Functions

CONSTANTS
  NoProc,   \* nobody holds the lock
  NoPath,   \* do_dedup is not running
  Args      \* the lists of the options "l", "c" and "C" to consider

ASSUME RunsAssumption ==
  /\ NoProc \notin Proc /\ IsFiniteSet(Proc)
  /\ NoPath \notin Path
  /\ Args \subseteq Seq({"l", "c", "C"})

VARIABLES
  pc,       \* where each process is
  args,     \* its options
  opts,     \* those it has not read
  holder,   \* the process that holds the lock
  cat,      \* the catalogue: whose line is at each place
  line,     \* where the process writes to it
  buf,      \* lines in the buffer of catfp
  todo,     \* entries readdir(3) has yet to return
  paths,    \* the paths of each inode, inodetab
  slots,    \* and the room for them
  left,     \* inodes no pass has looked at
  part,     \* the cluster that is read and merged
  got,      \* what has been read, or found in the cache, of an inode
  cur,      \* the inode whose hash is wanted
  bpath,    \* do_dedup's basepath
  rest,     \* the inodes do_dedup has not come to
  vics      \* the paths it is to replace of the one it has come to

catVars == <<cat, line, buf>>
scanTab == <<todo, paths, slots>>
passTab == <<left, part, got, cur>>
mergeTab == <<bpath, rest, vics>>
runsVars == <<fsVars, hashFileVars, pc, args, opts, holder, catVars, scanTab, passTab, mergeTab>>

Ended == {"done", "failed", "faulted", "killed"}
Stages == {"opts", "scan", "pass", "read", "get", "hash", "put", "merge", "unlink", "link",
           "free"} \cup Ended

Uses(s, o) == \E j \in DOMAIN args[s] : args[s][j] = o
Cached(s) == ~Uses(s, "C")
Goes(s, stage) == pc' = [pc EXCEPT ![s] = stage]
Met(s, i) == slots[s][i] # 0

RunsTypeOK ==
  /\ FileSystemTypeOK /\ HashFilesTypeOK
  /\ pc \in [Proc -> Stages]
  /\ holder \in Proc \cup {NoProc}
  /\ \A s \in Proc :
       /\ todo[s] \subseteq Path
       /\ left[s] \cup part[s] \cup rest[s] \subseteq {i \in Inode : Met(s, i)}
       /\ \A i \in Inode : Len(paths[s][i]) <= slots[s][i]
  /\ got \in [Proc -> [Inode -> Data \cup {NoData}]]

NoPaths == [i \in Inode |-> << >>]
NoSlots == [i \in Inode |-> 0]
ForAll(x) == [s \in Proc |-> x]

Init ==
  /\ FileSystemInit /\ HashFilesInit
  /\ pc = ForAll("opts") /\ args \in [Proc -> Args] /\ opts = args /\ holder = NoProc
  /\ cat = << >> /\ line = ForAll(0) /\ buf = ForAll(0)
  /\ todo = ForAll({}) /\ paths = ForAll(NoPaths)
  /\ slots = ForAll(NoSlots)
  /\ left = ForAll({}) /\ part = ForAll({}) /\ got = ForAll(NoHashes) /\ cur = ForAll(NoInode)
  /\ bpath = ForAll(NoPath) /\ rest = ForAll({}) /\ vics = ForAll(<< >>)

--------------------------------------------------------------------------------
(* Options.                                                                     *)

(* lockfile(): flock(2) waits.  The process id in the file, which nobody reads, is    *)
(* left out.                                                                           *)
Locks(s) == holder = NoProc /\ holder' = s

(* Mutant of OpensCatalogue: the file is not truncated. *)
OpensAsItIs(s) == line' = [line EXCEPT ![s] = 0] /\ UNCHANGED <<cat, buf>>

(* fopen(3) with "w". *)
OpensCatalogue(s) ==
  /\ cat' = << >>
  /\ line' = [line EXCEPT ![s] = 0]
  /\ UNCHANGED buf

GetOption(s) ==
  /\ pc[s] = "opts" /\ opts[s] # << >>
  /\ opts' = [opts EXCEPT ![s] = Tail(@)]
  /\ IF Head(opts[s]) = "l" THEN Locks(s) ELSE UNCHANGED holder
  /\ IF Head(opts[s]) = "c" THEN OpensCatalogue(s) ELSE UNCHANGED catVars
  /\ UNCHANGED <<fsVars, hashFileVars, pc, args, scanTab, passTab, mergeTab>>

(* fscanner_init, and opendir(3): readdir(3) will return names that are there by now.  *)
StartScan(s) ==
  /\ pc[s] = "opts" /\ opts[s] = << >>
  /\ Goes(s, "scan")
  /\ todo' = [todo EXCEPT ![s] = {p \in Path : Exists(p)}]
  /\ IF Cached(s) THEN HNew(s) ELSE UNCHANGED hashFileVars
  /\ UNCHANGED <<fsVars, args, opts, holder, catVars, paths, slots, passTab, mergeTab>>

--------------------------------------------------------------------------------
(* The end of a process.  exit(3) writes what stdio has in its buffers; a signal       *)
(* does not.  The kernel closes its files, frees its memory and lets its lock go; vics is *)
(* kept, for LockedRunsKeepNames.                                                          *)

(* The catalogue with the buffered lines where the process writes them. *)
Flushed(s) ==
  LET end == line[s] + buf[s] IN
    [j \in 1..(IF Len(cat) < end THEN end ELSE Len(cat)) |->
       IF j \in (line[s] + 1)..end THEN s ELSE IF j <= Len(cat) THEN cat[j] ELSE NoProc]

Flush(s) ==
  /\ cat' = IF buf[s] = 0 THEN cat ELSE Flushed(s)
  /\ line' = [line EXCEPT ![s] = @ + buf[s]]
  /\ buf' = [buf EXCEPT ![s] = 0]

(* Mutant of Unlocks: the lock outlives the process. *)
KeepsLock(s) == UNCHANGED holder

Unlocks(s) == holder' = IF holder = s THEN NoProc ELSE holder

Exits(s, stage) ==
  /\ Goes(s, stage)
  /\ HClosed(s) /\ Unlocks(s)
  /\ todo' = [todo EXCEPT ![s] = {}] /\ paths' = [paths EXCEPT ![s] = NoPaths]
  /\ slots' = [slots EXCEPT ![s] = NoSlots]
  /\ left' = [left EXCEPT ![s] = {}] /\ part' = [part EXCEPT ![s] = {}]
  /\ got' = [got EXCEPT ![s] = NoHashes] /\ cur' = [cur EXCEPT ![s] = NoInode]
  /\ bpath' = [bpath EXCEPT ![s] = NoPath] /\ rest' = [rest EXCEPT ![s] = {}]
  /\ UNCHANGED <<fsVars, args, opts, vics>>

(* exit(3) *)
Fails(s) == Flush(s) /\ Exits(s, "failed")

(* A signal. *)
Dies(s, stage) ==
  /\ Exits(s, stage)
  /\ line' = [line EXCEPT ![s] = 0] /\ buf' = [buf EXCEPT ![s] = 0]
  /\ UNCHANGED cat

Faults(s) ==
  /\ \/ pc[s] \in {"get", "put"} /\ Crashes(s)
     \/ pc[s] = "get" /\ GetReturnsEarly(s)
  /\ Dies(s, "faulted")

Kill(s) == pc[s] \notin Ended /\ Dies(s, "killed")

--------------------------------------------------------------------------------
(* The scan.                                                                    *)

(* lstat(2) finds p: a line for the catalogue, which is written when stdio pleases,    *)
(* and the tables.                                                                      *)
Catalogued(s) ==
  /\ buf' = IF Uses(s, "c") THEN [buf EXCEPT ![s] = @ + 1] ELSE buf
  /\ UNCHANGED <<cat, line>>

(* Mutant of HasSlot: the slots are not counted. *)
AnySlot(s, i) == TRUE

HasSlot(s, i) == ~Met(s, i) \/ Len(paths[s][i]) < slots[s][i]
Validates(s, i) == Cached(s) /\ ~Met(s, i)

ScanPath(s, p) ==
  /\ pc[s] = "scan" /\ p \in todo[s] /\ Exists(p)
  /\ LET i == dir[p] IN
       /\ HasSlot(s, i)
       /\ slots' = [slots EXCEPT ![s][i] = IF Met(s, i) THEN @ ELSE Cardinality(Names(i))]
       /\ paths' = [paths EXCEPT ![s][i] = Append(@, p)]
       /\ IF Validates(s, i) THEN HValidate(s, i) ELSE UNCHANGED hashFileVars
  /\ todo' = [todo EXCEPT ![s] = @ \ {p}]
  /\ Catalogued(s)
  /\ UNCHANGED <<fsVars, pc, args, opts, holder, passTab, mergeTab>>

(* Another run has removed p: readdir(3) does not return it any more... *)
PassOver(s, p) ==
  /\ pc[s] = "scan" /\ p \in todo[s] /\ ~Exists(p)
  /\ todo' = [todo EXCEPT ![s] = @ \ {p}]
  /\ UNCHANGED <<fsVars, hashFileVars, pc, args, opts, holder, catVars, paths, slots, passTab,
                 mergeTab>>

(* ... or it did, and lstat(2) fails; the inode has more names than when it was met     *)
(* first; or .hcd.validate is in use.                                                    *)
ScanFails(s) ==
  /\ pc[s] = "scan"
  /\ \E p \in todo[s] :
       Exists(p) /\ HasSlot(s, dir[p]) => Exists(p) /\ Validates(s, dir[p]) /\ ~CanValidate(s)
  /\ Fails(s)

FlushesEarly(s) ==
  /\ pc[s] = "scan" /\ buf[s] # 0 /\ Flush(s)
  /\ UNCHANGED <<fsVars, hashFileVars, pc, args, opts, holder, scanTab, passTab, mergeTab>>

(* fclose(catfp). *)
ScanDone(s) ==
  /\ pc[s] = "scan" /\ todo[s] = {}
  /\ Goes(s, "pass") /\ Flush(s)
  /\ left' = [left EXCEPT ![s] = {i \in Inode : Met(s, i)}]
  /\ UNCHANGED <<fsVars, hashFileVars, args, opts, holder, scanTab, part, got, cur, mergeTab>>

--------------------------------------------------------------------------------
(* The passes: a cluster of level 1 is read, and its parts are merged.           *)

Alike(i, j) == node[i].owner = node[j].owner /\ Len(node[i].data) = Len(node[j].data)

Pick(s) ==
  /\ pc[s] = "pass"
  /\ \E i \in left[s] :
       LET k == {j \in left[s] : Alike(i, j)} IN
         /\ left' = [left EXCEPT ![s] = @ \ k]
         /\ part' = [part EXCEPT ![s] = k]
         /\ Goes(s, IF Cardinality(k) < 2 THEN "pass" ELSE "read")
  /\ UNCHANGED <<fsVars, hashFileVars, args, opts, holder, catVars, scanTab, got, cur, mergeTab>>

PassesDone(s) ==
  /\ pc[s] = "pass" /\ left[s] = {}
  /\ Goes(s, "free")
  /\ UNCHANGED <<fsVars, hashFileVars, args, opts, holder, catVars, scanTab, passTab, mergeTab>>

Turn(s, i) ==
  /\ pc[s] = "read" /\ i \in part[s] /\ got[s][i] = NoData
  /\ cur' = [cur EXCEPT ![s] = i]
  /\ Goes(s, IF Cached(s) THEN "get" ELSE "hash")
  /\ UNCHANGED <<fsVars, hashFileVars, args, opts, holder, catVars, scanTab, left, part, got,
                 mergeTab>>

Gets(s, d) == got' = [got EXCEPT ![s][cur[s]] = d] /\ UNCHANGED <<left, part, cur>>

GetHash(s) ==
  /\ pc[s] = "get"
  /\ \/ /\ HGet(s)
        /\ Gets(s, Found(s, cur[s]))
        /\ Goes(s, IF Found(s, cur[s]) = NoData THEN "hash" ELSE "read")
     \/ GetReturnsEarly(s) /\ Goes(s, "hash") /\ UNCHANGED <<hashFileVars, passTab>>
  /\ UNCHANGED <<fsVars, args, opts, holder, catVars, scanTab, mergeTab>>

First(s, i) == paths[s][i][1]

(* The file is opened for the blocks at both ends, and by hash_file. *)
HashFile(s) ==
  /\ pc[s] = "hash" /\ Exists(First(s, cur[s]))
  /\ Gets(s, node[dir[First(s, cur[s])]].data)
  /\ Goes(s, IF Cached(s) THEN "put" ELSE "read")
  /\ UNCHANGED <<fsVars, hashFileVars, args, opts, holder, catVars, scanTab, mergeTab>>

HashFails(s) == pc[s] = "hash" /\ ~Exists(First(s, cur[s])) /\ Fails(s)

PutHash(s) ==
  /\ pc[s] = "put" /\ HPut(s, cur[s], got[s][cur[s]])
  /\ Goes(s, "read")
  /\ UNCHANGED <<fsVars, args, opts, holder, catVars, scanTab, passTab, mergeTab>>

Switch(s) ==
  /\ \/ pc[s] = "get" /\ ~GetReturnsEarly(s) /\ DoneClose(s, FALSE)
     \/ pc[s] = "put" /\ DoneClose(s, TRUE)
     \/ pc[s] = "free" /\ Cached(s) /\ DoneClose(s, FALSE)
     \/ pc[s] \in {"get", "put", "free"} /\ DoneStep(s)
  /\ UNCHANGED <<fsVars, pc, args, opts, holder, catVars, scanTab, passTab, mergeTab>>

SwitchFails(s) == pc[s] \in {"get", "put", "free"} /\ RenameFails(s) /\ Fails(s)

ReadDone(s) ==
  /\ pc[s] = "read" /\ \A i \in part[s] : got[s][i] # NoData
  /\ Goes(s, "merge")
  /\ UNCHANGED <<fsVars, hashFileVars, args, opts, holder, catVars, scanTab, passTab, mergeTab>>

--------------------------------------------------------------------------------
(* do_dedup.                                                                    *)

(* Mutant of PartOf: whatever has one size is taken for the same. *)
PartBySize(s, i) == part[s]

PartOf(s, i) == {j \in part[s] : got[s][j] = got[s][i]}

(* Mutant of Victims: the loop starts at the oldest. *)
VictimsAndOldest(s, b) == PartOf(s, b)

Victims(s, b) == PartOf(s, b) \ {b}

CallDoDedup(s) ==
  /\ pc[s] = "merge"
  /\ \E b \in part[s] :
       /\ bpath' = [bpath EXCEPT ![s] = First(s, b)]
       /\ rest' = [rest EXCEPT ![s] = Victims(s, b)]
       /\ part' = [part EXCEPT ![s] = @ \ PartOf(s, b)]
  /\ Goes(s, "unlink")
  /\ UNCHANGED <<fsVars, hashFileVars, args, opts, holder, catVars, scanTab, left, got, cur, vics>>

NextCluster(s) ==
  /\ pc[s] = "merge" /\ part[s] = {}
  /\ Goes(s, "pass")
  /\ UNCHANGED <<fsVars, hashFileVars, args, opts, holder, catVars, scanTab, passTab, mergeTab>>

NextVictim(s) ==
  /\ pc[s] = "unlink" /\ vics[s] = << >>
  /\ \/ \E i \in rest[s] :
          /\ vics' = [vics EXCEPT ![s] = paths[s][i]]
          /\ rest' = [rest EXCEPT ![s] = @ \ {i}]
          /\ UNCHANGED <<pc, bpath>>
     \/ rest[s] = {} /\ Goes(s, "merge") /\ UNCHANGED mergeTab
  /\ UNCHANGED <<fsVars, hashFileVars, args, opts, holder, catVars, scanTab, passTab>>

Unlink(s) ==
  /\ pc[s] = "unlink" /\ vics[s] # << >> /\ CanUnlink(Head(vics[s]))
  /\ UnlinkPath(Head(vics[s]))
  /\ Goes(s, "link")
  /\ UNCHANGED <<node, history, touched, moved, changes, hashFileVars, args, opts, holder,
                 catVars, scanTab, passTab, mergeTab>>

Link(s) ==
  /\ pc[s] = "link" /\ CanLink(bpath[s], Head(vics[s]))
  /\ LinkPath(bpath[s], Head(vics[s]))
  /\ vics' = [vics EXCEPT ![s] = Tail(@)]
  /\ Goes(s, "unlink")
  /\ UNCHANGED <<node, history, touched, moved, changes, hashFileVars, args, opts, holder,
                 catVars, scanTab, passTab, bpath, rest>>

MergeFails(s) ==
  /\ \/ pc[s] = "unlink" /\ vics[s] # << >> /\ ~CanUnlink(Head(vics[s]))
     \/ pc[s] = "link" /\ ~CanLink(bpath[s], Head(vics[s]))
  /\ Fails(s)

--------------------------------------------------------------------------------
Close(s) ==
  /\ pc[s] = "free" /\ (Cached(s) => Prepared(s, FALSE))
  /\ Exits(s, "done")
  /\ UNCHANGED catVars

Step(s) ==
  \/ GetOption(s) \/ StartScan(s)
  \/ \E p \in Path : ScanPath(s, p) \/ PassOver(s, p)
  \/ ScanFails(s) \/ ScanDone(s)
  \/ Pick(s) \/ PassesDone(s)
  \/ \E i \in Inode : Turn(s, i)
  \/ GetHash(s) \/ HashFile(s) \/ HashFails(s) \/ PutHash(s) \/ Switch(s) \/ SwitchFails(s)
  \/ Faults(s) \/ ReadDone(s)
  \/ CallDoDedup(s) \/ NextCluster(s) \/ NextVictim(s) \/ Unlink(s) \/ Link(s) \/ MergeFails(s)
  \/ Close(s)

AllEnded == \A s \in Proc : pc[s] \in Ended
Stays == AllEnded /\ UNCHANGED runsVars

Next == (\E s \in Proc : Step(s) \/ FlushesEarly(s) \/ Kill(s)) \/ Stays

Spec == Init /\ [][Next]_runsVars

(* The scheduler runs every process that can go on. *)
FairSpec == Spec /\ \A s \in Proc : WF_runsVars(Step(s))
--------------------------------------------------------------------------------
(* Properties.                                                                  *)

AllLock == \A s \in Proc : Uses(s, "l")
Before(s, o1, o2) == \A j, k \in DOMAIN args[s] : args[s][j] = o1 /\ args[s][k] = o2 => j < k

(* Whatever order the calls of several runs come in, with the lock or without it, a     *)
(* name leads to a file with the contents and the owner it had, or to none               *)
(* (undup.c:130-134).                                                                    *)
NeverAnotherFile ==
  \A p \in Path : Exists(p) => dir0[p] # NoInode /\ SameFile(node0[dir0[p]], node[dir[p]])

(* "create an exclusive lock (to avoid overruning)" (undup.c:297): among runs that all     *)
(* take it, a name is missing only for one that is about to be linked or that was killed   *)
(* there, and the contents of every file stay within reach.  Two runs that do not may       *)
(* each remove the other's oldest file.                                                      *)
LockedRunsKeepNames ==
  AllLock =>
    /\ Cardinality({p \in Path : dir0[p] # NoInode /\ ~Exists(p)})
         <= Cardinality({s \in Proc : pc[s] = "link" \/ (pc[s] = "killed" /\ vics[s] # << >>)})
    /\ \A p \in Path : dir0[p] # NoInode =>
         \E q \in Path : Exists(q) /\ SameFile(node0[dir0[p]], node[dir[q]])

(* Nor does one of them fail, at a file or a name that another has removed, a full entry     *)
(* of inodetab, or a cache that is in use, even after kills (fscanner.c:76,                    *)
(* inodetab.c:71, hcache.c:136, 149).  Path has the files of the tree: a .hcd.validate that    *)
(* the scan took for one (CachesIgnored of module FScanner), and a .hcd that gdbm refuses,     *)
(* are not in it.                                                                                *)
LockedRunsSucceed == AllLock => \A s \in Proc : pc[s] # "failed"

(* Runs that lock before they open the catalogue leave whole ones: while the lock is held,     *)
(* a catalogue that has been closed has a line of that run for each file it met, and no          *)
(* other (undup.c:175-182, 389).  Nothing is said of those that open it before they lock.          *)
CatalogueWhole ==
  (\A s \in Proc : Uses(s, "l") /\ Before(s, "l", "c")) =>
    \A s \in Proc :
      holder = s /\ Uses(s, "c") /\ pc[s] \notin {"opts", "scan"} =>
        /\ \A j \in DOMAIN cat : cat[j] = s
        /\ Len(cat) = Cardinality(UNION {Range(paths[s][i]) : i \in Inode})

(* All hashes that a locked run has computed or found are in .hcd when it ends, for the     *)
(* next one to find (hcache.c:119-186).                                                        *)
LockedRunsKeepHashes ==
  AllLock =>
    \A s \in Proc : pc[s] = "free" /\ Cached(s) /\ Prepared(s, FALSE) =>
      \A i \in Inode : got[s][i] # NoData => hcdName # NoFile /\ db[hcdName][i] = got[s][i]

(* No run waits for ever: the lock goes with the process that holds it, however that ends     *)
(* (utils.h:135).                                                                               *)
EveryRunEnds == <>AllEnded
================================================================================
