------------------------------- MODULE RunsProofs -------------------------------
(***************************************************************************)
(* However many runs of undup work on one tree, with or without -l and the cache,   *)
(* and whichever of them are killed, no name comes to lead to another file than it   *)
(* did.  A run relies on what it recorded of names that others may have moved since:  *)
(* the invariant says that a name recorded for an inode had its contents and owner     *)
(* from the start, that a hash in a table or in a cache file is that of its inode, and  *)
(* that what do_dedup has in hand is of one cluster.                                     *)
(*                                                                                  *)
(* The second part is what the lock is for.  A process that takes it is alone with    *)
(* others that do (AloneInv); then the cache files are as it left them (CachesInv),     *)
(* the tree has what it scanned but for what it merged (TreeInv), and the catalogue      *)
(* has its lines and no other's (LinesInv), whoever was killed before.                    *)
(***************************************************************************)
EXTENDS Runs, FiniteSetTheorems, TLAPS

USE FileSystemAssumption, HashFilesAssumption, RunsAssumption

MaybeData == Data \cup {NoData}
MaybeFile == DBFile \cup {NoFile}

HashTypes ==
  /\ hcdName \in MaybeFile /\ valName \in MaybeFile
  /\ db \in [DBFile -> [Inode -> MaybeData]]
  /\ hdbf \in [Proc -> MaybeFile] /\ hval \in [Proc -> MaybeFile]

(* What a cache file says of an inode is the hash of its contents. *)
HashesRight == \A f \in DBFile, i \in Inode : db[f][i] \in {NoData, node[i].data}

HashInv == HashTypes /\ HashesRight

FileTypes ==
  /\ dir \in [Path -> Inode \cup {NoInode}] /\ node \in [Inode -> File]
  /\ dir0 \in [Path -> Inode \cup {NoInode}] /\ node0 \in [Inode -> File]

TableTypes ==
  /\ pc \in [Proc -> Stages]
  /\ paths \in [Proc -> [Inode -> Seq(Path)]] /\ slots \in [Proc -> [Inode -> Nat]]
  /\ left \in [Proc -> SUBSET Inode] /\ part \in [Proc -> SUBSET Inode]
  /\ got \in [Proc -> [Inode -> MaybeData]] /\ cur \in [Proc -> Inode \cup {NoInode}]
  /\ bpath \in [Proc -> Path \cup {NoPath}] /\ rest \in [Proc -> SUBSET Inode]
  /\ vics \in [Proc -> Seq(Path)]

(* Path p led, when the runs began, to a file like inode i. *)
Right(p, i) == dir0[p] # NoInode /\ SameFile(node0[dir0[p]], node[i])

Noted(s) == {i \in Inode : Len(paths[s][i]) > 0}

(* What process s has in its tables. *)
ScanOK(s) ==
  \A i \in Inode :
    /\ Met(s, i) => Len(paths[s][i]) > 0
    /\ \A j \in 1..Len(paths[s][i]) : Right(paths[s][i][j], i)

PassOK(s) ==
  /\ left[s] \subseteq Noted(s) /\ part[s] \subseteq Noted(s) /\ rest[s] \subseteq Noted(s)
  /\ \A i \in Inode : got[s][i] \in {NoData, node[i].data}
  /\ \A i, j \in part[s] : Alike(i, j)
  /\ pc[s] \in {"merge", "unlink", "link"} => \A i \in part[s] : got[s][i] # NoData
  /\ pc[s] \in {"get", "hash", "put"} => cur[s] \in Noted(s)

MergeOK(s) ==
  /\ pc[s] \in {"unlink", "link"} =>
       /\ bpath[s] \in Path /\ dir0[bpath[s]] # NoInode
       /\ \A i \in rest[s] : Right(bpath[s], i)
       /\ \A j \in 1..Len(vics[s]) :
            /\ dir0[vics[s][j]] # NoInode
            /\ SameFile(node0[dir0[vics[s][j]]], node0[dir0[bpath[s]]])
  /\ pc[s] \notin {"unlink", "link"} \cup Ended => vics[s] = << >>
  /\ pc[s] = "link" => vics[s] # << >>

LocalOK(s) == ScanOK(s) /\ PassOK(s) /\ MergeOK(s)

RunsInv ==
  FileTypes /\ TableTypes /\ HashInv /\ NeverAnotherFile /\ \A s \in Proc : LocalOK(s)

(* A step of s leaves the tables of the others alone, and the files. *)
Apart(s) ==
  /\ UNCHANGED <<node, dir0, node0>>
  /\ \A r \in Proc \ {s} :
       /\ pc'[r] = pc[r] /\ paths'[r] = paths[r] /\ slots'[r] = slots[r]
       /\ left'[r] = left[r] /\ part'[r] = part[r] /\ got'[r] = got[r] /\ cur'[r] = cur[r]
       /\ bpath'[r] = bpath[r] /\ rest'[r] = rest[r] /\ vics'[r] = vics[r]

LEMMA StepOfOne ==
  ASSUME RunsInv, NEW s \in Proc, Apart(s),
         (FileTypes /\ TableTypes /\ HashInv /\ NeverAnotherFile)', LocalOK(s)'
  PROVE  RunsInv'
<1>1. ASSUME NEW r \in Proc, r # s PROVE LocalOK(r)'
  <2>1. LocalOK(r)
    BY DEF RunsInv
  <2>2. /\ pc'[r] = pc[r] /\ paths'[r] = paths[r] /\ slots'[r] = slots[r]
        /\ left'[r] = left[r] /\ part'[r] = part[r] /\ got'[r] = got[r] /\ cur'[r] = cur[r]
        /\ bpath'[r] = bpath[r] /\ rest'[r] = rest[r] /\ vics'[r] = vics[r]
        /\ node' = node /\ dir0' = dir0 /\ node0' = node0
    BY <1>1 DEF Apart
  <2>3. ScanOK(r)'
    BY <2>1, <2>2 DEF LocalOK, ScanOK, Met, Right, SameFile
  <2>4. PassOK(r)'
    BY <2>1, <2>2 DEF LocalOK, PassOK, Noted, Alike
  <2>5. MergeOK(r)'
    BY <2>1, <2>2 DEF LocalOK, MergeOK, Right, SameFile
  <2> QED
    BY <2>3, <2>4, <2>5 DEF LocalOK
<1>2. (\A r \in Proc : LocalOK(r))'
  BY <1>1
<1>3. FileTypes' /\ TableTypes' /\ HashInv' /\ NeverAnotherFile'
  OBVIOUS
<1> QED
  BY <1>2, <1>3 DEF RunsInv

--------------------------------------------------------------------------------
(* The cache files. *)
LEMMA SpareIsFile == Spares # {} => Spare \in DBFile
BY DEF Spare, Spares

LEMMA HNewInv == ASSUME HashInv, NEW s \in Proc, node' = node, HNew(s) PROVE HashInv'
BY DEF HashInv, HashTypes, HashesRight, HNew, MaybeFile

LEMMA HValidateInv ==
  ASSUME HashInv, NEW s \in Proc, NEW i \in Inode, node \in [Inode -> File], node' = node,
         HValidate(s, i)
  PROVE  HashInv'
<1> DEFINE f == IF hval[s] # NoFile THEN hval[s] ELSE Created(valName)
           old == IF hval[s] # NoFile THEN db[f] ELSE NoHashes
           new == [old EXCEPT ![i] = Validated(s)[i]]
<1>1. f \in DBFile
  BY SpareIsFile DEF HashInv, HashTypes, HValidate, CanCreate, Created, MaybeFile
<1>2. /\ old \in [Inode -> MaybeData]
      /\ \A j \in Inode : old[j] \in {NoData, node[j].data}
  BY <1>1 DEF HashInv, HashTypes, HashesRight, NoHashes, MaybeData
<1>3. Validated(s)[i] \in {NoData, node[i].data} /\ Validated(s)[i] \in MaybeData
  BY DEF Validated, HashInv, HashTypes, HashesRight, NoHashes, MaybeFile, MaybeData
<1>4. /\ db' = [db EXCEPT ![f] = new] /\ hval' = [hval EXCEPT ![s] = f]
      /\ valName' = (IF hval[s] # NoFile THEN valName ELSE f)
      /\ UNCHANGED <<hcdName, hdbf>>
  BY DEF HValidate
<1> HIDE DEF f, old
<1>5. new \in [Inode -> MaybeData] /\ \A j \in Inode : new[j] \in {NoData, node[j].data}
  BY <1>2, <1>3
<1> HIDE DEF new
<1>6. HashTypes'
  BY <1>1, <1>4, <1>5 DEF HashInv, HashTypes, MaybeFile
<1>7. HashesRight'
  BY <1>1, <1>4, <1>5 DEF HashInv, HashTypes, HashesRight
<1> QED
  BY <1>6, <1>7 DEF HashInv

LEMMA SwitchInv ==
  ASSUME HashInv, NEW s \in Proc, NEW iswr, node' = node, DoneClose(s, iswr) \/ DoneStep(s)
  PROVE  HashInv'
<1>1. CASE DoneClose(s, iswr)
  BY <1>1 DEF HashInv, HashTypes, HashesRight, DoneClose, MaybeFile
<1>2. CASE DoneUnlink(s)
  BY <1>2 DEF HashInv, HashTypes, HashesRight, DoneUnlink, MaybeFile
<1>3. CASE DoneRename(s)
  BY <1>3 DEF HashInv, HashTypes, HashesRight, DoneRename, MaybeFile
<1>4. CASE DoneReopen(s) /\ ~CanWrite(hcdName)
  BY <1>4 DEF HashInv, HashTypes, HashesRight, DoneReopen, MaybeFile
<1>5. CASE DoneReopen(s) /\ CanWrite(hcdName)
  <2>1. /\ hcdName' \in DBFile
        /\ hcdName' = Created(hcdName) /\ hdbf' = [hdbf EXCEPT ![s] = hcdName']
        /\ db' = (IF hcdName = NoFile THEN [db EXCEPT ![hcdName'] = NoHashes] ELSE db)
        /\ UNCHANGED <<valName, hval>>
    BY <1>5, SpareIsFile DEF DoneReopen, CanCreate, Created, HashInv, HashTypes, MaybeFile
  <2>2. NoHashes \in [Inode -> MaybeData] /\ \A i \in Inode : NoHashes[i] = NoData
    BY DEF NoHashes, MaybeData
  <2>3. HashTypes'
    BY <2>1, <2>2 DEF HashInv, HashTypes, MaybeFile
  <2>4. HashesRight'
    BY <2>1, <2>2 DEF HashInv, HashTypes, HashesRight
  <2> QED
    BY <2>3, <2>4 DEF HashInv
<1> QED
  BY <1>1, <1>2, <1>3, <1>4, <1>5 DEF DoneStep

LEMMA HPutInv ==
  ASSUME HashInv, NEW s \in Proc, NEW i \in Inode, NEW hash \in MaybeData,
         hash \in {NoData, node[i].data}, node' = node, HPut(s, i, hash)
  PROVE  HashInv'
<1>1. /\ hdbf[s] \in DBFile
      /\ db' = [db EXCEPT ![hdbf[s]] = [db[hdbf[s]] EXCEPT ![i] = hash]]
      /\ UNCHANGED <<hcdName, valName, hdbf, hval>>
  BY DEF HPut, HashInv, HashTypes, MaybeFile
<1>2. HashTypes'
  BY <1>1 DEF HashInv, HashTypes
<1>3. HashesRight'
  BY <1>1 DEF HashInv, HashTypes, HashesRight
<1> QED
  BY <1>2, <1>3 DEF HashInv

LEMMA HQuietInv ==
  ASSUME HashInv, NEW s \in Proc, node' = node,
         HGet(s) \/ HClosed(s) \/ UNCHANGED hashFileVars
  PROVE  HashInv'
BY DEF HashInv, HashTypes, HashesRight, HGet, HClosed, hashFileVars, MaybeFile

--------------------------------------------------------------------------------
(* The end of a process. *)
LEMMA ExitsInv ==
  ASSUME RunsInv, NEW s \in Proc, NEW stage \in Ended, Exits(s, stage)
  PROVE  RunsInv'
<1>0. FileTypes /\ TableTypes /\ HashInv /\ NeverAnotherFile /\ LocalOK(s)
  BY DEF RunsInv
<1>1. /\ UNCHANGED <<dir, node, dir0, node0, vics>> /\ HClosed(s)
      /\ pc' = [pc EXCEPT ![s] = stage]
      /\ paths' = [paths EXCEPT ![s] = NoPaths] /\ slots' = [slots EXCEPT ![s] = NoSlots]
      /\ left' = [left EXCEPT ![s] = {}] /\ part' = [part EXCEPT ![s] = {}]
      /\ got' = [got EXCEPT ![s] = NoHashes] /\ cur' = [cur EXCEPT ![s] = NoInode]
      /\ bpath' = [bpath EXCEPT ![s] = NoPath] /\ rest' = [rest EXCEPT ![s] = {}]
  BY DEF Exits, Goes, fsVars
<1>2. Apart(s)
  BY <1>0, <1>1 DEF Apart, TableTypes
<1>3. HashInv'
  BY <1>0, <1>1, HQuietInv
<1>4. NeverAnotherFile' /\ FileTypes'
  BY <1>0, <1>1 DEF NeverAnotherFile, FileTypes, Exists, SameFile
<1>5. /\ NoPaths \in [Inode -> Seq(Path)] /\ \A i \in Inode : Len(NoPaths[i]) = 0
      /\ NoSlots \in [Inode -> Nat] /\ \A i \in Inode : NoSlots[i] = 0
      /\ NoHashes \in [Inode -> MaybeData] /\ \A i \in Inode : NoHashes[i] = NoData
  BY DEF NoPaths, NoSlots, NoHashes, MaybeData
<1>6. TableTypes'
  BY <1>0, <1>1, <1>5 DEF TableTypes, Stages
<1>7. /\ pc'[s] = stage /\ paths'[s] = NoPaths /\ slots'[s] = NoSlots
      /\ left'[s] = {} /\ part'[s] = {} /\ got'[s] = NoHashes /\ rest'[s] = {}
  BY <1>0, <1>1 DEF TableTypes
<1>8. ScanOK(s)'
  BY <1>5, <1>7 DEF ScanOK, Met
<1>9. stage \notin {"merge", "unlink", "link", "get", "hash", "put"}
  BY DEF Ended
<1>10. PassOK(s)'
  BY <1>5, <1>7, <1>9 DEF PassOK
<1>11. MergeOK(s)'
  BY <1>7, <1>9 DEF MergeOK
<1> QED
  BY <1>2, <1>3, <1>4, <1>6, <1>8, <1>10, <1>11, StepOfOne DEF LocalOK

LEMMA EndsInv ==
  ASSUME RunsInv, NEW s \in Proc,
         \/ ScanFails(s) \/ HashFails(s) \/ SwitchFails(s) \/ MergeFails(s)
         \/ Faults(s) \/ Kill(s) \/ Close(s)
  PROVE  RunsInv'
<1>1. \E stage \in Ended : Exits(s, stage)
  BY DEF ScanFails, HashFails, SwitchFails, MergeFails, Faults, Kill, Close, Fails, Dies, Ended
<1> QED
  BY <1>1, ExitsInv

(* Steps that move the process on, and change at most what it has yet to look at. *)
Stage(s, stage) ==
  /\ pc' = [pc EXCEPT ![s] = stage] /\ stage \in Stages
  /\ UNCHANGED <<dir, node, dir0, node0, paths, slots, part, got, bpath, rest, vics>>

LEMMA StageInv ==
  ASSUME RunsInv, NEW s \in Proc, NEW stage, Stage(s, stage), HashInv',
         left' = left \/ left' = [left EXCEPT ![s] = {i \in Inode : Met(s, i)}],
         cur' = cur \/ (\E i \in part[s] : cur' = [cur EXCEPT ![s] = i]),
         \/ stage = pc[s]
         \/ stage \in {"scan", "pass", "free"} /\ vics[s] = << >>
         \/ stage = "merge" /\ vics[s] = << >> /\ \A i \in part[s] : got[s][i] # NoData
         \/ stage \in {"get", "hash"} /\ vics[s] = << >>
              /\ \E i \in part[s] : cur' = [cur EXCEPT ![s] = i]
  PROVE  RunsInv'
<1>0. FileTypes /\ TableTypes /\ HashInv /\ NeverAnotherFile /\ LocalOK(s)
  BY DEF RunsInv
<1> USE DEF Stage
<1>1. Apart(s)
  BY <1>0 DEF Apart, TableTypes
<1>2. NeverAnotherFile' /\ FileTypes'
  BY <1>0 DEF NeverAnotherFile, FileTypes, Exists, SameFile
<1>3. TableTypes'
  <2>1. left' \in [Proc -> SUBSET Inode]
    <3> DEFINE M == {i \in Inode : Met(s, i)}
    <3>1. M \in SUBSET Inode /\ (left' = left \/ left' = [left EXCEPT ![s] = M])
      OBVIOUS
    <3> HIDE DEF M
    <3> QED
      BY <1>0, <3>1 DEF TableTypes
  <2>2. cur' \in [Proc -> Inode \cup {NoInode}]
    <3>1. ASSUME NEW i \in part[s], cur' = [cur EXCEPT ![s] = i]
          PROVE  cur' \in [Proc -> Inode \cup {NoInode}]
      <4>1. i \in Inode
        BY <1>0 DEF TableTypes
      <4> QED
        BY <1>0, <3>1, <4>1 DEF TableTypes
    <3> QED
      BY <1>0, <3>1 DEF TableTypes
  <2>3. pc' \in [Proc -> Stages]
    BY <1>0 DEF TableTypes
  <2> QED
    BY <1>0, <2>1, <2>2, <2>3 DEF TableTypes
<1>4. ScanOK(s)'
  BY <1>0 DEF LocalOK, ScanOK, Met, Right, SameFile
<1>5. Noted(s)' = Noted(s) /\ left'[s] \subseteq Noted(s) /\ pc'[s] = stage
  BY <1>0 DEF TableTypes, LocalOK, ScanOK, PassOK, Noted
<1>6. PassOK(s)'
  <2>1. stage \in {"merge", "unlink", "link"} => \A i \in part[s] : got[s][i] # NoData
    BY <1>0 DEF LocalOK, PassOK
  <2>2. stage \in {"get", "hash", "put"} => cur'[s] \in Noted(s)
    BY <1>0 DEF LocalOK, PassOK, TableTypes
  <2> QED
    BY <1>0, <1>5, <2>1, <2>2 DEF LocalOK, PassOK, Alike
<1>7. MergeOK(s)'
  BY <1>0, <1>5 DEF LocalOK, MergeOK, Right, SameFile, Ended
<1> QED
  BY <1>0, <1>1, <1>2, <1>3, <1>4, <1>6, <1>7, StepOfOne DEF LocalOK

LEMMA OptionsInv ==
  ASSUME RunsInv, NEW s \in Proc,
         GetOption(s) \/ StartScan(s) \/ FlushesEarly(s) \/ (\E p \in Path : PassOver(s, p))
  PROVE  RunsInv'
<1>0. FileTypes /\ TableTypes /\ HashInv /\ LocalOK(s)
  BY DEF RunsInv
<1>1. CASE GetOption(s) \/ FlushesEarly(s) \/ (\E p \in Path : PassOver(s, p))
  <2>1. pc' = pc /\ UNCHANGED <<fsVars, hashFileVars, paths, slots, passTab, mergeTab>>
    BY <1>1 DEF GetOption, FlushesEarly, PassOver, scanTab
  <2>2. pc[s] \in Stages /\ pc' = [pc EXCEPT ![s] = pc[s]]
    BY <1>0, <2>1 DEF TableTypes
  <2>3. Stage(s, pc[s]) /\ left' = left /\ cur' = cur
    BY <2>1, <2>2 DEF Stage, fsVars, passTab, mergeTab
  <2>4. HashInv'
    BY <1>0, <2>1, HQuietInv DEF fsVars
  <2> QED
    BY <2>3, <2>4, StageInv
<1>2. CASE StartScan(s)
  <2>1. /\ pc[s] = "opts" /\ Goes(s, "scan")
        /\ UNCHANGED <<fsVars, paths, slots, passTab, mergeTab>>
    BY <1>2 DEF StartScan
  <2>2. Stage(s, "scan") /\ left' = left /\ cur' = cur
    BY <2>1 DEF Stage, Stages, Goes, fsVars, passTab, mergeTab
  <2>3. HashInv'
    BY <1>0, <1>2, <2>1, HNewInv, HQuietInv DEF StartScan, fsVars
  <2>4. vics[s] = << >>
    BY <1>0, <2>1 DEF LocalOK, MergeOK, Ended
  <2> QED
    BY <2>2, <2>3, <2>4, StageInv
<1> QED
  BY <1>1, <1>2

LEMMA GoesOnInv ==
  ASSUME RunsInv, NEW s \in Proc,
         ScanDone(s) \/ PassesDone(s) \/ ReadDone(s) \/ NextCluster(s) \/ Switch(s)
         \/ (\E i \in Inode : Turn(s, i))
  PROVE  RunsInv'
<1>0. FileTypes /\ TableTypes /\ HashInv /\ LocalOK(s)
  BY DEF RunsInv
<1>1. pc[s] \notin {"unlink", "link"} \cup Ended => vics[s] = << >>
  BY <1>0 DEF LocalOK, MergeOK
<1>2. CASE ScanDone(s)
  <2>1. Stage(s, "pass") /\ cur' = cur /\ left' = [left EXCEPT ![s] = {i \in Inode : Met(s, i)}]
    BY <1>2 DEF ScanDone, Stage, Stages, Goes, fsVars, scanTab, mergeTab
  <2>2. HashInv'
    BY <1>0, <1>2, HQuietInv DEF ScanDone, fsVars
  <2>3. vics[s] = << >>
    BY <1>1, <1>2 DEF ScanDone, Ended
  <2> QED
    BY <2>1, <2>2, <2>3, StageInv
<1>3. CASE PassesDone(s) \/ ReadDone(s) \/ NextCluster(s)
  <2>1. /\ pc[s] \in {"pass", "read", "merge"}
        /\ UNCHANGED <<fsVars, hashFileVars, scanTab, passTab, mergeTab>>
    BY <1>3 DEF PassesDone, ReadDone, NextCluster
  <2>2. HashInv' /\ left' = left /\ cur' = cur
    BY <1>0, <2>1, HQuietInv DEF fsVars, passTab
  <2>3. vics[s] = << >>
    BY <1>1, <2>1 DEF Ended
  <2>4. CASE PassesDone(s)
    <3>1. Stage(s, "free")
      BY <2>1, <2>4 DEF PassesDone, Stage, Stages, Goes, fsVars, scanTab, passTab, mergeTab
    <3> QED
      BY <2>2, <2>3, <3>1, StageInv
  <2>5. CASE ReadDone(s)
    <3>1. Stage(s, "merge") /\ \A i \in part[s] : got[s][i] # NoData
      BY <2>1, <2>5 DEF ReadDone, Stage, Stages, Goes, fsVars, scanTab, passTab, mergeTab
    <3> QED
      BY <2>2, <2>3, <3>1, StageInv
  <2>6. CASE NextCluster(s)
    <3>1. Stage(s, "pass")
      BY <2>1, <2>6 DEF NextCluster, Stage, Stages, Goes, fsVars, scanTab, passTab, mergeTab
    <3> QED
      BY <2>2, <2>3, <3>1, StageInv
  <2> QED
    BY <1>3, <2>4, <2>5, <2>6
<1>4. CASE Switch(s)
  <2>1. UNCHANGED <<fsVars, pc, scanTab, passTab, mergeTab>>
    BY <1>4 DEF Switch
  <2>2. Stage(s, pc[s]) /\ left' = left /\ cur' = cur
    BY <1>0, <2>1 DEF Stage, TableTypes, fsVars, scanTab, passTab, mergeTab
  <2>3. HashInv'
    BY <1>0, <1>4, <2>1, SwitchInv DEF Switch, fsVars
  <2> QED
    BY <2>2, <2>3, StageInv
<1>5. ASSUME NEW i \in Inode, Turn(s, i) PROVE RunsInv'
  <2> DEFINE stage == IF Cached(s) THEN "get" ELSE "hash"
  <2>1. /\ pc[s] = "read" /\ i \in part[s] /\ cur' = [cur EXCEPT ![s] = i] /\ left' = left
        /\ Goes(s, stage) /\ UNCHANGED <<fsVars, hashFileVars, scanTab, part, got, mergeTab>>
    BY <1>5 DEF Turn
  <2>2. stage \in {"get", "hash"}
    OBVIOUS
  <2> HIDE DEF stage
  <2>3. Stage(s, stage)
    BY <2>1, <2>2 DEF Stage, Stages, Goes, fsVars, scanTab, mergeTab
  <2>4. HashInv'
    BY <1>0, <2>1, HQuietInv DEF fsVars
  <2>5. vics[s] = << >>
    BY <1>1, <2>1 DEF Ended
  <2> QED
    BY <2>1, <2>2, <2>3, <2>4, <2>5, StageInv
<1> QED
  BY <1>2, <1>3, <1>4, <1>5

--------------------------------------------------------------------------------
(* A name is recorded for the inode it leads to: by NeverAnotherFile it had its        *)
(* contents and owner from the start.                                                    *)
LEMMA ScanPathInv ==
  ASSUME RunsInv, NEW s \in Proc, NEW p \in Path, ScanPath(s, p)
  PROVE  RunsInv'
<1>0. FileTypes /\ TableTypes /\ HashInv /\ NeverAnotherFile /\ LocalOK(s)
  BY DEF RunsInv
<1> DEFINE i == dir[p]
           n == IF Met(s, i) THEN slots[s][i] ELSE Cardinality(Names(i))
           new == Append(paths[s][i], p)
<1>1. /\ pc[s] = "scan" /\ Exists(p) /\ UNCHANGED <<fsVars, pc, passTab, mergeTab>>
      /\ slots' = [slots EXCEPT ![s] = [slots[s] EXCEPT ![i] = n]]
      /\ paths' = [paths EXCEPT ![s] = [paths[s] EXCEPT ![i] = new]]
      /\ HValidate(s, i) \/ UNCHANGED hashFileVars
  BY <1>0 DEF ScanPath, TableTypes
<1>2. i \in Inode /\ Right(p, i)
  BY <1>0, <1>1 DEF Exists, FileTypes, NeverAnotherFile, Right, SameFile
<1>3. UNCHANGED <<dir, node, dir0, node0, pc, left, part, got, cur, bpath, rest, vics>>
  BY <1>1 DEF fsVars, passTab, mergeTab
<1>4. HashInv'
  BY <1>0, <1>1, <1>2, <1>3, HValidateInv, HQuietInv DEF FileTypes
<1>7. n \in Nat
  <2>1. IsFiniteSet(Names(i))
    BY FS_Subset DEF Names
  <2>2. Cardinality(Names(i)) \in Nat
    BY <2>1, FS_CardinalityType
  <2>3. slots[s][i] \in Nat
    BY <1>0, <1>2 DEF TableTypes
  <2> QED
    BY <2>2, <2>3
<1> HIDE DEF i, n
<1>5. /\ paths[s] \in [Inode -> Seq(Path)] /\ paths[s][i] \in Seq(Path)
      /\ new \in Seq(Path) /\ Len(new) = Len(paths[s][i]) + 1 /\ Len(paths[s][i]) \in Nat
  BY <1>0, <1>2 DEF TableTypes
<1>6. \A j \in 1..Len(new) : Right(new[j], i)
  <2> SUFFICES ASSUME NEW j \in 1..Len(new) PROVE Right(new[j], i)
    OBVIOUS
  <2>1. CASE j \in 1..Len(paths[s][i])
    BY <2>1, <1>0, <1>2, <1>5 DEF LocalOK, ScanOK
  <2>2. CASE j = Len(paths[s][i]) + 1
    BY <2>2, <1>2, <1>5
  <2>3. j \in 1..Len(paths[s][i]) \/ j = Len(paths[s][i]) + 1
    BY <1>5
  <2> QED
    BY <2>1, <2>2, <2>3
<1> HIDE DEF new
<1>9. /\ paths' \in [Proc -> [Inode -> Seq(Path)]] /\ paths'[s][i] = new
      /\ slots' \in [Proc -> [Inode -> Nat]]
      /\ \A k \in Inode \ {i} : paths'[s][k] = paths[s][k] /\ slots'[s][k] = slots[s][k]
      /\ \A r \in Proc \ {s} : paths'[r] = paths[r] /\ slots'[r] = slots[r]
  BY <1>0, <1>1, <1>2, <1>5, <1>7 DEF TableTypes
<1>10. Apart(s)
  BY <1>3, <1>9 DEF Apart
<1>11. NeverAnotherFile' /\ FileTypes'
  BY <1>0, <1>3 DEF NeverAnotherFile, FileTypes, Exists, SameFile
<1>12. TableTypes'
  BY <1>0, <1>1, <1>2, <1>3, <1>9 DEF TableTypes
<1>13. ScanOK(s)'
  <2>1. ASSUME NEW k \in Inode
        PROVE  /\ Met(s, k)' => Len(paths'[s][k]) > 0
               /\ \A j \in 1..Len(paths'[s][k]) : Right(paths'[s][k][j], k)
    <3>1. CASE k = i
      BY <3>1, <1>5, <1>6, <1>9
    <3>2. CASE k # i
      BY <3>2, <1>0, <1>9 DEF LocalOK, ScanOK, Met
    <3> QED
      BY <3>1, <3>2
  <2> QED
    BY <2>1, <1>3 DEF ScanOK, Right, SameFile
<1>14. PassOK(s)'
  <2>1. Noted(s) \subseteq Noted(s)'
    <3>1. Len(paths'[s][i]) > 0
      BY <1>5, <1>9
    <3> QED
      BY <3>1, <1>9 DEF Noted
  <2> QED
    BY <1>0, <1>3, <2>1 DEF LocalOK, PassOK, Alike
<1>15. MergeOK(s)'
  BY <1>0, <1>3 DEF LocalOK, MergeOK, Right, SameFile
<1> QED
  BY <1>4, <1>10, <1>11, <1>12, <1>13, <1>14, <1>15, StepOfOne DEF LocalOK

LEMMA PickInv ==
  ASSUME RunsInv, NEW s \in Proc, Pick(s)
  PROVE  RunsInv'
<1>0. FileTypes /\ TableTypes /\ HashInv /\ NeverAnotherFile /\ LocalOK(s)
  BY DEF RunsInv
<1>1. PICK i \in left[s] :
        /\ left' = [left EXCEPT ![s] = @ \ {j \in left[s] : Alike(i, j)}]
        /\ part' = [part EXCEPT ![s] = {j \in left[s] : Alike(i, j)}]
        /\ Goes(s, IF Cardinality({j \in left[s] : Alike(i, j)}) < 2 THEN "pass" ELSE "read")
  BY DEF Pick
<1> DEFINE k == {j \in left[s] : Alike(i, j)}
<1>2. /\ pc[s] = "pass" /\ UNCHANGED <<fsVars, hashFileVars, scanTab, got, cur, mergeTab>>
      /\ left' = [left EXCEPT ![s] = @ \ k] /\ part' = [part EXCEPT ![s] = k]
      /\ \E stage \in {"pass", "read"} : pc' = [pc EXCEPT ![s] = stage]
  BY <1>1 DEF Pick, Goes
<1>3. k \subseteq left[s] /\ \A j, l \in k : Alike(j, l)
  BY DEF Alike
<1> HIDE DEF k
<1>4. UNCHANGED <<dir, node, dir0, node0, paths, slots, got, cur, bpath, rest, vics>>
  BY <1>2 DEF fsVars, scanTab, mergeTab
<1>5. HashInv'
  BY <1>0, <1>2, <1>4, HQuietInv
<1>6. Apart(s)
  BY <1>0, <1>2, <1>4 DEF Apart, TableTypes
<1>7. NeverAnotherFile' /\ FileTypes'
  BY <1>0, <1>4 DEF NeverAnotherFile, FileTypes, Exists, SameFile
<1>8. TableTypes'
  <2>1. left[s] \subseteq Inode
    BY <1>0 DEF TableTypes
  <2>2. {"pass", "read"} \subseteq Stages
    BY DEF Stages
  <2> QED
    BY <1>0, <1>2, <1>3, <1>4, <2>1, <2>2 DEF TableTypes
<1>9. pc'[s] \in {"pass", "read"} /\ left'[s] \subseteq left[s] /\ part'[s] = k
  BY <1>0, <1>2 DEF TableTypes
<1>10. ScanOK(s)'
  BY <1>0, <1>4 DEF LocalOK, ScanOK, Met, Right, SameFile
<1>11. PassOK(s)'
  BY <1>0, <1>3, <1>4, <1>9 DEF LocalOK, PassOK, Noted, Alike
<1>12. MergeOK(s)'
  BY <1>0, <1>2, <1>4, <1>9 DEF LocalOK, MergeOK, Right, SameFile, Ended
<1> QED
  BY <1>5, <1>6, <1>7, <1>8, <1>10, <1>11, <1>12, StepOfOne DEF LocalOK

(* What is computed of a file that is reached by a recorded name is right of its inode. *)
LEMMA FirstRight ==
  ASSUME RunsInv, NEW s \in Proc, NEW i \in Noted(s)
  PROVE  First(s, i) \in Path /\ Right(First(s, i), i)
<1>1. paths[s][i] \in Seq(Path) /\ Len(paths[s][i]) > 0 /\ i \in Inode
  BY DEF RunsInv, TableTypes, Noted
<1>2. 1 \in 1..Len(paths[s][i])
  BY <1>1
<1> QED
  BY <1>1, <1>2 DEF First, RunsInv, LocalOK, ScanOK

LEMMA HashesInv ==
  ASSUME RunsInv, NEW s \in Proc, GetHash(s) \/ HashFile(s) \/ PutHash(s)
  PROVE  RunsInv'
<1>0. FileTypes /\ TableTypes /\ HashInv /\ NeverAnotherFile /\ LocalOK(s)
  BY DEF RunsInv
<1> DEFINE i == cur[s]
<1>1. /\ pc[s] \in {"get", "hash", "put"} /\ i \in Noted(s) /\ i \in Inode /\ vics[s] = << >>
  BY <1>0 DEF GetHash, HashFile, PutHash, LocalOK, PassOK, MergeOK, Noted, Ended
<1>2. UNCHANGED <<dir, node, dir0, node0, paths, slots, left, part, cur, bpath, rest, vics>>
  BY DEF GetHash, HashFile, PutHash, Gets, fsVars, scanTab, passTab, mergeTab
<1>3. /\ HashInv'
      /\ \E d \in MaybeData : d \in {NoData, node[i].data} /\
            (got' = [got EXCEPT ![s] = [got[s] EXCEPT ![i] = d]] \/ got' = got)
  <2>1. CASE GetHash(s) /\ HGet(s) /\ Gets(s, Found(s, i))
    <3>1. hdbf[s] \in DBFile
      BY <2>1, <1>0 DEF HGet, HashInv, HashTypes, MaybeFile
    <3>2. Found(s, i) \in MaybeData /\ Found(s, i) \in {NoData, node[i].data}
      BY <3>1, <1>0, <1>1 DEF Found, HashInv, HashTypes, HashesRight
    <3>3. got' = [got EXCEPT ![s] = [got[s] EXCEPT ![i] = Found(s, i)]]
      BY <2>1, <1>0 DEF Gets, TableTypes
    <3>4. HashInv'
      BY <2>1, <1>0, <1>2, HQuietInv
    <3> QED
      BY <3>2, <3>3, <3>4
  <2>2. CASE GetHash(s) /\ UNCHANGED <<hashFileVars, passTab>>
    BY <2>2, <1>0, <1>2, HQuietInv DEF passTab, MaybeData
  <2>3. CASE HashFile(s)
    <3> DEFINE q == First(s, i)
    <3>1. q \in Path /\ Right(q, i)
      BY <1>1, FirstRight
    <3>2. Exists(q) /\ UNCHANGED hashFileVars /\ Gets(s, node[dir[q]].data)
      BY <2>3 DEF HashFile
    <3>3. dir[q] \in Inode /\ node[dir[q]] \in File /\ SameFile(node0[dir0[q]], node[dir[q]])
      BY <1>0, <3>1, <3>2 DEF Exists, FileTypes, NeverAnotherFile
    <3>4. node[dir[q]].data = node[i].data /\ node[dir[q]].data \in Data
      BY <3>1, <3>3 DEF Right, SameFile, File
    <3>5. got' = [got EXCEPT ![s] = [got[s] EXCEPT ![i] = node[dir[q]].data]]
      BY <3>2, <1>0 DEF Gets, TableTypes
    <3>6. HashInv'
      BY <3>2, <1>0, <1>2, HQuietInv
    <3> QED
      BY <3>4, <3>5, <3>6 DEF MaybeData
  <2>4. CASE PutHash(s)
    <3>1. got[s][i] \in MaybeData /\ got[s][i] \in {NoData, node[i].data}
      BY <1>0, <1>1 DEF TableTypes, LocalOK, PassOK
    <3>2. HPut(s, i, got[s][i]) /\ got' = got
      BY <2>4 DEF PutHash, passTab
    <3>3. HashInv'
      BY <3>1, <3>2, <1>0, <1>1, <1>2, HPutInv
    <3> QED
      BY <3>1, <3>2, <3>3
  <2> QED
    BY <2>1, <2>2, <2>3, <2>4 DEF GetHash
<1>4. PICK d \in MaybeData : d \in {NoData, node[i].data} /\
            (got' = [got EXCEPT ![s] = [got[s] EXCEPT ![i] = d]] \/ got' = got)
  BY <1>3
<1>5. \E stage \in {"hash", "put", "read"} : pc' = [pc EXCEPT ![s] = stage]
  BY DEF GetHash, HashFile, PutHash, Goes
<1> HIDE DEF i
<1>6. Apart(s)
  BY <1>0, <1>2, <1>4, <1>5 DEF Apart, TableTypes
<1>7. NeverAnotherFile' /\ FileTypes'
  BY <1>0, <1>2 DEF NeverAnotherFile, FileTypes, Exists, SameFile
<1>8. TableTypes'
  <2>1. got' \in [Proc -> [Inode -> MaybeData]]
    <3> DEFINE new == [got[s] EXCEPT ![i] = d]
    <3>1. got \in [Proc -> [Inode -> MaybeData]]
      BY <1>0 DEF TableTypes
    <3>2. new \in [Inode -> MaybeData]
      BY <3>1, <1>1
    <3>3. got' = [got EXCEPT ![s] = new] \/ got' = got
      BY <1>4
    <3> HIDE DEF new
    <3> QED
      BY <3>1, <3>2, <3>3
  <2>2. pc' \in [Proc -> Stages]
    BY <1>0, <1>5 DEF TableTypes, Stages
  <2> QED
    BY <1>0, <1>2, <2>1, <2>2 DEF TableTypes
<1>9. \A j \in Inode : got'[s][j] \in {NoData, node[j].data}
  BY <1>0, <1>1, <1>4 DEF TableTypes, LocalOK, PassOK
<1>10. pc'[s] \in {"hash", "put", "read"}
  BY <1>0, <1>5 DEF TableTypes
<1>11. ScanOK(s)'
  BY <1>0, <1>2 DEF LocalOK, ScanOK, Met, Right, SameFile
<1>12. PassOK(s)'
  BY <1>0, <1>1, <1>2, <1>9, <1>10 DEF LocalOK, PassOK, Noted, Alike, i
<1>13. MergeOK(s)'
  BY <1>0, <1>1, <1>2, <1>10 DEF LocalOK, MergeOK, Right, SameFile, Ended
<1> QED
  BY <1>3, <1>6, <1>7, <1>8, <1>11, <1>12, <1>13, StepOfOne DEF LocalOK

--------------------------------------------------------------------------------
(* do_dedup is called for inodes of one size and owner and with one hash. *)
LEMMA CallDoDedupInv ==
  ASSUME RunsInv, NEW s \in Proc, CallDoDedup(s)
  PROVE  RunsInv'
<1>0. FileTypes /\ TableTypes /\ HashInv /\ NeverAnotherFile /\ LocalOK(s)
  BY DEF RunsInv
<1>1. PICK b \in part[s] :
        /\ bpath' = [bpath EXCEPT ![s] = First(s, b)]
        /\ rest' = [rest EXCEPT ![s] = Victims(s, b)]
        /\ part' = [part EXCEPT ![s] = @ \ PartOf(s, b)]
  BY DEF CallDoDedup
<1>2. /\ pc[s] = "merge" /\ pc' = [pc EXCEPT ![s] = "unlink"]
      /\ UNCHANGED <<dir, node, dir0, node0, hashFileVars, paths, slots, left, got, cur, vics>>
  BY DEF CallDoDedup, Goes, fsVars, scanTab
<1>3. /\ part[s] \subseteq Noted(s) /\ Noted(s) \subseteq Inode /\ vics[s] = << >>
      /\ \A i \in part[s] : got[s][i] = node[i].data
      /\ \A i, j \in part[s] : Alike(i, j)
  BY <1>0, <1>2 DEF LocalOK, PassOK, MergeOK, Noted, Ended
<1>4. First(s, b) \in Path /\ Right(First(s, b), b)
  BY <1>3, FirstRight
<1>5. \A i \in Victims(s, b) : i \in part[s] /\ Right(First(s, b), i)
  BY <1>3, <1>4 DEF Victims, PartOf, Alike, Right, SameFile
<1>6. Apart(s)
  BY <1>0, <1>1, <1>2 DEF Apart, TableTypes
<1>7. NeverAnotherFile' /\ FileTypes'
  BY <1>0, <1>2 DEF NeverAnotherFile, FileTypes, Exists, SameFile
<1>8. HashInv'
  BY <1>0, <1>2, HQuietInv
<1>9. TableTypes'
  <2>1. Victims(s, b) \subseteq Inode /\ "unlink" \in Stages
    BY <1>3, <1>5 DEF Stages
  <2> QED
    BY <1>0, <1>1, <1>2, <1>4, <2>1 DEF TableTypes
<1>10. /\ pc'[s] = "unlink" /\ bpath'[s] = First(s, b) /\ rest'[s] = Victims(s, b)
       /\ part'[s] \subseteq part[s]
  BY <1>0, <1>1, <1>2 DEF TableTypes
<1>11. ScanOK(s)'
  BY <1>0, <1>2 DEF LocalOK, ScanOK, Met, Right, SameFile
<1>12. PassOK(s)'
  BY <1>0, <1>2, <1>3, <1>5, <1>10 DEF LocalOK, PassOK, Noted, Alike
<1>13. MergeOK(s)'
  <2>1. dir0'[bpath'[s]] # NoInode /\ bpath'[s] \in Path
    BY <1>2, <1>4, <1>10 DEF Right
  <2>2. \A i \in rest'[s] : Right(bpath[s], i)'
    BY <1>2, <1>5, <1>10 DEF Right, SameFile
  <2>3. Len(vics'[s]) = 0
    BY <1>2, <1>3
  <2> QED
    BY <1>10, <2>1, <2>2, <2>3 DEF MergeOK
<1> QED
  BY <1>6, <1>7, <1>8, <1>9, <1>11, <1>12, <1>13, StepOfOne DEF LocalOK

LEMMA NextVictimInv ==
  ASSUME RunsInv, NEW s \in Proc, NextVictim(s)
  PROVE  RunsInv'
<1>0. FileTypes /\ TableTypes /\ HashInv /\ NeverAnotherFile /\ LocalOK(s)
  BY DEF RunsInv
<1>1. pc[s] = "unlink" /\ vics[s] = << >> /\ UNCHANGED <<fsVars, hashFileVars, scanTab, passTab>>
  BY DEF NextVictim
<1>2. UNCHANGED <<dir, node, dir0, node0, paths, slots, left, part, got, cur>>
  BY <1>1 DEF fsVars, scanTab, passTab
<1>3. HashInv'
  BY <1>0, <1>1, <1>2, HQuietInv
<1>4. CASE rest[s] = {} /\ Goes(s, "merge") /\ UNCHANGED mergeTab
  <2>1. Stage(s, "merge")
    BY <1>2, <1>4 DEF Stage, Stages, Goes, mergeTab
  <2>2. \A i \in part[s] : got[s][i] # NoData
    BY <1>0, <1>1 DEF LocalOK, PassOK
  <2> QED
    BY <1>1, <1>2, <1>3, <2>1, <2>2, StageInv
<1>5. ASSUME NEW i \in rest[s],
             vics' = [vics EXCEPT ![s] = paths[s][i]],
             rest' = [rest EXCEPT ![s] = @ \ {i}],
             UNCHANGED <<pc, bpath>>
      PROVE  RunsInv'
  <2>1. i \in Inode /\ paths[s][i] \in Seq(Path) /\ Right(bpath[s], i)
    BY <1>0, <1>1 DEF TableTypes, LocalOK, MergeOK
  <2>2. \A j \in 1..Len(paths[s][i]) : Right(paths[s][i][j], i)
    BY <1>0, <2>1 DEF LocalOK, ScanOK
  <2>3. Apart(s)
    BY <1>0, <1>2, <1>5 DEF Apart, TableTypes
  <2>4. NeverAnotherFile' /\ FileTypes'
    BY <1>0, <1>2 DEF NeverAnotherFile, FileTypes, Exists, SameFile
  <2>5. TableTypes'
    BY <1>0, <1>2, <1>5, <2>1 DEF TableTypes
  <2>6. vics'[s] = paths[s][i] /\ rest'[s] \subseteq rest[s] /\ pc'[s] = pc[s] /\ bpath'[s] = bpath[s]
    BY <1>0, <1>5 DEF TableTypes
  <2>7. ScanOK(s)'
    BY <1>0, <1>2 DEF LocalOK, ScanOK, Met, Right, SameFile
  <2>8. PassOK(s)'
    BY <1>0, <1>1, <1>2, <2>6 DEF LocalOK, PassOK, Noted, Alike
  <2>9. MergeOK(s)'
    BY <1>0, <1>1, <1>2, <2>1, <2>2, <2>6 DEF LocalOK, MergeOK, Right, SameFile
  <2> QED
    BY <1>3, <2>3, <2>4, <2>5, <2>7, <2>8, <2>9, StepOfOne DEF LocalOK
<1> QED
  BY <1>4, <1>5 DEF NextVictim

(* What is in hand when a name is removed and linked. *)
LEMMA InHand ==
  ASSUME RunsInv, NEW s \in Proc, pc[s] \in {"unlink", "link"}, vics[s] # << >>
  PROVE  /\ Head(vics[s]) \in Path /\ bpath[s] \in Path
         /\ dir0[Head(vics[s])] # NoInode
         /\ SameFile(node0[dir0[Head(vics[s])]], node0[dir0[bpath[s]]])
<1>1. vics[s] \in Seq(Path)
  BY DEF RunsInv, TableTypes
<1>2. 1 \in 1..Len(vics[s]) /\ Head(vics[s]) = vics[s][1] /\ Head(vics[s]) \in Path
  BY <1>1
<1> QED
  BY <1>2 DEF RunsInv, LocalOK, MergeOK

(* Both calls keep the tables and hashes. *)
LEMMA MergeCallInv ==
  ASSUME RunsInv, NEW s \in Proc, NEW stage \in {"unlink", "link"},
         pc[s] \in {"unlink", "link"}, pc' = [pc EXCEPT ![s] = stage],
         UNCHANGED <<node, dir0, node0, hashFileVars, paths, slots, left, part, got, cur,
                     bpath, rest>>,
         \/ vics' = vics
         \/ vics' = [vics EXCEPT ![s] = Tail(@)] /\ vics[s] # << >>,
         stage = "link" => vics' = vics /\ vics[s] # << >>,
         FileTypes', NeverAnotherFile'
  PROVE  RunsInv'
<1>0. FileTypes /\ TableTypes /\ HashInv /\ LocalOK(s) /\ vics[s] \in Seq(Path)
  BY DEF RunsInv, TableTypes
<1>1. Apart(s)
  BY <1>0 DEF Apart, TableTypes
<1>2. HashInv'
  BY <1>0, HQuietInv
<1>3. /\ vics' \in [Proc -> Seq(Path)]
      /\ \A j \in 1..Len(vics'[s]) : \E l \in 1..Len(vics[s]) : vics'[s][j] = vics[s][l]
  <2>1. CASE vics' = vics
    BY <2>1, <1>0 DEF TableTypes
  <2>2. CASE vics' = [vics EXCEPT ![s] = Tail(@)] /\ vics[s] # << >>
    <3> DEFINE q == vics[s]
    <3>1. /\ q \in Seq(Path) /\ q # << >> /\ vics'[s] = Tail(q)
          /\ vics \in [Proc -> Seq(Path)] /\ vics' = [vics EXCEPT ![s] = Tail(q)]
      BY <2>2, <1>0 DEF TableTypes
    <3> HIDE DEF q
    <3>2. /\ Tail(q) \in Seq(Path) /\ Len(q) \in Nat /\ Len(Tail(q)) = Len(q) - 1
          /\ \A j \in 1..Len(Tail(q)) : Tail(q)[j] = q[j + 1]
      BY <3>1
    <3>3. \A j \in 1..Len(Tail(q)) : j + 1 \in 1..Len(q)
      BY <3>2
    <3>4. vics' \in [Proc -> Seq(Path)]
      BY <3>1, <3>2
    <3> QED
      BY <3>1, <3>2, <3>3, <3>4 DEF q
  <2> QED
    BY <2>1, <2>2
<1>4. TableTypes'
  BY <1>0, <1>3 DEF TableTypes, Stages
<1>5. pc'[s] = stage
  BY <1>0 DEF TableTypes
<1>6. ScanOK(s)'
  BY <1>0 DEF LocalOK, ScanOK, Met, Right, SameFile
<1>7. PassOK(s)'
  BY <1>0, <1>5 DEF LocalOK, PassOK, Noted, Alike
<1>8. MergeOK(s)'
  <2>1. /\ bpath[s] \in Path /\ dir0[bpath[s]] # NoInode
        /\ \A i \in rest[s] : Right(bpath[s], i)
        /\ \A j \in 1..Len(vics[s]) :
             /\ dir0[vics[s][j]] # NoInode
             /\ SameFile(node0[dir0[vics[s][j]]], node0[dir0[bpath[s]]])
    BY <1>0 DEF LocalOK, MergeOK
  <2>2. \A j \in 1..Len(vics'[s]) :
             /\ dir0[vics'[s][j]] # NoInode
             /\ SameFile(node0[dir0[vics'[s][j]]], node0[dir0[bpath[s]]])
    BY <1>3, <2>1
  <2>3. \A i \in rest[s] : Right(bpath[s], i)'
    BY <2>1 DEF Right, SameFile
  <2> QED
    BY <1>5, <2>1, <2>2, <2>3 DEF MergeOK, SameFile
<1> QED
  BY <1>0, <1>1, <1>2, <1>4, <1>6, <1>7, <1>8, StepOfOne DEF LocalOK

LEMMA UnlinkInv ==
  ASSUME RunsInv, NEW s \in Proc, Unlink(s)
  PROVE  RunsInv'
<1> DEFINE p == Head(vics[s])
<1>0. FileTypes /\ NeverAnotherFile
  BY DEF RunsInv
<1>1. /\ pc[s] = "unlink" /\ vics[s] # << >> /\ dir' = [dir EXCEPT ![p] = NoInode]
      /\ pc' = [pc EXCEPT ![s] = "link"]
      /\ UNCHANGED <<node, dir0, node0, hashFileVars, paths, slots, left, part, got, cur, bpath, rest, vics>>
  BY DEF Unlink, UnlinkPath, Goes, history, scanTab, passTab, mergeTab
<1>2. p \in Path
  BY <1>1, InHand
<1>3. FileTypes'
  BY <1>0, <1>1, <1>2 DEF FileTypes
<1>4. NeverAnotherFile'
  BY <1>0, <1>1, <1>2 DEF FileTypes, NeverAnotherFile, Exists, SameFile
<1> QED
  BY <1>1, <1>3, <1>4, MergeCallInv

(* The name is given what the first name of the oldest inode leads to now: by            *)
(* NeverAnotherFile still a file like the one it led to, and so like the name's own.        *)
LEMMA LinkInv ==
  ASSUME RunsInv, NEW s \in Proc, Link(s)
  PROVE  RunsInv'
<1> DEFINE p == Head(vics[s])
           q == bpath[s]
<1>0. FileTypes /\ NeverAnotherFile /\ LocalOK(s)
  BY DEF RunsInv
<1>1. /\ pc[s] = "link" /\ vics[s] # << >> /\ Exists(q) /\ dir' = [dir EXCEPT ![p] = dir[q]]
      /\ pc' = [pc EXCEPT ![s] = "unlink"] /\ vics' = [vics EXCEPT ![s] = Tail(@)]
      /\ UNCHANGED <<node, dir0, node0, hashFileVars, paths, slots, left, part, got, cur, bpath, rest>>
  BY <1>0 DEF Link, LinkPath, CanLink, Goes, history, scanTab, passTab, LocalOK, MergeOK
<1>2. p \in Path /\ q \in Path /\ dir0[p] # NoInode /\ SameFile(node0[dir0[p]], node0[dir0[q]])
  BY <1>1, InHand
<1> HIDE DEF p, q
<1>3. SameFile(node0[dir0[q]], node[dir[q]]) /\ dir[q] \in Inode
  BY <1>0, <1>1, <1>2 DEF NeverAnotherFile, FileTypes, Exists
<1>4. FileTypes'
  BY <1>0, <1>1, <1>2, <1>3 DEF FileTypes
<1>5. NeverAnotherFile'
  <2>1. SameFile(node0[dir0[p]], node[dir[q]])
    BY <1>2, <1>3 DEF SameFile
  <2>2. dir'[p] = dir[q] /\ \A r \in Path \ {p} : dir'[r] = dir[r]
    BY <1>0, <1>1, <1>2 DEF FileTypes
  <2> QED
    BY <1>0, <1>1, <1>2, <2>1, <2>2 DEF NeverAnotherFile, Exists, SameFile
<1> QED
  BY <1>1, <1>4, <1>5, MergeCallInv

--------------------------------------------------------------------------------
LEMMA InitInv == Init => RunsInv
<1> SUFFICES ASSUME Init PROVE RunsInv
  OBVIOUS
<1>1. FileTypes
  BY DEF Init, FileSystemInit, FileTypes
<1>2. HashInv
  BY DEF Init, HashFilesInit, HashInv, HashTypes, HashesRight, NoHashes, MaybeData, MaybeFile
<1>3. NeverAnotherFile
  BY <1>1 DEF Init, FileSystemInit, NeverAnotherFile, Exists, SameFile
<1>4. TableTypes
  BY DEF Init, TableTypes, ForAll, NoPaths, NoSlots, NoHashes, MaybeData, Stages
<1>5. ASSUME NEW s \in Proc PROVE LocalOK(s)
  <2>1. /\ pc[s] = "opts" /\ left[s] = {} /\ part[s] = {} /\ rest[s] = {} /\ vics[s] = << >>
        /\ \A i \in Inode : got[s][i] = NoData /\ slots[s][i] = 0 /\ paths[s][i] = << >>
    BY DEF Init, ForAll, NoPaths, NoSlots, NoHashes
  <2>2. ScanOK(s)
    BY <2>1 DEF ScanOK, Met
  <2>3. PassOK(s)
    BY <2>1 DEF PassOK
  <2>4. MergeOK(s)
    BY <2>1 DEF MergeOK
  <2> QED
    BY <2>2, <2>3, <2>4 DEF LocalOK
<1> QED
  BY <1>1, <1>2, <1>3, <1>4, <1>5 DEF RunsInv

LEMMA NextInv ==
  ASSUME RunsInv, [Next]_runsVars
  PROVE  RunsInv'
<1>1. ASSUME NEW s \in Proc, Step(s) \/ FlushesEarly(s) \/ Kill(s)
      PROVE  RunsInv'
  BY <1>1, ExitsInv, EndsInv, OptionsInv, GoesOnInv, ScanPathInv, PickInv, HashesInv,
     CallDoDedupInv, NextVictimInv, UnlinkInv, LinkInv DEF Step
<1>2. CASE UNCHANGED runsVars
  <2>1. /\ UNCHANGED <<dir, node, dir0, node0, hashFileVars, pc, paths, slots, left, part, got, cur>>
        /\ UNCHANGED <<bpath, rest, vics>>
    BY <1>2 DEF runsVars, fsVars, scanTab, passTab, mergeTab
  <2>2. HashInv'
    BY <2>1 DEF RunsInv, HashInv, HashTypes, HashesRight, hashFileVars
  <2>3. (FileTypes /\ TableTypes /\ NeverAnotherFile)'
    BY <2>1 DEF RunsInv, FileTypes, TableTypes, NeverAnotherFile, Exists, SameFile
  <2>4. ASSUME NEW s \in Proc PROVE LocalOK(s)'
    BY <2>1 DEF RunsInv, LocalOK, ScanOK, PassOK, MergeOK, Met, Noted, Alike, Right, SameFile
  <2> QED
    BY <2>2, <2>3, <2>4 DEF RunsInv
<1> QED
  BY <1>1, <1>2 DEF Next, Stays

(* However many runs there are, with the lock or without it, with caches and without,      *)
(* and wherever they are killed: a name leads to a file with the contents and the owner it  *)
(* had, or to none (undup.c:130-134).                                                         *)
THEOREM RunsKeepContents == Spec => []NeverAnotherFile
<1>1. Init => RunsInv
  BY InitInv
<1>2. RunsInv /\ [Next]_runsVars => RunsInv'
  BY NextInv
<1>3. RunsInv => NeverAnotherFile
  BY DEF RunsInv
<1> QED
  BY <1>1, <1>2, <1>3, PTL DEF Spec

--------------------------------------------------------------------------------
(* What the lock adds.  The process that has read -l has the lock until it ends, so that    *)
(* where all are given -l one works at a time: no other is past its options.                  *)

(* Of an option: the process has yet to read it. *)
Waits(s, o) == \E j \in DOMAIN opts[s] : opts[s][j] = o

(* The process is past its options, and has not ended. *)
Active(s) == pc[s] \notin {"opts"} \cup Ended

Options == {"l", "c", "C"}
HashSteps == {"off", "unlink", "rename", "reopen", "ready"}

RestTypes ==
  /\ touched \subseteq Inode /\ moved \subseteq Path /\ changes \in Nat
  /\ hmode \in [Proc -> {"r", "rw"}] /\ hstep \in [Proc -> HashSteps]
  /\ args \in [Proc -> Seq(Options)] /\ opts \in [Proc -> Seq(Options)]
  /\ holder \in Proc \cup {NoProc}
  /\ todo \in [Proc -> SUBSET Path]
  /\ cat \in Seq(Proc \cup {NoProc}) /\ line \in [Proc -> Nat] /\ buf \in [Proc -> Nat]

(* A path is in the table once at most, and the slots are enough. *)
OnceOK(s) ==
  /\ \A i, k \in Inode : \A j \in 1..Len(paths[s][i]), l \in 1..Len(paths[s][k]) :
       paths[s][i][j] = paths[s][k][l] => i = k /\ j = l
  /\ \A i \in Inode : \A j \in 1..Len(paths[s][i]) : paths[s][i][j] \notin todo[s]
  /\ \A i \in Inode : Len(paths[s][i]) <= slots[s][i]

(* A process that has not begun, or has ended, has no tables and no cache; it begins with     *)
(* all options read. *)
IdleOK(s) ==
  /\ Active(s) => opts[s] = << >>
  /\ ~Active(s) => /\ todo[s] = {} /\ \A i \in Inode : paths[s][i] = << >> /\ slots[s][i] = 0
                   /\ hdbf[s] = NoFile /\ hval[s] = NoFile
  /\ ~Active(s) \/ pc[s] = "scan" =>
       /\ left[s] = {} /\ part[s] = {} /\ rest[s] = {} /\ hstep[s] = "off"
       /\ \A i \in Inode : got[s][i] = NoData
  /\ pc[s] \in {"get", "hash", "put"} => cur[s] \in part[s]

LockOK(s) ==
  /\ holder = s => pc[s] \notin Ended
  /\ Uses(s, "l") /\ pc[s] \notin Ended /\ ~Waits(s, "l") => holder = s

AloneInv == RestTypes /\ \A s \in Proc : OnceOK(s) /\ IdleOK(s) /\ LockOK(s)

(* The steps of a process, by what they change. *)
Scans(s) == (\E p \in Path : ScanPath(s, p) \/ PassOver(s, p)) \/ FlushesEarly(s)

Works(s) ==
  \/ ScanDone(s) \/ Pick(s) \/ PassesDone(s) \/ (\E i \in Inode : Turn(s, i))
  \/ GetHash(s) \/ HashFile(s) \/ PutHash(s) \/ Switch(s) \/ ReadDone(s)
  \/ CallDoDedup(s) \/ NextCluster(s) \/ NextVictim(s) \/ Unlink(s) \/ Link(s)

Ends(s) ==
  \/ ScanFails(s) \/ HashFails(s) \/ SwitchFails(s) \/ MergeFails(s)
  \/ Faults(s) \/ Kill(s) \/ Close(s)

Acts(s) == GetOption(s) \/ StartScan(s) \/ Scans(s) \/ Works(s) \/ Ends(s)

LEMMA NextActs == Next => (\E s \in Proc : Acts(s)) \/ UNCHANGED runsVars
BY DEF Next, Stays, Step, Acts, Scans, Works, Ends

(* What a step of s leaves of the others, besides their tables. *)
ApartToo(s) ==
  /\ args' = args
  /\ \A r \in Proc \ {s} :
       /\ opts'[r] = opts[r] /\ todo'[r] = todo[r]
       /\ hdbf'[r] = hdbf[r] /\ hval'[r] = hval[r] /\ hmode'[r] = hmode[r] /\ hstep'[r] = hstep[r]
       /\ line'[r] = line[r] /\ buf'[r] = buf[r]

(* In all steps but the first and the last, a process works with what it has. *)
LEMMA WorksOn ==
  ASSUME RunsInv, NEW s \in Proc, Works(s)
  PROVE  /\ Active(s) /\ Active(s)' /\ pc'[s] # "scan"
         /\ UNCHANGED <<holder, opts, args, todo, paths, slots>>
<1>0. pc \in [Proc -> Stages]
  BY DEF RunsInv, TableTypes
<1>1. CASE ScanDone(s) \/ Pick(s) \/ PassesDone(s) \/ ReadDone(s) \/ NextCluster(s)
  BY <1>0, <1>1 DEF ScanDone, Pick, PassesDone, ReadDone, NextCluster, Goes, Active, Ended, scanTab
<1>2. CASE (\E i \in Inode : Turn(s, i)) \/ GetHash(s) \/ HashFile(s) \/ PutHash(s)
  BY <1>0, <1>2 DEF Turn, GetHash, HashFile, PutHash, Goes, Active, Ended, scanTab
<1>3. CASE Switch(s)
  BY <1>0, <1>3 DEF Switch, Active, Ended, scanTab
<1>4. CASE CallDoDedup(s) \/ NextVictim(s) \/ Unlink(s) \/ Link(s)
  BY <1>0, <1>4 DEF CallDoDedup, NextVictim, Unlink, Link, Goes, Active, Ended, scanTab
<1> QED
  BY <1>1, <1>2, <1>3, <1>4 DEF Works

LEMMA EndsExits ==
  ASSUME NEW s \in Proc, Ends(s)
  PROVE  \E stage \in Ended :
           /\ Exits(s, stage)
           /\ stage = "failed" => ScanFails(s) \/ HashFails(s) \/ SwitchFails(s) \/ MergeFails(s)
BY DEF Ends, ScanFails, HashFails, SwitchFails, MergeFails, Faults, Kill, Close, Fails, Dies, Ended

LEMMA ScansApart ==
  ASSUME RunsInv, RestTypes, NEW s \in Proc, GetOption(s) \/ StartScan(s) \/ Scans(s)
  PROVE  Apart(s) /\ ApartToo(s)
<1>0. TableTypes /\ HashTypes
  BY DEF RunsInv, HashInv
<1>1. CASE GetOption(s)
  BY <1>0, <1>1 DEF TableTypes, HashTypes, RestTypes, Apart, ApartToo, GetOption, OpensCatalogue,
     fsVars, hashFileVars, catVars, scanTab, passTab, mergeTab
<1>2. CASE StartScan(s)
  BY <1>0, <1>2 DEF TableTypes, HashTypes, RestTypes, Apart, ApartToo, StartScan, HNew, Goes,
     fsVars, hashFileVars, catVars, scanTab, passTab, mergeTab
<1>3. ASSUME NEW p \in Path, ScanPath(s, p) PROVE Apart(s) /\ ApartToo(s)
  BY <1>0, <1>3 DEF TableTypes, HashTypes, RestTypes, Apart, ApartToo, ScanPath, HValidate,
     Catalogued, fsVars, hashFileVars, passTab, mergeTab
<1>4. ASSUME NEW p \in Path, PassOver(s, p) PROVE Apart(s) /\ ApartToo(s)
  BY <1>0, <1>4 DEF TableTypes, HashTypes, RestTypes, Apart, ApartToo, PassOver,
     fsVars, hashFileVars, catVars, passTab, mergeTab
<1>5. CASE FlushesEarly(s)
  BY <1>0, <1>5 DEF TableTypes, HashTypes, RestTypes, Apart, ApartToo, FlushesEarly, Flush,
     fsVars, hashFileVars, scanTab, passTab, mergeTab
<1> QED
  BY <1>1, <1>2, <1>3, <1>4, <1>5 DEF Scans

LEMMA EndsApart ==
  ASSUME RunsInv, RestTypes, NEW s \in Proc, Ends(s)
  PROVE  Apart(s) /\ ApartToo(s)
<1>0. TableTypes /\ HashTypes
  BY DEF RunsInv, HashInv
<1>1. PICK stage : Exits(s, stage)
  BY EndsExits
<1>2. /\ line' = [line EXCEPT ![s] = 0] \/ line' = [line EXCEPT ![s] = @ + buf[s]] \/ line' = line
      /\ buf' = [buf EXCEPT ![s] = 0] \/ buf' = buf
  BY DEF Ends, ScanFails, HashFails, SwitchFails, MergeFails, Faults, Kill, Close, Fails, Dies,
     Flush, catVars
<1> QED
  BY <1>0, <1>1, <1>2 DEF TableTypes, HashTypes, RestTypes, Apart, ApartToo, Exits, Goes, HClosed,
     Served, fsVars

LEMMA WorksApart ==
  ASSUME RunsInv, RestTypes, NEW s \in Proc, Works(s)
  PROVE  Apart(s) /\ ApartToo(s)
<1>0. TableTypes /\ HashTypes
  BY DEF RunsInv, HashInv
<1> USE <1>0 DEF TableTypes, HashTypes, RestTypes, Apart, ApartToo, Goes, fsVars, hashFileVars,
     catVars, scanTab, passTab, mergeTab, history
<1>1. CASE ScanDone(s)
  BY <1>1 DEF ScanDone, Flush
<1>2. CASE Pick(s)
  BY <1>2 DEF Pick
<1>3. CASE PassesDone(s) \/ ReadDone(s) \/ NextCluster(s)
  BY <1>3 DEF PassesDone, ReadDone, NextCluster
<1>4. ASSUME NEW i \in Inode, Turn(s, i) PROVE Apart(s) /\ ApartToo(s)
  BY <1>4 DEF Turn
<1>5. CASE GetHash(s)
  BY <1>5 DEF GetHash, HGet, Served, Gets
<1>6. CASE HashFile(s)
  BY <1>6 DEF HashFile, Gets
<1>7. CASE PutHash(s)
  BY <1>7 DEF PutHash, HPut, Served
<1>8. CASE Switch(s)
  <2>1. UNCHANGED <<fsVars, pc, args, opts, holder, catVars, scanTab, passTab, mergeTab>>
    BY <1>8 DEF Switch
  <2> DEFINE Own == \A r \in Proc \ {s} : /\ hdbf'[r] = hdbf[r] /\ hval'[r] = hval[r]
                                          /\ hmode'[r] = hmode[r] /\ hstep'[r] = hstep[r]
  <2>2. Own
    <3>1. ASSUME NEW iswr, DoneClose(s, iswr) PROVE Own
      BY <3>1 DEF DoneClose
    <3>2. CASE DoneUnlink(s) \/ DoneRename(s) \/ DoneReopen(s)
      BY <3>2 DEF DoneUnlink, DoneRename, DoneReopen
    <3> QED
      BY <1>8, <3>1, <3>2 DEF Switch, DoneStep
  <2> QED
    BY <2>1, <2>2
<1>9. CASE CallDoDedup(s)
  BY <1>9 DEF CallDoDedup
<1>10. CASE NextVictim(s)
  BY <1>10 DEF NextVictim
<1>11. CASE Unlink(s) \/ Link(s)
  BY <1>11 DEF Unlink, Link
<1> QED
  BY <1>1, <1>2, <1>3, <1>4, <1>5, <1>6, <1>7, <1>8, <1>9, <1>10, <1>11 DEF Works

LEMMA StepApart ==
  ASSUME RunsInv, RestTypes, NEW s \in Proc, Acts(s)
  PROVE  Apart(s) /\ ApartToo(s)
BY ScansApart, EndsApart, WorksApart DEF Acts

CatTypes ==
  cat \in Seq(Proc \cup {NoProc}) /\ line \in [Proc -> Nat] /\ buf \in [Proc -> Nat]

LEMMA FlushTypes ==
  ASSUME CatTypes, NEW s \in Proc, Flush(s)
  PROVE  CatTypes'
<1> USE DEF CatTypes
<1>1. line' \in [Proc -> Nat] /\ buf' \in [Proc -> Nat]
  BY DEF Flush
<1>2. Flushed(s) \in Seq(Proc \cup {NoProc})
  <2> DEFINE end == line[s] + buf[s]
             n == IF Len(cat) < end THEN end ELSE Len(cat)
             x(j) == IF j \in (line[s] + 1)..end THEN s ELSE IF j <= Len(cat) THEN cat[j] ELSE NoProc
  <2>1. n \in Nat
    OBVIOUS
  <2>2. \A j \in 1..n : x(j) \in Proc \cup {NoProc}
    OBVIOUS
  <2>3. Flushed(s) = [j \in 1..n |-> x(j)]
    BY DEF Flushed
  <2> HIDE DEF n, x
  <2>4. [j \in 1..n |-> x(j)] \in [1..n -> Proc \cup {NoProc}]
    BY <2>2
  <2> QED
    BY <2>1, <2>3, <2>4
<1>3. cat' \in Seq(Proc \cup {NoProc})
  BY <1>2 DEF Flush
<1> QED
  BY <1>1, <1>3

HashStepTypes == hmode \in [Proc -> {"r", "rw"}] /\ hstep \in [Proc -> HashSteps]

LEMMA HashStepsTyped ==
  ASSUME HashStepTypes, NEW s \in Proc, NEW i, NEW hash, NEW iswr,
         \/ HNew(s) \/ HValidate(s, i) \/ DoneClose(s, iswr) \/ DoneStep(s)
         \/ HPut(s, i, hash) \/ HGet(s) \/ HClosed(s) \/ UNCHANGED hashFileVars
  PROVE  HashStepTypes'
<1> USE DEF HashStepTypes, HashSteps
<1>1. CASE HNew(s) \/ HValidate(s, i) \/ HGet(s) \/ HPut(s, i, hash) \/ UNCHANGED hashFileVars
  BY <1>1 DEF HNew, HValidate, HGet, HPut, Served, hashFileVars
<1>2. CASE DoneClose(s, iswr) \/ HClosed(s)
  BY <1>2 DEF DoneClose, HClosed, Served
<1>3. CASE DoneStep(s)
  BY <1>3 DEF DoneStep, DoneUnlink, DoneRename, DoneReopen
<1> QED
  BY <1>1, <1>2, <1>3

(* What each step does with the cache files. *)
LEMMA HashCalls ==
  ASSUME RunsInv, NEW s \in Proc, Acts(s)
  PROVE  \/ UNCHANGED hashFileVars \/ HNew(s) \/ (\E i \in Inode : HValidate(s, i))
         \/ DoneClose(s, TRUE) \/ DoneClose(s, FALSE) \/ DoneStep(s)
         \/ HGet(s) \/ HPut(s, cur[s], got[s][cur[s]]) \/ HClosed(s)
<1>1. CASE GetOption(s) \/ StartScan(s) \/ Scans(s)
  <2>1. ASSUME NEW p \in Path, ScanPath(s, p)
        PROVE  (\E i \in Inode : HValidate(s, i)) \/ UNCHANGED hashFileVars
    <3>1. dir[p] \in Inode
      BY <2>1 DEF ScanPath, Exists, RunsInv, FileTypes
    <3> QED
      BY <2>1, <3>1 DEF ScanPath
  <2> QED
    BY <1>1, <2>1 DEF GetOption, StartScan, Scans, PassOver, FlushesEarly
<1>2. CASE Works(s)
  BY <1>2 DEF Works, ScanDone, Pick, PassesDone, Turn, GetHash, HashFile, PutHash, Switch, ReadDone,
     CallDoDedup, NextCluster, NextVictim, Unlink, Link
<1>3. CASE Ends(s)
  BY <1>3, EndsExits DEF Exits
<1> QED
  BY <1>1, <1>2, <1>3 DEF Acts

(* The lock, the options and the catalogue. *)
LEMMA RestTypesInv ==
  ASSUME RunsInv, RestTypes, NEW s \in Proc, Acts(s)
  PROVE  RestTypes'
<1>0. CatTypes /\ HashStepTypes
  BY DEF RestTypes, CatTypes, HashStepTypes
<1>1. HashStepTypes'
  BY <1>0, HashCalls, HashStepsTyped
<1> DEFINE OptStep == opts' = opts \/ (opts' = [opts EXCEPT ![s] = Tail(@)] /\ opts[s] # << >>)
           Cleared == line' = [line EXCEPT ![s] = 0] /\ buf' = [buf EXCEPT ![s] = 0] /\ UNCHANGED cat
           CatStep == \/ UNCHANGED catVars \/ Flush(s) \/ OpensCatalogue(s) \/ Catalogued(s)
                      \/ Cleared
           TodoStep == todo' = todo \/ \E S \in SUBSET Path : todo' = [todo EXCEPT ![s] = S]
           Others == UNCHANGED <<touched, moved, changes, args>>
           Rest == Others /\ OptStep /\ holder' \in {holder, s, NoProc} /\ CatStep /\ TodoStep
<1>2. Rest
  <2>1. CASE GetOption(s)
    BY <2>1 DEF GetOption, Locks, fsVars, scanTab
  <2>2. CASE StartScan(s)
    <3>1. {p \in Path : Exists(p)} \in SUBSET Path
      OBVIOUS
    <3>2. TodoStep
      BY <2>2, <3>1 DEF StartScan
    <3>3. Others /\ opts' = opts /\ holder' = holder /\ UNCHANGED catVars
      BY <2>2 DEF StartScan, fsVars
    <3> QED
      BY <3>2, <3>3
  <2>3. CASE Scans(s)
    <3>1. \A p : todo[s] \ {p} \in SUBSET Path
      BY DEF RestTypes
    <3>2. /\ UNCHANGED <<touched, moved, changes, args, opts, holder>>
          /\ UNCHANGED catVars \/ Flush(s) \/ Catalogued(s)
          /\ todo' = todo \/ \E p : todo' = [todo EXCEPT ![s] = todo[s] \ {p}]
      BY <2>3 DEF Scans, ScanPath, PassOver, FlushesEarly, fsVars, scanTab
    <3>3. TodoStep
      BY <3>1, <3>2
    <3> QED
      BY <3>2, <3>3
  <2>4. CASE Works(s)
    <3>1. UNCHANGED <<holder, opts, args, todo>>
      BY <2>4, WorksOn
    <3>2. UNCHANGED <<touched, moved, changes>> /\ (UNCHANGED catVars \/ Flush(s))
      BY <2>4 DEF Works, ScanDone, Pick, PassesDone, Turn, GetHash, HashFile, PutHash, Switch,
         ReadDone, CallDoDedup, NextCluster, NextVictim, Unlink, Link, fsVars
    <3>3. CatStep
      BY <3>2
    <3>4. Others /\ OptStep /\ TodoStep /\ holder' = holder
      BY <3>1, <3>2
    <3> QED
      BY <3>3, <3>4
  <2>5. CASE Ends(s)
    <3>1. PICK stage : Exits(s, stage)
      BY <2>5, EndsExits
    <3>2. UNCHANGED catVars \/ Flush(s) \/ Cleared
      BY <2>5 DEF Ends, ScanFails, HashFails, SwitchFails, MergeFails, Faults, Kill, Close, Fails, Dies
    <3>3. CatStep
      BY <3>2
    <3>4. Others /\ OptStep /\ holder' \in {holder, s, NoProc}
      BY <3>1 DEF Exits, Unlocks, fsVars
    <3>5. {} \in SUBSET Path /\ todo' = [todo EXCEPT ![s] = {}]
      BY <3>1 DEF Exits
    <3> QED
      BY <3>3, <3>4, <3>5
  <2> QED
    BY <2>1, <2>2, <2>3, <2>4, <2>5 DEF Acts
<1>3. CatTypes'
  <2>1. CASE Flush(s)
    BY <1>0, <2>1, FlushTypes
  <2>2. CASE OpensCatalogue(s)
    <3>1. << >> \in Seq(Proc \cup {NoProc})
      OBVIOUS
    <3> QED
      BY <1>0, <2>2, <3>1 DEF CatTypes, OpensCatalogue
  <2>3. CASE Catalogued(s)
    BY <1>0, <2>3 DEF CatTypes, Catalogued
  <2>4. CASE UNCHANGED catVars
    BY <1>0, <2>4 DEF CatTypes, catVars
  <2>5. CASE Cleared
    BY <1>0, <2>5 DEF CatTypes
  <2> QED
    BY <1>2, <2>1, <2>2, <2>3, <2>4, <2>5
<1>4. opts' \in [Proc -> Seq(Options)]
  <2>1. opts \in [Proc -> Seq(Options)]
    BY DEF RestTypes
  <2>2. opts[s] # << >> => Tail(opts[s]) \in Seq(Options)
    BY <2>1
  <2> QED
    BY <1>2, <2>1, <2>2
<1>5. todo' \in [Proc -> SUBSET Path]
  BY <1>2 DEF RestTypes
<1>6. holder' \in Proc \cup {NoProc}
  BY <1>2 DEF RestTypes
<1> QED
  BY <1>1, <1>2, <1>3, <1>4, <1>5, <1>6 DEF RestTypes, CatTypes, HashStepTypes

LEMMA TailHas ==
  ASSUME NEW S, NEW q \in Seq(S), q # << >>, NEW o
  PROVE  /\ (\E j \in DOMAIN q : q[j] = o) /\ Head(q) # o => \E j \in DOMAIN Tail(q) : Tail(q)[j] = o
         /\ \A j \in DOMAIN Tail(q) : j + 1 \in DOMAIN q /\ Tail(q)[j] = q[j + 1]
<1>1. /\ Tail(q) \in Seq(S) /\ Len(q) \in Nat /\ Len(q) > 0 /\ Len(Tail(q)) = Len(q) - 1
      /\ DOMAIN q = 1..Len(q) /\ DOMAIN Tail(q) = 1..Len(Tail(q)) /\ Head(q) = q[1]
      /\ \A j \in 1..Len(Tail(q)) : Tail(q)[j] = q[j + 1]
  OBVIOUS
<1>2. ASSUME NEW j \in DOMAIN q, q[j] = o, Head(q) # o
      PROVE  \E k \in DOMAIN Tail(q) : Tail(q)[k] = o
  <2>1. j \in 2..Len(q)
    BY <1>1, <1>2
  <2>2. j - 1 \in DOMAIN Tail(q) /\ Tail(q)[j - 1] = q[(j - 1) + 1] /\ (j - 1) + 1 = j
    BY <1>1, <2>1
  <2> QED
    BY <1>2, <2>2
<1> QED
  BY <1>1, <1>2

LEMMA HolderSteps ==
  ASSUME RunsInv, RestTypes, NEW s \in Proc, Acts(s)
  PROVE  /\ \A r \in Proc \ {s} : holder' = r <=> holder = r
         /\ holder' = holder \/ (GetOption(s) /\ Head(opts[s]) = "l" /\ holder' = s)
            \/ (Ends(s) /\ holder' # s)
<1>1. CASE GetOption(s)
  BY <1>1 DEF GetOption, Locks
<1>2. CASE StartScan(s) \/ Scans(s)
  BY <1>2 DEF StartScan, Scans, ScanPath, PassOver, FlushesEarly
<1>3. CASE Works(s)
  BY <1>3, WorksOn
<1>4. CASE Ends(s)
  BY <1>4, EndsExits DEF Exits, Unlocks
<1> QED
  BY <1>1, <1>2, <1>3, <1>4 DEF Acts

LEMMA LockInv ==
  ASSUME RunsInv, RestTypes, NEW s \in Proc, Acts(s), \A r \in Proc : LockOK(r)
  PROVE  \A r \in Proc : LockOK(r)'
<1>0. Apart(s) /\ ApartToo(s) /\ pc \in [Proc -> Stages]
  BY StepApart DEF RunsInv, TableTypes
<1>1. ASSUME NEW r \in Proc \ {s} PROVE LockOK(r)'
  <2>1. /\ pc'[r] = pc[r] /\ opts'[r] = opts[r] /\ args' = args /\ (holder' = r <=> holder = r)
    BY <1>0, HolderSteps DEF Apart, ApartToo
  <2>2. LockOK(r)
    OBVIOUS
  <2> QED
    BY <2>1, <2>2 DEF LockOK, Uses, Waits
<1>2. LockOK(s)'
  <2>0. LockOK(s) /\ args' = args
    BY <1>0 DEF ApartToo
  <2>1. CASE GetOption(s)
    <3>1. /\ pc' = pc /\ pc[s] = "opts" /\ opts[s] # << >> /\ opts[s] \in Seq(Options)
          /\ opts'[s] = Tail(opts[s])
          /\ IF Head(opts[s]) = "l" THEN holder' = s ELSE holder' = holder
      BY <2>1 DEF GetOption, Locks, RestTypes
    <3>2. Head(opts[s]) # "l" /\ Waits(s, "l") => Waits(s, "l")'
      <4> DEFINE q == opts[s]
      <4>1. q \in Seq(Options) /\ q # << >>
        BY <3>1
      <4> HIDE DEF q
      <4>2. (\E j \in DOMAIN q : q[j] = "l") /\ Head(q) # "l"
              => \E j \in DOMAIN Tail(q) : Tail(q)[j] = "l"
        BY <4>1, TailHas, Zenon
      <4> QED
        BY <3>1, <4>2 DEF Waits, q
    <3> QED
      BY <2>0, <3>1, <3>2 DEF LockOK, Uses, Ended
  <2>2. CASE StartScan(s) \/ Scans(s) \/ Works(s)
    <3>1. holder' = holder /\ opts' = opts /\ pc[s] \notin Ended
      BY <2>2, WorksOn
         DEF StartScan, Scans, ScanPath, PassOver, FlushesEarly, scanTab, Ended, Active
    <3>2. pc'[s] \notin Ended
      BY <1>0, <2>2, <3>1, WorksOn
         DEF StartScan, Scans, ScanPath, PassOver, FlushesEarly, Goes, Ended, Active
    <3> QED
      BY <2>0, <3>1, <3>2 DEF LockOK, Uses, Waits
  <2>3. CASE Ends(s)
    <3>1. pc'[s] \in Ended /\ holder' # s
      BY <1>0, <2>3, EndsExits DEF Exits, Goes, Unlocks
    <3> QED
      BY <3>1 DEF LockOK
  <2> QED
    BY <2>1, <2>2, <2>3 DEF Acts
<1> QED
  BY <1>1, <1>2

LEMMA ScanPathOnce ==
  ASSUME RunsInv, RestTypes, NEW s \in Proc, OnceOK(s), NEW p \in Path, ScanPath(s, p)
  PROVE  OnceOK(s)'
<1>0. FileTypes /\ TableTypes
  BY DEF RunsInv
<1> DEFINE i == dir[p]
           n == IF Met(s, i) THEN slots[s][i] ELSE Cardinality(Names(i))
           new == Append(paths[s][i], p)
<1>1. /\ Exists(p) /\ p \in todo[s] /\ HasSlot(s, i)
      /\ slots' = [slots EXCEPT ![s] = [slots[s] EXCEPT ![i] = n]]
      /\ paths' = [paths EXCEPT ![s] = [paths[s] EXCEPT ![i] = new]]
      /\ todo' = [todo EXCEPT ![s] = todo[s] \ {p}]
  BY <1>0 DEF ScanPath, TableTypes
<1>2. i \in Inode
  BY <1>0, <1>1 DEF Exists, FileTypes
<1>3. n \in Nat /\ Len(paths[s][i]) < n
  <2>1. p \in Names(i) /\ IsFiniteSet(Names(i))
    BY FS_Subset DEF Names
  <2>2. Cardinality(Names(i)) \in Nat /\ Cardinality(Names(i)) # 0
    BY <2>1, FS_CardinalityType, FS_EmptySet
  <2>3. slots[s][i] \in Nat /\ Len(paths[s][i]) <= slots[s][i] /\ Len(paths[s][i]) \in Nat
    BY <1>0, <1>2 DEF TableTypes, OnceOK
  <2>4. CASE Met(s, i)
    BY <1>1, <2>3, <2>4 DEF HasSlot
  <2>5. CASE ~Met(s, i)
    BY <2>2, <2>3, <2>5 DEF Met
  <2> QED
    BY <2>4, <2>5
<1> HIDE DEF i, n
<1>4. /\ paths[s][i] \in Seq(Path) /\ new \in Seq(Path)
      /\ Len(new) = Len(paths[s][i]) + 1 /\ Len(paths[s][i]) \in Nat
      /\ \A j \in 1..Len(paths[s][i]) : new[j] = paths[s][i][j]
      /\ new[Len(new)] = p
  BY <1>0, <1>2 DEF TableTypes
<1> HIDE DEF new
<1>5. /\ paths'[s][i] = new /\ slots'[s][i] = n
      /\ \A k \in Inode \ {i} : paths'[s][k] = paths[s][k] /\ slots'[s][k] = slots[s][k]
      /\ todo'[s] = todo[s] \ {p}
  BY <1>0, <1>1, <1>2 DEF TableTypes, RestTypes
(* Each entry is an old one, or the one for p. *)
<1>6. ASSUME NEW k \in Inode, NEW j \in 1..Len(paths'[s][k])
      PROVE  \/ j \in 1..Len(paths[s][k]) /\ paths'[s][k][j] = paths[s][k][j]
             \/ k = i /\ j = Len(new) /\ paths'[s][k][j] = p
  <2>1. CASE k = i
    BY <1>4, <1>5, <1>6, <2>1
  <2>2. CASE k # i
    BY <1>5, <1>6, <2>2
  <2> QED
    BY <2>1, <2>2
<1>7. \A k \in Inode : \A j \in 1..Len(paths[s][k]) : paths[s][k][j] \in todo[s] => FALSE
  BY DEF OnceOK
<1>8. ASSUME NEW k \in Inode, NEW j \in 1..Len(paths'[s][k]),
             NEW k2 \in Inode, NEW j2 \in 1..Len(paths'[s][k2]),
             paths'[s][k][j] = paths'[s][k2][j2]
      PROVE  k = k2 /\ j = j2
  BY <1>1, <1>6, <1>7, <1>8 DEF OnceOK
<1>9. ASSUME NEW k \in Inode, NEW j \in 1..Len(paths'[s][k]) PROVE paths'[s][k][j] \notin todo'[s]
  BY <1>5, <1>6, <1>7, <1>9
<1>10. ASSUME NEW k \in Inode PROVE Len(paths'[s][k]) <= slots'[s][k]
  <2>1. CASE k = i
    BY <1>3, <1>4, <1>5, <2>1
  <2>2. CASE k # i
    BY <1>5, <2>2 DEF OnceOK
  <2> QED
    BY <2>1, <2>2
<1> QED
  BY <1>8, <1>9, <1>10 DEF OnceOK

LEMMA OnceInv ==
  ASSUME RunsInv, RestTypes, NEW s \in Proc, Acts(s), OnceOK(s), IdleOK(s)
  PROVE  OnceOK(s)'
<1>0. pc \in [Proc -> Stages] /\ TableTypes
  BY DEF RunsInv, TableTypes
<1>1. CASE GetOption(s) \/ FlushesEarly(s) \/ Works(s)
  <2>1. UNCHANGED <<todo, paths, slots>>
    BY <1>1, WorksOn DEF GetOption, FlushesEarly, scanTab
  <2> QED
    BY <2>1 DEF OnceOK
<1>2. CASE StartScan(s)
  <2>1. UNCHANGED <<paths, slots>> /\ \A i \in Inode : paths[s][i] = << >> /\ slots[s][i] = 0
    BY <1>2 DEF StartScan, IdleOK, Active
  <2>2. \A i \in Inode : Len(paths'[s][i]) = 0 /\ slots'[s][i] = 0
    BY <2>1
  <2> QED
    BY <2>2 DEF OnceOK
<1>3. ASSUME NEW p \in Path, ScanPath(s, p) PROVE OnceOK(s)'
  BY <1>3, ScanPathOnce
<1>4. ASSUME NEW p \in Path, PassOver(s, p) PROVE OnceOK(s)'
  <2>1. UNCHANGED <<paths, slots>> /\ todo'[s] \subseteq todo[s]
    BY <1>4 DEF PassOver, RestTypes
  <2> QED
    BY <2>1 DEF OnceOK
<1>5. CASE Ends(s)
  <2>1. paths'[s] = NoPaths /\ slots'[s] = NoSlots
    BY <1>0, <1>5, EndsExits DEF Exits, TableTypes
  <2>2. \A i \in Inode : Len(paths'[s][i]) = 0 /\ slots'[s][i] = 0
    BY <2>1 DEF NoPaths, NoSlots
  <2> QED
    BY <2>2 DEF OnceOK
<1> QED
  BY <1>1, <1>2, <1>3, <1>4, <1>5 DEF Acts, Scans

LEMMA IdleInv ==
  ASSUME RunsInv, RestTypes, NEW s \in Proc, Acts(s), IdleOK(s)
  PROVE  IdleOK(s)'
<1>0. TableTypes /\ HashTypes
  BY DEF RunsInv, HashInv
<1>1. CASE GetOption(s)
  <2>1. /\ pc' = pc /\ pc[s] = "opts"
        /\ UNCHANGED <<todo, paths, slots, left, part, rest, got, cur, hdbf, hval, hstep>>
    BY <1>1 DEF GetOption, scanTab, passTab, mergeTab, hashFileVars
  <2> QED
    BY <2>1 DEF IdleOK, Active
<1>2. CASE StartScan(s)
  <2>1. /\ pc[s] = "opts" /\ pc'[s] = "scan" /\ opts[s] = << >>
        /\ UNCHANGED <<opts, paths, slots, left, part, rest, got, cur, hstep>>
    BY <1>0, <1>2 DEF StartScan, Goes, HNew, TableTypes, passTab, mergeTab, hashFileVars
  <2> QED
    BY <2>1 DEF IdleOK, Active, Ended
<1>3. CASE Scans(s)
  <2>1. /\ pc' = pc /\ pc[s] = "scan"
        /\ UNCHANGED <<opts, left, part, rest, got, cur, hstep>>
    BY <1>3 DEF Scans, ScanPath, PassOver, FlushesEarly, HValidate, passTab, mergeTab, hashFileVars
  <2> QED
    BY <2>1 DEF IdleOK, Active, Ended
<1>4. CASE Works(s)
  <2>1. Active(s) /\ Active(s)' /\ pc'[s] # "scan" /\ opts' = opts
    BY <1>4, WorksOn
  <2>2. pc'[s] \in {"get", "hash", "put"} => cur'[s] \in part'[s]
    <3>1. CASE ScanDone(s) \/ Pick(s) \/ PassesDone(s) \/ ReadDone(s) \/ NextCluster(s)
               \/ CallDoDedup(s) \/ NextVictim(s) \/ Unlink(s) \/ Link(s)
      BY <1>0, <3>1 DEF TableTypes, ScanDone, Pick, PassesDone, ReadDone, NextCluster, CallDoDedup,
         NextVictim, Unlink, Link, Goes
    <3>2. ASSUME NEW i \in Inode, Turn(s, i) PROVE cur'[s] \in part'[s]
      BY <1>0, <3>2 DEF Turn, TableTypes
    <3>3. CASE GetHash(s) \/ HashFile(s) \/ PutHash(s) \/ Switch(s)
      <4>1. UNCHANGED <<cur, part>>
        BY <3>3 DEF GetHash, HashFile, PutHash, Switch, Gets, passTab
      <4>2. pc[s] \in {"get", "hash", "put"} \/ pc' = pc
        BY <3>3 DEF GetHash, HashFile, PutHash, Switch
      <4> QED
        BY <4>1, <4>2 DEF IdleOK
    <3> QED
      BY <1>4, <3>1, <3>2, <3>3 DEF Works
  <2> QED
    BY <2>1, <2>2 DEF IdleOK
<1>5. CASE Ends(s)
  <2>1. PICK stage \in Ended : Exits(s, stage)
    BY <1>5, EndsExits
  <2>2. /\ pc'[s] \in Ended /\ todo'[s] = {} /\ paths'[s] = NoPaths /\ slots'[s] = NoSlots
        /\ left'[s] = {} /\ part'[s] = {} /\ rest'[s] = {} /\ got'[s] = NoHashes
        /\ hdbf'[s] = NoFile /\ hval'[s] = NoFile /\ hstep'[s] = "off"
    BY <1>0, <2>1 DEF Exits, Goes, TableTypes, HashTypes, RestTypes, HClosed, Served
  <2>3. ~Active(s)' /\ pc'[s] \notin {"get", "hash", "put"}
    BY <2>2 DEF Active, Ended
  <2>4. \A i \in Inode : paths'[s][i] = << >> /\ slots'[s][i] = 0 /\ got'[s][i] = NoData
    BY <2>2 DEF NoPaths, NoSlots, NoHashes
  <2> QED
    BY <2>2, <2>3, <2>4 DEF IdleOK
<1> QED
  BY <1>1, <1>2, <1>3, <1>4, <1>5 DEF Acts

LEMMA AloneNext ==
  ASSUME RunsInv, AloneInv, NEW s \in Proc, Acts(s)
  PROVE  AloneInv'
<1>0. RestTypes /\ Apart(s) /\ ApartToo(s)
  BY StepApart DEF AloneInv
<1>1. RestTypes'
  BY <1>0, RestTypesInv
<1>2. \A r \in Proc : LockOK(r)'
  BY <1>0, LockInv DEF AloneInv
<1>3. OnceOK(s)' /\ IdleOK(s)'
  BY <1>0, OnceInv, IdleInv DEF AloneInv
<1>4. ASSUME NEW r \in Proc \ {s} PROVE OnceOK(r)' /\ IdleOK(r)'
  <2>1. OnceOK(r) /\ IdleOK(r)
    BY DEF AloneInv
  <2>2. /\ pc'[r] = pc[r] /\ paths'[r] = paths[r] /\ slots'[r] = slots[r] /\ todo'[r] = todo[r]
        /\ left'[r] = left[r] /\ part'[r] = part[r] /\ rest'[r] = rest[r]
        /\ got'[r] = got[r] /\ cur'[r] = cur[r] /\ opts'[r] = opts[r]
        /\ hdbf'[r] = hdbf[r] /\ hval'[r] = hval[r] /\ hstep'[r] = hstep[r]
    BY <1>0 DEF Apart, ApartToo
  <2> QED
    BY <2>1, <2>2 DEF OnceOK, IdleOK, Active
<1> QED
  BY <1>1, <1>2, <1>3, <1>4 DEF AloneInv

LEMMA AloneInit == Init => AloneInv
<1> SUFFICES ASSUME Init PROVE AloneInv
  OBVIOUS
<1>1. RestTypes
  <2>1. /\ touched = {} /\ moved = {} /\ changes = 0 /\ holder = NoProc /\ cat = << >>
        /\ todo = ForAll({}) /\ line = ForAll(0) /\ buf = ForAll(0)
        /\ hmode = [s \in Proc |-> "r"] /\ hstep = [s \in Proc |-> "off"]
        /\ args \in [Proc -> Args] /\ opts = args
    BY DEF Init, FileSystemInit, HashFilesInit
  <2>2. args \in [Proc -> Seq(Options)]
    BY <2>1 DEF Options
  <2> QED
    BY <2>1, <2>2 DEF RestTypes, ForAll, HashSteps
<1>2. ASSUME NEW s \in Proc PROVE OnceOK(s) /\ IdleOK(s) /\ LockOK(s)
  <2>1. /\ pc[s] = "opts" /\ left[s] = {} /\ part[s] = {} /\ rest[s] = {} /\ todo[s] = {}
        /\ \A i \in Inode : got[s][i] = NoData /\ slots[s][i] = 0 /\ paths[s][i] = << >>
        /\ hdbf[s] = NoFile /\ hval[s] = NoFile /\ hstep[s] = "off" /\ opts[s] = args[s]
        /\ holder = NoProc
    BY DEF Init, HashFilesInit, ForAll, NoPaths, NoSlots, NoHashes
  <2>2. OnceOK(s)
    BY <2>1 DEF OnceOK
  <2>3. IdleOK(s)
    BY <2>1 DEF IdleOK, Active
  <2>4. LockOK(s)
    BY <2>1 DEF LockOK, Waits, Uses
  <2> QED
    BY <2>2, <2>3, <2>4
<1> QED
  BY <1>1, <1>2 DEF AloneInv

LEMMA AloneStep ==
  ASSUME RunsInv, AloneInv, [Next]_runsVars
  PROVE  AloneInv'
<1>1. CASE UNCHANGED runsVars
  <2>1. /\ UNCHANGED <<touched, moved, changes, hdbf, hval, hmode, hstep, pc, args, opts, holder>>
        /\ UNCHANGED <<cat, line, buf, todo, paths, slots, left, part, got, cur, rest>>
    BY <1>1 DEF runsVars, fsVars, hashFileVars, catVars, scanTab, passTab, mergeTab
  <2>2. RestTypes'
    BY <2>1 DEF AloneInv, RestTypes
  <2>3. ASSUME NEW s \in Proc PROVE OnceOK(s)' /\ IdleOK(s)' /\ LockOK(s)'
    <3>1. OnceOK(s) /\ IdleOK(s) /\ LockOK(s)
      BY DEF AloneInv
    <3>2. OnceOK(s)'
      BY <2>1, <3>1 DEF OnceOK
    <3>3. IdleOK(s)'
      BY <2>1, <3>1 DEF IdleOK, Active
    <3>4. LockOK(s)'
      BY <2>1, <3>1 DEF LockOK, Uses, Waits
    <3> QED
      BY <3>2, <3>3, <3>4
  <2> QED
    BY <2>2, <2>3 DEF AloneInv
<1> QED
  BY <1>1, NextActs, AloneNext

(* With the lock a process that is past its options is alone. *)
LEMMA Alone ==
  ASSUME AloneInv, AllLock, NEW s \in Proc, Active(s)
  PROVE  holder = s /\ \A r \in Proc \ {s} : ~Active(r)
<1>1. ASSUME NEW r \in Proc, Active(r) PROVE holder = r
  <2>1. opts[r] = << >> /\ Uses(r, "l") /\ pc[r] \notin Ended
    BY <1>1 DEF AloneInv, IdleOK, Active, AllLock
  <2>2. ~Waits(r, "l")
    BY <2>1 DEF Waits
  <2> QED
    BY <2>1, <2>2 DEF AloneInv, LockOK
<1> QED
  BY <1>1

(* Each table holds what the types say, the inodes of the passes have been met, and no       *)
(* inode has more paths than slots (inodetab.c:65-75).                                         *)
THEOREM RunsTyped == Spec => []RunsTypeOK
<1>1. Init => RunsInv /\ AloneInv
  BY InitInv, AloneInit
<1>2. RunsInv /\ AloneInv /\ [Next]_runsVars => (RunsInv /\ AloneInv)'
  BY NextInv, AloneStep
<1>3. RunsInv /\ AloneInv => RunsTypeOK
  <2> SUFFICES ASSUME RunsInv, AloneInv PROVE RunsTypeOK
    OBVIOUS
  <2>1. FileSystemTypeOK
    BY DEF RunsInv, AloneInv, FileTypes, RestTypes, FileSystemTypeOK
  <2>2. HashFilesTypeOK
    BY DEF RunsInv, AloneInv, HashInv, HashTypes, RestTypes, HashSteps, HashFilesTypeOK, MaybeFile,
       MaybeData
  <2>3. ASSUME NEW s \in Proc
        PROVE  /\ todo[s] \subseteq Path
               /\ left[s] \cup part[s] \cup rest[s] \subseteq {i \in Inode : Met(s, i)}
               /\ \A i \in Inode : Len(paths[s][i]) <= slots[s][i]
    <3>1. /\ left[s] \subseteq Noted(s) /\ part[s] \subseteq Noted(s) /\ rest[s] \subseteq Noted(s)
          /\ \A i \in Inode : Len(paths[s][i]) <= slots[s][i]
      BY DEF RunsInv, LocalOK, PassOK, AloneInv, OnceOK
    <3>2. \A i \in Noted(s) : i \in Inode /\ Met(s, i)
      BY <3>1 DEF Noted, Met, RunsInv, TableTypes
    <3>3. todo[s] \subseteq Path
      BY DEF AloneInv, RestTypes
    <3> QED
      BY <3>1, <3>2, <3>3
  <2>4. /\ pc \in [Proc -> Stages] /\ holder \in Proc \cup {NoProc}
        /\ got \in [Proc -> [Inode -> Data \cup {NoData}]]
    BY DEF RunsInv, TableTypes, AloneInv, RestTypes, MaybeData
  <2> QED
    BY <2>1, <2>2, <2>3, <2>4 DEF RunsTypeOK
<1> QED
  BY <1>1, <1>2, <1>3, PTL DEF Spec

--------------------------------------------------------------------------------
(* The cache files under the lock. *)
NamesApart == hcdName = valName => hcdName = NoFile

(* What a process has open are the files of the two names. *)
CacheOK(s) ==
  /\ hdbf[s] \in {NoFile, hcdName} /\ hval[s] \in {NoFile, valName}
  /\ hstep[s] \in {"unlink", "rename", "reopen"} => hdbf[s] = NoFile /\ hval[s] = NoFile
  /\ hstep[s] \in {"unlink", "rename"} => valName # NoFile

(* Once the cache is open for writing, it is under its name and is not switched again. *)
SwitchedOK(s) ==
  /\ hmode[s] = "rw" => hval[s] = NoFile /\ hcdName # NoFile
  /\ hstep[s] \in {"unlink", "rename"} => hmode[s] = "r"
  /\ hstep[s] = "ready" => hmode[s] = "rw"

OthersClosed(s) == \A r \in Proc \ {s} : hdbf[r] = NoFile /\ hval[r] = NoFile

LEMMA SpareIsApart == Spares # {} => Spare \in DBFile /\ Spare \notin {hcdName, valName}
BY DEF Spare, Spares

LEMMA NewIsClosed ==
  ASSUME HashTypes, HashStepTypes, NEW s \in Proc, NamesApart, HNew(s),
         hdbf[s] = NoFile, hval[s] = NoFile, hstep[s] = "off"
  PROVE  NamesApart' /\ CacheOK(s)' /\ SwitchedOK(s)' /\ hmode'[s] = "r"
BY DEF HashTypes, HashStepTypes, HashSteps, HNew, NamesApart, CacheOK, SwitchedOK

LEMMA ValidateKeeps ==
  ASSUME HashTypes, HashStepTypes, NEW s \in Proc, NEW i, NamesApart, CacheOK(s),
         hstep[s] = "off", HValidate(s, i)
  PROVE  NamesApart' /\ CacheOK(s)' /\ (hmode[s] = "r" => SwitchedOK(s)')
<1> DEFINE f == IF hval[s] # NoFile THEN hval[s] ELSE Created(valName)
<1>1. /\ hval' = [hval EXCEPT ![s] = f] /\ valName' = (IF hval[s] # NoFile THEN valName ELSE f)
      /\ UNCHANGED <<hcdName, hdbf, hmode, hstep>>
  BY DEF HValidate
<1>2. f \in DBFile /\ (hval[s] = NoFile => f # hcdName)
  <2>1. CASE hval[s] # NoFile
    BY <2>1 DEF HashTypes, MaybeFile
  <2>2. CASE hval[s] = NoFile /\ valName # NoFile
    BY <2>2 DEF HashTypes, MaybeFile, Created, NamesApart
  <2>3. CASE hval[s] = NoFile /\ valName = NoFile
    BY <2>3, SpareIsApart DEF HValidate, CanCreate, Created
  <2> QED
    BY <2>1, <2>2, <2>3
<1> HIDE DEF f
<1>3. hval'[s] = f /\ (hval[s] # NoFile => f = hval[s] /\ f = valName)
  BY <1>1 DEF HashTypes, CacheOK, f
<1> QED
  BY <1>1, <1>2, <1>3 DEF NamesApart, CacheOK, SwitchedOK

LEMMA SwitchKeeps ==
  ASSUME HashTypes, HashStepTypes, NEW s \in Proc, NEW iswr, NamesApart, CacheOK(s),
         OthersClosed(s), DoneClose(s, iswr) \/ DoneStep(s)
  PROVE  /\ NamesApart' /\ CacheOK(s)'
         /\ SwitchedOK(s) => /\ SwitchedOK(s)'
                             /\ hmode[s] = "rw" => hmode'[s] = "rw" /\ db' = db /\ hcdName' = hcdName
<1> USE DEF HashTypes, HashStepTypes, HashSteps
<1>1. CASE DoneClose(s, iswr)
  BY <1>1 DEF DoneClose, NamesApart, CacheOK, SwitchedOK
<1>2. CASE DoneUnlink(s)
  BY <1>2 DEF DoneUnlink, NamesApart, CacheOK, SwitchedOK
<1>3. CASE DoneRename(s)
  BY <1>3 DEF DoneRename, NamesApart, CacheOK, SwitchedOK
<1>4. CASE DoneReopen(s)
  <2>1. hdbf[s] = NoFile /\ hval[s] = NoFile
    BY <1>4 DEF DoneReopen, CacheOK
  <2>2. CanWrite(hcdName)
    BY <2>1 DEF CanWrite, OpenBy, OthersClosed
  <2>3. /\ hcdName' = Created(hcdName) /\ hdbf' = [hdbf EXCEPT ![s] = hcdName']
        /\ hcdName # NoFile => db' = db
        /\ hmode' = [hmode EXCEPT ![s] = "rw"] /\ hstep' = [hstep EXCEPT ![s] = "ready"]
        /\ UNCHANGED <<valName, hval>>
    BY <1>4, <2>2 DEF DoneReopen
  <2>4. /\ hcdName' \in DBFile /\ hcdName' # valName
        /\ hcdName # NoFile => hcdName' = hcdName
    BY <1>4, <2>3, SpareIsApart DEF DoneReopen, CanCreate, Created, MaybeFile, NamesApart
  <2>5. hdbf'[s] = hcdName' /\ hmode'[s] = "rw" /\ hstep'[s] = "ready" /\ hval'[s] = NoFile
    BY <2>1, <2>3
  <2> QED
    BY <2>1, <2>3, <2>4, <2>5 DEF NamesApart, CacheOK, SwitchedOK
<1> QED
  BY <1>1, <1>2, <1>3, <1>4 DEF DoneStep

LEMMA UseKeeps ==
  ASSUME HashTypes, HashStepTypes, NEW s \in Proc, NEW i, NEW hash, NamesApart, CacheOK(s),
         HGet(s) \/ HPut(s, i, hash)
  PROVE  /\ NamesApart' /\ CacheOK(s)' /\ (SwitchedOK(s) => SwitchedOK(s)')
         /\ hdbf[s] = hcdName /\ UNCHANGED <<hcdName, hmode>>
BY DEF HashTypes, HashStepTypes, HashSteps, HGet, HPut, Served, NamesApart, CacheOK, SwitchedOK

--------------------------------------------------------------------------------
(* The tree under the lock: all names the process has noted of the inodes it has still to     *)
(* handle lead to them, and do_dedup finds what it needs.                                       *)
Undone(s) == left[s] \cup part[s] \cup rest[s]

Leads(s, i) == \A j \in 1..Len(paths[s][i]) : dir[paths[s][i][j]] = i

ScanView(s) ==
  /\ \A p \in todo[s] : Exists(p)
  /\ \A i \in Inode : Leads(s, i) /\ (Met(s, i) => slots[s][i] = Cardinality(Names(i)))

(* The inodes of which p is not a name. *)
Free(s, p) == \A i \in Undone(s) : \A l \in 1..Len(paths[s][i]) : paths[s][i][l] # p

VicOK(s, j) ==
  /\ vics[s][j] # bpath[s] /\ Free(s, vics[s][j])
  /\ Exists(vics[s][j]) <=> ~(pc[s] = "link" /\ j = 1)
  /\ \A l \in 1..Len(vics[s]) : vics[s][l] = vics[s][j] => l = j

MergeView(s) ==
  /\ Exists(bpath[s]) /\ Free(s, bpath[s])
  /\ \A j \in 1..Len(vics[s]) : VicOK(s, j)

ViewOK(s) ==
  /\ pc[s] = "scan" => ScanView(s)
  /\ left[s] \cap part[s] = {} /\ rest[s] \cap (left[s] \cup part[s]) = {}
  /\ \A i \in Undone(s) : Leads(s, i)
  /\ pc[s] \in {"unlink", "link"} => MergeView(s)

LEMMA ScanViews ==
  ASSUME RunsInv, AloneInv, NEW s \in Proc, StartScan(s) \/ Scans(s), Active(s) => ViewOK(s)
  PROVE  ViewOK(s)'
<1>0. FileTypes /\ TableTypes /\ RestTypes /\ IdleOK(s)
  BY DEF RunsInv, AloneInv
<1>1. /\ pc'[s] = "scan" /\ dir' = dir
      /\ left'[s] = {} /\ part'[s] = {} /\ rest'[s] = {}
  <2>1. CASE StartScan(s)
    BY <1>0, <2>1 DEF StartScan, Goes, TableTypes, IdleOK, Active, fsVars, passTab, mergeTab
  <2>2. CASE Scans(s)
    BY <1>0, <2>2 DEF Scans, ScanPath, PassOver, FlushesEarly, IdleOK, fsVars, passTab, mergeTab
  <2> QED
    BY <2>1, <2>2
<1>2. ScanView(s)'
  <2>1. CASE StartScan(s)
    <3>1. todo'[s] = {p \in Path : Exists(p)} /\ UNCHANGED <<paths, slots>>
          /\ \A i \in Inode : paths[s][i] = << >> /\ slots[s][i] = 0
      BY <1>0, <2>1 DEF StartScan, RestTypes, IdleOK, Active
    <3> QED
      BY <1>1, <3>1 DEF ScanView, Leads, Met, Exists
  <2>2. CASE FlushesEarly(s) \/ \E p \in Path : PassOver(s, p)
    <3>1. ScanView(s) /\ todo'[s] \subseteq todo[s] /\ UNCHANGED <<paths, slots>>
      BY <1>0, <2>2 DEF FlushesEarly, PassOver, RestTypes, ViewOK, Active, Ended, scanTab
    <3> QED
      BY <1>1, <3>1 DEF ScanView, Leads, Met, Exists, Names
  <2>3. ASSUME NEW p \in Path, ScanPath(s, p) PROVE ScanView(s)'
    <3> DEFINE i == dir[p]
               n == IF Met(s, i) THEN slots[s][i] ELSE Cardinality(Names(i))
               new == Append(paths[s][i], p)
    <3>1. /\ Exists(p) /\ ScanView(s) /\ todo'[s] \subseteq todo[s]
          /\ slots' = [slots EXCEPT ![s] = [slots[s] EXCEPT ![i] = n]]
          /\ paths' = [paths EXCEPT ![s] = [paths[s] EXCEPT ![i] = new]]
      BY <1>0, <2>3 DEF ScanPath, TableTypes, RestTypes, ViewOK, Active, Ended
    <3>2. i \in Inode
      BY <1>0, <3>1 DEF Exists, FileTypes
    <3>3. n = Cardinality(Names(i))
      BY <3>1, <3>2 DEF ScanView
    <3> HIDE DEF i, n
    <3>4. /\ paths[s][i] \in Seq(Path) /\ Len(new) = Len(paths[s][i]) + 1
          /\ \A j \in 1..Len(paths[s][i]) : new[j] = paths[s][i][j]
          /\ new[Len(new)] = p /\ Len(paths[s][i]) \in Nat
      BY <1>0, <3>2 DEF TableTypes
    <3> HIDE DEF new
    <3>5. /\ paths'[s][i] = new /\ slots'[s][i] = n
          /\ \A k \in Inode \ {i} : paths'[s][k] = paths[s][k] /\ slots'[s][k] = slots[s][k]
      BY <1>0, <3>1, <3>2 DEF TableTypes
    <3>6. ASSUME NEW k \in Inode PROVE Leads(s, k)' /\ (Met(s, k)' => slots'[s][k] = Cardinality(Names(k)'))
      <4>0. Names(k)' = Names(k)
        BY <1>1 DEF Names
      <4>1. CASE k = i
        <5>1. ASSUME NEW j \in 1..Len(new) PROVE dir[new[j]] = i
          <6>1. CASE j \in 1..Len(paths[s][i])
            BY <6>1, <3>1, <3>2, <3>4 DEF ScanView, Leads
          <6>2. CASE j = Len(new)
            BY <6>2, <3>4 DEF i
          <6> QED
            BY <3>4, <6>1, <6>2
        <5> QED
          BY <1>1, <3>3, <3>5, <4>0, <4>1, <5>1 DEF Leads
      <4>2. CASE k # i
        BY <1>1, <3>1, <3>5, <4>0, <4>2 DEF ScanView, Leads, Met
      <4> QED
        BY <4>1, <4>2
    <3> QED
      BY <1>1, <3>1, <3>6 DEF ScanView, Exists
  <2> QED
    BY <2>1, <2>2, <2>3 DEF Scans
<1> QED
  BY <1>1, <1>2 DEF ViewOK, Undone

(* Steps that change none of what do_dedup and the passes have in hand. *)
LEMMA QuietViews ==
  ASSUME RunsInv, NEW s \in Proc, ViewOK(s),
         UNCHANGED <<dir, todo, paths, slots, left, part, rest, bpath, vics>>,
         pc' = pc \/ pc'[s] \notin {"scan", "unlink", "link"}
  PROVE  ViewOK(s)'
<1>1. /\ Undone(s)' = Undone(s) /\ \A i : Leads(s, i)' <=> Leads(s, i)
      /\ \A p : Free(s, p)' <=> Free(s, p)
  BY DEF Undone, Leads, Free
<1>2. CASE pc' = pc
  <2>1. ScanView(s) => ScanView(s)'
    BY <1>1 DEF ScanView, Exists, Met, Names
  <2>2. MergeView(s) => MergeView(s)'
    BY <1>1, <1>2 DEF MergeView, VicOK, Exists, Free, Undone
  <2> QED
    BY <1>1, <1>2, <2>1, <2>2 DEF ViewOK
<1>3. CASE pc'[s] \notin {"scan", "unlink", "link"}
  BY <1>1, <1>3 DEF ViewOK
<1> QED
  BY <1>2, <1>3

(* The passes take inodes from left to part, and do_dedup from there. *)
LEMMA PassViews ==
  ASSUME RunsInv, AloneInv, NEW s \in Proc, ViewOK(s), ScanDone(s) \/ Pick(s)
  PROVE  ViewOK(s)'
<1>0. TableTypes /\ IdleOK(s)
  BY DEF RunsInv, AloneInv
<1>1. UNCHANGED <<dir, paths, rest>> /\ pc'[s] \in {"pass", "read"}
  BY <1>0 DEF ScanDone, Pick, Goes, TableTypes, fsVars, scanTab, mergeTab
<1>2. CASE ScanDone(s)
  <2>1. pc[s] = "scan" /\ part'[s] = {} /\ rest'[s] = {} /\ left'[s] \subseteq Inode
    BY <1>0, <1>1, <1>2 DEF ScanDone, TableTypes, IdleOK
  <2>2. \A i \in Inode : Leads(s, i)'
    BY <1>1, <2>1 DEF ViewOK, ScanView, Leads
  <2> QED
    BY <1>1, <2>1, <2>2 DEF ViewOK, Undone
<1>3. CASE Pick(s)
  <2>1. PICK i \in left[s] :
          LET k == {j \in left[s] : Alike(i, j)} IN
            left' = [left EXCEPT ![s] = @ \ k] /\ part' = [part EXCEPT ![s] = k]
    BY <1>3 DEF Pick
  <2> DEFINE k == {j \in left[s] : Alike(i, j)}
  <2>2. left'[s] = left[s] \ k /\ part'[s] = k /\ k \subseteq left[s]
    BY <1>0, <2>1 DEF TableTypes
  <2> HIDE DEF k
  <2>3. Undone(s)' \subseteq Undone(s)
    BY <1>1, <2>2 DEF Undone
  <2>4. \A j : Leads(s, j) => Leads(s, j)'
    BY <1>1 DEF Leads
  <2> QED
    BY <1>1, <2>2, <2>3, <2>4 DEF ViewOK
<1> QED
  BY <1>2, <1>3

LEMMA CallViews ==
  ASSUME RunsInv, AloneInv, NEW s \in Proc, ViewOK(s), CallDoDedup(s)
  PROVE  ViewOK(s)'
<1>0. TableTypes /\ LocalOK(s) /\ OnceOK(s)
  BY DEF RunsInv, AloneInv
<1>1. PICK b \in part[s] :
        /\ bpath' = [bpath EXCEPT ![s] = First(s, b)]
        /\ rest' = [rest EXCEPT ![s] = Victims(s, b)]
        /\ part' = [part EXCEPT ![s] = @ \ PartOf(s, b)]
  BY DEF CallDoDedup
<1>2. pc[s] = "merge" /\ pc' = [pc EXCEPT ![s] = "unlink"] /\ UNCHANGED <<dir, paths, left, got, vics>>
  BY DEF CallDoDedup, Goes, fsVars, scanTab
<1>3. /\ pc'[s] = "unlink" /\ bpath'[s] = First(s, b) /\ rest'[s] = PartOf(s, b) \ {b}
      /\ part'[s] = part[s] \ PartOf(s, b) /\ left'[s] = left[s] /\ vics'[s] = << >>
  BY <1>0, <1>1, <1>2 DEF TableTypes, Victims, LocalOK, MergeOK, Ended
<1>4. b \in PartOf(s, b) /\ PartOf(s, b) \subseteq part[s] /\ b \in Undone(s)
  BY DEF PartOf, Undone
<1>5. Undone(s)' \subseteq Undone(s) \ {b} /\ Undone(s) \subseteq Inode
  BY <1>0, <1>3, <1>4 DEF Undone, ViewOK, TableTypes
<1>6. 1 \in 1..Len(paths[s][b]) /\ First(s, b) = paths[s][b][1] /\ b \in Inode
  BY <1>0 DEF LocalOK, PassOK, Noted, First, TableTypes
<1>7. \A i \in Undone(s)' : Leads(s, i)'
  BY <1>2, <1>5 DEF ViewOK, Leads
<1>8. MergeView(s)'
  <2>1. dir[First(s, b)] = b /\ First(s, b) \in Path
    BY <1>0, <1>4, <1>6 DEF ViewOK, Leads, TableTypes
  <2>2. Exists(bpath[s])'
    BY <1>2, <1>3, <1>6, <2>1 DEF Exists
  <2>3. Free(s, bpath[s])'
    <3>1. ASSUME NEW i \in Undone(s)', NEW l \in 1..Len(paths[s][i]) PROVE paths[s][i][l] # First(s, b)
      BY <1>5, <1>6, <3>1, <1>0 DEF OnceOK
    <3> QED
      BY <1>2, <1>3, <3>1 DEF Free
  <2>4. Len(vics'[s]) = 0
    BY <1>3
  <2> QED
    BY <2>2, <2>3, <2>4 DEF MergeView
<1> QED
  BY <1>3, <1>4, <1>7, <1>8 DEF ViewOK

LEMMA VictimViews ==
  ASSUME RunsInv, AloneInv, NEW s \in Proc, ViewOK(s), NextVictim(s)
  PROVE  ViewOK(s)'
<1>0. TableTypes /\ OnceOK(s)
  BY DEF RunsInv, AloneInv
<1>1. pc[s] = "unlink" /\ UNCHANGED <<dir, todo, paths, slots, left, part, got, cur>>
  BY DEF NextVictim, fsVars, scanTab, passTab
<1>2. CASE Goes(s, "merge") /\ UNCHANGED mergeTab
  BY <1>0, <1>1, <1>2, QuietViews DEF Goes, mergeTab, TableTypes
<1>3. ASSUME NEW i \in rest[s], vics' = [vics EXCEPT ![s] = paths[s][i]],
             rest' = [rest EXCEPT ![s] = @ \ {i}], UNCHANGED <<pc, bpath>>
      PROVE  ViewOK(s)'
  <2>1. /\ vics'[s] = paths[s][i] /\ rest'[s] = rest[s] \ {i} /\ i \in Inode
        /\ paths[s][i] \in Seq(Path)
    BY <1>0, <1>3 DEF TableTypes
  <2>2. Undone(s)' \subseteq Undone(s) \ {i} /\ i \in Undone(s) /\ Undone(s) \subseteq Inode
    BY <1>0, <1>1, <2>1 DEF Undone, ViewOK, TableTypes
  <2>3. \A k \in Undone(s)' : Leads(s, k)'
    BY <1>1, <2>2 DEF ViewOK, Leads
  <2>4. MergeView(s)
    BY <1>1 DEF ViewOK
  <2>5. Exists(bpath[s])' /\ Free(s, bpath[s])'
    BY <1>1, <1>3, <2>2, <2>4 DEF MergeView, Exists, Free
  <2>6. ASSUME NEW j \in 1..Len(paths[s][i]) PROVE VicOK(s, j)'
    <3> DEFINE p == paths[s][i][j]
    <3>1. p # bpath[s] /\ p \in Path /\ dir[p] = i
      BY <2>1, <2>2, <2>4 DEF MergeView, Free, ViewOK, Leads
    <3>2. \A k \in Undone(s)' : \A l \in 1..Len(paths[s][k]) : paths[s][k][l] # p
      BY <1>0, <2>1, <2>2 DEF OnceOK
    <3>3. \A l \in 1..Len(paths[s][i]) : paths[s][i][l] = p => l = j
      BY <1>0, <2>1 DEF OnceOK
    <3>4. vics'[s] = paths[s][i] /\ pc'[s] = "unlink" /\ bpath'[s] = bpath[s] /\ dir'[p] # NoInode
      BY <1>1, <1>3, <2>1, <3>1
    <3>5. Free(s, vics[s][j])'
      BY <1>1, <2>1, <3>2 DEF Free
    <3>6. Exists(vics[s][j])'
      BY <3>4 DEF Exists
    <3> QED
      BY <3>1, <3>3, <3>4, <3>5, <3>6 DEF VicOK
  <2>7. MergeView(s)'
    BY <2>1, <2>5, <2>6 DEF MergeView
  <2> QED
    BY <1>1, <1>3, <2>1, <2>3, <2>7 DEF ViewOK
<1> QED
  BY <1>2, <1>3 DEF NextVictim

(* What Unlink and Link have in hand. *)
LEMMA HandView ==
  ASSUME RunsInv, NEW s \in Proc, ViewOK(s), pc[s] \in {"unlink", "link"}, vics[s] # << >>
  PROVE  /\ vics[s] \in Seq(Path) /\ Len(vics[s]) \in Nat /\ 1 \in 1..Len(vics[s])
         /\ Head(vics[s]) = vics[s][1]
         /\ Head(vics[s]) \in Path /\ bpath[s] \in Path /\ VicOK(s, 1) /\ MergeView(s)
<1>1. vics[s] \in Seq(Path) /\ MergeView(s)
  BY DEF RunsInv, TableTypes, ViewOK
<1>2. 1 \in 1..Len(vics[s]) /\ Head(vics[s]) = vics[s][1] /\ Head(vics[s]) \in Path
  BY <1>1
<1> QED
  BY <1>1, <1>2, InHand DEF MergeView

LEMMA UnlinkViews ==
  ASSUME RunsInv, NEW s \in Proc, ViewOK(s), Unlink(s)
  PROVE  ViewOK(s)'
<1> DEFINE p == Head(vics[s])
<1>0. FileTypes /\ TableTypes
  BY DEF RunsInv
<1>1. /\ pc[s] = "unlink" /\ vics[s] # << >> /\ dir' = [dir EXCEPT ![p] = NoInode]
      /\ pc'[s] = "link"
      /\ UNCHANGED <<paths, left, part, rest, bpath, vics>>
  BY <1>0 DEF Unlink, UnlinkPath, Goes, scanTab, passTab, mergeTab, TableTypes
<1>2. p \in Path /\ bpath[s] \in Path /\ VicOK(s, 1) /\ MergeView(s) /\ p = vics[s][1]
      /\ 1 \in 1..Len(vics[s]) /\ vics[s] \in Seq(Path)
  BY <1>1, HandView
<1> HIDE DEF p
<1>3. dir'[p] = NoInode /\ \A q \in Path : q # p => dir'[q] = dir[q]
  BY <1>0, <1>1, <1>2 DEF FileTypes
<1>4. Undone(s)' = Undone(s) /\ Undone(s) \subseteq Inode /\ \A q : Free(s, q) => Free(s, q)'
  BY <1>0, <1>1 DEF Undone, Free, TableTypes
<1>5. ASSUME NEW i \in Undone(s) PROVE Leads(s, i)'
  <2>1. \A j \in 1..Len(paths[s][i]) : paths[s][i][j] \in Path /\ paths[s][i][j] # p
    BY <1>0, <1>2, <1>4 DEF VicOK, Free, TableTypes
  <2> QED
    BY <1>1, <1>3, <2>1 DEF ViewOK, Leads
<1>6. MergeView(s)'
  <2>1. bpath[s] # p /\ Exists(bpath[s])' /\ Free(s, bpath[s])'
    BY <1>1, <1>2, <1>3, <1>4 DEF VicOK, MergeView, Exists
  <2>2. ASSUME NEW j \in 1..Len(vics[s]) PROVE VicOK(s, j)'
    <3>1. VicOK(s, j) /\ vics[s][j] \in Path /\ (vics[s][j] = p <=> j = 1)
      BY <1>2 DEF MergeView, VicOK
    <3>2. Exists(vics[s][j])' <=> j # 1
      BY <1>1, <1>2, <1>3, <3>1 DEF VicOK, Exists
    <3> QED
      BY <1>1, <1>4, <3>1, <3>2 DEF VicOK
  <2> QED
    BY <1>1, <2>1, <2>2 DEF MergeView
<1> QED
  BY <1>1, <1>4, <1>5, <1>6 DEF ViewOK

LEMMA LinkViews ==
  ASSUME RunsInv, NEW s \in Proc, ViewOK(s), Link(s)
  PROVE  ViewOK(s)'
<1> DEFINE p == Head(vics[s])
           q == vics[s]
<1>0. FileTypes /\ TableTypes /\ LocalOK(s)
  BY DEF RunsInv
<1>1. /\ pc[s] = "link" /\ vics[s] # << >> /\ dir' = [dir EXCEPT ![p] = dir[bpath[s]]]
      /\ pc'[s] = "unlink" /\ vics'[s] = Tail(q)
      /\ UNCHANGED <<paths, left, part, rest, bpath>>
  BY <1>0 DEF Link, LinkPath, Goes, scanTab, passTab, TableTypes, LocalOK, MergeOK
<1>2. /\ p \in Path /\ bpath[s] \in Path /\ VicOK(s, 1) /\ MergeView(s) /\ p = q[1]
      /\ q \in Seq(Path) /\ q # << >> /\ Len(q) \in Nat
  BY <1>1, HandView
<1> HIDE DEF p
<1>3. \A r \in Path : r # p => dir'[r] = dir[r]
  BY <1>0, <1>1, <1>2 DEF FileTypes
<1>4. Undone(s)' = Undone(s) /\ Undone(s) \subseteq Inode /\ \A r : Free(s, r) => Free(s, r)'
  BY <1>0, <1>1 DEF Undone, Free, TableTypes
<1>5. ASSUME NEW i \in Undone(s) PROVE Leads(s, i)'
  <2>1. \A j \in 1..Len(paths[s][i]) : paths[s][i][j] \in Path /\ paths[s][i][j] # p
    BY <1>0, <1>2, <1>4 DEF VicOK, Free, TableTypes
  <2> QED
    BY <1>1, <1>3, <2>1 DEF ViewOK, Leads
<1>6. bpath[s] # p /\ Exists(bpath[s])' /\ Free(s, bpath[s])'
  BY <1>1, <1>2, <1>3, <1>4 DEF VicOK, MergeView, Exists
<1>7. ASSUME NEW j \in 1..Len(Tail(q)) PROVE VicOK(s, j)'
  <2> HIDE DEF q
  <2>1. /\ j + 1 \in 1..Len(q) /\ j + 1 # 1 /\ Tail(q)[j] = q[j + 1]
        /\ \A l \in 1..Len(Tail(q)) : l + 1 \in 1..Len(q) /\ Tail(q)[l] = q[l + 1]
    BY <1>2
  <2>2. /\ q[j + 1] # bpath[s] /\ Free(s, q[j + 1]) /\ Exists(q[j + 1]) /\ q[j + 1] \in Path
        /\ \A l \in 1..Len(q) : q[l] = q[j + 1] => l = j + 1
    BY <1>2, <2>1 DEF MergeView, VicOK, q
  <2>3. 1 \in 1..Len(q)
    BY <1>2
  <2>4. q[j + 1] # p
    BY <1>2, <2>1, <2>2, <2>3
  <2>5. dir'[q[j + 1]] # NoInode
    BY <1>3, <2>2, <2>4 DEF Exists
  <2>6. \A l \in 1..Len(Tail(q)) : Tail(q)[l] = Tail(q)[j] => l = j
    BY <2>1, <2>2
  <2>7. vics'[s] = Tail(q) /\ vics'[s][j] = q[j + 1] /\ bpath'[s] = bpath[s] /\ pc'[s] = "unlink"
    BY <1>1, <2>1 DEF q
  <2>8. Free(s, vics[s][j])'
    BY <1>4, <2>2, <2>7
  <2>9. Exists(vics[s][j])'
    BY <2>5, <2>7 DEF Exists
  <2> QED
    BY <2>2, <2>6, <2>7, <2>8, <2>9 DEF VicOK
<1>8. MergeView(s)'
  BY <1>1, <1>6, <1>7 DEF MergeView
<1> QED
  BY <1>1, <1>4, <1>5, <1>8 DEF ViewOK

LEMMA WorksViews ==
  ASSUME RunsInv, AloneInv, NEW s \in Proc, ViewOK(s), Works(s)
  PROVE  ViewOK(s)'
<1>0. TableTypes
  BY DEF RunsInv
<1>1. CASE ScanDone(s) \/ Pick(s)
  BY <1>1, PassViews
<1>2. CASE PassesDone(s) \/ ReadDone(s) \/ NextCluster(s)
  BY <1>0, <1>2, QuietViews DEF PassesDone, ReadDone, NextCluster, Goes, TableTypes, fsVars,
     scanTab, passTab, mergeTab
<1>3. CASE \E i \in Inode : Turn(s, i)
  BY <1>0, <1>3, QuietViews DEF Turn, Goes, TableTypes, fsVars, scanTab, mergeTab
<1>4. CASE GetHash(s)
  <2>1. /\ UNCHANGED <<dir, todo, paths, slots, left, part, rest, bpath, vics>>
        /\ pc'[s] \in {"hash", "read"}
    BY <1>0, <1>4 DEF GetHash, Gets, Goes, TableTypes, fsVars, scanTab, passTab, mergeTab
  <2> QED
    BY <2>1, QuietViews
<1>5. CASE HashFile(s) \/ PutHash(s)
  <2>1. /\ UNCHANGED <<dir, todo, paths, slots, left, part, rest, bpath, vics>>
        /\ pc'[s] \in {"put", "read"}
    BY <1>0, <1>5 DEF HashFile, PutHash, Gets, Goes, TableTypes, fsVars, scanTab, passTab, mergeTab
  <2> QED
    BY <2>1, QuietViews
<1>6. CASE Switch(s)
  BY <1>6, QuietViews DEF Switch, fsVars, scanTab, passTab, mergeTab
<1>7. CASE CallDoDedup(s)
  BY <1>7, CallViews
<1>8. CASE NextVictim(s)
  BY <1>8, VictimViews
<1>9. CASE Unlink(s) \/ Link(s)
  BY <1>9, UnlinkViews, LinkViews
<1> QED
  BY <1>1, <1>2, <1>3, <1>4, <1>5, <1>6, <1>7, <1>8, <1>9 DEF Works

--------------------------------------------------------------------------------
(* Under the lock no call of a process fails.  What the others have closed cannot be in use,   *)
(* the tables are as the tree is, and a file with all names of the tree has fewer than the      *)
(* file system allows.                                                                            *)
Roomy == Cardinality(Path) <= MaxLinks

LEMMA NamesFinite == \A i : IsFiniteSet(Names(i)) /\ Names(i) \subseteq Path
BY FS_Subset DEF Names

(* There is a slot for a name that has not been noted of its inode (inodetab.c:65-75). *)
LEMMA SlotLeft ==
  ASSUME RunsInv, AloneInv, NEW s \in Proc, ScanView(s), NEW p \in todo[s]
  PROVE  Exists(p) /\ HasSlot(s, dir[p])
<1> DEFINE i == dir[p]
           q == paths[s][i]
<1>1. p \in Path /\ Exists(p)
  BY DEF ScanView, AloneInv, RestTypes
<1>2. i \in Inode
  BY <1>1 DEF Exists, RunsInv, FileTypes
<1>3. q \in Seq(Path) /\ Len(q) \in Nat
  BY <1>2 DEF RunsInv, TableTypes
<1>4. /\ \A j \in 1..Len(q) : q[j] \in Path /\ dir[q[j]] = i /\ q[j] # p
      /\ \A j, l \in 1..Len(q) : q[j] = q[l] => j = l
      /\ Met(s, i) => slots[s][i] = Cardinality(Names(i))
  BY <1>2, <1>3 DEF ScanView, Leads, AloneInv, OnceOK
<1> HIDE DEF q
<1>5. Len(q) < Cardinality(Names(i))
  <2> DEFINE X == Names(i) \ {p}
             f == [j \in 1..Len(q) |-> q[j]]
  <2>1. IsFiniteSet(X) /\ Cardinality(X) = Cardinality(Names(i)) - 1 /\ Cardinality(Names(i)) \in Nat
    <3> DEFINE N == Names(i)
    <3>1. IsFiniteSet(N) /\ p \in N
      BY <1>1, NamesFinite DEF Names
    <3> HIDE DEF N
    <3>2. IsFiniteSet(N \ {p}) /\ Cardinality(N \ {p}) = Cardinality(N) - 1
      BY <3>1, FS_RemoveElement
    <3>3. Cardinality(N) \in Nat
      BY <3>1, FS_CardinalityType
    <3> QED
      BY <3>2, <3>3 DEF N
  <2>2. Cardinality(1..Len(q)) = Len(q)
    <3>1. \A n \in Nat : Cardinality(1..n) = n
      BY FS_Interval
    <3> QED
      BY <1>3, <3>1
  <2>3. f \in [1..Len(q) -> X] /\ \A j, l \in 1..Len(q) : f[j] = f[l] => j = l
    BY <1>4 DEF Names
  <2>4. f \in Injection(1..Len(q), X)
    BY <2>3 DEF Injection, IsInjective
  <2>5. Cardinality(1..Len(q)) <= Cardinality(X)
    BY <2>1, <2>4, FS_Injection
  <2> QED
    BY <2>1, <2>2, <2>5, <1>3
<1> QED
  BY <1>1, <1>3, <1>4, <1>5 DEF HasSlot, q

(* link(2) does not meet the limit: the name that has just been removed is not among those of  *)
(* the file, and all others are at most one less than the tree has.                              *)
LEMMA LinkFits ==
  ASSUME RunsInv, Roomy, NEW p \in Path, NEW i \in Inode, dir[p] # i
  PROVE  Cardinality(Names(i)) < MaxLinks
<1>1. IsFiniteSet(Path \ {p}) /\ Cardinality(Path \ {p}) = Cardinality(Path) - 1
  BY FS_RemoveElement
<1>2. Names(i) \subseteq Path \ {p}
  BY DEF Names
<1>3. Cardinality(Names(i)) <= Cardinality(Path \ {p})
  BY <1>1, <1>2, FS_Subset
<1>4. Cardinality(Path) \in Nat /\ Cardinality(Names(i)) \in Nat
  BY NamesFinite, FS_CardinalityType
<1> QED
  BY <1>1, <1>3, <1>4 DEF Roomy

LEMMA NoneFails ==
  ASSUME RunsInv, AloneInv, Roomy, NamesApart, NEW s \in Proc,
         Active(s) => ViewOK(s) /\ CacheOK(s) /\ OthersClosed(s)
  PROVE  ~ScanFails(s) /\ ~HashFails(s) /\ ~SwitchFails(s) /\ ~MergeFails(s)
<1>0. FileTypes /\ TableTypes /\ HashTypes /\ IdleOK(s) /\ LocalOK(s)
  BY DEF RunsInv, HashInv, AloneInv
<1>1. ASSUME ScanFails(s) PROVE FALSE
  <2>1. pc[s] = "scan" /\ Active(s)
    BY <1>1 DEF ScanFails, Active, Ended
  <2>2. PICK p \in todo[s] : Exists(p) /\ HasSlot(s, dir[p]) => Exists(p) /\ Validates(s, dir[p]) /\ ~CanValidate(s)
    BY <1>1 DEF ScanFails
  <2>3. ~CanValidate(s)
    BY <2>1, <2>2, SlotLeft DEF ViewOK
  <2>4. valName # NoFile /\ hval[s] = NoFile
    BY <2>3 DEF CanValidate, CanWrite
  <2>5. PICK r \in Proc : valName \in {hdbf[r], hval[r]}
    BY <2>3 DEF CanValidate, CanWrite, OpenBy
  <2>6. r = s /\ hdbf[s] = valName
    BY <2>1, <2>4, <2>5 DEF OthersClosed
  <2> QED
    BY <2>1, <2>4, <2>6 DEF CacheOK, NamesApart
<1>2. ASSUME HashFails(s) PROVE FALSE
  <2>1. pc[s] = "hash" /\ Active(s) /\ ~Exists(First(s, cur[s]))
    BY <1>2 DEF HashFails, Active, Ended
  <2>2. cur[s] \in Inode /\ cur[s] \in Undone(s) /\ cur[s] \in Noted(s)
    BY <1>0, <2>1 DEF IdleOK, Undone, LocalOK, PassOK, Noted
  <2>3. 1 \in 1..Len(paths[s][cur[s]])
    BY <1>0, <2>2 DEF Noted, TableTypes
  <2>4. dir[First(s, cur[s])] = cur[s]
    BY <2>1, <2>2, <2>3 DEF ViewOK, Leads, First
  <2> QED
    BY <2>1, <2>2, <2>4 DEF Exists
<1>3. ASSUME SwitchFails(s) PROVE FALSE
  BY <1>3 DEF SwitchFails, RenameFails, CacheOK, Active, Ended
<1>4. ASSUME MergeFails(s) PROVE FALSE
  <2> DEFINE p == Head(vics[s])
  <2>1. /\ pc[s] \in {"unlink", "link"} /\ vics[s] # << >> /\ Active(s)
        /\ pc[s] = "unlink" => ~CanUnlink(p)
        /\ pc[s] = "link" => ~CanLink(bpath[s], p)
    BY <1>0, <1>4 DEF MergeFails, LocalOK, MergeOK, Active, Ended
  <2>2. p \in Path /\ bpath[s] \in Path /\ Exists(bpath[s]) /\ (Exists(p) <=> pc[s] # "link")
    BY <2>1, HandView DEF VicOK, MergeView
  <2> HIDE DEF p
  <2>3. dir[bpath[s]] \in Inode /\ (pc[s] = "link" => dir[p] # dir[bpath[s]])
    BY <1>0, <2>2 DEF FileTypes, Exists
  <2>4. pc[s] = "link" => Cardinality(Names(dir[bpath[s]])) < MaxLinks
    BY <2>2, <2>3, LinkFits
  <2> QED
    BY <2>1, <2>2, <2>4 DEF CanUnlink, CanLink
<1> QED
  BY <1>1, <1>2, <1>3, <1>4

--------------------------------------------------------------------------------
(* The hashes under the lock: once it has switched the cache, a process has no hash in its     *)
(* tables that is not in .hcd, but for the one it is about to store.                            *)
HashesOK(s) ==
  /\ SwitchedOK(s) /\ (pc[s] = "scan" => hmode[s] = "r")
  /\ \A i \in Inode : got[s][i] # NoData /\ ~(pc[s] = "put" /\ i = cur[s]) =>
       hmode[s] = "rw" /\ db[hcdName][i] = got[s][i]

OwnCache(s) == CacheOK(s) /\ (Cached(s) => HashesOK(s))

LEMMA ScanCache ==
  ASSUME RunsInv, AloneInv, NEW s \in Proc, NamesApart, Active(s) => OwnCache(s),
         StartScan(s) \/ Scans(s)
  PROVE  NamesApart' /\ OwnCache(s)'
<1>0. TableTypes /\ HashTypes /\ HashStepTypes /\ IdleOK(s)
  BY DEF RunsInv, HashInv, AloneInv, RestTypes, HashStepTypes
<1>1. pc'[s] = "scan" /\ args' = args /\ \A i \in Inode : got'[s][i] = NoData
  <2>1. CASE StartScan(s)
    BY <1>0, <2>1 DEF StartScan, Goes, TableTypes, IdleOK, Active, passTab
  <2>2. CASE Scans(s)
    BY <1>0, <2>2 DEF Scans, ScanPath, PassOver, FlushesEarly, IdleOK, passTab
  <2> QED
    BY <2>1, <2>2
<1>2. Cached(s)' <=> Cached(s)
  BY <1>1 DEF Cached, Uses
<1>3. NamesApart' /\ CacheOK(s)' /\ (Cached(s) => SwitchedOK(s)' /\ hmode'[s] = "r")
  <2>1. CASE StartScan(s)
    <3>1. hdbf[s] = NoFile /\ hval[s] = NoFile /\ hstep[s] = "off"
      BY <1>0, <2>1 DEF StartScan, IdleOK, Active
    <3>2. CASE Cached(s)
      <4>1. HNew(s)
        BY <2>1, <3>2 DEF StartScan
      <4> QED
        BY <1>0, <3>1, <4>1, NewIsClosed
    <3>3. CASE ~Cached(s)
      BY <2>1, <3>1, <3>3 DEF StartScan, hashFileVars, NamesApart, CacheOK
    <3> QED
      BY <3>2, <3>3
  <2>2. CASE Scans(s)
    <3>1. pc[s] = "scan" /\ OwnCache(s) /\ hstep[s] = "off"
      BY <1>0, <2>2 DEF Scans, ScanPath, PassOver, FlushesEarly, Active, Ended, IdleOK
    <3>2. CASE UNCHANGED hashFileVars
      BY <3>1, <3>2 DEF OwnCache, HashesOK, hashFileVars, NamesApart, CacheOK, SwitchedOK
    <3>3. ASSUME NEW p \in Path, HValidate(s, dir[p])
          PROVE  NamesApart' /\ CacheOK(s)' /\ (Cached(s) => SwitchedOK(s)' /\ hmode'[s] = "r")
      <4>1. NamesApart' /\ CacheOK(s)' /\ (hmode[s] = "r" => SwitchedOK(s)')
        BY <1>0, <3>1, <3>3, ValidateKeeps DEF OwnCache
      <4>2. hmode' = hmode
        BY <3>3 DEF HValidate
      <4> QED
        BY <3>1, <4>1, <4>2 DEF OwnCache, HashesOK
    <3>4. UNCHANGED hashFileVars \/ \E p \in Path : HValidate(s, dir[p])
      BY <2>2 DEF Scans, ScanPath, PassOver, FlushesEarly
    <3> QED
      BY <3>2, <3>3, <3>4
  <2> QED
    BY <2>1, <2>2
<1> QED
  BY <1>1, <1>2, <1>3 DEF OwnCache, HashesOK

(* A step that leaves the cache alone, and puts no hash into the tables. *)
LEMMA QuietCache ==
  ASSUME NEW s \in Proc, NamesApart, OwnCache(s), UNCHANGED <<hashFileVars, args, got>>,
         pc[s] # "put", pc'[s] # "scan"
  PROVE  NamesApart' /\ OwnCache(s)'
<1>1. Cached(s)' <=> Cached(s)
  BY DEF Cached, Uses
<1>2. NamesApart' /\ CacheOK(s)' /\ (SwitchedOK(s) => SwitchedOK(s)')
  BY DEF OwnCache, NamesApart, CacheOK, SwitchedOK, hashFileVars
<1>3. HashesOK(s) => HashesOK(s)'
  BY <1>2 DEF HashesOK, hashFileVars
<1> QED
  BY <1>1, <1>2, <1>3 DEF OwnCache

LEMMA GetHashCache ==
  ASSUME RunsInv, AloneInv, NEW s \in Proc, NamesApart, OwnCache(s), GetHash(s)
  PROVE  NamesApart' /\ OwnCache(s)'
<1>0. TableTypes /\ HashTypes /\ HashStepTypes /\ IdleOK(s)
  BY DEF RunsInv, HashInv, AloneInv, RestTypes, HashStepTypes
<1>1. pc[s] = "get" /\ pc'[s] \in {"hash", "read"} /\ args' = args
  BY <1>0 DEF GetHash, Goes, TableTypes
<1>2. CASE UNCHANGED <<hashFileVars, passTab>>
  BY <1>1, <1>2, QuietCache DEF passTab
<1>3. CASE HGet(s) /\ Gets(s, Found(s, cur[s]))
  <2>1. NamesApart' /\ CacheOK(s)' /\ hdbf[s] = hcdName /\ UNCHANGED <<hcdName, hmode, db>>
    BY <1>0, <1>3, UseKeeps DEF OwnCache, HGet
  <2>2. ASSUME Cached(s) PROVE HashesOK(s)'
    <3>1. HashesOK(s)
      BY <2>2 DEF OwnCache
    <3>2. SwitchedOK(s)' /\ hmode[s] = "rw"
      BY <1>0, <1>3, <3>1, UseKeeps DEF OwnCache, HashesOK, HGet, Prepared, AtOnce, SwitchedOK
    <3>3. cur[s] \in Inode
      BY <1>0, <1>1 DEF IdleOK, TableTypes
    <3>4. /\ got'[s][cur[s]] = db[hcdName][cur[s]]
          /\ \A i \in Inode : i # cur[s] => got'[s][i] = got[s][i]
      BY <1>0, <1>3, <2>1, <3>3 DEF Gets, Found, TableTypes
    <3>5. \A i \in Inode : got'[s][i] # NoData => db'[hcdName'][i] = got'[s][i]
      BY <1>1, <2>1, <3>1, <3>4 DEF HashesOK
    <3> QED
      BY <1>1, <2>1, <3>2, <3>5 DEF HashesOK
  <2> QED
    BY <1>1, <2>1, <2>2 DEF OwnCache, Cached, Uses
<1> QED
  BY <1>2, <1>3 DEF GetHash

LEMMA HashPutCache ==
  ASSUME RunsInv, AloneInv, NEW s \in Proc, NamesApart, OwnCache(s), HashFile(s) \/ PutHash(s)
  PROVE  NamesApart' /\ OwnCache(s)'
<1>0. TableTypes /\ HashTypes /\ HashStepTypes /\ IdleOK(s) /\ args' = args
  BY DEF RunsInv, HashInv, AloneInv, RestTypes, HashStepTypes, HashFile, PutHash
<1>1. Cached(s)' <=> Cached(s)
  BY <1>0 DEF Cached, Uses
<1>2. CASE HashFile(s)
  <2>1. /\ pc[s] = "hash" /\ pc'[s] = (IF Cached(s) THEN "put" ELSE "read")
        /\ UNCHANGED <<hashFileVars, cur>>
        /\ \A i \in Inode : i # cur[s] => got'[s][i] = got[s][i]
    BY <1>0, <1>2 DEF HashFile, Gets, Goes, TableTypes
  <2>2. NamesApart' /\ CacheOK(s)' /\ (SwitchedOK(s) => SwitchedOK(s)')
    BY <2>1 DEF OwnCache, NamesApart, CacheOK, SwitchedOK, hashFileVars
  <2>3. Cached(s) => HashesOK(s)'
    BY <2>1, <2>2 DEF OwnCache, HashesOK, hashFileVars
  <2> QED
    BY <1>1, <2>2, <2>3 DEF OwnCache
<1>3. CASE PutHash(s)
  <2>1. /\ pc[s] = "put" /\ pc'[s] = "read" /\ HPut(s, cur[s], got[s][cur[s]])
        /\ UNCHANGED passTab
    BY <1>0, <1>3 DEF PutHash, Goes, TableTypes
  <2>2. /\ NamesApart' /\ CacheOK(s)' /\ hdbf[s] = hcdName /\ UNCHANGED <<hcdName, hmode>>
        /\ SwitchedOK(s) => SwitchedOK(s)'
    BY <1>0, <2>1, UseKeeps DEF OwnCache
  <2>3. ASSUME Cached(s) PROVE HashesOK(s)'
    <3>1. HashesOK(s)
      BY <2>3 DEF OwnCache
    <3>2. hmode[s] = "rw"
      BY <2>1, <3>1 DEF HPut, Prepared, AtOnce, HashesOK, SwitchedOK
    <3>3. cur[s] \in Inode /\ hcdName \in DBFile
      BY <1>0, <2>1, <2>2 DEF IdleOK, TableTypes, HPut, HashTypes, MaybeFile
    <3>4. /\ db'[hcdName][cur[s]] = got[s][cur[s]]
          /\ \A i \in Inode : i # cur[s] => db'[hcdName][i] = db[hcdName][i]
      BY <1>0, <2>1, <2>2, <3>3 DEF HPut, HashTypes
    <3> QED
      BY <2>1, <2>2, <3>1, <3>2, <3>4 DEF HashesOK, passTab
  <2> QED
    BY <1>1, <2>2, <2>3 DEF OwnCache
<1> QED
  BY <1>2, <1>3

LEMMA SwitchCache ==
  ASSUME RunsInv, AloneInv, NEW s \in Proc, NamesApart, OwnCache(s), OthersClosed(s), Switch(s)
  PROVE  NamesApart' /\ OwnCache(s)'
<1>0. HashTypes /\ HashStepTypes
  BY DEF RunsInv, HashInv, AloneInv, RestTypes, HashStepTypes
<1>1. UNCHANGED <<pc, args, got, cur>> /\ pc[s] # "scan"
  BY DEF Switch, passTab
<1>2. \E iswr \in BOOLEAN : DoneClose(s, iswr) \/ DoneStep(s)
  BY DEF Switch
<1>3. /\ NamesApart' /\ CacheOK(s)'
      /\ SwitchedOK(s) => /\ SwitchedOK(s)'
                          /\ hmode[s] = "rw" => hmode'[s] = "rw" /\ db' = db /\ hcdName' = hcdName
  BY <1>0, <1>2, SwitchKeeps DEF OwnCache
<1>4. HashesOK(s) => HashesOK(s)'
  BY <1>1, <1>3 DEF HashesOK
<1> QED
  BY <1>1, <1>3, <1>4 DEF OwnCache, Cached, Uses

LEMMA WorksCache ==
  ASSUME RunsInv, AloneInv, NEW s \in Proc, NamesApart, OwnCache(s), OthersClosed(s), Works(s)
  PROVE  NamesApart' /\ OwnCache(s)'
<1>0. pc'[s] # "scan"
  BY WorksOn
<1>1. CASE ScanDone(s) \/ Pick(s) \/ PassesDone(s) \/ (\E i \in Inode : Turn(s, i)) \/ ReadDone(s)
  BY <1>0, <1>1, QuietCache DEF ScanDone, Pick, PassesDone, Turn, ReadDone, passTab
<1>2. CASE CallDoDedup(s) \/ NextCluster(s) \/ NextVictim(s) \/ Unlink(s) \/ Link(s)
  BY <1>0, <1>2, QuietCache DEF CallDoDedup, NextCluster, NextVictim, Unlink, Link, passTab
<1>3. CASE GetHash(s)
  BY <1>3, GetHashCache
<1>4. CASE HashFile(s) \/ PutHash(s)
  BY <1>4, HashPutCache
<1>5. CASE Switch(s)
  BY <1>5, SwitchCache
<1> QED
  BY <1>1, <1>2, <1>3, <1>4, <1>5 DEF Works

--------------------------------------------------------------------------------
(* The names under the lock.  Those that are gone are each in the hands of a process that is    *)
(* about to link it, or was killed there.                                                        *)
Gone == {p \in Path : dir0[p] # NoInode /\ ~Exists(p)}
Holders == {s \in Proc : pc[s] = "link" \/ (pc[s] = "killed" /\ vics[s] # << >>)}
GoneOK == \A p \in Gone : \E s \in Holders : Head(vics[s]) = p

WithinReach ==
  \A p \in Path : dir0[p] # NoInode =>
    \E q \in Path : Exists(q) /\ SameFile(node0[dir0[p]], node[dir[q]])

(* The steps that change no name. *)
LEMMA NamesStay ==
  ASSUME RunsInv, RestTypes, NEW s \in Proc, Acts(s), ~Unlink(s), ~Link(s)
  PROVE  dir' = dir
<1>1. CASE GetOption(s) \/ StartScan(s) \/ Scans(s)
  BY <1>1 DEF GetOption, StartScan, Scans, ScanPath, PassOver, FlushesEarly, fsVars
<1>2. CASE ScanDone(s) \/ Pick(s) \/ PassesDone(s) \/ (\E i \in Inode : Turn(s, i)) \/ GetHash(s)
           \/ HashFile(s) \/ PutHash(s)
  BY <1>2 DEF ScanDone, Pick, PassesDone, Turn, GetHash, HashFile, PutHash, fsVars
<1>3. CASE Switch(s) \/ ReadDone(s) \/ CallDoDedup(s) \/ NextCluster(s) \/ NextVictim(s)
  BY <1>3 DEF Switch, ReadDone, CallDoDedup, NextCluster, NextVictim, fsVars
<1>4. CASE Ends(s)
  BY <1>4, EndsExits DEF Exits, fsVars
<1> QED
  BY <1>1, <1>2, <1>3, <1>4 DEF Acts, Works

(* A process that has a name in hand keeps it, unless it links it. *)
LEMMA HolderStays ==
  ASSUME RunsInv, RestTypes, NEW s \in Proc, Acts(s), ~Link(s),
         ~ScanFails(s) /\ ~HashFails(s) /\ ~SwitchFails(s) /\ ~MergeFails(s),
         NEW r \in Holders
  PROVE  r \in Holders' /\ vics'[r] = vics[r]
<1>0. TableTypes /\ Apart(s) /\ LocalOK(r) /\ r \in Proc
  BY StepApart DEF RunsInv, Holders
<1>1. CASE r # s
  BY <1>0, <1>1 DEF Apart, Holders
<1>2. CASE r = s
  <2>1. pc[s] \in {"link", "killed"}
    BY <1>2 DEF Holders
  <2>2. Kill(s) /\ pc[s] # "killed"
    <3>1. ~GetOption(s) /\ ~StartScan(s) /\ ~Scans(s)
      BY <2>1 DEF GetOption, StartScan, Scans, ScanPath, PassOver, FlushesEarly
    <3>2. ~ScanDone(s) /\ ~Pick(s) /\ ~PassesDone(s) /\ (~\E i \in Inode : Turn(s, i)) /\ ~GetHash(s)
      BY <2>1 DEF ScanDone, Pick, PassesDone, Turn, GetHash
    <3>3. ~HashFile(s) /\ ~PutHash(s) /\ ~Switch(s) /\ ~ReadDone(s) /\ ~CallDoDedup(s)
      BY <2>1 DEF HashFile, PutHash, Switch, ReadDone, CallDoDedup
    <3>4. ~NextCluster(s) /\ ~NextVictim(s) /\ ~Unlink(s) /\ ~Faults(s) /\ ~Close(s)
      BY <2>1 DEF NextCluster, NextVictim, Unlink, Faults, Close
    <3> QED
      BY <3>1, <3>2, <3>3, <3>4 DEF Acts, Works, Ends, Kill, Ended
  <2>3. pc'[s] = "killed" /\ vics' = vics
    BY <1>0, <2>2 DEF Kill, Dies, Exits, Goes, TableTypes
  <2>4. pc[s] = "link" /\ vics[s] # << >>
    BY <1>0, <1>2, <2>1, <2>2 DEF LocalOK, MergeOK
  <2> QED
    BY <1>0, <1>2, <2>3, <2>4 DEF Holders
<1> QED
  BY <1>1, <1>2

LEMMA GoneStep ==
  ASSUME RunsInv, AloneInv, NEW s \in Proc, Acts(s), GoneOK, Active(s) => ViewOK(s),
         ~ScanFails(s) /\ ~HashFails(s) /\ ~SwitchFails(s) /\ ~MergeFails(s)
  PROVE  GoneOK'
<1> DEFINE p == Head(vics[s])
<1>0. FileTypes /\ TableTypes /\ RestTypes /\ Apart(s)
  BY StepApart DEF RunsInv, AloneInv
<1>1. dir0' = dir0
  BY <1>0 DEF Apart
<1>2. CASE ~Unlink(s) /\ ~Link(s)
  <2>1. Gone' = Gone
    BY <1>0, <1>1, <1>2, NamesStay DEF Gone, Exists
  <2> QED
    BY <1>0, <1>2, <2>1, HolderStays DEF GoneOK
<1>3. CASE Unlink(s)
  <2>1. /\ dir' = [dir EXCEPT ![p] = NoInode] /\ pc'[s] = "link" /\ vics'[s] = vics[s]
        /\ pc[s] = "unlink" /\ vics[s] # << >>
    BY <1>0, <1>3 DEF Unlink, UnlinkPath, Goes, TableTypes, mergeTab
  <2>2. ~Link(s)
    BY <2>1 DEF Link
  <2>3. p \in Path
    BY <2>1, InHand
  <2>4. s \in Holders' /\ Head(vics'[s]) = p
    BY <2>1 DEF Holders
  <2> HIDE DEF p
  <2>5. \A q \in Gone' : q = p \/ q \in Gone
    BY <1>0, <1>1, <2>1, <2>3 DEF Gone, Exists, FileTypes
  <2>6. \A q \in Gone : \E r \in Holders' : Head(vics'[r]) = q
    BY <1>0, <2>2, HolderStays DEF GoneOK
  <2> QED
    BY <2>4, <2>5, <2>6 DEF GoneOK
<1>4. CASE Link(s)
  <2>1. dir' = [dir EXCEPT ![p] = dir[bpath[s]]] /\ pc[s] = "link" /\ Exists(bpath[s]) /\ vics[s] # << >>
    BY <1>4 DEF Link, LinkPath, CanLink, RunsInv, LocalOK, MergeOK
  <2>2. p \in Path
    BY <2>1, InHand
  <2>3. ASSUME NEW q \in Gone' PROVE \E r \in Holders' : Head(vics'[r]) = q
    <3>1. q \in Gone /\ q # p
      <4> HIDE DEF p
      <4> QED
        BY <1>0, <1>1, <2>1, <2>2 DEF Gone, Exists, FileTypes
    <3>2. PICK r \in Holders : Head(vics[r]) = q
      BY <3>1 DEF GoneOK
    <3>3. r # s /\ r \in Proc
      BY <3>1, <3>2 DEF Holders
    <3>4. pc'[r] = pc[r] /\ vics'[r] = vics[r]
      BY <1>0, <3>3 DEF Apart
    <3> QED
      BY <3>2, <3>3, <3>4 DEF Holders
  <2> QED
    BY <2>3 DEF GoneOK
<1> QED
  BY <1>2, <1>3, <1>4

(* do_dedup removes no name while the one it will link it to is not there with the same          *)
(* contents.                                                                                       *)
LEMMA ReachStep ==
  ASSUME RunsInv, AloneInv, NEW s \in Proc, Acts(s), WithinReach, Active(s) => ViewOK(s)
  PROVE  WithinReach'
<1> DEFINE p == Head(vics[s])
           b == bpath[s]
<1>0. FileTypes /\ TableTypes /\ RestTypes /\ NeverAnotherFile /\ UNCHANGED <<node, dir0, node0>>
  BY StepApart DEF RunsInv, AloneInv, Apart
<1>1. CASE ~Unlink(s) /\ ~Link(s)
  <2>1. dir' = dir
    BY <1>0, <1>1, NamesStay
  <2> QED
    BY <1>0, <2>1 DEF WithinReach, Exists, SameFile
<1>2. CASE Unlink(s)
  <2>1. /\ dir' = [dir EXCEPT ![p] = NoInode] /\ pc[s] = "unlink" /\ vics[s] # << >> /\ Exists(p)
        /\ Active(s)
    BY <1>2 DEF Unlink, UnlinkPath, CanUnlink, Active, Ended
  <2>2. /\ p \in Path /\ b \in Path /\ dir0[p] # NoInode /\ p # b /\ Exists(b)
        /\ SameFile(node0[dir0[p]], node0[dir0[b]])
    BY <2>1, InHand, HandView DEF VicOK, MergeView
  <2> HIDE DEF p, b
  <2>3. SameFile(node0[dir0[p]], node[dir[p]]) /\ SameFile(node0[dir0[b]], node[dir[b]])
    BY <1>0, <2>1, <2>2 DEF NeverAnotherFile
  <2>4. \A q \in Path : q # p => dir'[q] = dir[q]
    BY <1>0, <2>1, <2>2 DEF FileTypes
  <2>5. ASSUME NEW o \in Path, dir0[o] # NoInode
        PROVE  \E q \in Path : dir'[q] # NoInode /\ SameFile(node0[dir0[o]], node[dir'[q]])
    <3>1. PICK q \in Path : Exists(q) /\ SameFile(node0[dir0[o]], node[dir[q]])
      BY <2>5 DEF WithinReach
    <3>2. CASE q = p
      <4>1. SameFile(node0[dir0[o]], node[dir[b]])
        BY <2>2, <2>3, <3>1, <3>2 DEF SameFile
      <4> QED
        BY <2>2, <2>4, <4>1 DEF Exists
    <3>3. CASE q # p
      BY <2>4, <3>1, <3>3 DEF Exists
    <3> QED
      BY <3>2, <3>3
  <2> QED
    BY <1>0, <2>5 DEF WithinReach, Exists, SameFile
<1>3. CASE Link(s)
  <2>1. /\ dir' = [dir EXCEPT ![p] = dir[b]] /\ pc[s] = "link" /\ ~Exists(p) /\ vics[s] # << >>
    BY <1>3 DEF Link, LinkPath, CanLink, RunsInv, LocalOK, MergeOK
  <2>2. p \in Path
    BY <2>1, InHand
  <2> HIDE DEF p, b
  <2>3. \A q \in Path : Exists(q) => dir'[q] = dir[q]
    BY <1>0, <2>1, <2>2 DEF FileTypes, Exists
  <2> QED
    BY <1>0, <2>3 DEF WithinReach, Exists, SameFile
<1> QED
  BY <1>1, <1>2, <1>3

--------------------------------------------------------------------------------
(* What holds of runs that are all given -l: for the cache, and for the names.                   *)
CachesInv == NamesApart /\ \A s \in Proc : Active(s) => OwnCache(s)

TreeInv ==
  /\ GoneOK /\ WithinReach
  /\ \A s \in Proc : pc[s] # "failed" /\ (Active(s) => ViewOK(s))

LEMMA Closed ==
  ASSUME AloneInv, AllLock, NEW s \in Proc, Active(s)
  PROVE  OthersClosed(s)
BY Alone DEF AloneInv, IdleOK, OthersClosed

(* While another is active, a process can read its options and end. *)
LEMMA OthersIdle ==
  ASSUME RunsInv, AloneInv, AllLock, NEW s \in Proc, Acts(s), NEW r \in Proc \ {s}, Active(r)'
  PROVE  /\ Active(r) /\ Apart(s) /\ ApartToo(s)
         /\ UNCHANGED <<dir, hcdName, valName, db, args>>
<1>1. Apart(s) /\ ApartToo(s) /\ AloneInv' /\ AllLock'
  BY StepApart, AloneNext DEF AloneInv, ApartToo, AllLock, Uses
<1>2. Active(r)
  BY <1>1 DEF Apart, Active
<1>3. ~Active(s) /\ ~Active(s)'
  <2>1. ~Active(s)
    BY <1>2, Alone
  <2>2. holder = r
    BY <1>2, Alone
  <2>3. ASSUME Active(s)' PROVE FALSE
    <3>1. opts'[s] = << >> /\ Uses(s, "l")' /\ pc'[s] \notin Ended /\ opts'[r] = << >>
          /\ Uses(r, "l")' /\ pc'[r] \notin Ended
      BY <1>1, <2>3 DEF AloneInv, IdleOK, Active, AllLock
    <3>2. ~Waits(s, "l")' /\ ~Waits(r, "l")'
      BY <3>1 DEF Waits
    <3>3. holder' = s /\ holder' = r
      BY <1>1, <3>1, <3>2 DEF AloneInv, LockOK
    <3> QED
      BY <3>3
  <2> QED
    BY <2>1, <2>3
<1>4. GetOption(s) \/ Ends(s)
  <2>1. ~Works(s)
    BY <1>3, WorksOn
  <2>2. ~StartScan(s)
    BY <1>3 DEF StartScan, Goes, Active, Ended, RunsInv, TableTypes
  <2>3. ~Scans(s)
    BY <1>3 DEF Scans, ScanPath, PassOver, FlushesEarly, Active, Ended
  <2> QED
    BY <2>1, <2>2, <2>3 DEF Acts
<1>5. UNCHANGED <<dir, hcdName, valName, db, args>>
  <2>1. CASE GetOption(s)
    BY <2>1 DEF GetOption, fsVars, hashFileVars
  <2>2. CASE Ends(s)
    BY <2>2, EndsExits DEF Exits, HClosed, fsVars
  <2> QED
    BY <1>4, <2>1, <2>2
<1> QED
  BY <1>1, <1>2, <1>5

LEMMA CachesStep ==
  ASSUME RunsInv, AloneInv, AllLock, CachesInv, NEW s \in Proc, Acts(s)
  PROVE  CachesInv'
<1>0. pc \in [Proc -> Stages] /\ NamesApart
  BY DEF RunsInv, TableTypes, CachesInv
<1>1. NamesApart' /\ (Active(s)' => OwnCache(s)')
  <2>1. CASE GetOption(s)
    <3>1. ~Active(s)' /\ UNCHANGED <<hcdName, valName>>
      BY <2>1 DEF GetOption, Active, hashFileVars
    <3> QED
      BY <1>0, <3>1 DEF NamesApart
  <2>2. CASE StartScan(s) \/ Scans(s)
    BY <2>2, ScanCache DEF CachesInv
  <2>3. CASE Works(s)
    <3>1. Active(s)
      BY <2>3, WorksOn
    <3> QED
      BY <2>3, <3>1, Closed, WorksCache DEF CachesInv
  <2>4. CASE Ends(s)
    <3>1. ~Active(s)' /\ UNCHANGED <<hcdName, valName>>
      BY <1>0, <2>4, EndsExits DEF Exits, HClosed, Goes, Active
    <3> QED
      BY <1>0, <3>1 DEF NamesApart
  <2> QED
    BY <2>1, <2>2, <2>3, <2>4 DEF Acts
<1>2. ASSUME NEW r \in Proc \ {s}, Active(r)' PROVE OwnCache(r)'
  <2>1. /\ OwnCache(r) /\ Apart(s) /\ ApartToo(s)
        /\ UNCHANGED <<hcdName, valName, db, args>>
    BY <1>2, OthersIdle DEF CachesInv
  <2>2. /\ pc'[r] = pc[r] /\ got'[r] = got[r] /\ cur'[r] = cur[r]
        /\ hdbf'[r] = hdbf[r] /\ hval'[r] = hval[r] /\ hmode'[r] = hmode[r] /\ hstep'[r] = hstep[r]
    BY <2>1 DEF Apart, ApartToo
  <2>3. CacheOK(r)' /\ (SwitchedOK(r) => SwitchedOK(r)')
    BY <2>1, <2>2 DEF OwnCache, CacheOK, SwitchedOK
  <2>4. HashesOK(r) => HashesOK(r)'
    BY <2>1, <2>2, <2>3 DEF HashesOK
  <2> QED
    BY <2>1, <2>3, <2>4 DEF OwnCache, Cached, Uses
<1> QED
  BY <1>1, <1>2 DEF CachesInv

LEMMA TreeStep ==
  ASSUME RunsInv, AloneInv, Roomy, AllLock, CachesInv, TreeInv, NEW s \in Proc, Acts(s)
  PROVE  TreeInv'
<1>0. pc \in [Proc -> Stages] /\ Apart(s) /\ (Active(s) => ViewOK(s) /\ CacheOK(s) /\ OthersClosed(s))
  BY StepApart, Closed DEF RunsInv, TableTypes, AloneInv, TreeInv, CachesInv, OwnCache
<1>1. ~ScanFails(s) /\ ~HashFails(s) /\ ~SwitchFails(s) /\ ~MergeFails(s)
  BY <1>0, NoneFails DEF CachesInv
<1>2. GoneOK' /\ WithinReach'
  BY <1>0, <1>1, GoneStep, ReachStep DEF TreeInv
<1>3. pc'[s] # "failed" /\ (Active(s)' => ViewOK(s)')
  <2>1. CASE GetOption(s)
    BY <2>1 DEF GetOption, Active, TreeInv
  <2>2. CASE StartScan(s) \/ Scans(s)
    <3>1. pc'[s] = "scan"
      BY <1>0, <2>2 DEF StartScan, Scans, ScanPath, PassOver, FlushesEarly, Goes
    <3> QED
      BY <1>0, <2>2, <3>1, ScanViews
  <2>3. CASE Works(s)
    BY <1>0, <2>3, WorksOn, WorksViews DEF Active, Ended
  <2>4. CASE Ends(s)
    BY <1>0, <1>1, <2>4, EndsExits DEF Exits, Goes, Active
  <2> QED
    BY <2>1, <2>2, <2>3, <2>4 DEF Acts
<1>4. ASSUME NEW r \in Proc \ {s} PROVE pc'[r] # "failed" /\ (Active(r)' => ViewOK(r)')
  <2>1. pc'[r] # "failed"
    BY <1>0 DEF Apart, TreeInv
  <2>2. ASSUME Active(r)' PROVE ViewOK(r)'
    <3>1. ViewOK(r) /\ Apart(s) /\ ApartToo(s) /\ dir' = dir
      BY <2>2, OthersIdle DEF TreeInv
    <3>2. /\ pc'[r] = pc[r] /\ paths'[r] = paths[r] /\ slots'[r] = slots[r] /\ todo'[r] = todo[r]
          /\ left'[r] = left[r] /\ part'[r] = part[r] /\ bpath'[r] = bpath[r] /\ rest'[r] = rest[r]
          /\ vics'[r] = vics[r]
      BY <3>1 DEF Apart, ApartToo
    <3>3. /\ Undone(r)' = Undone(r) /\ \A i : Leads(r, i)' <=> Leads(r, i)
          /\ \A p : Free(r, p)' <=> Free(r, p)
      BY <3>1, <3>2 DEF Undone, Leads, Free
    <3>4. ScanView(r) => ScanView(r)'
      BY <3>1, <3>2, <3>3 DEF ScanView, Exists, Met, Names
    <3>5. MergeView(r) => MergeView(r)'
      BY <3>1, <3>2, <3>3 DEF MergeView, VicOK, Exists, Free, Undone
    <3> QED
      BY <3>1, <3>2, <3>3, <3>4, <3>5 DEF ViewOK
  <2> QED
    BY <2>1, <2>2
<1> QED
  BY <1>2, <1>3, <1>4 DEF TreeInv

LEMMA LockedInit == Init /\ AllLock => CachesInv /\ TreeInv
<1> SUFFICES ASSUME Init PROVE CachesInv /\ TreeInv
  OBVIOUS
<1>1. /\ valName = NoFile /\ dir0 = dir /\ node0 = node /\ dir \in [Path -> Inode \cup {NoInode}]
      /\ \A s \in Proc : pc[s] = "opts"
  BY DEF Init, FileSystemInit, HashFilesInit, ForAll
<1>2. \A s \in Proc : pc[s] # "failed" /\ ~Active(s)
  BY <1>1 DEF Active
<1>3. NamesApart /\ GoneOK /\ WithinReach
  BY <1>1 DEF NamesApart, GoneOK, Gone, Exists, WithinReach, SameFile
<1> QED
  BY <1>2, <1>3 DEF CachesInv, TreeInv

LEMMA LockedStays ==
  ASSUME UNCHANGED runsVars
  PROVE  (AllLock' => AllLock) /\ (CachesInv => CachesInv') /\ (TreeInv => TreeInv')
<1>1. /\ UNCHANGED <<dir, node, dir0, node0, hcdName, valName, db, hdbf, hval, hmode, hstep, pc, args>>
      /\ UNCHANGED <<todo, paths, slots, left, part, got, cur, bpath, rest, vics>>
  BY DEF runsVars, fsVars, hashFileVars, scanTab, passTab, mergeTab
<1>2. AllLock' => AllLock
  BY <1>1 DEF AllLock, Uses
<1>3. CachesInv => CachesInv'
  BY <1>1 DEF CachesInv, NamesApart, OwnCache, CacheOK, HashesOK, SwitchedOK, Cached, Uses, Active
<1>4. GoneOK /\ WithinReach => GoneOK' /\ WithinReach'
  BY <1>1 DEF GoneOK, Gone, Holders, WithinReach, Exists, SameFile
<1>5. ASSUME NEW s \in Proc, ViewOK(s) PROVE ViewOK(s)'
  <2>1. /\ Undone(s)' = Undone(s) /\ \A i : Leads(s, i)' <=> Leads(s, i)
        /\ \A p : Free(s, p)' <=> Free(s, p)
    BY <1>1 DEF Undone, Leads, Free
  <2>2. ScanView(s) => ScanView(s)'
    BY <1>1, <2>1 DEF ScanView, Exists, Met, Names
  <2>3. MergeView(s) => MergeView(s)'
    BY <1>1, <2>1 DEF MergeView, VicOK, Exists, Free, Undone
  <2> QED
    BY <1>1, <1>5, <2>1, <2>2, <2>3 DEF ViewOK
<1>6. TreeInv => TreeInv'
  BY <1>1, <1>4, <1>5 DEF TreeInv, Active
<1> QED
  BY <1>2, <1>3, <1>6

LEMMA LockedCachesNext ==
  ASSUME RunsInv, AloneInv, AllLock => CachesInv, [Next]_runsVars
  PROVE  AllLock' => AllLock /\ CachesInv'
<1>1. ASSUME NEW s \in Proc, Acts(s), AllLock' PROVE AllLock /\ CachesInv'
  <2>1. AllLock
    BY <1>1, StepApart DEF AloneInv, ApartToo, AllLock, Uses
  <2> QED
    BY <1>1, <2>1, CachesStep
<1> QED
  BY <1>1, NextActs, LockedStays

LEMMA LockedNext ==
  ASSUME RunsInv, AloneInv, Roomy, AllLock => CachesInv /\ TreeInv, [Next]_runsVars
  PROVE  AllLock' => CachesInv' /\ TreeInv'
<1>1. AllLock' => AllLock /\ CachesInv'
  BY LockedCachesNext
<1>2. ASSUME NEW s \in Proc, Acts(s), AllLock' PROVE TreeInv'
  BY <1>1, <1>2, TreeStep
<1> QED
  BY <1>1, <1>2, NextActs, LockedStays

(* Of processes that all take the lock, each finds in .hcd, when it has done with the cache,     *)
(* every hash that it has computed or found there, whichever of them were killed before           *)
(* (hcache.c:119-186).                                                                              *)
THEOREM HashesAreKept == Spec => []LockedRunsKeepHashes
<1> DEFINE Inv == RunsInv /\ AloneInv /\ (AllLock => CachesInv)
<1>1. Init => Inv
  BY InitInv, AloneInit, LockedInit
<1>2. Inv /\ [Next]_runsVars => Inv'
  BY NextInv, AloneStep, LockedCachesNext
<1>3. Inv => LockedRunsKeepHashes
  <2> SUFFICES ASSUME Inv, AllLock, NEW s \in Proc, pc[s] = "free", Cached(s),
                      NEW i \in Inode, got[s][i] # NoData
               PROVE  hcdName # NoFile /\ db[hcdName][i] = got[s][i]
    BY DEF LockedRunsKeepHashes
  <2>1. HashesOK(s)
    BY DEF CachesInv, OwnCache, Active, Ended
  <2> QED
    BY <2>1 DEF HashesOK, SwitchedOK
<1> HIDE DEF Inv
<1> QED
  BY <1>1, <1>2, <1>3, PTL DEF Spec

(* No process that takes the lock fails where all others do: neither at a name or a file that     *)
(* is gone, a full entry of inodetab, a cache in use, nor, as long as the tree has no more names    *)
(* than one file can have, at the limit of link(2) (fscanner.c:76, inodetab.c:71-75, hcache.c:134,    *)
(* 147-148, undup.c:127, 132-133).                                                                   *)
THEOREM NoLockedRunFails ==
  ASSUME Roomy
  PROVE  Spec => []LockedRunsSucceed
<1> DEFINE Inv == RunsInv /\ AloneInv /\ (AllLock => CachesInv /\ TreeInv)
<1>1. Init => Inv
  BY InitInv, AloneInit, LockedInit
<1>2. Inv /\ [Next]_runsVars => Inv'
  BY NextInv, AloneStep, LockedNext
<1>3. Inv => LockedRunsSucceed
  BY DEF LockedRunsSucceed, TreeInv
<1> HIDE DEF Inv
<1> QED
  BY <1>1, <1>2, <1>3, PTL DEF Spec

(* Each name that is gone is in hand of a process of its own. *)
LEMMA GoneAreFew ==
  ASSUME GoneOK
  PROVE  Cardinality(Gone) <= Cardinality(Holders)
<1> DEFINE f == [p \in Gone |-> CHOOSE s \in Holders : Head(vics[s]) = p]
<1>1. IsFiniteSet(Holders)
  BY FS_Subset DEF Holders
<1>2. \A p \in Gone : f[p] \in Holders /\ Head(vics[f[p]]) = p
  BY DEF GoneOK
<1>3. f \in [Gone -> Holders]
  BY <1>2
<1> HIDE DEF f
<1>4. f \in Injection(Gone, Holders)
  BY <1>2, <1>3 DEF Injection, IsInjective
<1> QED
  BY <1>1, <1>4, FS_Injection

(* Nor do such processes lose a name: at most one for each that is about to link it or was       *)
(* killed there, and there is always a name that leads to the contents it had (undup.c:297).        *)
THEOREM LockedRunsLoseNoName ==
  ASSUME Roomy
  PROVE  Spec => []LockedRunsKeepNames
<1> DEFINE Inv == RunsInv /\ AloneInv /\ (AllLock => CachesInv /\ TreeInv)
<1>1. Init => Inv
  BY InitInv, AloneInit, LockedInit
<1>2. Inv /\ [Next]_runsVars => Inv'
  BY NextInv, AloneStep, LockedNext
<1>3. Inv => LockedRunsKeepNames
  <2> SUFFICES ASSUME Inv, AllLock
               PROVE  Cardinality(Gone) <= Cardinality(Holders) /\ WithinReach
    BY DEF LockedRunsKeepNames, Gone, Holders, WithinReach
  <2> QED
    BY GoneAreFew DEF TreeInv
<1> HIDE DEF Inv
<1> QED
  BY <1>1, <1>2, <1>3, PTL DEF Spec

--------------------------------------------------------------------------------
(* The catalogue.  A process that has opened it with the lock has written all there is, at the   *)
(* end of what it wrote before.                                                                    *)
LockFirst == \A s \in Proc : Uses(s, "l") /\ Before(s, "l", "c")
Listed(s) == UNION {Range(paths[s][i]) : i \in Inode}

LinesAll(s) ==
  /\ \A j \in DOMAIN cat : cat[j] = s
  /\ line[s] = Len(cat) /\ Len(cat) + buf[s] = Cardinality(Listed(s))

LinesOK(s) ==
  /\ buf[s] # 0 => pc[s] = "scan" /\ Uses(s, "c")
  /\ \A j, k \in DOMAIN opts[s] : opts[s][j] = "l" /\ opts[s][k] = "c" => j < k
  /\ Waits(s, "l") /\ Uses(s, "c") => Waits(s, "c")
  /\ holder = s /\ Uses(s, "c") /\ ~Waits(s, "c") => LinesAll(s)

LinesInv == \A s \in Proc : LinesOK(s)

LEMMA LockedByL == LockFirst => AllLock
BY DEF LockFirst, AllLock

(* The lines in the buffer go to the end. *)
LEMMA FlushLines ==
  ASSUME CatTypes, NEW s \in Proc, Flush(s), LinesAll(s), UNCHANGED paths
  PROVE  LinesAll(s)' /\ buf'[s] = 0
<1> USE DEF CatTypes
<1>1. /\ line' = [line EXCEPT ![s] = line[s] + buf[s]] /\ buf' = [buf EXCEPT ![s] = 0]
      /\ cat' = IF buf[s] = 0 THEN cat ELSE Flushed(s)
  BY DEF Flush
<1>2. /\ line'[s] = Len(cat) + buf[s] /\ buf'[s] = 0 /\ Len(cat) \in Nat /\ buf[s] \in Nat
      /\ \A j \in 1..Len(cat) : cat[j] = s
      /\ Listed(s)' = Listed(s) /\ Len(cat) + buf[s] = Cardinality(Listed(s))
  <2>1. line'[s] = line[s] + buf[s] /\ buf'[s] = 0 /\ buf[s] \in Nat
    BY <1>1
  <2>2. Len(cat) \in Nat /\ DOMAIN cat = 1..Len(cat)
    OBVIOUS
  <2>3. /\ line[s] = Len(cat) /\ Len(cat) + buf[s] = Cardinality(Listed(s))
        /\ \A j \in 1..Len(cat) : cat[j] = s
    BY <2>2 DEF LinesAll
  <2>4. Listed(s)' = Listed(s)
    BY DEF Listed
  <2> QED
    BY <2>1, <2>2, <2>3, <2>4
<1>3. CASE buf[s] = 0
  BY <1>1, <1>2, <1>3 DEF LinesAll
<1>4. CASE buf[s] # 0
  <2> DEFINE n == Len(cat) + buf[s]
  <2>1. n \in Nat /\ Len(cat) < n /\ line[s] = Len(cat) /\ line[s] + buf[s] = n
    BY <1>2, <1>4 DEF LinesAll
  <2>2. cat' = [j \in 1..n |->
                 IF j \in (line[s] + 1)..n THEN s ELSE IF j <= Len(cat) THEN cat[j] ELSE NoProc]
    BY <1>1, <1>4, <2>1 DEF Flushed
  <2> HIDE DEF n
  <2>3. ASSUME NEW j \in 1..n PROVE cat'[j] = s
    <3>1. j \in (line[s] + 1)..n \/ j \in 1..Len(cat)
      BY <1>2, <2>1
    <3> QED
      BY <1>2, <2>2, <3>1
  <2>4. DOMAIN cat' = 1..n /\ cat' \in Seq(Proc \cup {NoProc})
    BY <2>2, FlushTypes
  <2>5. Len(cat') = n
    BY <2>1, <2>4
  <2> QED
    BY <1>2, <2>3, <2>4, <2>5 DEF LinesAll, n
<1> QED
  BY <1>3, <1>4

(* A path that lstat(2) finds is one more, in the tables and in the buffer. *)
LEMMA ListedMore ==
  ASSUME RunsInv, AloneInv, NEW s \in Proc, NEW p \in Path, ScanPath(s, p)
  PROVE  /\ Cardinality(Listed(s))' = Cardinality(Listed(s)) + 1
         /\ Cardinality(Listed(s)) \in Nat
<1> DEFINE i == dir[p]
           new == Append(paths[s][i], p)
<1>0. FileTypes /\ TableTypes /\ OnceOK(s)
  BY DEF RunsInv, AloneInv
<1>1. /\ Exists(p) /\ p \in todo[s]
      /\ paths' = [paths EXCEPT ![s] = [paths[s] EXCEPT ![i] = new]]
  BY <1>0 DEF ScanPath, TableTypes
<1>2. i \in Inode
  BY <1>0, <1>1 DEF Exists, FileTypes
<1> HIDE DEF i
<1>3. paths[s][i] \in Seq(Path) /\ Range(new) = Range(paths[s][i]) \cup {p}
  <2> DEFINE q == paths[s][i]
  <2>1. q \in Seq(Path)
    BY <1>0, <1>2 DEF TableTypes
  <2> HIDE DEF q
  <2>2. /\ DOMAIN q = 1..Len(q) /\ Len(q) \in Nat /\ DOMAIN Append(q, p) = 1..(Len(q) + 1)
        /\ \A j \in 1..Len(q) : Append(q, p)[j] = q[j]
        /\ Append(q, p)[Len(q) + 1] = p
    BY <2>1
  <2>3. Range(Append(q, p)) = Range(q) \cup {p}
    <3>1. ASSUME NEW x \in Range(Append(q, p)) PROVE x \in Range(q) \cup {p}
      <4>1. PICK j \in 1..(Len(q) + 1) : x = Append(q, p)[j]
        BY <2>2 DEF Range
      <4>2. j \in 1..Len(q) \/ j = Len(q) + 1
        BY <2>2
      <4> QED
        BY <2>2, <4>1, <4>2 DEF Range
    <3>2. ASSUME NEW x \in Range(q) \cup {p} PROVE x \in Range(Append(q, p))
      <4>1. CASE x \in Range(q)
        <5>1. PICK j \in 1..Len(q) : x = q[j]
          BY <2>2, <4>1 DEF Range
        <5>2. j \in 1..(Len(q) + 1) /\ Append(q, p)[j] = x
          BY <2>2, <5>1
        <5> QED
          BY <2>2, <5>2 DEF Range
      <4>2. CASE x = p
        <5>1. Len(q) + 1 \in 1..(Len(q) + 1)
          BY <2>2
        <5> QED
          BY <2>2, <4>2, <5>1 DEF Range
      <4> QED
        BY <4>1, <4>2
    <3> QED
      BY <3>1, <3>2
  <2> QED
    BY <2>1, <2>3 DEF q
<1> HIDE DEF new
<1>4. paths'[s][i] = new /\ \A k \in Inode \ {i} : paths'[s][k] = paths[s][k]
  BY <1>0, <1>1, <1>2 DEF TableTypes
<1>5. Listed(s)' = Listed(s) \cup {p}
  <2>1. \A x : x \in Listed(s)' <=> \E k \in Inode : x \in Range(paths'[s][k])
    BY DEF Listed
  <2>2. \A x : x \in Listed(s) <=> \E k \in Inode : x \in Range(paths[s][k])
    BY DEF Listed
  <2>3. \A x : x \in Listed(s)' <=> x \in Listed(s) \/ x = p
    BY <1>2, <1>3, <1>4, <2>1, <2>2
  <2> QED
    BY <2>3
<1>6. p \notin Listed(s) /\ Listed(s) \subseteq Path
  <2>1. ASSUME NEW k \in Inode, NEW x \in Range(paths[s][k]) PROVE x # p /\ x \in Path
    <3>1. paths[s][k] \in Seq(Path)
      BY <1>0 DEF TableTypes
    <3>2. PICK j \in 1..Len(paths[s][k]) : x = paths[s][k][j]
      BY <3>1 DEF Range
    <3> QED
      BY <1>0, <1>1, <3>1, <3>2 DEF OnceOK
  <2> QED
    BY <2>1 DEF Listed
<1>7. IsFiniteSet(Listed(s)) /\ Cardinality(Listed(s)) \in Nat
  BY <1>6, FS_Subset, FS_CardinalityType
<1> QED
  BY <1>5, <1>6, <1>7, FS_AddElement

LEMMA OptionLines ==
  ASSUME RunsInv, AloneInv, LockFirst, LinesInv, NEW s \in Proc, GetOption(s)
  PROVE  LinesInv'
<1> DEFINE q == opts[s]
<1>0. /\ Apart(s) /\ ApartToo(s) /\ TableTypes /\ RestTypes /\ LinesOK(s) /\ IdleOK(s) /\ LockOK(s)
      /\ pc[s] = "opts" /\ q # << >> /\ q \in Seq(Options)
      /\ UNCHANGED <<pc, paths, buf, args>>
  BY ScansApart DEF RunsInv, AloneInv, LinesInv, GetOption, OpensCatalogue, catVars, scanTab, RestTypes
<1>1. /\ opts'[s] = Tail(q)
      /\ IF Head(q) = "l" THEN holder = NoProc /\ holder' = s ELSE holder' = holder
      /\ IF Head(q) = "c" THEN cat' = << >> /\ line' = [line EXCEPT ![s] = 0] ELSE UNCHANGED <<cat, line>>
  BY <1>0 DEF GetOption, Locks, OpensCatalogue, catVars, RestTypes
<1>2. buf[s] = 0 /\ buf'[s] = 0
  BY <1>0 DEF LinesOK
<1>3. /\ \A j, k \in DOMAIN q : q[j] = "l" /\ q[k] = "c" => j < k
      /\ Waits(s, "l") /\ Uses(s, "c") => Waits(s, "c")
      /\ \A o : Waits(s, o) <=> \E j \in DOMAIN q : q[j] = o
  BY <1>0 DEF LinesOK, Waits
<1> HIDE DEF q
<1>4. /\ DOMAIN q = 1..Len(q) /\ Len(q) \in Nat /\ 1 \in DOMAIN q /\ Head(q) = q[1]
      /\ \A j \in DOMAIN Tail(q) : j + 1 \in DOMAIN q /\ Tail(q)[j] = q[j + 1] /\ j \in Nat
  BY <1>0
<1>5. \A o : (\E j \in DOMAIN q : q[j] = o) /\ Head(q) # o => \E j \in DOMAIN Tail(q) : Tail(q)[j] = o
  BY <1>0, TailHas, Zenon
<1>6. \A o : /\ Waits(s, o)' => Waits(s, o)
             /\ Waits(s, o) /\ Head(q) # o => Waits(s, o)'
  <2>1. \A o : Waits(s, o)' <=> \E j \in DOMAIN Tail(q) : Tail(q)[j] = o
    BY <1>1 DEF Waits
  <2> QED
    BY <1>3, <1>4, <1>5, <2>1
<1>7. Head(q) = "c" => ~Waits(s, "l") /\ holder = s
  <2>1. Head(q) = "c" => ~Waits(s, "l")
    <3> SUFFICES ASSUME q[1] = "c", NEW j \in DOMAIN q, q[j] = "l" PROVE FALSE
      BY <1>3, <1>4
    <3>1. j < 1
      BY <1>3, <1>4
    <3> QED
      BY <1>4, <3>1
  <2>2. Uses(s, "l") /\ pc[s] \notin Ended
    BY <1>0 DEF LockFirst, Ended
  <2> QED
    BY <1>0, <2>1, <2>2 DEF LockOK
<1>8. LinesOK(s)'
  <2>1. \A j, k \in DOMAIN opts'[s] : opts'[s][j] = "l" /\ opts'[s][k] = "c" => j < k
    <3> SUFFICES ASSUME NEW j \in DOMAIN Tail(q), NEW k \in DOMAIN Tail(q),
                        Tail(q)[j] = "l", Tail(q)[k] = "c"
                 PROVE  j < k
      BY <1>1
    <3>1. j + 1 < k + 1
      BY <1>3, <1>4
    <3> QED
      BY <1>4, <3>1
  <2>2. Waits(s, "l")' /\ Uses(s, "c")' => Waits(s, "c")'
    BY <1>0, <1>3, <1>6, <1>7 DEF Uses
  <2>3. ASSUME holder' = s, Uses(s, "c")', ~Waits(s, "c")' PROVE LinesAll(s)'
    <3>1. Listed(s)' = Listed(s)
      BY <1>0 DEF Listed
    <3>2. CASE Head(q) = "c"
      <4>1. /\ cat' = << >> /\ line'[s] = 0
        BY <1>0, <1>1, <3>2 DEF RestTypes
      <4>2. \A i \in Inode : Range(paths[s][i]) = {}
        BY <1>0 DEF IdleOK, Active, Range
      <4>3. Listed(s) = {}
        BY <4>2 DEF Listed
      <4> QED
        BY <1>2, <3>1, <4>1, <4>3, FS_EmptySet DEF LinesAll
    <3>3. CASE Head(q) = "l"
      <4>1. Waits(s, "l") /\ Uses(s, "c")
        BY <1>0, <1>3, <1>4, <2>3, <3>3 DEF Uses
      <4> QED
        BY <1>3, <1>6, <2>3, <3>3, <4>1
    <3>4. CASE Head(q) \notin {"c", "l"}
      <4>1. LinesAll(s)
        BY <1>0, <1>1, <1>6, <2>3, <3>4 DEF LinesOK, Uses
      <4> QED
        BY <1>0, <1>1, <3>1, <3>4, <4>1 DEF LinesAll
    <3> QED
      BY <3>2, <3>3, <3>4
  <2> QED
    BY <1>2, <2>1, <2>2, <2>3 DEF LinesOK
<1>9. ASSUME NEW r \in Proc \ {s} PROVE LinesOK(r)'
  <2>1. /\ pc'[r] = pc[r] /\ opts'[r] = opts[r] /\ line'[r] = line[r] /\ buf'[r] = buf[r]
        /\ Listed(r)' = Listed(r)
    BY <1>0 DEF Apart, ApartToo, Listed
  <2>2. holder' = r => holder = r /\ cat' = cat
    BY <1>1, <1>7
  <2> QED
    BY <1>0, <2>1, <2>2 DEF LinesInv, LinesOK, LinesAll, Uses, Waits
<1> QED
  BY <1>8, <1>9 DEF LinesInv

(* What a process does past its options: it has the lock, so that no other wants the catalogue. *)
LEMMA ActiveLines ==
  ASSUME RunsInv, AloneInv, LockFirst, LinesInv, NEW s \in Proc, Acts(s), Active(s),
         UNCHANGED <<opts, holder>>, buf'[s] # 0 => pc'[s] = "scan" /\ Uses(s, "c"),
         Uses(s, "c") => LinesAll(s)'
  PROVE  LinesInv'
<1>0. Apart(s) /\ ApartToo(s) /\ holder = s
  BY StepApart, Alone, LockedByL DEF AloneInv
<1>1. LinesOK(s)'
  <2>1. Waits(s, "l") <=> Waits(s, "l")'
    BY DEF Waits
  <2>2. Waits(s, "c") <=> Waits(s, "c")'
    BY DEF Waits
  <2>3. LinesOK(s) /\ (Uses(s, "c")' <=> Uses(s, "c"))
    BY <1>0 DEF LinesInv, ApartToo, Uses
  <2> QED
    BY <2>1, <2>2, <2>3 DEF LinesOK
<1>2. ASSUME NEW r \in Proc \ {s} PROVE LinesOK(r)'
  <2>1. /\ pc'[r] = pc[r] /\ buf'[r] = buf[r] /\ LinesOK(r) /\ holder' # r
    BY <1>0 DEF Apart, ApartToo, LinesInv
  <2> QED
    BY <1>0, <2>1 DEF LinesOK, Uses, Waits, ApartToo
<1> QED
  BY <1>1, <1>2 DEF LinesInv

LEMMA ScanLines ==
  ASSUME RunsInv, AloneInv, LockFirst, LinesInv, NEW s \in Proc, StartScan(s) \/ Scans(s) \/ Works(s)
  PROVE  LinesInv'
<1>0. /\ CatTypes /\ LinesOK(s) /\ IdleOK(s) /\ pc \in [Proc -> Stages]
      /\ Apart(s) /\ ApartToo(s) /\ Acts(s)
  BY StepApart DEF AloneInv, LinesInv, RestTypes, CatTypes, RunsInv, TableTypes, Acts
<1>1. ASSUME Active(s), Uses(s, "c") PROVE LinesAll(s)
  <2>1. holder = s /\ opts[s] = << >>
    BY <1>0, <1>1, Alone, LockedByL DEF IdleOK
  <2>2. ~Waits(s, "c")
    BY <2>1 DEF Waits
  <2> QED
    BY <1>0, <1>1, <2>1, <2>2 DEF LinesOK
<1>2. CASE StartScan(s)
  <2>1. UNCHANGED <<opts, holder, args, cat, line, buf, paths>> /\ pc[s] = "opts" /\ pc'[s] = "scan"
    BY <1>0, <1>2 DEF StartScan, Goes, catVars
  <2>2. \A r \in Proc \ {s} : pc'[r] = pc[r]
    BY <1>0 DEF Apart
  <2>3. \A r \in Proc : LinesAll(r)' <=> LinesAll(r)
    BY <2>1 DEF LinesAll, Listed
  <2>4. \A r \in Proc : \A o : (Waits(r, o)' <=> Waits(r, o)) /\ (Uses(r, o)' <=> Uses(r, o))
    BY <2>1 DEF Waits, Uses
  <2> QED
    BY <2>1, <2>2, <2>3, <2>4 DEF LinesInv, LinesOK
<1>3. ASSUME NEW p \in Path, ScanPath(s, p) PROVE LinesInv'
  <2>1. /\ UNCHANGED <<opts, holder, cat, line, pc>> /\ pc[s] = "scan" /\ Active(s)
        /\ Uses(s, "c") => buf'[s] = buf[s] + 1
        /\ ~Uses(s, "c") => buf' = buf
    BY <1>0, <1>3 DEF ScanPath, Catalogued, Active, Ended, CatTypes
  <2>2. Uses(s, "c") => LinesAll(s)'
    <3>1. /\ Cardinality(Listed(s))' = Cardinality(Listed(s)) + 1
          /\ Len(cat) \in Nat /\ buf[s] \in Nat
      BY <1>0, <1>3, ListedMore DEF CatTypes
    <3> QED
      BY <1>1, <2>1, <3>1 DEF LinesAll
  <2>3. buf'[s] # 0 => pc'[s] = "scan" /\ Uses(s, "c")
    BY <1>0, <2>1 DEF LinesOK
  <2> QED
    BY <1>0, <2>1, <2>2, <2>3, ActiveLines
<1>4. ASSUME NEW p \in Path, PassOver(s, p) PROVE LinesInv'
  <2>1. /\ UNCHANGED <<opts, holder, cat, line, buf, pc, paths>> /\ Active(s)
    BY <1>4 DEF PassOver, Active, Ended, catVars
  <2>2. Uses(s, "c") => LinesAll(s)'
    BY <1>1, <2>1 DEF LinesAll, Listed
  <2>3. buf'[s] # 0 => pc'[s] = "scan" /\ Uses(s, "c")
    BY <1>0, <2>1 DEF LinesOK
  <2> QED
    BY <1>0, <2>1, <2>2, <2>3, ActiveLines
<1>5. CASE FlushesEarly(s) \/ ScanDone(s)
  <2>1. UNCHANGED <<opts, holder, paths>> /\ Active(s) /\ Flush(s)
    BY <1>5 DEF FlushesEarly, ScanDone, Active, Ended, scanTab
  <2>2. Uses(s, "c") => LinesAll(s)'
    BY <1>0, <1>1, <2>1, FlushLines
  <2>3. buf'[s] = 0
    BY <1>0, <2>1 DEF Flush, CatTypes
  <2> QED
    BY <1>0, <2>1, <2>2, <2>3, ActiveLines
<1>6. CASE Works(s) /\ ~ScanDone(s)
  <2>1. UNCHANGED <<opts, holder, paths>> /\ Active(s)
    BY <1>6, WorksOn
  <2>2. UNCHANGED catVars /\ pc[s] # "scan"
    <3>1. CASE Pick(s) \/ PassesDone(s) \/ (\E i \in Inode : Turn(s, i)) \/ GetHash(s) \/ HashFile(s)
      BY <3>1 DEF Pick, PassesDone, Turn, GetHash, HashFile
    <3>2. CASE PutHash(s) \/ Switch(s) \/ ReadDone(s) \/ CallDoDedup(s) \/ NextCluster(s)
      BY <3>2 DEF PutHash, Switch, ReadDone, CallDoDedup, NextCluster
    <3>3. CASE NextVictim(s) \/ Unlink(s) \/ Link(s)
      BY <3>3 DEF NextVictim, Unlink, Link
    <3> QED
      BY <1>6, <3>1, <3>2, <3>3 DEF Works
  <2>3. Uses(s, "c") => LinesAll(s)'
    BY <1>1, <2>1, <2>2 DEF LinesAll, Listed, catVars
  <2>4. buf'[s] = 0
    BY <1>0, <2>2 DEF LinesOK, catVars
  <2> QED
    BY <1>0, <2>1, <2>3, <2>4, ActiveLines
<1> QED
  BY <1>2, <1>3, <1>4, <1>5, <1>6 DEF Scans

LEMMA EndLines ==
  ASSUME RunsInv, AloneInv, LockFirst, LinesInv, NEW s \in Proc, Ends(s)
  PROVE  LinesInv'
<1>0. /\ Apart(s) /\ ApartToo(s) /\ LinesOK(s) /\ CatTypes /\ pc \in [Proc -> Stages]
  BY EndsApart DEF AloneInv, LinesInv, RestTypes, CatTypes, RunsInv, TableTypes
<1>1. /\ holder' = IF holder = s THEN NoProc ELSE holder
      /\ opts' = opts /\ pc'[s] \in Ended
  BY <1>0, EndsExits DEF Exits, Unlocks, Goes
<1>2. buf'[s] = 0
  <2>1. CASE Close(s)
    BY <1>0, <2>1 DEF Close, LinesOK, catVars
  <2>2. CASE ~Close(s)
    BY <1>0, <2>2 DEF Ends, ScanFails, HashFails, SwitchFails, MergeFails, Faults, Kill, Fails,
       Dies, Flush, CatTypes
  <2> QED
    BY <2>1, <2>2
<1>3. cat' = cat \/ holder = s
  <2>1. CASE Active(s)
    BY <2>1, Alone, LockedByL
  <2>2. CASE ~Active(s)
    BY <2>2 DEF Ends, ScanFails, HashFails, SwitchFails, MergeFails, Faults, Kill, Close, Dies,
       catVars, Active, Ended
  <2> QED
    BY <2>1, <2>2
<1>4. LinesOK(s)'
  <2>1. /\ \A o : (Waits(s, o)' <=> Waits(s, o)) /\ (Uses(s, o)' <=> Uses(s, o))
        /\ holder' # s
    BY <1>0, <1>1 DEF Waits, Uses, ApartToo
  <2> QED
    BY <1>0, <1>1, <1>2, <2>1 DEF LinesOK
<1>5. ASSUME NEW r \in Proc \ {s} PROVE LinesOK(r)'
  <2>1. /\ pc'[r] = pc[r] /\ line'[r] = line[r] /\ buf'[r] = buf[r] /\ paths'[r] = paths[r]
        /\ \A o : (Waits(r, o)' <=> Waits(r, o)) /\ (Uses(r, o)' <=> Uses(r, o))
    BY <1>0, <1>1 DEF Apart, ApartToo, Waits, Uses
  <2>2. holder' = r => holder = r /\ cat' = cat
    BY <1>1, <1>3
  <2>3. LinesAll(r) /\ cat' = cat => LinesAll(r)'
    BY <2>1 DEF LinesAll, Listed
  <2>4. LinesOK(r)
    BY DEF LinesInv
  <2> QED
    BY <1>1, <2>1, <2>2, <2>3, <2>4 DEF LinesOK
<1> QED
  BY <1>4, <1>5 DEF LinesInv

LEMMA LinesInit == Init /\ LockFirst => LinesInv
<1> SUFFICES ASSUME Init, LockFirst, NEW s \in Proc PROVE LinesOK(s)
  BY DEF LinesInv
<1>1. buf[s] = 0 /\ opts = args /\ holder # s /\ Before(s, "l", "c")
  BY DEF Init, ForAll, LockFirst
<1> QED
  BY <1>1 DEF LinesOK, Before, Waits, Uses

LEMMA LinesNext ==
  ASSUME RunsInv, AloneInv, LockFirst => LinesInv, [Next]_runsVars
  PROVE  LockFirst' => LinesInv'
<1>1. ASSUME NEW s \in Proc, Acts(s), LockFirst' PROVE LinesInv'
  <2>1. LockFirst
    BY <1>1, StepApart DEF AloneInv, ApartToo, LockFirst, Uses, Before
  <2> QED
    BY <1>1, <2>1, OptionLines, ScanLines, EndLines DEF Acts
<1>2. CASE UNCHANGED runsVars
  <2>1. UNCHANGED <<args, opts, holder, cat, line, buf, pc, paths>>
    BY <1>2 DEF runsVars, catVars, scanTab
  <2>2. LockFirst' => LockFirst
    BY <2>1 DEF LockFirst, Uses, Before
  <2>3. LinesInv => LinesInv'
    <3>1. \A s \in Proc : \A o : (Waits(s, o)' <=> Waits(s, o)) /\ (Uses(s, o)' <=> Uses(s, o))
      BY <2>1 DEF Waits, Uses
    <3>2. \A s \in Proc : LinesAll(s) => LinesAll(s)'
      BY <2>1 DEF LinesAll, Listed
    <3>3. ASSUME NEW s \in Proc, LinesOK(s) PROVE LinesOK(s)'
      BY <2>1, <3>1, <3>2, <3>3 DEF LinesOK
    <3> QED
      BY <3>3 DEF LinesInv
  <2> QED
    BY <2>2, <2>3
<1> QED
  BY <1>1, <1>2, NextActs

(* Where every process locks before it opens the catalogue, one that has closed it finds there,   *)
(* as long as it runs, a line of its own for each file it met and nothing else, whatever others      *)
(* were killed in the middle of theirs (undup.c:175-182, 389).                                         *)
THEOREM CatalogueIsWhole == Spec => []CatalogueWhole
<1> DEFINE Inv == RunsInv /\ AloneInv /\ (LockFirst => LinesInv)
<1>1. Init => Inv
  BY InitInv, AloneInit, LinesInit
<1>2. Inv /\ [Next]_runsVars => Inv'
  BY NextInv, AloneStep, LinesNext
<1>3. Inv => CatalogueWhole
  <2> SUFFICES ASSUME Inv, LockFirst, NEW s \in Proc, holder = s, Uses(s, "c"),
                      pc[s] \notin {"opts", "scan"}
               PROVE  /\ \A j \in DOMAIN cat : cat[j] = s
                      /\ Len(cat) = Cardinality(Listed(s))
    BY DEF CatalogueWhole, LockFirst, Listed
  <2>1. Active(s) /\ opts[s] = << >>
    BY DEF AloneInv, LockOK, IdleOK, Active
  <2>2. ~Waits(s, "c")
    BY <2>1 DEF Waits
  <2>3. LinesAll(s) /\ buf[s] = 0
    BY <2>2 DEF LinesInv, LinesOK
  <2>4. Len(cat) \in Nat
    BY DEF AloneInv, RestTypes
  <2> QED
    BY <2>3, <2>4 DEF LinesAll
<1> HIDE DEF Inv
<1> QED
  BY <1>1, <1>2, <1>3, PTL DEF Spec
================================================================================
