----------------------------- MODULE DoDedupProofs -----------------------------
(***************************************************************************)
(* Proofs about do_dedup for every tree, number of inodes, runs and changes  *)
(* by other processes: the file system may change in any way between any    *)
(* two system calls, and the program may be killed anywhere.                *)
(*                                                                         *)
(* The invariants of module DoDedup are not inductive: that a link(2) gives *)
(* a path the right contents depends on what the base path still names.     *)
(* The strengthening says so in Held: an inode that no cluster has consumed *)
(* as a victim still has every path it had, unless others took it away, in   *)
(* which case the inode and whatever now bears the path are touched.         *)
(*                                                                         *)
(* TidyInv is about a run that nobody disturbs: each name still to be replaced *)
(* leads to its victim, each that was replaced to the inode kept for it, so     *)
(* that no call fails except link(2) at the limit of names.                      *)
(***************************************************************************)
EXTENDS DoDedup, FileSystemProofs

USE FileSystemAssumption, DoDedupAssumption

(* Inodes undup leaves in place: those of no cluster, and each cluster's oldest. *)
Held == (Inode \ merged) \cup kept

NodesIntact == \A i \in Inode \ touched : node[i] = node0[i]

HeldIntact ==
  \A p \in Path : dir0[p] \in Held =>
    \/ dir[p] = dir0[p]
    \/ dir0[p] \in touched /\ dir[p] \in touched \cup {NoInode}

ItabMatches ==
  \A i \in Inode :
    /\ \A p \in itab[i].names : dir0[p] = i
    /\ Known(i) => itab[i].first \in itab[i].names
    /\ itab[i].mtime = node0[i].mtime

(* What the inodes still to be replaced are to the base. *)
Victim(i) ==
  /\ i \in merged \ kept
  /\ node0[base].mtime <= node0[i].mtime
  /\ (i \notin touched /\ base \notin touched) => SameFile(node0[i], node0[base])

ClusterSound ==
  /\ kept \subseteq merged
  /\ pc \in Merging => base \in kept /\ Known(base)
  /\ pc \in Merging => \A i \in rest : Victim(i)
  /\ (pc \in {"unlink", "link"} \/ (pc = "merge" /\ pend # {})) =>
       /\ vic \in Inode /\ Victim(vic)
       /\ pend \subseteq itab[vic].names
  /\ pc \in {"unlink", "link"} => name \in itab[vic].names /\ ~dryrun

(* Every inode merged has a kept one of the same contents with a path. *)
KeptForMerged ==
  touched \cap merged = {} =>
    \A i \in merged : \E k \in kept :
      SameFile(node0[i], node0[k]) /\ \E q \in Path : dir0[q] = k

IInv ==
  /\ TypeOK
  /\ NodesIntact
  /\ HeldIntact
  /\ ItabMatches
  /\ ClusterSound
  /\ KeptForMerged
  /\ UntouchedPreserved
  /\ AtMostOneNameLost
  /\ DryRunReadOnly
  /\ OldestWins

--------------------------------------------------------------------------------
LEMMA ScanTables ==
  ASSUME FileSystemTypeOK, NEW t \in Scan
  PROVE  /\ t \in [Inode -> Entry]
         /\ \A i \in Inode :
              /\ \A p \in t[i].names : dir[p] = i
              /\ t[i].names # {} => t[i].first \in t[i].names
              /\ t[i].mtime = node[i].mtime
<1>1. ASSUME NEW i \in Inode, NEW e \in EntriesOf(i)
      PROVE  /\ e \in Entry
             /\ \A p \in e.names : dir[p] = i
             /\ e.names # {} => e.first \in e.names
             /\ e.mtime = node[i].mtime
  <2>1. Recorded(i) \subseteq Tree /\ \A p \in Recorded(i) : dir[p] = i
    BY DEF Recorded, Names
  <2>2. node[i].mtime \in Mtime
    BY DEF FileSystemTypeOK, File
  <2>3. CASE Recorded(i) = {}
    BY <1>1, <2>1, <2>2, <2>3 DEF EntriesOf, NoEntry, Entry
  <2>4. CASE Recorded(i) # {}
    BY <1>1, <2>1, <2>2, <2>4 DEF EntriesOf, Entry
  <2> QED BY <2>3, <2>4
<1>2. \A i \in Inode : t[i] \in EntriesOf(i)
  BY DEF Scan
<1>3. t = [i \in Inode |-> t[i]]
  BY DEF Scan
<1> QED BY <1>1, <1>2, <1>3

--------------------------------------------------------------------------------
(* Type correctness. *)

LEMMA InitTypeOK == MergeInit => TypeOK
BY DEF MergeInit, FileSystemInit, TypeOK, FileSystemTypeOK, NoEntry, Entry, File,
       Stopped

(* A call of do_dedup on scanned inodes, whether they are Mergeable or not. *)
SomeCall == \E C \in SUBSET Inode : (\A i \in C : Known(i)) /\ Call(C)

BaseKnown == pc \in Merging => base \in Inode /\ Known(base)

LEMMA NextTypeOK ==
  ASSUME TypeOK, ItabMatches, BaseKnown, SomeCall \/ [MergeNext]_mergeVars
  PROVE  TypeOK'
<1> USE DEF TypeOK, FileSystemTypeOK, Stopped, Merging, Entry
<1> USE DEF mergeVars, fsVars, history, cluster, stats, tables
<1>1. CASE StartRun
  BY <1>1, ScanTables DEF StartRun
<1>2. ASSUME NEW C \in SUBSET Inode, Call(C) PROVE TypeOK'
  BY <1>2 DEF Call, Oldest
<1>3. CASE NextVictim
  BY <1>3 DEF NextVictim, Oldest
<1>4. CASE NextPath
  <2>1. PICK p \in NextPaths : NextPath!2!(p)
    BY <1>4 DEF NextPath, Uncounted, AfterCount
  <2>2. p \in Tree
    BY <1>4, <2>1 DEF NextPath, Uncounted, AfterCount, NextPaths
  <2>3. Exists(p) => Len(node[dir[p]].data) \in Nat
    BY <2>2 DEF Exists, File
  <2> QED BY <1>4, <2>1, <2>2, <2>3 DEF NextPath, Uncounted, AfterCount, Exists
<1>5. CASE Unlink
  BY <1>5 DEF Unlink, UnlinkPath
<1>6. CASE Link
  <2>1. BasePath \in Path
    BY <1>6 DEF Link, ItabMatches, BaseKnown, Known, BasePath
  <2> QED BY <1>6, <2>1 DEF Link, LinkPath, CanLink, Exists
<1>7. CASE Return \/ Abort \/ Finish \/ Kill \/ Terminated \/ UNCHANGED mergeVars
  BY <1>7 DEF Return, Abort, Finish, Kill, Terminated
<1>8. CASE Others
  BY <1>8, LiveChangeFrame DEF Others, OthersFrame
<1> QED BY <1>1, <1>2, <1>3, <1>4, <1>5, <1>6, <1>7, <1>8
        DEF MergeNext, MergeStep, SomeCall, DoDedup

(* The tables are those of the scan, and name a base wherever one is used. *)
LEMMA NextTables ==
  ASSUME TypeOK, ItabMatches, BaseKnown, SomeCall \/ [MergeNext]_mergeVars
  PROVE  ItabMatches' /\ BaseKnown'
<1>1. CASE StartRun
  <2>1. /\ itab' \in Scan /\ dir0' = dir /\ node0' = node /\ pc' = "ready"
    BY <1>1 DEF StartRun
  <2> QED
    BY <2>1, ScanTables DEF ItabMatches, Known, BaseKnown, Merging, TypeOK
<1>2. ASSUME UNCHANGED <<itab, dir0, node0>>, pc' \in Merging => pc \in Merging /\ UNCHANGED base
      PROVE  ItabMatches' /\ BaseKnown'
  BY <1>2 DEF ItabMatches, BaseKnown, Known
<1>3. ASSUME NEW C \in SUBSET Inode, \A i \in C : Known(i), Call(C)
      PROVE  ItabMatches' /\ BaseKnown'
  BY <1>3 DEF Call, Oldest, fsVars, history, ItabMatches, BaseKnown, Known
<1>4. CASE MergeStep \/ Abort \/ Finish \/ Kill \/ Terminated \/ UNCHANGED mergeVars
  BY <1>2, <1>4
     DEF MergeStep, NextVictim, NextPath, Unlink, Link, Return, Abort, Finish, Kill, Terminated,
         mergeVars, fsVars, history, tables, cluster, Merging
<1>5. CASE Others
  <2>1. UNCHANGED <<itab, dir0, node0, pc, base>>
    BY <1>5, LiveChangeFrame DEF Others, OthersFrame, tables, cluster, history, TypeOK
  <2> QED
    BY <1>2, <2>1
<1> QED
  BY <1>1, <1>3, <1>4, <1>5 DEF MergeNext, SomeCall, DoDedup, Mergeable

--------------------------------------------------------------------------------
(* The inductive invariant holds initially and a new run establishes it.        *)

LEMMA InitIInv == MergeInit => IInv
<1> SUFFICES ASSUME MergeInit PROVE IInv
  OBVIOUS
<1> USE DEF MergeInit, FileSystemInit
<1>1. TypeOK
  BY InitTypeOK
<1>2. NodesIntact /\ HeldIntact
  BY DEF NodesIntact, HeldIntact
<1>3. ItabMatches /\ ClusterSound
  BY DEF ItabMatches, ClusterSound, Known, NoEntry, Merging
<1>4. KeptForMerged
  BY DEF KeptForMerged
<1>5. UntouchedPreserved /\ AtMostOneNameLost /\ DryRunReadOnly /\ OldestWins
  BY DEF UntouchedPreserved, AtMostOneNameLost, Missing, DryRunReadOnly, OldestWins,
         SameFile
<1> QED BY <1>1, <1>2, <1>3, <1>4, <1>5 DEF IInv

LEMMA StartRunIInv ==
  ASSUME IInv, StartRun, TypeOK'
  PROVE  IInv'
<1> USE DEF StartRun
<1>1. NodesIntact' /\ HeldIntact'
  BY DEF NodesIntact, HeldIntact
<1>2. ItabMatches'
  BY ScanTables DEF ItabMatches, Known, IInv, TypeOK
<1>3. ClusterSound' /\ KeptForMerged'
  BY DEF ClusterSound, KeptForMerged, Merging
<1>4. UntouchedPreserved' /\ AtMostOneNameLost' /\ DryRunReadOnly' /\ OldestWins'
  BY DEF UntouchedPreserved, AtMostOneNameLost, Missing, DryRunReadOnly, OldestWins,
         SameFile
<1> QED BY <1>1, <1>2, <1>3, <1>4 DEF IInv

--------------------------------------------------------------------------------
(* One lemma for each step of the program.                                      *)

(* Steps that leave the file system and its history alone keep these. *)
Stored == <<fsVars, itab, dryrun>>
LEMMA StoredUnchanged ==
  ASSUME IInv, UNCHANGED Stored
  PROVE  /\ NodesIntact' /\ ItabMatches'
         /\ UntouchedPreserved' /\ DryRunReadOnly' /\ OldestWins'
         /\ Missing' = Missing
BY DEF IInv, Stored, fsVars, history, NodesIntact, ItabMatches, Known, Missing,
       UntouchedPreserved, SameFile, DryRunReadOnly, OldestWins

LEMMA DoDedupIInv ==
  ASSUME IInv, TypeOK', NEW C \in SUBSET Inode, DoDedup(C)
  PROVE  IInv'
<1> USE DEF IInv
<1>1. PICK b \in Oldest(C) : /\ base' = b /\ rest' = C \ {b}
                             /\ kept' = kept \cup {b}
  BY DEF DoDedup, Call
<1>2. /\ b \in C /\ C \subseteq Inode
      /\ \A j \in C : node0[b].mtime <= node0[j].mtime
  BY <1>1 DEF Oldest, ItabMatches
<1>3. /\ pc' = "merge" /\ merged' = merged \cup C /\ pend' = {} /\ name' = NoPath
      /\ UNCHANGED Stored /\ pc = "ready"
      /\ UNCHANGED <<dir, node, dir0, node0, touched, moved, itab>>
  BY DEF DoDedup, Call, Stored, fsVars, history
<1>4. /\ C \cap merged = {}
      /\ \A i \in C : Known(i)
      /\ \A i, j \in C \ touched : SameFile(node0[i], node0[j])
  BY DEF DoDedup, Mergeable
<1>5. HeldIntact'
  BY <1>1, <1>2, <1>3, <1>4 DEF HeldIntact, Held
<1>6. ClusterSound'
  <2>1. kept' \subseteq merged' /\ base' \in kept' /\ Known(base)'
    BY <1>1, <1>2, <1>3, <1>4 DEF ClusterSound, Known
  <2>2. \A i \in rest' : Victim(i)'
    BY <1>1, <1>2, <1>3, <1>4 DEF ClusterSound, Victim, SameFile
  <2> QED BY <1>3, <2>1, <2>2 DEF ClusterSound
<1>7. KeptForMerged'
  <2>1. SUFFICES ASSUME touched \cap (merged \cup C) = {}, NEW i \in merged \cup C
                 PROVE  \E k \in kept \cup {b} :
                          SameFile(node0[i], node0[k]) /\ \E q \in Path : dir0[q] = k
    BY <1>1, <1>3 DEF KeptForMerged, SameFile
  <2>2. CASE i \in merged
    BY <2>1, <2>2 DEF KeptForMerged
  <2>3. CASE i \in C
    <3>1. SameFile(node0[i], node0[b])
      BY <1>2, <1>4, <2>1, <2>3
    <3>2. itab[b].first \in Path /\ dir0[itab[b].first] = b
      BY <1>2, <1>4 DEF Known, ItabMatches, TypeOK, Entry, FileSystemTypeOK
    <3> QED BY <3>1, <3>2
  <2> QED BY <2>1, <2>2, <2>3
<1>8. AtMostOneNameLost'
  BY <1>3, StoredUnchanged DEF AtMostOneNameLost
<1> QED BY <1>3, <1>5, <1>6, <1>7, <1>8, StoredUnchanged

LEMMA NextVictimIInv ==
  ASSUME IInv, TypeOK', NextVictim
  PROVE  IInv'
<1> USE DEF IInv
<1>1. /\ UNCHANGED <<Stored, merged, kept, base, name>>
      /\ UNCHANGED <<dir0, node0, dir, touched, itab>>
      /\ pc = "merge" /\ pc' = "merge"
  BY DEF NextVictim, Stored, tables, fsVars, history
<1>2. vic' \in rest /\ rest' \subseteq rest /\ pend' = itab[vic'].names
  BY DEF NextVictim, Oldest
<1>3. \A i : Victim(i)' <=> Victim(i)
  BY <1>1 DEF Victim, SameFile
<1>4. ClusterSound'
  BY <1>1, <1>2, <1>3 DEF ClusterSound, Merging, Known, TypeOK
<1>5. HeldIntact' /\ KeptForMerged'
  BY <1>1 DEF HeldIntact, Held, KeptForMerged, SameFile
<1>6. AtMostOneNameLost'
  BY <1>1, StoredUnchanged DEF AtMostOneNameLost
<1> QED BY <1>1, <1>4, <1>5, <1>6, StoredUnchanged

LEMMA NextPathIInv ==
  ASSUME IInv, TypeOK', NextPath
  PROVE  IInv'
<1> USE DEF IInv
<1>1. /\ UNCHANGED <<Stored, merged, kept, base, rest, vic>>
      /\ UNCHANGED <<dir0, node0, dir, touched, itab, dryrun>>
      /\ pc = "merge" /\ pend # {}
  BY DEF NextPath, Uncounted, AfterCount, Stored, tables, fsVars, history
<1>2. /\ name' \in itab[vic].names /\ pend' \subseteq itab[vic].names
      /\ pc' \in {"merge", "unlink", "failed"}
      /\ pc' = "unlink" => ~dryrun
  BY <1>1 DEF NextPath, Uncounted, AfterCount, NextPaths, ClusterSound
<1>3. \A i : Victim(i)' <=> Victim(i)
  BY <1>1 DEF Victim, SameFile
<1>4. ClusterSound'
  BY <1>1, <1>2, <1>3 DEF ClusterSound, Merging, Known
<1>5. HeldIntact' /\ KeptForMerged'
  BY <1>1 DEF HeldIntact, Held, KeptForMerged, SameFile
<1>6. AtMostOneNameLost'
  BY <1>1, StoredUnchanged DEF AtMostOneNameLost
<1> QED BY <1>1, <1>4, <1>5, <1>6, StoredUnchanged

(* Unlink and Link change one path, name, which names a victim and so no held   *)
(* inode; they fail into a stop that changes nothing.                           *)
NameIsVictim ==
  /\ name \in Tree /\ dir0[name] = vic /\ Victim(vic)
  /\ base \in kept /\ BasePath \in Path /\ dir0[BasePath] = base /\ ~dryrun

LEMMA InFlight ==
  ASSUME IInv, pc \in {"unlink", "link"}
  PROVE  NameIsVictim
BY DEF IInv, NameIsVictim, ClusterSound, ItabMatches, Merging, BasePath, Known,
       TypeOK, Entry

LEMMA FailIInv ==
  ASSUME IInv, TypeOK', pc' \in {"failed", "killed", "done", "ready"},
         UNCHANGED <<fsVars, tables, cluster, stats>>,
         pc' = "failed" \/ pc' = "killed" \/ pc \in {"ready", "merge"}
  PROVE  IInv'
<1> USE DEF IInv
<1>1. UNCHANGED <<Stored, merged, kept, base, name>>
  BY DEF Stored, tables, cluster
<1>2. HeldIntact' /\ KeptForMerged'
  BY <1>1 DEF Stored, fsVars, history, HeldIntact, Held, KeptForMerged, SameFile
<1>3. ClusterSound'
  BY <1>1 DEF ClusterSound, Merging
<1>4. AtMostOneNameLost'
  BY <1>1, StoredUnchanged DEF AtMostOneNameLost
<1> QED BY <1>1, <1>2, <1>3, <1>4, StoredUnchanged

LEMMA UnlinkIInv ==
  ASSUME IInv, TypeOK', Unlink
  PROVE  IInv'
<1>1. CASE pc' = "failed"
  <2>1. UNCHANGED <<fsVars, tables, cluster, stats>>
    BY <1>1 DEF Unlink, fsVars, history
  <2> QED BY <1>1, <2>1, FailIInv
<1> USE DEF IInv
<1>2. CASE pc' = "link"
  <2>1. /\ NameIsVictim
        /\ dir \in [Path -> Inode \cup {NoInode}] /\ name \in Path
        /\ dir' = [dir EXCEPT ![name] = NoInode]
        /\ UNCHANGED <<node, dir0, node0, touched, moved, itab, dryrun>>
        /\ UNCHANGED <<merged, kept, base, rest, vic, pend, name>>
        /\ pc = "unlink" /\ pc' = "link"
    BY <1>2, InFlight
       DEF Unlink, UnlinkPath, history, tables, cluster, NameIsVictim, TypeOK,
           FileSystemTypeOK
  <2>2. \A i : Victim(i)' <=> Victim(i)
    BY <2>1 DEF Victim, SameFile
  <2>3. NodesIntact' /\ ItabMatches' /\ KeptForMerged'
    BY <2>1 DEF NodesIntact, ItabMatches, Known, KeptForMerged, SameFile
  <2>4. HeldIntact'
    <3>1. dir0[name] \notin Held /\ Held' = Held
      BY <2>1 DEF Held, NameIsVictim, Victim
    <3> QED BY <2>1, <3>1 DEF HeldIntact
  <2>5. ClusterSound'
    BY <2>1, <2>2 DEF ClusterSound, Merging, Known
  <2>6. UntouchedPreserved' /\ DryRunReadOnly' /\ OldestWins'
    BY <2>1 DEF UntouchedPreserved, SameFile, DryRunReadOnly, OldestWins, NameIsVictim
  <2>7. AtMostOneNameLost'
    BY <2>1 DEF AtMostOneNameLost, Missing
  <2> QED BY <2>3, <2>4, <2>5, <2>6, <2>7
<1> QED BY <1>1, <1>2 DEF Unlink

LEMMA LinkIInv ==
  ASSUME IInv, TypeOK', Link
  PROVE  IInv'
<1>1. CASE pc' = "failed"
  <2>1. UNCHANGED <<fsVars, tables, cluster, stats>>
    BY <1>1 DEF Link, fsVars, history
  <2> QED BY <1>1, <2>1, FailIInv
<1> USE DEF IInv
<1>2. CASE pc' = "merge"
  <2>1. /\ NameIsVictim
        /\ dir \in [Path -> Inode \cup {NoInode}] /\ name \in Path
        /\ dir' = [dir EXCEPT ![name] = dir[BasePath]]
        /\ dir[BasePath] # NoInode
        /\ UNCHANGED <<node, dir0, node0, touched, moved, itab, dryrun>>
        /\ UNCHANGED <<merged, kept, base, rest, vic, pend, name>>
        /\ pc = "link" /\ pc' = "merge"
    BY <1>2, InFlight
       DEF Link, LinkPath, CanLink, Exists, history, tables, cluster, NameIsVictim,
           TypeOK, FileSystemTypeOK
  <2>2. \A i : Victim(i)' <=> Victim(i)
    BY <2>1 DEF Victim, SameFile
  <2>3. NodesIntact' /\ ItabMatches' /\ KeptForMerged'
    BY <2>1 DEF NodesIntact, ItabMatches, Known, KeptForMerged, SameFile
  <2>4. HeldIntact'
    <3>1. dir0[name] \notin Held /\ Held' = Held
      BY <2>1 DEF Held, NameIsVictim, Victim
    <3> QED BY <2>1, <3>1 DEF HeldIntact
  <2>5. ClusterSound'
    BY <2>1, <2>2 DEF ClusterSound, Merging, Known
  <2>6. dir[BasePath] = base \/ dir[BasePath] \in touched
    BY <2>1 DEF HeldIntact, Held, NameIsVictim
  <2>7. base \in Inode \ touched => node[base] = node0[base]
    BY DEF NodesIntact
  <2>8. UntouchedPreserved'
    BY <2>1, <2>6, <2>7 DEF UntouchedPreserved, SameFile, NameIsVictim, Victim
  <2>9. OldestWins'
    BY <2>1, <2>6 DEF OldestWins, NameIsVictim, Victim
  <2>10. DryRunReadOnly'
    BY <2>1 DEF DryRunReadOnly, NameIsVictim
  <2>11. AtMostOneNameLost'
    BY <2>1 DEF AtMostOneNameLost, Missing
  <2> QED BY <2>3, <2>4, <2>5, <2>8, <2>9, <2>10, <2>11
<1> QED BY <1>1, <1>2 DEF Link

LEMMA OthersIInv ==
  ASSUME IInv, TypeOK', Others
  PROVE  IInv'
<1> USE DEF IInv
<1>1. /\ OthersFrame
      /\ UNCHANGED <<itab, dryrun, merged, kept, base, rest, vic, pend, name, pc>>
      /\ UNCHANGED <<dir0, node0>>
  BY LiveChangeFrame DEF Others, TypeOK, tables, cluster, OthersFrame, history
<1> USE DEF OthersFrame
<1>2. NodesIntact'
  BY <1>1 DEF NodesIntact
<1>3. ItabMatches'
  BY <1>1 DEF ItabMatches, Known
<1>4. HeldIntact'
  <2>1. Held' = Held /\ NoInode \notin Held
    BY <1>1 DEF Held, TypeOK
  <2> QED BY <1>1, <2>1 DEF HeldIntact
<1>5. \A i : Victim(i) => Victim(i)'
  BY <1>1 DEF Victim, SameFile
<1>6. ClusterSound'
  BY <1>1, <1>5 DEF ClusterSound, Known
<1>7. KeptForMerged'
  BY <1>1 DEF KeptForMerged, SameFile
<1>8. UntouchedPreserved'
  BY <1>1 DEF UntouchedPreserved, SameFile
<1>9. OldestWins'
  BY <1>1 DEF OldestWins
<1>10. DryRunReadOnly' /\ AtMostOneNameLost'
  BY <1>1 DEF DryRunReadOnly, AtMostOneNameLost, Missing
<1> QED BY <1>1, <1>2, <1>3, <1>4, <1>6, <1>7, <1>8, <1>9, <1>10

LEMMA NextIInv ==
  ASSUME IInv, [MergeNext]_mergeVars
  PROVE  IInv'
<1>1. TypeOK'
  <2>1. BaseKnown
    BY DEF IInv, TypeOK, ClusterSound, BaseKnown
  <2> QED
    BY <2>1, NextTypeOK DEF IInv
<1>2. CASE StartRun
  BY <1>1, <1>2, StartRunIInv
<1>3. ASSUME NEW C \in SUBSET Inode, DoDedup(C) PROVE IInv'
  BY <1>1, <1>3, DoDedupIInv
<1>4. CASE NextVictim
  BY <1>1, <1>4, NextVictimIInv
<1>5. CASE NextPath
  BY <1>1, <1>5, NextPathIInv
<1>6. CASE Unlink
  BY <1>1, <1>6, UnlinkIInv
<1>7. CASE Link
  BY <1>1, <1>7, LinkIInv
<1>8. CASE Return
  BY <1>1, <1>8, FailIInv DEF Return
<1>9. CASE Abort \/ Finish
  BY <1>1, <1>9, FailIInv DEF Abort, Finish
<1>10. CASE Kill
  BY <1>1, <1>10, FailIInv DEF Kill
<1>11. CASE Others
  BY <1>1, <1>11, OthersIInv
<1>12. CASE Terminated \/ UNCHANGED mergeVars
  <2>1. UNCHANGED <<Stored, merged, kept, base, rest, vic, pend, name, pc>>
    BY <1>12 DEF Terminated, mergeVars, Stored, tables, cluster
  <2>2. HeldIntact' /\ KeptForMerged' /\ ClusterSound' /\ AtMostOneNameLost'
    BY <2>1, StoredUnchanged
       DEF IInv, Stored, fsVars, history, HeldIntact, Held, KeptForMerged, SameFile,
           ClusterSound, Victim, Known, AtMostOneNameLost
  <2> QED BY <1>1, <2>1, <2>2, StoredUnchanged DEF IInv
<1> QED BY <1>2, <1>3, <1>4, <1>5, <1>6, <1>7, <1>8, <1>9, <1>10, <1>11, <1>12
        DEF MergeNext, MergeStep

--------------------------------------------------------------------------------
(* A run that nobody disturbs.  do_dedup finds each name that it has yet to replace    *)
(* where the scan found it, and each that it has replaced with the inode kept.          *)

Ended == {"idle", "failed", "killed"}

NamesThen(i) == IF node0[i].data = << >> THEN {} ELSE {p \in Tree : dir0[p] = i}
NamesAre == pc # "idle" => \A i \in Inode : itab[i].names = NamesThen(i)

(* The name in flight. *)
Hanging(p) == pc \in {"unlink", "link"} /\ p = name

TodoOK ==
  /\ \A i \in rest : \A p \in itab[i].names : dir[p] = i
  /\ \A p \in pend : dir[p] = vic
  /\ vic \notin rest
  /\ pc = "unlink" => dir[name] = vic
  /\ pc = "link" => dir[name] = NoInode
  /\ \A p \in pend : ~Hanging(p)

NoneNew == \A p \in Path : dir0[p] = NoInode => dir[p] = NoInode

Replaced ==
  ~dryrun => \A i \in merged \ kept : \A p \in itab[i].names :
    \/ i \in rest \/ p \in pend \/ Hanging(p)
    \/ dir[p] \in kept /\ SameFile(node0[dir[p]], node0[i])

Calm == touched = {} /\ pc \notin Ended

CalmOK ==
  Calm =>
    /\ pc \in Merging => TodoOK
    /\ pc \notin Merging => rest = {} /\ pend = {}
    /\ NoneNew /\ Replaced

TidyInv == LinksFit /\ NamesAre /\ CalmOK

LEMMA InitTidy == MergeInit => TidyInv
BY DEF MergeInit, FileSystemInit, TidyInv, LinksFit, NamesAre, CalmOK, Calm, Ended

LEMMA NextLinks ==
  ASSUME IInv, LinksFit, [MergeNext]_mergeVars
  PROVE  LinksFit'
<1>0. FileSystemTypeOK
  BY DEF IInv, TypeOK
<1>1. CASE UNCHANGED dir
  BY <1>1 DEF LinksFit, Names
<1>2. CASE Others
  BY <1>0, <1>2, LiveChangeLinks DEF Others
<1>3. CASE UnlinkPath(name)
  <2>1. \A j \in Inode, p \in Path : dir'[p] = j => dir[p] = j
    BY <1>0, <1>3 DEF UnlinkPath, FileSystemTypeOK
  <2> QED
    BY <2>1, FewerNames DEF LinksFit
<1>4. CASE pc = "link" /\ CanLink(BasePath, name) /\ LinkPath(BasePath, name)
  <2>1. BasePath \in Path /\ name \in Path
    BY <1>4, InFlight DEF NameIsVictim
  <2> QED
    BY <1>0, <1>4, <2>1, LinkedNames DEF FileSystemTypeOK
<1>5. UNCHANGED dir \/ Others \/ UnlinkPath(name)
      \/ (pc = "link" /\ CanLink(BasePath, name) /\ LinkPath(BasePath, name))
  BY DEF MergeNext, MergeStep, StartRun, DoDedup, Call, NextVictim, NextPath, Unlink, Link,
         Return, Abort, Finish, Kill, Terminated, mergeVars, fsVars
<1> QED
  BY <1>1, <1>2, <1>3, <1>4, <1>5

(* Each kind of step changes what it must. *)
LEMMA StartTidy ==
  ASSUME IInv, StartRun
  PROVE  NamesAre' /\ CalmOK'
<1>1. /\ itab' \in Scan /\ dir0' = dir /\ node0' = node /\ dir' = dir /\ pc' = "ready"
      /\ rest' = {} /\ pend' = {} /\ merged' = {} /\ pc' \notin Merging
  BY DEF StartRun, Merging
<1>2. ASSUME NEW i \in Inode PROVE itab'[i].names = Recorded(i)
  <2>1. itab'[i] \in EntriesOf(i)
    BY <1>1 DEF Scan
  <2>2. CASE Recorded(i) = {}
    BY <2>1, <2>2 DEF EntriesOf, NoEntry
  <2>3. CASE Recorded(i) # {}
    BY <2>1, <2>3 DEF EntriesOf
  <2> QED
    BY <2>2, <2>3
<1>3. NamesAre'
  BY <1>1, <1>2 DEF NamesAre, NamesThen, Recorded, Names
<1>4. NoneNew' /\ Replaced'
  BY <1>1 DEF NoneNew, Replaced
<1> QED
  BY <1>1, <1>3, <1>4 DEF CalmOK

LEMMA CallTidy ==
  ASSUME IInv, CalmOK, Calm, NEW C \in SUBSET Inode, DoDedup(C)
  PROVE  CalmOK'
<1>1. PICK b \in C : base' = b /\ rest' = C \ {b} /\ kept' = kept \cup {b}
  BY DEF DoDedup, Call, Oldest
<1>2. /\ pc = "ready" /\ pc' = "merge" /\ merged' = merged \cup C /\ pend' = {}
      /\ vic' = NoInode /\ C \cap merged = {} /\ rest = {} /\ pend = {}
      /\ UNCHANGED <<dir, dir0, node0, touched, itab, dryrun>>
  BY DEF DoDedup, Call, Mergeable, fsVars, history, CalmOK, Merging
<1>3. ASSUME NEW i \in C, NEW p \in itab[i].names PROVE dir[p] = i
  <2>1. p \in Path /\ dir0[p] = i
    BY DEF IInv, ItabMatches, TypeOK, Entry
  <2> QED
    BY <1>2, <2>1 DEF IInv, HeldIntact, Held, Calm
<1>4. TodoOK'
  BY <1>1, <1>2, <1>3 DEF TodoOK, Hanging
<1>5. NoneNew'
  BY <1>2 DEF CalmOK, NoneNew
<1>6. Replaced'
  <2> SUFFICES ASSUME ~dryrun, NEW i \in merged' \ kept', i \notin rest', NEW p \in itab[i].names
               PROVE  dir[p] \in kept' /\ SameFile(node0[dir[p]], node0[i])
    BY <1>2 DEF Replaced, SameFile
  <2>1. i \in merged \ kept
    BY <1>1, <1>2
  <2>2. ~Hanging(p)
    BY <1>2 DEF Hanging
  <2> QED
    BY <1>1, <1>2, <2>1, <2>2 DEF CalmOK, Replaced
<1> QED
  BY <1>2, <1>4, <1>5, <1>6 DEF CalmOK, Merging

LEMMA NextVictimTidy ==
  ASSUME IInv, CalmOK, Calm, NextVictim
  PROVE  CalmOK'
<1>1. PICK v \in rest : vic' = v /\ rest' = rest \ {v} /\ pend' = itab[v].names
  BY DEF NextVictim, Oldest
<1>2. /\ pc = "merge" /\ pc' = "merge" /\ pend = {} /\ TodoOK /\ NoneNew /\ Replaced
      /\ UNCHANGED <<dir, dir0, node0, touched, itab, dryrun, merged, kept, name>>
  BY DEF NextVictim, tables, fsVars, history, CalmOK, Merging
<1>3. TodoOK'
  BY <1>1, <1>2 DEF TodoOK, Hanging
<1>4. NoneNew'
  BY <1>2 DEF NoneNew
<1>5. Replaced'
  BY <1>1, <1>2 DEF Replaced, Hanging, SameFile
<1> QED
  BY <1>2, <1>3, <1>4, <1>5 DEF CalmOK, Merging

LEMMA NextPathTidy ==
  ASSUME IInv, CalmOK, Calm, NextPath
  PROVE  CalmOK' /\ pc' # "failed"
<1>0. PICK p \in NextPaths : NextPath!2!(p)
  BY DEF NextPath, Uncounted, AfterCount
<1>1. /\ p \in pend /\ name' = p /\ pend' = pend \ {p}
      /\ pc' = "failed" => ~Exists(p)
      /\ pc' \in {"failed", AfterCount}
  BY <1>0 DEF NextPaths, AfterCount
<1>2. /\ pc = "merge" /\ TodoOK /\ NoneNew /\ Replaced
      /\ UNCHANGED <<dir, dir0, node0, touched, itab, dryrun, merged, kept, rest, vic>>
  BY DEF NextPath, tables, fsVars, history, CalmOK, Merging
<1>3. dir[p] = vic /\ vic \in Inode
  BY <1>1, <1>2 DEF TodoOK, IInv, ClusterSound
<1>4. pc' # "failed" /\ pc' = IF dryrun THEN "merge" ELSE "unlink"
  BY <1>1, <1>3 DEF Exists, AfterCount
<1>5. TodoOK'
  BY <1>1, <1>2, <1>3, <1>4 DEF TodoOK, Hanging
<1>6. NoneNew'
  BY <1>2 DEF NoneNew
<1>7. Replaced'
  BY <1>1, <1>2, <1>4 DEF Replaced, Hanging, SameFile
<1> QED
  BY <1>4, <1>5, <1>6, <1>7 DEF CalmOK, Merging

LEMMA UnlinkTidy ==
  ASSUME IInv, CalmOK, Calm, Unlink
  PROVE  CalmOK' /\ pc' # "failed"
<1>1. /\ pc = "unlink" /\ TodoOK /\ NoneNew /\ Replaced
      /\ UNCHANGED <<dir0, node0, touched, itab, dryrun, merged, kept, rest, pend, vic, name>>
  BY DEF Unlink, tables, cluster, history, CalmOK, Merging
<1>2. NameIsVictim /\ vic \in Inode /\ dir[name] = vic
  BY <1>1, InFlight DEF TodoOK, NameIsVictim, Victim, IInv, TypeOK
<1>3. CanUnlink(name)
  BY <1>2 DEF CanUnlink, Exists
<1>4. /\ pc' = "link" /\ name \in Path
      /\ dir'[name] = NoInode /\ \A p \in Path : p # name => dir'[p] = dir[p]
  BY <1>2, <1>3 DEF Unlink, UnlinkPath, NameIsVictim, IInv, TypeOK, FileSystemTypeOK
<1>5. pend \subseteq Path /\ \A i \in rest : i \in Inode /\ itab[i].names \subseteq Path
  BY DEF IInv, TypeOK, Entry
<1>6. TodoOK'
  <2>1. \A i \in rest : \A p \in itab[i].names : p # name
    BY <1>1, <1>2 DEF TodoOK
  <2>2. \A p \in pend : p # name
    BY <1>1 DEF TodoOK, Hanging
  <2> QED
    BY <1>1, <1>4, <1>5, <2>1, <2>2 DEF TodoOK, Hanging
<1>7. NoneNew'
  BY <1>1, <1>4 DEF NoneNew
<1>8. Replaced'
  <2> SUFFICES ASSUME ~dryrun, NEW i \in merged \ kept, NEW p \in itab[i].names,
                      i \notin rest, p \notin pend, p # name
               PROVE  dir'[p] \in kept /\ SameFile(node0[dir'[p]], node0[i])
    BY <1>1, <1>4 DEF Replaced, Hanging, SameFile
  <2>1. p \in Path
    BY DEF IInv, TypeOK, Entry
  <2> QED
    BY <1>1, <1>4, <2>1 DEF Replaced, Hanging
<1> QED
  BY <1>4, <1>6, <1>7, <1>8 DEF CalmOK, Merging

LEMMA LinkTidy ==
  ASSUME IInv, LinksFit, CalmOK, Calm, Link
  PROVE  /\ pc' # "failed" => CalmOK'
         /\ pc' = "failed" => Cardinality(Names(base)) = MaxLinks
<1>1. /\ pc = "link" /\ TodoOK /\ NoneNew /\ Replaced
      /\ UNCHANGED <<dir0, node0, touched, itab, dryrun, merged, kept, base, rest, pend, vic, name>>
  BY DEF Link, tables, cluster, history, CalmOK, Merging
<1>2. NameIsVictim /\ vic \in Inode /\ dir[name] = NoInode
  BY <1>1, InFlight DEF TodoOK, NameIsVictim, Victim, IInv, TypeOK
<1>3. dir[BasePath] = base /\ base \in Inode
  BY <1>2 DEF NameIsVictim, IInv, HeldIntact, Held, Calm, TypeOK
<1>4. CASE ~CanLink(BasePath, name)
  <2>1. ~(Cardinality(Names(base)) < MaxLinks)
    BY <1>2, <1>3, <1>4 DEF CanLink, Exists
  <2>2. Cardinality(Names(base)) \in Nat /\ Cardinality(Names(base)) <= MaxLinks
    BY <1>3, NamesCount DEF LinksFit
  <2> QED
    BY <1>4, <2>1, <2>2 DEF Link
<1>5. CASE CanLink(BasePath, name)
  <2>1. /\ pc' = "merge" /\ name \in Path
        /\ dir'[name] = base /\ \A p \in Path : p # name => dir'[p] = dir[p]
    BY <1>2, <1>3, <1>5 DEF Link, LinkPath, NameIsVictim, IInv, TypeOK, FileSystemTypeOK
  <2>2. pend \subseteq Path /\ \A i \in rest : i \in Inode /\ itab[i].names \subseteq Path
    BY DEF IInv, TypeOK, Entry
  <2>3. TodoOK'
    <3>1. \A i \in rest : \A p \in itab[i].names : p # name
      BY <1>1, <1>2, <2>2 DEF TodoOK
    <3>2. \A p \in pend : p # name
      BY <1>1 DEF TodoOK, Hanging
    <3> QED
      BY <1>1, <2>1, <2>2, <3>1, <3>2 DEF TodoOK, Hanging
  <2>4. NoneNew'
    BY <1>1, <1>2, <2>1 DEF NoneNew, NameIsVictim
  <2>5. base \in kept /\ SameFile(node0[base], node0[vic])
    BY <1>2 DEF NameIsVictim, Victim, Calm, SameFile
  <2>6. Replaced'
    <3> SUFFICES ASSUME ~dryrun, NEW i \in merged \ kept, NEW p \in itab[i].names,
                        i \notin rest, p \notin pend
                 PROVE  dir'[p] \in kept /\ SameFile(node0[dir'[p]], node0[i])
      BY <1>1, <2>1 DEF Replaced, Hanging, SameFile
    <3>1. p \in Path /\ dir0[p] = i
      BY DEF IInv, ItabMatches, TypeOK, Entry
    <3>2. CASE p = name
      BY <1>2, <2>1, <2>5, <3>1, <3>2 DEF NameIsVictim
    <3>3. CASE p # name
      BY <1>1, <2>1, <3>1, <3>3 DEF Replaced, Hanging
    <3> QED
      BY <3>2, <3>3
  <2> QED
    BY <2>1, <2>3, <2>4, <2>6 DEF CalmOK, Merging
<1> QED
  BY <1>4, <1>5

(* A run that is undisturbed after a step was so before it, and none of the steps that  *)
(* end a run otherwise was taken.                                                         *)
LEMMA CalmBefore ==
  ASSUME IInv, [MergeNext]_mergeVars, ~StartRun, Calm'
  PROVE  Calm /\ ~Others /\ ~Abort /\ ~Kill /\ pc' # "failed"
<1>1. ~Others
  BY LiveChangeTouches DEF Others, Calm, IInv, TypeOK
<1>2. touched' = touched
  BY <1>1 DEF MergeNext, MergeStep, DoDedup, Call, NextVictim, NextPath, Unlink, Link, Return,
              Abort, Finish, Kill, Terminated, mergeVars, fsVars
<1>3. pc \notin Ended
  BY <1>1 DEF MergeNext, MergeStep, DoDedup, Call, NextVictim, NextPath, Unlink, Link, Return,
              Abort, Finish, Kill, Terminated, mergeVars, Stopped, Calm, Ended
<1>4. ~Abort /\ ~Kill /\ pc' # "failed"
  BY DEF Abort, Kill, Calm, Ended
<1> QED
  BY <1>1, <1>2, <1>3, <1>4 DEF Calm

(* The invariant is kept, and only link(2) fails, for the reason given. *)
LEMMA NextTidy ==
  ASSUME IInv, TidyInv, [MergeNext]_mergeVars
  PROVE  /\ TidyInv'
         /\ touched = {} /\ MergeStep /\ pc' = "failed" =>
              base \in Inode /\ Cardinality(Names(base)) = MaxLinks /\ UNCHANGED <<dir, base>>
<1>1. LinksFit'
  BY NextLinks DEF TidyInv
<1>2. CASE StartRun
  <2>1. pc' # "failed"
    BY <1>2 DEF StartRun
  <2> QED
    BY <1>1, <1>2, <2>1, StartTidy DEF TidyInv
<1>3. CASE ~StartRun
  <2>1. NamesAre'
    <3>1. UNCHANGED <<itab, node0, dir0>> /\ (pc' # "idle" => pc # "idle")
      <4>1. CASE Others
        <5>1. UNCHANGED <<itab, pc>>
          BY <4>1 DEF Others, tables
        <5> QED
          BY <4>1, <5>1, LiveChangeFrame DEF Others, OthersFrame, history, IInv, TypeOK
      <4>2. CASE ~Others
        BY <1>3, <4>2
           DEF MergeNext, MergeStep, DoDedup, Call, NextVictim, NextPath, Unlink, Link, Return,
               Abort, Finish, Kill, Terminated, mergeVars, fsVars, tables, history, Stopped
      <4> QED
        BY <4>1, <4>2
    <3> QED
      BY <3>1 DEF TidyInv, NamesAre, NamesThen
  <2>2. CASE ~Calm'
    <3>1. CalmOK'
      BY <2>2 DEF CalmOK
    <3>2. ASSUME touched = {}, MergeStep, pc' = "failed"
          PROVE  base \in Inode /\ Cardinality(Names(base)) = MaxLinks /\ UNCHANGED <<dir, base>>
      <4>1. Calm /\ CalmOK /\ LinksFit
        BY <3>2 DEF Calm, Ended, MergeStep, NextVictim, NextPath, Unlink, Link, Return, TidyInv
      <4>2. Link
        BY <3>2, <4>1, NextPathTidy, UnlinkTidy DEF MergeStep, NextVictim, Return
      <4>3. pc = "link" /\ base \in Inode
        BY <4>2, InFlight DEF Link, IInv, TypeOK, ClusterSound, Merging
      <4> QED
        BY <3>2, <4>1, <4>2, <4>3, LinkTidy DEF Link, cluster
    <3> QED
      BY <1>1, <2>1, <3>1, <3>2 DEF TidyInv
  <2>3. CASE Calm'
    <3>1. ~Others /\ Calm /\ CalmOK
      BY <1>3, <2>3, CalmBefore DEF TidyInv
    <3>2. ASSUME NEW C \in SUBSET Inode, DoDedup(C) PROVE CalmOK'
      BY <3>1, <3>2, CallTidy
    <3>3. ASSUME NextVictim \/ NextPath \/ Unlink \/ Link PROVE CalmOK'
      BY <2>3, <3>1, <3>3, NextVictimTidy, NextPathTidy, UnlinkTidy, LinkTidy
         DEF Calm, Ended, TidyInv
    <3>4. ASSUME Return \/ Finish \/ Terminated \/ UNCHANGED mergeVars PROVE CalmOK'
      <4>1. /\ UNCHANGED <<dir, dir0, node0, itab, dryrun, merged, kept, rest, pend, vic, name>>
            /\ pc' = pc \/ (pc \in {"merge", "ready"} /\ pc' \in {"ready", "done"}
                            /\ rest = {} /\ pend = {})
        BY <3>1, <3>4 DEF Return, Finish, Terminated, mergeVars, fsVars, history, tables, cluster,
                          CalmOK, Merging
      <4>2. NoneNew' /\ Replaced'
        BY <3>1, <4>1 DEF CalmOK, NoneNew, Replaced, Hanging, SameFile
      <4>3. pc' \in Merging => TodoOK'
        BY <3>1, <4>1 DEF CalmOK, TodoOK, Hanging, Merging
      <4>4. pc' \notin Merging => rest' = {} /\ pend' = {}
        BY <3>1, <4>1 DEF CalmOK, Merging
      <4> QED
        BY <4>2, <4>3, <4>4 DEF CalmOK
    <3>5. ~Abort /\ ~Kill
      BY <2>3 DEF Abort, Kill, Calm, Ended
    <3>6. CalmOK'
      BY <1>3, <3>1, <3>2, <3>3, <3>4, <3>5 DEF MergeNext, MergeStep
    <3> QED
      BY <1>1, <2>1, <2>3, <3>6 DEF TidyInv, Calm, Ended
  <2> QED
    BY <2>2, <2>3
<1> QED
  BY <1>2, <1>3

--------------------------------------------------------------------------------
(* The count of replaced paths.  Those of the inodes do_dedup is through with are counted, *)
(* but for the paths of the inode in hand that are still to come.                          *)

Counted == (UNION {itab[i].names : i \in (merged \ kept) \ rest}) \ pend

CountInv ==
  /\ pc \in Merging \cup {"ready", "done"} => files = Cardinality(Counted)
  /\ pc \in {"ready", "done"} => rest = {} /\ pend = {}
  /\ pc \in Merging => vic \notin rest

(* The paths the scan recorded are finitely many, and no two inodes share one. *)
LEMMA PathsApart ==
  ASSUME IInv
  PROVE  /\ IsFiniteSet(Counted)
         /\ \A i, j \in Inode : i # j => itab[i].names \cap itab[j].names = {}
         /\ merged \subseteq Inode /\ kept \subseteq merged
<1>1. \A i, j \in Inode : i # j => itab[i].names \cap itab[j].names = {}
  BY DEF IInv, ItabMatches
<1>2. merged \subseteq Inode /\ kept \subseteq merged
  BY DEF IInv, TypeOK, ClusterSound
<1>3. Counted \in SUBSET Path
  BY <1>2 DEF Counted, IInv, TypeOK, Entry
<1>4. IsFiniteSet(Path)
  OBVIOUS
<1> QED
  BY <1>1, <1>2, <1>3, <1>4, FS_Subset

LEMMA InitCount == MergeInit => CountInv
BY DEF MergeInit, CountInv, Merging

LEMMA CallCount ==
  ASSUME IInv, CountInv, NEW C \in SUBSET Inode, DoDedup(C)
  PROVE  CountInv'
<1>1. PICK b \in C : base' = b /\ rest' = C \ {b} /\ kept' = kept \cup {b}
  BY DEF DoDedup, Call, Oldest
<1>2. /\ pc = "ready" /\ pc' = "merge" /\ merged' = merged \cup C /\ pend' = {} /\ vic' = NoInode
      /\ C \cap merged = {} /\ rest = {} /\ pend = {} /\ UNCHANGED <<itab, files>>
  BY DEF DoDedup, Call, Mergeable, CountInv, stats
<1>3. (merged' \ kept') \ rest' = (merged \ kept) \ rest
  BY <1>1, <1>2, PathsApart
<1>4. Counted' = Counted
  BY <1>2, <1>3 DEF Counted
<1>5. NoInode \notin rest'
  BY <1>1
<1> QED
  BY <1>2, <1>4, <1>5 DEF CountInv, Merging

LEMMA NextVictimCount ==
  ASSUME IInv, CountInv, NextVictim
  PROVE  CountInv'
<1>1. PICK v \in rest : vic' = v /\ rest' = rest \ {v} /\ pend' = itab[v].names
  BY DEF NextVictim, Oldest
<1>2. /\ pc = "merge" /\ pc' = "merge" /\ pend = {}
      /\ UNCHANGED <<itab, merged, kept, files>>
  BY DEF NextVictim, tables, stats
<1>3. v \in merged \ kept
  BY <1>1, <1>2 DEF IInv, ClusterSound, Merging, Victim
<1>4. (merged \ kept) \ rest' = ((merged \ kept) \ rest) \cup {v}
  BY <1>1, <1>3
<1>5. \A i \in (merged \ kept) \ rest : itab[i].names \cap itab[v].names = {}
  BY <1>1, <1>3, PathsApart
<1>6. Counted' = Counted
  BY <1>1, <1>2, <1>4, <1>5 DEF Counted
<1> QED
  BY <1>1, <1>2, <1>6 DEF CountInv, Merging

LEMMA NextPathCount ==
  ASSUME IInv, CountInv, NextPath
  PROVE  CountInv'
<1>1. PICK p \in NextPaths : NextPath!2!(p)
  BY DEF NextPath, Uncounted, AfterCount
<1>2. /\ p \in pend /\ pend' = pend \ {p} /\ pc = "merge" /\ pc' \in {"failed", "merge", "unlink"}
      /\ pc' # "failed" => files' = files + 1
      /\ UNCHANGED <<itab, merged, kept, rest, vic>>
  BY <1>1 DEF NextPath, NextPaths, AfterCount, tables
<1>3. vic \in (merged \ kept) \ rest /\ p \in itab[vic].names
  BY <1>2 DEF IInv, ClusterSound, Victim, CountInv, Merging
<1>4. Counted' = Counted \cup {p} /\ p \notin Counted
  BY <1>2, <1>3 DEF Counted
<1>5. Cardinality(Counted \cup {p}) = Cardinality(Counted) + 1
  BY <1>4, PathsApart, FS_AddElement
<1> QED
  BY <1>2, <1>4, <1>5 DEF CountInv, Merging

LEMMA NextCount ==
  ASSUME IInv, CountInv, [MergeNext]_mergeVars
  PROVE  CountInv'
<1>1. CASE StartRun
  <2>1. /\ pc' = "ready" /\ files' = 0 /\ merged' = {} /\ rest' = {} /\ pend' = {}
    BY <1>1 DEF StartRun
  <2>2. Counted' = {}
    BY <2>1 DEF Counted
  <2>3. Cardinality({}) = 0
    BY FS_EmptySet
  <2> QED
    BY <2>1, <2>2, <2>3 DEF CountInv, Merging
<1>2. ASSUME NEW C \in SUBSET Inode, DoDedup(C) PROVE CountInv'
  BY <1>2, CallCount
<1>3. CASE NextVictim
  BY <1>3, NextVictimCount
<1>4. CASE NextPath
  BY <1>4, NextPathCount
<1>5. ASSUME UNCHANGED <<itab, merged, kept, rest, pend, vic, files>>,
             \/ pc' \in {"failed", "killed", pc}
             \/ pc \in Merging /\ pc' \in Merging
             \/ pc \in {"ready", "merge"} /\ pc' \in {"ready", "done"} /\ rest = {} /\ pend = {}
      PROVE  CountInv'
  <2>1. Counted' = Counted
    BY <1>5 DEF Counted
  <2> QED
    BY <1>5, <2>1 DEF CountInv, Merging
<1>6. CASE Unlink \/ Link \/ Return \/ Abort \/ Finish \/ Kill \/ Others \/ Terminated
           \/ UNCHANGED mergeVars
  <2>1. UNCHANGED <<itab, merged, kept, rest, pend, vic, files>>
    BY <1>6 DEF Unlink, Link, Return, Abort, Finish, Kill, Others, Terminated, mergeVars, tables,
                cluster, stats
  <2>2. \/ pc' \in {"failed", "killed", pc}
        \/ pc \in Merging /\ pc' \in Merging
        \/ pc \in {"ready", "merge"} /\ pc' \in {"ready", "done"} /\ rest = {} /\ pend = {}
    BY <1>6 DEF Unlink, Link, Return, Abort, Finish, Kill, Others, Terminated, mergeVars, Merging,
                CountInv
  <2> QED
    BY <1>5, <2>1, <2>2
<1> QED
  BY <1>1, <1>2, <1>3, <1>4, <1>6 DEF MergeNext, MergeStep

--------------------------------------------------------------------------------
(* The count of freed blocks.  Those of the inodes do_dedup is through with are counted,  *)
(* and those of the inode in hand from its first path on: that is where lstat(2) has not   *)
(* just returned it (undup.c:121).                                                         *)

Tallied == {i \in (merged \ kept) \ rest : i = vic => pend # itab[i].names}
Freed == UNION {BlocksOf(i) : i \in Tallied}

BlocksInv ==
  Calm =>
    /\ IsFiniteSet(Freed) /\ blocks = Cardinality(Freed)
    /\ \A i \in merged : Known(i)
    /\ pc \in Merging =>
         stb \notin rest /\ (vic \in Inode => (stb = vic <=> pend # itab[vic].names))

LEMMA InitBlocks == MergeInit => BlocksInv
BY DEF MergeInit, BlocksInv, Calm, Ended

LEMMA OneByMany ==
  ASSUME NEW v, NEW n \in Nat
  PROVE  IsFiniteSet({v} \X (1..n)) /\ Cardinality({v} \X (1..n)) = n
<1>1. IsFiniteSet(1..n) /\ Cardinality(1..n) = IF 1 > n THEN 0 ELSE n - 1 + 1
  BY FS_Interval, 1 \in Int, n \in Int
<1>2. Cardinality(1..n) = n
  BY <1>1
<1>3. IsFiniteSet({v}) /\ Cardinality({v}) = 1
  BY FS_Singleton
<1>4. IsFiniteSet({v} \X (1..n))
  BY <1>1, <1>3, FS_Product
<1>5. Cardinality({v} \X (1..n)) = Cardinality({v}) * Cardinality(1..n)
  BY <1>1, <1>3, FS_Product
<1> QED
  BY <1>2, <1>3, <1>4, <1>5

(* An inode adds as many blocks as it has. *)
LEMMA BlocksAdd ==
  ASSUME TypeOK, NEW S, IsFiniteSet(UNION {BlocksOf(i) : i \in S}), NEW v \in Inode \ S
  PROVE  LET old == UNION {BlocksOf(i) : i \in S}
             new == UNION {BlocksOf(i) : i \in S \cup {v}}
         IN  IsFiniteSet(new) /\ Cardinality(new) = Cardinality(old) + Len(node0[v].data)
<1> DEFINE old == UNION {BlocksOf(i) : i \in S}
           new == UNION {BlocksOf(i) : i \in S \cup {v}}
           n == Len(node0[v].data)
<1>1. n \in Nat
  BY DEF TypeOK, FileSystemTypeOK, File
<1>2. new = old \cup BlocksOf(v)
  OBVIOUS
<1>3. old \cap BlocksOf(v) = {}
  BY DEF BlocksOf
<1>4. IsFiniteSet(BlocksOf(v)) /\ Cardinality(BlocksOf(v)) = n
  BY <1>1, OneByMany DEF BlocksOf
<1>5. Cardinality({}) = 0
  BY FS_EmptySet
<1>6. IsFiniteSet(old) /\ Cardinality(old) \in Nat
  BY FS_CardinalityType
<1> HIDE DEF old, new, n
<1>7. IsFiniteSet(new) /\ Cardinality(new) = Cardinality(old) + Cardinality(BlocksOf(v)) - 0
  BY <1>2, <1>3, <1>4, <1>5, <1>6, FS_Union
<1> QED
  BY <1>1, <1>4, <1>6, <1>7 DEF old, new, n

LEMMA CallBlocks ==
  ASSUME IInv, CountInv, BlocksInv, Calm, NEW C \in SUBSET Inode, DoDedup(C)
  PROVE  BlocksInv'
<1>1. PICK b \in C : base' = b /\ rest' = C \ {b} /\ kept' = kept \cup {b} /\ stb' = b
  BY DEF DoDedup, Call, Oldest
<1>2. /\ pc = "ready" /\ pc' = "merge" /\ merged' = merged \cup C /\ pend' = {} /\ vic' = NoInode
      /\ C \cap merged = {} /\ rest = {} /\ pend = {} /\ UNCHANGED <<itab, blocks, node0>>
      /\ \A i \in C : Known(i)
  BY DEF DoDedup, Call, Mergeable, CountInv, stats, fsVars, history
<1>3. (merged' \ kept') \ rest' = (merged \ kept) \ rest
  BY <1>1, <1>2, PathsApart
<1>4. NoInode \notin merged \cup C
  BY PathsApart
<1>5. Tallied' = Tallied
  BY <1>2, <1>3, <1>4 DEF Tallied, BlocksInv, Known
<1>6. Freed' = Freed
  BY <1>2, <1>5 DEF Freed, BlocksOf
<1> QED
  BY <1>1, <1>2, <1>4, <1>6 DEF BlocksInv, Known

LEMMA NextVictimBlocks ==
  ASSUME IInv, CountInv, BlocksInv, Calm, NextVictim
  PROVE  BlocksInv'
<1>1. PICK v \in rest : vic' = v /\ rest' = rest \ {v} /\ pend' = itab[v].names
  BY DEF NextVictim, Oldest
<1>2. /\ pc = "merge" /\ pc' = "merge" /\ pend = {}
      /\ UNCHANGED <<itab, merged, kept, stb, blocks, node0>>
  BY DEF NextVictim, tables, stats, fsVars, history
<1>3. v \in merged \ kept /\ vic \notin rest
  BY <1>1, <1>2 DEF IInv, ClusterSound, Merging, Victim, CountInv
<1>4. \A i \in merged : Known(i)
  BY DEF BlocksInv
<1>5. Tallied' = Tallied
  BY <1>1, <1>2, <1>3, <1>4 DEF Tallied, Known
<1>6. Freed' = Freed
  BY <1>2, <1>5 DEF Freed, BlocksOf
<1> QED
  BY <1>1, <1>2, <1>4, <1>6 DEF BlocksInv, Known, Merging

LEMMA NextPathBlocks ==
  ASSUME IInv, TidyInv, CountInv, BlocksInv, Calm, NextPath, pc' # "failed"
  PROVE  BlocksInv'
<1>1. PICK p \in NextPaths : NextPath!2!(p)
  BY DEF NextPath, Uncounted, AfterCount
<1>2. /\ p \in pend /\ pend' = pend \ {p} /\ pc = "merge" /\ pc' \in Merging
      /\ UNCHANGED <<itab, merged, kept, rest, vic, node0>>
  BY <1>1 DEF NextPath, NextPaths, AfterCount, tables, fsVars, history, Merging
<1>3. vic \in (merged \ kept) \ rest /\ p \in itab[vic].names /\ pend \subseteq itab[vic].names
      /\ vic \in Inode
  BY <1>2 DEF IInv, ClusterSound, Victim, CountInv, Merging
<1>4. dir[p] = vic /\ node[vic] = node0[vic]
  BY <1>2, <1>3 DEF TidyInv, CalmOK, TodoOK, Calm, Merging, IInv, NodesIntact
<1>5. pend' # itab[vic].names
  BY <1>2, <1>3
<1>6. Tallied' = Tallied \cup {vic}
  BY <1>2, <1>3, <1>5 DEF Tallied
<1>7. /\ \A i \in merged' : Known(i)'
      /\ Uncounted <=> pend = itab[vic].names
      /\ stb \notin rest
  BY <1>2, <1>3 DEF BlocksInv, Known, Merging, Uncounted
<1>8. CASE Uncounted
  <2>1. stb' = vic /\ blocks' = blocks + Len(node0[vic].data)
    BY <1>1, <1>4, <1>8, ~(pc' = "failed") DEF Exists
  <2>2. vic \notin Tallied
    BY <1>7, <1>8 DEF Tallied
  <2>3. Freed' = UNION {BlocksOf(i) : i \in Tallied \cup {vic}}
    BY <1>2, <1>6 DEF Freed, BlocksOf
  <2>4. IsFiniteSet(Freed)' /\ Cardinality(Freed)' = Cardinality(Freed) + Len(node0[vic].data)
    <3>1. TypeOK /\ IsFiniteSet(UNION {BlocksOf(i) : i \in Tallied})
      BY DEF BlocksInv, Freed, IInv
    <3>2. vic \in Inode \ Tallied
      BY <1>3, <2>2
    <3>3. /\ IsFiniteSet(UNION {BlocksOf(i) : i \in Tallied \cup {vic}})
          /\ Cardinality(UNION {BlocksOf(i) : i \in Tallied \cup {vic}})
               = Cardinality(UNION {BlocksOf(i) : i \in Tallied}) + Len(node0[vic].data)
      BY ONLY <3>1, <3>2, BlocksAdd
    <3> QED
      BY <2>3, <3>3 DEF Freed
  <2> QED
    BY <1>2, <1>3, <1>5, <1>7, <2>1, <2>4 DEF BlocksInv
<1>9. CASE ~Uncounted
  <2>1. UNCHANGED <<stb, blocks>> /\ stb = vic
    BY <1>1, <1>9 DEF Uncounted
  <2>2. Freed' = Freed
    BY <1>2, <1>3, <1>6, <1>7, <1>9 DEF Tallied, Freed, BlocksOf
  <2> QED
    BY <1>2, <1>3, <1>5, <1>7, <2>1, <2>2 DEF BlocksInv
<1> QED
  BY <1>8, <1>9

LEMMA NextBlocks ==
  ASSUME IInv, TidyInv, CountInv, BlocksInv, [MergeNext]_mergeVars
  PROVE  BlocksInv'
<1>1. CASE StartRun
  <2>1. /\ blocks' = 0 /\ merged' = {} /\ pc' \notin Merging
    BY <1>1 DEF StartRun, Merging
  <2>2. Freed' = {}
    BY <2>1 DEF Freed, Tallied
  <2>3. IsFiniteSet({}) /\ Cardinality({}) = 0
    BY FS_EmptySet
  <2> QED
    BY <2>1, <2>2, <2>3 DEF BlocksInv
<1>2. CASE ~Calm'
  BY <1>2 DEF BlocksInv
<1>3. CASE Calm' /\ ~StartRun
  <2>1. Calm /\ ~Others /\ ~Abort /\ ~Kill /\ pc' # "failed"
    BY <1>3, CalmBefore
  <2>2. ASSUME NEW C \in SUBSET Inode, DoDedup(C) PROVE BlocksInv'
    BY <2>1, <2>2, CallBlocks
  <2>3. CASE NextVictim
    BY <2>1, <2>3, NextVictimBlocks
  <2>4. CASE NextPath
    BY <2>1, <2>4, NextPathBlocks
  <2>5. CASE Unlink \/ Link \/ Return \/ Finish \/ Terminated \/ UNCHANGED mergeVars
    <3>1. /\ UNCHANGED <<itab, merged, kept, rest, pend, vic, stb, blocks, node0>>
          /\ pc' \in Merging => pc \in Merging
      BY <2>1, <2>5 DEF Unlink, Link, Return, Finish, Terminated, mergeVars, fsVars, history, tables,
                        cluster, stats, Merging
    <3>2. Freed' = Freed
      BY <3>1 DEF Freed, Tallied, BlocksOf
    <3> QED
      BY <2>1, <3>1, <3>2 DEF BlocksInv, Known
  <2> QED
    BY <1>3, <2>1, <2>2, <2>3, <2>4, <2>5 DEF MergeNext, MergeStep
<1> QED
  BY <1>1, <1>2, <1>3

--------------------------------------------------------------------------------
(* The theorems. *)

(* Every reachable state satisfies the strengthening. *)
THEOREM Invariance == MergeSpec => []IInv
BY InitIInv, NextIInv, PTL DEF MergeSpec

(* Every variable of the program keeps its type; a dangling basepath would break it. *)
THEOREM TypeCorrect == MergeSpec => []TypeOK
<1>1. IInv => TypeOK
  BY DEF IInv
<1> QED BY <1>1, Invariance, PTL

(* Merging never shows a reader of an untouched file other contents, owner or  *)
(* permissions (undup.c:116-135).                                               *)
THEOREM MergeIsInvisible == MergeSpec => []UntouchedPreserved
<1>1. IInv => UntouchedPreserved
  BY DEF IInv
<1> QED BY <1>1, Invariance, PTL

(* However the program stops, one path at most is gone (undup.c:132-133). *)
THEOREM OneNameAtRisk == MergeSpec => []AtMostOneNameLost
<1>1. IInv => AtMostOneNameLost
  BY DEF IInv
<1> QED BY <1>1, Invariance, PTL

(* The default, dry-run mode changes no path (undup.c:131). *)
THEOREM DryRunChangesNoPath == MergeSpec => []DryRunReadOnly
<1>1. IInv => DryRunReadOnly
  BY DEF IInv
<1> QED BY <1>1, Invariance, PTL

(* Paths move to files no younger than theirs, and only within the tree        *)
(* (undup.c:104, 86-97).                                                        *)
THEOREM LinkedToOldest == MergeSpec => []OldestWins
<1>1. IInv => OldestWins
  BY DEF IInv
<1> QED BY <1>1, Invariance, PTL

(* Contents stay within reach while others leave the merged inodes alone: an    *)
(* untouched inode still held has all its paths, one merged away has the same    *)
(* contents under the paths of a kept one.                                      *)
THEOREM ContentSurvives == MergeSpec => []NoContentLost
<1>1. ASSUME IInv PROVE NoContentLost
  <2> USE <1>1 DEF IInv
  <2> SUFFICES ASSUME touched \cap merged = {},
                      NEW p \in Path, dir0[p] \in Inode \ touched
               PROVE  \E q \in Path : Exists(q) /\ SameFile(node[dir[q]], node0[dir0[p]])
    BY DEF NoContentLost
  <2>1. \A q \in Path : dir0[q] \in Held /\ dir0[q] \in Inode \ touched =>
          Exists(q) /\ node[dir[q]] = node0[dir0[q]]
    BY DEF HeldIntact, NodesIntact, Exists
  <2>2. CASE dir0[p] \in Held
    BY <2>1, <2>2 DEF SameFile
  <2>3. CASE dir0[p] \in merged
    <3>1. PICK k \in kept, q \in Path : SameFile(node0[dir0[p]], node0[k]) /\ dir0[q] = k
      BY <2>3 DEF KeptForMerged
    <3>2. k \in Held /\ k \in Inode \ touched
      BY <3>1 DEF Held, ClusterSound, TypeOK
    <3> QED BY <2>1, <3>1, <3>2 DEF SameFile
  <2> QED BY <2>2, <2>3 DEF Held
<1> QED BY <1>1, Invariance, PTL

(* The number of paths said to be de-duped is exact in every run that ends, whatever  *)
(* others do meanwhile: no path is counted twice or left out where lstat(2) is          *)
(* (undup.c:123-129).                                                                   *)
THEOREM FilesCounted == MergeSpec => []FilesExact
<1>1. ASSUME CountInv PROVE FilesExact
  <2>1. pc = "done" => Counted = UNION {itab[i].names : i \in merged \ kept}
    BY <1>1 DEF CountInv, Counted
  <2> QED
    BY <1>1, <2>1 DEF CountInv, FilesExact
<1> QED BY <1>1, InitIInv, NextIInv, InitCount, NextCount, PTL DEF MergeSpec

(* In a run that ends and that nobody disturbs, the storage said to be freed is that of   *)
(* the inodes given up, each counted at the first of its paths and at no other, in a dry   *)
(* run as with -e (undup.c:121-128).                                                        *)
THEOREM StorageCounted == MergeSpec => []BlocksExact
<1>1. ASSUME IInv, CountInv, BlocksInv PROVE BlocksExact
  <2>1. SUFFICES ASSUME pc = "done", touched = {}
                 PROVE  blocks = Cardinality(UNION {BlocksOf(i) : i \in merged \ kept})
    BY DEF BlocksExact
  <2>2. Calm /\ rest = {} /\ pend = {}
    BY <1>1, <2>1 DEF Calm, Ended, CountInv
  <2>3. Tallied = merged \ kept
    BY <1>1, <2>2 DEF Tallied, BlocksInv, Known
  <2> QED
    BY <1>1, <2>2, <2>3 DEF BlocksInv, Freed
<1>2. MergeSpec => [](IInv /\ CountInv)
  BY InitIInv, NextIInv, InitCount, NextCount, PTL DEF MergeSpec
<1>3. MergeSpec => [](IInv /\ CountInv /\ TidyInv)
  BY <1>2, InitTidy, NextTidy, PTL DEF MergeSpec
<1> QED
  BY <1>1, <1>3, InitBlocks, NextBlocks, PTL DEF MergeSpec
================================================================================
