---------------------------------- MODULE Dedup ----------------------------------
(***************************************************************************)
(* The whole run of undup: module DoDedup, with the clusters that the passes   *)
(* of dedup.c make out of the scanned inodes, and the hash cache they use.      *)
(* The passes are nested loops, one table of clusters per level:                *)
(*   lvl 1  dedup_pass1  over inodes of one owner, mode and size                *)
(*   lvl 2  dedup_pass2  over those with one first block                        *)
(*   lvl 3  dedup_pass3  over those with one last block                         *)
(*   lvl 4  dedup_final  over those with one hash                               *)
(* A loop reads every inode of a cluster into the table of the level below and   *)
(* runs that level before it takes the next cluster.  Files that two blocks      *)
(* cover are handed to do_dedup early.                                            *)
(***************************************************************************)
EXTENDS DoDedup, HCache

CONSTANTS
  BLKSZ,       \* bytes in a block
  HashType,    \* the hashes -5, -S and -H select
  UseCache,    \* the values of gopts.usecache to consider
  ScanOnly     \* the values of gopts.scanonly to consider

ASSUME DedupAssumption ==
  /\ \A d \in Data : d \in Seq({d[n] : n \in 1..Len(d)})
  /\ BLKSZ \in Nat \ {0} /\ UseCache \subseteq BOOLEAN /\ ScanOnly \subseteq BOOLEAN

VARIABLES
  usecache,  \* gopts.usecache
  scanonly,  \* gopts.scanonly
  cktype,    \* the hash in use
  dpc,       \* where dedup.c is, while pc = "ready"
  lvl,       \* the innermost loop that is running
  tab,       \* tab[l]: pairs of a key and an inode, in the clusters level l has left
  stp,       \* owner and size of the cluster of level 1 that is being split
  unread,    \* its or a part's inodes still to be read into tab[lvl + 1]
  cur,       \* the inode whose hash pass 3 wants
  hval       \* the hash of cur, between hash_file and hcache_put

passVars == <<dpc, lvl, tab, stp, unread, cur, hval>>
options == <<usecache, scanonly, cktype>>
dedupVars == <<mergeVars, hcVars, options, passVars>>

Levels == 1..4
NoTable == [l \in Levels |-> {}]

DedupTypeOK ==
  /\ TypeOK
  /\ HCacheTypeOK
  /\ usecache \in BOOLEAN /\ scanonly \in BOOLEAN /\ cktype \in HashType
  /\ dpc \in {"iter", "read", "get", "hash", "put", "close"}
  /\ lvl \in Levels
  /\ \A l \in Levels : \A e \in tab[l] : e[2] \in Inode
  /\ unread \subseteq Inode
  /\ dpc \in {"get", "hash", "put"} => cur \in unread /\ lvl = 3

Init ==
  /\ MergeInit
  /\ HCacheInit
  /\ usecache \in UseCache /\ scanonly \in ScanOnly /\ cktype \in HashType
  /\ dpc = "iter" /\ lvl = 1 /\ tab = NoTable /\ stp = << >>
  /\ unread = {} /\ cur = NoInode /\ hval = << >>

--------------------------------------------------------------------------------
(* Tables.                                                                      *)

Cluster(l, k) == {e[2] : e \in {x \in tab[l] : x[1] = k}}
Keys(l) == {e[1] : e \in tab[l]}

(* The clusters not skipped by "icnt < 2". *)
Several(l) == {k \in Keys(l) : Cardinality(Cluster(l, k)) >= 2}

(* duptab_sort puts the clusters of level 1 in the order of their sizes. *)
NextKeys(l) ==
  IF l = 1
    THEN {k \in Several(1) : \A j \in Several(1) : j.size <= k.size}
    ELSE Several(l)

(* Mutant: the iterator does not advance. *)
WithoutNone(l, k) == tab

(* The table once level l has gone past k. *)
Without(l, k) == [tab EXCEPT ![l] = {e \in @ : e[1] # k}]

(* Mutants of Covered: a third block is taken as read; a file of one whole block  *)
(* as unread; or any file of one.                                                  *)
CoveredByThree(l, size) ==
  (l = 2 /\ size <= BLKSZ) \/ (l = 3 /\ size <= 3 * BLKSZ) \/ l = 4
CoveredByLess(l, size) ==
  (l = 2 /\ size < BLKSZ) \/ (l = 3 /\ size <= 2 * BLKSZ) \/ l = 4

CoveredLate(l, size) == (l = 3 /\ size <= 2 * BLKSZ) \/ l = 4

(* What is read so far has all bytes of the files. *)
Covered(l, size) ==
  \/ l = 2 /\ size <= BLKSZ
  \/ l = 3 /\ size <= 2 * BLKSZ
  \/ l = 4

(* Mutant of BytesFrom: the last byte of the buffer is lost. *)
BytesFromButOne(d, n) ==
  SubSeq(d, n + 1, IF n + BLKSZ < Len(d) THEN n + BLKSZ - 1 ELSE Len(d))

(* Up to BLKSZ bytes of d after the first n. *)
BytesFrom(d, n) == SubSeq(d, n + 1, IF n + BLKSZ < Len(d) THEN n + BLKSZ ELSE Len(d))

(* What pass l reads of a file that holds d and was scanned with this size;       *)
(* nothing where it fails, on no data or on a seek before the file's start.       *)
Block(l, d, size) ==
  CASE l = 1 -> BytesFrom(d, 0)
    [] l = 2 /\ size <= 2 * BLKSZ -> BytesFrom(d, BLKSZ)
    [] l = 2 /\ size > 2 * BLKSZ -> IF Len(d) < BLKSZ THEN << >> ELSE BytesFrom(d, Len(d) - BLKSZ)

(* The bytes behind the path recorded first for inode i. *)
Reachable(i) == Exists(itab[i].first)
Bytes(i) == node[dir[itab[i].first]].data

(* Mutant of Key: the mtime is asked for when the hash is stored. *)
KeyOfNow(i) == GenKey(i, stp.owner, stp.size, node[i].mtime, cktype)

(* The cache key of the inode being hashed: size and owner are those of its       *)
(* cluster, the mtime is the recorded one.                                         *)
Key(i) == GenKey(i, stp.owner, stp.size, itab[i].mtime, cktype)

--------------------------------------------------------------------------------
(* The options of a run; -e is in StartRun. *)
GetOptions == usecache' \in UseCache /\ scanonly' \in ScanOnly /\ cktype' \in HashType

(* undup_main up to dedup_pass. *)
Start ==
  /\ StartRun
  /\ GetOptions
  /\ LET scanned == {i \in Inode : Recorded(i) # {}} IN
       /\ IF usecache'
            THEN HNewAndValidate({StatKey(i, node[i], cktype') : i \in scanned})
            ELSE UNCHANGED hcVars
       /\ tab' = [NoTable EXCEPT ![1] =
            {<<[owner |-> node[i].owner, size |-> Len(node[i].data)], i>> : i \in scanned}]
  /\ dpc' = IF scanonly' THEN "close" ELSE "iter"
  /\ lvl' = 1 /\ stp' = << >> /\ unread' = {} /\ cur' = NoInode /\ hval' = << >>

(* The next cluster of two or more: do_dedup has it, or the pass reads it. *)
NextCluster ==
  /\ pc = "ready" /\ dpc = "iter"
  /\ \E k \in NextKeys(lvl) :
       /\ tab' = Without(lvl, k)
       /\ stp' = IF lvl = 1 THEN k ELSE stp
       /\ IF Covered(lvl, stp'.size)
            THEN Call(Cluster(lvl, k)) /\ UNCHANGED <<unread, dpc>>
            ELSE unread' = Cluster(lvl, k) /\ dpc' = "read" /\ UNCHANGED mergeVars
  /\ UNCHANGED <<hcVars, options, lvl, cur, hval>>

(* Mutant of TableDone: the outermost level is taken for level 0. *)
TableDoneAtZero ==
  /\ pc = "ready" /\ dpc = "iter" /\ NextKeys(lvl) = {}
  /\ lvl' = lvl - 1
  /\ tab' = [tab EXCEPT ![lvl] = {}]
  /\ UNCHANGED <<mergeVars, hcVars, options, dpc, stp, unread, cur, hval>>

(* The level has no more clusters: back to the loop around it. *)
TableDone ==
  /\ pc = "ready" /\ dpc = "iter" /\ NextKeys(lvl) = {}
  /\ IF lvl = 1
       THEN dpc' = "close" /\ UNCHANGED lvl
       ELSE lvl' = lvl - 1 /\ UNCHANGED dpc
  /\ tab' = [tab EXCEPT ![lvl] = {}]
  /\ UNCHANGED <<mergeVars, hcVars, options, stp, unread, cur, hval>>

(* duptab_add of inode i to the table of the level below. *)
Add(key, i) ==
  /\ tab' = [tab EXCEPT ![lvl + 1] = @ \cup {<<key, i>>}]
  /\ unread' = unread \ {i}

ReadBlock(i) ==
  /\ pc = "ready" /\ dpc = "read" /\ lvl \in {1, 2} /\ i \in unread
  /\ Reachable(i)
  /\ LET block == Block(lvl, Bytes(i), stp.size) IN block # << >> /\ Add(block, i)
  /\ UNCHANGED <<mergeVars, hcVars, options, dpc, lvl, stp, cur, hval>>

(* The cluster is read: the level below goes over its parts. *)
ReadDone ==
  /\ pc = "ready" /\ dpc = "read" /\ unread = {}
  /\ lvl' = lvl + 1
  /\ dpc' = "iter"
  /\ UNCHANGED <<mergeVars, hcVars, options, tab, stp, unread, cur, hval>>

(* Pass 3 turns to inode i. *)
WantHash(i) ==
  /\ pc = "ready" /\ dpc = "read" /\ lvl = 3 /\ i \in unread
  /\ cur' = i
  /\ dpc' = IF usecache THEN "get" ELSE "hash"
  /\ UNCHANGED <<mergeVars, hcVars, options, lvl, tab, stp, unread, hval>>

(* hcache_get returns without a hash: see CacheUse!GetUndefined. *)
GetUndefined ==
  /\ pc = "ready" /\ dpc = "get" /\ GetReturnsEarly
  /\ \/ dpc' = "hash" /\ UNCHANGED <<mergeVars, hcVars>>
     \/ Kill /\ HDie /\ UNCHANGED dpc
  /\ UNCHANGED <<options, lvl, tab, stp, unread, cur, hval>>

GetHash ==
  /\ pc = "ready" /\ dpc = "get" /\ HGet
  /\ \/ /\ Hit(Key(cur))
        /\ Add(hcd[Key(cur)], cur)
        /\ dpc' = "read"
     \/ /\ ~Hit(Key(cur))
        /\ dpc' = "hash"
        /\ UNCHANGED <<tab, unread>>
  /\ UNCHANGED <<mergeVars, options, lvl, stp, cur, hval>>

HashFile ==
  /\ pc = "ready" /\ dpc = "hash" /\ Reachable(cur)
  /\ IF usecache
       THEN /\ hval' = HashOf(cktype, Bytes(cur))
            /\ dpc' = "put"
            /\ UNCHANGED <<tab, unread>>
       ELSE /\ Add(HashOf(cktype, Bytes(cur)), cur)
            /\ dpc' = "read"
            /\ UNCHANGED hval
  /\ UNCHANGED <<mergeVars, hcVars, options, lvl, stp, cur>>

PutHash ==
  /\ pc = "ready" /\ dpc = "put" /\ HPut(Key(cur), hval)
  /\ Add(hval, cur)
  /\ hval' = << >>
  /\ dpc' = "read"
  /\ UNCHANGED <<mergeVars, options, lvl, stp, cur>>

(* open(2), lseek(2) or read(2) fails, or there is no data where some must be. *)
ReadFails ==
  /\ pc = "ready"
  /\ \/ dpc = "read" /\ lvl \in {1, 2} /\ \E i \in unread :
          Reachable(i) => Block(lvl, Bytes(i), stp.size) = << >>
     \/ dpc = "hash" /\ ~Reachable(cur)
  /\ Abort /\ HExit
  /\ UNCHANGED <<options, passVars>>

(* _hcache_validate_done on behalf of the call the program is in. *)
Switch ==
  /\ pc = "ready" /\ usecache
  /\ \/ dpc = "get" /\ ~GetReturnsEarly /\ DoneClose(FALSE)
     \/ dpc = "put" /\ DoneClose(TRUE)
     \/ dpc = "close" /\ DoneClose(FALSE)
     \/ dpc \in {"get", "put", "close"} /\ DoneStep
  /\ UNCHANGED <<mergeVars, options, passVars>>

(* do_dedup goes on, and returns to the loop that called it. *)
Merge ==
  /\ MergeStep
  /\ IF pc' = "failed" THEN HExit ELSE UNCHANGED hcVars
  /\ UNCHANGED <<options, passVars>>

(* fscanner_close. *)
Close ==
  /\ dpc = "close" /\ Finish
  /\ IF usecache THEN HFree ELSE UNCHANGED hcVars
  /\ UNCHANGED <<options, passVars>>

Killed == Kill /\ HDie /\ UNCHANGED <<options, passVars>>

OtherProcesses == Others /\ UNCHANGED <<hcVars, options, passVars>>

Stays == Terminated /\ UNCHANGED <<hcVars, options, passVars>>

Step ==
  \/ NextCluster \/ TableDone
  \/ \E i \in Inode : ReadBlock(i) \/ WantHash(i)
  \/ ReadDone \/ GetUndefined \/ GetHash \/ HashFile \/ PutHash
  \/ ReadFails \/ Switch \/ Merge \/ Close

Next == Start \/ Step \/ Killed \/ OtherProcesses \/ Stays

Spec == Init /\ [][Next]_dedupVars

(* The scheduler runs the program; nobody has to start or to kill it. *)
FairSpec == Spec /\ WF_dedupVars(Step)

--------------------------------------------------------------------------------
(* Properties.                                                                  *)

(* The passes are a correct caller of do_dedup: module DoDedup, in which clusters *)
(* fall from the sky but honour Mergeable, is implemented.  No inode is handed    *)
(* over twice in a run, and the files of a cluster that others have left alone     *)
(* since the scan are the same, byte by byte, although at most two blocks and a    *)
(* hash were looked at (dedup.c:75-207).  With the cache this takes edits that         *)
(* advance the mtime, and that nobody creates or renames files during a run.           *)
DoDedupContract == MergeSpec

(* A run that ended, with nothing touched by others. *)
Undisturbed == pc = "done" /\ ~scanonly /\ touched = {}

Scanned == {i \in Inode : Known(i)}
Twins(i) == {j \in Scanned : SameFile(node0[i], node0[j])}

(* No duplicate is missed and nothing else is taken for one: the inodes given to   *)
(* do_dedup are those with a twin, in whole classes with one oldest member kept     *)
(* each ("get all the candidates (cnt > 1)", dedup.c:34-36).                         *)
DuplicatesFound ==
  Undisturbed =>
    /\ merged = {i \in Scanned : Cardinality(Twins(i)) >= 2}
    /\ \A i \in merged : Cardinality(kept \cap Twins(i)) = 1
    /\ \A i \in kept : \A j \in Twins(i) : itab[i].mtime <= itab[j].mtime

(* After a run with -e two paths of the tree with the same contents, owner and     *)
(* permissions name one inode ("replacing repeated files with hardlinks",           *)
(* undup.c:261-262).                                                                 *)
NothingLeftToMerge ==
  (Undisturbed /\ ~dryrun) =>
    \A p, q \in {r \in Tree : Exists(r) /\ node[dir[r]].data # << >>} :
      SameFile(node[dir[p]], node[dir[q]]) => dir[p] = dir[q]

(* A run that nobody disturbs ends by an error only where the oldest inode of a    *)
(* cluster has no room for another link (undup.c:133): the passes never read where  *)
(* there is nothing to read (dedup.c:131-160), nor meet a path they moved.  A          *)
(* .hcd.validate that the scan took for a file (CachesIgnored of module FScanner) is   *)
(* not in Path: that it is gone after the switch is not seen here.                      *)
FailsOnlyAtLinkLimit ==
  (pc = "failed" /\ touched = {}) =>
    base # NoInode /\ Cardinality(Names(base)) = MaxLinks

(* What the cache says of a file is the hash of what the file holds, after any       *)
(* number of runs and kills (hcache.c:79-94, dedup.c:96-103), where edits advance the  *)
(* mtime and nobody creates or renames files while a run uses it.                       *)
CacheSound ==
  Readable(hcd) =>
    \A i \in Files, t \in HashType :
      LET k == StatKey(i, node[i], t)
      IN  k \in DOMAIN hcd => hcd[k] = HashOf(t, node[i].data)

(* A read of the passes fails only at a file that others have disturbed: one that they   *)
(* have left alone since the scan is behind its first path and has the bytes the pass is   *)
(* about to read, whatever became of the others of its cluster and whatever the clusters    *)
(* before it were merged into (dedup.c:101, 131-160, 192).                                    *)
ReadsFailOnlyOnDisturbed ==
  (pc = "ready" /\ dpc \in {"read", "get", "hash"}) =>
    \A i \in unread \ touched :
      Reachable(i) /\ (lvl \in {1, 2} => Block(lvl, Bytes(i), stp.size) # << >>)

(* Every run comes to an end, by itself or by an error (dedup.c:65-211). *)
Terminates == pc \notin Stopped ~> pc \in Stopped
================================================================================
