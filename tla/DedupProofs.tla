------------------------------ MODULE DedupProofs ------------------------------
(***************************************************************************)
(* The passes of dedup.c implement module DoDedup: what they hand to do_dedup  *)
(* honours its contract, for any number of files, contents and block size.     *)
(* Others may change anything meanwhile, unless the cache is used: then edits   *)
(* must advance the mtime and nothing be created or renamed during a run.       *)
(*                                                                         *)
(* do_dedup is called with a cluster of the innermost table, which says       *)
(* nothing of what the loops around it have compared.  The invariant has that *)
(* in three parts: no inode is in two clusters, of one table or of two        *)
(* (Apart); the key of a cluster is what was read of its files (Keyed); and   *)
(* what is in a table agrees in the keys of all the tables above (Alike).     *)
(* Size, blocks and hash then determine the contents: the blocks where one or  *)
(* two of them cover a file, which are OneBlockTells and TwoBlocksTell, and    *)
(* the hash where they do not.  A hash may come from the cache, of which        *)
(* CacheInv says that it tells the truth of a file as it was at the scan.       *)
(*                                                                         *)
(* FoundInv is about a run that nobody disturbs: what is the same stays in one  *)
(* cluster until do_dedup has all of it (Together), and of what it had, each      *)
(* class of duplicates is whole and has one kept (Doubles, OneKept).  With what   *)
(* DoDedupProofs says of the paths (TidyInv) nothing is left to merge, and with    *)
(* Deep, that pass 2 reads a second block only where there is one, no read fails.   *)
(* Disturbed or not, a read never fails at a file that others have left alone.       *)
(***************************************************************************)
EXTENDS Dedup, DoDedupProofs, HCacheProofs, WellFoundedInduction

USE DedupAssumption

(* The bytes of a block are those of the file. *)
LEMMA BytesAre ==
  ASSUME NEW d \in Data, NEW m \in Nat, NEW n \in 1..Len(d), m < n, n <= m + BLKSZ
  PROVE  BytesFrom(d, m)[n - m] = d[n]
<1>1. Len(d) \in Nat
  OBVIOUS
<1> DEFINE z == IF m + BLKSZ < Len(d) THEN m + BLKSZ ELSE Len(d)
<1>2. z \in Nat /\ n <= z /\ z <= Len(d)
  BY <1>1
<1> HIDE DEF z
<1>3. d \in Seq({d[j] : j \in 1..Len(d)})
  OBVIOUS
<1>4. SubSeq(d, m + 1, z)[n - m] = d[n]
  BY <1>1, <1>2, <1>3
<1> QED
  BY <1>4 DEF BytesFrom, z

LEMMA SameBytes ==
  ASSUME NEW d \in Data, NEW e \in Data, Len(d) = Len(e),
         \A n \in 1..Len(d) : d[n] = e[n]
  PROVE  d = e
<1>1. d \in Seq({d[j] : j \in 1..Len(d)}) /\ e \in Seq({e[j] : j \in 1..Len(e)})
  OBVIOUS
<1> DEFINE S == {d[j] : j \in 1..Len(d)}
<1>2. {e[j] : j \in 1..Len(e)} = S /\ Len(d) \in Nat
  OBVIOUS
<1> HIDE DEF S
<1>3. d \in Seq(S) /\ e \in Seq(S)
  BY <1>1, <1>2 DEF S
<1>4. d \in [1..Len(d) -> S] /\ e \in [1..Len(d) -> S]
  BY <1>2, <1>3
<1> QED
  BY <1>4

(* Two files of one size whose first block is all there is, or whose first two are. *)
LEMMA OneBlockTells ==
  ASSUME NEW d \in Data, NEW e \in Data, Len(d) = Len(e), Len(d) <= BLKSZ,
         BytesFrom(d, 0) = BytesFrom(e, 0)
  PROVE  d = e
<1>1. Len(d) \in Nat
  OBVIOUS
<1>2. ASSUME NEW n \in 1..Len(d) PROVE d[n] = e[n]
  <2>1. BytesFrom(d, 0)[n - 0] = d[n] /\ BytesFrom(e, 0)[n - 0] = e[n]
    BY <1>1, BytesAre
  <2> QED
    BY <2>1
<1> QED
  BY <1>2, SameBytes

LEMMA TwoBlocksTell ==
  ASSUME NEW d \in Data, NEW e \in Data, Len(d) = Len(e), Len(d) <= 2 * BLKSZ,
         BytesFrom(d, 0) = BytesFrom(e, 0), BytesFrom(d, BLKSZ) = BytesFrom(e, BLKSZ)
  PROVE  d = e
<1>1. Len(d) \in Nat
  OBVIOUS
<1>2. ASSUME NEW n \in 1..Len(d) PROVE d[n] = e[n]
  <2>1. CASE n <= BLKSZ
    <3>1. BytesFrom(d, 0)[n - 0] = d[n] /\ BytesFrom(e, 0)[n - 0] = e[n]
      BY <1>1, <2>1, BytesAre
    <3> QED
      BY <3>1
  <2>2. CASE n > BLKSZ
    <3>1. BytesFrom(d, BLKSZ)[n - BLKSZ] = d[n] /\ BytesFrom(e, BLKSZ)[n - BLKSZ] = e[n]
      BY <1>1, <2>2, BytesAre
    <3> QED
      BY <3>1
  <2> QED
    BY <1>1, <2>1, <2>2
<1> QED
  BY <1>2, SameBytes

--------------------------------------------------------------------------------
(* What a table says of an inode others have left alone is what the scan, the blocks *)
(* and the hash of its contents say.                                                  *)
SizeKey(i) == [owner |-> node0[i].owner, size |-> Len(node0[i].data)]
First(i) == BytesFrom(node0[i].data, 0)
Second(i) == Block(2, node0[i].data, Len(node0[i].data))
Hash(i) == HashOf(cktype, node0[i].data)
Seen(l, i) == IF l = 1 THEN SizeKey(i) ELSE IF l = 2 THEN First(i) ELSE
              IF l = 3 THEN Second(i) ELSE Hash(i)

In(l, i) == (\E e \in tab[l] : e[2] = i) \/ (l = lvl + 1 /\ i \in unread)

(* The loop over a cluster, and its visits of the cache. *)
Reading == {"read", "get", "hash", "put"}

PassTypes ==
  /\ tab = [l \in Levels |-> tab[l]]
  /\ dpc \in Reading \cup {"iter", "close"} /\ lvl \in Levels
  /\ dpc \in Reading => lvl <= 3
  /\ dpc \in {"iter", "close"} => unread = {}
  /\ dpc \in {"get", "hash", "put"} => cur \in unread /\ lvl = 3
  /\ dpc \in {"get", "put"} => usecache

(* Below the running loop the tables are empty. *)
Bottom == IF dpc \in Reading THEN lvl + 1 ELSE lvl
EmptyBelow == \A l \in Levels : l > Bottom => tab[l] = {}

(* Each inode is in one cluster of one table, or in none. *)
Apart ==
  /\ \A l \in Levels : \A i : In(l, i) => i \in Inode \ merged /\ Known(i)
  /\ \A l, m \in Levels : \A i : In(l, i) /\ In(m, i) => l = m
  /\ \A l \in Levels : \A e, f \in tab[l] : e[2] = f[2] => e[1] = f[1]
  /\ \A e \in tab[lvl + 1] : lvl <= 3 => e[2] \notin unread

Keyed == \A l \in Levels : \A e \in tab[l] : e[2] \notin touched => e[1] = Seen(l, e[2])

(* Clusters are split in parts: what is in one table agrees in all keys of those above. *)
Alike ==
  \A l \in Levels : \A i \in Inode \ touched : In(l, i) =>
    /\ l >= 2 => SizeKey(i) = stp
    /\ \A j \in Inode \ touched : In(l, j) =>
         /\ l >= 3 => First(i) = First(j)
         /\ l = 4 => Second(i) = Second(j)

Passes == EmptyBelow /\ Apart /\ Keyed /\ Alike

(* The cache is used only where its hashes can be trusted. *)
Trusted == usecache \in BOOLEAN /\ (usecache => Careful)
TrustedWorld == UseCache = {FALSE} \/ Careful

PassInv == Trusted /\ (pc \notin Stopped => PassTypes /\ Passes)

DedupInv == IInv /\ PassInv

LEMMA SeenSame ==
  ASSUME UNCHANGED <<node0, cktype>>
  PROVE  \A l, i : /\ Seen(l, i)' = Seen(l, i) /\ SizeKey(i)' = SizeKey(i)
                   /\ First(i)' = First(i) /\ Second(i)' = Second(i)
BY DEF Seen, SizeKey, First, Second, Hash

(* What does not concern the passes. *)
LEMMA PassFrame ==
  ASSUME PassInv, UNCHANGED <<itab, merged, node0, options, passVars>>, touched \subseteq touched',
         pc' \notin Stopped => pc \notin Stopped
  PROVE  PassInv'
<1>1. UNCHANGED <<usecache, cktype, dpc, lvl, tab, stp, unread, cur>>
  BY DEF options, passVars
<1>2. CASE pc' \in Stopped
  BY <1>1, <1>2 DEF PassInv, Trusted
<1>3. CASE pc' \notin Stopped
  <2>1. PassTypes /\ Passes
    BY <1>3 DEF PassInv, Trusted
  <2>2. \A l, i : In(l, i)' <=> In(l, i)
    BY <1>1 DEF In
  <2>3. PassTypes' /\ EmptyBelow'
    BY <1>1, <2>1 DEF PassTypes, Passes, EmptyBelow, Bottom, Reading
  <2>4. Apart'
    BY <1>1, <2>1, <2>2 DEF Passes, Apart, Known
  <2>5. Keyed'
    BY <1>1, <2>1, SeenSame DEF Passes, Keyed
  <2>6. Alike'
    BY <1>1, <2>1, <2>2, SeenSame DEF Passes, Alike
  <2> QED
    BY <1>1, <2>1, <2>3, <2>4, <2>5, <2>6 DEF PassInv, Trusted, Passes
<1> QED
  BY <1>2, <1>3

(* A file that the scan met, others left alone and no cluster has taken is where it was. *)
LEMMA ReadsItself ==
  ASSUME IInv, NEW i \in Inode \ (touched \cup merged), Known(i)
  PROVE  dir[itab[i].first] = i /\ node[i] = node0[i]
<1>1. itab[i].first \in itab[i].names /\ itab[i].names \subseteq Tree
  BY DEF IInv, ItabMatches, TypeOK, Entry
<1>2. itab[i].first \in Path /\ dir0[itab[i].first] = i
  BY <1>1, FileSystemAssumption DEF IInv, ItabMatches
<1>3. i \in Held
  BY DEF Held
<1> QED
  BY <1>2, <1>3 DEF IInv, HeldIntact, NodesIntact

LEMMA BlocksAre ==
  ASSUME NEW d, NEW s \in Nat
  PROVE  /\ Block(1, d, s) = BytesFrom(d, 0)
         /\ s <= 2 * BLKSZ => Block(2, d, s) = BytesFrom(d, BLKSZ)
BY DEF Block

--------------------------------------------------------------------------------
(* An inode that has been read goes to the table below. *)
LEMMA AddPasses ==
  ASSUME DedupInv, NEW i \in unread, NEW key, pc = "ready", dpc \in Reading,
         i \notin touched => key = Seen(lvl + 1, i),
         Add(key, i), dpc' = "read", UNCHANGED <<mergeVars, options, lvl, stp, cur>>
  PROVE  PassInv'
<1>1. PassTypes /\ Passes /\ Trusted /\ lvl \in 1..3 /\ lvl + 1 \in Levels
  BY DEF DedupInv, PassInv, Trusted, PassTypes, Stopped, Levels
<1>2. /\ tab' = [tab EXCEPT ![lvl + 1] = @ \cup {<<key, i>>}] /\ unread' = unread \ {i}
      /\ UNCHANGED <<itab, merged, node0, touched, cktype, usecache, pc, lvl, stp, cur>>
  BY DEF Add, mergeVars, tables, fsVars, history, options
<1>3. /\ tab' = [l \in Levels |-> tab'[l]]
      /\ tab'[lvl + 1] = tab[lvl + 1] \cup {<<key, i>>}
      /\ \A l \in Levels : l # lvl + 1 => tab'[l] = tab[l]
  BY <1>1, <1>2 DEF PassTypes
<1>4. ASSUME NEW l \in Levels, NEW j PROVE In(l, j)' <=> In(l, j)
  <2>1. CASE l = lvl + 1
    <3>1. (\E e \in tab'[l] : e[2] = j) <=> (\E e \in tab[l] : e[2] = j) \/ j = i
      <4>1. <<key, i>>[2] = i
        OBVIOUS
      <4>2. tab'[l] = tab[l] \cup {<<key, i>>}
        BY <1>3, <2>1
      <4> QED
        BY <4>1, <4>2
    <3> QED
      BY <1>2, <2>1, <3>1 DEF In
  <2>2. CASE l # lvl + 1
    BY <1>2, <1>3, <2>2 DEF In
  <2> QED
    BY <2>1, <2>2
<1>5. PassTypes' /\ EmptyBelow'
  BY <1>1, <1>2, <1>3 DEF PassTypes, Passes, EmptyBelow, Bottom, Reading
<1>6. Apart'
  <2>1. \A e \in tab[lvl + 1] : e[2] \notin unread
    BY <1>1 DEF Passes, Apart
  <2>2. \A l \in Levels : \A e, f \in tab'[l] : e[2] = f[2] => e[1] = f[1]
    BY <1>1, <1>3, <2>1 DEF Passes, Apart
  <2>3. \A e \in tab'[lvl + 1] : e[2] \notin unread'
    BY <1>2, <1>3, <2>1
  <2>4. /\ \A l \in Levels : \A j : In(l, j) => j \in Inode \ merged /\ Known(j)
        /\ \A l, m \in Levels : \A j : In(l, j) /\ In(m, j) => l = m
    BY <1>1 DEF Passes, Apart
  <2>5. /\ \A l \in Levels : \A j : In(l, j)' => j \in Inode \ merged' /\ Known(j)'
        /\ \A l, m \in Levels : \A j : In(l, j)' /\ In(m, j)' => l = m
    BY <1>2, <1>4, <2>4 DEF Known
  <2> QED
    BY <1>2, <2>2, <2>3, <2>5 DEF Apart
<1>7. Keyed'
  BY <1>1, <1>2, <1>3, SeenSame DEF Passes, Keyed
<1>8. Alike'
  <2>1. Alike
    BY <1>1 DEF Passes
  <2>2. ASSUME NEW l \in Levels, NEW j \in Inode \ touched', In(l, j)'
        PROVE  /\ l >= 2 => SizeKey(j)' = stp'
               /\ \A k \in Inode \ touched' : In(l, k)' =>
                    /\ l >= 3 => First(j)' = First(k)'
                    /\ l = 4 => Second(j)' = Second(k)'
    BY <1>2, <1>4, <2>1, <2>2, SeenSame DEF Alike
  <2> QED
    BY <2>2 DEF Alike
<1> QED
  BY <1>1, <1>2, <1>5, <1>6, <1>7, <1>8 DEF PassInv, Trusted, Passes

LEMMA ReadBlockPasses ==
  ASSUME DedupInv, NEW i \in Inode, ReadBlock(i)
  PROVE  PassInv'
<1>1. /\ pc = "ready" /\ dpc = "read" /\ lvl \in {1, 2} /\ i \in unread
      /\ UNCHANGED <<mergeVars, options, dpc, lvl, stp, cur>>
      /\ Add(Block(lvl, Bytes(i), stp.size), i)
  BY DEF ReadBlock
<1>2. ASSUME i \notin touched PROVE Block(lvl, Bytes(i), stp.size) = Seen(lvl + 1, i)
  <2>1. PassTypes /\ Passes
    BY <1>1 DEF DedupInv, PassInv, Trusted, Stopped
  <2>2. In(lvl + 1, i) /\ lvl + 1 \in Levels
    BY <1>1 DEF In, Levels
  <2>3. i \notin merged /\ Known(i) /\ SizeKey(i) = stp
    BY <1>1, <1>2, <2>1, <2>2 DEF Passes, Apart, Alike
  <2>4. Bytes(i) = node0[i].data
    BY <1>2, <2>3, ReadsItself DEF Bytes, DedupInv
  <2>5. stp.size = Len(node0[i].data) /\ Len(node0[i].data) \in Nat
    BY <2>3 DEF SizeKey, DedupInv, IInv, TypeOK, FileSystemTypeOK, File
  <2> QED
    BY <1>1, <2>4, <2>5, BlocksAre DEF Seen, First, Second
<1> QED
  BY <1>1, <1>2, AddPasses DEF Reading

(* The program turns to an inode, or to another of its visits of the cache. *)
LEMMA TurnPasses ==
  ASSUME DedupInv, pc = "ready", dpc \in Reading, lvl = 3, cur' \in unread,
         dpc' \in {"get", "hash", "put"}, dpc' # "hash" => usecache,
         UNCHANGED <<mergeVars, options, lvl, tab, stp, unread>>
  PROVE  PassInv'
<1>1. PassTypes /\ Passes /\ Trusted
  BY DEF DedupInv, PassInv, Stopped
<1>2. UNCHANGED <<itab, merged, node0, touched, cktype, usecache, pc, lvl, tab, stp, unread>>
  BY DEF mergeVars, tables, fsVars, history, options
<1>3. \A l, j : In(l, j)' <=> In(l, j)
  BY <1>2 DEF In
<1>4. PassTypes' /\ EmptyBelow'
  BY <1>1, <1>2 DEF PassTypes, Passes, EmptyBelow, Bottom, Reading
<1>5. Apart'
  <2>1. /\ \A l \in Levels : \A j : In(l, j) => j \in Inode \ merged /\ Known(j)
        /\ \A l, m \in Levels : \A j : In(l, j) /\ In(m, j) => l = m
        /\ \A l \in Levels : \A e, f \in tab[l] : e[2] = f[2] => e[1] = f[1]
        /\ \A e \in tab[lvl + 1] : lvl <= 3 => e[2] \notin unread
    BY <1>1 DEF Passes, Apart
  <2> QED
    BY <1>2, <1>3, <2>1 DEF Apart, Known
<1>6. Keyed'
  BY <1>1, <1>2, SeenSame DEF Passes, Keyed
<1>7. Alike'
  BY <1>1, <1>2, <1>3, SeenSame DEF Passes, Alike
<1> QED
  BY <1>1, <1>2, <1>4, <1>5, <1>6, <1>7 DEF PassInv, Trusted, Passes

LEMMA WantHashPasses ==
  ASSUME DedupInv, NEW i \in Inode, WantHash(i)
  PROVE  PassInv'
BY TurnPasses DEF WantHash, Reading

(* The inode whose hash pass 3 is about to know. *)
LEMMA CurIs ==
  ASSUME DedupInv, pc = "ready", dpc \in {"get", "hash", "put"}
  PROVE  /\ cur \in unread /\ cur \in Inode \ merged /\ Known(cur) /\ lvl = 3
         /\ dpc \in Reading
         /\ itab[cur].mtime = node0[cur].mtime
<1>1. PassTypes /\ Passes
  BY DEF DedupInv, PassInv, Stopped
<1>2. cur \in unread /\ lvl = 3
  BY <1>1 DEF PassTypes
<1>3. In(4, cur) /\ 4 \in Levels
  BY <1>2 DEF In, Levels
<1>4. cur \in Inode \ merged /\ Known(cur)
  BY <1>1, <1>3 DEF Passes, Apart
<1> QED
  BY <1>2, <1>4 DEF Reading, DedupInv, IInv, ItabMatches

LEMMA HashFilePasses ==
  ASSUME DedupInv, HashFile
  PROVE  PassInv'
<1>1. /\ pc = "ready" /\ dpc = "hash" /\ cur \in unread /\ lvl = 3 /\ dpc \in Reading
      /\ cur \in Inode \ merged /\ Known(cur)
      /\ UNCHANGED <<mergeVars, options, lvl, stp, cur>>
  BY CurIs DEF HashFile
<1>2. CASE usecache
  BY <1>1, <1>2, TurnPasses DEF HashFile
<1>3. CASE ~usecache
  <2>1. ASSUME cur \notin touched PROVE HashOf(cktype, Bytes(cur)) = Seen(lvl + 1, cur)
    <3>1. Bytes(cur) = node0[cur].data
      BY <1>1, <2>1, ReadsItself DEF Bytes, DedupInv
    <3> QED
      BY <1>1, <3>1 DEF Seen, Hash
  <2> QED
    BY <1>1, <1>3, <2>1, AddPasses DEF HashFile
<1> QED
  BY <1>2, <1>3

--------------------------------------------------------------------------------
(* The next cluster is taken out of its table. *)

LEMMA TakenOut ==
  ASSUME PassTypes, NEW k
  PROVE  /\ Without(lvl, k) = [l \in Levels |-> Without(lvl, k)[l]]
         /\ Without(lvl, k)[lvl] = {e \in tab[lvl] : e[1] # k}
         /\ \A l \in Levels : l # lvl => Without(lvl, k)[l] = tab[l]
BY DEF PassTypes, Without

(* Its members, the untouched ones of which are alike in all that was read of them. *)
LEMMA Members ==
  ASSUME PassTypes, Passes, NEW k
  PROVE  \A i \in Cluster(lvl, k) :
           /\ In(lvl, i) /\ i \in Inode \ merged /\ Known(i)
           /\ i \notin touched => Seen(lvl, i) = k
<1> SUFFICES ASSUME NEW i \in Cluster(lvl, k)
             PROVE  /\ In(lvl, i) /\ i \in Inode \ merged /\ Known(i)
                    /\ i \notin touched => Seen(lvl, i) = k
  OBVIOUS
<1>1. PICK e \in tab[lvl] : e[1] = k /\ e[2] = i
  BY DEF Cluster
<1>2. In(lvl, i) /\ lvl \in Levels
  BY <1>1 DEF In, PassTypes
<1> QED
  BY <1>1, <1>2 DEF Passes, Apart, Keyed

LEMMA CoveredAlike ==
  ASSUME DedupInv, PassTypes, Passes, NEW k, Covered(lvl, stp.size),
         NEW i \in Cluster(lvl, k) \ touched, NEW j \in Cluster(lvl, k) \ touched
  PROVE  SameFile(node0[i], node0[j])
<1> DEFINE d == node0[i].data
           e == node0[j].data
<1>1. /\ i \in Inode /\ j \in Inode /\ In(lvl, i) /\ In(lvl, j)
      /\ Seen(lvl, i) = Seen(lvl, j)
  BY Members
<1>2. d \in Data /\ e \in Data /\ Len(d) \in Nat
  BY <1>1, FileSystemAssumption DEF DedupInv, IInv, TypeOK, FileSystemTypeOK, File
<1>3. lvl \in Levels /\ lvl >= 2
  BY DEF Covered, PassTypes, Levels
<1>4. SizeKey(i) = stp /\ SizeKey(j) = stp
  BY <1>1, <1>3 DEF Passes, Alike
<1>5. node0[i].owner = node0[j].owner /\ Len(d) = Len(e) /\ Len(d) = stp.size
  BY <1>4 DEF SizeKey
<1>6. d = e
  <2>1. CASE lvl = 2
    <3>1. First(i) = First(j) /\ Len(d) <= BLKSZ
      BY <1>1, <1>5, <2>1 DEF Seen, Covered
    <3> QED
      BY <1>2, <1>5, <3>1, OneBlockTells DEF First
  <2>2. CASE lvl = 3
    <3>1. First(i) = First(j) /\ Second(i) = Second(j) /\ Len(d) <= 2 * BLKSZ
      BY <1>1, <1>3, <1>5, <2>2 DEF Seen, Covered, Passes, Alike
    <3>2. BytesFrom(d, BLKSZ) = BytesFrom(e, BLKSZ)
      BY <1>2, <1>5, <3>1, BlocksAre DEF Second
    <3> QED
      BY <1>2, <1>5, <3>1, <3>2, TwoBlocksTell DEF First
  <2>3. CASE lvl = 4
    BY <1>1, <2>3 DEF Seen, Hash, HashOf
  <2> QED
    BY <1>3, <2>1, <2>2, <2>3 DEF Levels
<1> QED
  BY <1>5, <1>6 DEF SameFile

LEMMA CallPasses ==
  ASSUME DedupInv, NEW k \in NextKeys(lvl), pc = "ready", dpc = "iter",
         tab' = Without(lvl, k), Covered(lvl, stp.size), Call(Cluster(lvl, k)),
         UNCHANGED <<hcVars, options, dpc, lvl, stp, unread, cur>>
  PROVE  (\E C \in SUBSET Inode : DoDedup(C)) /\ PassInv'
<1> DEFINE C == Cluster(lvl, k)
<1>1. PassTypes /\ Passes /\ Trusted
  BY DEF DedupInv, PassInv, Trusted, Stopped
<1>2. \A i \in C : /\ In(lvl, i) /\ i \in Inode \ merged /\ Known(i)
                   /\ i \notin touched => Seen(lvl, i) = k
  BY <1>1, Members
<1>3. Cardinality(C) >= 2
  BY DEF NextKeys, Several
<1>4. Mergeable(C)
  BY <1>1, <1>2, <1>3, CoveredAlike DEF Mergeable
<1>5. DoDedup(C) /\ C \in SUBSET Inode
  BY <1>2, <1>4 DEF DoDedup
<1>6. /\ merged' = merged \cup C /\ pc' = "merge"
      /\ UNCHANGED <<itab, node0, touched, cktype, usecache, dpc, lvl, stp, unread, cur>>
  BY DEF Call, fsVars, history, options
<1>7. lvl \in Levels /\ unread = {}
  BY <1>1 DEF PassTypes
<1>8. /\ tab' = [l \in Levels |-> tab'[l]]
      /\ tab'[lvl] = {e \in tab[lvl] : e[1] # k}
      /\ \A l \in Levels : l # lvl => tab'[l] = tab[l]
  BY <1>1, TakenOut
<1>9. ASSUME NEW l \in Levels, NEW i, In(l, i)' PROVE In(l, i) /\ i \notin C
  <2>1. In(l, i)
    BY <1>6, <1>7, <1>8, <1>9 DEF In
  <2>2. CASE l # lvl
    BY <1>1, <1>2, <1>7, <2>1, <2>2 DEF Passes, Apart
  <2>3. CASE l = lvl
    <3>1. PICK e \in tab[lvl] : e[1] # k /\ e[2] = i
      BY <1>6, <1>7, <1>8, <1>9, <2>3 DEF In
    <3>2. \A f \in tab[lvl] : f[2] = i => f[1] # k
      BY <1>1, <1>7, <3>1 DEF Passes, Apart
    <3> QED
      BY <2>1, <3>2 DEF Cluster
  <2> QED
    BY <2>2, <2>3
<1> HIDE DEF C
<1>10. PassTypes' /\ EmptyBelow'
  BY <1>1, <1>6, <1>7, <1>8 DEF PassTypes, Passes, EmptyBelow, Bottom, Reading
<1>11. Apart'
  <2>1. /\ \A l \in Levels : \A i : In(l, i) => i \in Inode \ merged /\ Known(i)
        /\ \A l, m \in Levels : \A i : In(l, i) /\ In(m, i) => l = m
        /\ \A l \in Levels : \A e, f \in tab[l] : e[2] = f[2] => e[1] = f[1]
    BY <1>1 DEF Passes, Apart
  <2>2. \A l \in Levels : \A i : In(l, i)' => i \in Inode \ merged' /\ Known(i)'
    BY <1>6, <1>9, <2>1 DEF Known
  <2>3. \A l, m \in Levels : \A i : In(l, i)' /\ In(m, i)' => l = m
    BY <1>9, <2>1
  <2>4. \A l \in Levels : \A e, f \in tab'[l] : e[2] = f[2] => e[1] = f[1]
    BY <1>7, <1>8, <2>1
  <2>5. unread' = {}
    BY <1>6, <1>7
  <2> QED
    BY <1>6, <2>2, <2>3, <2>4, <2>5 DEF Apart
<1>12. Keyed'
  BY <1>1, <1>6, <1>8, SeenSame DEF Passes, Keyed
<1>13. Alike'
  BY <1>1, <1>6, <1>9, SeenSame DEF Passes, Alike
<1> QED
  BY <1>1, <1>5, <1>6, <1>10, <1>11, <1>12, <1>13 DEF PassInv, Trusted, Passes

LEMMA SplitPasses ==
  ASSUME DedupInv, NEW k \in NextKeys(lvl), pc = "ready", dpc = "iter",
         tab' = Without(lvl, k), stp' = IF lvl = 1 THEN k ELSE stp, ~Covered(lvl, stp'.size),
         unread' = Cluster(lvl, k), dpc' = "read",
         UNCHANGED <<mergeVars, hcVars, options, lvl, cur>>
  PROVE  PassInv'
<1> DEFINE C == Cluster(lvl, k)
<1>1. PassTypes /\ Passes /\ Trusted
  BY DEF DedupInv, PassInv, Trusted, Stopped
<1>2. \A i \in C : /\ In(lvl, i) /\ i \in Inode \ merged /\ Known(i)
                   /\ i \notin touched => Seen(lvl, i) = k
  BY <1>1, Members
<1>3. lvl \in 1..3 /\ lvl + 1 \in Levels /\ unread = {}
  BY <1>1 DEF PassTypes, Levels, Covered
<1>4. UNCHANGED <<merged, pc, itab, node0, touched, cktype, usecache, lvl, cur>>
  BY DEF mergeVars, tables, fsVars, history, options
<1>5. /\ tab' = [l \in Levels |-> tab'[l]]
      /\ tab'[lvl] = {e \in tab[lvl] : e[1] # k}
      /\ \A l \in Levels : l # lvl => tab'[l] = tab[l]
  BY <1>1, TakenOut
<1>6. \A l \in Levels : l > lvl => tab[l] = {} /\ tab'[l] = {}
  BY <1>1, <1>3, <1>5 DEF Passes, EmptyBelow, Bottom, Reading, Levels
<1>7. \A i : In(lvl + 1, i)' <=> i \in C
  BY <1>3, <1>4, <1>6 DEF In
<1>8. ASSUME NEW l \in Levels, NEW i, In(l, i)', l # lvl + 1
      PROVE  In(l, i) /\ l <= lvl /\ i \notin C
  <2>1. In(l, i) /\ l <= lvl
    BY <1>3, <1>4, <1>5, <1>6, <1>8 DEF In, Levels
  <2>2. CASE l # lvl
    BY <1>1, <1>2, <1>3, <2>1, <2>2 DEF Passes, Apart, Levels
  <2>3. CASE l = lvl
    <3>1. PICK e \in tab[lvl] : e[1] # k /\ e[2] = i
      BY <1>3, <1>4, <1>5, <1>8, <2>3 DEF In
    <3>2. \A f \in tab[lvl] : f[2] = i => f[1] # k
      BY <1>1, <1>3, <3>1 DEF Passes, Apart, Levels
    <3> QED
      BY <2>1, <3>2 DEF Cluster
  <2> QED
    BY <2>1, <2>2, <2>3
<1> HIDE DEF C
<1>9. PassTypes' /\ EmptyBelow'
  BY <1>1, <1>3, <1>4, <1>5, <1>6 DEF PassTypes, EmptyBelow, Bottom, Reading, Levels
<1>10. Apart'
  <2>1. /\ \A l \in Levels : \A i : In(l, i) => i \in Inode \ merged /\ Known(i)
        /\ \A l, m \in Levels : \A i : In(l, i) /\ In(m, i) => l = m
        /\ \A l \in Levels : \A e, f \in tab[l] : e[2] = f[2] => e[1] = f[1]
    BY <1>1 DEF Passes, Apart
  <2>2. \A l \in Levels : \A i : In(l, i)' => i \in Inode \ merged' /\ Known(i)'
    BY <1>2, <1>4, <1>7, <1>8, <2>1 DEF Known
  <2>3. \A l, m \in Levels : \A i : In(l, i)' /\ In(m, i)' => l = m
    BY <1>7, <1>8, <2>1
  <2>4. \A l \in Levels : \A e, f \in tab'[l] : e[2] = f[2] => e[1] = f[1]
    BY <1>5, <2>1
  <2>5. tab'[lvl + 1] = {}
    BY <1>3, <1>6
  <2> QED
    BY <1>4, <2>2, <2>3, <2>4, <2>5 DEF Apart
<1>11. Keyed'
  BY <1>1, <1>4, <1>5, SeenSame DEF Passes, Keyed
<1>12. Alike'
  <2>1. Alike
    BY <1>1 DEF Passes
  <2>2. ASSUME NEW i \in C \ touched PROVE SizeKey(i) = stp'
    BY <1>2, <1>3, <2>1, <2>2 DEF Alike, Seen, Levels
  <2>3. ASSUME NEW i \in C \ touched, NEW j \in C \ touched
        PROVE  /\ lvl >= 2 => First(i) = First(j)
               /\ lvl = 3 => Second(i) = Second(j)
    BY <1>2, <1>3, <2>1, <2>3 DEF Alike, Seen, Levels
  <2>4. ASSUME NEW l \in Levels, NEW i \in Inode \ touched', In(l, i)'
        PROVE  /\ l >= 2 => SizeKey(i)' = stp'
               /\ \A j \in Inode \ touched' : In(l, j)' =>
                    /\ l >= 3 => First(i)' = First(j)'
                    /\ l = 4 => Second(i)' = Second(j)'
    <3>1. CASE l = lvl + 1
      <4>1. i \in C \ touched /\ (l >= 3 => lvl >= 2) /\ (l = 4 => lvl = 3)
        BY <1>3, <1>4, <1>7, <2>4, <3>1
      <4>2. \A j \in Inode \ touched' : In(l, j)' => j \in C \ touched
        BY <1>4, <1>7, <3>1
      <4> QED
        BY <1>4, <2>2, <2>3, <4>1, <4>2, SeenSame
    <3>2. CASE l # lvl + 1
      <4>1. l >= 2 => stp' = stp
        BY <1>3, <1>8, <2>4, <3>2 DEF Levels
      <4> QED
        BY <1>4, <1>8, <2>1, <2>4, <3>2, <4>1, SeenSame DEF Alike
    <3> QED
      BY <3>1, <3>2
  <2> QED
    BY <2>4 DEF Alike
<1> QED
  BY <1>1, <1>4, <1>9, <1>10, <1>11, <1>12 DEF PassInv, Trusted, Passes

LEMMA NextClusterPasses ==
  ASSUME DedupInv, NextCluster
  PROVE  [MergeNext]_mergeVars /\ PassInv'
<1>1. PICK k \in NextKeys(lvl) :
        /\ tab' = Without(lvl, k)
        /\ stp' = IF lvl = 1 THEN k ELSE stp
        /\ IF Covered(lvl, stp'.size)
             THEN Call(Cluster(lvl, k)) /\ UNCHANGED <<unread, dpc>>
             ELSE unread' = Cluster(lvl, k) /\ dpc' = "read" /\ UNCHANGED mergeVars
  BY DEF NextCluster
<1>2. /\ pc = "ready" /\ dpc = "iter"
      /\ UNCHANGED <<hcVars, options, lvl, cur>>
  BY DEF NextCluster
<1>3. CASE Covered(lvl, stp'.size)
  <2>1. stp' = stp
    BY <1>1, <1>3 DEF Covered
  <2>2. (\E C \in SUBSET Inode : DoDedup(C)) /\ PassInv'
    BY <1>1, <1>2, <1>3, <2>1, CallPasses
  <2> QED
    BY <2>2 DEF MergeNext
<1>4. CASE ~Covered(lvl, stp'.size)
  BY <1>1, <1>2, <1>4, SplitPasses
<1> QED
  BY <1>3, <1>4

(* The steps up and down the loops, and to the next inode. *)
LEMMA TableDonePasses ==
  ASSUME DedupInv, TableDone
  PROVE  PassInv'
<1>1. PassTypes /\ Passes /\ Trusted
  BY DEF DedupInv, PassInv, Trusted, Stopped, TableDone
<1>2. /\ dpc = "iter" /\ unread = {} /\ tab' = [tab EXCEPT ![lvl] = {}]
      /\ UNCHANGED <<itab, merged, node0, touched, cktype, usecache, pc, stp, unread, cur>>
      /\ lvl \in Levels /\ lvl' \in Levels /\ lvl' <= lvl /\ dpc' \in {"iter", "close"}
      /\ lvl = 1 => lvl' = 1
      /\ lvl > 1 => lvl' = lvl - 1
  BY <1>1 DEF TableDone, PassTypes, mergeVars, tables, fsVars, history, options, Levels
<1>3. /\ tab' = [l \in Levels |-> tab'[l]] /\ tab'[lvl] = {}
      /\ \A l \in Levels : l # lvl => tab'[l] = tab[l]
  BY <1>1, <1>2 DEF PassTypes
<1>4. \A l \in Levels : \A i : In(l, i)' => In(l, i)
  BY <1>2, <1>3 DEF In
<1>5. PassTypes' /\ EmptyBelow'
  BY <1>1, <1>2, <1>3 DEF PassTypes, Passes, EmptyBelow, Bottom, Reading, Levels
<1>6. Apart'
  <2>1. /\ \A l \in Levels : \A i : In(l, i) => i \in Inode \ merged /\ Known(i)
        /\ \A l, m \in Levels : \A i : In(l, i) /\ In(m, i) => l = m
        /\ \A l \in Levels : \A e, f \in tab[l] : e[2] = f[2] => e[1] = f[1]
    BY <1>1 DEF Passes, Apart
  <2>2. \A l \in Levels : \A i : In(l, i)' => i \in Inode \ merged' /\ Known(i)'
    BY <1>2, <1>4, <2>1 DEF Known
  <2>3. \A l, m \in Levels : \A i : In(l, i)' /\ In(m, i)' => l = m
    BY <1>4, <2>1
  <2>4. \A l \in Levels : \A e, f \in tab'[l] : e[2] = f[2] => e[1] = f[1]
    BY <1>2, <1>3, <2>1
  <2> QED
    BY <1>2, <2>2, <2>3, <2>4 DEF Apart
<1>7. Keyed'
  BY <1>1, <1>2, <1>3, SeenSame DEF Passes, Keyed
<1>8. Alike'
  <2>1. Alike
    BY <1>1 DEF Passes
  <2>2. ASSUME NEW l \in Levels, NEW j \in Inode \ touched', In(l, j)'
        PROVE  /\ l >= 2 => SizeKey(j)' = stp'
               /\ \A k \in Inode \ touched' : In(l, k)' =>
                    /\ l >= 3 => First(j)' = First(k)'
                    /\ l = 4 => Second(j)' = Second(k)'
    BY <1>2, <1>4, <2>1, <2>2, SeenSame DEF Alike
  <2> QED
    BY <2>2 DEF Alike
<1> QED
  BY <1>1, <1>2, <1>5, <1>6, <1>7, <1>8 DEF PassInv, Trusted, Passes

LEMMA ReadDonePasses ==
  ASSUME DedupInv, ReadDone
  PROVE  PassInv'
<1>1. PassTypes /\ Passes /\ Trusted
  BY DEF DedupInv, PassInv, Trusted, Stopped, ReadDone
<1>2. /\ unread = {} /\ lvl \in 1..3 /\ lvl' = lvl + 1 /\ dpc = "read" /\ dpc' = "iter"
      /\ UNCHANGED <<itab, merged, node0, touched, cktype, usecache, pc, tab, stp, unread, cur>>
  BY <1>1 DEF ReadDone, PassTypes, mergeVars, tables, fsVars, history, options, Levels
<1>3. \A l, i : In(l, i)' <=> In(l, i)
  BY <1>2 DEF In
<1>4. PassTypes' /\ EmptyBelow'
  BY <1>1, <1>2 DEF PassTypes, Passes, EmptyBelow, Bottom, Reading, Levels
<1>5. Apart'
  <2>1. /\ \A l \in Levels : \A i : In(l, i) => i \in Inode \ merged /\ Known(i)
        /\ \A l, m \in Levels : \A i : In(l, i) /\ In(m, i) => l = m
        /\ \A l \in Levels : \A e, f \in tab[l] : e[2] = f[2] => e[1] = f[1]
    BY <1>1 DEF Passes, Apart
  <2> QED
    BY <1>2, <1>3, <2>1 DEF Apart, Known
<1>6. Keyed'
  BY <1>1, <1>2, SeenSame DEF Passes, Keyed
<1>7. Alike'
  BY <1>1, <1>2, <1>3, SeenSame DEF Passes, Alike
<1> QED
  BY <1>1, <1>2, <1>4, <1>5, <1>6, <1>7 DEF PassInv, Trusted, Passes

LEMMA FirstTable ==
  ASSUME NEW T, Trusted', pc' = "ready", dpc' \in {"iter", "close"}, lvl' = 1,
         unread' = {}, merged' = {}, tab' = [NoTable EXCEPT ![1] = T],
         \A e \in T : e[2] \in Inode /\ Known(e[2])' /\ e[1] = SizeKey(e[2])'
  PROVE  PassInv'
<1>1. /\ tab' = [l \in Levels |-> tab'[l]] /\ tab'[1] = T
      /\ \A l \in Levels : l # 1 => tab'[l] = {}
  <2>1. tab' = [l \in Levels |-> IF l = 1 THEN T ELSE {}]
    BY DEF NoTable
  <2>2. 1 \in Levels
    BY DEF Levels
  <2>3. \A l \in Levels : tab'[l] = IF l = 1 THEN T ELSE {}
    BY <2>1
  <2>4. tab' = [l \in Levels |-> tab'[l]]
    BY <2>1
  <2> QED
    BY <2>2, <2>3, <2>4
<1>2. \A l \in Levels : \A i : In(l, i)' => l = 1 /\ (\E e \in T : e[2] = i)
  BY <1>1 DEF In
<1>3. PassTypes' /\ EmptyBelow'
  BY <1>1 DEF PassTypes, EmptyBelow, Bottom, Reading, Levels
<1>4. Apart'
  <2>1. \A l \in Levels : \A e, f \in tab'[l] : e[2] = f[2] => e[1] = f[1]
    BY <1>1
  <2> QED
    BY <1>2, <2>1 DEF Apart
<1>5. Keyed'
  BY <1>1 DEF Keyed, Seen
<1>6. Alike'
  BY <1>2 DEF Alike
<1> QED
  BY <1>3, <1>4, <1>5, <1>6 DEF PassInv, Trusted, Passes

LEMMA StartPasses ==
  ASSUME TrustedWorld, Start
  PROVE  PassInv'
<1> DEFINE scanned == {i \in Inode : Recorded(i) # {}}
           T == {<<[owner |-> node[i].owner, size |-> Len(node[i].data)], i>> : i \in scanned}
<1>1. /\ Trusted' /\ pc' = "ready" /\ merged' = {} /\ node0' = node
      /\ itab' \in Scan /\ lvl' = 1 /\ unread' = {} /\ dpc' \in {"iter", "close"}
      /\ tab' = [NoTable EXCEPT ![1] = T]
  BY DEF Start, StartRun, GetOptions, Trusted, TrustedWorld
<1>2. ASSUME NEW e \in T
      PROVE  e[2] \in Inode /\ Known(e[2])' /\ e[1] = SizeKey(e[2])'
  <2>1. PICK i \in scanned : e = <<[owner |-> node[i].owner, size |-> Len(node[i].data)], i>>
    OBVIOUS
  <2>2. itab'[i].names = Recorded(i)
    BY <1>1 DEF Scan, EntriesOf
  <2> QED
    BY <1>1, <2>1, <2>2 DEF Known, SizeKey
<1> QED
  BY <1>1, <1>2, FirstTable

--------------------------------------------------------------------------------
(* The cache.  A hash it returns is that of the file for which pass 3 asks, if the    *)
(* file is what it was at the scan: the key has the mtime of then.                     *)

TimesPast == \A i \in Inode : node0[i].mtime <= node[i].mtime

(* The path recorded first for an inode still to be merged leads to no other. *)
NamesStay == \A i \in Inode \ merged : Known(i) => dir[itab[i].first] \in {i, NoInode}

HashWaits ==
  (pc \notin Stopped /\ dpc = "put" /\ node0[cur].mtime = node[cur].mtime)
    => hval = HashOf(cktype, node[cur].data)

CacheInv ==
  /\ Databases
  /\ pc \notin Stopped => TimesPast /\ NamesStay
  /\ HashWaits

LEMMA KeyIs ==
  ASSUME NEW i
  PROVE  Key(i).inode = i /\ Key(i).mtime = itab[i].mtime /\ Key(i).cktype = cktype
BY DEF Key, GenKey

LEMMA GetHashPasses ==
  ASSUME DedupInv, CacheInv, GetHash
  PROVE  PassInv'
<1>1. /\ pc = "ready" /\ dpc = "get" /\ cur \in unread /\ lvl = 3 /\ dpc \in Reading
      /\ cur \in Inode \ merged /\ itab[cur].mtime = node0[cur].mtime
      /\ UNCHANGED <<mergeVars, options, lvl, stp, cur>> /\ dbf
  BY CurIs DEF GetHash, HGet
<1>2. CASE Hit(Key(cur)) /\ Add(hcd[Key(cur)], cur) /\ dpc' = "read"
  <2>1. ASSUME cur \notin touched PROVE hcd[Key(cur)] = Seen(lvl + 1, cur)
    <3>1. node[cur] = node0[cur]
      BY <1>1, <2>1 DEF DedupInv, IInv, NodesIntact
    <3>2. EntrySound(Key(cur), hcd[Key(cur)])
      BY <1>1, <1>2 DEF CacheInv, Databases, HandlesSound, Sound, Hit
    <3>3. hcd[Key(cur)] = HashOf(cktype, node0[cur].data)
      BY <1>1, <3>1, <3>2, KeyIs DEF EntrySound
    <3> QED
      BY <1>1, <3>3 DEF Seen, Hash
  <2> QED
    BY <1>1, <1>2, <2>1, AddPasses
<1>3. CASE dpc' = "hash" /\ UNCHANGED <<tab, unread>>
  BY <1>1, <1>3, TurnPasses
<1> QED
  BY <1>2, <1>3 DEF GetHash

LEMMA PutHashPasses ==
  ASSUME DedupInv, CacheInv, PutHash
  PROVE  PassInv'
<1>1. /\ pc = "ready" /\ dpc = "put" /\ cur \in unread /\ lvl = 3 /\ dpc \in Reading
      /\ cur \in Inode \ merged
      /\ UNCHANGED <<mergeVars, options, lvl, stp, cur>>
      /\ Add(hval, cur) /\ dpc' = "read"
  BY CurIs DEF PutHash
<1>2. ASSUME cur \notin touched PROVE hval = Seen(lvl + 1, cur)
  <2>1. node[cur] = node0[cur]
    BY <1>1, <1>2 DEF DedupInv, IInv, NodesIntact
  <2> QED
    BY <1>1, <2>1 DEF CacheInv, HashWaits, Seen, Hash, Stopped
<1> QED
  BY <1>1, <1>2, AddPasses

LEMMA InitCache ==
  ASSUME Init
  PROVE  CacheInv
<1>1. Databases
  BY DEF Init, HCacheInit, Databases, DbSound, HandlesSound, HCacheTypeOK, Readable
<1> QED
  BY <1>1 DEF Init, MergeInit, CacheInv, Stopped, HashWaits

LEMMA StartCache ==
  ASSUME DedupInv, CacheInv, Start
  PROVE  CacheInv'
<1>1. /\ dpc' # "put" /\ node0' = node /\ dir0' = dir /\ itab' \in Scan
      /\ UNCHANGED <<dir, node>>
  BY DEF Start, StartRun
<1>2. Databases'
  <2>1. CASE usecache'
    BY <1>1, <2>1, ValidateSound DEF Start, CacheInv
  <2>2. CASE ~usecache'
    BY <1>1, <2>2, CallSound DEF Start, CacheInv, hcVars
  <2> QED
    BY <2>1, <2>2
<1>3. FileSystemTypeOK
  BY DEF DedupInv, IInv, TypeOK
<1>4. TimesPast'
  <2>1. \A i \in Inode : node[i].mtime \in Nat
    BY <1>3, FileSystemAssumption DEF FileSystemTypeOK, File
  <2> QED
    BY <1>1, <2>1 DEF TimesPast
<1>5. NamesStay'
  <2>1. \A i \in Inode : /\ \A p \in itab'[i].names : dir[p] = i
                         /\ itab'[i].names # {} => itab'[i].first \in itab'[i].names
    BY <1>1, <1>3, ScanTables
  <2> QED
    BY <1>1, <2>1 DEF NamesStay, Known
<1> QED
  BY <1>1, <1>2, <1>4, <1>5 DEF CacheInv, HashWaits

(* Steps of the program that write no path. *)
LEMMA CacheFrame ==
  ASSUME CacheInv, Databases', UNCHANGED <<dir, node, node0, itab>>, merged \subseteq merged',
         pc' \notin Stopped => pc \notin Stopped, HashWaits'
  PROVE  CacheInv'
BY DEF CacheInv, TimesPast, NamesStay, Known

(* do_dedup writes only paths of inodes that are being merged. *)
LEMMA MergeCache ==
  ASSUME DedupInv, CacheInv, Merge
  PROVE  CacheInv'
<1>1. /\ MergeStep /\ UNCHANGED <<node, node0, itab, merged>> /\ pc \notin Stopped
      /\ UNCHANGED <<cktype, dpc, cur, hval>>
  BY DEF Merge, MergeStep, NextVictim, NextPath, Unlink, Link, Return, UnlinkPath, LinkPath,
         tables, fsVars, history, Stopped, options, passVars
<1>2. Databases'
  BY <1>1, CallSound, DieSound DEF Merge, CacheInv, HExit, HDie, hcVars
<1>3. HashWaits'
  BY <1>1 DEF CacheInv, HashWaits
<1>4. NamesStay /\ TimesPast
  BY <1>1 DEF CacheInv
<1>5. NamesStay'
  <2>1. CASE UNCHANGED dir
    BY <1>1, <1>4, <2>1 DEF NamesStay, Known
  <2>2. CASE dir' # dir
    <3>1. pc \in {"unlink", "link"} /\ \A p \in Path \ {name} : dir'[p] = dir[p]
      BY <1>1, <2>2 DEF MergeStep, NextVictim, NextPath, Unlink, Link, Return, UnlinkPath, LinkPath,
         fsVars, DedupInv, IInv, TypeOK, FileSystemTypeOK
    <3>2. dir0[name] \in merged
      BY <3>1, InFlight DEF DedupInv, NameIsVictim, Victim
    <3>3. \A i \in Inode : Known(i) => itab[i].first \in Path /\ dir0[itab[i].first] = i
      BY FileSystemAssumption DEF DedupInv, IInv, ItabMatches, TypeOK, Entry
    <3> QED
      BY <1>1, <1>4, <3>1, <3>2, <3>3 DEF NamesStay, Known
  <2> QED
    BY <2>1, <2>2
<1> QED
  BY <1>1, <1>2, <1>3, <1>4, <1>5 DEF CacheInv, TimesPast

(* hash_file reads the inode it is asked for, or nothing. *)
LEMMA HashFileCache ==
  ASSUME DedupInv, CacheInv, HashFile
  PROVE  CacheInv'
<1>1. /\ pc = "ready" /\ dpc = "hash" /\ cur \in Inode \ merged /\ Known(cur)
      /\ UNCHANGED <<dir, node, node0, itab, merged, pc, cktype, cur, hcVars>> /\ Reachable(cur)
  BY CurIs DEF HashFile, mergeVars, tables, fsVars, history, options
<1>2. dir[itab[cur].first] = cur
  BY <1>1 DEF CacheInv, NamesStay, Reachable, Exists, Stopped
<1>3. dpc' = "put" => hval' = HashOf(cktype, node[cur].data)
  BY <1>2 DEF HashFile, Bytes
<1>4. HashWaits'
  BY <1>1, <1>3 DEF HashWaits
<1>5. Databases'
  BY <1>1, CallSound DEF CacheInv, hcVars
<1> QED
  BY <1>1, <1>4, <1>5, CacheFrame

LEMMA PutHashCache ==
  ASSUME DedupInv, CacheInv, PutHash
  PROVE  CacheInv'
<1>1. /\ pc = "ready" /\ dpc = "put" /\ cur \in Inode /\ itab[cur].mtime = node0[cur].mtime
      /\ UNCHANGED <<dir, node, node0, itab, merged, pc>> /\ dpc' = "read"
      /\ HPut(Key(cur), hval)
  BY CurIs DEF PutHash, mergeVars, tables, fsVars, history
<1>2. itab[cur].mtime \in Nat
  BY <1>1, FileSystemAssumption DEF DedupInv, IInv, TypeOK, Entry
<1>3. EntrySound(Key(cur), hval)
  BY <1>1, <1>2, KeyIs DEF EntrySound, CacheInv, TimesPast, HashWaits, Stopped
<1>4. Databases'
  BY <1>1, <1>3, PutSound DEF CacheInv
<1> QED
  BY <1>1, <1>4, CacheFrame DEF HashWaits

(* Steps that leave files and tables alone. *)
LEMMA QuietCache ==
  ASSUME CacheInv, Databases', UNCHANGED <<fsVars, tables, options, cur, hval>>,
         pc' \notin Stopped => pc \notin Stopped /\ dpc' \in {dpc, "iter", "read", "get", "hash", "close"}
  PROVE  CacheInv'
<1>1. UNCHANGED <<dir, node, node0, itab, merged, cktype>>
  BY DEF fsVars, tables, history, options
<1>2. HashWaits'
  BY <1>1 DEF CacheInv, HashWaits
<1> QED
  BY <1>1, <1>2, CacheFrame

(* The program ends: killed, by an error, or as it should. *)
LEMMA EndCache ==
  ASSUME CacheInv, HDie \/ HExit \/ HFree \/ UNCHANGED hcVars,
         UNCHANGED <<fsVars, tables>>, pc' \in Stopped
  PROVE  CacheInv'
<1>1. UNCHANGED <<dir, node, node0, itab, merged>>
  BY DEF fsVars, tables, history
<1>2. Databases'
  <2>1. CASE HDie \/ HExit
    BY <1>1, <2>1, DieSound DEF CacheInv, HDie, HExit
  <2>2. CASE HFree
    BY <1>1, <2>2, CallSound DEF CacheInv, HFree
  <2>3. CASE UNCHANGED hcVars
    BY <1>1, <2>3, CallSound DEF CacheInv, hcVars
  <2> QED
    BY <2>1, <2>2, <2>3
<1> QED
  BY <1>1, <1>2, CacheFrame DEF HashWaits

LEMMA StepCache ==
  ASSUME DedupInv, CacheInv, Step
  PROVE  CacheInv'
<1>1. CASE NextCluster
  <2>1. /\ UNCHANGED <<dir, node, node0, itab, hcVars>> /\ merged \subseteq merged'
        /\ dpc' \in {"iter", "read"} /\ pc = "ready"
    BY <1>1 DEF NextCluster, Call, mergeVars, tables, fsVars, history
  <2>2. Databases'
    BY <2>1, CallSound DEF CacheInv, hcVars
  <2> QED
    BY <2>1, <2>2, CacheFrame DEF HashWaits, Stopped
<1>2. ASSUME TableDone \/ ReadDone \/ GetHash \/ \E i \in Inode : ReadBlock(i)
      PROVE  CacheInv'
  <2>1. /\ UNCHANGED <<mergeVars, options, cur, hval>> /\ pc = "ready"
        /\ dpc' \in {dpc, "iter", "read", "get", "hash", "close"}
        /\ UNCHANGED hcVars \/ HGet
    BY <1>2 DEF TableDone, ReadDone, GetHash, ReadBlock
  <2>2. UNCHANGED <<fsVars, tables, node, pc>>
    BY <2>1 DEF mergeVars, fsVars
  <2>3. Databases'
    BY <2>1, <2>2, CallSound DEF CacheInv, hcVars, HGet
  <2> QED
    BY <2>1, <2>2, <2>3, QuietCache DEF Stopped
<1>3. ASSUME NEW i \in Inode, WantHash(i) PROVE CacheInv'
  <2>1. /\ UNCHANGED <<dir, node, node0, itab, merged, pc, hcVars>> /\ dpc' # "put"
    BY <1>3 DEF WantHash, mergeVars, tables, fsVars, history
  <2>2. Databases'
    BY <2>1, CallSound DEF CacheInv, hcVars
  <2> QED
    BY <2>1, <2>2, CacheFrame DEF HashWaits
<1>4. CASE GetUndefined
  <2>1. CASE dpc' = "hash" /\ UNCHANGED <<mergeVars, hcVars>>
    <3>1. UNCHANGED <<fsVars, tables, node, pc, options, cur, hval>> /\ pc = "ready"
      BY <1>4, <2>1 DEF mergeVars, fsVars, GetUndefined
    <3>2. Databases'
      BY <2>1, <3>1, CallSound DEF CacheInv, hcVars
    <3> QED
      BY <2>1, <3>1, <3>2, QuietCache DEF Stopped
  <2>2. CASE Kill /\ HDie
    BY <2>2, EndCache DEF Kill, Stopped
  <2> QED
    BY <1>4, <2>1, <2>2 DEF GetUndefined
<1>5. CASE HashFile
  BY <1>5, HashFileCache
<1>6. CASE PutHash
  BY <1>6, PutHashCache
<1>7. CASE ReadFails
  BY <1>7, EndCache DEF ReadFails, Abort, Stopped
<1>8. CASE Switch
  <2>1. /\ DoneClose(TRUE) \/ DoneClose(FALSE) \/ DoneStep
        /\ UNCHANGED <<mergeVars, options, passVars>> /\ pc = "ready"
    BY <1>8 DEF Switch
  <2>2. UNCHANGED <<fsVars, tables, node, pc, options, cur, hval, dpc>>
    BY <2>1 DEF mergeVars, fsVars, passVars
  <2>3. Databases'
    BY <2>1, <2>2, SwitchSound DEF CacheInv
  <2> QED
    BY <2>1, <2>2, <2>3, QuietCache DEF Stopped
<1>9. CASE Merge
  BY <1>9, MergeCache
<1>10. CASE Close
  BY <1>10, EndCache DEF Close, Finish, Stopped
<1> QED
  BY <1>1, <1>2, <1>3, <1>4, <1>5, <1>6, <1>7, <1>8, <1>9, <1>10 DEF Step

(* A careful world lets mtimes grow with the contents, and names go but not come. *)
LEMMA OthersCache ==
  ASSUME DedupInv, Careful, CacheInv, OtherProcesses
  PROVE  CacheInv'
<1> DEFINE kinds == IF pc \in Stopped THEN Kinds ELSE LiveKinds
<1>1. /\ LiveChange(kinds) /\ FileSystemTypeOK
      /\ UNCHANGED <<itab, merged, pc, cktype, dpc, cur, hval, hcVars>>
  BY DEF OtherProcesses, Others, tables, options, passVars, DedupInv, IInv, TypeOK
<1>2. FileSystemTypeOK' /\ TimeFrame /\ UNCHANGED node0
  BY <1>1, LiveChangeFrame, LiveChangeTime DEF OthersFrame, Careful, history
<1>3. pc \notin Stopped => NameFrame
  BY <1>1, LiveChangeNames DEF Careful
<1>4. Databases'
  BY <1>1, <1>2, OthersSound DEF CacheInv
<1>5. \A i \in Inode : node[i].mtime \in Nat /\ node'[i].mtime \in Nat
  BY <1>1, <1>2, FileSystemAssumption DEF FileSystemTypeOK, File
<1>6. \A i \in Inode : node0[i].mtime \in Nat
  BY FileSystemAssumption DEF DedupInv, IInv, ItabMatches, TypeOK, Entry
<1>7. ASSUME pc \notin Stopped PROVE TimesPast' /\ NamesStay' /\ HashWaits'
  <2>1. TimesPast /\ NamesStay
    BY <1>7 DEF CacheInv
  <2>2. TimesPast'
    BY <1>2, <1>5, <1>6, <2>1 DEF TimesPast, TimeFrame
  <2>3. \A i \in Inode : Known(i) => itab[i].first \in Path
    BY FileSystemAssumption DEF DedupInv, IInv, ItabMatches, TypeOK, Entry
  <2>4. NamesStay'
    BY <1>1, <1>3, <1>7, <2>1, <2>3 DEF NamesStay, NameFrame, Known
  <2>5. ASSUME dpc = "put", node0[cur].mtime = node'[cur].mtime
        PROVE  hval = HashOf(cktype, node'[cur].data)
    <3>1. cur \in Inode
      BY <1>7, <2>5 DEF DedupInv, PassInv, PassTypes, Passes, Apart, In, Levels
    <3>2. node'[cur].mtime = node[cur].mtime
      BY <1>2, <1>5, <1>6, <2>1, <2>5, <3>1 DEF TimesPast, TimeFrame
    <3> QED
      BY <1>2, <1>7, <2>5, <3>1, <3>2 DEF CacheInv, HashWaits, TimeFrame
  <2> QED
    BY <1>1, <1>2, <2>2, <2>4, <2>5 DEF HashWaits
<1> QED
  BY <1>1, <1>4, <1>7 DEF CacheInv, HashWaits

--------------------------------------------------------------------------------
(* Every step of the program is one of module DoDedup, or none to it. *)

LEMMA InitPasses ==
  ASSUME TrustedWorld, Init
  PROVE  MergeInit /\ DedupInv
BY InitIInv DEF Init, MergeInit, DedupInv, PassInv, Trusted, TrustedWorld, Stopped

LEMMA MergePasses ==
  ASSUME DedupInv, Merge
  PROVE  MergeStep /\ PassInv'
<1>1. MergeStep /\ UNCHANGED <<options, passVars>>
  BY DEF Merge
<1>2. UNCHANGED <<itab, merged, node0, touched>> /\ pc \notin Stopped
  BY <1>1 DEF MergeStep, NextVictim, NextPath, Unlink, Link, Return, UnlinkPath, LinkPath,
              tables, fsVars, history, Stopped
<1> QED
  BY <1>1, <1>2, PassFrame DEF DedupInv

LEMMA EndPasses ==
  ASSUME DedupInv, pc \notin Stopped, pc' \in Stopped,
         UNCHANGED <<fsVars, tables, options, passVars>>
  PROVE  PassInv'
<1>1. UNCHANGED <<itab, merged, node0, touched>>
  BY DEF tables, fsVars, history
<1> QED
  BY <1>1, PassFrame DEF DedupInv

LEMMA UnchangedPasses ==
  ASSUME DedupInv, UNCHANGED <<mergeVars, options, passVars>>
  PROVE  PassInv'
<1>1. UNCHANGED <<itab, merged, node0, touched, pc>>
  BY DEF mergeVars, tables, fsVars, history
<1> QED
  BY <1>1, PassFrame DEF DedupInv

LEMMA StepPasses ==
  ASSUME DedupInv, Careful => CacheInv, Step
  PROVE  [MergeNext]_mergeVars /\ PassInv'
<1>1. pc = "ready" /\ dpc \in {"get", "put"} => CacheInv /\ lvl = 3 /\ cur \in unread
  BY DEF DedupInv, PassInv, Trusted, PassTypes, Stopped
<1>2. CASE NextCluster
  BY <1>2, NextClusterPasses
<1>3. CASE TableDone
  BY <1>3, TableDonePasses DEF TableDone
<1>4. CASE \E i \in Inode : ReadBlock(i) \/ WantHash(i)
  BY <1>4, ReadBlockPasses, WantHashPasses DEF ReadBlock, WantHash
<1>5. CASE ReadDone
  BY <1>5, ReadDonePasses DEF ReadDone
<1>6. CASE GetUndefined \/ GetHash \/ PutHash \/ Switch
  <2>1. CASE GetUndefined
    <3>1. CASE dpc' = "hash" /\ UNCHANGED mergeVars
      BY <1>1, <2>1, <3>1, TurnPasses DEF GetUndefined, Reading
    <3>2. CASE Kill /\ UNCHANGED dpc
      BY <2>1, <3>2, EndPasses DEF GetUndefined, Kill, passVars, Stopped, MergeNext
    <3> QED
      BY <2>1, <3>1, <3>2 DEF GetUndefined
  <2>2. CASE GetHash
    BY <1>1, <2>2, GetHashPasses DEF GetHash
  <2>3. CASE PutHash
    BY <1>1, <2>3, PutHashPasses DEF PutHash
  <2>4. CASE Switch
    <3>1. UNCHANGED <<mergeVars, options, passVars>>
      BY <2>4 DEF Switch
    <3> QED
      BY <3>1, UnchangedPasses
  <2> QED
    BY <1>6, <2>1, <2>2, <2>3, <2>4
<1>7. CASE HashFile
  BY <1>7, HashFilePasses DEF HashFile
<1>8. CASE ReadFails
  <2>1. Abort /\ UNCHANGED <<options, passVars>>
    BY <1>8 DEF ReadFails
  <2> QED
    BY <2>1, EndPasses DEF Abort, Stopped, MergeNext
<1>9. CASE Merge
  BY <1>9, MergePasses DEF MergeNext
<1>10. CASE Close
  <2>1. Finish /\ UNCHANGED <<options, passVars>>
    BY <1>10 DEF Close
  <2> QED
    BY <2>1, EndPasses DEF Finish, Stopped, MergeNext
<1> QED
  BY <1>2, <1>3, <1>4, <1>5, <1>6, <1>7, <1>8, <1>9, <1>10 DEF Step

LEMMA OthersPasses ==
  ASSUME DedupInv, OtherProcesses
  PROVE  Others /\ PassInv'
<1>1. /\ Others /\ UNCHANGED <<options, passVars>>
      /\ UNCHANGED <<itab, merged, pc>>
  BY DEF OtherProcesses, Others, tables
<1>2. touched \subseteq touched' /\ UNCHANGED node0
  BY <1>1, LiveChangeFrame
     DEF Others, OthersFrame, history, DedupInv, IInv, TypeOK
<1> QED
  BY <1>1, <1>2, PassFrame DEF DedupInv

WholeInv == DedupInv /\ (Careful => CacheInv)

LEMMA NextPasses ==
  ASSUME WholeInv, TrustedWorld, [Next]_dedupVars
  PROVE  [MergeNext]_mergeVars /\ PassInv'
<1> USE DEF WholeInv
<1>1. CASE Start
  BY <1>1, StartPasses DEF Start, MergeNext
<1>2. CASE Step
  BY <1>2, StepPasses
<1>3. CASE Killed
  BY <1>3, EndPasses DEF Killed, Kill, Stopped, MergeNext
<1>4. CASE OtherProcesses
  BY <1>4, OthersPasses DEF MergeNext
<1>5. CASE Stays \/ UNCHANGED dedupVars
  <2>1. UNCHANGED <<mergeVars, options, passVars>>
    BY <1>5 DEF Stays, Terminated, dedupVars
  <2> QED
    BY <2>1, UnchangedPasses
<1> QED
  BY <1>1, <1>2, <1>3, <1>4, <1>5 DEF Next

LEMMA NextCache ==
  ASSUME DedupInv, Careful, CacheInv, [Next]_dedupVars
  PROVE  CacheInv'
<1>1. CASE Start
  BY <1>1, StartCache
<1>2. CASE Step
  BY <1>2, StepCache
<1>3. CASE Killed
  BY <1>3, EndCache DEF Killed, Kill, Stopped
<1>4. CASE OtherProcesses
  BY <1>4, OthersCache
<1>5. CASE Stays \/ UNCHANGED dedupVars
  <2>1. UNCHANGED <<mergeVars, options, passVars, hcVars>>
    BY <1>5 DEF Stays, Terminated, dedupVars
  <2>2. UNCHANGED <<fsVars, tables, node, pc, cur, hval, dpc>>
    BY <2>1 DEF mergeVars, fsVars, passVars
  <2>3. Databases'
    BY <2>1, <2>2, CallSound DEF CacheInv, hcVars
  <2> QED
    BY <2>1, <2>2, <2>3, QuietCache
<1> QED
  BY <1>1, <1>2, <1>3, <1>4, <1>5 DEF Next

--------------------------------------------------------------------------------
(* The invariant of the passes and of the cache holds throughout, and every step is   *)
(* one of module DoDedup.                                                              *)
LEMMA Whole ==
  ASSUME TrustedWorld
  PROVE  /\ Init => MergeInit /\ WholeInv
         /\ WholeInv /\ [Next]_dedupVars => [MergeNext]_mergeVars /\ WholeInv'
<1>1. Init => MergeInit /\ WholeInv
  BY InitPasses, InitCache DEF WholeInv
<1>2. ASSUME WholeInv, [Next]_dedupVars PROVE [MergeNext]_mergeVars /\ WholeInv'
  BY <1>2, NextPasses, NextCache, NextIInv DEF WholeInv, DedupInv
<1> QED
  BY <1>1, <1>2

--------------------------------------------------------------------------------
(* What the passes find.  Two files that are the same stay in one table until do_dedup   *)
(* has both.                                                                              *)

Together ==
  \A i, j \in Scanned : i # j /\ SameFile(node0[i], node0[j]) =>
    \/ i \in merged /\ j \in merged
    \/ pc # "done" /\ \E l \in Levels : In(l, i) /\ In(l, j)

(* What do_dedup was given is of clusters that are whole. *)
Doubles == \A i \in merged : Known(i) /\ \E j \in Twins(i) : j # i
OneKept == \A i \in merged : \E k \in kept : kept \cap Twins(i) = {k}
OldestKept == \A k \in kept : \A j \in Twins(k) : itab[k].mtime <= itab[j].mtime

Emptied == dpc = "close" => \A l \in Levels : tab[l] = {}

(* The program is looking for duplicates, and nobody has disturbed it. *)
Finding == Calm /\ ~scanonly

FoundInv == Finding => Together /\ Doubles /\ OneKept /\ OldestKept /\ Emptied

LEMMA TwinsAre ==
  ASSUME NEW i, NEW j
  PROVE  /\ SameFile(node0[i], node0[j]) => SameFile(node0[j], node0[i])
         /\ SameFile(node0[i], node0[j]) => Twins(i) = Twins(j)
         /\ i \in Scanned => i \in Twins(i)
BY DEF SameFile, Twins

(* The same files have the same keys. *)
LEMMA TwinsSeen ==
  ASSUME NEW i, NEW j, SameFile(node0[i], node0[j]), NEW l
  PROVE  Seen(l, i) = Seen(l, j)
BY DEF SameFile, Seen, SizeKey, First, Second, Hash

(* There are finitely many of them. *)
LEMMA ScannedFinite ==
  ASSUME IInv
  PROVE  IsFiniteSet(Scanned)
<1> DEFINE f == [i \in Scanned |-> itab[i].first]
<1>1. \A i \in Scanned : f[i] \in Path /\ dir0[f[i]] = i
  BY FileSystemAssumption DEF IInv, ItabMatches, TypeOK, Entry, Scanned
<1>2. f \in [Scanned -> Path]
  BY <1>1
<1> HIDE DEF f
<1>3. f \in Injection(Scanned, Path)
  BY <1>1, <1>2 DEF Injection, IsInjective
<1> QED
  BY <1>3, FS_Injection, FileSystemAssumption

LEMMA AtLeastTwo ==
  ASSUME NEW S, IsFiniteSet(S)
  PROVE  Cardinality(S) >= 2 <=> \E x, y \in S : x # y
<1>1. Cardinality(S) \in Nat /\ (Cardinality(S) = 0 <=> S = {})
      /\ (Cardinality(S) = 1 <=> \E x : S = {x})
  BY FS_CardinalityType, FS_EmptySet, FS_Singleton
<1>2. ASSUME NEW x \in S, NEW y \in S, x # y PROVE Cardinality(S) >= 2
  BY <1>1, <1>2
<1>3. ASSUME Cardinality(S) >= 2 PROVE \E x, y \in S : x # y
  <2>0. Cardinality(S) # 0 /\ Cardinality(S) # 1
    BY <1>1, <1>3
  <2>1. S # {} /\ ~ \E x : S = {x}
    BY <1>1, <2>0
  <2>2. PICK x \in S : TRUE
    BY <2>1
  <2>3. S # {x}
    BY <2>1
  <2> QED
    BY <2>2, <2>3
<1> QED
  BY <1>2, <1>3

(* The tables have what the scan met, so they are finite. *)
LEMMA ClusterFinite ==
  ASSUME IInv, PassTypes, Passes, NEW k
  PROVE  Cluster(lvl, k) \subseteq Scanned /\ IsFiniteSet(Cluster(lvl, k))
<1>1. Cluster(lvl, k) \in SUBSET Scanned
  BY Members DEF Scanned
<1> QED
  BY <1>1, ScannedFinite, FS_Subset

LEMMA BothInCluster ==
  ASSUME touched = {}, PassTypes, Passes, dpc = "iter",
         NEW i, NEW j, SameFile(node0[i], node0[j]), In(lvl, i), In(lvl, j)
  PROVE  \E k \in Keys(lvl) : i \in Cluster(lvl, k) /\ j \in Cluster(lvl, k)
<1>1. unread = {} /\ lvl \in Levels
  BY DEF PassTypes
<1>2. PICK e \in tab[lvl], f \in tab[lvl] : e[2] = i /\ f[2] = j
  BY <1>1 DEF In
<1>3. e[1] = Seen(lvl, i) /\ f[1] = Seen(lvl, j)
  BY <1>1, <1>2 DEF Passes, Keyed
<1>4. e[1] = f[1]
  BY <1>3, TwinsSeen
<1> QED
  BY <1>2, <1>4 DEF Cluster, Keys

(* Steps that take nobody out of the tables. *)
LEMMA FoundFrame ==
  ASSUME FoundInv, Finding' => Finding, UNCHANGED <<itab, merged, kept, node0>>,
         \A l \in Levels : \A i : In(l, i) => In(l, i)',
         pc' = "done" => pc = "done",
         dpc' = "close" => dpc = "close" /\ UNCHANGED tab
  PROVE  FoundInv'
<1> SUFFICES ASSUME Finding'
             PROVE  (Together /\ Doubles /\ OneKept /\ OldestKept /\ Emptied)'
  BY DEF FoundInv
<1>1. Together /\ Doubles /\ OneKept /\ OldestKept /\ Emptied
  BY DEF FoundInv
<1>2. Scanned' = Scanned /\ \A i : Twins(i)' = Twins(i) /\ (Known(i)' <=> Known(i))
  BY DEF Scanned, Known, Twins, SameFile
<1>3. Together'
  BY <1>1, <1>2 DEF Together, SameFile
<1>4. Doubles' /\ OneKept' /\ OldestKept'
  BY <1>1, <1>2 DEF Doubles, OneKept, OldestKept
<1>5. Emptied'
  BY <1>1 DEF Emptied
<1> QED
  BY <1>3, <1>4, <1>5

(* An inode moves from the list of those to be read to the table. *)
LEMMA AddIn ==
  ASSUME PassTypes, lvl + 1 \in Levels, NEW i \in unread, NEW key, Add(key, i), lvl' = lvl
  PROVE  \A l \in Levels : \A j : In(l, j) => In(l, j)'
<1>1. /\ tab'[lvl + 1] = tab[lvl + 1] \cup {<<key, i>>}
      /\ \A l \in Levels : l # lvl + 1 => tab'[l] = tab[l]
      /\ unread' = unread \ {i}
  BY DEF Add, PassTypes
<1>2. <<key, i>>[2] = i /\ <<key, i>> \in tab'[lvl + 1]
  BY <1>1
<1>3. ASSUME NEW l \in Levels, NEW j, In(l, j) PROVE In(l, j)'
  <2>1. CASE \E e \in tab[l] : e[2] = j
    BY <1>1, <2>1 DEF In
  <2>2. CASE l = lvl + 1 /\ j \in unread
    BY <1>1, <1>2, <2>2 DEF In
  <2> QED
    BY <1>3, <2>1, <2>2 DEF In
<1> QED
  BY <1>3

LEMMA ReadFound ==
  ASSUME DedupInv, FoundInv, pc = "ready", NEW i \in unread, NEW key, Add(key, i),
         dpc \in Reading, dpc' = "read", UNCHANGED <<mergeVars, options, lvl>>
  PROVE  FoundInv'
<1>1. PassTypes /\ lvl + 1 \in Levels
  BY DEF DedupInv, PassInv, PassTypes, Stopped, Levels
<1>2. /\ UNCHANGED <<itab, merged, kept, node0, touched, pc, scanonly>>
      /\ lvl' = lvl
  BY DEF mergeVars, tables, fsVars, history, options
<1>3. \A l \in Levels : \A j : In(l, j) => In(l, j)'
  BY <1>1, <1>2, AddIn
<1> QED
  BY <1>2, <1>3, FoundFrame DEF Finding, Calm

(* Steps with the tables as they are. *)
LEMMA QuietFound ==
  ASSUME FoundInv, Finding' => Finding, UNCHANGED <<itab, merged, kept, node0, tab, unread>>,
         \/ UNCHANGED lvl
         \/ unread = {},
         pc' = "done" => pc = "done", dpc' = "close" => dpc = "close"
  PROVE  FoundInv'
<1>1. \A l \in Levels : \A i : In(l, i) => In(l, i)'
  BY DEF In
<1> QED
  BY <1>1, FoundFrame

--------------------------------------------------------------------------------
(* The whole class of an inode in a cluster that do_dedup is given is in it. *)
LEMMA WholeClass ==
  ASSUME DedupInv, FoundInv, Finding, pc = "ready", dpc = "iter", NEW k,
         Covered(lvl, stp.size), NEW i \in Cluster(lvl, k)
  PROVE  Twins(i) = Cluster(lvl, k)
<1>1. PassTypes /\ Passes /\ touched = {} /\ Together
  BY DEF DedupInv, PassInv, Stopped, Finding, Calm, FoundInv
<1>2. \A j \in Cluster(lvl, k) : In(lvl, j) /\ j \in Inode \ merged /\ Known(j)
  BY <1>1, Members
<1>3. \A j \in Cluster(lvl, k) : SameFile(node0[i], node0[j])
  BY <1>1, CoveredAlike
<1>4. Cluster(lvl, k) \subseteq Twins(i)
  BY <1>2, <1>3 DEF Twins, Scanned
<1>5. ASSUME NEW j \in Twins(i) PROVE j \in Cluster(lvl, k)
  <2>1. j \in Scanned /\ SameFile(node0[i], node0[j]) /\ i \in Scanned
    BY <1>2, <1>5 DEF Twins, Scanned
  <2>2. CASE j # i
    <3>1. PICK l \in Levels : In(l, i) /\ In(l, j)
      BY <1>1, <1>2, <2>1, <2>2 DEF Together
    <3>2. l = lvl /\ lvl \in Levels
      BY <1>1, <1>2, <3>1 DEF Passes, Apart, PassTypes
    <3>3. PICK h \in Keys(lvl) : i \in Cluster(lvl, h) /\ j \in Cluster(lvl, h)
      BY <1>1, <2>1, <3>1, <3>2, BothInCluster
    <3>4. h = k
      BY <1>1, <3>2, <3>3 DEF Cluster, Passes, Apart
    <3> QED
      BY <3>3, <3>4
  <2> QED
    BY <2>2
<1> QED
  BY <1>4, <1>5

LEMMA CallFound ==
  ASSUME DedupInv, FoundInv, NEW k \in NextKeys(lvl), pc = "ready", dpc = "iter",
         tab' = Without(lvl, k), Covered(lvl, stp.size), Call(Cluster(lvl, k)),
         UNCHANGED <<options, dpc, lvl, stp, unread>>
  PROVE  FoundInv'
<1> DEFINE C == Cluster(lvl, k)
<1>1. /\ UNCHANGED <<itab, node0, touched, scanonly, lvl, unread>> /\ pc' = "merge"
      /\ merged' = merged \cup C /\ dpc' = "iter"
  BY DEF Call, fsVars, history, options
<1>2. PICK b \in C : kept' = kept \cup {b} /\ \A j \in C : itab[b].mtime <= itab[j].mtime
  BY DEF Call, Oldest
<1> SUFFICES ASSUME Finding'
             PROVE  (Together /\ Doubles /\ OneKept /\ OldestKept /\ Emptied)'
  BY DEF FoundInv
<1>3. Finding /\ touched = {} /\ PassTypes /\ Passes /\ kept \subseteq merged
      /\ Together /\ Doubles /\ OneKept /\ OldestKept
  BY <1>1 DEF Finding, Calm, Ended, FoundInv, DedupInv, PassInv, Stopped, IInv, ClusterSound
<1>4. \A i \in C : Twins(i) = C
  BY <1>3, WholeClass
<1>5. \A i \in C : In(lvl, i) /\ i \in Inode \ merged /\ Known(i) /\ i \in Scanned
  BY <1>3, Members DEF Scanned
<1>6. \E x, y \in C : x # y
  <2>1. Cardinality(C) >= 2
    BY DEF NextKeys, Several
  <2>2. IsFiniteSet(C)
    BY <1>3, ClusterFinite DEF DedupInv
  <2> QED
    BY <2>1, <2>2, AtLeastTwo
<1>7. Scanned' = Scanned /\ \A i : Twins(i)' = Twins(i) /\ (Known(i)' <=> Known(i))
  BY <1>1 DEF Scanned, Known, Twins, SameFile
<1>8. /\ tab'[lvl] = {e \in tab[lvl] : e[1] # k}
      /\ \A l \in Levels : l # lvl => tab'[l] = tab[l]
  BY <1>3, TakenOut
<1>9. \A l \in Levels : \A i : In(l, i) /\ i \notin C => In(l, i)'
  <2>1. \A e \in tab[lvl] : e[2] \notin C => e \in tab'[lvl]
    BY <1>8 DEF Cluster
  <2> QED
    BY <1>1, <1>8, <2>1 DEF In
<1> HIDE DEF C
<1>10. Together'
  <2> SUFFICES ASSUME NEW i \in Scanned, NEW j \in Scanned, i # j, SameFile(node0[i], node0[j])
               PROVE  (i \in merged' /\ j \in merged') \/ \E l \in Levels : In(l, i)' /\ In(l, j)'
    BY <1>1, <1>7 DEF Together, SameFile
  <2>1. j \in Twins(i) /\ i \in Twins(j)
    BY DEF Twins, SameFile
  <2>2. CASE i \in C \/ j \in C
    BY <1>1, <1>4, <2>1, <2>2
  <2>3. CASE i \notin C /\ j \notin C
    BY <1>1, <1>3, <1>9, <2>3 DEF Together
  <2> QED
    BY <2>2, <2>3
<1>11. Doubles'
  BY <1>1, <1>3, <1>4, <1>5, <1>6, <1>7 DEF Doubles
<1>12. OneKept'
  <2> SUFFICES ASSUME NEW i \in merged \cup C
               PROVE  \E h \in kept' : kept' \cap Twins(i) = {h}
    BY <1>1, <1>7 DEF OneKept
  <2>1. CASE i \in C
    BY <1>2, <1>3, <1>4, <1>5, <2>1
  <2>2. CASE i \in merged
    <3>1. PICK h \in kept : kept \cap Twins(i) = {h}
      BY <1>3, <2>2 DEF OneKept
    <3>2. i \in Scanned
      BY <1>3, <2>2 DEF Doubles, Scanned, DedupInv, IInv, TypeOK
    <3>3. b \notin Twins(i)
      <4>1. ASSUME b \in Twins(i) PROVE FALSE
        <5>1. i \in Twins(b)
          BY <3>2, <4>1 DEF Twins, SameFile
        <5> QED
          BY <1>2, <1>4, <1>5, <2>2, <5>1
      <4> QED
        BY <4>1
    <3> QED
      BY <1>2, <3>1, <3>3
  <2> QED
    BY <2>1, <2>2
<1>13. OldestKept'
  BY <1>1, <1>2, <1>3, <1>4, <1>7 DEF OldestKept
<1>14. Emptied'
  BY <1>1 DEF Emptied
<1> QED
  BY <1>10, <1>11, <1>12, <1>13, <1>14

(* A cluster is split: its members go on together. *)
LEMMA SplitFound ==
  ASSUME DedupInv, FoundInv, NEW k \in NextKeys(lvl), pc = "ready", dpc = "iter",
         tab' = Without(lvl, k), ~Covered(lvl, stp'.size), unread' = Cluster(lvl, k),
         dpc' = "read", UNCHANGED <<mergeVars, options, lvl>>
  PROVE  FoundInv'
<1> DEFINE C == Cluster(lvl, k)
<1>1. /\ UNCHANGED <<itab, node0, touched, scanonly, lvl, merged, kept, pc>>
      /\ dpc' = "read" /\ unread' = C
  BY DEF mergeVars, tables, fsVars, history, options
<1> SUFFICES ASSUME Finding'
             PROVE  (Together /\ Doubles /\ OneKept /\ OldestKept /\ Emptied)'
  BY DEF FoundInv
<1>2. Finding /\ touched = {} /\ PassTypes /\ Passes
      /\ Together /\ Doubles /\ OneKept /\ OldestKept
  BY <1>1 DEF Finding, Calm, Ended, FoundInv, DedupInv, PassInv, Stopped
<1>3. lvl \in 1..3 /\ lvl + 1 \in Levels /\ unread = {}
  BY <1>2 DEF PassTypes, Levels, Covered
<1>4. Scanned' = Scanned /\ \A i : Twins(i)' = Twins(i) /\ (Known(i)' <=> Known(i))
  BY <1>1 DEF Scanned, Known, Twins, SameFile
<1>5. /\ tab'[lvl] = {e \in tab[lvl] : e[1] # k}
      /\ \A l \in Levels : l # lvl => tab'[l] = tab[l]
  BY <1>2, TakenOut
<1>6. \A l \in Levels : \A i : In(l, i) /\ i \notin C => In(l, i)'
  <2>1. \A e \in tab[lvl] : e[2] \notin C => e \in tab'[lvl]
    BY <1>5 DEF Cluster
  <2> QED
    BY <1>1, <1>3, <1>5, <2>1 DEF In
<1>7. \A i \in C : In(lvl + 1, i)' /\ In(lvl, i)
  BY <1>1, <1>2, <1>3, Members DEF In
<1>8. Together'
  <2> SUFFICES ASSUME NEW i \in Scanned, NEW j \in Scanned, i # j, SameFile(node0[i], node0[j]),
                      ~(i \in merged /\ j \in merged)
               PROVE  pc # "done" /\ \E l \in Levels : In(l, i)' /\ In(l, j)'
    BY <1>1, <1>4 DEF Together, SameFile
  <2>1. PICK l \in Levels : In(l, i) /\ In(l, j)
    BY <1>2 DEF Together
  <2>2. CASE i \in C \/ j \in C
    <3>1. l = lvl
      BY <1>2, <1>3, <1>7, <2>1, <2>2 DEF Passes, Apart, Levels
    <3>2. PICK h \in Keys(lvl) : i \in Cluster(lvl, h) /\ j \in Cluster(lvl, h)
      BY <1>2, <2>1, <3>1, BothInCluster
    <3>3. h = k
      BY <1>2, <1>3, <2>2, <3>2 DEF Cluster, Passes, Apart, Levels
    <3> QED
      BY <1>3, <1>7, <3>2, <3>3
  <2>3. CASE i \notin C /\ j \notin C
    BY <1>6, <2>1, <2>3
  <2> QED
    BY <2>2, <2>3
<1>9. Doubles' /\ OneKept' /\ OldestKept'
  BY <1>1, <1>2, <1>4 DEF Doubles, OneKept, OldestKept
<1>10. Emptied'
  BY <1>1 DEF Emptied
<1> QED
  BY <1>8, <1>9, <1>10

(* The loop over the clusters of two or more takes one as long as there is one: in the    *)
(* outermost table that of the largest files.                                              *)
LEMMA Largest ==
  ASSUME NEW S, IsFiniteSet(S), S # {}, NEW f, \A k \in S : f[k] \in Nat
  PROVE  \E k \in S : \A j \in S : f[j] <= f[k]
<1> DEFINE Above(k) == {j \in S : f[j] > f[k]}
           T == {Above(k) : k \in S}
<1>1. T \subseteq FiniteSubsetsOf(S) /\ T # {}
  <2>1. ASSUME NEW k \in S PROVE Above(k) \in FiniteSubsetsOf(S)
    <3>1. Above(k) \in SUBSET S
      OBVIOUS
    <3> QED
      BY <3>1, FS_Subset DEF FiniteSubsetsOf
  <2> HIDE DEF Above
  <2>2. T # {}
    <3>1. PICK k \in S : TRUE
      OBVIOUS
    <3>2. Above(k) \in T
      OBVIOUS
    <3> QED
      BY <3>2
  <2>3. T \subseteq FiniteSubsetsOf(S)
    BY <2>1
  <2> QED
    BY <2>2, <2>3
<1>2. PICK t \in T : \A u \in T : ~ (<<u, t>> \in StrictSubsetOrdering(S))
  BY <1>1, FS_StrictSubsetOrderingWellFounded, WFMin
<1>3. PICK k \in S : t = Above(k)
  OBVIOUS
<1>4. ASSUME NEW j \in S, f[j] > f[k] PROVE FALSE
  <2>1. Above(j) \in SUBSET S /\ Above(k) \in SUBSET S /\ Above(j) \subseteq Above(k)
        /\ j \in Above(k) /\ j \notin Above(j) /\ Above(j) \in T
    BY <1>4
  <2> HIDE DEF Above, T
  <2> QED
    BY <1>2, <1>3, <2>1 DEF StrictSubsetOrdering
<1> QED
  BY <1>4

LEMMA NextKeyThere ==
  ASSUME IInv, PassTypes, Passes, touched = {}, Several(lvl) # {}
  PROVE  NextKeys(lvl) # {}
<1>1. CASE lvl # 1
  BY <1>1 DEF NextKeys
<1>2. CASE lvl = 1
  <2> DEFINE S == Several(1)
             in == [k \in S |-> CHOOSE i \in Scanned : \E e \in tab[1] : e[1] = k /\ e[2] = i]
             size == [k \in S |-> k.size]
  <2>1. ASSUME NEW k \in S
        PROVE  \E i \in Scanned : \E e \in tab[1] : e[1] = k /\ e[2] = i
    <3>1. PICK e \in tab[1] : e[1] = k
      BY DEF Several, Keys
    <3>2. In(1, e[2]) /\ 1 \in Levels
      BY <3>1 DEF In, Levels
    <3> QED
      BY <3>1, <3>2 DEF Passes, Apart, Scanned
  <2>2. ASSUME NEW k \in S
        PROVE  in[k] \in Scanned /\ \E e \in tab[1] : e[1] = k /\ e[2] = in[k]
    <3>1. in[k] = CHOOSE i \in Scanned : \E e \in tab[1] : e[1] = k /\ e[2] = i
      OBVIOUS
    <3>2. PICK j \in Scanned : \E e \in tab[1] : e[1] = k /\ e[2] = j
      BY <2>1
    <3> DEFINE P(i) == \E e \in tab[1] : e[1] = k /\ e[2] = i
    <3>3. P(j) /\ in[k] = CHOOSE i \in Scanned : P(i)
      BY <3>1, <3>2
    <3> HIDE DEF P, in
    <3>4. in[k] \in Scanned /\ P(in[k])
      BY <3>3
    <3> QED
      BY <3>4 DEF P
  <2>3. in \in [S -> Scanned]
    BY <2>2
  <2>4. \A e, g \in tab[1] : e[2] = g[2] => e[1] = g[1]
    BY DEF Passes, Apart, Levels
  <2> HIDE DEF in
  <2>5. \A k, h \in S : in[k] = in[h] => k = h
    BY <2>2, <2>4
  <2>6. in \in Injection(S, Scanned)
    BY <2>3, <2>5 DEF Injection, IsInjective
  <2>7. IsFiniteSet(S)
    BY <2>6, ScannedFinite, FS_Injection
  <2>8. ASSUME NEW k \in S PROVE k.size \in Nat
    <3>1. PICK e \in tab[1] : e[1] = k /\ e[2] \in Scanned
      BY <2>2
    <3>2. k = SizeKey(e[2])
      BY <3>1 DEF Passes, Keyed, Levels, Seen
    <3>3. node0[e[2]].data \in Data
      BY <3>1 DEF Scanned, IInv, TypeOK, FileSystemTypeOK, File
    <3> QED
      BY <3>2, <3>3, FileSystemAssumption DEF SizeKey
  <2>9. \A k \in S : size[k] \in Nat
    BY <2>8
  <2>10. S # {}
    BY <1>2
  <2> HIDE DEF S, size
  <2>11. PICK k \in S : \A j \in S : size[j] <= size[k]
    BY <2>7, <2>9, <2>10, Largest
  <2>12. \A j \in S : size[j] = j.size
    BY DEF size
  <2>13. k \in NextKeys(1)
    BY <2>11, <2>12 DEF NextKeys, S
  <2> QED
    BY <1>2, <2>13
<1> QED
  BY <1>1, <1>2

(* So no two that are the same are in a table that is done with. *)
LEMMA TableDoneFound ==
  ASSUME DedupInv, FoundInv, TableDone
  PROVE  FoundInv'
<1>1. /\ dpc = "iter" /\ NextKeys(lvl) = {} /\ pc = "ready" /\ tab' = [tab EXCEPT ![lvl] = {}]
      /\ UNCHANGED <<itab, merged, kept, node0, touched, scanonly, pc, unread>>
      /\ dpc' = "close" => lvl = 1
  BY DEF TableDone, mergeVars, tables, fsVars, history, options
<1> SUFFICES ASSUME Finding'
             PROVE  (Together /\ Doubles /\ OneKept /\ OldestKept /\ Emptied)'
  BY DEF FoundInv
<1>2. Finding /\ touched = {} /\ PassTypes /\ Passes
      /\ Together /\ Doubles /\ OneKept /\ OldestKept
  BY <1>1 DEF Finding, Calm, Ended, FoundInv, DedupInv, PassInv, Stopped
<1>3. /\ lvl \in Levels /\ unread = {} /\ tab'[lvl] = {}
      /\ \A l \in Levels : l # lvl => tab'[l] = tab[l]
  BY <1>1, <1>2 DEF PassTypes
<1>4. Scanned' = Scanned /\ \A i : Twins(i)' = Twins(i) /\ (Known(i)' <=> Known(i))
  BY <1>1 DEF Scanned, Known, Twins, SameFile
<1>5. ASSUME NEW i, NEW j, i # j, SameFile(node0[i], node0[j]), In(lvl, i), In(lvl, j)
      PROVE  FALSE
  <2>1. PICK k \in Keys(lvl) : i \in Cluster(lvl, k) /\ j \in Cluster(lvl, k)
    BY <1>1, <1>2, <1>5, BothInCluster
  <2>2. Cardinality(Cluster(lvl, k)) >= 2
    BY <1>2, <1>5, <2>1, ClusterFinite, AtLeastTwo DEF DedupInv
  <2>3. Several(lvl) # {}
    BY <2>1, <2>2 DEF Several
  <2> QED
    BY <1>1, <1>2, <2>3, NextKeyThere DEF DedupInv
<1>6. Together'
  <2> SUFFICES ASSUME NEW i \in Scanned, NEW j \in Scanned, i # j, SameFile(node0[i], node0[j]),
                      ~(i \in merged /\ j \in merged)
               PROVE  \E l \in Levels : In(l, i)' /\ In(l, j)'
    BY <1>1, <1>4 DEF Together, SameFile
  <2>1. PICK l \in Levels : In(l, i) /\ In(l, j)
    BY <1>2 DEF Together
  <2>2. l # lvl
    BY <1>5, <2>1
  <2>3. In(l, i)' /\ In(l, j)'
    BY <1>1, <1>3, <2>1, <2>2 DEF In
  <2> QED
    BY <2>3
<1>7. Doubles' /\ OneKept' /\ OldestKept'
  BY <1>1, <1>2, <1>4 DEF Doubles, OneKept, OldestKept
<1>8. Emptied'
  <2>1. ASSUME lvl = 1, NEW l \in Levels PROVE tab'[l] = {}
    BY <1>1, <1>2, <1>3, <2>1 DEF Passes, EmptyBelow, Bottom, Reading, Levels
  <2> QED
    BY <1>1, <2>1 DEF Emptied
<1> QED
  BY <1>6, <1>7, <1>8

(* All tables are empty in the end, so do_dedup has had all. *)
LEMMA CloseFound ==
  ASSUME DedupInv, FoundInv, Close
  PROVE  FoundInv'
<1>1. /\ dpc = "close" /\ pc = "ready" /\ pc' = "done"
      /\ UNCHANGED <<itab, merged, kept, node0, touched, scanonly, tab, dpc>>
  BY DEF Close, Finish, tables, fsVars, history, options, passVars
<1> SUFFICES ASSUME Finding'
             PROVE  (Together /\ Doubles /\ OneKept /\ OldestKept /\ Emptied)'
  BY DEF FoundInv
<1>2. Finding /\ PassTypes /\ Together /\ Doubles /\ OneKept /\ OldestKept /\ Emptied
  BY <1>1 DEF Finding, Calm, Ended, FoundInv, DedupInv, PassInv, Stopped
<1>3. \A l \in Levels : \A i : ~In(l, i)
  BY <1>1, <1>2 DEF Emptied, In, PassTypes
<1>4. Scanned' = Scanned /\ \A i : Twins(i)' = Twins(i) /\ (Known(i)' <=> Known(i))
  BY <1>1 DEF Scanned, Known, Twins, SameFile
<1>5. Together'
  BY <1>1, <1>2, <1>3, <1>4 DEF Together, SameFile
<1>6. Doubles' /\ OneKept' /\ OldestKept' /\ Emptied'
  BY <1>1, <1>2, <1>4 DEF Doubles, OneKept, OldestKept, Emptied
<1> QED
  BY <1>5, <1>6

LEMMA StartFound ==
  ASSUME Start
  PROVE  FoundInv'
<1> DEFINE scanned == {i \in Inode : Recorded(i) # {}}
           T == {<<[owner |-> node[i].owner, size |-> Len(node[i].data)], i>> : i \in scanned}
<1>1. /\ pc' = "ready" /\ merged' = {} /\ kept' = {} /\ itab' \in Scan
      /\ dpc' = (IF scanonly' THEN "close" ELSE "iter")
      /\ tab' = [NoTable EXCEPT ![1] = T]
  BY DEF Start, StartRun
<1> SUFFICES ASSUME Finding'
             PROVE  (Together /\ Doubles /\ OneKept /\ OldestKept /\ Emptied)'
  BY DEF FoundInv
<1>2. 1 \in Levels /\ tab'[1] = T
  BY <1>1 DEF NoTable, Levels
<1>3. ASSUME NEW i \in Scanned' PROVE In(1, i)'
  <2>1. itab'[i] \in EntriesOf(i) /\ i \in Inode /\ itab'[i].names # {}
    BY <1>1 DEF Scan, Scanned, Known
  <2>2. Recorded(i) # {}
    BY <2>1 DEF EntriesOf, NoEntry
  <2>3. i \in scanned
    BY <2>1, <2>2
  <2>4. PICK e \in T : e = <<[owner |-> node[i].owner, size |-> Len(node[i].data)], i>>
    BY <2>3
  <2>5. e[2] = i
    BY <2>4
  <2> QED
    BY <1>2, <2>5 DEF In
<1>4. Together'
  <2> SUFFICES ASSUME NEW i \in Scanned', NEW j \in Scanned'
               PROVE  \E l \in Levels : In(l, i)' /\ In(l, j)'
    BY <1>1 DEF Together
  <2> QED
    BY <1>2, <1>3
<1>5. Doubles' /\ OneKept' /\ OldestKept' /\ Emptied'
  BY <1>1 DEF Doubles, OneKept, OldestKept, Emptied, Finding
<1> QED
  BY <1>4, <1>5

LEMMA StepFound ==
  ASSUME DedupInv, FoundInv, Step
  PROVE  FoundInv'
<1>1. CASE NextCluster
  <2>1. PICK k \in NextKeys(lvl) :
          /\ tab' = Without(lvl, k)
          /\ stp' = IF lvl = 1 THEN k ELSE stp
          /\ IF Covered(lvl, stp'.size)
               THEN Call(Cluster(lvl, k)) /\ UNCHANGED <<unread, dpc>>
               ELSE unread' = Cluster(lvl, k) /\ dpc' = "read" /\ UNCHANGED mergeVars
    BY <1>1 DEF NextCluster
  <2>2. pc = "ready" /\ dpc = "iter" /\ UNCHANGED <<options, lvl>>
    BY <1>1 DEF NextCluster
  <2>3. CASE Covered(lvl, stp'.size)
    <3>1. stp' = stp
      BY <2>1, <2>3 DEF Covered
    <3> QED
      BY <2>1, <2>2, <2>3, <3>1, CallFound
  <2>4. CASE ~Covered(lvl, stp'.size)
    BY <2>1, <2>2, <2>4, SplitFound
  <2> QED
    BY <2>3, <2>4
<1>2. CASE TableDone
  BY <1>2, TableDoneFound
<1>3. ASSUME NEW i \in Inode, ReadBlock(i) PROVE FoundInv'
  <2>1. /\ pc = "ready" /\ dpc = "read" /\ i \in unread /\ dpc \in Reading
        /\ dpc' = "read" /\ UNCHANGED <<mergeVars, options, lvl>>
        /\ Add(Block(lvl, Bytes(i), stp.size), i)
    BY <1>3 DEF ReadBlock, Reading
  <2> QED
    BY <2>1, ReadFound
<1>4. ASSUME pc = "ready", dpc' \in {"get", "hash", "iter", "put"}, \/ UNCHANGED lvl
                                                                    \/ unread = {},
             UNCHANGED <<mergeVars, options, tab, unread>>
      PROVE  FoundInv'
  <2>1. UNCHANGED <<itab, merged, kept, node0, touched, pc, scanonly>>
    BY <1>4 DEF mergeVars, tables, fsVars, history, options
  <2> QED
    BY <1>4, <2>1, QuietFound DEF Finding, Calm
<1>5. ASSUME NEW i \in Inode, WantHash(i) PROVE FoundInv'
  BY <1>4, <1>5 DEF WantHash
<1>6. CASE ReadDone
  BY <1>4, <1>6 DEF ReadDone
<1>7. ASSUME pc' \in {"failed", "killed"} PROVE FoundInv'
  BY <1>7 DEF FoundInv, Finding, Calm, Ended
<1>8. CASE GetUndefined
  BY <1>4, <1>7, <1>8 DEF GetUndefined, Kill
<1>9. ASSUME pc = "ready", dpc \in {"get", "hash", "put"}, dpc' = "read",
             NEW key, Add(key, cur), UNCHANGED <<mergeVars, options, lvl>>
      PROVE  FoundInv'
  <2>1. cur \in unread /\ dpc \in Reading
    BY <1>9, CurIs
  <2> QED
    BY <1>9, <2>1, ReadFound
<1>10. CASE GetHash
  BY <1>4, <1>9, <1>10 DEF GetHash
<1>11. CASE HashFile
  BY <1>4, <1>9, <1>11 DEF HashFile
<1>12. CASE PutHash
  BY <1>9, <1>12 DEF PutHash
<1>13. CASE ReadFails
  BY <1>7, <1>13 DEF ReadFails, Abort
<1>14. CASE Switch
  <2>1. UNCHANGED <<itab, merged, kept, node0, touched, pc, scanonly, tab, unread, lvl, dpc>>
    BY <1>14 DEF Switch, mergeVars, tables, fsVars, history, options, passVars
  <2> QED
    BY <2>1, QuietFound DEF Finding, Calm
<1>15. CASE Merge
  <2>1. /\ UNCHANGED <<itab, merged, kept, node0, touched, scanonly, tab, unread, lvl, dpc>>
        /\ pc \notin Ended /\ pc' # "done"
    BY <1>15 DEF Merge, MergeStep, NextVictim, NextPath, Unlink, Link, Return, AfterCount, Ended,
                 tables, fsVars, history, options, passVars
  <2> QED
    BY <2>1, QuietFound DEF Finding, Calm
<1>16. CASE Close
  BY <1>16, CloseFound
<1> QED
  BY <1>1, <1>2, <1>3, <1>5, <1>6, <1>8, <1>10, <1>11, <1>12, <1>13, <1>14, <1>15, <1>16 DEF Step

LEMMA NextFound ==
  ASSUME DedupInv, FoundInv, [Next]_dedupVars
  PROVE  FoundInv'
<1>1. CASE Start
  BY <1>1, StartFound
<1>2. CASE Step
  BY <1>2, StepFound
<1>3. CASE Killed
  BY <1>3 DEF Killed, Kill, FoundInv, Finding, Calm, Ended
<1>4. CASE OtherProcesses
  <2>1. touched' # {}
    BY <1>4, LiveChangeTouches DEF OtherProcesses, Others, DedupInv, IInv, TypeOK
  <2> QED
    BY <2>1 DEF FoundInv, Finding, Calm
<1>5. CASE Stays \/ UNCHANGED dedupVars
  <2>1. UNCHANGED <<itab, merged, kept, node0, touched, pc, scanonly, tab, unread, lvl, dpc>>
    BY <1>5 DEF Stays, Terminated, dedupVars, mergeVars, tables, fsVars, history, options, passVars
  <2> QED
    BY <2>1, QuietFound DEF Finding, Calm
<1> QED
  BY <1>1, <1>2, <1>3, <1>4, <1>5 DEF Next

--------------------------------------------------------------------------------
(* What a run has found when it ends. *)

LEMMA FoundAll ==
  ASSUME IInv, FoundInv
  PROVE  DuplicatesFound
<1> SUFFICES ASSUME Undisturbed
             PROVE  /\ merged = {i \in Scanned : Cardinality(Twins(i)) >= 2}
                    /\ \A i \in merged : Cardinality(kept \cap Twins(i)) = 1
                    /\ \A i \in kept : \A j \in Twins(i) : itab[i].mtime <= itab[j].mtime
  BY DEF DuplicatesFound
<1>1. pc = "done" /\ Together /\ Doubles /\ OneKept /\ OldestKept
  BY DEF Undisturbed, FoundInv, Finding, Calm, Ended
<1>2. ASSUME NEW i \in Scanned PROVE i \in merged <=> \E x, y \in Twins(i) : x # y
  <2>1. i \in Twins(i)
    BY <1>2, TwinsAre
  <2>2. ASSUME NEW x \in Twins(i), NEW y \in Twins(i), x # y PROVE i \in merged
    <3>1. PICK j \in Twins(i) : j # i
      BY <2>2
    <3> QED
      BY <1>1, <1>2, <3>1 DEF Together, Twins
  <2> QED
    BY <1>1, <2>1, <2>2 DEF Doubles
<1>3. ASSUME NEW i \in Scanned
      PROVE  Cardinality(Twins(i)) >= 2 <=> \E x, y \in Twins(i) : x # y
  <2>1. Twins(i) \in SUBSET Scanned
    BY DEF Twins
  <2>2. IsFiniteSet(Twins(i))
    BY <2>1, ScannedFinite, FS_Subset
  <2> QED
    BY <2>2, AtLeastTwo
<1>4. merged = {i \in Scanned : Cardinality(Twins(i)) >= 2}
  <2>1. merged \subseteq Scanned
    BY <1>1 DEF Doubles, Scanned, IInv, TypeOK
  <2> QED
    BY <1>2, <1>3, <2>1
<1>5. ASSUME NEW i \in merged PROVE Cardinality(kept \cap Twins(i)) = 1
  <2>1. PICK k \in kept : kept \cap Twins(i) = {k}
    BY <1>1 DEF OneKept
  <2>2. Cardinality({k}) = 1
    BY FS_Singleton
  <2> QED
    BY <2>1, <2>2
<1> QED
  BY <1>1, <1>4, <1>5 DEF OldestKept

(* Where a path with contents leads after such a run. *)
LEMMA LeadsToHeld ==
  ASSUME IInv, TidyInv, FoundInv, Undisturbed, ~dryrun,
         NEW p \in Tree, Exists(p), node[dir[p]].data # << >>
  PROVE  dir[p] \in Scanned \cap Held /\ node[dir[p]] = node0[dir[p]]
<1>1. /\ pc = "done" /\ touched = {} /\ Doubles /\ p \in Path
      /\ rest = {} /\ pend = {} /\ NoneNew /\ Replaced /\ ~Hanging(p)
      /\ \A i \in Inode : itab[i].names = NamesThen(i)
  BY FileSystemAssumption DEF Undisturbed, FoundInv, Finding, Calm, Ended, TidyInv, CalmOK, Merging,
         NamesAre, Hanging
<1>2. dir0[p] \in Inode /\ \A i \in Inode : node[i] = node0[i]
  BY <1>1 DEF NoneNew, Exists, IInv, TypeOK, FileSystemTypeOK, NodesIntact
<1>3. CASE dir0[p] \in Held
  <2>1. dir[p] = dir0[p]
    BY <1>1, <1>3 DEF IInv, HeldIntact, Exists
  <2>2. p \in NamesThen(dir[p])
    BY <1>2, <2>1 DEF NamesThen
  <2> QED
    BY <1>1, <1>2, <1>3, <2>1, <2>2 DEF Scanned, Known
<1>4. CASE dir0[p] \in merged \ kept
  <2>1. p \in itab[dir0[p]].names
    BY <1>1, <1>2, <1>4 DEF Doubles, Known, NamesThen
  <2>2. dir[p] \in kept
    BY <1>1, <1>4, <2>1 DEF Replaced
  <2>3. dir[p] \in merged /\ dir[p] \in Inode
    BY <2>2 DEF IInv, ClusterSound, TypeOK
  <2> QED
    BY <1>1, <1>2, <2>2, <2>3 DEF Doubles, Scanned, Held
<1> QED
  BY <1>2, <1>3, <1>4 DEF Held

LEMMA NothingLeft ==
  ASSUME IInv, TidyInv, FoundInv
  PROVE  NothingLeftToMerge
<1> SUFFICES ASSUME Undisturbed, ~dryrun, NEW p \in Tree, NEW q \in Tree, Exists(p), Exists(q),
                    node[dir[p]].data # << >>, node[dir[q]].data # << >>,
                    SameFile(node[dir[p]], node[dir[q]]), dir[p] # dir[q]
             PROVE  FALSE
  BY DEF NothingLeftToMerge
<1>1. /\ dir[p] \in Scanned \cap Held /\ node[dir[p]] = node0[dir[p]]
      /\ dir[q] \in Scanned \cap Held /\ node[dir[q]] = node0[dir[q]]
  BY LeadsToHeld
<1>2. pc = "done" /\ Together /\ OneKept
  BY DEF Undisturbed, FoundInv, Finding, Calm, Ended
<1>3. dir[p] \in merged /\ dir[q] \in merged
  BY <1>1, <1>2 DEF Together
<1>4. dir[p] \in kept \cap Twins(dir[p]) /\ dir[q] \in kept \cap Twins(dir[p])
  BY <1>1, <1>3, TwinsAre DEF Held, Twins
<1> QED
  BY <1>2, <1>3, <1>4 DEF OneKept

--------------------------------------------------------------------------------
(* The passes read only where there is something to read. *)

LEMMA SomeBytes ==
  ASSUME NEW d \in Data, NEW n \in Nat, n < Len(d)
  PROVE  BytesFrom(d, n) # << >>
<1>1. Len(d) \in Nat /\ d \in Seq({d[m] : m \in 1..Len(d)})
  BY FileSystemAssumption
<1>2. BLKSZ \in Nat \ {0}
  OBVIOUS
<1> DEFINE last == IF n + BLKSZ < Len(d) THEN n + BLKSZ ELSE Len(d)
<1>3. last \in 1..Len(d) /\ n + 1 <= last
  <2>1. Len(d) \in Nat
    BY <1>1
  <2> HIDE DedupAssumption
  <2> QED
    BY <1>2, <2>1
<1> HIDE DEF last
<1>4. Len(SubSeq(d, n + 1, last)) = last - n
  BY <1>1, <1>2, <1>3
<1>5. last - n # 0
  BY <1>1, <1>3
<1>6. ASSUME SubSeq(d, n + 1, last) = << >> PROVE FALSE
  <2>1. Len(SubSeq(d, n + 1, last)) = Len(<< >>)
    BY <1>6
  <2>2. Len(<< >>) = 0
    OBVIOUS
  <2> QED
    BY <1>4, <1>5, <2>1, <2>2
<1> QED
  BY <1>6 DEF BytesFrom, last

(* Pass 2 reads a second block only of files that have one. *)
Deep == (pc \notin Stopped /\ dpc \in Reading /\ lvl = 2) => ~(stp.size <= BLKSZ)

LEMMA NextDeep ==
  ASSUME Deep, [Next]_dedupVars
  PROVE  Deep'
<1>1. CASE NextCluster
  <2>1. PICK k \in NextKeys(lvl) :
          /\ stp' = IF lvl = 1 THEN k ELSE stp
          /\ ~Covered(lvl, stp'.size) \/ dpc' = dpc
    BY <1>1 DEF NextCluster
  <2>2. dpc = "iter" /\ UNCHANGED lvl
    BY <1>1 DEF NextCluster
  <2> QED
    BY <2>1, <2>2 DEF Deep, Covered, Reading
<1>2. CASE ~NextCluster
  <2>1. \/ dpc' \notin Reading \/ pc' \in Stopped \/ lvl' = 3
        \/ pc \notin Stopped /\ dpc \in Reading /\ UNCHANGED <<lvl, stp>>
        \/ UNCHANGED <<pc, dpc, lvl, stp>>
        \/ pc \notin Stopped /\ UNCHANGED <<dpc, lvl, stp>>
    BY <1>2 DEF Next, Step, Start, TableDone, ReadBlock, WantHash, ReadDone, GetUndefined, GetHash,
                HashFile, PutHash, ReadFails, Abort, Switch, Merge, MergeStep, NextVictim, NextPath,
                Unlink, Link, Return, Close, Killed, Kill, OtherProcesses, Others, Stays,
                Terminated, dedupVars, mergeVars, passVars, Reading, Stopped
  <2> QED
    BY <2>1 DEF Deep
<1> QED
  BY <1>1, <1>2

(* The scan records no empty file. *)
NoneEmpty == \A i \in Inode : Known(i) => node0[i].data # << >>

LEMMA NextNoneEmpty ==
  ASSUME NoneEmpty, [Next]_dedupVars
  PROVE  NoneEmpty'
<1>1. CASE StartRun
  <2> SUFFICES ASSUME NEW i \in Inode, Known(i)' PROVE node0'[i].data # << >>
    BY DEF NoneEmpty
  <2>1. itab' \in Scan /\ node0' = node
    BY <1>1 DEF StartRun
  <2>2. itab'[i] \in EntriesOf(i) /\ itab'[i].names # {}
    BY <2>1 DEF Scan, Known
  <2>3. Recorded(i) # {}
    BY <2>2 DEF EntriesOf, NoEntry
  <2> QED
    BY <2>1, <2>3 DEF Recorded
<1>2. CASE UNCHANGED <<itab, node0>>
  BY <1>2 DEF NoneEmpty, Known
<1>3. CASE OtherProcesses
  BY <1>2, <1>3 DEF OtherProcesses, Others, LiveChange, Edit, Chown, Create, Remove, Rename,
                    Change, tables, history
<1> QED
  BY <1>1, <1>2, <1>3
     DEF Next, Step, Start, NextCluster, Call, TableDone, ReadBlock, WantHash, ReadDone,
         GetUndefined, GetHash, HashFile, PutHash, ReadFails, Abort, Switch, Merge, MergeStep,
         NextVictim, NextPath, Unlink, Link, Return, Close, Finish, Killed, Kill, Stays,
         Terminated, dedupVars, mergeVars, tables, fsVars, history

LEMMA ReadsUndisturbed ==
  ASSUME DedupInv, NoneEmpty, Deep
  PROVE  ReadsFailOnlyOnDisturbed
<1> SUFFICES ASSUME pc = "ready", dpc \in {"read", "get", "hash"}, NEW i \in unread \ touched
             PROVE  /\ Reachable(i)
                    /\ lvl \in {1, 2} => Block(lvl, Bytes(i), stp.size) # << >>
  BY DEF ReadsFailOnlyOnDisturbed
<1> DEFINE d == node0[i].data
<1>1. PassTypes /\ Passes /\ dpc \in Reading
  BY DEF DedupInv, PassInv, Stopped, Reading
<1>2. In(lvl + 1, i) /\ lvl + 1 \in Levels /\ lvl + 1 >= 2
  BY <1>1 DEF PassTypes, In, Levels
<1>3. i \in Inode \ merged /\ Known(i) /\ SizeKey(i) = stp
  BY <1>1, <1>2 DEF Passes, Apart, Alike
<1>4. Reachable(i) /\ Bytes(i) = d
  BY <1>3, ReadsItself, FileSystemAssumption DEF DedupInv, Reachable, Exists, Bytes
<1>5. d \in Data /\ Len(d) \in Nat /\ stp.size = Len(d)
  BY <1>3, FileSystemAssumption DEF SizeKey, DedupInv, IInv, TypeOK, FileSystemTypeOK, File
<1>6. CASE lvl = 1
  <2>1. d # << >>
    BY <1>3 DEF NoneEmpty
  <2>2. 0 < Len(d)
    BY <1>5, <2>1
  <2> QED
    BY <1>4, <1>5, <1>6, <2>2, SomeBytes, BlocksAre
<1>7. CASE lvl = 2
  <2>1. Len(d) > BLKSZ
    BY <1>1, <1>5, <1>7 DEF Deep, Stopped
  <2>2. CASE Len(d) <= 2 * BLKSZ
    BY <1>4, <1>5, <1>7, <2>1, <2>2, SomeBytes, BlocksAre
  <2>3. CASE Len(d) > 2 * BLKSZ
    <3>1. Block(2, d, Len(d)) = BytesFrom(d, Len(d) - BLKSZ)
      BY <1>5, <2>1, <2>3 DEF Block
    <3>2. Len(d) - BLKSZ \in Nat /\ Len(d) - BLKSZ < Len(d)
      BY <1>5, <2>1
    <3> QED
      BY <1>4, <1>5, <1>7, <3>1, <3>2, SomeBytes
  <2> QED
    BY <1>5, <2>2, <2>3
<1> QED
  BY <1>4, <1>6, <1>7

LEMMA ReadsSomething ==
  ASSUME DedupInv, ReadsFailOnlyOnDisturbed, touched = {}
  PROVE  ~ReadFails
BY CurIs DEF ReadFails, ReadsFailOnlyOnDisturbed

LEMMA NextFails ==
  ASSUME DedupInv, TidyInv, ReadsFailOnlyOnDisturbed, FailsOnlyAtLinkLimit, [MergeNext]_mergeVars, [Next]_dedupVars
  PROVE  FailsOnlyAtLinkLimit'
<1> SUFFICES ASSUME pc' = "failed", touched' = {}
             PROVE  base' # NoInode /\ Cardinality(Names(base)') = MaxLinks
  BY DEF FailsOnlyAtLinkLimit
<1>1. ~OtherProcesses
  BY LiveChangeTouches DEF OtherProcesses, Others, DedupInv, IInv, TypeOK
<1>2. CASE Merge
  <2>1. MergeStep /\ touched = {}
    BY <1>2 DEF Merge, MergeStep, NextVictim, NextPath, Unlink, Link, Return, fsVars
  <2>2. base \in Inode /\ Cardinality(Names(base)) = MaxLinks /\ UNCHANGED <<dir, base>>
    BY <2>1, NextTidy DEF DedupInv
  <2> QED
    BY <2>2, FileSystemAssumption DEF Names
<1>3. CASE ReadFails
  <2>1. touched = {}
    BY <1>3 DEF ReadFails, Abort, fsVars
  <2> QED
    BY <1>3, <2>1, ReadsSomething
<1>4. CASE UNCHANGED mergeVars
  BY <1>4 DEF mergeVars, fsVars, cluster, FailsOnlyAtLinkLimit, Names
<1>5. UNCHANGED mergeVars \/ Merge \/ ReadFails
  BY <1>1 DEF Next, Start, StartRun, Step, NextCluster, Call, TableDone, ReadBlock, WantHash,
              ReadDone, GetUndefined, GetHash, HashFile, PutHash, Switch, Close, Finish, Killed,
              Kill, Stays, Terminated, dedupVars, mergeVars
<1> QED
  BY <1>2, <1>3, <1>4, <1>5

--------------------------------------------------------------------------------
(* Types, whatever others do and whether or not the cache can be trusted. *)

Typed ==
  /\ usecache \in BOOLEAN /\ scanonly \in BOOLEAN /\ cktype \in HashType
  /\ dpc \in Reading \cup {"iter", "close"}
  /\ lvl \in Levels /\ (dpc \in Reading => lvl <= 3)
  /\ dpc \in {"get", "hash", "put"} => cur \in unread /\ lvl = 3
  /\ tab = [l \in Levels |-> tab[l]]

(* What is in a table was met by the scan, and so has a path to start from. *)
AllKnown ==
  /\ \A l \in Levels : \A e \in tab[l] : e[2] \in Inode /\ Known(e[2])
  /\ \A i \in unread : i \in Inode /\ Known(i)

MergeTyped == TypeOK /\ ItabMatches /\ BaseKnown

TypeInv == MergeTyped /\ HCacheTypeOK /\ Typed /\ AllKnown

LEMMA InitTypes == Init => TypeInv
<1> SUFFICES ASSUME Init PROVE TypeInv
  OBVIOUS
<1>1. MergeInit /\ pc = "idle"
  BY DEF Init, MergeInit
<1>2. MergeTyped
  BY <1>1, InitIInv DEF IInv, MergeTyped, BaseKnown, Merging
<1>3. HCacheTypeOK
  BY DEF Init, HCacheInit, HCacheTypeOK, Readable
<1>4. Typed
  <2>1. tab = [l \in Levels |-> tab[l]] /\ 1 \in Levels
    BY DEF Init, NoTable, Levels
  <2> QED
    BY <2>1, DedupAssumption DEF Init, Typed, Reading
<1>5. AllKnown
  BY DEF Init, AllKnown, NoTable
<1> QED
  BY <1>2, <1>3, <1>4, <1>5 DEF TypeInv

(* Each call of hcache.c keeps the types of the cache. *)
HCacheNext ==
  \/ \E K : HNewAndValidate(K)
  \/ HGet \/ (\E k, h : HPut(k, h)) \/ HFree \/ HExit \/ HDie
  \/ DoneClose(TRUE) \/ DoneClose(FALSE) \/ DoneStep
  \/ UNCHANGED hcVars

LEMMA HCacheTypes ==
  ASSUME HCacheTypeOK, HCacheNext
  PROVE  HCacheTypeOK'
<1>1. ASSUME NEW K, HNewAndValidate(K) PROVE HCacheTypeOK'
  <2>1. /\ dbf' \in BOOLEAN /\ validated' \in BOOLEAN /\ hcd' = hcd /\ hstep' = "off"
        /\ hstate' \in {"reading", "validating"}
    BY <1>1 DEF HNewAndValidate, Readable
  <2>2. vdb' = vdb \/ vdb' = Keep(hcd, K) \/ vdb' = EmptyDB
    BY <1>1 DEF HNewAndValidate
  <2>3. Readable(vdb') => vdb' = [k \in DOMAIN vdb' |-> vdb'[k]]
    BY <2>2 DEF HCacheTypeOK, Keep, EmptyDB
  <2> QED
    BY <2>1, <2>3 DEF HCacheTypeOK, Readable
<1>2. ASSUME NEW k, NEW h, HPut(k, h) PROVE HCacheTypeOK'
  <2>1. hcd' = Store(hcd, k, h) /\ hstep' = "off" /\ UNCHANGED <<vdb, dbf, validated, hstate>>
    BY <1>2 DEF HPut
  <2>2. hcd' = [x \in DOMAIN hcd' |-> hcd'[x]]
    BY <2>1 DEF Store
  <2> QED
    BY <2>1, <2>2 DEF HCacheTypeOK, Readable
<1>3. CASE HGet \/ HFree \/ HExit \/ HDie \/ UNCHANGED hcVars
  BY <1>3 DEF HGet, HFree, HExit, HDie, Closed, hcVars, HCacheTypeOK, Readable
<1>4. CASE DoneClose(TRUE) \/ DoneClose(FALSE) \/ DoneUnlink \/ DoneRename
  BY <1>4 DEF DoneClose, DoneUnlink, DoneRename, HCacheTypeOK, Readable
<1>5. CASE DoneReopen
  BY <1>5 DEF DoneReopen, EmptyDB, HCacheTypeOK, Readable
<1> QED
  BY <1>1, <1>2, <1>3, <1>4, <1>5 DEF HCacheNext, DoneStep

(* The steps of the program, as do_dedup and the cache see them. *)
LEMMA StepParts ==
  ASSUME TypeInv, [Next]_dedupVars
  PROVE  (SomeCall \/ [MergeNext]_mergeVars) /\ HCacheNext
<1>1. CASE NextCluster
  <2>1. PICK k \in NextKeys(lvl) : Call(Cluster(lvl, k)) \/ UNCHANGED mergeVars
    BY <1>1 DEF NextCluster
  <2>2. Cluster(lvl, k) \subseteq Inode /\ \A i \in Cluster(lvl, k) : Known(i)
    BY DEF Cluster, TypeInv, Typed, AllKnown
  <2> QED
    BY <1>1, <2>1, <2>2 DEF NextCluster, SomeCall, HCacheNext
<1>2. CASE Start
  BY <1>2 DEF Start, MergeNext, HCacheNext
<1>3. CASE Merge
  BY <1>3 DEF Merge, MergeNext, HCacheNext
<1>4. CASE ReadFails \/ Close \/ Killed \/ OtherProcesses \/ Stays \/ GetUndefined
  BY <1>4 DEF ReadFails, Close, Killed, OtherProcesses, Stays, Terminated, GetUndefined,
              MergeNext, HCacheNext
<1>5. CASE TableDone \/ (\E i \in Inode : ReadBlock(i) \/ WantHash(i)) \/ ReadDone \/ GetHash
           \/ HashFile \/ PutHash \/ Switch
  BY <1>5 DEF TableDone, ReadBlock, WantHash, ReadDone, GetHash, HashFile, PutHash, Switch,
              HCacheNext
<1>6. CASE UNCHANGED dedupVars
  BY <1>6 DEF dedupVars, HCacheNext
<1> QED
  BY <1>1, <1>2, <1>3, <1>4, <1>5, <1>6 DEF Next, Step

(* The passes move inodes between tables, and leave the recorded paths alone. *)
LEMMA ReadTypes ==
  ASSUME Typed, AllKnown, dpc \in Reading, dpc' = "read", NEW i \in unread, NEW key, Add(key, i),
         UNCHANGED <<itab, options, lvl>>
  PROVE  Typed' /\ AllKnown'
<1>1. /\ lvl + 1 \in Levels /\ tab' = [tab EXCEPT ![lvl + 1] = @ \cup {<<key, i>>}]
      /\ unread' = unread \ {i} /\ UNCHANGED <<usecache, scanonly, cktype, lvl>>
  BY DEF Typed, Levels, Add, options
<1>2. /\ tab' = [l \in Levels |-> tab'[l]]
      /\ tab'[lvl + 1] = tab[lvl + 1] \cup {<<key, i>>}
      /\ \A l \in Levels : l # lvl + 1 => tab'[l] = tab[l]
  BY <1>1 DEF Typed
<1>3. <<key, i>>[2] = i
  OBVIOUS
<1>4. ASSUME NEW l \in Levels, NEW e \in tab'[l] PROVE e[2] \in Inode /\ Known(e[2])'
  <2>1. e \in tab[l] \/ e = <<key, i>>
    BY <1>2
  <2> QED
    BY <1>3, <2>1 DEF AllKnown, Known
<1>5. AllKnown'
  BY <1>1, <1>4 DEF AllKnown, Known
<1> QED
  BY <1>1, <1>2, <1>5 DEF Typed, Reading

LEMMA NextClusterTypes ==
  ASSUME Typed, AllKnown, NextCluster
  PROVE  Typed' /\ AllKnown'
<1>1. PICK k \in NextKeys(lvl) :
        /\ tab' = Without(lvl, k)
        /\ \/ UNCHANGED <<unread, dpc>>
           \/ unread' = Cluster(lvl, k) /\ dpc' = "read" /\ ~Covered(lvl, stp'.size)
  BY DEF NextCluster
<1>2. dpc = "iter" /\ UNCHANGED <<usecache, scanonly, cktype, lvl, itab>>
  BY DEF NextCluster, Call, options, mergeVars, tables
<1>3. /\ tab' = [l \in Levels |-> tab'[l]]
      /\ \A l \in Levels : tab'[l] \subseteq tab[l]
  BY <1>1 DEF Without, Typed
<1>4. \A i \in Cluster(lvl, k) : i \in Inode /\ Known(i)
  BY DEF Cluster, Typed, AllKnown
<1>5. dpc' = "read" => lvl <= 3
  BY <1>1, <1>2 DEF Covered, Typed, Levels
<1>6. AllKnown'
  BY <1>1, <1>2, <1>3, <1>4 DEF AllKnown, Known
<1> QED
  BY <1>1, <1>2, <1>3, <1>5, <1>6 DEF Typed, Reading

LEMMA TableDoneTypes ==
  ASSUME Typed, AllKnown, TableDone
  PROVE  Typed' /\ AllKnown'
<1>1. /\ dpc = "iter" /\ dpc' \in {"iter", "close"} /\ lvl' \in Levels
      /\ tab' = [tab EXCEPT ![lvl] = {}]
      /\ UNCHANGED <<usecache, scanonly, cktype, itab, unread>>
  BY DEF TableDone, Typed, Levels, options, mergeVars, tables
<1>2. tab' = [l \in Levels |-> tab'[l]] /\ \A l \in Levels : tab'[l] \subseteq tab[l]
  BY <1>1 DEF Typed
<1>3. AllKnown'
  BY <1>1, <1>2 DEF AllKnown, Known
<1> QED
  BY <1>1, <1>2, <1>3 DEF Typed, Reading

LEMMA StartTypes ==
  ASSUME Start
  PROVE  Typed' /\ AllKnown'
<1> DEFINE scanned == {i \in Inode : Recorded(i) # {}}
           T == {<<[owner |-> node[i].owner, size |-> Len(node[i].data)], i>> : i \in scanned}
<1>1. /\ itab' \in Scan /\ lvl' = 1 /\ unread' = {} /\ dpc' \in {"iter", "close"}
      /\ tab' = [NoTable EXCEPT ![1] = T]
      /\ usecache' \in BOOLEAN /\ scanonly' \in BOOLEAN /\ cktype' \in HashType
  BY DedupAssumption DEF Start, StartRun, GetOptions
<1>2. ASSUME NEW e \in T PROVE e[2] \in Inode /\ Known(e[2])'
  <2>1. PICK i \in scanned : e = <<[owner |-> node[i].owner, size |-> Len(node[i].data)], i>>
    OBVIOUS
  <2>2. itab'[i].names = Recorded(i)
    BY <1>1 DEF Scan, EntriesOf
  <2> QED
    BY <2>1, <2>2 DEF Known
<1> HIDE DEF T
<1>3. /\ tab' = [l \in Levels |-> tab'[l]]
      /\ \A l \in Levels : tab'[l] = T \/ tab'[l] = {}
  BY <1>1 DEF NoTable
<1>4. AllKnown'
  BY <1>1, <1>2, <1>3 DEF AllKnown
<1> QED
  BY <1>1, <1>3, <1>4 DEF Typed, Levels, Reading

LEMMA PassStepTypes ==
  ASSUME TypeInv, [Next]_dedupVars
  PROVE  Typed' /\ AllKnown'
<1>0. Typed /\ AllKnown
  BY DEF TypeInv
<1>1. CASE Start
  BY <1>1, StartTypes
<1>2. CASE NextCluster
  BY <1>0, <1>2, NextClusterTypes
<1>3. CASE TableDone
  BY <1>0, <1>3, TableDoneTypes
<1>4. ASSUME NEW i \in Inode, ReadBlock(i) PROVE Typed' /\ AllKnown'
  <2>1. /\ dpc = "read" /\ dpc' = "read" /\ i \in unread /\ UNCHANGED <<itab, options, lvl>>
        /\ Add(Block(lvl, Bytes(i), stp.size), i)
    BY <1>4 DEF ReadBlock, mergeVars, tables
  <2> QED
    BY <1>0, <2>1, ReadTypes DEF Reading
<1>5. ASSUME NEW key, Add(key, cur), dpc \in {"get", "hash", "put"}, dpc' = "read",
             UNCHANGED <<mergeVars, options, lvl>>
      PROVE  Typed' /\ AllKnown'
  <2>1. cur \in unread /\ dpc \in Reading /\ UNCHANGED itab
    BY <1>0, <1>5 DEF Typed, Reading, mergeVars, tables
  <2> QED
    BY <1>0, <1>5, <2>1, ReadTypes
<1>6. ASSUME UNCHANGED <<itab, options, tab, unread>>, lvl' \in Levels,
             dpc' \in Reading \cup {"iter", "close"}, dpc' \in Reading => lvl' <= 3,
             dpc' \in {"get", "hash", "put"} => cur' \in unread /\ lvl' = 3
      PROVE  Typed' /\ AllKnown'
  BY <1>0, <1>6 DEF Typed, AllKnown, Known, options
<1>7. ASSUME UNCHANGED <<itab, options, passVars>> PROVE Typed' /\ AllKnown'
  BY <1>0, <1>6, <1>7 DEF Typed, passVars
<1>8. CASE ReadDone
  <2>1. /\ UNCHANGED <<itab, options, tab, unread>> /\ dpc = "read" /\ lvl' = lvl + 1 /\ dpc' = "iter"
    BY <1>8 DEF ReadDone, mergeVars, tables
  <2> QED
    BY <1>0, <1>6, <2>1 DEF Typed, Levels, Reading
<1>9. ASSUME NEW i \in Inode, WantHash(i) PROVE Typed' /\ AllKnown'
  <2>1. /\ UNCHANGED <<itab, options, tab, unread>> /\ lvl = 3 /\ lvl' = 3 /\ cur' \in unread
        /\ dpc' \in {"get", "hash"}
    BY <1>9 DEF WantHash, mergeVars, tables
  <2> QED
    BY <1>6, <2>1 DEF Levels, Reading
<1>10. ASSUME UNCHANGED <<mergeVars, options, tab, unread, lvl, cur>>, dpc \in {"get", "hash", "put"},
              dpc' \in {"hash", "put"}
       PROVE  Typed' /\ AllKnown'
  <2>1. UNCHANGED itab
    BY <1>10 DEF mergeVars, tables
  <2> QED
    BY <1>0, <1>6, <1>10, <2>1 DEF Typed, Reading, Levels
<1>11. CASE GetUndefined
  <2>1. CASE dpc' = "hash" /\ UNCHANGED mergeVars
    BY <1>10, <1>11, <2>1 DEF GetUndefined
  <2>2. CASE Kill /\ UNCHANGED dpc
    BY <1>7, <1>11, <2>2 DEF GetUndefined, Kill, tables, passVars
  <2> QED
    BY <1>11, <2>1, <2>2 DEF GetUndefined
<1>12. CASE GetHash
  BY <1>5, <1>10, <1>12 DEF GetHash
<1>13. CASE HashFile
  BY <1>5, <1>10, <1>13 DEF HashFile
<1>14. CASE PutHash
  BY <1>5, <1>14 DEF PutHash
<1>15. CASE ReadFails \/ Switch \/ Merge \/ Close \/ Killed \/ OtherProcesses \/ Stays
            \/ UNCHANGED dedupVars
  <2>1. UNCHANGED <<itab, options, passVars>>
    BY <1>15 DEF ReadFails, Abort, Switch, Merge, MergeStep, NextVictim, NextPath, Unlink, Link,
                 Return, Close, Finish, Killed, Kill, OtherProcesses, Others, Stays, Terminated,
                 dedupVars, mergeVars, tables
  <2> QED
    BY <1>7, <2>1
<1> QED
  BY <1>1, <1>2, <1>3, <1>4, <1>8, <1>9, <1>11, <1>12, <1>13, <1>14, <1>15 DEF Next, Step

LEMMA NextTypes ==
  ASSUME TypeInv, [Next]_dedupVars
  PROVE  TypeInv'
<1>1. (SomeCall \/ [MergeNext]_mergeVars) /\ HCacheNext
  BY StepParts
<1>2. MergeTyped'
  BY <1>1, NextTypeOK, NextTables DEF TypeInv, MergeTyped
<1> QED
  BY <1>1, <1>2, HCacheTypes, PassStepTypes DEF TypeInv

--------------------------------------------------------------------------------
(* The theorems. *)

(* dedup_pass1 to dedup_final hand do_dedup only clusters that honour its contract      *)
(* (dedup.c:75-207): the program implements module DoDedup, for any number of files,   *)
(* any contents and block size.  Without the cache (-C, undup.c:187-188) others may     *)
(* change anything meanwhile; with it, over any number of runs and kills, edits must    *)
(* advance the mtime and nothing be created or renamed during a run.                     *)
THEOREM PassesHonourContract ==
  ASSUME TrustedWorld
  PROVE  Spec => DoDedupContract
BY Whole, PTL DEF Spec, DoDedupContract, MergeSpec

(* So a run of the whole program shows a reader of an untouched file no other         *)
(* contents, owner or permissions (undup.c:130-134, 343).                              *)
THEOREM DedupIsInvisible ==
  ASSUME TrustedWorld
  PROVE  Spec => []UntouchedPreserved
BY PassesHonourContract, MergeIsInvisible DEF DoDedupContract

(* What the program reports at the end of a run, paths and storage, is exact whatever      *)
(* clusters the passes have made (undup.c:119-129, 409-410).                                *)
THEOREM ReportsAreExact ==
  ASSUME TrustedWorld
  PROVE  Spec => [](FilesExact /\ BlocksExact)
<1>1. MergeSpec => []FilesExact
  BY FilesCounted
<1>2. MergeSpec => []BlocksExact
  BY StorageCounted
<1> QED
  BY <1>1, <1>2, PassesHonourContract, PTL DEF DoDedupContract

(* The passes never store a wrong hash, nor does one of theirs become wrong for a file    *)
(* as it is now, over any number of runs and kills (hcache.c:79-94, dedup.c:96-103),       *)
(* although do_dedup moves paths between the lookups.                                       *)
THEOREM PassesKeepCacheSound ==
  ASSUME Careful
  PROVE  Spec => []CacheSound
<1>1. ASSUME WholeInv PROVE CacheSound
  <2>1. SUFFICES ASSUME Readable(hcd), NEW i \in Files, NEW t \in HashType,
                        StatKey(i, node[i], t) \in DOMAIN hcd
                 PROVE  hcd[StatKey(i, node[i], t)] = HashOf(t, node[i].data)
    BY DEF CacheSound
  <2>2. EntrySound(StatKey(i, node[i], t), hcd[StatKey(i, node[i], t)])
    BY <1>1, <2>1 DEF WholeInv, CacheInv, Databases, DbSound, Sound
  <2> QED BY <2>2, KeyMtime DEF EntrySound
<1>2. TrustedWorld
  BY DEF TrustedWorld
<1> QED
  BY <1>1, <1>2, Whole, PTL DEF Spec

(* What holds of a run that nobody disturbs holds throughout. *)
LEMMA CalmRuns ==
  ASSUME TrustedWorld
  PROVE  Spec => [](WholeInv /\ TidyInv /\ FoundInv)
<1>1. Init => FoundInv
  BY DEF Init, MergeInit, FoundInv, Finding, Calm, Ended
<1>2. WholeInv /\ FoundInv /\ [Next]_dedupVars => FoundInv'
  BY NextFound DEF WholeInv
<1>3. MergeInit => TidyInv
  BY InitTidy
<1>4. WholeInv /\ TidyInv /\ [MergeNext]_mergeVars => TidyInv'
  BY NextTidy DEF WholeInv, DedupInv
<1> QED
  BY <1>1, <1>2, <1>3, <1>4, Whole, PTL DEF Spec

(* A run that nobody disturbs gives do_dedup exactly the files that have a duplicate,   *)
(* and each class of them is whole and keeps one oldest member (dedup.c:34-36, 75-207): *)
(* no bound on the number of files, their sizes, or the block size.                      *)
THEOREM NoDuplicateMissed ==
  ASSUME TrustedWorld
  PROVE  Spec => []DuplicatesFound
<1>1. WholeInv /\ FoundInv => DuplicatesFound
  BY FoundAll DEF WholeInv, DedupInv
<1> QED
  BY <1>1, CalmRuns, PTL

(* After such a run with -e, files of the tree with the same contents, owner and         *)
(* permissions are one inode (undup.c:98-143, 261-262), whatever links there were before. *)
THEOREM OneInodePerContents ==
  ASSUME TrustedWorld
  PROVE  Spec => []NothingLeftToMerge
<1>1. WholeInv /\ TidyInv /\ FoundInv => NothingLeftToMerge
  BY NothingLeft DEF WholeInv, DedupInv
<1> QED
  BY <1>1, CalmRuns, PTL

(* A pass ends a run only at a file that others have disturbed since the scan, whatever    *)
(* they do and however long the run (dedup.c:101, 131-160, 192): there is always something   *)
(* to read of the others, where pass 2 seeks from the end of a file too.                      *)
THEOREM OnlyDisturbedFilesStopAPass ==
  ASSUME TrustedWorld
  PROVE  Spec => []ReadsFailOnlyOnDisturbed
<1>1. Init => Deep /\ NoneEmpty
  BY DEF Init, MergeInit, NoEntry, Known, Deep, NoneEmpty, Stopped
<1>2. Deep /\ NoneEmpty /\ [Next]_dedupVars => Deep' /\ NoneEmpty'
  BY NextDeep, NextNoneEmpty
<1>3. WholeInv /\ Deep /\ NoneEmpty => ReadsFailOnlyOnDisturbed
  BY ReadsUndisturbed DEF WholeInv
<1> QED
  BY <1>1, <1>2, <1>3, Whole, PTL DEF Spec

(* A run that nobody disturbs can fail in one place only, link(2) on an inode with no     *)
(* room for another name (undup.c:133): no read of the passes comes back empty             *)
(* (dedup.c:131-160), and no path that do_dedup is to replace is gone.  A .hcd.validate      *)
(* that the scan took for a file of the tree is not such a path: module FScanner has it.      *)
THEOREM OnlyTheLinkLimitStopsARun ==
  ASSUME TrustedWorld
  PROVE  Spec => []FailsOnlyAtLinkLimit
<1>1. Init => FailsOnlyAtLinkLimit
  BY DEF Init, MergeInit, FailsOnlyAtLinkLimit
<1>2. /\ WholeInv /\ TidyInv /\ ReadsFailOnlyOnDisturbed /\ FailsOnlyAtLinkLimit
      /\ [MergeNext]_mergeVars /\ [Next]_dedupVars
      => FailsOnlyAtLinkLimit'
  BY NextFails DEF WholeInv
<1> QED
  BY <1>1, <1>2, CalmRuns, Whole, OnlyDisturbedFilesStopAPass, PTL DEF Spec

(* The tables of dedup.c and the state of do_dedup and of the cache keep their types in   *)
(* every world, also where the cache lies and files change under the program: pass 3       *)
(* hashes an inode of the cluster it reads, no loop nests deeper than level 4, and         *)
(* do_dedup has a first path for the inode it keeps (dedup.c:75-207, undup.c:111-113).      *)
THEOREM DedupTypesHold == Spec => []DedupTypeOK
<1>1. TypeInv => DedupTypeOK
  BY DEF TypeInv, MergeTyped, Typed, AllKnown, Reading, DedupTypeOK
<1> QED
  BY <1>1, InitTypes, NextTypes, PTL DEF Spec
================================================================================
