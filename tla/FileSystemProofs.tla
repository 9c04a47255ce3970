---------------------------- MODULE FileSystemProofs ----------------------------
(***************************************************************************)
(* What the proofs about undup use of the changes other processes make, which *)
(* open the actions of FileSystem no more, and of the number of names that an  *)
(* inode has.                                                                   *)
(***************************************************************************)
EXTENDS FileSystem, FiniteSetTheorems, TLAPS

USE FileSystemAssumption

(* What a change by others can do, all of undup's reasoning needs of it. *)
OthersFrame ==
  /\ FileSystemTypeOK'
  /\ UNCHANGED history
  /\ touched \subseteq touched' /\ moved \subseteq moved'
  /\ \A i \in Inode \ touched' : node'[i] = node[i]
  /\ \A p \in Path :
       \/ dir'[p] = dir[p]
       \/ /\ p \in moved'
          /\ dir[p] \in touched' \cup {NoInode}
          /\ dir'[p] \in touched' \cup {NoInode}

LEMMA LiveChangeFrame ==
  ASSUME FileSystemTypeOK, NEW kinds, LiveChange(kinds)
  PROVE  OthersFrame
<1> USE DEF FileSystemTypeOK, OthersFrame, Change, history, File, Exists
<1>1. ASSUME NEW i \in Inode, Edit(i) PROVE OthersFrame
  <2>1. PICK d \in Data, m \in Mtime :
             node' = [node EXCEPT ![i].data = d, ![i].mtime = m]
    BY <1>1 DEF Edit
  <2>2. node' \in [Inode -> File] /\ \A j \in Inode \ {i} : node'[j] = node[j]
    BY <2>1
  <2>3. /\ touched' = touched \cup {i} /\ moved' = moved /\ changes' \in Nat
        /\ UNCHANGED <<dir, dir0, node0>>
    BY <1>1 DEF Edit
  <2> QED BY <2>2, <2>3
<1>2. ASSUME NEW i \in Inode, Chown(i) PROVE OthersFrame
  <2>1. PICK o \in Owner : node' = [node EXCEPT ![i].owner = o]
    BY <1>2 DEF Chown
  <2>2. node' \in [Inode -> File] /\ \A j \in Inode \ {i} : node'[j] = node[j]
    BY <2>1
  <2>3. /\ touched' = touched \cup {i} /\ moved' = moved /\ changes' \in Nat
        /\ UNCHANGED <<dir, dir0, node0>>
    BY <1>2 DEF Chown
  <2> QED BY <2>2, <2>3
<1>3. ASSUME NEW p \in Path, Remove(p) PROVE OthersFrame
  BY <1>3 DEF Remove
<1>4. ASSUME NEW p \in Path, NEW i \in Inode, Create(p, i) PROVE OthersFrame
  <2>1. node' \in [Inode -> File] /\ \A j \in Inode \ {i} : node'[j] = node[j]
    BY <1>4 DEF Create
  <2>2. /\ dir' = [dir EXCEPT ![p] = i] /\ changes' \in Nat
        /\ touched' = touched \cup ({dir[p], i} \ {NoInode}) /\ moved' = moved \cup {p}
        /\ UNCHANGED <<dir0, node0>>
    BY <1>4 DEF Create
  <2> QED BY <2>1, <2>2
<1>5. ASSUME NEW p \in Path, NEW q \in Path, Rename(p, q) PROVE OthersFrame
  <2>1. /\ dir' = [dir EXCEPT ![p] = NoInode, ![q] = dir[p]] /\ changes' \in Nat
        /\ touched' = touched \cup ({dir[p], dir[q]} \ {NoInode})
        /\ moved' = moved \cup {p, q}
        /\ UNCHANGED <<node, dir0, node0>>
    BY <1>5 DEF Rename
  <2> QED BY <2>1
<1> QED BY <1>1, <1>2, <1>3, <1>4, <1>5 DEF LiveChange

(* While no edit leaves or sets back an mtime, a file whose mtime is what it was  *)
(* holds what it held, and mtimes only grow.                                      *)
TimeFrame ==
  \A i \in Inode :
    /\ node[i].mtime <= node'[i].mtime
    /\ node'[i].mtime = node[i].mtime => node'[i].data = node[i].data

LEMMA LiveChangeTime ==
  ASSUME FileSystemTypeOK, ~RacyEdits, NEW kinds, LiveChange(kinds)
  PROVE  TimeFrame
<1>1. \A i \in Inode : node[i] \in File /\ node[i].mtime \in Nat
  BY DEF FileSystemTypeOK, File
<1>2. ASSUME NEW i \in Inode, Edit(i) PROVE TimeFrame
  <2>1. PICK d \in Data, m \in Mtime :
             m > node[i].mtime /\ node' = [node EXCEPT ![i].data = d, ![i].mtime = m]
    BY <1>2 DEF Edit, Advances
  <2>2. node'[i].mtime = m /\ \A j \in Inode \ {i} : node'[j] = node[j]
    BY <1>1, <2>1 DEF FileSystemTypeOK, File
  <2>3. m \in Nat /\ m > node[i].mtime
    BY <2>1
  <2>4. node[i].mtime < node'[i].mtime /\ node'[i].mtime # node[i].mtime
    BY <1>1, <2>2, <2>3
  <2> QED BY <1>1, <2>2, <2>4 DEF TimeFrame
<1>3. ASSUME NEW i \in Inode, Chown(i) PROVE TimeFrame
  <2>1. PICK o \in Owner : node' = [node EXCEPT ![i].owner = o]
    BY <1>3 DEF Chown
  <2>2. /\ node'[i].mtime = node[i].mtime /\ node'[i].data = node[i].data
        /\ \A j \in Inode \ {i} : node'[j] = node[j]
    BY <1>1, <2>1 DEF FileSystemTypeOK, File
  <2> QED BY <1>1, <2>2 DEF TimeFrame
<1>4. ASSUME NEW p \in Path, NEW i \in Inode, Create(p, i) PROVE TimeFrame
  <2>1. PICK f \in File : f.mtime > node[i].mtime /\ node' = [node EXCEPT ![i] = f]
    BY <1>4 DEF Create, Advances
  <2>2. node'[i] = f /\ \A j \in Inode \ {i} : node'[j] = node[j]
    BY <2>1 DEF FileSystemTypeOK
  <2>3. f.mtime \in Nat
    BY DEF File
  <2> QED BY <1>1, <2>1, <2>2, <2>3 DEF TimeFrame
<1>5. ASSUME UNCHANGED node PROVE TimeFrame
  BY <1>1, <1>5 DEF TimeFrame
<1> QED BY <1>2, <1>3, <1>4, <1>5 DEF LiveChange, Remove, Rename

(* While nothing is created or renamed, a path names what it named, or nothing. *)
NameFrame == \A p \in Path : dir'[p] \in {dir[p], NoInode}

LEMMA LiveChangeNames ==
  ASSUME FileSystemTypeOK, NEW kinds, kinds \cap {"create", "rename"} = {},
         LiveChange(kinds)
  PROVE  NameFrame
<1>1. \/ \E i \in Inode : Edit(i) \/ Chown(i)
      \/ \E p \in Path : Remove(p)
  BY DEF LiveChange
<1>2. CASE \E i \in Inode : Edit(i) \/ Chown(i)
  BY <1>2 DEF Edit, Chown, NameFrame
<1>3. CASE \E p \in Path : Remove(p)
  BY <1>3 DEF Remove, NameFrame, FileSystemTypeOK
<1> QED BY <1>1, <1>2, <1>3
(* A change by others leaves its mark: there is an inode it has touched. *)
LEMMA LiveChangeTouches ==
  ASSUME FileSystemTypeOK, NEW kinds, LiveChange(kinds)
  PROVE  touched' # {}
<1>1. \A p \in Path : Exists(p) => dir[p] \in Inode
  BY DEF FileSystemTypeOK, Exists
<1>2. ASSUME NEW i \in Inode, Edit(i) \/ Chown(i) PROVE touched' # {}
  BY <1>2 DEF Edit, Chown, Change
<1>3. ASSUME NEW p \in Path, Remove(p) PROVE touched' # {}
  BY <1>1, <1>3 DEF Remove, Change
<1>4. ASSUME NEW p \in Path, NEW i \in Inode, Create(p, i) PROVE touched' # {}
  BY <1>4 DEF Create, Change
<1>5. ASSUME NEW p \in Path, NEW q \in Path, Rename(p, q) PROVE touched' # {}
  BY <1>1, <1>5 DEF Rename, Change
<1> QED
  BY <1>2, <1>3, <1>4, <1>5 DEF LiveChange

--------------------------------------------------------------------------------
(* No inode has more names than the file system allows. *)

LinksFit == \A i \in Inode : Cardinality(Names(i)) <= MaxLinks

LEMMA NamesCount ==
  ASSUME NEW i
  PROVE  IsFiniteSet(Names(i)) /\ Cardinality(Names(i)) \in Nat
BY FS_Subset, FS_CardinalityType DEF Names

LEMMA FewerNames ==
  ASSUME LinksFit, NEW i \in Inode, \A p \in Path : dir'[p] = i => dir[p] = i
  PROVE  Cardinality(Names(i)') <= MaxLinks
<1>1. Names(i)' \in SUBSET Names(i)
  BY DEF Names
<1>2. Cardinality(Names(i)') <= Cardinality(Names(i)) /\ IsFiniteSet(Names(i)')
  BY <1>1, NamesCount, FS_Subset
<1>3. Cardinality(Names(i)') \in Nat /\ Cardinality(Names(i)) \in Nat
  BY <1>2, NamesCount, FS_CardinalityType
<1> QED
  BY <1>2, <1>3 DEF LinksFit

LEMMA LinkedNames ==
  ASSUME LinksFit, dir \in [Path -> Inode \cup {NoInode}], NEW p \in Path, NEW q \in Path,
         CanLink(p, q), LinkPath(p, q)
  PROVE  LinksFit'
<1>1. PICK i \in Inode : /\ i = dir[p] /\ dir[q] = NoInode
                        /\ Cardinality(Names(i)) < MaxLinks /\ dir' = [dir EXCEPT ![q] = i]
  BY DEF CanLink, LinkPath, Exists
<1>2. \A r \in Path : dir'[r] = IF r = q THEN i ELSE dir[r]
  BY <1>1
<1>3. ASSUME NEW j \in Inode, j # i PROVE Cardinality(Names(j)') <= MaxLinks
  BY <1>2, <1>3, FewerNames
<1>4. Cardinality(Names(i)') <= MaxLinks
  <2>1. Names(i)' = Names(i) \cup {q} /\ q \notin Names(i)
    BY <1>1, <1>2 DEF Names
  <2>2. Cardinality(Names(i) \cup {q}) = Cardinality(Names(i)) + 1
    BY <2>1, NamesCount, FS_AddElement
  <2> QED
    BY <1>1, <2>1, <2>2, NamesCount
<1> QED
  BY <1>3, <1>4 DEF LinksFit

LEMMA LiveChangeLinks ==
  ASSUME FileSystemTypeOK, LinksFit, NEW kinds, LiveChange(kinds)
  PROVE  LinksFit'
<1> USE DEF FileSystemTypeOK
<1>1. ASSUME NEW i \in Inode, Edit(i) \/ Chown(i) PROVE LinksFit'
  BY <1>1 DEF Edit, Chown, LinksFit, Names
<1>2. ASSUME NEW p \in Path, Remove(p) PROVE LinksFit'
  <2>1. \A j \in Inode, r \in Path : dir'[r] = j => dir[r] = j
    BY <1>2 DEF Remove
  <2> QED
    BY <2>1, FewerNames DEF LinksFit
<1>3. ASSUME NEW p \in Path, NEW i \in Inode, Create(p, i) PROVE LinksFit'
  <2>1. Names(i) = {} /\ \A r \in Path : dir'[r] = IF r = p THEN i ELSE dir[r]
    BY <1>3 DEF Create, Files
  <2>2. ASSUME NEW j \in Inode, j # i PROVE Cardinality(Names(j)') <= MaxLinks
    BY <2>1, <2>2, FewerNames
  <2>3. Names(i)' = {p}
    BY <2>1 DEF Names
  <2>4. Cardinality({p}) = 1
    BY FS_Singleton
  <2>5. Cardinality(Names(i)') <= MaxLinks
    BY <2>3, <2>4
  <2> QED
    BY <2>2, <2>5 DEF LinksFit
<1>4. ASSUME NEW p \in Path, NEW q \in Path, Rename(p, q) PROVE LinksFit'
  <2>1. PICK i \in Inode : /\ i = dir[p] /\ dir[q] # i
                          /\ dir' = [dir EXCEPT ![p] = NoInode, ![q] = i]
    BY <1>4 DEF Rename, Exists
  <2>2. \A r \in Path : dir'[r] = IF r = q THEN i ELSE IF r = p THEN NoInode ELSE dir[r]
    BY <2>1
  <2>3. p \in Names(i) /\ q \notin Names(i)
    BY <2>1 DEF Names
  <2>4. ASSUME NEW j \in Inode, j # i PROVE Cardinality(Names(j)') <= MaxLinks
    BY <2>2, <2>4, FewerNames
  <2>5. Cardinality(Names(i)') <= MaxLinks
    <3> DEFINE N == Names(i) \ {p}
    <3>1. IsFiniteSet(N) /\ Cardinality(N) = Cardinality(Names(i)) - 1
      BY <2>3, NamesCount, FS_RemoveElement
    <3>2. Names(i)' = N \cup {q} /\ q \notin N
      BY <2>1, <2>2, <2>3 DEF Names
    <3> HIDE DEF N
    <3>3. Cardinality(N \cup {q}) = Cardinality(N) + 1
      BY <3>1, <3>2, FS_AddElement
    <3>4. Cardinality(Names(i)) \in Nat /\ Cardinality(Names(i)) <= MaxLinks
      BY <2>1, NamesCount DEF LinksFit
    <3> QED
      BY <3>1, <3>2, <3>3, <3>4
  <2> QED
    BY <2>4, <2>5 DEF LinksFit
<1> QED
  BY <1>1, <1>2, <1>3, <1>4 DEF LiveChange
================================================================================
