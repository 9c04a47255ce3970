------------------------------ MODULE HCacheProofs ------------------------------
(***************************************************************************)
(* What keeps the hash cache from lying, whichever client uses it.            *)
(*                                                                         *)
(* That a hash found is that of the file as it is now (CacheSound) is not     *)
(* inductive: an entry for a key that no file has now may get one again.  The  *)
(* strengthening, Sound, speaks of every entry, by the mtime in its key alone: *)
(* no file goes back to an earlier mtime, and one that has not left the mtime  *)
(* holds what was hashed.  It is about both files, through the switch.         *)
(***************************************************************************)
EXTENDS HCache, FileSystemProofs

USE FileSystemAssumption, HCacheAssumption

(* Every edit advances the mtime of its file, and while the program runs nothing is  *)
(* created or renamed.                                                                *)
Careful == ~RacyEdits /\ LiveKinds \cap {"create", "rename"} = {}

EntrySound(k, h) ==
  /\ k.inode \in Inode
  /\ k.mtime \in Nat
  /\ k.mtime <= node[k.inode].mtime
  /\ k.mtime = node[k.inode].mtime => h = HashOf(k.cktype, node[k.inode].data)

Sound(d) ==
  /\ d = [k \in DOMAIN d |-> d[k]]
  /\ \A k \in DOMAIN d : EntrySound(k, d[k])

DbSound(d) == Readable(d) => Sound(d)

HandlesSound ==
  /\ dbf => Sound(hcd)
  /\ validated => Sound(vdb)
  /\ hstep \in {"unlink", "rename"} => Sound(vdb)
  /\ hstep \in {"unlink", "rename", "reopen"} => ~dbf /\ ~validated

Databases == DbSound(hcd) /\ DbSound(vdb) /\ HandlesSound /\ HCacheTypeOK

--------------------------------------------------------------------------------
(* Databases. *)

LEMMA StoreSound ==
  ASSUME NEW d, NEW k, NEW h, Sound(d), EntrySound(k, h)
  PROVE  Sound(Store(d, k, h))
<1> DEFINE e == Store(d, k, h)
<1>1. e = [x \in DOMAIN d \cup {k} |-> IF x = k THEN h ELSE d[x]]
  BY DEF Store
<1> HIDE DEF e
<1>2. /\ DOMAIN e = DOMAIN d \cup {k}
      /\ \A x \in DOMAIN d \cup {k} : e[x] = IF x = k THEN h ELSE d[x]
      /\ e = [x \in DOMAIN e |-> e[x]]
  BY <1>1
<1>3. \A x \in DOMAIN e : EntrySound(x, e[x])
  BY <1>2 DEF Sound
<1> QED BY <1>2, <1>3 DEF Sound, e

LEMMA EmptySound == Sound(EmptyDB)
BY DEF Sound, EmptyDB

(* A file moves on; what an entry says of it stays true or stops mattering. *)
LEMMA TimePreservesEntries ==
  ASSUME FileSystemTypeOK, FileSystemTypeOK', TimeFrame
  PROVE  \A k, h : EntrySound(k, h) => EntrySound(k, h)'
<1>1. \A i \in Inode : node[i].mtime \in Nat /\ node'[i].mtime \in Nat
  BY DEF FileSystemTypeOK, File
<1> QED BY <1>1 DEF EntrySound, TimeFrame

(* Steps that leave the files alone. *)
LEMMA SameNode ==
  ASSUME UNCHANGED node
  PROVE  \A k, h : EntrySound(k, h)' <=> EntrySound(k, h)
BY DEF EntrySound

(* What lstat(2) gave the scan makes a key of the inode, as old as that. *)
LEMMA KeyMtime ==
  ASSUME NEW i, NEW f, NEW t
  PROVE  LET k == StatKey(i, f, t)
         IN  k.inode = i /\ k.mtime = f.mtime /\ k.cktype = t
BY DEF StatKey, GenKey

--------------------------------------------------------------------------------
(* The steps of _hcache_validate_done, and the end of the process. *)

LEMMA SwitchSound ==
  ASSUME Databases, DoneClose(TRUE) \/ DoneClose(FALSE) \/ DoneStep, UNCHANGED node
  PROVE  Databases'
<1> USE DEF Databases, HandlesSound, HCacheTypeOK, DbSound, Readable
<1>1. CASE DoneClose(TRUE) \/ DoneClose(FALSE)
  BY <1>1, SameNode DEF DoneClose, Sound
<1>2. CASE DoneUnlink
  <2>1. /\ hcd' = NoDB /\ hstep = "unlink" /\ hstep' = "rename"
        /\ UNCHANGED <<vdb, dbf, validated, hstate>>
    BY <1>2 DEF DoneUnlink
  <2>2. Sound(vdb) /\ Sound(vdb)'
    BY <2>1, SameNode DEF Sound
  <2> QED BY <2>1, <2>2
<1>3. CASE DoneRename
  <2>1. /\ hcd' = vdb /\ vdb' = NoDB /\ hstep = "rename" /\ hstep' = "reopen"
        /\ UNCHANGED <<dbf, validated, hstate>>
    BY <1>3 DEF DoneRename
  <2>2. Sound(hcd)'
    BY <2>1, SameNode DEF Sound
  <2> QED BY <2>1, <2>2
<1>4. CASE DoneReopen
  <2>1. CASE hcd = NoDB
    <3>1. /\ hcd' = EmptyDB /\ hstep' = "ready" /\ hstate' = "rdwr" /\ dbf' = TRUE
          /\ UNCHANGED <<vdb, validated>>
      BY <1>4, <2>1 DEF DoneReopen
    <3>2. Sound(hcd)'
      BY <3>1 DEF Sound, EmptyDB
    <3> QED BY <3>1, <3>2, SameNode DEF Sound
  <2>2. CASE hcd # NoDB
    BY <1>4, <2>2, SameNode DEF DoneReopen, Sound
  <2> QED BY <2>1, <2>2
<1> QED BY <1>1, <1>2, <1>3, <1>4 DEF DoneStep

LEMMA DieSound ==
  ASSUME Databases, HDie, UNCHANGED node
  PROVE  Databases'
<1>1. /\ hcd' = hcd \/ hcd' = BadDB
      /\ vdb' = vdb /\ dbf' = FALSE /\ validated' = FALSE
      /\ hstate' = "closed" /\ hstep' = "off"
  BY DEF HDie, Closed
<1> QED BY <1>1, SameNode
        DEF Databases, HandlesSound, HCacheTypeOK, Readable, DbSound, Sound

(* A call that reads, a program that lets go, or one that does nothing to the cache. *)
LEMMA CallSound ==
  ASSUME Databases, UNCHANGED <<node, hcd, vdb, validated>>,
         dbf' = dbf \/ dbf' = FALSE, hstate' \in {hstate, "closed"},
         hstep' = "off" \/ UNCHANGED <<hstep, dbf>>
  PROVE  Databases'
<1>1. (Sound(hcd) => Sound(hcd)') /\ (Sound(vdb) => Sound(vdb)')
  BY SameNode DEF Sound
<1>2. DbSound(hcd)' /\ DbSound(vdb)'
  BY <1>1 DEF Databases, DbSound, Readable
<1>3. HandlesSound'
  BY <1>1 DEF Databases, HandlesSound
<1>4. HCacheTypeOK'
  BY DEF Databases, HCacheTypeOK, Readable
<1> QED BY <1>2, <1>3, <1>4 DEF Databases

(* Other processes change files, but not the cache. *)
LEMMA OthersSound ==
  ASSUME Databases, FileSystemTypeOK, FileSystemTypeOK', TimeFrame, UNCHANGED hcVars
  PROVE  Databases'
<1>1. \A k, h : EntrySound(k, h) => EntrySound(k, h)'
  BY TimePreservesEntries
<1> QED
  BY <1>1 DEF hcVars, Databases, HandlesSound, DbSound, Sound, Readable, HCacheTypeOK

(* hcache_put of a true hash. *)
LEMMA PutSound ==
  ASSUME Databases, NEW k, NEW h, HPut(k, h), EntrySound(k, h), UNCHANGED node
  PROVE  Databases'
<1>1. Sound(Store(hcd, k, h))
  BY StoreSound DEF HPut, Databases, HandlesSound
<1>2. Sound(hcd)'
  BY <1>1, SameNode DEF HPut, Sound
<1> QED
  BY <1>2, SameNode
     DEF HPut, Databases, HandlesSound, DbSound, Sound, Readable, HCacheTypeOK

(* hcache_new and the validation of all that the scan finds. *)
LEMMA KeepSound ==
  ASSUME NEW d, NEW K, Sound(d)
  PROVE  Sound(Keep(d, K))
<1> DEFINE e == Keep(d, K)
<1>1. e = [x \in DOMAIN d \cap K |-> d[x]]
  BY DEF Keep
<1> HIDE DEF e
<1>2. DOMAIN e = DOMAIN d \cap K /\ e = [x \in DOMAIN e |-> e[x]]
  BY <1>1
<1>3. \A x \in DOMAIN e : EntrySound(x, e[x])
  BY <1>1, <1>2 DEF Sound
<1> QED BY <1>2, <1>3 DEF Sound, e

LEMMA ValidateSound ==
  ASSUME Databases, NEW K, HNewAndValidate(K), UNCHANGED node
  PROVE  Databases'
<1>1. /\ dbf' = Readable(hcd) /\ hcd' = hcd /\ hstep' = "off" /\ validated' = (K # {})
      /\ vdb' = IF K = {} THEN vdb ELSE IF Readable(hcd) THEN Keep(hcd, K) ELSE EmptyDB
      /\ hstate' \in {"reading", "validating"}
  BY DEF HNewAndValidate
<1>2. Sound(hcd)' <=> Sound(hcd)
  BY <1>1, SameNode DEF Sound
<1>3. K # {} => Sound(vdb')
  BY <1>1, KeepSound, EmptySound DEF Databases, DbSound
<1>4. K # {} => Sound(vdb)'
  BY <1>3, SameNode DEF Sound
<1>5. K = {} => (DbSound(vdb)' <=> DbSound(vdb))
  BY <1>1, SameNode DEF DbSound, Sound
<1>6. DbSound(hcd)' /\ DbSound(vdb)'
  BY <1>1, <1>2, <1>4, <1>5 DEF Databases, DbSound
<1>7. HandlesSound'
  BY <1>1, <1>2, <1>4 DEF Databases, DbSound, HandlesSound
<1>8. HCacheTypeOK'
  BY <1>1, <1>6 DEF HCacheTypeOK, DbSound, Sound, Readable
<1> QED BY <1>6, <1>7, <1>8 DEF Databases
================================================================================
