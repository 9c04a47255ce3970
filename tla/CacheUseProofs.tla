----------------------------- MODULE CacheUseProofs -----------------------------
(***************************************************************************)
(* The hash cache never holds a wrong hash for a file as it is now, for every *)
(* tree, number of runs, kill and change by others, provided that             *)
(*  - every edit advances the file's mtime (RacyEdits is FALSE),               *)
(*  - nothing is created over or renamed to a path while a run is on, and       *)
(*  - read(2) does not fail in the middle of a file.                            *)
(* MCCacheUse shows each of the three to be needed.                             *)
(*                                                                         *)
(* To the soundness of the databases (HCacheProofs) the invariant adds that    *)
(* what the scan recorded of an inode is no younger than it, and that a hash    *)
(* waiting to be stored is right unless the mtime has moved since.              *)
(*                                                                         *)
(* The second half is about the switch of the cache's files, whatever others    *)
(* do to the tree and wherever runs are killed: once a run has its database,     *)
(* that is what the scan validated, neither more nor less.  Before the switch    *)
(* .hcd is as the run found it and .hcd.validate has what is to be kept of it;   *)
(* from the rename on .hcd has that.  While _hcache_validate_done is between     *)
(* the two, only .hcd.validate does.                                             *)
(***************************************************************************)
EXTENDS CacheUse, HCacheProofs

USE FileSystemAssumption, HCacheAssumption, CacheUseAssumption

CarefulWorld == Careful /\ ~ReadErrors

RecSound ==
  upc \in Running =>
    \A i \in Inode : Met(i) =>
      /\ rec[i].stat.mtime <= node[i].mtime
      /\ dir[rec[i].path] \in {i, NoInode}

HashSound ==
  (upc = "put" /\ rec[cur].stat.mtime = node[cur].mtime)
    => hval = HashOf(cktype, node[cur].data)

IInv ==
  /\ TypeOK
  /\ Databases
  /\ upc = "scan" => hstep = "off"
  /\ RecSound
  /\ HashSound

--------------------------------------------------------------------------------
(* The inductive invariant. *)

LEMMA InitIInv == Init => IInv
<1> SUFFICES ASSUME Init PROVE IInv
  OBVIOUS
<1> USE DEF Init
<1>1. Databases
  BY DEF HCacheInit, Databases, DbSound, HandlesSound, HCacheTypeOK, Readable
<1>2. TypeOK
  BY <1>1 DEF FileSystemInit, TypeOK, FileSystemTypeOK, Databases, Stopped
<1>3. RecSound /\ HashSound
  BY DEF RecSound, HashSound, Running
<1> QED BY <1>1, <1>2, <1>3 DEF IInv

(* Steps that only move the program on, or end it. *)
LEMMA ControlIInv ==
  ASSUME IInv, Databases', UNCHANGED <<fsVars, local>>,
         upc' \in {"failed", "faulted", "killed", "use", "hash", "free", "done"} \/ upc' = upc,
         upc' = "scan" => hstep' = "off",
         upc' = "hash" => upc \in {"get", "hash"},
         upc' \in Running => upc \in Running
  PROVE  IInv'
<1>1. TypeOK'
  BY DEF IInv, TypeOK, FileSystemTypeOK, File, fsVars, local, Stopped, Running, Databases, Met
<1>2. RecSound' /\ HashSound'
  BY DEF IInv, RecSound, HashSound, fsVars, local, Running, Met
<1> QED BY <1>1, <1>2 DEF IInv

LEMMA StartIInv ==
  ASSUME IInv, Start
  PROVE  IInv'
<1>1. /\ upc' = "scan" /\ rec' = [i \in Inode |-> NoRec] /\ hstep' = "off"
      /\ UNCHANGED <<dir, node, changes, hcd, vdb>>
  BY DEF Start, HNew
<1>2. Databases'
  BY <1>1, SameNode
     DEF Start, HNew, IInv, Databases, HandlesSound, DbSound, Sound, Readable,
         HCacheTypeOK
<1>3. TypeOK'
  BY <1>1, <1>2
     DEF Start, IInv, TypeOK, FileSystemTypeOK, File, Databases, Running
<1>4. RecSound' /\ HashSound'
  BY <1>1 DEF RecSound, HashSound, Met
<1> QED BY <1>1, <1>2, <1>3, <1>4 DEF IInv

LEMMA ScanEntryIInv ==
  ASSUME IInv, NEW p \in Path, ScanEntry(p)
  PROVE  IInv'
<1> DEFINE i == dir[p]
<1> USE DEF IInv
<1>1. /\ upc = "scan" /\ upc' = "scan" /\ hstep = "off" /\ i \in Inode /\ p \in Tree
      /\ UNCHANGED <<dir, node, dir0, node0, touched, moved, changes>>
      /\ UNCHANGED <<cktype, cur, hval, runs>> /\ todo' \subseteq Tree
  BY DEF ScanEntry, Exists, TypeOK, FileSystemTypeOK, fsVars
<1>2. node[i] \in File /\ node[i].mtime \in Nat
  BY <1>1 DEF TypeOK, FileSystemTypeOK, File
<1>3. CASE Met(i) \/ node[i].data = << >>
  <2>1. UNCHANGED <<rec, hcd, vdb, dbf, validated, hstate, hstep>>
    BY <1>3 DEF ScanEntry, hcVars
  <2>2. Databases'
    BY <1>1, <2>1, SameNode
       DEF Databases, HandlesSound, DbSound, Sound, Readable, HCacheTypeOK
  <2>3. TypeOK'
    BY <1>1, <2>1, <2>2 DEF TypeOK, FileSystemTypeOK, File, Databases, Running
  <2>4. RecSound' /\ HashSound'
    BY <1>1, <2>1 DEF RecSound, HashSound, Met
  <2> QED BY <1>1, <2>1, <2>2, <2>3, <2>4
<1>4. CASE ~Met(i) /\ node[i].data # << >>
  <2> DEFINE k == StatKey(i, node[i], cktype)
  <2>1. /\ rec' = [rec EXCEPT ![i] = [path |-> p, stat |-> node[i]]]
        /\ HValidate(k)
    BY <1>4 DEF ScanEntry
  <2> HIDE DEF k
  <2>2. Sound(Validating)
    BY EmptySound DEF Validating, Databases, HandlesSound
  <2>3. Sound(vdb')
    BY <2>1, <2>2, StoreSound DEF HValidate, Databases, HandlesSound, Sound
  <2>4. Sound(vdb)'
    BY <1>1, <2>3, SameNode DEF Sound
  <2>5. Databases'
    BY <1>1, <2>1, <2>4, SameNode
       DEF HValidate, Databases, HandlesSound, DbSound, Sound, Readable, HCacheTypeOK
  <2>6. TypeOK'
    BY <1>1, <1>2, <2>1, <2>5 DEF TypeOK, FileSystemTypeOK, File, Databases, Running
  <2>7. RecSound' /\ HashSound'
    BY <1>1, <1>2, <2>1 DEF RecSound, HashSound, Met, TypeOK
  <2> QED BY <1>1, <2>1, <2>5, <2>6, <2>7 DEF HValidate
<1> QED BY <1>3, <1>4

LEMMA LookupIInv ==
  ASSUME IInv, NEW i \in Inode, Lookup(i)
  PROVE  IInv'
<1> USE DEF IInv
<1>1. /\ upc' = "get" /\ cur' = i /\ Met(i)
      /\ UNCHANGED <<fsVars, hcVars, dir, node, rec, cktype, runs, todo>>
      /\ UNCHANGED <<hcd, vdb, dbf, validated, hstate, hstep>>
      /\ UNCHANGED <<dir0, node0, touched, moved, changes>>
      /\ upc = "use"
  BY DEF Lookup, fsVars, hcVars
<1>2. Databases'
  BY <1>1, SameNode DEF Databases, HandlesSound, DbSound, Sound, Readable, HCacheTypeOK
<1>3. TypeOK'
  BY <1>1, <1>2 DEF TypeOK, FileSystemTypeOK, File, Databases, Running, Met
<1>4. RecSound' /\ HashSound'
  BY <1>1 DEF RecSound, HashSound, Met, Running
<1> QED BY <1>1, <1>2, <1>3, <1>4

(* The recorded path names the inode it was recorded for, so its hash is read.  *)
LEMMA HashFileIInv ==
  ASSUME IInv, CarefulWorld, HashFile
  PROVE  IInv'
<1> USE DEF IInv
<1>1. /\ upc = "hash" /\ upc' = "put"
      /\ UNCHANGED <<dir, node, dir0, node0, touched, moved, changes>>
      /\ UNCHANGED <<hcd, vdb, dbf, validated, hstate, hstep>>
      /\ UNCHANGED <<todo, rec, cktype, cur, runs>>
      /\ cur \in Inode /\ Met(cur)
  BY DEF HashFile, fsVars, hcVars, TypeOK
<1>2. dir[rec[cur].path] = cur
  BY <1>1 DEF HashFile, Exists, RecSound, Running
<1>3. hval' = HashOf(cktype, node[cur].data)
  BY <1>1, <1>2 DEF HashFile, Read, CarefulWorld
<1>4. Databases'
  BY <1>1, SameNode DEF Databases, HandlesSound, DbSound, Sound, Readable, HCacheTypeOK
<1>5. TypeOK'
  BY <1>1, <1>4 DEF TypeOK, FileSystemTypeOK, File, Databases, Running, Met
<1>6. RecSound' /\ HashSound'
  BY <1>1, <1>3 DEF RecSound, HashSound, Met, Running
<1> QED BY <1>1, <1>4, <1>5, <1>6

LEMMA PutHashIInv ==
  ASSUME IInv, PutHash
  PROVE  IInv'
<1> DEFINE k == Key(cur)
<1>1. /\ upc = "put" /\ upc' = "use" /\ cur \in Inode /\ Met(cur)
      /\ UNCHANGED <<fsVars, local, node>> /\ HPut(k, hval)
      /\ rec[cur].stat \in File
  BY DEF PutHash, IInv, TypeOK, fsVars, Met
<1>2. EntrySound(k, hval)
  <2>1. k.inode = cur /\ k.mtime = rec[cur].stat.mtime /\ k.cktype = cktype
    BY KeyMtime DEF Key
  <2>2. rec[cur].stat.mtime \in Nat /\ rec[cur].stat.mtime <= node[cur].mtime
    BY <1>1 DEF IInv, RecSound, Running, File
  <2> QED BY <1>1, <2>1, <2>2 DEF EntrySound, IInv, HashSound
<1> HIDE DEF k
<1>5. Databases'
  BY <1>1, <1>2, PutSound DEF IInv
<1> QED BY <1>1, <1>5, ControlIInv DEF Running

LEMMA OthersIInv ==
  ASSUME IInv, CarefulWorld, Others
  PROVE  IInv'
<1> USE DEF IInv
<1> DEFINE kinds == IF upc \in Stopped THEN Kinds ELSE LiveKinds
<1>1. /\ LiveChange(kinds)
      /\ UNCHANGED <<upc, todo, rec, cktype, cur, hval, hcd0, runs>>
      /\ UNCHANGED <<hcd, vdb, dbf, validated, hstate, hstep>>
  BY DEF Others, local, hcVars
<1>2. FileSystemTypeOK /\ FileSystemTypeOK' /\ TimeFrame
  BY <1>1, LiveChangeFrame, LiveChangeTime DEF OthersFrame, CarefulWorld, Careful, TypeOK
<1>3. upc \in Running => NameFrame
  BY <1>1, LiveChangeNames DEF CarefulWorld, Careful, TypeOK, Stopped, Running
<1>5. Databases'
  BY <1>1, <1>2, OthersSound DEF hcVars
<1>6. TypeOK'
  BY <1>1, <1>2, <1>5 DEF TypeOK, Databases, Met
<1>7. \A i \in Inode : node[i].mtime \in Nat /\ node'[i].mtime \in Nat
  BY <1>2 DEF FileSystemTypeOK, File
<1>8. \A i \in Inode : Met(i) =>
        rec[i].path \in Path /\ rec[i].stat.mtime \in Nat
  BY DEF TypeOK, Met, File
<1>9. RecSound'
  BY <1>1, <1>2, <1>3, <1>7, <1>8 DEF RecSound, TimeFrame, NameFrame, Met
<1>10. HashSound'
  <2>1. SUFFICES ASSUME upc = "put", rec[cur].stat.mtime = node'[cur].mtime
                 PROVE  hval = HashOf(cktype, node'[cur].data)
    BY <1>1 DEF HashSound
  <2>2. cur \in Inode /\ Met(cur)
    BY <2>1 DEF TypeOK
  <2>3. rec[cur].stat.mtime <= node[cur].mtime
    BY <2>1, <2>2 DEF RecSound, Running
  <2>4. node'[cur].mtime = node[cur].mtime
    BY <1>2, <1>7, <1>8, <2>1, <2>2, <2>3 DEF TimeFrame
  <2> QED BY <1>2, <2>1, <2>2, <2>4 DEF HashSound, TimeFrame
<1> QED BY <1>1, <1>5, <1>6, <1>9, <1>10

LEMMA NextIInv ==
  ASSUME IInv, CarefulWorld, [Next]_cacheUseVars
  PROVE  IInv'
<1>1. CASE Start
  BY <1>1, StartIInv
<1>2. ASSUME NEW p \in Path, ScanEntry(p) PROVE IInv'
  BY <1>2, ScanEntryIInv
<1>3. ASSUME NEW i \in Inode, Lookup(i) PROVE IInv'
  BY <1>3, LookupIInv
<1>4. CASE HashFile
  BY <1>4, HashFileIInv
<1>5. CASE PutHash
  BY <1>5, PutHashIInv
<1>6. CASE Others
  BY <1>6, OthersIInv
<1>7. CASE Switch
  <2>1. /\ DoneClose(TRUE) \/ DoneClose(FALSE) \/ DoneStep
        /\ UNCHANGED <<fsVars, local, upc, node>> /\ upc # "scan"
    BY <1>7 DEF Switch, fsVars
  <2>2. Databases'
    BY <2>1, SwitchSound DEF IInv
  <2> QED BY <2>1, <2>2, ControlIInv DEF Running
<1>8. ASSUME HDie, UNCHANGED <<fsVars, local>>, upc' \in {"failed", "faulted", "killed"}
      PROVE  IInv'
  <2>1. Databases'
    BY <1>8, DieSound DEF IInv, fsVars
  <2> QED BY <1>8, <2>1, ControlIInv DEF Running
<1>9. CASE ScanFails \/ HashFails \/ Kill
  BY <1>8, <1>9 DEF ScanFails, HashFails, Kill, Fail, HExit, HDie
<1>10. ASSUME UNCHANGED <<fsVars, local, hcd, vdb>>,
              \/ UNCHANGED handles
              \/ hstep' = "off" /\ UNCHANGED <<dbf, validated, hstate>>
              \/ HFree
       PROVE  Databases'
  BY <1>10, CallSound DEF IInv, fsVars, handles, HFree
<1>11. CASE GetUndefined
  <2>1. CASE upc' = "hash"
    BY <1>10, <1>11, <2>1, ControlIInv DEF GetUndefined, hcVars, handles, Running
  <2>2. CASE upc' = "faulted"
    BY <1>8, <1>11, <2>2 DEF GetUndefined
  <2> QED BY <1>11, <2>1, <2>2 DEF GetUndefined
<1>12. CASE GetHash
  BY <1>10, <1>12, ControlIInv DEF GetHash, HGet, Running
<1>13. CASE ScanDone \/ Close
  BY <1>10, <1>13, ControlIInv DEF ScanDone, Close, hcVars, handles, Running
<1>14. CASE FreeCache
  BY <1>10, <1>14, ControlIInv DEF FreeCache, HFree, Running
<1>15. CASE Terminated \/ UNCHANGED cacheUseVars
  <2>1. UNCHANGED <<fsVars, local, upc, hcd, vdb, handles, hstep>>
    BY <1>15 DEF Terminated, cacheUseVars, hcVars, handles
  <2> QED BY <1>10, <2>1, ControlIInv DEF IInv
<1> QED BY <1>1, <1>2, <1>3, <1>4, <1>5, <1>6, <1>7, <1>9, <1>11, <1>12, <1>13, <1>14,
           <1>15 DEF Next

--------------------------------------------------------------------------------
(* The theorems. *)

(* The strengthening holds throughout, while the world is careful. *)
THEOREM Invariance ==
  ASSUME CarefulWorld
  PROVE  Spec => []IInv
<1>1. IInv /\ [Next]_cacheUseVars => IInv'
  BY NextIInv
<1> QED BY <1>1, InitIInv, PTL DEF Spec

(* No handle is ever used on a database it does not have open, no lookup is for an *)
(* inode the scan did not record (hcache.c, fscanner.c:99-108).                      *)
THEOREM TypeCorrect ==
  ASSUME CarefulWorld
  PROVE  Spec => []TypeOK
<1>1. IInv => TypeOK
  BY DEF IInv
<1> QED BY <1>1, Invariance, PTL

(* The cache has no wrong hash for a file as it is now, whenever runs are killed    *)
(* and whatever files are edited, created, removed or renamed between them           *)
(* (hcache.c:79-94, 119-186).                                                        *)
THEOREM CacheIsSound ==
  ASSUME CarefulWorld
  PROVE  Spec => []CacheSound
<1>1. ASSUME IInv PROVE CacheSound
  <2>1. SUFFICES ASSUME Readable(hcd), NEW i \in Files, NEW t \in HashType,
                        StatKey(i, node[i], t) \in DOMAIN hcd
                 PROVE  hcd[StatKey(i, node[i], t)] = HashOf(t, node[i].data)
    BY DEF CacheSound
  <2>2. EntrySound(StatKey(i, node[i], t), hcd[StatKey(i, node[i], t)])
    BY <1>1, <2>1 DEF IInv, Databases, DbSound, Sound
  <2> QED BY <2>2, KeyMtime DEF EntrySound
<1> QED BY <1>1, Invariance, PTL

--------------------------------------------------------------------------------
(* The switch. *)

IsDB(d) == d = [k \in DOMAIN d |-> d[k]]

(* NoDB and BadDB are told apart from databases, as model values are in every run. *)
NoneIsDB == ~IsDB(NoDB) /\ ~IsDB(BadDB)

(* Database d is good for the files this run has met. *)
Exact(d) ==
  /\ IsDB(d)
  /\ DOMAIN d \subseteq KeysMet
  /\ Readable(hcd0) => DOMAIN hcd0 \cap KeysMet \subseteq DOMAIN d

MetAny == \E i \in Inode : Met(i)

BeforeSwitch ==
  (hstep = "off" /\ hstate # "rdwr") =>
    /\ hcd = hcd0 /\ (dbf <=> Readable(hcd))
    /\ MetAny => validated
    /\ validated => Exact(vdb)

InSwitch ==
  /\ hstep \in {"unlink", "rename", "reopen"} => ~validated
  /\ hstep \in {"unlink", "rename"} => hstate # "rdwr" /\ Exact(vdb)
  /\ hstep = "reopen" /\ MetAny => Exact(hcd)

AfterSwitch ==
  /\ hstep = "ready" => hstate = "rdwr"
  /\ hstate = "rdwr" => ~validated /\ (MetAny => Exact(hcd))

Places ==
  /\ upc = "scan" => hstep = "off" /\ hstate # "rdwr"
  /\ upc \in {"get", "hash", "put"} => cur \in Inode /\ Met(cur)
  /\ upc = "done" /\ MetAny => IsDB(hcd)

SwitchTypes ==
  /\ FileSystemTypeOK
  /\ rec \in [Inode -> {NoRec} \cup [path : Tree, stat : File]]
  /\ todo \subseteq Tree /\ upc \in Stopped \cup Running
  /\ hstep \in {"off", "unlink", "rename", "reopen", "ready"}
  /\ dbf \in BOOLEAN /\ validated \in BOOLEAN

Switching == BeforeSwitch /\ InSwitch /\ AfterSwitch

SwitchInv == SwitchTypes /\ Places /\ (upc \in Running => Switching)

LEMMA KeysOfMet == KeysMet # {} <=> MetAny
BY DEF KeysMet, MetAny

LEMMA StoreDomain ==
  ASSUME NEW d, NEW k, NEW h
  PROVE  IsDB(Store(d, k, h)) /\ DOMAIN Store(d, k, h) = DOMAIN d \cup {k}
<1> DEFINE e == Store(d, k, h)
<1>1. e = [x \in DOMAIN d \cup {k} |-> IF x = k THEN h ELSE d[x]]
  BY DEF Store
<1> HIDE DEF e
<1>2. /\ DOMAIN e = DOMAIN d \cup {k}
      /\ e = [x \in DOMAIN e |-> e[x]]
  BY <1>1
<1> QED
  BY <1>2 DEF e, IsDB

LEMMA EmptyDomain == IsDB(EmptyDB) /\ DOMAIN EmptyDB = {}
BY DEF EmptyDB, IsDB

--------------------------------------------------------------------------------
LEMMA InitSwitch == Init => SwitchInv
<1> SUFFICES ASSUME Init PROVE SwitchInv
  OBVIOUS
<1>1. FileSystemTypeOK
  BY DEF Init, FileSystemInit, FileSystemTypeOK
<1> QED
  BY <1>1 DEF Init, HCacheInit, SwitchInv, SwitchTypes, Places, Running, Stopped, MetAny, Met

(* Whether others change the tree, the program moves on or nothing happens. *)
LEMMA SameCache ==
  ASSUME SwitchInv, FileSystemTypeOK', Places', todo' \subseteq Tree, UNCHANGED <<rec, cktype, hcd0, hcVars>>,
         upc' \in Stopped \cup Running, upc' \in Running => upc \in Running
  PROVE  SwitchInv'
<1>1. UNCHANGED <<hcd, vdb, dbf, validated, hstate, hstep>>
  BY DEF hcVars
<1>2. KeysMet' = KeysMet /\ MetAny' = MetAny
  BY DEF KeysMet, MetAny, Met, Key
<1>3. SwitchTypes'
  BY <1>1 DEF SwitchInv, SwitchTypes
<1>4. Exact(hcd)' = Exact(hcd) /\ Exact(vdb)' = Exact(vdb)
  BY <1>1, <1>2 DEF Exact, IsDB
<1>5. ASSUME upc \in Running PROVE Switching'
  <2>1. Switching
    BY <1>5 DEF SwitchInv
  <2> QED
    BY <1>1, <1>2, <1>4, <2>1 DEF Switching, BeforeSwitch, InSwitch, AfterSwitch
<1> QED
  BY <1>3, <1>5 DEF SwitchInv

(* A run that fails, faults or is killed has nothing to show. *)
LEMMA EndsBadly ==
  ASSUME SwitchInv, Closed, UNCHANGED <<fsVars, local>>, upc' \in {"failed", "faulted", "killed"}
  PROVE  SwitchInv'
<1>1. FileSystemTypeOK'
  BY DEF SwitchInv, SwitchTypes, FileSystemTypeOK, fsVars
<1>2. SwitchTypes'
  BY <1>1 DEF Closed, SwitchInv, SwitchTypes, local, Stopped
<1>3. Places' /\ upc' \notin Running
  BY DEF Places, Running
<1> QED
  BY <1>2, <1>3 DEF SwitchInv

LEMMA StartSwitch ==
  ASSUME SwitchInv, Start
  PROVE  SwitchInv'
<1>1. /\ upc' = "scan" /\ rec' = [i \in Inode |-> NoRec] /\ hcd0' = hcd /\ hcd' = hcd
      /\ todo' \subseteq Tree /\ hstep' = "off" /\ hstate' = "reading" /\ dbf' = Readable(hcd) /\ validated' = FALSE
  BY DEF Start, HNew
<1>2. ~MetAny'
  BY <1>1 DEF MetAny, Met
<1>3. FileSystemTypeOK'
  BY DEF Start, SwitchInv, SwitchTypes, FileSystemTypeOK
<1>4. SwitchTypes' /\ Places'
  BY <1>1, <1>3 DEF SwitchTypes, Places, Running, Readable
<1>5. Switching'
  BY <1>1, <1>2 DEF Switching, BeforeSwitch, InSwitch, AfterSwitch, Readable
<1> QED
  BY <1>4, <1>5 DEF SwitchInv

(* The scan of a file whose inode it has not met. *)
LEMMA ValidateSwitch ==
  ASSUME SwitchInv, NEW i \in Inode, NEW p \in Tree, upc = "scan", upc' = "scan", ~Met(i),
         rec' = [rec EXCEPT ![i] = [path |-> p, stat |-> node[i]]],
         HValidate(StatKey(i, node[i], cktype)),
         todo' \subseteq Tree, UNCHANGED <<fsVars, cktype, hcd0>>
  PROVE  SwitchInv'
<1> DEFINE k == StatKey(i, node[i], cktype)
<1>1. node[i] \in File /\ FileSystemTypeOK'
  BY DEF SwitchInv, SwitchTypes, FileSystemTypeOK, fsVars
<1>2. rec' \in [Inode -> {NoRec} \cup [path : Tree, stat : File]]
  BY <1>1 DEF SwitchInv, SwitchTypes
<1>3. \A j \in Inode : Met(j)' <=> Met(j) \/ j = i
  BY <1>1 DEF SwitchInv, SwitchTypes, Met
<1>4. Key(i)' = k
  BY DEF Key, SwitchInv, SwitchTypes
<1>5. \A j \in Inode : Met(j) => Key(j)' = Key(j)
  BY DEF Key, SwitchInv, SwitchTypes
<1>6. KeysMet' = KeysMet \cup {k}
  <2> HIDE DEF k
  <2> QED
    BY <1>3, <1>4, <1>5 DEF KeysMet
<1> HIDE DEF k
<1>7. /\ hstep = "off" /\ hstate # "rdwr" /\ hcd = hcd0 /\ (dbf <=> Readable(hcd))
      /\ MetAny => validated
      /\ validated => Exact(vdb)
  BY DEF SwitchInv, Places, Running, Switching, BeforeSwitch
<1>8. /\ vdb' = IF dbf /\ k \in DOMAIN hcd THEN Store(Validating, k, hcd[k]) ELSE Validating
      /\ validated' = TRUE /\ hstate' \in {hstate, "validating"}
      /\ UNCHANGED <<hcd, dbf, hstep>>
  BY DEF HValidate, k
<1>9. Exact(Validating)
  <2>1. CASE validated
    BY <1>7, <2>1 DEF Validating
  <2>2. CASE ~validated
    BY <1>7, <2>2, KeysOfMet, EmptyDomain DEF Validating, Exact
  <2> QED
    BY <2>1, <2>2
<1>10. Exact(vdb)'
  <2> DEFINE v == Validating
  <2> HIDE DEF v
  <2>1. /\ IsDB(v) /\ DOMAIN v \subseteq KeysMet
        /\ Readable(hcd0) => DOMAIN hcd0 \cap KeysMet \subseteq DOMAIN v
    BY <1>9 DEF Exact, v
  <2>2. CASE dbf /\ k \in DOMAIN hcd
    <3>1. IsDB(vdb') /\ DOMAIN vdb' = DOMAIN v \cup {k}
      BY <1>8, <2>2, StoreDomain DEF v
    <3> QED
      BY <1>6, <2>1, <3>1 DEF Exact, IsDB
  <2>3. CASE ~(dbf /\ k \in DOMAIN hcd)
    <3>1. vdb' = v
      BY <1>8, <2>3 DEF v
    <3>2. Readable(hcd0) => k \notin DOMAIN hcd0
      BY <1>7, <2>3
    <3> QED
      BY <1>6, <2>1, <3>1, <3>2 DEF Exact, IsDB, Readable
  <2> QED
    BY <2>2, <2>3
<1>11. Switching'
  BY <1>7, <1>8, <1>10 DEF Switching, BeforeSwitch, InSwitch, AfterSwitch, Readable
<1>12. SwitchTypes' /\ Places'
  BY <1>1, <1>2, <1>7, <1>8 DEF SwitchInv, SwitchTypes, Places, Running
<1> QED
  BY <1>11, <1>12 DEF SwitchInv

LEMMA ScanEntrySwitch ==
  ASSUME SwitchInv, NEW p \in Path, ScanEntry(p)
  PROVE  SwitchInv'
<1>1. /\ upc = "scan" /\ upc' = "scan" /\ p \in Tree /\ dir[p] \in Inode
      /\ todo' \subseteq Tree /\ UNCHANGED <<fsVars, cktype, cur, hval, hcd0, runs>>
  BY DEF ScanEntry, Exists, SwitchInv, SwitchTypes, FileSystemTypeOK
<1>2. CASE UNCHANGED <<rec, hcVars>>
  <2>1. FileSystemTypeOK' /\ Places'
    BY <1>1, <1>2 DEF SwitchInv, SwitchTypes, FileSystemTypeOK, fsVars, Places, hcVars
  <2> QED
    BY <1>1, <1>2, <2>1, SameCache DEF Running
<1>3. CASE /\ ~Met(dir[p])
           /\ rec' = [rec EXCEPT ![dir[p]] = [path |-> p, stat |-> node[dir[p]]]]
           /\ HValidate(StatKey(dir[p], node[dir[p]], cktype))
  BY <1>1, <1>3, ValidateSwitch
<1> QED
  BY <1>2, <1>3 DEF ScanEntry

(* A step of the program in the cache, that keeps the tables. *)
LEMMA ProgramStep ==
  ASSUME SwitchInv, UNCHANGED <<fsVars, todo, rec, cktype, hcd0>>, Places',
         upc \in Running, upc' \in Stopped \cup Running,
         hstep' \in {"off", "unlink", "rename", "reopen", "ready"},
         dbf' \in BOOLEAN, validated' \in BOOLEAN, upc' \in Running => Switching'
  PROVE  SwitchInv'
<1>1. FileSystemTypeOK'
  BY DEF SwitchInv, SwitchTypes, FileSystemTypeOK, fsVars
<1> QED
  BY <1>1 DEF SwitchInv, SwitchTypes

LEMMA SwitchStep ==
  ASSUME NoneIsDB, SwitchInv, Switch
  PROVE  SwitchInv'
<1>1. /\ upc \in {"get", "put", "free"} /\ upc' = upc /\ UNCHANGED <<fsVars, local>>
      /\ DoneClose(TRUE) \/ DoneClose(FALSE) \/ DoneStep
  BY DEF Switch
<1>2. KeysMet' = KeysMet /\ MetAny' = MetAny /\ UNCHANGED <<fsVars, todo, rec, cktype, hcd0, cur>>
  BY <1>1 DEF KeysMet, MetAny, Met, Key, local
<1>3. Switching /\ Places'
  BY <1>1, <1>2 DEF SwitchInv, Running, Places, Met
<1>4. \A d : Exact(d)' <=> Exact(d)
  BY <1>2 DEF Exact, IsDB
<1>5. CASE DoneClose(TRUE) \/ DoneClose(FALSE)
  <2>1. /\ hstep = "off" /\ dbf' = FALSE /\ validated' = FALSE
        /\ hstep' = IF ~validated THEN "reopen" ELSE IF dbf THEN "unlink" ELSE "rename"
        /\ UNCHANGED <<hcd, vdb, hstate>>
    BY <1>5 DEF DoneClose
  <2>2. Exact(vdb)' = Exact(vdb) /\ Exact(hcd)' = Exact(hcd)
    BY <1>2, <2>1 DEF Exact, IsDB
  <2>3. Switching'
    BY <1>2, <1>3, <2>1, <2>2 DEF Switching, BeforeSwitch, InSwitch, AfterSwitch
  <2> QED
    BY <1>1, <1>2, <1>3, <2>1, <2>3, ProgramStep DEF Running
<1>6. CASE DoneUnlink
  <2>1. /\ hstep = "unlink" /\ hstep' = "rename" /\ UNCHANGED <<vdb, dbf, validated, hstate>>
    BY <1>6 DEF DoneUnlink
  <2>2. Exact(vdb)' = Exact(vdb)
    BY <1>2, <2>1 DEF Exact, IsDB
  <2>3. Switching'
    BY <1>2, <1>3, <2>1, <2>2 DEF Switching, BeforeSwitch, InSwitch, AfterSwitch
  <2> QED
    BY <1>1, <1>2, <1>3, <2>1, <2>3, ProgramStep DEF SwitchInv, SwitchTypes, Running
<1>7. CASE DoneRename
  <2>1. /\ hstep = "rename" /\ hstep' = "reopen" /\ hcd' = vdb
        /\ UNCHANGED <<dbf, validated, hstate>>
    BY <1>7 DEF DoneRename
  <2>2. Exact(hcd)' = Exact(vdb)
    BY <1>2, <2>1 DEF Exact, IsDB
  <2>3. Switching'
    BY <1>2, <1>3, <2>1, <2>2 DEF Switching, BeforeSwitch, InSwitch, AfterSwitch
  <2> QED
    BY <1>1, <1>2, <1>3, <2>1, <2>3, ProgramStep DEF SwitchInv, SwitchTypes, Running
<1>8. CASE DoneReopen
  <2>1. /\ hstep = "reopen" /\ hstep' = "ready" /\ hstate' = "rdwr" /\ dbf' \in BOOLEAN
        /\ hcd' = IF hcd = NoDB THEN EmptyDB ELSE hcd
        /\ UNCHANGED <<vdb, validated>>
    BY <1>8 DEF DoneReopen
  <2>2. MetAny => Exact(hcd)
    BY <1>3, <2>1 DEF Switching, InSwitch
  <2>3. MetAny => hcd' = hcd
    BY <2>1, <2>2 DEF Exact, IsDB, NoneIsDB, Readable
  <2>4. (MetAny => Exact(hcd))'
    BY <1>2, <2>2, <2>3 DEF Exact, IsDB
  <2>5. ~validated
    BY <1>3, <2>1 DEF Switching, InSwitch
  <2>6. Switching'
    BY <1>2, <1>3, <2>1, <2>4, <2>5 DEF Switching, BeforeSwitch, InSwitch, AfterSwitch
  <2> QED
    BY <1>1, <1>2, <1>3, <2>1, <2>6, ProgramStep DEF SwitchInv, SwitchTypes, Running
<1> QED
  BY <1>1, <1>5, <1>6, <1>7, <1>8 DEF DoneStep

LEMMA PutSwitch ==
  ASSUME SwitchInv, PutHash
  PROVE  SwitchInv'
<1> DEFINE k == Key(cur)
<1>1. /\ upc = "put" /\ upc' = "use" /\ cur \in Inode /\ Met(cur) /\ HPut(k, hval)
      /\ UNCHANGED <<fsVars, local>>
  BY DEF PutHash, SwitchInv, Places
<1>2. KeysMet' = KeysMet /\ MetAny' = MetAny /\ UNCHANGED <<fsVars, todo, rec, cktype, hcd0, cur>>
  BY <1>1 DEF KeysMet, MetAny, Met, Key, local
<1>3. k \in KeysMet /\ MetAny
  BY <1>1 DEF KeysMet, MetAny
<1> HIDE DEF k
<1>4. /\ hcd' = Store(hcd, k, hval) /\ hstep' = "off" /\ UNCHANGED <<vdb, dbf, validated, hstate>>
      /\ hstep = "ready"
  BY <1>1 DEF HPut, Prepared, AtOnce
<1>5. hstate = "rdwr" /\ ~validated /\ Exact(hcd)
  BY <1>1, <1>3, <1>4 DEF SwitchInv, Running, Switching, AfterSwitch
<1>6. Exact(hcd)'
  <2>1. IsDB(hcd') /\ DOMAIN hcd' = DOMAIN hcd \cup {k}
    BY <1>4, StoreDomain
  <2> QED
    BY <1>2, <1>3, <1>5, <2>1 DEF Exact, IsDB
<1>7. Switching'
  BY <1>4, <1>5, <1>6 DEF Switching, BeforeSwitch, InSwitch, AfterSwitch
<1> QED
  BY <1>1, <1>2, <1>4, <1>7, ProgramStep DEF Places, Running, SwitchInv, SwitchTypes

(* The cache is read or let go. *)
LEMMA ReadSwitch ==
  ASSUME SwitchInv, GetHash \/ FreeCache
  PROVE  SwitchInv'
<1>1. /\ upc \in {"get", "free"} /\ upc' \in {"use", "hash", "done"} /\ UNCHANGED <<fsVars, local>>
      /\ Prepared(FALSE) /\ hstep' = "off" /\ UNCHANGED <<hcd, vdb, validated>>
      /\ upc' # "done" => upc = "get" /\ UNCHANGED <<dbf, hstate>>
      /\ dbf' \in BOOLEAN
  BY DEF GetHash, FreeCache, HGet, HFree, SwitchInv, SwitchTypes
<1>2. KeysMet' = KeysMet /\ MetAny' = MetAny /\ UNCHANGED <<fsVars, todo, rec, cktype, hcd0, cur>>
  BY <1>1 DEF KeysMet, MetAny, Met, Key, local
<1>3. hstate = "rdwr" /\ ~validated /\ (MetAny => Exact(hcd))
  BY <1>1 DEF SwitchInv, Running, Switching, AfterSwitch, Prepared, AtOnce
<1>4. (MetAny => Exact(hcd))'
  BY <1>1, <1>2, <1>3 DEF Exact, IsDB
<1>5. upc' \in Running => Switching'
  BY <1>1, <1>3, <1>4 DEF Switching, BeforeSwitch, InSwitch, AfterSwitch, Running
<1>6. Places'
  BY <1>1, <1>2, <1>4 DEF SwitchInv, Places, Exact, Met
<1> QED
  BY <1>1, <1>2, <1>3, <1>5, <1>6, ProgramStep DEF Stopped, Running, SwitchInv, SwitchTypes

LEMMA NextSwitch ==
  ASSUME NoneIsDB, SwitchInv, [Next]_cacheUseVars
  PROVE  SwitchInv'
<1>1. CASE Start
  BY <1>1, StartSwitch
<1>2. ASSUME NEW p \in Path, ScanEntry(p) PROVE SwitchInv'
  BY <1>2, ScanEntrySwitch
<1>3. CASE Switch
  BY <1>3, SwitchStep
<1>4. CASE PutHash
  BY <1>4, PutSwitch
<1>5. CASE GetHash \/ FreeCache
  BY <1>5, ReadSwitch
<1>6. CASE ScanFails \/ HashFails \/ Kill
  BY <1>6, EndsBadly DEF ScanFails, HashFails, Kill, Fail, HExit, HDie
<1>7. CASE GetUndefined /\ upc' = "faulted"
  BY <1>7, EndsBadly DEF GetUndefined, HDie, Running
<1>8. ASSUME UNCHANGED <<fsVars, todo, rec, cktype, hcd0, hcVars>>, Places',
             upc' \in Stopped \cup Running, upc' \in Running => upc \in Running
      PROVE  SwitchInv'
  BY <1>8, SameCache DEF SwitchInv, SwitchTypes, FileSystemTypeOK, fsVars
<1>9. CASE GetUndefined /\ upc' = "hash"
  BY <1>8, <1>9 DEF GetUndefined, SwitchInv, Places, Running, local, Met
<1>10. CASE ScanDone \/ Close
  BY <1>8, <1>10 DEF ScanDone, Close, Places, Running, local
<1>11. ASSUME NEW i \in Inode, Lookup(i) PROVE SwitchInv'
  BY <1>8, <1>11 DEF Lookup, Places, Running, Met
<1>12. CASE HashFile
  BY <1>8, <1>12 DEF HashFile, SwitchInv, Places, Running, Met
<1>13. CASE Others
  <2>1. /\ FileSystemTypeOK'
        /\ UNCHANGED <<upc, todo, rec, cktype, cur, hcd0, hcd, hstep, hstate, hcVars>>
    BY <1>13, LiveChangeFrame DEF Others, OthersFrame, SwitchInv, SwitchTypes, local, hcVars
  <2>2. Places'
    BY <2>1 DEF SwitchInv, Places, MetAny, Met, IsDB
  <2> QED
    BY <2>1, <2>2, SameCache DEF SwitchInv, SwitchTypes
<1>14. CASE Terminated \/ UNCHANGED cacheUseVars
  <2>1. UNCHANGED <<fsVars, upc, todo, rec, cktype, cur, hcd0, hcd, hstep, hstate, hcVars>>
    BY <1>14 DEF Terminated, cacheUseVars, local, hcVars
  <2>2. Places'
    BY <2>1 DEF SwitchInv, Places, MetAny, Met, IsDB
  <2> QED
    BY <1>8, <2>1, <2>2 DEF SwitchInv, SwitchTypes
<1>15. GetUndefined => upc' \in {"hash", "faulted"}
  BY DEF GetUndefined
<1> QED
  BY <1>1, <1>2, <1>3, <1>4, <1>5, <1>6, <1>7, <1>9, <1>10, <1>11, <1>12, <1>13, <1>14, <1>15
  DEF Next

--------------------------------------------------------------------------------
(* The theorems. *)

(* What is in the two files and the handles at each step of a run, and that a lookup *)
(* is for an inode the scan has met (hcache.c:119-186).                                *)
THEOREM SwitchInvariant ==
  ASSUME NoneIsDB
  PROVE  Spec => []SwitchInv
<1>1. SwitchInv /\ [Next]_cacheUseVars => SwitchInv'
  BY NextSwitch
<1> QED
  BY <1>1, InitSwitch, PTL DEF Spec

(* A run's database has entries of scanned inodes only, and every entry it found for    *)
(* one of them, whatever was left by runs killed before (hcache.c:119-158).               *)
THEOREM SwitchIsExact ==
  ASSUME NoneIsDB
  PROVE  Spec => []SwitchExact
<1>1. ASSUME SwitchInv PROVE SwitchExact
  BY <1>1, KeysOfMet DEF SwitchInv, Switching, AfterSwitch, Exact, SwitchExact
<1> QED
  BY <1>1, SwitchInvariant, PTL

(* A run that ends by itself leaves a database the next one can read (hcache.c:119-158). *)
THEOREM CompleteRunsLeaveCache ==
  ASSUME NoneIsDB
  PROVE  Spec => []CompleteRunLeavesCache
<1>1. ASSUME SwitchInv PROVE CompleteRunLeavesCache
  BY <1>1, KeysOfMet DEF SwitchInv, Places, IsDB, CompleteRunLeavesCache, NoneIsDB, Readable
<1> QED
  BY <1>1, SwitchInvariant, PTL
================================================================================
