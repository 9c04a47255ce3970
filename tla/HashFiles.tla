-------------------------------- MODULE HashFiles --------------------------------
(***************************************************************************)
(* hcache.c once more, as several processes use it on one tree: .hcd and          *)
(* .hcd.validate are names of files that a process may still have open when          *)
(* another has renamed or unlinked them.  gdbm lets many read a file or one write it,  *)
(* and its gdbm_open does not wait: it fails.                                           *)
(*                                                                         *)
(* Nobody edits a file of the tree here, so that an inode stands for its key, and       *)
(* the contents for their hash.                                                          *)
(***************************************************************************)
EXTENDS FileSystem

CONSTANTS
  Proc,     \* processes
  DBFile,   \* inode numbers of database files
  NoFile,   \* no such file; a handle that is NULL
  NoData    \* no hash

ASSUME HashFilesAssumption == NoFile \notin DBFile /\ NoData \notin Data

VARIABLES
  hcdName,  \* the file named .hcd
  valName,  \* the file named .hcd.validate
  db,       \* the hashes each file holds
  hdbf,     \* cache->dbf of each process
  hval,     \* cache->validated
  hmode,    \* "r" for GDBM_READER; "rw" for HCM_RDWR
  hstep     \* where _hcache_validate_done is, as in HCache

hashFileVars == <<hcdName, valName, db, hdbf, hval, hmode, hstep>>

HashFilesTypeOK ==
  /\ {hcdName, valName} \subseteq DBFile \cup {NoFile}
  /\ db \in [DBFile -> [Inode -> Data \cup {NoData}]]
  /\ hdbf \in [Proc -> DBFile \cup {NoFile}] /\ hval \in [Proc -> DBFile \cup {NoFile}]
  /\ hmode \in [Proc -> {"r", "rw"}]
  /\ hstep \in [Proc -> {"off", "unlink", "rename", "reopen", "ready"}]

NoHashes == [i \in Inode |-> NoData]

HashFilesInit ==
  /\ hcdName \in DBFile \cup {NoFile} /\ valName = NoFile
  /\ db = [f \in DBFile |-> NoHashes]
  /\ hdbf = [s \in Proc |-> NoFile] /\ hval = [s \in Proc |-> NoFile]
  /\ hmode = [s \in Proc |-> "r"] /\ hstep = [s \in Proc |-> "off"]

--------------------------------------------------------------------------------
(* gdbm_open, and its locks. *)

OpenBy(f) == {s \in Proc : f \in {hdbf[s], hval[s]}}
WrittenBy(f) == {s \in Proc : hval[s] = f \/ (hdbf[s] = f /\ hmode[s] = "rw")}

CanRead(f) == f # NoFile /\ WrittenBy(f) = {}

(* Mutant of CanWrite: a file that is there already is refused. *)
CanWriteNew(f) == f = NoFile

CanWrite(f) == f = NoFile \/ OpenBy(f) = {}

(* Files that have no name and are not open; that there is one is a bound. *)
Spares == {f \in DBFile : f \notin {hcdName, valName} /\ OpenBy(f) = {}}
Spare == CHOOSE f \in Spares : TRUE
CanCreate(f) == f # NoFile \/ Spares # {}
Created(f) == IF f = NoFile THEN Spare ELSE f

--------------------------------------------------------------------------------
HNew(s) ==
  /\ hdbf' = [hdbf EXCEPT ![s] = IF CanRead(hcdName) THEN hcdName ELSE NoFile]
  /\ hmode' = [hmode EXCEPT ![s] = "r"]
  /\ UNCHANGED <<hcdName, valName, db, hval, hstep>>

(* _hcache_validate_init fails where another process has .hcd.validate open. *)
CanValidate(s) == hval[s] # NoFile \/ CanWrite(valName)

Validated(s) == IF hdbf[s] = NoFile THEN NoHashes ELSE db[hdbf[s]]

HValidate(s, i) ==
  /\ CanValidate(s) /\ (hval[s] # NoFile \/ CanCreate(valName))
  /\ LET f == IF hval[s] # NoFile THEN hval[s] ELSE Created(valName)
         old == IF hval[s] # NoFile THEN db[f] ELSE NoHashes IN
       /\ db' = [db EXCEPT ![f] = [old EXCEPT ![i] = Validated(s)[i]]]
       /\ hval' = [hval EXCEPT ![s] = f]
       /\ valName' = IF hval[s] # NoFile THEN valName ELSE f
  /\ UNCHANGED <<hcdName, hdbf, hmode, hstep>>

AtOnce(s, iswr) == hval[s] = NoFile /\ ~iswr /\ hmode[s] = "rw"

DoneClose(s, iswr) ==
  /\ hstep[s] = "off" /\ ~AtOnce(s, iswr)
  /\ hstep' = [hstep EXCEPT ![s] =
       IF hval[s] = NoFile THEN "reopen" ELSE IF hdbf[s] # NoFile THEN "unlink" ELSE "rename"]
  /\ hval' = [hval EXCEPT ![s] = NoFile] /\ hdbf' = [hdbf EXCEPT ![s] = NoFile]
  /\ UNCHANGED <<hcdName, valName, db, hmode>>

(* What unlink(2) returns is not looked at. *)
DoneUnlink(s) ==
  /\ hstep[s] = "unlink"
  /\ hcdName' = NoFile
  /\ hstep' = [hstep EXCEPT ![s] = "rename"]
  /\ UNCHANGED <<valName, db, hdbf, hval, hmode>>

(* Whichever file has the name is renamed. *)
DoneRename(s) ==
  /\ hstep[s] = "rename" /\ valName # NoFile
  /\ hcdName' = valName /\ valName' = NoFile
  /\ hstep' = [hstep EXCEPT ![s] = "reopen"]
  /\ UNCHANGED <<db, hdbf, hval, hmode>>

RenameFails(s) == hstep[s] = "rename" /\ valName = NoFile

DoneReopen(s) ==
  /\ hstep[s] = "reopen" /\ CanCreate(hcdName)
  /\ IF CanWrite(hcdName)
       THEN /\ hcdName' = Created(hcdName) /\ hdbf' = [hdbf EXCEPT ![s] = hcdName']
            /\ db' = IF hcdName = NoFile THEN [db EXCEPT ![hcdName'] = NoHashes] ELSE db
       ELSE UNCHANGED <<hcdName, hdbf, db>>
  /\ hmode' = [hmode EXCEPT ![s] = "rw"]
  /\ hstep' = [hstep EXCEPT ![s] = "ready"]
  /\ UNCHANGED <<valName, hval>>

DoneStep(s) == DoneUnlink(s) \/ DoneRename(s) \/ DoneReopen(s)

Prepared(s, iswr) == hstep[s] = "ready" \/ (hstep[s] = "off" /\ AtOnce(s, iswr))

(* The caller has what it called for. *)
Served(s) == hstep' = [hstep EXCEPT ![s] = "off"]

(* Mutant of HPut: nothing is stored. *)
HPutNothing(s, i, hash) ==
  /\ Prepared(s, TRUE) /\ hdbf[s] # NoFile
  /\ Served(s)
  /\ UNCHANGED <<hcdName, valName, db, hdbf, hval, hmode>>

HPut(s, i, hash) ==
  /\ Prepared(s, TRUE) /\ hdbf[s] # NoFile
  /\ db' = [db EXCEPT ![hdbf[s]][i] = hash]
  /\ Served(s)
  /\ UNCHANGED <<hcdName, valName, hdbf, hval, hmode>>

GetReturnsEarly(s) == hstep[s] = "off" /\ hdbf[s] = NoFile

(* gdbm_fetch or gdbm_store is called on NULL. *)
Crashes(s) == hstep[s] = "ready" /\ hdbf[s] = NoFile

HGet(s) ==
  /\ Prepared(s, FALSE) /\ hdbf[s] # NoFile
  /\ Served(s)
  /\ UNCHANGED <<hcdName, valName, db, hdbf, hval, hmode>>
Found(s, i) == db[hdbf[s]][i]

(* hcache_free after its _hcache_validate_done, or the end of the process. *)
HClosed(s) ==
  /\ hdbf' = [hdbf EXCEPT ![s] = NoFile] /\ hval' = [hval EXCEPT ![s] = NoFile]
  /\ Served(s)
  /\ UNCHANGED <<hcdName, valName, db, hmode>>
================================================================================
