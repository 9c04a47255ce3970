--------------------------------- MODULE HCache ---------------------------------
(***************************************************************************)
(* hcache.c: the persistent cache of hashes, the gdbm file .hcd below the     *)
(* root of the tree.  It is a handle with two databases: dbf, and while a run  *)
(* validates, .hcd.validate, which the first hcache_get, hcache_put,           *)
(* hcache_del or hcache_free puts in the place of .hcd.  That switch is        *)
(* several system calls, and the process can be killed between any two.        *)
(*                                                                         *)
(* A database is a function from the keys it holds to their hashes.  gdbm is   *)
(* external: what its calls do is taken from how hcache.c uses them.           *)
(***************************************************************************)
EXTENDS Naturals, FiniteSets, Sequences

CONSTANTS
  NoDB,    \* there is no such file
  BadDB    \* a file gdbm_open refuses: what a process killed while writing may leave

ASSUME HCacheAssumption == NoDB # BadDB

VARIABLES
  hcd,        \* the file .hcd
  vdb,        \* the file .hcd.validate
  dbf,        \* cache->dbf # NULL: .hcd is open
  validated,  \* cache->validated # NULL: .hcd.validate is open
  hstate,     \* cache->state; "closed" outside hcache_new .. hcache_free
  hstep       \* where _hcache_validate_done is: "off" outside, "ready" once it is
              \* done and its caller has not gone on

hcVars == <<hcd, vdb, dbf, validated, hstate, hstep>>
handles == <<dbf, validated, hstate, hstep>>

(* Mutant of GenKey: the mtime is left out. *)
GenKeyNoMtime(i, owner, size, mtime, t) ==
  [inode |-> i, owner |-> owner, size |-> size, cktype |-> t]

(* _hcache_genkey, for hashes of type t. *)
GenKey(i, owner, size, mtime, t) ==
  [inode |-> i, owner |-> owner, size |-> size, mtime |-> mtime, cktype |-> t]

(* The key of inode i while lstat(2) says f of it. *)
StatKey(i, f, t) == GenKey(i, f.owner, Len(f.data), f.mtime, t)

(* The hash functions are external, and taken to be free of collisions. *)
HashOf(t, d) == <<t, d>>

Readable(d) == d \notin {NoDB, BadDB}
EmptyDB == [k \in {} |-> k]
Store(d, k, h) == [x \in DOMAIN d \cup {k} |-> IF x = k THEN h ELSE d[x]]
Keep(d, K) == [x \in DOMAIN d \cap K |-> d[x]]

HCacheTypeOK ==
  /\ Readable(hcd) => hcd = [k \in DOMAIN hcd |-> hcd[k]]
  /\ Readable(vdb) => vdb = [k \in DOMAIN vdb |-> vdb[k]]
  /\ dbf \in BOOLEAN /\ validated \in BOOLEAN
  /\ hstate \in {"closed", "reading", "validating", "rdwr"}
  /\ hstep \in {"off", "unlink", "rename", "reopen", "ready"}

HCacheInit ==
  /\ hcd = NoDB /\ vdb = NoDB
  /\ dbf = FALSE /\ validated = FALSE
  /\ hstate = "closed" /\ hstep = "off"

--------------------------------------------------------------------------------
(* hcache_new: the database is opened for reading, if it is there. *)
HNew ==
  /\ hstate = "closed"
  /\ dbf' = Readable(hcd)
  /\ validated' = FALSE
  /\ hstate' = "reading"
  /\ hstep' = "off"
  /\ UNCHANGED <<hcd, vdb>>

(* Mutant of Validating: an existing .hcd.validate is opened as it is. *)
ValidatingOld == IF Readable(vdb) THEN vdb ELSE EmptyDB

(* _hcache_validate_init: the first call empties or creates .hcd.validate. *)
Validating == IF validated THEN vdb ELSE EmptyDB

(* hcache_validate: the entry of this key, if there is one, is still good.     *)
HValidate(k) ==
  /\ vdb' = IF dbf /\ k \in DOMAIN hcd THEN Store(Validating, k, hcd[k]) ELSE Validating
  /\ validated' = TRUE
  /\ hstate' = IF validated THEN hstate ELSE "validating"
  /\ UNCHANGED <<hcd, dbf, hstep>>

(* hcache_new, and hcache_validate for each of the keys K in some order. *)
HNewAndValidate(K) ==
  /\ hstate = "closed"
  /\ dbf' = Readable(hcd)
  /\ validated' = (K # {})
  /\ vdb' = IF K = {} THEN vdb ELSE IF Readable(hcd) THEN Keep(hcd, K) ELSE EmptyDB
  /\ hstate' = IF K = {} THEN "reading" ELSE "validating"
  /\ hstep' = "off"
  /\ UNCHANGED hcd

(* _hcache_validate_done returns at once only to a reader that need not switch; *)
(* a writer closes and opens the database anew each time.                        *)
AtOnce(iswr) == ~validated /\ ~iswr /\ hstate = "rdwr"

DoneClose(iswr) ==
  /\ hstep = "off" /\ ~AtOnce(iswr)
  /\ hstep' = IF ~validated THEN "reopen" ELSE IF dbf THEN "unlink" ELSE "rename"
  /\ dbf' = FALSE
  /\ validated' = FALSE
  /\ UNCHANGED <<hcd, vdb, hstate>>

DoneUnlink ==
  /\ hstep = "unlink"
  /\ hcd' = NoDB
  /\ hstep' = "rename"
  /\ UNCHANGED <<vdb, dbf, validated, hstate>>

DoneRename ==
  /\ hstep = "rename"
  /\ hcd' = vdb
  /\ vdb' = NoDB
  /\ hstep' = "reopen"
  /\ UNCHANGED <<dbf, validated, hstate>>

DoneReopen ==
  /\ hstep = "reopen"
  /\ hcd' = IF hcd = NoDB THEN EmptyDB ELSE hcd
  /\ dbf' = (hcd # BadDB)
  /\ hstate' = "rdwr"
  /\ hstep' = "ready"
  /\ UNCHANGED <<vdb, validated>>

DoneStep == DoneUnlink \/ DoneRename \/ DoneReopen

(* The caller may go on. *)
Prepared(iswr) == hstep = "ready" \/ (hstep = "off" /\ AtOnce(iswr))

(* hcache_put: gdbm_store on a database that could not be opened is a crash. *)
HPut(k, h) ==
  /\ Prepared(TRUE) /\ dbf
  /\ hcd' = Store(hcd, k, h)
  /\ hstep' = "off"
  /\ UNCHANGED <<vdb, dbf, validated, hstate>>

(* hcache_get without a database returns before it has set *hash. *)
GetReturnsEarly == hstep = "off" /\ ~dbf

(* hcache_get: whether the key was found, and the hash if it was. *)
HGet ==
  /\ Prepared(FALSE) /\ dbf
  /\ hstep' = "off"
  /\ UNCHANGED <<hcd, vdb, dbf, validated, hstate>>
Hit(k) == k \in DOMAIN hcd

(* Mutant of HFree: _hcache_validate_done is not called. *)
HFreeAsItIs ==
  /\ dbf' = FALSE /\ hstate' = "closed" /\ hstep' = "off"
  /\ UNCHANGED <<hcd, vdb, validated>>

(* hcache_free, after its _hcache_validate_done. *)
HFree ==
  /\ Prepared(FALSE)
  /\ dbf' = FALSE
  /\ hstate' = "closed"
  /\ hstep' = "off"
  /\ UNCHANGED <<hcd, vdb, validated>>

(* The process ends without hcache_free; the kernel closes its files. *)
Closed == dbf' = FALSE /\ validated' = FALSE /\ hstate' = "closed" /\ hstep' = "off"

HExit == Closed /\ UNCHANGED <<hcd, vdb>>

(* One that is killed inside gdbm_store leaves a file that the next gdbm_open    *)
(* may refuse.                                                                    *)
HDie ==
  /\ Closed
  /\ hcd' \in {hcd} \cup (IF dbf /\ hstate = "rdwr" THEN {BadDB} ELSE {})
  /\ UNCHANGED vdb
================================================================================
