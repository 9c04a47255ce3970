-------------------------------- MODULE CacheUse --------------------------------
(***************************************************************************)
(* The hash cache and the files it is about, over many runs: the scan         *)
(* validates the entry of each inode it meets (fscanner.c:104-108), pass 3 asks *)
(* for hashes and computes those that are missing (dedup.c:91-115), and          *)
(* fscanner_close lets the cache go.  Which inodes pass 3 asks about is left      *)
(* open: any, in any order, any number of times.  Other processes change files    *)
(* between any two steps, and the run can be killed at each.                      *)
(***************************************************************************)
EXTENDS FileSystem, HCache

CONSTANTS
  NoRec,       \* an inode the scan has not met
  HashType,    \* the hashes -5, -S and -H select
  ReadErrors,  \* TRUE: read(2) may fail within a file
  MaxRuns      \* bound: runs of the program

ASSUME CacheUseAssumption ==
  /\ NoRec \notin [path : Tree, stat : File]
  /\ ReadErrors \in BOOLEAN /\ MaxRuns \in Nat

VARIABLES
  upc,      \* where the program is
  todo,     \* entries readdir(3) has listed and the scan has not looked at
  rec,      \* what the scan recorded of an inode: its first path and its lstat(2)
  cktype,   \* cache->type
  cur,      \* the inode whose hash pass 3 wants
  hval,     \* the hash of cur, between hash_file and hcache_put
  hcd0,     \* history: .hcd when the run opened the cache
  runs      \* how often the program was started

local == <<todo, rec, cktype, cur, hval, hcd0, runs>>
cacheUseVars == <<fsVars, hcVars, local, upc>>

Stopped == {"idle", "done", "failed", "faulted", "killed"}
Running == {"scan", "use", "get", "hash", "put", "free"}

Met(i) == rec[i] # NoRec
Key(i) == StatKey(i, rec[i].stat, cktype)
KeysMet == {Key(i) : i \in {j \in Inode : Met(j)}}

TypeOK ==
  /\ FileSystemTypeOK
  /\ HCacheTypeOK
  /\ upc \in Stopped \cup Running
  /\ todo \subseteq Tree
  /\ rec \in [Inode -> {NoRec} \cup [path : Tree, stat : File]]
  /\ cktype \in HashType
  /\ upc \in {"get", "hash", "put"} => cur \in Inode /\ Met(cur)
  /\ runs \in Nat

Init ==
  /\ FileSystemInit
  /\ HCacheInit
  /\ upc = "idle"
  /\ todo = {} /\ rec = [i \in Inode |-> NoRec]
  /\ cktype \in HashType
  /\ cur = NoInode /\ hval = << >> /\ hcd0 = NoDB /\ runs = 0

--------------------------------------------------------------------------------
(* undup_main and fscanner_init. *)
Start ==
  /\ upc \in Stopped /\ runs < MaxRuns
  /\ runs' = runs + 1
  /\ HNew
  /\ upc' = "scan"
  /\ todo' = {p \in Tree : Exists(p)}
  /\ rec' = [i \in Inode |-> NoRec]
  /\ cktype' \in HashType
  /\ cur' = NoInode /\ hval' = << >> /\ hcd0' = hcd
  /\ dir0' = dir /\ node0' = node /\ touched' = {} /\ moved' = {}
  /\ UNCHANGED <<dir, node, changes>>

(* fscanner looks at one entry: an inode met for the first time has its hash    *)
(* validated, the other names of one and empty files do not count.              *)
ScanEntry(p) ==
  /\ upc = "scan" /\ p \in todo /\ Exists(p)
  /\ todo' = todo \ {p}
  /\ LET i == dir[p] IN
       \/ /\ ~Met(i) /\ node[i].data # << >>
          /\ rec' = [rec EXCEPT ![i] = [path |-> p, stat |-> node[i]]]
          /\ HValidate(StatKey(i, node[i], cktype))
       \/ /\ Met(i) \/ node[i].data = << >>
          /\ UNCHANGED <<rec, hcVars>>
  /\ UNCHANGED <<fsVars, cktype, cur, hval, hcd0, runs, upc>>

(* The program ends where a call fails. *)
Fail == upc' = "failed" /\ HExit /\ UNCHANGED <<fsVars, local>>

(* A listed file is gone, or .hcd.validate cannot be created. *)
ScanFails ==
  /\ upc = "scan"
  /\ ~validated \/ \E p \in todo : ~Exists(p)
  /\ Fail

ScanDone ==
  /\ upc = "scan" /\ todo = {}
  /\ upc' = "use"
  /\ UNCHANGED <<fsVars, hcVars, local>>

(* Mutant of Lookup: an inode the scan has not met is asked about. *)
LookupAny(i) ==
  /\ upc = "use"
  /\ cur' = i
  /\ upc' = "get"
  /\ UNCHANGED <<fsVars, hcVars, todo, rec, cktype, hval, hcd0, runs>>

Lookup(i) ==
  /\ upc = "use" /\ Met(i)
  /\ cur' = i
  /\ upc' = "get"
  /\ UNCHANGED <<fsVars, hcVars, todo, rec, cktype, hval, hcd0, runs>>

(* Without a database hcache_get does not set the caller's uninitialised        *)
(* variable (dedup.c:90, 97; hcache.c:191).  What it holds was left on the stack; *)
(* NULL goes on to hash_file, anything else is read as a hash and freed, and the  *)
(* process dies of a signal.                                                      *)
GetUndefined ==
  /\ upc = "get" /\ GetReturnsEarly
  /\ \/ upc' = "hash" /\ UNCHANGED hcVars
     \/ upc' = "faulted" /\ HDie
  /\ UNCHANGED <<fsVars, local>>

GetHash ==
  /\ upc = "get" /\ HGet
  /\ upc' = IF Hit(Key(cur)) THEN "use" ELSE "hash"
  /\ UNCHANGED <<fsVars, local>>

(* hash_file reads whatever the recorded path names now.  Its loop ends at a     *)
(* read error as at the end of the file (calchash.c:131), and what was read up   *)
(* to there is hashed.                                                            *)
Read(d) == {d} \cup (IF ReadErrors THEN {SubSeq(d, 1, n) : n \in 0..Len(d)} ELSE {})

HashFile ==
  /\ upc = "hash"
  /\ Exists(rec[cur].path)
  /\ \E d \in Read(node[dir[rec[cur].path]].data) : hval' = HashOf(cktype, d)
  /\ upc' = "put"
  /\ UNCHANGED <<fsVars, hcVars, todo, rec, cktype, cur, hcd0, runs>>

HashFails == upc = "hash" /\ ~Exists(rec[cur].path) /\ Fail

PutHash ==
  /\ upc = "put" /\ HPut(Key(cur), hval)
  /\ upc' = "use"
  /\ UNCHANGED <<fsVars, local>>

Close ==
  /\ upc = "use"
  /\ upc' = "free"
  /\ UNCHANGED <<fsVars, hcVars, local>>

FreeCache ==
  /\ upc = "free" /\ HFree
  /\ upc' = "done"
  /\ UNCHANGED <<fsVars, local>>

(* _hcache_validate_done on behalf of the call the program is in. *)
Switch ==
  /\ \/ upc = "get" /\ ~GetReturnsEarly /\ DoneClose(FALSE)
     \/ upc = "put" /\ DoneClose(TRUE)
     \/ upc = "free" /\ DoneClose(FALSE)
     \/ upc \in {"get", "put", "free"} /\ DoneStep
  /\ UNCHANGED <<fsVars, local, upc>>

Kill == upc \in Running /\ upc' = "killed" /\ HDie /\ UNCHANGED <<fsVars, local>>

Others ==
  /\ LiveChange(IF upc \in Stopped THEN Kinds ELSE LiveKinds)
  /\ UNCHANGED <<hcVars, local, upc>>

Terminated == upc \in Stopped /\ runs = MaxRuns /\ UNCHANGED cacheUseVars

Next ==
  \/ Start
  \/ \E p \in Path : ScanEntry(p)
  \/ ScanFails \/ ScanDone
  \/ \E i \in Inode : Lookup(i)
  \/ GetUndefined \/ GetHash \/ HashFile \/ HashFails \/ PutHash
  \/ Close \/ FreeCache \/ Switch
  \/ Kill \/ Others \/ Terminated

Spec == Init /\ [][Next]_cacheUseVars

--------------------------------------------------------------------------------
(* Properties.                                                                  *)

(* An entry whose key is what lstat(2) says of a file now has the hash of what  *)
(* the file holds now, so that a hash found by any later run may be trusted      *)
(* (hcache.c:79-94, 159-186).                                                      *)
CacheSound ==
  Readable(hcd) =>
    \A i \in Files, t \in HashType :
      LET k == StatKey(i, node[i], t)
      IN  k \in DOMAIN hcd => hcd[k] = HashOf(t, node[i].data)

(* Once a run that met a file has its database, that holds entries of scanned inodes only ("hashes *)
(* are expired, before we start checking duplicates", hcache.c:37-38), and every    *)
(* entry the run found for one of them: the switch neither revives a stale entry    *)
(* of an interrupted validation nor loses a good one.                               *)
SwitchExact ==
  (upc \in Running /\ hstate = "rdwr" /\ Readable(hcd) /\ KeysMet # {}) =>
    /\ DOMAIN hcd \subseteq KeysMet
    /\ Readable(hcd0) => DOMAIN hcd0 \cap KeysMet \subseteq DOMAIN hcd

(* A run that met a file and ends by itself leaves a database the next one can   *)
(* read, whatever an earlier kill left behind (hcache.c:119-158).                 *)
CompleteRunLeavesCache == (upc = "done" /\ KeysMet # {}) => Readable(hcd)

(* What validation keeps for a file that has not changed since the scan is the    *)
(* hash of that file ("make sure that hashes are still valid. i.e. an i-node still  *)
(* exists and it has not been modified", hcache.c:26-28).                            *)
ValidatedIsValid ==
  (upc \in Running /\ hstate = "rdwr" /\ Readable(hcd)) =>
    \A i \in Inode \ touched :
      Met(i) /\ Key(i) \in DOMAIN hcd => hcd[Key(i)] = HashOf(cktype, node[i].data)

(* "The first read (get) will stop the validation and make the validated data     *)
(* active" (hcache.c:34-35): what follows hcache_get no longer validates.           *)
FirstGetEndsValidation == upc = "hash" => ~validated

(* hash_file has the hash of the file, or the run ends: "if (cnt == -1)             *)
(* errormsg" (calchash.c:132).                                                       *)
HashOfWholeFile ==
  (upc = "put" /\ cur \notin touched) => hval = HashOf(cktype, node[cur].data)
================================================================================
