# undup in TLA+

This directory specifies undup(1), the program in `src/`: it scans a directory,
finds the files that have the same contents, owner and permissions, and (with
`-e`) replaces their paths by hard links to the oldest of them. It keeps a
database of hashes, `.hcd`, from one run to the next.

`PROJECT.json` lists the components, runs, theorems and hazards, and says for
every definition which lines of the source it stands for. This page says how it
hangs together and what has been shown.

## The system

| component | state | operations | what makes it correct |
| --- | --- | --- | --- |
| `undup.c` `do_dedup` | the cluster being merged, statistics | `do_dedup` | nobody reading a file can tell; a stop costs at most a name; nothing in a dry run |
| `dedup.c` passes | one table of clusters per loop | `dedup_cluster`, `dedup_pass1..3`, `dedup_final` | clusters hold true duplicates, and all of them; ends |
| `hcache.c` | `.hcd`, `.hcd.validate`, two handles, a mode | `new`, `validate`, `get`, `put`, `free` | a hash found is the hash of the file; good hashes survive; a broken database is replaced |
| `fscanner.c` | directories to read | `fscanner_init`, `fscanner`, `fscanner_close` | every file recorded once, with all its paths |
| `inodetab.c` | paths and mtime of each inode | `add`, `get` | no path is lost, room for all of them |
| `duptable.c` | inodes by owner, mode, size and bytes | `add`, `sort`, `first`, `next` | equal keys meet; entries survive growth |
| `calchash.c` | digest contexts | `hash_file` | the whole file is hashed |
| `undup.c` main | options, order of the run | `undup_main` | options hold when they are used |
| `exclude.c` | pattern list | `excludes_add`, `excludes_check` | excluded paths are left alone |
| `utils.h` `lockfile`, catalogue | a lock on a file; a list of the scanned files | flock; `fopen`, `fprintf`, `fclose` | no two runs at once, if asked for; a whole list |
| `human_readable.c` | none; `dedup_blocks` of undup.c | formatting | rounding, no overflow |

The components are called in one thread: main runs the scan, which fills
`inodetab` and the first `duptab` and validates the cache; then the passes, which
read files, ask and fill the cache, and call `do_dedup` back for each final
cluster; then `fscanner_close`, which lets go of the cache. All concurrency is
with the outside: undup is meant for live file systems (undup.c:340-344), takes
no lock on files, and other processes change them between any two of its calls.
One of these may be another undup: it is started by cron(8), and `-l` is there
for the run that takes longer than the interval. It can be killed anywhere, and
what it leaves is what the next run starts from.

What is hard here is therefore

* what was true at the scan, or when a file was read, and is not when it is
  replaced or its hash is stored;
* a stop between unlink and link, or inside the switch of the databases;
* cached hashes, which carry a mistake of one run into all later ones;
* the arithmetic that decides that two blocks were the whole file;
* the walk over directories whose entries come and go, and the room a table took
  for an inode when it was met first;
* two runs that take each other's oldest file, cache or catalogue away.

`hazards` in `PROJECT.json` has them line by line, with the properties that are
about them.

## Modules

```
FileSystem          the file system and the other processes (external)
  DoDedup           do_dedup for any clusters that keep the caller's contract
    Dedup           + HCache: the passes, the cache, options; a whole run
  CacheUse          + HCache: scan, lookups and hashing, over many runs
  FScanner          + InodeTab, DupTable, Exclude: the scan entry by entry
  HashFiles         the cache's files as several processes share them
    Runs            runs at the same time: lock, catalogue, cache and merging
HCache              .hcd, .hcd.validate and the handle, for one process
InodeTab            the paths of each inode, in slots
DupTable            the table of clusters, with entries that grow; implements
  ClusterTable      what the passes take that table for
Exclude             the patterns of -X and -I
HumanReadable       printed sizes, and the counter behind "Storage freed"

FileSystemProofs, HCacheProofs, DoDedupProofs,
DedupProofs, CacheUseProofs, FScannerProofs,
RunsProofs, HumanReadableProofs                      theorems
MCDoDedup, MCCacheUse, MCDedup, MCFScanner, MCRuns,
MCHumanReadable                                      instances for TLC
```

**FileSystem.** `dir` maps paths to inodes and `node` inodes to owner (uid, gid
and mode in one), contents and mtime. Directories are left out. `touched` and
`moved` record what others have changed since the scan; nearly every property is
about the rest, because what undup does to a file that changes under it cannot
be right in general. Which kinds of changes are made during a run
(`LiveKinds`), and whether an edit may leave the mtime alone (`RacyEdits`), are
parameters: between two runs, every kind is.

**DoDedup.** One action per step of `do_dedup`: `Call` (sort, choose the oldest,
undup.c:104-115), `NextVictim` (outer loop), `NextPath` (inner loop with the
lstat and the statistics), `Unlink`, `Link`, `Return`. The scan is one step,
`StartRun`. Which clusters arrive is left open, within `Mergeable`: distinct
scanned inodes, not in an earlier cluster of the run, and the same file unless
touched since. So `MergeSpec` is the specification of the passes.

**HCache.** A database is a function from keys to hashes; `NoDB` is a file that
is not there and `BadDB` one that gdbm refuses. `_hcache_validate_done`, which
any of get, put and free may run first, is five steps (`DoneClose`,
`DoneUnlink`, `DoneRename`, `DoneReopen`, and the caller's own), so that a kill
can come between the system calls. `HDie` lets a kill while `.hcd` is open for
writing leave a `BadDB`.

**CacheUse.** The cache's client: the scan looks at one entry at a time and
validates, then pass 3 asks for any hashes in any order. `hcache_get` without a
database returns without setting the caller's variable (hcache.c:191,
dedup.c:90). Its value is whatever the stack held. What a build can make of it
is taken to be two outcomes: a null pointer, with which the program goes on to
compute the hash, or anything else, which is read as a hash and then freed and
ends the process by a signal (`GetUndefined`). A stale pointer that happens to
be valid memory and valid to free is left out.

**Dedup.** The passes are nested loops over tables, each of which reads a
cluster into the table below and runs the next pass over that before it goes on.
`tab` has the tables, `lvl` the loop that is running, and one set of actions
serves them all: `NextCluster`, `ReadBlock` (passes 1 and 2), `WantHash` to
`PutHash` (pass 3), `ReadDone` (descend), `TableDone` (return). `Covered` is
`st_size <= BLKSZ` and `<= BLKSZ+BLKSZ`; `Block` is the seek and read. `stp` is
the shared `struct stat`: the iterators fill in owner, mode and size from the key
of their own cluster, which the inner tables inherit, so that all loops agree on
them; the mtime is the recorded one (`Key`). The members of a cluster
are read in any order, a superset of the table's. The scan is DoDedup's one step,
with the validation of the cache in it; a scan that fails half-way, and the
files a validation leaves behind, are CacheUse's, and FScanner shows what the
one step stands for.

**ClusterTable** and **DupTable.** Abstractly, a table of clusters is a set of
pairs of a key and an inode: it is filled, the keys of one inode are dropped,
and the rest is handed out cluster by cluster, larger files first. DupTable has
`duptab_add` with its slots (`WithRoom`, `Grown`: a full entry is taken out of
the hash table and a larger copy put in, which makes it the last in the order of
iteration), the two loops of `dedup_cluster` (`NextEntry`, `CopyInode`), the
sort with ties in any order the keys allow, and `duptab_first`, `duptab_next`.
`dtab`, `out` and `iter` are the tables and the iterator; `dealt` is history.
The instance `Abstract` maps what the iterator has yet to meet to the set of pairs.

**InodeTab.** `inodetab_add` gives an inode as many slots as lstat(2) counted
links when it was met first (`NewNode`), and ends the run when a path finds none
(`HasSlot`).

**Exclude.** A pattern is its flags and the texts it matches; fnmatch(3) is left
to the instance. `ExcludesCheck` is the search for the first match.

**FScanner.** `dirs` is the stack of directories to read, `cdir` the one being
read. readdir(3) promises little about names that change meanwhile: `may` has
the entries it may still return, `must` those it has to before it is done. One
action per branch of the loop: `OpenDir`, `PassOver`, `PushDir`, `AddPath` (both
tables, and the first `hcache_validate`, which makes or empties `.hcd.validate`,
a file that the walk can then meet), `ScanFails`, `CloseDir`, `ScanDone`;
then DupTable's steps. Between any two, `Others` edit, create, remove, rename
or link a file.

**HashFiles** and **Runs.** HCache has one process, for which `.hcd` and
`.hcd.validate` are variables. Here they are names of files that a process may
still hold open when another has renamed or unlinked them, and gdbm_open fails
where another process has the file open for writing. Runs has a whole run per
process, from its options (`GetOption`: `-c` truncates the catalogue and `-l`
waits, each when its turn comes) over the scan and one pass of three to
`do_dedup` and `hcache_free`. The three passes are one here, in which files are
longer than two blocks and alike but for their hash; the catalogue is a sequence
of lines with an offset per process, as a file opened twice with "w" is. The
scan meets the names that were there at opendir(3) and are still when their turn
comes. readdir(3) may also return newer ones, which FScanner has; here the only
new names are old ones linked again, and `NeverAnotherFile` does not depend on
which of them a scan meets.

**HumanReadable.** The conversions by value, in numbers of a width that the
instance chooses; `blocks` is `dedup_blocks`, an int, and `total` what it should
be. A number carries what its letter stands for (`unit`), and a turn of the
loops that divide is `Turn`. Six turns (`Divide`) are the whole loop, as
64 bits are enough for; `HumanReadableAssumption` says so of the widths, and that
an int of blocks, in bytes, is an unsigned long long.

Bytes are numbers 0 and 1 and a file has one disk block per byte. Hash functions
are free of collisions. Operators marked "Mutant" are plausible faults, one for
each property, that the runs are known to catch; the specifications do not use
them.

## Runs

| run | instance | shows |
| --- | --- | --- |
| dodedup_live | 3 inodes, 4 paths of which 1 outside the tree, 2 links per inode, 2 contents, 2 mtimes, 1 change of any kind, racy edits; 2 runs | `UntouchedPreserved`, `AtMostOneNameLost`, `NoContentLost`, `DryRunReadOnly`, `OldestWins`, `FilesExact`: what undup replaces, and where it is stopped, costs others nothing but one name, and its count of paths is right |
| cacheuse_edits | 2 inodes, 2 paths, 2 changes; 3 runs | `CacheSound`, `SwitchExact`, `CompleteRunLeavesCache`: the cache says nothing untrue, keeps what is good, and recovers |
| dedup_passes | all ways in which 4 paths, 1 outside the tree, name 3 inodes, 3 links per inode, 5 contents that the four levels tell apart one after the other, 2 mtimes; and any two files of up to 5 bytes; `BLKSZ` = 2; 1 run | `DuplicatesFound`, `NothingLeftToMerge`, `BlocksExact`, `FailsOnlyAtLinkLimit`, `DoDedupContract`: all duplicates are merged and counted, and nothing else |
| dedup_live | 2 inodes of one size, 3 paths, a second name or a free one, 2 contents that only the hash tells apart and 1 of less than a block (a truncation), `BLKSZ` = 2; 1 change of any kind, but no creation or renaming while a run uses the cache (`CalmWithCache`, the ACTION_CONSTRAINT of the cfg); kills, with and without the cache; 2 runs | `CacheSound`, `DoDedupContract`, `ReadsFailOnlyOnDisturbed`, `Terminates`: a hash of an earlier run never brings different files together, a pass stops only at a file that others disturbed, and every run ends |
| fscanner_scan | 5 paths (2 of them the cache's) in 2 directories, a third on another device, 4 inodes, 4 lists of patterns, 1 slot per entry, 1 change: edit, creation, removal, rename or link | `ScanExact`, `FailsOnlyOnRenames`, `HandsOutClusters`, `ScanEnds`: whatever nobody disturbs is recorded once, in its one cluster, whatever happens next to it |
| runs_two | 2 processes, 3 paths, 3 inodes, 4 cache files, 7 pairs of lists of `-l`, `-c` and `-C`; kills anywhere | `NeverAnotherFile`, `LockedRunsKeepNames`, `LockedRunsSucceed`, `CatalogueWhole`, `LockedRunsKeepHashes`, `EveryRunEnds` |
| humanreadable_sizes | an int of 19 bits, an unsigned long long of 30, inodes of 1, 8 and 4096 blocks, up to 300000 blocks | `FreedIsRight`, `FreedNeverShrinks`, `CompactFits`: right to the rounding they document until the int wraps |

Each also checks the type invariant of its module.

The bounds. Three inodes are a cluster with two victims, or a cluster and a file
that must stay out of it; four paths are an inode with two names and two others.
One change by others is enough for each step to meet each kind of change; the
cache has two, so that both of its files, or one of them twice, can change. Two runs are a run that
leaves something behind and one that finds it; the cache needs three: one that
stores a hash, one that is killed while it validates, and one that finds both
files. Two inodes are enough for the cache, whose entries do not interact, and a
pair of files is enough for what the passes read, because they compare blocks
through keys one file at a time. In dedup_live the third path is what a rename
needs to take a file's first name away and leave it a second one. Which of the
two contents i1 has first is fixed, since nothing depends on it. In dedup_passes the block has two bytes so that
sizes below, at and above one and two blocks all occur. In fscanner_scan an entry
of the table starts with one slot, so that the second inode of a cluster makes it
grow (the code starts with 32). In runs_two a third process would wait for the same lock
or meet the same two files; the proof of `NeverAnotherFile` has any number. In
humanreadable_sizes every total up to the width of the int occurs, and beyond;
the widths leave room for three units. It stops at `MaxTotal`, so that deadlock
is not checked there. Symmetry is over paths and inodes, in runs without
liveness.

Fairness is weak fairness of the program's own steps: the scheduler runs it and
its system calls return. Nobody has to start it, kill it or change anything. In
Runs each process has its own, and flock(2) need not be fair between waiters,
for each run takes the lock once. `Terminates`, `ScanEnds` and `EveryRunEnds`
hold although files change meanwhile, because the loops run over tables, and a
directory is read once: that readdir(3) returns at last, though others keep adding names,
is the bound on changes.

Runs that end in a violation, and what they say of the code:

| run | property | |
| --- | --- | --- |
| dodedup_chown | `OwnersPreserved` | a chmod or chown between scan and replacement is lost (undup.c:132) |
| cacheuse_rename | `ValidatedIsValid` | a rename between scan and hashing files a hash under the wrong inode (dedup.c:101) |
| cacheuse_firstget | `FirstGetEndsValidation` | the first get of a run without `.hcd` returns early, the hash unset (hcache.c:191) |
| cacheuse_readerror | `HashOfWholeFile` | a read error ends the file (calchash.c:131) |
| fscanner_caches | `CachesIgnored` | only `.hcd` is passed over: `.hcd.validate` is scanned like any file (fscanner.c:81) |

More was seen and has no run of its own. An edit that keeps size and mtime keeps
its old hash (hcache.c:89), and two different files are then linked: that is in
the nature of the key, and why `RacyEdits` is FALSE where the cache is used. A
dry run creates and rewrites `.hcd` (hcache.c:138), where undup.c:264 promises
no changes. "Storage freed" (undup.c:410) counts the blocks of inodes that keep a
name outside the directory. Runs without `-l` may remove each other's oldest
file, fail, and lose hashes; `-c` before `-l` truncates the catalogue of the run
that holds the lock, which nothing in the repository rules out: `CatalogueWhole`
is about runs that have `-l` first, and is silent on the others.

`DoDedupContract`, `CacheSound` and `UntouchedPreserved` are thus shown where edits
advance the mtime and nobody creates or renames files during a run, or without
the cache; the violations show that these conditions are needed. They are not
harmless: without `CalmWithCache` dedup_live violates both `CacheSound` and
`DoDedupContract`. Let a and b name one file and c another of the same size and
ends, and c be renamed over a before a is hashed, in a dry run. The hash of the
second file is then stored for the first, which is still there as b; the next
run, which nobody disturbs, finds the two hashes equal and hands two different
files to `do_dedup`.

`FailsOnlyAtLinkLimit` and `LockedRunsSucceed` are about the files of the tree,
which `.hcd.validate` is not, in Dedup and Runs. Where the scan has recorded it
as one (fscanner_caches), it is gone by the name it was recorded under once the
cache has been switched, and a pass that then opens it ends the run, though
nobody disturbs it or the lock is held. The same goes for a `.hcd` that gdbm
refuses, which is CacheUse's and not in Runs.

## Proofs

The theorems hold for every value of the constants within the assumptions named
in the modules (`FileSystemAssumption`, `DoDedupAssumption`,
`DedupAssumption`, `HCacheAssumption`, `CacheUseAssumption`,
`DupTableAssumption`, `FScannerAssumption`, `HashFilesAssumption`,
`RunsAssumption`, `HumanReadableAssumption`; TLC evaluates them in every run), and under what a theorem
itself assumes.

The assumptions are what the world is like: a tree has finitely many paths, a
file can have at least one name, and what a file system starts with is within
its limit of links (`FileSystemInit`).

**FileSystemProofs** has lemmas on what others can do in a step, one per
use: an untouched inode keeps its file, its names do not disappear and no new
one arrives; mtimes do not go back unless edits are racy; without creations and
renames a path only ever loses its inode; no inode gets more names than the
link limit allows. The others count names: what link(2) adds, and what is fewer.

**DoDedupProofs** proves `TypeOK` and all seven safety properties of `MergeSpec`,
with other processes free to do anything. None of them is inductive: from
`UntouchedPreserved` alone one cannot see that the next link leads to a file
like the old one. The invariant `IInv` adds where the program is in the cluster
(`ClusterSound`: victim, pending paths and base belong to one call of
`do_dedup`, whose files were alike at the scan), that the tables still say what
the scan saw (`ItabMatches`), that untouched inodes hold what they held
(`NodesIntact`), that each path others have left alone has its old inode or one
kept for it (`HeldIntact`), and that each merged inode has a kept one like it
(`KeptForMerged`), which has a name as long as nobody touches merged inodes:
that is what `ContentSurvives` needs. For `FilesExact`, `CountInv` says which
paths the count has taken in at each step: those of the victims so far, less
the pending ones of the victim in hand; that no path is taken twice is `ItabMatches`. `BlocksExact` is about runs nobody
disturbs, in which lstat(2) still finds a victim at its first path. Blocks are
counted as a set, one element for each block of each inode, so that sums are
cardinalities of disjoint unions (`BlocksAdd`): `BlocksInv` says that the count is
that of the inodes merged and not kept, less the victims to come (`Tallied`), and the
one in hand until its first path has been met (`Freed`).
`TidyInv` is about a run nobody disturbs, and used below: the table has
all names of each inode in the tree (`NamesAre`), every replaced path leads to a kept
inode like its own (`Replaced`), those to be replaced still lead where the scan
found them (`TodoOK`), no name is new (`NoneNew`), and the limit of links
holds (`LinksFit`).

**HCacheProofs** has what keeps the cache from lying, whichever module uses it.
An entry of either database is right for any file whose mtime is still the
entry's, and mtimes of inodes have not gone behind an entry's (`EntrySound`),
for both files, every handle and each step of the switch (`Databases`). Each
operation of HCache keeps it, a kill does, and so do others where edits advance
the mtime.

**DedupProofs** proves that Dedup implements DoDedup: `PassesHonourContract` is
`DoDedupContract` for any number of files, any contents and block size. Without
the cache others may change anything at any time; with it, over any number of
runs and kills, the world must be `Careful`: edits advance the mtime, and nobody
creates or renames files during a run (the violations above show why). With the
theorems of DoDedupProofs, what they say of `do_dedup` holds of the whole
program; `DedupIsInvisible` states it for `UntouchedPreserved` and
`ReportsAreExact` for the two counts that undup prints. `do_dedup` is
handed a cluster of the innermost table, and that its files are the same follows
only from all the loops around it together. The invariant says so in four
parts: below the running loop the tables are empty (`EmptyBelow`); no inode is
in two clusters, of one table or of two, nor in one and merged (`Apart`), so
that none is handed over twice; the key of an untouched inode is what was read
of it (`Keyed`, which needs `HeldIntact` of DoDedupProofs: the path recorded
first still leads to the inode, though other clusters have been merged
meanwhile); and the untouched inodes of one table agree in the keys of all
tables above it (`Alike`). Equal size and blocks are equal files where one or
two blocks cover them, which is the arithmetic of `st_size <= BLKSZ` and of the
seek (`OneBlockTells`, `TwoBlocksTell`); elsewhere equal hashes are. `CacheInv`
is for hashes out of the cache: the databases are sound, no file is older than
its record (`TimesPast`), the path to be read leads to its inode or nowhere,
although `do_dedup` redirects others (`NamesStay`), and a hash on its way to the
cache is right unless the mtime has moved (`HashWaits`). It gives
`PassesKeepCacheSound` too.

All this says that what is merged is alike. That all that is alike gets merged
is `NoDuplicateMissed`, for runs nobody disturbs, under the same `TrustedWorld`.
`FoundInv` says of a file and its twins, which are the scanned files that are the
same, that any two of them are in a table they share until both are merged (`Together`);
that what is merged has a twin (`Doubles`), and its class one inode that is
kept, an oldest (`OneKept`, `OldestKept`); and that all tables are empty when
the loops are through (`Emptied`). That a cluster is always left to be read while a table is not
empty, the larger sizes first, needs that sizes of a finite table have a largest.
`OneInodePerContents` follows with `TidyInv`.

`OnlyDisturbedFilesStopAPass` is about runs that others disturb: a file they have
left alone never ends a pass. Its first path still leads to it (`HeldIntact`), its
size is that of its cluster (`Alike`), and there is a block to read, since the scan
records no empty file (`NoneEmpty`) and pass 2 only reads files that are longer than a
block (`Deep`), which is also why lseek(2) cannot go before their start.
`OnlyTheLinkLimitStopsARun` adds, for runs nobody disturbs, that unlink(2) and link(2)
find what they need (`TodoOK`, `Replaced`).
`DedupTypesHold` is on its own: it needs no `TrustedWorld`, because its invariant `TypeInv`
takes nothing from files or the cache but that they have values of their types.

**CacheUseProofs** proves `CacheSound` of the cache's client on its own, under
`CarefulWorld`: `Careful`, and reads do not fail inside a file. Its invariant
adds to `Databases` that the scan's record of an inode is not younger than the
inode (`RecSound`), and that a hash waiting to be stored is right if the mtime
has not moved since (`HashSound`).

It also proves `SwitchExact` and `CompleteRunLeavesCache`, whatever others do
and wherever runs are killed; no `CarefulWorld` is needed. The invariant
`SwitchInv` says what is in which file at each step: before the switch `.hcd` is
as the run found it and `.hcd.validate` has just the entries to be kept
(`BeforeSwitch`); between unlink and rename only `.hcd.validate` has them;
afterwards `.hcd` does, and what is stored is for inodes the scan has met. These
two theorems assume `NoneIsDB`: the two values that stand for a missing and a
broken file are no databases, which the model values of the runs are not.

**FScannerProofs** proves, in its first part, that DupTable implements ClusterTable
(`TableRefinesClusters`), and that no inode is written past the slots of its
entry (`NeverPastSlots`). The invariant `DupInv` says that the places of entries
in the order of iteration are distinct and below the next free one, that an
inode has one key (so that entries, which are sequences, and the set of pairs
correspond), that `out` holds just what `dedup_cluster` has passed of the keys of two or more
(`Copying`), and, in the passes, that the order is by size (`Sorted`).

The second part proves the types of the scan, whose point are the slots of
both tables; that it adds every inode once (`Filled`: an inode in the table is
recorded), hence that what it does to the table is `DupSpec` and, with the
theorem above, what pass 1 is handed is ClusterTable's behaviour; and
`FailsOnlyOnRenames`. The last needs to know that a path is met once: in `Quiet`,
as long as no name has changed, the directory being read and those on the stack
are not below one another and nothing below them has been recorded (`Walk`), and
each inode has slots for the names it has yet to be met under (`RoomForAll`).

`ScanIsExact` is about scans during which others change what they like, and says
of everything they leave alone that it is recorded right. So its invariant
`TrackInv` has no `Quiet`: the walk keeps its order whatever happens, because
names that come and go are of files, and only into the directory in hand, which
is not met again (`Walk`, `Clear`). `Steady` says that a name nobody moved and an
inode nobody touched are as they were, the cache's own new file included;
`Reached` that no directory on the way is excluded; `Records` that a
recorded name is a wanted one, under its inode, not to be met again
(`RecordedRight`, `RecordedOnce`), and its inode in the table as it was at the start
(`Entered`). That nothing is left out is `NoneMissed`: readdir(3) still owes
the name or a directory above it, or one above it is on the stack (`Owed`), or it is
recorded. When a directory is opened, the next one on the way to the name is
among its entries (`OnTheWay`), for there are finitely many directories, as
`FScannerAssumption` says.

**RunsProofs** proves `NeverAnotherFile` for any number of processes, with the
lock or without. That a process relies on names others may have moved since is
harmless, because whatever a run moves is alike: `RunsInv` says that a name
recorded for an inode led from the start to a file like it (`ScanOK`), that a
hash in a table or in any cache file, under whatever name it is by now, is that
of its inode (`PassOK`, `HashesRight`), and that base, victims and rest of
`do_dedup` are of one cluster (`MergeOK`).

Its second half is about processes that all take the lock, again any number of
them, killed anywhere. `AloneInv` says that a process that has read its `-l` and has
not ended is the holder of the lock, that the holder has not ended (the kernel
drops the lock with the process), that a process has nothing in its tables
before it is past its options and after it has ended, and that no path is in
them twice. With all of them locked (`AllLock`), `CachesInv` says which
files the cache of a process is in at each step, that no two names are of one
file and that no hash is lost on the way from `.hcd` to `.hcd.validate` and back
(`OwnCache`, `HashesOK`); `TreeInv` says that what is gone from the tree is in
the hand of a process of its own (`GoneOK`), that contents stay within reach,
and that the process inside sees the tree it scanned, but for what it merged
(`ViewOK`), which is why none of its calls fails. `LinesInv` counts lines of the
catalogue that are written or still in a buffer. `NoLockedRunFails` and
`LockedRunsLoseNoName` assume `Roomy`: all names of the tree together are no
more than one inode can have, for link(2) fails past that limit
(undup.c:133), and then a process does stop in the middle of a replacement.
`RunsAssumption` says that processes are finitely many, as they are,
and that options are a sequence of `l`, `c` and `C`.

**HumanReadableProofs** proves the types and the three properties of printed
numbers for ints and long longs of any width within the assumption. That the
counter is the int it should be up to `INT_MAX` is `SizesInv`. The rest is about
the loops. A turn keeps that what is left is the number in its unit, cut off
(`Part`), that the number was not divided more often than it had to be (`Exact`),
and that the tenths are of what the last turn cut off (`Rounded`), not of all turns
together: that is why the storage printed may be off by more than half a tenth.
That six turns are enough is `Left`, from the assumption on the width. For
`FreedOnlyGrows`, two numbers are divided side by side: the smaller is never
divided more often (`Behind`), so that either the units are equal and the
quotients and tenths in order, or the larger number has a unit more and at least one
of it, which is what ten carried tenths of the smaller can come to.

Only model-checked is what needs liveness, which is out of the prover's reach:
`Terminates`, `ScanEnds` and `EveryRunEnds`.

## Not modelled

`hcache_del`, which has no caller; the counters of hits and misses and what
`-h`, `-V`, `-v`, `-q`, `-K`, `-P` and `-m` print; the dumps of tables; strings
and memory (`utils`); the digests, which are external. Symbolic links and
devices are passed over by the scan as empty files are. Directories are not
made, moved or removed. Write errors of gdbm end the run like any failed call;
a `.hcd` that gdbm can open for reading but not for writing is left out. The
process id written to the lock file is read by nobody. Unit tests, `main`, build
and packaging are not part of the model. `PROJECT.json` gives each reason.

## Plan

Done: all modules above, and the proofs.

What is left: Runs with other processes in between, as DoDedup has them, and of
its theorems those that then still hold, with the invariants of DoDedupProofs.
