-------------------------------- MODULE DupTable --------------------------------
(***************************************************************************)
(* duptable.c, and its first use: fscanner adds the scanned inodes by owner,    *)
(* mode and size, dedup_cluster copies the clusters of two or more to a new      *)
(* table, undup_main sorts that one by size, and dedup_pass1 walks it.           *)
(*                                                                         *)
(* An entry of the hash table is an array of inodes with room for `slots' of      *)
(* them.  A full one is taken out and a larger copy put in, which makes it the    *)
(* last in the order of iteration; `at' is the place of an entry in that order.   *)
(* The keys of the passes' own tables, with a block or a hash, behave alike.       *)
(***************************************************************************)
EXTENDS Naturals, Sequences, FiniteSets

CONSTANTS
  Key,     \* owner, mode and size of a file, with .size the size
  NoKey,   \* the end of an iteration
  Ino,     \* inode numbers
  SLOTQ    \* slots an entry starts with, and grows by

ASSUME DupTableAssumption ==
  /\ NoKey \notin Key
  /\ \A k \in Key : k.size \in Nat
  /\ SLOTQ \in Nat \ {0}

VARIABLES
  dtab,    \* fs_dat.dtab
  out,     \* the table dedup_cluster fills
  iter,    \* dtab->iter, as the key of the entry
  n,       \* inodes of that entry dedup_cluster has copied
  dphase,  \* "fill", "cluster", "pass" or "done"
  dealt    \* history: the inodes of the cluster pass 1 was given last

dupVars == <<dtab, out, iter, n, dphase, dealt>>

Entry == [slots : Nat, inos : Seq(Ino), at : Nat]
Table == [ent : [Key -> Entry], next : Nat]

DupTypeOK ==
  /\ dtab \in Table
  /\ out \in Table
  /\ iter \in Key \cup {NoKey}
  /\ n \in Nat
  /\ dphase \in {"fill", "cluster", "pass", "done"}
  /\ dealt \subseteq Ino

NoEntry == [slots |-> 0, inos |-> << >>, at |-> 0]
NewTable == [ent |-> [k \in Key |-> NoEntry], next |-> 0]

Present(t) == {k \in Key : t.ent[k].slots # 0}
Elems(s) == {s[j] : j \in 1..Len(s)}
Holds(t) == {m \in Key \X Ino : m[2] \in Elems(t.ent[m[1]].inos)}

DupInit ==
  /\ dtab = NewTable /\ out = NewTable
  /\ iter = NoKey /\ n = 0 /\ dphase = "fill" /\ dealt = {}

--------------------------------------------------------------------------------
(* Mutants of Grown: the inodes are not copied; the copy has no more room, which     *)
(* the next inode overruns.                                                          *)
GrownEmpty(t, k) ==
  [ent |-> [t.ent EXCEPT ![k] = [slots |-> @.slots + SLOTQ, inos |-> << >>, at |-> t.next]],
   next |-> t.next + 1]
GrownAsBefore(t, k) ==
  [ent |-> [t.ent EXCEPT ![k] = [slots |-> @.slots, inos |-> @.inos, at |-> t.next]],
   next |-> t.next + 1]

(* A full entry is replaced by a larger copy, which comes last. *)
Grown(t, k) ==
  [ent |-> [t.ent EXCEPT ![k] = [slots |-> @.slots + SLOTQ, inos |-> @.inos, at |-> t.next]],
   next |-> t.next + 1]

Created(t, k) ==
  [ent |-> [t.ent EXCEPT ![k] = [slots |-> SLOTQ, inos |-> << >>, at |-> t.next]],
   next |-> t.next + 1]

(* The table with a free slot in the entry of k. *)
WithRoom(t, k) ==
  IF k \notin Present(t) THEN Created(t, k)
  ELSE IF Len(t.ent[k].inos) = t.ent[k].slots THEN Grown(t, k)
  ELSE t

(* duptab_add *)
Added(t, k, i) ==
  LET w == WithRoom(t, k)
  IN  [ent |-> [w.ent EXCEPT ![k] = [slots |-> @.slots, inos |-> Append(@.inos, i), at |-> @.at]],
       next |-> w.next]

(* The first of the keys K in the order of t. *)
FirstOf(t, K) ==
  IF K = {} THEN {NoKey} ELSE {k \in K : \A j \in K : t.ent[k].at <= t.ent[j].at}

(* duptab_first, duptab_next *)
First(t) == FirstOf(t, Present(t))
After(t, k) == {j \in Present(t) : t.ent[k].at < t.ent[j].at}
NextAfter(t, k) == FirstOf(t, After(t, k))

(* duptab_sort_function, in a sort that keeps the order of equals. *)
Before(t, j, k) ==
  j.size > k.size \/ (j.size = k.size /\ t.ent[j].at < t.ent[k].at)

(* u is t after duptab_sort. *)
Placed(t, f) ==
  [ent |-> [k \in Key |->
     [slots |-> t.ent[k].slots, inos |-> t.ent[k].inos,
      at |-> IF k \in Present(t) THEN f[k] ELSE t.ent[k].at]],
   next |-> t.next]
Order(t) ==
  {f \in [Present(t) -> 1..Cardinality(Present(t))] :
     \A j, k \in Present(t) : f[j] < f[k] <=> Before(t, j, k)}

--------------------------------------------------------------------------------
(* fscanner: an inode it has not met before. *)
AddScanned(k, i) ==
  /\ dphase = "fill"
  /\ dtab' = Added(dtab, k, i)
  /\ UNCHANGED <<out, iter, n, dphase, dealt>>

(* dedup_cluster: its two loops, over the entries and over the inodes of one. *)
StartCluster ==
  /\ dphase = "fill"
  /\ iter' \in First(dtab)
  /\ dphase' = "cluster"
  /\ UNCHANGED <<dtab, out, n, dealt>>

Count == Len(dtab.ent[iter].inos)

Pairs == Count >= 2

NextEntry ==
  /\ dphase = "cluster" /\ iter # NoKey
  /\ Pairs => n = Count
  /\ iter' \in NextAfter(dtab, iter)
  /\ n' = 0
  /\ UNCHANGED <<dtab, out, dphase, dealt>>

CopyInode ==
  /\ dphase = "cluster" /\ iter # NoKey
  /\ Pairs /\ n < Count
  /\ n' = n + 1
  /\ out' = Added(out, iter, dtab.ent[iter].inos[n'])
  /\ UNCHANGED <<dtab, iter, dphase, dealt>>

(* undup_main, and duptab_first in dedup_pass1. *)
SortClusters ==
  /\ dphase = "cluster" /\ iter = NoKey
  /\ IF Present(out) = {}
       THEN dphase' = "done" /\ UNCHANGED <<dtab, iter>>
       ELSE /\ \E f \in Order(out) : dtab' = Placed(out, f)
            /\ iter' \in First(dtab')
            /\ dphase' = "pass"
  /\ out' = NewTable
  /\ UNCHANGED <<n, dealt>>

(* dedup_pass1 has the cluster; duptab_next. *)
Deal ==
  /\ dphase = "pass" /\ iter # NoKey
  /\ dealt' = Elems(dtab.ent[iter].inos)
  /\ iter' \in NextAfter(dtab, iter)
  /\ UNCHANGED <<dtab, out, n, dphase>>

PassDone ==
  /\ dphase = "pass" /\ iter = NoKey
  /\ dphase' = "done"
  /\ UNCHANGED <<dtab, out, iter, n, dealt>>

DupStep == StartCluster \/ NextEntry \/ CopyInode \/ SortClusters \/ Deal \/ PassDone

(* The scan adds each inode once. *)
Fresh(i) == \A k \in Key : <<k, i>> \notin Holds(dtab)

DupNext == (\E k \in Key, i \in Ino : Fresh(i) /\ AddScanned(k, i)) \/ DupStep

DupSpec == DupInit /\ [][DupNext]_dupVars

--------------------------------------------------------------------------------
(* Properties.                                                                  *)

(* What is left of the table a pass walks: the entry at iter and those after it. *)
Ahead == IF iter = NoKey THEN {} ELSE {iter} \cup After(dtab, iter)

Remaining == {m \in Holds(dtab) : dphase # "done" /\ (dphase = "pass" => m[1] \in Ahead)}

Stage ==
  IF dphase \in {"fill", "cluster"} THEN "fill" ELSE IF dphase = "pass" THEN "hand" ELSE "done"

Abstract == INSTANCE ClusterTable WITH members <- Remaining, stage <- Stage, handed <- dealt

(* The hash table is a set of pairs, whatever entries grow and move, in the scan's   *)
(* table (duptable.c:81-93) and in the one dedup_cluster copies it to: every cluster  *)
(* of two or more inodes is handed to pass 1 once, whole, and after the larger ones    *)
(* ("get all the candidates (cnt > 1)", dedup.c:35-37; "Sort by size", undup.c:404).   *)
HandsOutClusters == Abstract!ClusterSpec

(* No inode is written past the slots of its entry (duptable.c:81-96). *)
WithinSlots ==
  \A k \in Key : Len(dtab.ent[k].inos) <= dtab.ent[k].slots
                 /\ Len(out.ent[k].inos) <= out.ent[k].slots
================================================================================
