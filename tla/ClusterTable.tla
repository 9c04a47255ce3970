------------------------------ MODULE ClusterTable ------------------------------
(***************************************************************************)
(* What the passes of undup take a table of clusters for: a set of pairs of a  *)
(* key and an inode.  It is filled, the keys of one inode are dropped, and what *)
(* is left is handed out cluster by cluster, the largest files first            *)
(* (dedup.c:35-37, undup.c:404).  Module DupTable implements it by a hash table  *)
(* of arrays that grow; level 1 of module Dedup is a copy of it.                 *)
(***************************************************************************)
EXTENDS Naturals, FiniteSets

CONSTANTS
  Key,     \* owner, mode and size of a file, with .size the size
  Ino      \* inode numbers

VARIABLES
  members,  \* the pairs in the table
  stage,    \* "fill", "hand" or "done"
  handed    \* the inodes of the cluster handed out last

clusterVars == <<members, stage, handed>>

Members(k) == {i \in Ino : <<k, i>> \in members}
InTable(i) == \E k \in Key : <<k, i>> \in members
Candidates == {k \in Key : \E i, j \in Members(k) : i # j}

ClusterInit == members = {} /\ stage = "fill" /\ handed = {}

Put(k, i) ==
  /\ stage = "fill" /\ ~InTable(i)
  /\ members' = members \cup {<<k, i>>}
  /\ UNCHANGED <<stage, handed>>

Select ==
  /\ stage = "fill"
  /\ members' = {m \in members : m[1] \in Candidates}
  /\ stage' = IF Candidates = {} THEN "done" ELSE "hand"
  /\ UNCHANGED handed

Hand(k) ==
  /\ stage = "hand" /\ Members(k) # {}
  /\ \A m \in members : m[1].size <= k.size
  /\ handed' = Members(k)
  /\ members' = {m \in members : m[1] # k}
  /\ UNCHANGED stage

End ==
  /\ stage = "hand" /\ members = {}
  /\ stage' = "done"
  /\ UNCHANGED <<members, handed>>

ClusterNext ==
  \/ \E k \in Key, i \in Ino : Put(k, i)
  \/ Select
  \/ \E k \in Key : Hand(k)
  \/ End

ClusterSpec == ClusterInit /\ [][ClusterNext]_clusterVars
================================================================================
