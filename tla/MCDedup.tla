--------------------------------- MODULE MCDedup ---------------------------------
(* Instances of Dedup for TLC. *)
EXTENDS Dedup, Functions, TLC

CONSTANTS a, b, c, d, i1, i2, i3, o1

AbcPath == {a, b, c}
AbcdPath == {a, b, c, d}
TwoInode == {i1, i2}
ThreeInode == {i1, i2, i3}
OneOwner == {o1}
MCMtime == {1, 2}
Md5 == {"md5"}
Yes == {TRUE}
No == {FALSE}
YesNo == BOOLEAN
AllKinds == Kinds
NoKinds == {}

(* With a block of two bytes: one block; two that end alike or not; three that only *)
(* the hash tells apart.                                                            *)
Depths == {<<0>>, <<0, 0, 0>>, <<0, 0, 1>>, <<0, 0, 0, 0, 0>>, <<0, 0, 1, 0, 0>>}

(* Two files that only the hash tells apart, and what is less than a block of them. *)
Zeroes == <<0, 0, 0, 0, 0>>
Short == <<0>>
Truncations == {Short, Zeroes, <<0, 0, 1, 0, 0>>}

(* Every file of up to two blocks of two bytes and one byte more. *)
Bytes01 == UNION {[1..n -> {0, 1}] : n \in 0..5}

Symmetry3 == Permutations(AbcPath) \cup Permutations(ThreeInode)

Blank == [owner |-> o1, data |-> <<0, 0, 0>>, mtime |-> 1]
Nodes(D, T) == [Inode -> [owner : Owner, data : D, mtime : T]]

(* Inodes without a name start from one fixed value. *)
Unnamed(n, names) == \A i \in Inode : i \notin names => n[i] = Blank

(* Any links between three files, one path of them outside the tree, that the    *)
(* four levels tell apart one after the other.                                     *)
NestedInit ==
  /\ dir \in [Path -> Inode \cup {NoInode}]
  /\ node \in {n \in Nodes(Depths, Mtime) : Unnamed(n, Range(dir))}
  /\ Init

(* Any two files with one name each. *)
PairInit ==
  /\ dir = [p \in Path |-> CASE p = a -> i1 [] p = b -> i2 [] OTHER -> NoInode]
  /\ node \in {n \in Nodes(Bytes01, {1}) : Unnamed(n, {i1, i2})}
  /\ Init

PassesSpec == (NestedInit \/ PairInit) /\ [][Next]_dedupVars

(* Files start old, so that an edit can advance the mtime.  There are two of one size, and *)
(* one has a second name, or there is a name to be had.  Of the two contents that only the   *)
(* hash tells apart, i1 has the first: nothing depends on which.                              *)
OldInit ==
  /\ dir \in {(a :> i1) @@ (b :> i1) @@ (c :> i2), (a :> i1) @@ (b :> i2) @@ (c :> NoInode)}
  /\ node \in {n \in Nodes(Truncations, {1}) :
                n[i1].data \in {Short, Zeroes} /\ Len(n[i1].data) = Len(n[i2].data)}
  /\ Init

(* What the cache asks of others, as in Careful of HCacheProofs: that they create and    *)
(* rename nothing while a run uses it.                                                      *)
CalmWithCache ==
  (usecache /\ pc \notin Stopped /\ changes' # changes) =>
    \A p \in Path : dir'[p] \in {dir[p], NoInode}

LiveSpec == OldInit /\ [][Next]_dedupVars /\ WF_dedupVars(Step)
================================================================================
