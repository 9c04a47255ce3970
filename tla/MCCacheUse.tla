------------------------------- MODULE MCCacheUse -------------------------------
(* Instances of CacheUse for TLC. *)
EXTENDS CacheUse, TLC

CONSTANTS a, b, c, i1, i2, o1

AbPath == {a, b}
AbcPath == {a, b, c}
TwoInode == {i1, i2}
OneOwner == {o1}
NonEmptyData == {<<0>>, <<1>>}
SmallData == {<< >>, <<0>>, <<1>>}
MCMtime == 1..3
Md5 == {"md5"}
EditKinds == {"edit", "chown", "remove"}
RenameKinds == {"rename"}
NoKinds == {}

Symmetry == Permutations(AbPath) \cup Permutations(TwoInode)
RenameSymmetry == Permutations(AbcPath) \cup Permutations(TwoInode)

Blank == [owner |-> o1, data |-> <<0>>, mtime |-> 1]

(* Files start old: edits need later times. *)
MCInit ==
  /\ Init
  /\ \A i \in Inode : node[i].mtime = 1 /\ (Names(i) = {} => node[i] = Blank)
MCSpec == MCInit /\ [][Next]_cacheUseVars
================================================================================
