------------------------------- MODULE MCDoDedup -------------------------------
(* Instances of DoDedup for TLC. *)
EXTENDS DoDedup, TLC

CONSTANTS a, b, c, d, i1, i2, i3, o1, o2

AbcPath == {a, b, c}
AbcdPath == {a, b, c, d}
AbcTree == {a, b, c}
ThreeInode == {i1, i2, i3}
OneOwner == {o1}
TwoOwner == {o1, o2}
TwoData == {<<0>>, <<1>>}
MCMtime == {1, 2}
AllKinds == Kinds
ChownKinds == {"chown"}

Symmetry == Permutations(AbcTree) \cup Permutations(ThreeInode)

(* Unused inodes start from one fixed value: what they hold first matters only *)
(* once others create a file in them, and that sets it.                        *)
Blank == [owner |-> o1, data |-> <<0>>, mtime |-> 1]
MCInit == MergeInit /\ \A i \in Inode : Names(i) = {} => node[i] = Blank
MCSpec == MCInit /\ [][MergeNext]_mergeVars
================================================================================
