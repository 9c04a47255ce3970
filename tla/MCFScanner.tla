------------------------------- MODULE MCFScanner -------------------------------
(* Instances of FScanner for TLC. *)
EXTENDS FScanner, TLC

CONSTANTS a, b, c, h, v, r, d, x, i1, i2, i3, i4, o1

(* The root holds .hcd, .hcd.validate, the files a and c, the directory d with the file   *)
(* b, and the directory x of another device.                                           *)
MCPath == {a, b, c, h, v}
MCSubdir == {d, x}
MCOtherFS == {x}
MCUp == [e \in {a, c, h, v, d, x} |-> r] @@ (b :> d)
MCAbove == [e \in {a, c, h, v, d, x} |-> {}] @@ (b :> {d})

(* b has the name of its directory, as d/d. *)
MCName == (a :> "a") @@ (b :> "d") @@ (c :> "c") @@ (h :> ".hcd") @@ (v :> ".hcd.validate")
            @@ (d :> "d") @@ (x :> "x")

Opt(o, l, t, s) == [opt |-> o, leads |-> l, trails |-> t, texts |-> s]

(* None; -X '[ad]/'; -I d/d -X d, which excludes the directory all the same; and -I /d/d     *)
(* -X '/?*', which keeps what is asked for and the directories on the way to it.        *)
MCOptions ==
  {<< >>,
   <<Opt("X", FALSE, TRUE, {"a", "d"})>>,
   <<Opt("I", TRUE, FALSE, {b}), Opt("X", FALSE, FALSE, {"d"})>>,
   <<Opt("I", TRUE, FALSE, {b}), Opt("I", FALSE, TRUE, {"d"}), Opt("X", FALSE, FALSE, {"a", "d"})>>}
NoOptions == {<< >>}

MCInode == {i1, i2, i3, i4}
MCOwner == {o1}
MCData == {<< >>, <<0>>, <<0, 0>>}
MCMtime == {1}
MCKey == [owner : MCOwner, size : 1..2]
MCHcdFile == [owner |-> o1, data |-> <<0, 0>>, mtime |-> 1]
YesNo == BOOLEAN
Yes == {TRUE}
EditKinds == {"edit", "remove", "create", "rename"}
NoKinds == {}

(* Inodes are interchangeable: they are numbered in the order of the paths they have. *)
PathNo == (a :> 1) @@ (b :> 2) @@ (c :> 3) @@ (h :> 4) @@ (v :> 5)
FirstNo(f, i) == IF i \notin {f[p] : p \in Path} THEN 6 ELSE CHOOSE k \in 1..5 :
                   /\ \E p \in Path : f[p] = i /\ PathNo[p] = k
                   /\ \A p \in Path : f[p] = i => PathNo[p] >= k
Numbered ==
  {f \in [Path -> Inode \cup {NoInode}] :
     FirstNo(f, i1) <= FirstNo(f, i2) /\ FirstNo(f, i2) <= FirstNo(f, i3)
     /\ FirstNo(f, i3) <= FirstNo(f, i4)}

Blank == [owner |-> o1, data |-> <<0>>, mtime |-> 1]
(* Four files with one name each, in two clusters. *)
TwoClusters ==
  /\ options = << >> /\ ~usecache
  /\ dir = (a :> i1) @@ (b :> i2) @@ (c :> i3) @@ (v :> i4) @@ (h :> NoInode)
  /\ node[i1] = Blank /\ node[i2].data # node[i1].data
  /\ {node[i1], node[i2]} = {node[i3], node[i4]} /\ << >> \notin {node[i].data : i \in Inode}

(* .hcd may have a name in the tree, or be one; .hcd.validate, left by a run that was *)
(* killed, has not; with patterns neither is there.  Sizes vary where there is none of  *)
(* these.                                                                                *)
MCInit ==
  /\ dir \in Numbered /\ Init
  /\ \A i \in Inode : Names(i) = {} => node[i] = Blank
  /\ Exists(c) => TwoClusters
  /\ options # << >> => ~usecache /\ dir[h] = NoInode
  /\ usecache \/ options # << >> \/ Exists(h) => \A i \in Inode : node[i] = Blank
  /\ Exists(v) /\ ~Exists(c) => usecache /\ Names(dir[v]) = {v} /\ dir[h] = NoInode
MCSpec == MCInit /\ [][Next]_scanVars /\ WF_scanVars(Step)
================================================================================
