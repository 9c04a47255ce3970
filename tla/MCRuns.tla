--------------------------------- MODULE MCRuns ---------------------------------
(* Instances of Runs for TLC. *)
EXTENDS Runs, TLC

CONSTANTS a, b, c, i1, i2, i3, o1, s1, s2, f1, f2, f3, f4

MCPath == {a, b, c}
MCInode == {i1, i2, i3}
MCOwner == {o1}
MCData == {<<0>>, <<1>>}
MCMtime == {1}
MCProc == {s1, s2}
MCDBFile == {f1, f2, f3, f4}
NoKinds == {}

(* Two runs with the lock and a catalogue, in either order, or the cache, and runs of which *)
(* one or both have no lock.                                                                 *)
MCArgPairs ==
  {<<<<"l", "c", "C">>, <<"l", "c", "C">>>>, <<<<"l", "c", "C">>, <<"c", "l", "C">>>>,
   <<<<"l", "c">>, <<"l">>>>, <<<<"c", "l", "C">>, <<"C">>>>,
   <<<<"C">>, <<"C">>>>, <<<<"C">>, << >>>>, <<<< >>, << >>>>}
MCArgs == {x[1] : x \in MCArgPairs} \cup {x[2] : x \in MCArgPairs}

(* Three files, or two of which one has two names; where a run has no lock, two files. *)
MCDirs ==
  {(a :> i1) @@ (b :> i2) @@ (c :> i3), (a :> i1) @@ (b :> i1) @@ (c :> i2)}
MCPair == (a :> i1) @@ (b :> i2) @@ (c :> NoInode)
MCNodes == {f \in [MCInode -> File] : f[i1].data = <<0>> /\ f[i2].data = <<0>>}
MCInit ==
  /\ \E x \in MCArgPairs : args = (s1 :> x[1]) @@ (s2 :> x[2])
  /\ dir \in MCDirs \cup {MCPair} /\ node \in MCNodes
  /\ AllLock <=> dir # MCPair
  /\ dir[c] # i3 => node[i3].data = <<0>>
  /\ Init
  /\ hcdName \in {NoFile, f1} /\ (\A s \in Proc : ~Cached(s)) => hcdName = NoFile
MCSpec == MCInit /\ [][Next]_runsVars /\ \A s \in Proc : WF_runsVars(Step(s))
================================================================================
