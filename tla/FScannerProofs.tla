----------------------------- MODULE FScannerProofs -----------------------------
(***************************************************************************)
(* Proofs about the scan and its table, in two parts.                             *)
(*                                                                                *)
(* The table of duptable.c, with its entries that grow and move, implements      *)
(* module ClusterTable for any keys, any inodes and any number of slots.  The      *)
(* invariant says of a table that its entries have room for what they hold and     *)
(* places of their own, of the scan's table that no inode is in it twice, and of    *)
(* the copy dedup_cluster makes that it is right up to the inode it has come to.    *)
(*                                                                                *)
(* Whatever others do to the tree meanwhile, the scan fills its table as          *)
(* DupTable takes for granted, so that what the first part shows of the table      *)
(* holds of a scan; and while nobody changes a name, no scan fails.                 *)
(***************************************************************************)
EXTENDS FScanner, FileSystemProofs, FiniteSetTheorems, SequenceTheorems, WellFoundedInduction, TLAPS

--------------------------------------------------------------------------------
(* The table.                                                                   *)

Same(s, r) == Len(s) = Len(r) /\ \A p \in 1..Len(s) : s[p] = r[p]

Inos(t, k) == t.ent[k].inos
At(t, k) == t.ent[k].at

(* An entry has the room it needs, holds something, and has a place of its own. *)
Sound(t) ==
  /\ t \in Table
  /\ IsFiniteSet(Present(t))
  /\ \A k \in Key : Len(Inos(t, k)) <= t.ent[k].slots
  /\ \A k \in Present(t) : Len(Inos(t, k)) > 0
  /\ \A j, k \in Present(t) : At(t, j) = At(t, k) => j = k

(* A sound table to which entries may be added. *)
Good(t) == Sound(t) /\ \A k \in Present(t) : At(t, k) < t.next

(* No inode is in the table twice. *)
Once(t) ==
  \A j, k \in Key : \A p \in 1..Len(Inos(t, j)), q \in 1..Len(Inos(t, k)) :
    Inos(t, j)[p] = Inos(t, k)[q] => j = k /\ p = q

(* Where dedup_cluster has been, where it has not, and where it is. *)
Behind(k) == iter # NoKey /\ k \in Present(dtab) => At(dtab, k) < At(dtab, iter)
Beyond(k) == iter # NoKey /\ k \in Present(dtab) /\ At(dtab, iter) < At(dtab, k)

Copying ==
  /\ \A k \in Key : Behind(k) =>
       IF Len(Inos(dtab, k)) >= 2 THEN Same(Inos(out, k), Inos(dtab, k)) ELSE Len(Inos(out, k)) = 0
  /\ \A k \in Key : Beyond(k) => Len(Inos(out, k)) = 0
  /\ iter # NoKey =>
       /\ n <= Count /\ (n # 0 => Count >= 2)
       /\ Len(Inos(out, iter)) = n
       /\ \A p \in 1..n : Inos(out, iter)[p] = Inos(dtab, iter)[p]

Sorted == \A j, k \in Present(dtab) : At(dtab, j) < At(dtab, k) => j.size >= k.size

DupInv ==
  /\ DupTypeOK
  /\ Sound(dtab) /\ Good(out) /\ Once(dtab)
  /\ dphase = "fill" => Good(dtab)
  /\ iter \in Present(dtab) \cup {NoKey}
  /\ dphase = "fill" => n = 0 /\ iter = NoKey /\ \A k \in Key : Len(Inos(out, k)) = 0
  /\ dphase = "cluster" => Copying
  /\ dphase = "pass" => Sorted

--------------------------------------------------------------------------------
(* A table has an entry of a key exactly where it holds an inode of it. *)
LEMMA PresentHolds ==
  ASSUME NEW t, Sound(t), NEW k \in Key
  PROVE  k \in Present(t) <=> Len(Inos(t, k)) > 0
<1>1. t.ent[k].slots \in Nat /\ Len(Inos(t, k)) \in Nat /\ Len(Inos(t, k)) <= t.ent[k].slots
  BY DEF Good, Sound, Table, Entry, Inos
<1> QED
  BY <1>1 DEF Sound, Present

LEMMA NewTableGood == Good(NewTable) /\ Once(NewTable)
<1>1. NewTable \in Table
  BY DEF NewTable, Table, NoEntry, Entry
<1>2. Present(NewTable) = {}
  BY DEF Present, NewTable, NoEntry
<1>3. \A k \in Key : Inos(NewTable, k) = << >> /\ NewTable.ent[k].slots = 0
  BY DEF NewTable, NoEntry, Inos
<1> QED
  BY <1>1, <1>2, <1>3, FS_EmptySet DEF Good, Sound, Once

(* duptab_add appends one inode to one entry, and leaves a good table. *)
LEMMA AddedRight ==
  ASSUME NEW t, Good(t), NEW k \in Key, NEW i \in Ino
  PROVE  /\ Good(Added(t, k, i))
         /\ Inos(Added(t, k, i), k) = Append(Inos(t, k), i)
         /\ \A j \in Key \ {k} : Inos(Added(t, k, i), j) = Inos(t, j)
<1> DEFINE w == WithRoom(t, k)
           e == [slots |-> w.ent[k].slots, inos |-> Append(w.ent[k].inos, i), at |-> w.ent[k].at]
           u == Added(t, k, i)
<1>1. /\ t \in Table /\ t.next \in Nat /\ t.ent \in [Key -> Entry]
      /\ \A j \in Key : t.ent[j].slots \in Nat /\ t.ent[j].inos \in Seq(Ino) /\ t.ent[j].at \in Nat
  BY DEF Good, Sound, Table, Entry
<1>0. SLOTQ \in Nat /\ SLOTQ > 0
  BY DupTableAssumption
<1>2. /\ w \in Table
      /\ Inos(w, k) = Inos(t, k) /\ w.ent[k].slots > Len(Inos(t, k))
      /\ \A j \in Key \ {k} : w.ent[j] = t.ent[j]
      /\ At(w, k) < w.next /\ t.next <= w.next
      /\ At(w, k) = t.next \/ (k \in Present(t) /\ At(w, k) = At(t, k))
  <2>1. CASE k \notin Present(t)
    <3>1. w = Created(t, k)
      BY <2>1 DEF WithRoom
    <3>2. Inos(t, k) = << >>
      BY <2>1, <1>1, PresentHolds DEF Inos, Good
    <3> QED
      BY <3>1, <3>2, <1>0, <1>1 DEF Created, Table, Entry, Inos, At
  <2>2. CASE k \in Present(t) /\ Len(t.ent[k].inos) = t.ent[k].slots
    <3>1. w = Grown(t, k)
      BY <2>2 DEF WithRoom
    <3>2. /\ w.next = t.next + 1
          /\ w.ent[k] = [slots |-> t.ent[k].slots + SLOTQ, inos |-> t.ent[k].inos, at |-> t.next]
          /\ \A j \in Key \ {k} : w.ent[j] = t.ent[j]
      BY <3>1, <1>1 DEF Grown
    <3>3. w.ent[k] \in Entry
      BY <3>2, <1>0, <1>1 DEF Entry
    <3>4. w \in Table
      BY <3>1, <3>3, <1>1 DEF Grown, Table
    <3> QED
      BY <3>2, <3>4, <2>2, <1>0, <1>1 DEF Inos, At
  <2>3. CASE k \in Present(t) /\ Len(t.ent[k].inos) # t.ent[k].slots
    <3>1. w = t
      BY <2>3 DEF WithRoom
    <3>2. Len(Inos(t, k)) \in Nat /\ Len(Inos(t, k)) <= t.ent[k].slots
      BY <1>1 DEF Good, Sound, Inos
    <3>3. At(t, k) < t.next
      BY <2>3 DEF Good, Sound
    <3> QED
      BY <3>1, <3>2, <3>3, <2>3, <1>1 DEF Inos, At
  <2> QED
    BY <2>1, <2>2, <2>3
<1> HIDE DEF w
<1>3. /\ u = [ent |-> [w.ent EXCEPT ![k] = e], next |-> w.next]
      /\ w.ent \in [Key -> Entry] /\ w.next \in Nat
  BY <1>2 DEF Added, w, Table
<1> HIDE DEF u
<1>4. /\ u.next = w.next
      /\ u.ent[k] = [slots |-> w.ent[k].slots, inos |-> Append(w.ent[k].inos, i), at |-> w.ent[k].at]
      /\ \A j \in Key \ {k} : u.ent[j] = t.ent[j]
      /\ u \in Table
  <2>1. u.next = w.next /\ u.ent = [w.ent EXCEPT ![k] = e]
    BY <1>3
  <2>2. w.ent[k] \in Entry
    BY <1>3
  <2>3. e \in Entry
    BY <2>2 DEF Entry
  <2>4. u.ent[k] = e /\ \A j \in Key \ {k} : u.ent[j] = w.ent[j]
    BY <2>1, <1>3
  <2>5. u.ent \in [Key -> Entry]
    BY <2>1, <2>3, <1>3
  <2>6. u = [ent |-> u.ent, next |-> u.next]
    BY <1>3
  <2>7. u \in Table
    BY <2>1, <2>5, <2>6, <1>3 DEF Table
  <2> QED
    BY <2>1, <2>4, <2>7, <1>2
<1>5. /\ Inos(u, k) = Append(Inos(t, k), i)
      /\ Len(Inos(u, k)) = Len(Inos(t, k)) + 1
      /\ u.ent[k].slots = w.ent[k].slots /\ At(u, k) = At(w, k)
      /\ \A j \in Key \ {k} : Inos(u, j) = Inos(t, j) /\ At(u, j) = At(t, j)
                              /\ u.ent[j].slots = t.ent[j].slots
  BY <1>1, <1>2, <1>4 DEF Inos, At
<1>6. \A j \in Key : Len(Inos(u, j)) <= u.ent[j].slots
  <2>1. \A j \in Key : Len(Inos(t, j)) \in Nat /\ w.ent[j].slots \in Nat
    BY <1>1, <1>2 DEF Inos, Table, Entry
  <2>2. \A j \in Key : Len(Inos(t, j)) <= t.ent[j].slots
    BY DEF Good, Sound
  <2>3. Len(Inos(u, k)) <= u.ent[k].slots
    BY <2>1, <1>2, <1>5
  <2> QED
    BY <2>2, <2>3, <1>5
<1>7. /\ Present(u) = Present(t) \cup {k}
      /\ \A j \in Present(t) : At(t, j) < t.next /\ At(t, j) \in Nat
      /\ \A j \in Present(u) : Len(Inos(u, j)) > 0 /\ At(u, j) < u.next
  <2>1. Present(u) = Present(t) \cup {k}
    <3>1. u.ent[k].slots # 0
      BY <1>1, <1>2, <1>5 DEF Inos
    <3> QED
      BY <3>1, <1>5 DEF Present
  <2>2. \A j \in Present(t) : At(t, j) < t.next /\ At(t, j) \in Nat /\ Len(Inos(t, j)) > 0
    <3>1. \A j \in Key : At(t, j) \in Nat
      BY <1>1 DEF At
    <3> QED
      BY <3>1 DEF Good, Sound, Present
  <2>3. Len(Inos(t, k)) \in Nat
    BY <1>1 DEF Inos
  <2>4. Present(t) \subseteq Key
    BY DEF Present
  <2>5. Len(Inos(u, k)) > 0 /\ At(u, k) < u.next
    BY <2>3, <1>2, <1>4, <1>5
  <2>6. \A j \in Present(t) \ {k} : Len(Inos(u, j)) > 0 /\ At(u, j) < u.next
    <3>1. w.next \in Nat
      BY <1>3
    <3> QED
      BY <3>1, <2>2, <2>4, <1>1, <1>2, <1>4, <1>5
  <2> QED
    BY <2>1, <2>2, <2>5, <2>6
<1>8. \A j, l \in Present(u) : At(u, j) = At(u, l) => j = l
  BY <1>1, <1>2, <1>5, <1>7 DEF Good, Sound, Present
<1>9. IsFiniteSet(Present(u))
  BY <1>7, FS_AddElement DEF Good, Sound
<1> QED
  BY <1>4, <1>5, <1>6, <1>7, <1>8, <1>9 DEF Good, Sound, u

LEMMA ElemsAppend ==
  ASSUME NEW s \in Seq(Ino), NEW i \in Ino
  PROVE  Elems(Append(s, i)) = Elems(s) \cup {i}
<1>1. /\ Len(s) \in Nat /\ Len(Append(s, i)) = Len(s) + 1
      /\ Append(s, i)[Len(s) + 1] = i
      /\ \A p \in 1..Len(s) : Append(s, i)[p] = s[p]
  OBVIOUS
<1>2. Elems(Append(s, i)) \subseteq Elems(s) \cup {i}
  <2> SUFFICES ASSUME NEW p \in 1..(Len(s) + 1), Append(s, i)[p] # i
               PROVE  Append(s, i)[p] \in Elems(s)
    BY <1>1 DEF Elems
  <2>1. p \in 1..Len(s)
    BY <1>1
  <2> QED
    BY <2>1, <1>1 DEF Elems
<1>3. Elems(s) \cup {i} \subseteq Elems(Append(s, i))
  <2>1. \A p \in 1..Len(s) : p \in 1..Len(Append(s, i))
    BY <1>1
  <2>2. Len(s) + 1 \in 1..Len(Append(s, i))
    BY <1>1
  <2> QED
    BY <2>1, <2>2, <1>1 DEF Elems
<1> QED
  BY <1>2, <1>3

(* As a set of pairs, the table gains the pair that is added. *)
LEMMA HoldsAdded ==
  ASSUME NEW t, Good(t), NEW k \in Key, NEW i \in Ino
  PROVE  Holds(Added(t, k, i)) = Holds(t) \cup {<<k, i>>}
<1>1. \A j \in Key : Inos(t, j) \in Seq(Ino)
  BY DEF Good, Sound, Table, Entry, Inos
<1>2. Elems(Inos(Added(t, k, i), k)) = Elems(Inos(t, k)) \cup {i}
  <2>1. Inos(Added(t, k, i), k) = Append(Inos(t, k), i)
    BY AddedRight
  <2>2. Elems(Append(Inos(t, k), i)) = Elems(Inos(t, k)) \cup {i}
    BY <1>1, ElemsAppend
  <2> QED
    BY <2>1, <2>2
<1>3. \A j \in Key \ {k} : Elems(Inos(Added(t, k, i), j)) = Elems(Inos(t, j))
  BY AddedRight
<1> QED
  BY <1>2, <1>3 DEF Holds, Inos

LEMMA OnceAdded ==
  ASSUME NEW t, Good(t), Once(t), NEW k \in Key, NEW i \in Ino,
         \A j \in Key : <<j, i>> \notin Holds(t)
  PROVE  Once(Added(t, k, i))
<1> DEFINE u == Added(t, k, i)
<1>1. \A j \in Key : Inos(t, j) \in Seq(Ino)
  BY DEF Good, Sound, Table, Entry, Inos
<1>2. Inos(u, k) = Append(Inos(t, k), i) /\ \A j \in Key \ {k} : Inos(u, j) = Inos(t, j)
  BY AddedRight
<1> HIDE DEF u
<1>3. \A j \in Key : \A p \in 1..Len(Inos(t, j)) : Inos(t, j)[p] # i
  BY DEF Holds, Elems, Inos
<1>4. \A j \in Key : \A p \in 1..Len(Inos(u, j)) :
         \/ p \in 1..Len(Inos(t, j)) /\ Inos(u, j)[p] = Inos(t, j)[p]
         \/ j = k /\ p = Len(Inos(t, k)) + 1 /\ Inos(u, j)[p] = i
  <2> SUFFICES ASSUME NEW p \in 1..Len(Inos(u, k))
               PROVE  \/ p \in 1..Len(Inos(t, k)) /\ Inos(u, k)[p] = Inos(t, k)[p]
                      \/ p = Len(Inos(t, k)) + 1 /\ Inos(u, k)[p] = i
    BY <1>2
  <2>1. Len(Inos(t, k)) \in Nat /\ Len(Inos(u, k)) = Len(Inos(t, k)) + 1
    BY <1>1, <1>2
  <2> QED
    BY <2>1, <1>1, <1>2
<1>5. SUFFICES ASSUME NEW j \in Key, NEW l \in Key,
                      NEW p \in 1..Len(Inos(u, j)), NEW q \in 1..Len(Inos(u, l)),
                      Inos(u, j)[p] = Inos(u, l)[q]
               PROVE  j = l /\ p = q
  BY DEF Once, u
<1> QED
  BY <1>3, <1>4, <1>5 DEF Once

(* duptab_sort keeps every entry, and puts larger files first. *)
LEMMA PlacedSorted ==
  ASSUME NEW t, Sound(t), NEW f \in Order(t)
  PROVE  /\ Sound(Placed(t, f)) /\ Present(Placed(t, f)) = Present(t)
         /\ \A k \in Key : Inos(Placed(t, f), k) = Inos(t, k)
         /\ \A j, k \in Present(t) :
               At(Placed(t, f), j) < At(Placed(t, f), k) => j.size >= k.size
<1> DEFINE u == Placed(t, f)
           at(k) == IF k \in Present(t) THEN f[k] ELSE t.ent[k].at
<1>1. /\ t.ent \in [Key -> Entry] /\ t.next \in Nat /\ Present(t) \subseteq Key
      /\ \A k \in Key : t.ent[k].slots \in Nat /\ t.ent[k].inos \in Seq(Ino) /\ t.ent[k].at \in Nat
  BY DEF Sound, Table, Entry, Present
<1>2. Cardinality(Present(t)) \in Nat
  BY FS_CardinalityType DEF Sound
<1>3. /\ f \in [Present(t) -> Nat]
      /\ \A j, k \in Present(t) : f[j] < f[k] <=> Before(t, j, k)
  BY <1>2 DEF Order
<1>4. \A k \in Key : u.ent[k] = [slots |-> t.ent[k].slots, inos |-> t.ent[k].inos, at |-> at(k)]
  BY DEF Placed
<1>5. u \in Table
  <2>1. \A k \in Key :
           [slots |-> t.ent[k].slots, inos |-> t.ent[k].inos, at |-> at(k)] \in Entry
    BY <1>1, <1>3 DEF Entry
  <2> QED
    BY <2>1, <1>1 DEF Placed, Table
<1> HIDE DEF u
<1>6. /\ \A k \in Key : Inos(u, k) = Inos(t, k) /\ u.ent[k].slots = t.ent[k].slots
      /\ \A k \in Present(t) : At(u, k) = f[k]
  <2>1. ASSUME NEW k \in Key
        PROVE  u.ent[k].inos = t.ent[k].inos /\ u.ent[k].slots = t.ent[k].slots /\ u.ent[k].at = at(k)
    <3> DEFINE x == at(k)
               r == t.ent[k].slots
               s == t.ent[k].inos
    <3>1. u.ent[k] = [slots |-> r, inos |-> s, at |-> x]
      BY <1>4
    <3> HIDE DEF x, r, s
    <3>2. u.ent[k].inos = s /\ u.ent[k].slots = r /\ u.ent[k].at = x
      BY <3>1
    <3> QED
      BY <3>2 DEF x, r, s
  <2> QED
    BY <1>1, <2>1 DEF At, Inos
<1>7. Present(u) = Present(t)
  BY <1>6 DEF Present
<1>8. \A j, k \in Present(t) : At(u, j) = At(u, k) => j = k
  <2> SUFFICES ASSUME NEW j \in Present(t), NEW k \in Present(t), f[j] = f[k]
               PROVE  j = k
    BY <1>6
  <2>1. ~(f[j] < f[k]) /\ ~(f[k] < f[j])
    BY <1>3
  <2>2. ~Before(t, j, k) /\ ~Before(t, k, j)
    BY <2>1, <1>3
  <2>3. j.size \in Nat /\ k.size \in Nat /\ t.ent[j].at \in Nat /\ t.ent[k].at \in Nat
    BY <1>1, DupTableAssumption
  <2>4. t.ent[j].at = t.ent[k].at
    BY <2>2, <2>3 DEF Before
  <2> QED
    BY <2>4 DEF Sound, At
<1>9. \A j, k \in Present(t) : At(u, j) < At(u, k) => j.size >= k.size
  <2> SUFFICES ASSUME NEW j \in Present(t), NEW k \in Present(t), f[j] < f[k]
               PROVE  j.size >= k.size
    BY <1>6
  <2>1. Before(t, j, k)
    BY <1>3
  <2>2. j.size \in Nat /\ k.size \in Nat
    BY <1>1, DupTableAssumption
  <2> QED
    BY <2>1, <2>2 DEF Before
<1> QED
  BY <1>1, <1>5, <1>6, <1>7, <1>8, <1>9 DEF Sound, u

--------------------------------------------------------------------------------
LEMMA DupInitInv == DupInit => DupInv
<1> SUFFICES ASSUME DupInit PROVE DupInv
  OBVIOUS
<1>1. \A k \in Key : Len(Inos(out, k)) = 0
  BY DEF DupInit, NewTable, NoEntry, Inos
<1>2. Sound(dtab) /\ Good(dtab) /\ Good(out) /\ Once(dtab)
  BY NewTableGood DEF DupInit, Good
<1>3. DupTypeOK
  BY <1>2 DEF DupInit, DupTypeOK, Sound, Good
<1> QED
  BY <1>1, <1>2, <1>3 DEF DupInit, DupInv

(* The scan, which finds each inode once, leaves a good table without repetitions. *)
LEMMA AddScannedInv ==
  ASSUME DupInv, NEW k \in Key, NEW i \in Ino, Fresh(i), AddScanned(k, i)
  PROVE  DupInv'
<1>1. Good(dtab) /\ Once(dtab)
  BY DEF DupInv, AddScanned
<1>2. \A j \in Key : <<j, i>> \notin Holds(dtab)
  BY DEF Fresh
<1>3. dtab' = Added(dtab, k, i) /\ dphase' = "fill" /\ dphase = "fill"
  BY DEF AddScanned
<1>4. Good(dtab') /\ Once(dtab')
  BY <1>1, <1>2, <1>3, AddedRight, OnceAdded
<1>5. iter = NoKey /\ n = 0 /\ \A j \in Key : Len(Inos(out, j)) = 0
  BY <1>3 DEF DupInv
<1>6. UNCHANGED <<out, iter, n, dphase, dealt>>
  BY DEF AddScanned
<1>7. DupTypeOK'
  BY <1>4, <1>6 DEF DupInv, DupTypeOK, Good, Sound
<1> QED
  BY <1>3, <1>4, <1>5, <1>6, <1>7 DEF DupInv, Good, Inos

(* An iteration starts at an entry of the table and goes on to the nearest one after. *)
LEMMA FirstIter ==
  ASSUME NEW t, Sound(t), NEW k \in First(t)
  PROVE  /\ k \in Present(t) \cup {NoKey}
         /\ k = NoKey => Present(t) = {}
         /\ k # NoKey => k \in Key /\ \A j \in Present(t) : At(t, k) <= At(t, j)
<1>1. Present(t) \subseteq Key /\ NoKey \notin Key
  BY DupTableAssumption DEF Present
<1> QED
  BY <1>1 DEF First, FirstOf, At

LEMMA NextIter ==
  ASSUME NEW t, Sound(t), NEW c \in Present(t), NEW k \in NextAfter(t, c)
  PROVE  /\ k \in Present(t) \cup {NoKey}
         /\ k = NoKey => \A j \in Present(t) : ~(At(t, c) < At(t, j))
         /\ k # NoKey =>
              /\ At(t, c) < At(t, k)
              /\ \A j \in Present(t) : At(t, c) < At(t, j) => At(t, k) <= At(t, j)
<1>1. Present(t) \subseteq Key /\ NoKey \notin Key
  BY DupTableAssumption DEF Present
<1>2. After(t, c) = {j \in Present(t) : At(t, c) < At(t, j)}
  BY DEF After, At
<1>3. CASE After(t, c) = {}
  BY <1>1, <1>2, <1>3 DEF NextAfter, FirstOf
<1>4. CASE After(t, c) # {}
  BY <1>1, <1>2, <1>4 DEF NextAfter, FirstOf, At
<1> QED
  BY <1>3, <1>4

LEMMA StartClusterInv ==
  ASSUME DupInv, StartCluster
  PROVE  DupInv'
<1>1. /\ Good(dtab) /\ Sound(dtab) /\ Good(out) /\ Once(dtab) /\ n = 0
      /\ \A k \in Key : Len(Inos(out, k)) = 0
  BY DEF DupInv, StartCluster
<1>2. iter' \in First(dtab) /\ dphase' = "cluster" /\ UNCHANGED <<dtab, out, n, dealt>>
  BY DEF StartCluster
<1>3. /\ iter' \in Present(dtab) \cup {NoKey}
      /\ iter' = NoKey => Present(dtab) = {}
      /\ iter' # NoKey => iter' \in Key /\ \A j \in Present(dtab) : At(dtab, iter') <= At(dtab, j)
  BY <1>1, <1>2, FirstIter
<1>4. \A k \in Key : Len(Inos(dtab, k)) \in Nat /\ At(dtab, k) \in Nat
  BY <1>1 DEF Sound, Table, Entry, Inos, At
<1>5. ASSUME NEW k \in Key, Behind(k)'
      PROVE  Len(Inos(dtab, k)) = 0
  <2>1. k \notin Present(dtab)
    BY <1>2, <1>3, <1>4, <1>5 DEF Behind, Present, At
  <2> QED
    BY <2>1, <1>1, <1>4, PresentHolds
<1>6. Copying'
  <2>1. iter' # NoKey => Len(Inos(dtab, iter')) \in Nat
    BY <1>3, <1>4
  <2> QED
    BY <1>1, <1>2, <1>3, <1>4, <1>5, <2>1 DEF Copying, Count, Inos
<1>7. DupTypeOK'
  BY <1>2, <1>3 DEF DupInv, DupTypeOK, Present
<1> QED
  BY <1>1, <1>2, <1>3, <1>6, <1>7 DEF DupInv

LEMMA NextEntryInv ==
  ASSUME DupInv, NextEntry
  PROVE  DupInv'
<1>1. /\ Sound(dtab) /\ Good(out) /\ Once(dtab) /\ Copying
      /\ iter \in Present(dtab) /\ iter # NoKey /\ iter \in Key /\ n \in Nat
  BY DEF DupInv, NextEntry, DupTypeOK, Present
<1>2. iter' \in NextAfter(dtab, iter) /\ dphase' = "cluster" /\ n' = 0 /\ UNCHANGED <<dtab, out, dealt>>
  BY DEF NextEntry
<1>3. /\ iter' \in Present(dtab) \cup {NoKey}
      /\ iter' = NoKey => \A j \in Present(dtab) : ~(At(dtab, iter) < At(dtab, j))
      /\ iter' # NoKey =>
           /\ At(dtab, iter) < At(dtab, iter')
           /\ \A j \in Present(dtab) : At(dtab, iter) < At(dtab, j) => At(dtab, iter') <= At(dtab, j)
  BY <1>1, <1>2, NextIter
<1>4. \A k \in Key : Len(Inos(dtab, k)) \in Nat /\ Len(Inos(out, k)) \in Nat /\ At(dtab, k) \in Nat
  BY <1>1 DEF Good, Sound, Table, Entry, Inos, At
<1>5. IF Len(Inos(dtab, iter)) >= 2
        THEN Same(Inos(out, iter), Inos(dtab, iter)) ELSE Len(Inos(out, iter)) = 0
  <2>1. /\ n <= Count /\ (n # 0 => Count >= 2) /\ Len(Inos(out, iter)) = n
        /\ \A p \in 1..n : Inos(out, iter)[p] = Inos(dtab, iter)[p]
    BY <1>1 DEF Copying
  <2>2. Count = Len(Inos(dtab, iter)) /\ (Count >= 2 => n = Count)
    BY DEF NextEntry, Pairs, Count, Inos
  <2> QED
    BY <1>1, <1>4, <2>1, <2>2 DEF Same
<1>6. ASSUME NEW k \in Key, Behind(k)'
      PROVE  IF Len(Inos(dtab, k)) >= 2
               THEN Same(Inos(out, k), Inos(dtab, k)) ELSE Len(Inos(out, k)) = 0
  <2>1. Behind(k) \/ k = iter
    <3>1. CASE k \notin Present(dtab)
      BY <3>1 DEF Behind
    <3>2. CASE k \in Present(dtab)
      <4>1. ~(At(dtab, iter) < At(dtab, k))
        BY <1>2, <1>3, <1>4, <1>6, <3>2 DEF Behind, At, Present
      <4>2. At(dtab, k) < At(dtab, iter) \/ At(dtab, k) = At(dtab, iter)
        BY <4>1, <1>1, <1>4
      <4> QED
        BY <4>2, <1>1, <3>2 DEF Behind, Sound
    <3> QED
      BY <3>1, <3>2
  <2> QED
    BY <2>1, <1>1, <1>5 DEF Copying
<1>7. ASSUME NEW k \in Key, Beyond(k)' \/ k = iter'
      PROVE  Len(Inos(out, k)) = 0
  <2>1. k \in Present(dtab) /\ At(dtab, iter) < At(dtab, k)
    <3>1. CASE k = iter'
      BY <3>1, <1>3, DupTableAssumption
    <3>2. CASE Beyond(k)'
      BY <3>2, <1>1, <1>2, <1>3, <1>4 DEF Beyond, At, Present
    <3> QED
      BY <1>7, <3>1, <3>2
  <2>2. Beyond(k)
    BY <2>1, <1>1 DEF Beyond
  <2> QED
    BY <2>2, <1>1 DEF Copying
<1>8. Copying'
  <2>1. iter' # NoKey => iter' \in Key /\ Len(Inos(out, iter')) = 0 /\ Len(Inos(dtab, iter')) \in Nat
    BY <1>3, <1>4, <1>7 DEF Present
  <2> QED
    BY <1>2, <1>6, <1>7, <2>1 DEF Copying, Count, Inos
<1>9. DupTypeOK'
  BY <1>2, <1>3 DEF DupInv, DupTypeOK, Present
<1> QED
  BY <1>1, <1>2, <1>3, <1>8, <1>9 DEF DupInv

LEMMA CopyInodeInv ==
  ASSUME DupInv, CopyInode
  PROVE  DupInv'
<1>1. /\ Sound(dtab) /\ Good(out) /\ Once(dtab) /\ Copying
      /\ iter \in Present(dtab) /\ iter # NoKey /\ iter \in Key /\ n \in Nat
  BY DEF DupInv, CopyInode, DupTypeOK, Present
<1> DEFINE i == dtab.ent[iter].inos[n + 1]
<1>2. /\ out' = Added(out, iter, i) /\ n' = n + 1 /\ n < Count /\ Count >= 2
      /\ dphase' = "cluster" /\ UNCHANGED <<dtab, iter, dealt>>
  BY DEF CopyInode, Pairs
<1>3. \A k \in Key : Inos(dtab, k) \in Seq(Ino) /\ Inos(out, k) \in Seq(Ino)
  BY <1>1 DEF Good, Sound, Table, Entry, Inos
<1>4. Count = Len(Inos(dtab, iter)) /\ Count \in Nat
  BY <1>1, <1>3 DEF Count, Inos
<1>5. i \in Ino /\ i = Inos(dtab, iter)[n + 1]
  BY <1>1, <1>2, <1>3, <1>4 DEF Inos
<1> HIDE DEF i
<1>6. /\ Good(out') /\ Inos(out, iter)' = Append(Inos(out, iter), i)
      /\ \A k \in Key \ {iter} : Inos(out, k)' = Inos(out, k)
  <2>1. /\ Good(Added(out, iter, i)) /\ Inos(Added(out, iter, i), iter) = Append(Inos(out, iter), i)
        /\ \A k \in Key \ {iter} : Inos(Added(out, iter, i), k) = Inos(out, k)
    BY <1>1, <1>5, AddedRight
  <2>2. Inos(out', iter) = Append(Inos(out, iter), i) /\ \A k \in Key \ {iter} : Inos(out', k) = Inos(out, k)
    BY <1>2, <2>1
  <2> QED
    BY <1>2, <2>1, <2>2 DEF Inos
<1>7. /\ n' <= Count /\ Len(Inos(out, iter)') = n'
      /\ \A p \in 1..n' : Inos(out, iter)'[p] = Inos(dtab, iter)[p]
  <2>1. Len(Inos(out, iter)) = n /\ \A p \in 1..n : Inos(out, iter)[p] = Inos(dtab, iter)[p]
    BY <1>1 DEF Copying
  <2>2. Len(Append(Inos(out, iter), i)) = n + 1
    BY <1>1, <1>3, <2>1
  <2>3. \A p \in 1..(n + 1) : Append(Inos(out, iter), i)[p] = Inos(dtab, iter)[p]
    <3> SUFFICES ASSUME NEW p \in 1..(n + 1)
                 PROVE  Append(Inos(out, iter), i)[p] = Inos(dtab, iter)[p]
      OBVIOUS
    <3> DEFINE s == Inos(out, iter)
    <3>0. s \in Seq(Ino) /\ Len(s) = n
      BY <1>1, <1>3, <2>1
    <3> HIDE DEF s
    <3>1. CASE p = n + 1
      <4>1. Append(s, i)[p] = i
        BY <3>0, <3>1, <1>5
      <4> QED
        BY <4>1, <3>1, <1>5 DEF s
    <3>2. CASE p \in 1..n
      <4>1. Append(s, i)[p] = s[p]
        BY <3>0, <3>2, <1>5
      <4> QED
        BY <4>1, <3>2, <2>1 DEF s
    <3>3. p = n + 1 \/ p \in 1..n
      BY <1>1
    <3> QED
      BY <3>1, <3>2, <3>3
  <2>4. n + 1 <= Count
    BY <1>1, <1>2, <1>4
  <2> QED
    BY <1>2, <1>6, <2>2, <2>3, <2>4
<1>8. \A k \in Key : (Behind(k)' <=> Behind(k)) /\ (Beyond(k)' <=> Beyond(k))
  BY <1>2 DEF Behind, Beyond, At
<1>9. ~Behind(iter) /\ ~Beyond(iter)
  BY <1>1 DEF Behind, Beyond, At, Sound, Table, Entry
<1>10. Copying'
  <2>1. \A k \in Key : Behind(k)' =>
          IF Len(Inos(dtab, k)) >= 2
            THEN Same(Inos(out, k)', Inos(dtab, k)) ELSE Len(Inos(out, k)') = 0
    BY <1>1, <1>6, <1>8, <1>9 DEF Copying
  <2>2. \A k \in Key : Beyond(k)' => Len(Inos(out, k)') = 0
    BY <1>1, <1>6, <1>8, <1>9 DEF Copying
  <2>3. Count' = Count
    BY <1>2 DEF Count
  <2> QED
    BY <1>2, <1>7, <2>1, <2>2, <2>3 DEF Copying, Inos, Same
<1>11. DupTypeOK'
  BY <1>1, <1>2, <1>6 DEF DupInv, DupTypeOK, Good, Sound
<1> QED
  BY <1>1, <1>2, <1>6, <1>10, <1>11 DEF DupInv

LEMMA SortClustersInv ==
  ASSUME DupInv, SortClusters
  PROVE  DupInv'
<1>1. Sound(dtab) /\ Good(out) /\ Once(dtab) /\ Copying /\ iter = NoKey
  BY DEF DupInv, SortClusters
<1>2. out' = NewTable /\ UNCHANGED <<n, dealt>>
  BY DEF SortClusters
<1>3. CASE Present(out) = {}
  <2>1. dphase' = "done" /\ UNCHANGED <<dtab, iter>>
    BY <1>3 DEF SortClusters
  <2>2. Good(out')
    BY <1>2, NewTableGood
  <2>3. DupTypeOK'
    BY <1>2, <2>1, <2>2 DEF DupInv, DupTypeOK, Good, Sound
  <2> QED
    BY <1>1, <2>1, <2>2, <2>3 DEF DupInv
<1>4. CASE Present(out) # {}
  <2>1. PICK f \in Order(out) : dtab' = Placed(out, f)
    BY <1>4 DEF SortClusters
  <2>2. iter' \in First(dtab') /\ dphase' = "pass"
    BY <1>4 DEF SortClusters
  <2>3. /\ Sound(dtab') /\ Present(dtab') = Present(out)
        /\ \A k \in Key : Inos(dtab', k) = Inos(out, k)
        /\ \A j, k \in Present(dtab') : At(dtab', j) < At(dtab', k) => j.size >= k.size
    BY <1>1, <2>1, PlacedSorted DEF Good
  <2>4. iter' \in Present(dtab') \cup {NoKey}
    BY <2>2, <2>3, FirstIter
  <2>5. Once(dtab')
    <3>1. \A k \in Key : Len(Inos(out, k)) = 0 \/ Same(Inos(out, k), Inos(dtab, k))
      BY <1>1 DEF Copying, Behind
    <3>2. \A k \in Key : \A p \in 1..Len(Inos(out, k)) :
             p \in 1..Len(Inos(dtab, k)) /\ Inos(out, k)[p] = Inos(dtab, k)[p]
      <4> SUFFICES ASSUME NEW k \in Key, NEW p \in 1..Len(Inos(out, k))
                   PROVE  p \in 1..Len(Inos(dtab, k)) /\ Inos(out, k)[p] = Inos(dtab, k)[p]
        OBVIOUS
      <4>1. Len(Inos(out, k)) # 0
        OBVIOUS
      <4> QED
        BY <4>1, <3>1 DEF Same
    <3> QED
      BY <1>1, <2>3, <3>2 DEF Once
  <2>6. Good(out')
    BY <1>2, NewTableGood
  <2>7. DupTypeOK'
    BY <1>2, <2>2, <2>3, <2>4, <2>6 DEF DupInv, DupTypeOK, Good, Sound, Present
  <2>8. Sorted'
    BY <2>3 DEF Sorted, At, Present
  <2> QED
    BY <2>2, <2>3, <2>4, <2>5, <2>6, <2>7, <2>8 DEF DupInv, Present
<1> QED
  BY <1>3, <1>4

LEMMA DealInv ==
  ASSUME DupInv, Deal
  PROVE  DupInv'
<1>1. /\ Sound(dtab) /\ iter \in Present(dtab) /\ iter \in Key
      /\ iter' \in NextAfter(dtab, iter) /\ dphase' = "pass"
      /\ dealt' = Elems(Inos(dtab, iter)) /\ UNCHANGED <<dtab, out, n>>
  BY DEF DupInv, Deal, Present, Inos
<1>2. iter' \in Present(dtab) \cup {NoKey}
  BY <1>1, NextIter
<1>3. dealt' \subseteq Ino
  BY <1>1 DEF Elems, Sound, Table, Entry, Inos
<1>4. DupTypeOK'
  BY <1>1, <1>2, <1>3 DEF DupInv, DupTypeOK, Present
<1>5. dphase = "pass" /\ Sorted'
  BY <1>1 DEF Deal, DupInv, Sorted, At, Present
<1> QED
  BY <1>1, <1>2, <1>4, <1>5 DEF DupInv

LEMMA PassDoneInv ==
  ASSUME DupInv, PassDone
  PROVE  DupInv'
<1>1. dphase' = "done" /\ UNCHANGED <<dtab, out, iter, n, dealt>>
  BY DEF PassDone
<1>2. DupTypeOK'
  BY <1>1 DEF DupInv, DupTypeOK
<1> QED
  BY <1>1, <1>2 DEF DupInv

LEMMA DupNextInv ==
  ASSUME DupInv, [DupNext]_dupVars
  PROVE  DupInv'
<1>1. CASE UNCHANGED dupVars
  BY <1>1 DEF dupVars, DupInv, DupTypeOK, Copying, Sorted, Behind, Beyond, Count, At, Inos, Present
<1>2. ASSUME NEW k \in Key, NEW i \in Ino, Fresh(i) /\ AddScanned(k, i)
      PROVE  DupInv'
  BY <1>2, AddScannedInv
<1>3. CASE DupStep
  BY <1>3, StartClusterInv, NextEntryInv, CopyInodeInv, SortClustersInv, DealInv, PassDoneInv
     DEF DupStep
<1> QED
  BY <1>1, <1>2, <1>3 DEF DupNext

THEOREM TableInvariant == DupSpec => []DupInv
<1>1. DupInit => DupInv
  BY DupInitInv
<1>2. DupInv /\ [DupNext]_dupVars => DupInv'
  BY DupNextInv
<1> QED
  BY <1>1, <1>2, PTL DEF DupSpec

(* No inode is written past the slots of its entry, however many there are and      *)
(* however few slots an entry starts with and grows by (duptable.c:81-96).           *)
THEOREM NeverPastSlots == DupSpec => []WithinSlots
<1>1. DupInv => WithinSlots
  BY DEF DupInv, Good, Sound, WithinSlots, Inos
<1> QED
  BY <1>1, TableInvariant, PTL

--------------------------------------------------------------------------------
(* The abstract table in the terms of the hash table. *)
LEMMA HeldInos ==
  ASSUME NEW t, t \in Table, NEW k \in Key, NEW i
  PROVE  <<k, i>> \in Holds(t) <=> \E p \in 1..Len(Inos(t, k)) : Inos(t, k)[p] = i
<1>1. Inos(t, k) \in Seq(Ino)
  BY DEF Table, Entry, Inos
<1>2. \A p \in 1..Len(Inos(t, k)) : Inos(t, k)[p] \in Ino
  BY <1>1
<1> QED
  BY <1>2 DEF Holds, Elems, Inos

LEMMA CandidatesArePairs ==
  ASSUME DupInv, Remaining = Holds(dtab)
  PROVE  \A k \in Key : k \in Abstract!Candidates <=> Len(Inos(dtab, k)) >= 2
<1>1. dtab \in Table /\ Once(dtab)
  BY DEF DupInv, DupTypeOK
<1> SUFFICES ASSUME NEW k \in Key
             PROVE  k \in Abstract!Candidates <=> Len(Inos(dtab, k)) >= 2
  OBVIOUS
<1> DEFINE s == Inos(dtab, k)
<1>2. s \in Seq(Ino) /\ Len(s) \in Nat /\ \A p \in 1..Len(s) : s[p] \in Ino
  BY <1>1 DEF Table, Entry, Inos
<1>3. \A i : <<k, i>> \in Remaining <=> \E p \in 1..Len(s) : s[p] = i
  BY <1>1, HeldInos
<1>4. \A p, q \in 1..Len(s) : s[p] = s[q] => p = q
  BY <1>1 DEF Once
<1>5. k \in Abstract!Candidates <=>
        \E i, j \in Ino : i # j /\ <<k, i>> \in Remaining /\ <<k, j>> \in Remaining
  BY DEF Abstract!Candidates, Abstract!Members
<1> HIDE DEF s
<1>6. ASSUME Len(s) >= 2
      PROVE  \E i, j \in Ino : i # j /\ <<k, i>> \in Remaining /\ <<k, j>> \in Remaining
  <2>1. 1 \in 1..Len(s) /\ 2 \in 1..Len(s)
    BY <1>2, <1>6
  <2>2. s[1] # s[2] /\ s[1] \in Ino /\ s[2] \in Ino
    BY <2>1, <1>2, <1>4
  <2> QED
    BY <2>1, <2>2, <1>3
<1>7. ASSUME NEW i \in Ino, NEW j \in Ino,
             i # j, <<k, i>> \in Remaining, <<k, j>> \in Remaining
      PROVE  Len(s) >= 2
  <2>1. PICK p \in 1..Len(s) : s[p] = i
    BY <1>3, <1>7
  <2>2. PICK q \in 1..Len(s) : s[q] = j
    BY <1>3, <1>7
  <2> QED
    BY <2>1, <2>2, <1>2, <1>7
<1> QED
  BY <1>5, <1>6, <1>7 DEF s

LEMMA InitRefines == DupInit => Abstract!ClusterInit
<1> SUFFICES ASSUME DupInit PROVE Abstract!ClusterInit
  OBVIOUS
<1>1. \A k \in Key : Elems(dtab.ent[k].inos) = {}
  BY DEF DupInit, NewTable, NoEntry, Elems
<1>2. Holds(dtab) = {}
  BY <1>1 DEF Holds
<1> QED
  BY <1>2 DEF DupInit, Abstract!ClusterInit, Remaining, Stage

LEMMA AddScannedRefines ==
  ASSUME DupInv, NEW k \in Key, NEW i \in Ino, Fresh(i), AddScanned(k, i)
  PROVE  Abstract!Put(k, i)
<1>1. Good(dtab) /\ dphase = "fill" /\ dphase' = "fill" /\ dealt' = dealt
  BY DEF DupInv, AddScanned
<1>2. Remaining = Holds(dtab) /\ Remaining' = Holds(dtab')
  BY <1>1 DEF Remaining, Holds, Ahead, After
<1>3. Holds(dtab') = Holds(dtab) \cup {<<k, i>>}
  BY <1>1, HoldsAdded DEF AddScanned
<1> QED
  BY <1>1, <1>2, <1>3 DEF Abstract!Put, Abstract!InTable, Stage, Fresh

(* The copy dedup_cluster has made is the selection of the abstract table. *)
LEMMA SortClustersRefines ==
  ASSUME DupInv, DupInv', SortClusters
  PROVE  Abstract!Select
<1>1. /\ Sound(dtab) /\ Good(out) /\ Copying /\ iter = NoKey
      /\ dphase = "cluster" /\ dealt' = dealt
  BY DEF DupInv, SortClusters
<1>2. Remaining = Holds(dtab) /\ Stage = "fill"
  BY <1>1 DEF Remaining, Stage, Holds, Ahead, After
<1>3. \A k \in Key : k \in Abstract!Candidates <=> Len(Inos(dtab, k)) >= 2
  BY <1>2, CandidatesArePairs
<1>4. \A k \in Key : IF Len(Inos(dtab, k)) >= 2
                       THEN Same(Inos(out, k), Inos(dtab, k)) ELSE Len(Inos(out, k)) = 0
  BY <1>1 DEF Copying, Behind
<1>5. \A k \in Key : Len(Inos(dtab, k)) \in Nat /\ Len(Inos(out, k)) \in Nat
  BY <1>1 DEF Good, Sound, Table, Entry, Inos
<1>6. \A k \in Key : k \in Present(out) <=> k \in Abstract!Candidates
  <2>1. \A k \in Key : k \in Present(out) <=> Len(Inos(out, k)) > 0
    BY <1>1, PresentHolds DEF Good
  <2> QED
    BY <2>1, <1>3, <1>4, <1>5 DEF Same
<1>7. \A k \in Key, i \in Ino :
        <<k, i>> \in Holds(out) <=> <<k, i>> \in Holds(dtab) /\ k \in Abstract!Candidates
  <2> SUFFICES ASSUME NEW k \in Key, NEW i \in Ino
               PROVE  <<k, i>> \in Holds(out) <=>
                        <<k, i>> \in Holds(dtab) /\ k \in Abstract!Candidates
    OBVIOUS
  <2>1. /\ <<k, i>> \in Holds(out) <=> \E p \in 1..Len(Inos(out, k)) : Inos(out, k)[p] = i
        /\ <<k, i>> \in Holds(dtab) <=> \E p \in 1..Len(Inos(dtab, k)) : Inos(dtab, k)[p] = i
    BY <1>1, HeldInos DEF Good, Sound
  <2>2. CASE Len(Inos(dtab, k)) >= 2
    BY <2>1, <2>2, <1>3, <1>4 DEF Same
  <2>3. CASE ~(Len(Inos(dtab, k)) >= 2)
    BY <2>1, <2>3, <1>3, <1>4
  <2> QED
    BY <2>2, <2>3
<1>8. Holds(out) = {m \in Remaining : m[1] \in Abstract!Candidates}
  <2>1. \A m \in Holds(out) : m \in Key \X Ino
    BY DEF Holds
  <2>2. \A m \in Holds(dtab) : m \in Key \X Ino
    BY DEF Holds
  <2> QED
    BY <2>1, <2>2, <1>2, <1>7
<1>9. Abstract!Candidates \subseteq Key /\ Present(out) \subseteq Key
  BY DEF Abstract!Candidates, Present
<1>10. CASE Present(out) = {}
  <2>1. dphase' = "done" /\ Abstract!Candidates = {}
    BY <1>6, <1>9, <1>10 DEF SortClusters
  <2>2. Remaining' = {} /\ Stage' = "done"
    BY <2>1 DEF Remaining, Stage
  <2> QED
    BY <2>1, <2>2, <1>1, <1>2 DEF Abstract!Select
<1>11. CASE Present(out) # {}
  <2>1. PICK f \in Order(out) : dtab' = Placed(out, f)
    BY <1>11 DEF SortClusters
  <2>2. iter' \in First(dtab') /\ dphase' = "pass"
    BY <1>11 DEF SortClusters
  <2>3. /\ Sound(dtab') /\ Present(dtab') = Present(out)
        /\ \A k \in Key : Inos(dtab', k) = Inos(out, k)
    BY <1>1, <2>1, PlacedSorted DEF Good
  <2>4. Holds(dtab') = Holds(out)
    BY <2>3 DEF Holds, Inos
  <2>5. /\ iter' # NoKey /\ iter' \in Present(dtab')
        /\ \A j \in Present(dtab') : At(dtab', iter') <= At(dtab', j)
    BY <2>2, <2>3, <1>11, FirstIter
  <2>6. \A k \in Key : k \in Ahead' <=> k \in Present(dtab')
    <3>1. \A j \in Present(dtab') : At(dtab', j) \in Nat
      BY <2>3 DEF Sound, Table, Entry, At, Present
    <3>2. \A j \in Present(dtab') : j = iter' \/ At(dtab', iter') < At(dtab', j)
      BY <3>1, <2>3, <2>5 DEF Sound
    <3>3. Ahead' = {iter'} \cup {j \in Present(dtab') : At(dtab', iter') < At(dtab', j)}
      BY <2>5 DEF Ahead, After, At, Present
    <3> QED
      BY <3>2, <3>3, <2>5
  <2>7. \A m \in Holds(dtab') : m[1] \in Present(dtab')
    <3>1. \A m \in Holds(out) : m[1] \in Key /\ m[1] \in Abstract!Candidates
      BY <1>8, <1>9
    <3> QED
      BY <3>1, <2>3, <2>4, <1>6
  <2>8. Remaining' = Holds(out)
    <3>1. Remaining' = {m \in Holds(dtab') : m[1] \in Ahead'}
      BY <2>2 DEF Remaining, Holds, Elems
    <3>2. \A m \in Holds(dtab') : m[1] \in Key
      BY DEF Holds
    <3> QED
      BY <3>1, <3>2, <2>4, <2>6, <2>7
  <2>9. Stage' = "hand" /\ Abstract!Candidates # {}
    BY <2>2, <1>6, <1>9, <1>11 DEF Stage
  <2> QED
    BY <2>8, <2>9, <1>1, <1>2, <1>8 DEF Abstract!Select
<1> QED
  BY <1>10, <1>11

(* Pass 1 is given the whole of the largest cluster that is left. *)
LEMMA DealRefines ==
  ASSUME DupInv, Deal
  PROVE  Abstract!Hand(iter)
<1>1. /\ Sound(dtab) /\ Sorted /\ iter \in Present(dtab) /\ iter \in Key /\ iter # NoKey
      /\ dphase = "pass" /\ dphase' = "pass"
      /\ iter' \in NextAfter(dtab, iter)
      /\ dealt' = Elems(Inos(dtab, iter)) /\ dtab' = dtab
  BY DEF DupInv, Deal, Present, Inos
<1>2. /\ iter' \in Present(dtab) \cup {NoKey}
      /\ iter' = NoKey => \A j \in Present(dtab) : ~(At(dtab, iter) < At(dtab, j))
      /\ iter' # NoKey =>
           /\ At(dtab, iter) < At(dtab, iter')
           /\ \A j \in Present(dtab) : At(dtab, iter) < At(dtab, j) => At(dtab, iter') <= At(dtab, j)
  BY <1>1, NextIter
<1>3. \A j \in Present(dtab) : At(dtab, j) \in Nat /\ j \in Key
  BY <1>1 DEF Sound, Table, Entry, At, Present
<1>4. Ahead = {iter} \cup {j \in Present(dtab) : At(dtab, iter) < At(dtab, j)}
  BY <1>1 DEF Ahead, After, At
<1>5. Ahead' = Ahead \ {iter}
  <2>1. CASE iter' = NoKey
    BY <2>1, <1>2, <1>4 DEF Ahead
  <2>2. CASE iter' # NoKey
    <3>1. Ahead' = {iter'} \cup {j \in Present(dtab) : At(dtab, iter') < At(dtab, j)}
      BY <2>2, <1>1 DEF Ahead, After, At, Present
    <3>2. iter' \in Present(dtab) /\ iter' # iter
      BY <2>2, <1>1, <1>2, <1>3
    <3>3. \A j \in Present(dtab) :
            j = iter' \/ At(dtab, iter') < At(dtab, j) <=> At(dtab, iter) < At(dtab, j)
      BY <2>2, <3>2, <1>1, <1>2, <1>3 DEF Sound
    <3> QED
      BY <3>1, <3>2, <3>3, <1>1, <1>3, <1>4
  <2> QED
    BY <2>1, <2>2
<1>6. Remaining = {m \in Holds(dtab) : m[1] \in Ahead} /\ Stage = "hand"
  BY <1>1 DEF Remaining, Stage
<1>7. Remaining' = {m \in Holds(dtab) : m[1] \in Ahead'} /\ Stage' = "hand"
  <2>1. Holds(dtab)' = Holds(dtab)
    BY <1>1 DEF Holds, Elems
  <2> QED
    BY <2>1, <1>1 DEF Remaining, Stage
<1>8. Remaining' = {m \in Remaining : m[1] # iter}
  BY <1>5, <1>6, <1>7
<1>9. Abstract!Members(iter) = Elems(Inos(dtab, iter))
  <2>1. Elems(Inos(dtab, iter)) \subseteq Ino
    BY <1>1 DEF Sound, Table, Entry, Inos, Elems
  <2>2. \A i \in Ino : <<iter, i>> \in Remaining <=> i \in Elems(Inos(dtab, iter))
    BY <1>1, <1>4, <1>6 DEF Holds, Inos
  <2> QED
    BY <2>1, <2>2 DEF Abstract!Members
<1>10. Elems(Inos(dtab, iter)) # {}
  <2>1. Len(Inos(dtab, iter)) \in Nat /\ Len(Inos(dtab, iter)) > 0
    BY <1>1 DEF Sound, Table, Entry, Inos
  <2>2. 1 \in 1..Len(Inos(dtab, iter))
    BY <2>1
  <2> QED
    BY <2>2 DEF Elems
<1>11. \A q \in Remaining : q[1].size <= iter.size
  <2>1. \A j \in Ahead : j.size <= iter.size
    BY <1>1, <1>3, <1>4, DupTableAssumption DEF Sorted
  <2> QED
    BY <2>1, <1>6
<1> QED
  BY <1>1, <1>6, <1>7, <1>8, <1>9, <1>10, <1>11 DEF Abstract!Hand

LEMMA PassDoneRefines ==
  ASSUME DupInv, PassDone
  PROVE  Abstract!End
<1>1. Ahead = {} /\ dphase = "pass" /\ dphase' = "done" /\ dealt' = dealt
  BY DEF PassDone, Ahead
<1>2. Remaining = {} /\ Remaining' = {} /\ Stage = "hand" /\ Stage' = "done"
  BY <1>1 DEF Remaining, Stage
<1> QED
  BY <1>1, <1>2 DEF Abstract!End

LEMMA Stutters ==
  ASSUME StartCluster \/ NextEntry \/ CopyInode \/ UNCHANGED dupVars
  PROVE  UNCHANGED Abstract!clusterVars
<1>1. dealt' = dealt /\ dtab' = dtab
  BY DEF StartCluster, NextEntry, CopyInode, dupVars
<1>2. Holds(dtab)' = Holds(dtab)
  BY <1>1 DEF Holds, Elems
<1>3. CASE StartCluster \/ NextEntry \/ CopyInode
  <2>1. dphase \in {"fill", "cluster"} /\ dphase' \in {"fill", "cluster"}
    BY <1>3 DEF StartCluster, NextEntry, CopyInode
  <2>2. Remaining = Holds(dtab) /\ Remaining' = Holds(dtab)' /\ Stage' = Stage
    BY <2>1 DEF Remaining, Stage, Holds
  <2> QED
    BY <2>2, <1>1, <1>2 DEF Abstract!clusterVars
<1>4. CASE UNCHANGED dupVars
  BY <1>2, <1>4 DEF dupVars, Remaining, Stage, Ahead, After, Present, Abstract!clusterVars
<1> QED
  BY <1>3, <1>4

(* The hash table implements the set of pairs it stands for, and dedup_cluster, the  *)
(* sort and the walk of pass 1 hand out its clusters, for any keys and inodes: the    *)
(* entries that grow and move lose nothing and repeat nothing (duptable.c:81-93).       *)
THEOREM TableRefinesClusters == DupSpec => HandsOutClusters
<1>1. DupInit => Abstract!ClusterInit
  BY InitRefines
<1>2. DupInv /\ DupInv' /\ [DupNext]_dupVars => [Abstract!ClusterNext]_(Abstract!clusterVars)
  <2> SUFFICES ASSUME DupInv, DupInv', [DupNext]_dupVars
               PROVE  Abstract!ClusterNext \/ UNCHANGED Abstract!clusterVars
    OBVIOUS
  <2>1. ASSUME NEW k \in Key, NEW i \in Ino, Fresh(i) /\ AddScanned(k, i)
        PROVE  Abstract!ClusterNext
    BY <2>1, AddScannedRefines DEF Abstract!ClusterNext
  <2>2. CASE SortClusters
    BY <2>2, SortClustersRefines DEF Abstract!ClusterNext
  <2>3. CASE Deal
    <3>1. iter \in Key
      BY <2>3 DEF Deal, DupInv, Present
    <3> QED
      BY <2>3, <3>1, DealRefines DEF Abstract!ClusterNext
  <2>4. CASE PassDone
    BY <2>4, PassDoneRefines DEF Abstract!ClusterNext
  <2>5. CASE StartCluster \/ NextEntry \/ CopyInode \/ UNCHANGED dupVars
    BY <2>5, Stutters
  <2> QED
    BY <2>1, <2>2, <2>3, <2>4, <2>5 DEF DupNext, DupStep
<1> QED
  BY <1>1, <1>2, TableInvariant, PTL DEF DupSpec, HandsOutClusters, Abstract!ClusterSpec

--------------------------------------------------------------------------------
(* The scan.                                                                    *)

Node == [paths : Seq(Path), slots : Nat, mtime : Nat]

ScanTypes ==
  /\ FileSystemTypeOK /\ DupInv
  /\ itab \in [Inode -> Node]
  /\ \A i \in Inode : Len(itab[i].paths) <= itab[i].slots
  /\ fpc \in {"open", "read", "scanned", "failed"}
  /\ dirs \in Seq(Subdir \cup {Root}) /\ cdir \in Subdir \cup {Root}
  /\ must \subseteq may /\ may \subseteq {e \in Entries : Up[e] = cdir}

(* An inode in the scan's table has an entry in inodetab, so that it is not added twice. *)
Filled == dphase = "fill" => \A m \in Holds(dtab) : Recorded(m[2])

ScanInv == ScanTypes /\ Filled

--------------------------------------------------------------------------------
(* What AddPath does, without the cache. *)
AddsPath(p, i) ==
  /\ p \in Path /\ p \in may /\ i = dir[p] /\ i \in Inode /\ fpc = "read" /\ ~NotScanned(p)
  /\ Exists(p)
  /\ IF Recorded(i) THEN Len(itab[i].paths) < itab[i].slots ELSE Cardinality(Names(i)) > 0
  /\ IF Recorded(i)
       THEN itab' = [itab EXCEPT ![i] = [paths |-> Append(itab[i].paths, p),
                                         slots |-> itab[i].slots, mtime |-> itab[i].mtime]]
       ELSE itab' = [itab EXCEPT ![i] = [paths |-> <<p>>, slots |-> Cardinality(Names(i)),
                                         mtime |-> node[i].mtime]]
  /\ IF Recorded(i) THEN UNCHANGED dupVars ELSE AddScanned(KeyOf(node[i]), i)
  /\ must' = must \ {p}
  /\ UNCHANGED <<fpc, dirs, cdir, options, excludes, usecache, moved>>

(* What it does for the cache. *)
AddsCache(p) ==
  \/ UNCHANGED <<fsVars, vopen>> /\ may' = may \ {p}
  \/ Exists(VPath) /\ OpenValidate(p)
  \/ ~Exists(VPath) /\ OpenValidate(p)

LEMMA NamesFinite ==
  ASSUME ScanTypes, NEW i
  PROVE  IsFiniteSet(Names(i)) /\ Cardinality(Names(i)) \in Nat
<1>1. Names(i) \subseteq Path /\ IsFiniteSet(Path)
  BY FileSystemAssumption DEF Names
<1> QED
  BY <1>1, FS_Subset, FS_CardinalityType

(* An entry of inodetab with other paths. *)
LEMMA NodeWithPaths ==
  ASSUME NEW s \in Node, NEW ps
  PROVE  [s EXCEPT !.paths = ps] = [paths |-> ps, slots |-> s.slots, mtime |-> s.mtime]
<1>1. PICK a \in Seq(Path), b \in Nat, c \in Nat : s = [paths |-> a, slots |-> b, mtime |-> c]
  BY Zenon DEF Node
<1> QED
  BY <1>1

LEMMA AddPathFrame ==
  ASSUME ScanTypes, NEW p \in Entries, AddPath(p)
  PROVE  AddsPath(p, dir[p]) /\ AddsCache(p)
<1> DEFINE i == dir[p]
<1>1. /\ p \in Path /\ p \in may /\ fpc = "read" /\ ~NotScanned(p) /\ Exists(p)
      /\ HasSlot(i, Cardinality(Names(i))) /\ InodetabAdd(i, p, Cardinality(Names(i)), node[i].mtime)
      /\ UNCHANGED <<options, excludes, usecache, fpc, dirs, cdir>>
  BY DEF AddPath, Found, argv
<1>2. i \in Inode
  BY <1>1 DEF ScanTypes, FileSystemTypeOK, Exists
<1>3. itab[i] \in Node
  BY <1>2 DEF ScanTypes
<1>4. IF Recorded(i) THEN Len(itab[i].paths) < itab[i].slots ELSE Cardinality(Names(i)) > 0
  <2>1. CASE Recorded(i)
    BY <1>1, <2>1 DEF HasSlot, NodeFor
  <2>2. CASE ~Recorded(i)
    <3>1. Len(NewNode(Cardinality(Names(i)), 0).paths) = 0
          /\ NewNode(Cardinality(Names(i)), 0).slots = Cardinality(Names(i))
      BY DEF NewNode
    <3>2. Len(NewNode(Cardinality(Names(i)), 0).paths) < NewNode(Cardinality(Names(i)), 0).slots
      BY <1>1, <2>2 DEF HasSlot, NodeFor
    <3> QED
      BY <2>2, <3>1, <3>2, NamesFinite
  <2> QED
    BY <2>1, <2>2
<1>5. IF Recorded(i)
       THEN itab' = [itab EXCEPT ![i] = [paths |-> Append(itab[i].paths, p),
                                         slots |-> itab[i].slots, mtime |-> itab[i].mtime]]
       ELSE itab' = [itab EXCEPT ![i] = [paths |-> <<p>>, slots |-> Cardinality(Names(i)),
                                         mtime |-> node[i].mtime]]
  <2>1. CASE Recorded(i)
    <3>1. [itab[i] EXCEPT !.paths = Append(itab[i].paths, p)]
            = [paths |-> Append(itab[i].paths, p), slots |-> itab[i].slots, mtime |-> itab[i].mtime]
      BY <1>3, NodeWithPaths
    <3>2. NodeFor(i, Cardinality(Names(i)), node[i].mtime) = itab[i]
      BY <2>1 DEF NodeFor
    <3>3. itab' = [itab EXCEPT ![i] = [itab[i] EXCEPT !.paths = Append(itab[i].paths, p)]]
      BY <1>1, <3>2 DEF InodetabAdd
    <3> QED
      BY <2>1, <3>1, <3>3
  <2>2. CASE ~Recorded(i)
    <3> DEFINE s == NewNode(Cardinality(Names(i)), node[i].mtime)
    <3>1. [s EXCEPT !.paths = Append(s.paths, p)]
            = [paths |-> <<p>>, slots |-> Cardinality(Names(i)), mtime |-> node[i].mtime]
      BY DEF NewNode
    <3>2. NodeFor(i, Cardinality(Names(i)), node[i].mtime) = s
      BY <2>2 DEF NodeFor
    <3> HIDE DEF s
    <3>3. itab' = [itab EXCEPT ![i] = [s EXCEPT !.paths = Append(s.paths, p)]]
      BY <1>1, <3>2 DEF InodetabAdd
    <3> QED
      BY <2>2, <3>1, <3>3
  <2> QED
    BY <2>1, <2>2
<1>6. CASE Recorded(i)
  BY <1>1, <1>2, <1>4, <1>5, <1>6 DEF AddPath, AddsPath, AddsCache, Returned, fsVars
<1>7. CASE ~Recorded(i)
  <2>1. AddScanned(KeyOf(node[i]), i)
    BY <1>7 DEF AddPath
  <2>2. CASE Validates
    <3>1. OpenValidate(p)
      BY <1>7, <2>2 DEF AddPath
    <3>2. must' = must \ {p} /\ moved' = moved
      BY <3>1 DEF OpenValidate
    <3> QED
      BY <1>1, <1>2, <1>4, <1>5, <1>7, <2>1, <3>1, <3>2 DEF AddsPath, AddsCache
  <2>3. CASE ~Validates
    BY <1>1, <1>2, <1>4, <1>5, <1>7, <2>1, <2>3 DEF AddPath, AddsPath, AddsCache, Returned, fsVars
  <2> QED
    BY <2>2, <2>3
<1> QED
  BY <1>6, <1>7

(* Changes by others, link(2) among them. *)
LEMMA OthersKeep ==
  ASSUME ScanTypes, Others
  PROVE  OthersFrame
<1>1. CASE LiveChange(LiveKinds)
  BY <1>1, LiveChangeFrame DEF ScanTypes
<1>2. ASSUME NEW p \in Path, NEW q \in Path, Hardlink(p, q)
      PROVE  OthersFrame
  <2>1. /\ dir' = [dir EXCEPT ![q] = dir[p]] /\ dir[p] \in Inode /\ dir[q] = NoInode
        /\ UNCHANGED node
    BY <1>2 DEF Hardlink, CanLink, LinkPath, Exists, ScanTypes, FileSystemTypeOK
  <2>2. /\ changes' = changes + 1 /\ touched' = touched \cup ({dir[p]} \ {NoInode})
        /\ moved' = moved \cup {q} /\ UNCHANGED history
    BY <1>2 DEF Hardlink, CanLink, LinkPath, Change
  <2>3. dir[p] \in touched' /\ FileSystemTypeOK'
    BY <2>1, <2>2, FileSystemAssumption DEF ScanTypes, FileSystemTypeOK, history
  <2>4. \A x \in Path \ {q} : dir'[x] = dir[x]
    BY <2>1 DEF ScanTypes, FileSystemTypeOK
  <2>5. dir'[q] = dir[p]
    BY <2>1 DEF ScanTypes, FileSystemTypeOK
  <2> QED
    BY <2>1, <2>2, <2>3, <2>4, <2>5 DEF OthersFrame
<1> QED
  BY <1>1, <1>2 DEF Others

--------------------------------------------------------------------------------
(* The scan adds an inode to its table once, under a key of a scanned file. *)
LEMMA AddsFresh ==
  ASSUME ScanInv, NEW p \in Path, AddsPath(p, dir[p])
  PROVE  [DupNext]_dupVars
<1> DEFINE i == dir[p]
<1>1. CASE Recorded(i)
  BY <1>1 DEF AddsPath
<1>2. CASE ~Recorded(i)
  <2>1. AddScanned(KeyOf(node[i]), i) /\ i \in Inode /\ node[i].data # << >>
    BY <1>2 DEF AddsPath, NotScanned
  <2>2. i \in Ino /\ KeyOf(node[i]) \in Key
    BY <2>1, FScannerAssumption DEF KeyOf, ScanInv, ScanTypes, FileSystemTypeOK
  <2>3. Fresh(i)
    BY <1>2, <2>1 DEF AddScanned, ScanInv, Filled, Fresh
  <2> QED
    BY <2>1, <2>2, <2>3 DEF DupNext
<1> QED
  BY <1>1, <1>2

LEMMA StepFillsTable ==
  ASSUME ScanInv, [Next]_scanVars
  PROVE  [DupNext]_dupVars
<1>1. ASSUME NEW e \in Entries, AddPath(e) PROVE [DupNext]_dupVars
  BY <1>1, AddPathFrame, AddsFresh DEF AddsPath, ScanInv
<1>2. CASE Clusters
  BY <1>2 DEF Clusters, DupNext
<1>3. ASSUME UNCHANGED dupVars PROVE [DupNext]_dupVars
  BY <1>3
<1>4. CASE OpenDir \/ (\E e \in Entries : PassOver(e) \/ PushDir(e)) \/ ScanFails \/ CloseDir
           \/ ScanDone \/ Others \/ Stays \/ UNCHANGED scanVars
  BY <1>3, <1>4 DEF OpenDir, PassOver, PushDir, ScanFails, CloseDir, ScanDone, Others, Stays, scanVars
<1> QED
  BY <1>1, <1>2, <1>4 DEF Next, Step

--------------------------------------------------------------------------------
(* The invariant, one action at a time. *)

LEMMA TypedTable ==
  ASSUME ScanInv, [Next]_scanVars
  PROVE  DupInv'
BY StepFillsTable, DupNextInv DEF ScanInv, ScanTypes

LEMMA OpenValidateTypes ==
  ASSUME ScanTypes, NEW p \in Path, OpenValidate(p)
  PROVE  /\ FileSystemTypeOK'
         /\ may' \subseteq may \cup (IF cdir = Root THEN {VPath} ELSE {})
<1>1. PICK i \in (IF Exists(VPath) THEN {dir[VPath]} ELSE Inode \ Files) :
        dir' = [dir EXCEPT ![VPath] = i] /\ node' = [node EXCEPT ![i] = HcdFile]
  BY DEF OpenValidate
<1>2. VPath \in Path /\ HcdFile \in File
  BY FScannerAssumption
<1>3. i \in Inode
  BY <1>1, <1>2 DEF Exists, ScanTypes, FileSystemTypeOK
<1>4. dir' \in [Path -> Inode \cup {NoInode}] /\ node' \in [Inode -> File]
  BY <1>1, <1>2, <1>3 DEF ScanTypes, FileSystemTypeOK
<1> QED
  BY <1>4 DEF OpenValidate, ScanTypes, FileSystemTypeOK, history

LEMMA AddPathTypes ==
  ASSUME ScanInv, NEW p \in Entries, AddPath(p)
  PROVE  ScanTypes'
<1> DEFINE i == dir[p]
<1>1. AddsPath(p, i) /\ AddsCache(p) /\ ScanTypes
  BY AddPathFrame DEF ScanInv
<1>2. DupInv'
  BY TypedTable DEF Next, Step
<1>3. FileSystemTypeOK' /\ may' \subseteq may \cup (IF cdir = Root THEN {VPath} ELSE {})
  <2>1. CASE UNCHANGED <<fsVars, vopen>> /\ may' = may \ {p}
    BY <1>1, <2>1 DEF fsVars, ScanTypes, FileSystemTypeOK
  <2> QED
    BY <1>1, <2>1, OpenValidateTypes DEF AddsCache, AddsPath
<1>4. VPath \in Entries /\ Up[VPath] = Root
  BY FScannerAssumption DEF Entries
<1>5. must' \subseteq may'
  <2>1. must' = must \ {p} /\ must \subseteq may
    BY <1>1 DEF AddsPath, ScanTypes
  <2>2. may \ {p} \subseteq may'
    BY <1>1 DEF AddsCache, OpenValidate
  <2> QED
    BY <2>1, <2>2
<1>6. itab' \in [Inode -> Node] /\ \A j \in Inode : Len(itab'[j].paths) <= itab'[j].slots
  <2>1. \A j \in Inode : itab[j] \in Node /\ itab[j].slots \in Nat /\ Len(itab[j].paths) \in Nat
                         /\ itab[j].paths \in Seq(Path) /\ itab[j].mtime \in Nat
    BY <1>1 DEF ScanTypes, Node
  <2>2. p \in Path /\ i \in Inode
    BY <1>1 DEF AddsPath
  <2>3. CASE Recorded(i)
    <3> DEFINE s == [paths |-> Append(itab[i].paths, p), slots |-> itab[i].slots, mtime |-> itab[i].mtime]
    <3>1. itab' = [itab EXCEPT ![i] = s] /\ Len(itab[i].paths) < itab[i].slots
      BY <1>1, <2>3 DEF AddsPath
    <3>2. Append(itab[i].paths, p) \in Seq(Path) /\ Len(Append(itab[i].paths, p)) = Len(itab[i].paths) + 1
      BY <2>1, <2>2
    <3>3. s \in Node /\ Len(s.paths) <= s.slots
      BY <2>1, <2>2, <3>1, <3>2 DEF Node
    <3> HIDE DEF s
    <3> QED
      BY <1>1, <2>2, <3>1, <3>3 DEF ScanTypes
  <2>4. CASE ~Recorded(i)
    <3> DEFINE s == [paths |-> <<p>>, slots |-> Cardinality(Names(i)), mtime |-> node[i].mtime]
    <3>1. itab' = [itab EXCEPT ![i] = s] /\ Cardinality(Names(i)) > 0
      BY <1>1, <2>4 DEF AddsPath
    <3>2. Cardinality(Names(i)) \in Nat
      BY <1>1, NamesFinite
    <3>3. node[i].mtime \in Nat
      BY <1>1, <2>2, FileSystemAssumption DEF ScanTypes, FileSystemTypeOK, File
    <3>4. <<p>> \in Seq(Path) /\ Len(<<p>>) = 1
      BY <2>2
    <3>5. s \in Node /\ Len(s.paths) <= s.slots
      BY <3>1, <3>2, <3>3, <3>4 DEF Node
    <3> HIDE DEF s
    <3> QED
      BY <1>1, <2>2, <3>1, <3>5 DEF ScanTypes
  <2> QED
    BY <2>3, <2>4
<1> QED
  BY <1>1, <1>2, <1>3, <1>4, <1>5, <1>6 DEF ScanTypes, AddsPath

LEMMA OpenDirTypes ==
  ASSUME ScanInv, OpenDir
  PROVE  ScanTypes'
<1>1. DupInv'
  BY TypedTable DEF Next, Step
<1>2. dirs \in Seq(Subdir \cup {Root}) /\ Len(dirs) \in Nat \ {0}
  BY DEF ScanInv, ScanTypes, OpenDir
<1>3. dirs' \in Seq(Subdir \cup {Root}) /\ cdir' \in Subdir \cup {Root}
  BY <1>2 DEF OpenDir
<1>4. may' \subseteq {e \in Entries : Up[e] = cdir'} /\ must' \subseteq may'
  BY DEF OpenDir, In, Entries
<1> QED
  BY <1>1, <1>3, <1>4 DEF OpenDir, ScanInv, ScanTypes, fsVars, FileSystemTypeOK

LEMMA OthersTypes ==
  ASSUME ScanInv, Others
  PROVE  ScanTypes'
<1>1. DupInv'
  BY TypedTable DEF Next
<1>2. FileSystemTypeOK'
  BY OthersKeep DEF OthersFrame, ScanInv
<1>3. must' \subseteq may' /\ may' \subseteq {e \in Entries : Up[e] = cdir}
  BY DEF Others, ScanInv, ScanTypes, Entries
<1> QED
  BY <1>1, <1>2, <1>3 DEF Others, ScanInv, ScanTypes

LEMMA ScanTypesStep ==
  ASSUME ScanInv, [Next]_scanVars
  PROVE  ScanTypes'
<1>1. DupInv'
  BY TypedTable
<1> USE DEF ScanInv, ScanTypes, fsVars, FileSystemTypeOK
<1>2. CASE OpenDir
  BY <1>2, OpenDirTypes
<1>3. ASSUME NEW e \in Entries, PassOver(e) PROVE ScanTypes'
  BY <1>1, <1>3 DEF PassOver, Returned
<1>4. ASSUME NEW e \in Entries, PushDir(e) PROVE ScanTypes'
  BY <1>1, <1>4 DEF PushDir, Returned
<1>5. ASSUME NEW e \in Entries, AddPath(e) PROVE ScanTypes'
  BY <1>5, AddPathTypes
<1>6. CASE ScanFails
  BY <1>1, <1>6 DEF ScanFails, scanLocal
<1>7. CASE CloseDir
  BY <1>1, <1>7 DEF CloseDir
<1>8. CASE ScanDone
  BY <1>1, <1>8 DEF ScanDone, scanLocal
<1>9. CASE Clusters
  BY <1>1, <1>9 DEF Clusters, scanLocal
<1>10. CASE Others
  BY <1>10, OthersTypes
<1>11. CASE Stays \/ UNCHANGED scanVars
  BY <1>1, <1>11 DEF Stays, scanVars, scanLocal
<1> QED
  BY <1>2, <1>3, <1>4, <1>5, <1>6, <1>7, <1>8, <1>9, <1>10, <1>11 DEF Next, Step

LEMMA FilledStep ==
  ASSUME ScanInv, [Next]_scanVars
  PROVE  Filled'
<1>1. ASSUME NEW p \in Entries, AddPath(p) PROVE Filled'
  <2> DEFINE i == dir[p]
  <2>1. AddsPath(p, i)
    BY <1>1, AddPathFrame DEF ScanInv
  <2>2. \A j \in Inode : Recorded(j) => Recorded(j)'
    BY <2>1 DEF AddsPath, Recorded, ScanInv, ScanTypes
  <2>3. CASE Recorded(i)
    BY <2>1, <2>2, <2>3, FScannerAssumption DEF AddsPath, dupVars, Holds, Filled, ScanInv
  <2>4. CASE ~Recorded(i)
    <3>1. itab'[i].slots # 0
      BY <2>1, <2>4, NamesFinite DEF AddsPath, Recorded, ScanInv, ScanTypes
    <3>2. AddScanned(KeyOf(node[i]), i) /\ i \in Inode /\ node[i].data # << >>
      BY <2>1, <2>4 DEF AddsPath, NotScanned
    <3>3. i \in Ino /\ KeyOf(node[i]) \in Key
      BY <3>2, FScannerAssumption DEF KeyOf, ScanInv, ScanTypes, FileSystemTypeOK
    <3>4. Holds(dtab') = Holds(dtab) \cup {<<KeyOf(node[i]), i>>} /\ dphase = "fill"
      BY <3>2, <3>3, HoldsAdded DEF AddScanned, ScanInv, ScanTypes, DupInv
    <3>5. \A m \in Holds(dtab) : m[2] \in Inode /\ Recorded(m[2])
      BY <3>4, FScannerAssumption DEF ScanInv, Filled, Holds
    <3> QED
      BY <2>2, <3>1, <3>4, <3>5 DEF Filled, Recorded
  <2> QED
    BY <2>3, <2>4
<1>2. CASE Clusters
  <2>1. dphase' # "fill"
    BY <1>2 DEF Clusters, DupStep, StartCluster, NextEntry, CopyInode, SortClusters, Deal, PassDone
  <2> QED
    BY <2>1 DEF Filled
<1>3. ASSUME UNCHANGED <<itab, dupVars>> PROVE Filled'
  BY <1>3 DEF ScanInv, Filled, dupVars, Recorded, Holds
<1>4. CASE OpenDir \/ (\E e \in Entries : PassOver(e) \/ PushDir(e)) \/ ScanFails \/ CloseDir
           \/ ScanDone \/ Others \/ Stays \/ UNCHANGED scanVars
  BY <1>3, <1>4 DEF OpenDir, PassOver, PushDir, ScanFails, CloseDir, ScanDone, Others, Stays, scanVars
<1> QED
  BY <1>1, <1>2, <1>4 DEF Next, Step

LEMMA ScanInit == Init => ScanInv
<1> SUFFICES ASSUME Init PROVE ScanInv
  OBVIOUS
<1>1. FileSystemTypeOK
  BY DEF Init, FileSystemInit, FileSystemTypeOK
<1>2. DupInv
  BY DupInitInv DEF Init
<1>3. itab \in [Inode -> Node] /\ \A i \in Inode : Len(itab[i].paths) <= itab[i].slots
  BY DEF Init, NoNode, Node
<1>4. Holds(dtab) = {}
  BY DEF Init, DupInit, NewTable, NoEntry, Holds, Elems
<1>5. dirs \in Seq(Subdir \cup {Root})
  BY DEF Init
<1> QED
  BY <1>1, <1>2, <1>3, <1>4, <1>5 DEF Init, ScanInv, ScanTypes, Filled

THEOREM ScanInvariant == Spec => []ScanInv
<1>1. ScanInv /\ [Next]_scanVars => ScanInv'
  BY ScanTypesStep, FilledStep DEF ScanInv
<1> QED
  BY <1>1, ScanInit, PTL DEF Spec

(* Types, and that no path and no inode is written past the slots of its entry          *)
(* (inodetab.c:71-72, duptable.c:81-96).                                                  *)
THEOREM ScanTypesCorrect == Spec => []ScanTypeOK
<1>1. ScanInv => ScanTypeOK
  BY DEF ScanInv, ScanTypes, ScanTypeOK, DupInv, Sound, Good, WithinSlots, Inos
<1> QED
  BY <1>1, ScanInvariant, PTL

(* A scan uses its table as DupTable says, each inode being added once, whatever names   *)
(* others give and take meanwhile (fscanner.c:95-102).                                      *)
THEOREM ScanFillsTable == Spec => DupSpec
<1>1. Init => DupInit
  BY DEF Init
<1> QED
  BY <1>1, StepFillsTable, ScanInvariant, PTL DEF Spec, DupSpec

(* So that what is left of its clusters is handed out as ClusterTable says.                *)
THEOREM ScanHandsOutClusters == Spec => HandsOutClusters
BY ScanFillsTable, TableRefinesClusters, PTL

--------------------------------------------------------------------------------
(* The walk over the tree while nobody changes a name: what is still to come is an     *)
(* antichain of it, so that every path comes once.                                       *)

Stacked == {dirs[j] : j \in 1..Len(dirs)}
Front == may \cup Stacked

Walk ==
  /\ \A j, k \in 1..Len(dirs) : dirs[j] = dirs[k] => j = k
  /\ may \cap Stacked = {}
  /\ Root \in Stacked => Front = {Root}
  /\ \A e \in Front \ {Root} : Above[e] \cap Front = {}
  /\ fpc = "open" => may = {}

(* The walk may still come to entry e. *)
Pending(e) == e \in may \/ Root \in Stacked \/ Above[e] \cap Front # {}

(* A recorded inode has a slot for each of its names, and its paths are such names,      *)
(* all different and none of them to come again.                                          *)
RoomForAll ==
  /\ \A i \in Inode : Recorded(i) => itab[i].slots = Cardinality(Names(i))
  /\ \A i \in Inode : \A j \in 1..Len(itab[i].paths) :
       dir[itab[i].paths[j]] = i /\ ~Pending(itab[i].paths[j])
  /\ \A i \in Inode : \A j, k \in 1..Len(itab[i].paths) :
       itab[i].paths[j] = itab[i].paths[k] => j = k

Quiet ==
  moved = {} =>
    /\ Walk /\ RoomForAll
    /\ \A p \in may \cap Path : Exists(p)
    /\ fpc = "failed" => NoRoom

(* All but the last of a sequence. *)
LEMMA LenSubSeq ==
  ASSUME NEW T, NEW s \in Seq(T), Len(s) > 0
  PROVE  /\ Len(SubSeq(s, 1, Len(s) - 1)) = Len(s) - 1
         /\ \A j \in 1..(Len(s) - 1) : SubSeq(s, 1, Len(s) - 1)[j] = s[j]
<1> DEFINE m == Len(s) - 1
<1>1. m \in Nat /\ 1 \in Int /\ m \in Int /\ \A j \in 1..m : s[j] \in T
  OBVIOUS
<1> HIDE DEF m
<1>2. /\ Len(SubSeq(s, 1, m)) = IF 1 <= m THEN m - 1 + 1 ELSE 0
      /\ \A j \in 1..(m - 1 + 1) : SubSeq(s, 1, m)[j] = s[1 + j - 1]
  BY <1>1, SubSeqProperties
<1>3. \A j \in 1..m : 1 + j - 1 = j /\ j \in 1..(m - 1 + 1)
  BY <1>1
<1>4. Len(SubSeq(s, 1, m)) = m /\ \A j \in 1..m : SubSeq(s, 1, m)[j] = s[j]
  BY <1>1, <1>2, <1>3
<1> QED
  BY <1>4 DEF m

(* A walk that goes on with less, and is not at a directory's start. *)
LEMMA WalkLess ==
  ASSUME Walk, may' \subseteq may, dirs' = dirs, fpc' = "open" => may' = {}
  PROVE  Walk' /\ \A e \in Entries : Pending(e)' => Pending(e)
<1>1. Stacked' = Stacked /\ Front' \subseteq Front
  BY DEF Stacked, Front
<1>2. \A e \in Front' \ {Root} : Above[e] \cap Front' = {}
  BY <1>1 DEF Walk
<1>3. Root \in Stacked => Front' = {Root}
  BY <1>1 DEF Walk, Front
<1> QED
  BY <1>1, <1>2, <1>3 DEF Walk, Pending

LEMMA FrontInTree ==
  ASSUME ScanTypes
  PROVE  /\ may \subseteq Entries /\ Root \notin may
         /\ Stacked \subseteq Subdir \cup {Root} /\ Front \subseteq Entries \cup {Root}
<1>1. \A j \in 1..Len(dirs) : dirs[j] \in Subdir \cup {Root}
  BY DEF ScanTypes
<1> QED
  BY <1>1, FScannerAssumption DEF ScanTypes, Stacked, Front, Entries

(* The last directory leaves the stack. *)
LEMMA Popped ==
  ASSUME ScanTypes, Walk, OpenDir
  PROVE  /\ Len(dirs) \in Nat /\ Len(dirs) > 0 /\ may = {} /\ fpc' = "read"
         /\ cdir' = dirs[Len(dirs)] /\ \A e \in may' : Up[e] = cdir'
         /\ Len(dirs') = Len(dirs) - 1
         /\ \A j \in 1..Len(dirs') : dirs'[j] = dirs[j] /\ j \in 1..Len(dirs) /\ j # Len(dirs)
         /\ Stacked' = Stacked \ {cdir'} /\ cdir' \in Stacked
<1> DEFINE d == dirs[Len(dirs)]
<1>1. /\ Len(dirs) \in Nat /\ Len(dirs) > 0 /\ may = {} /\ fpc' = "read"
      /\ dirs' = SubSeq(dirs, 1, Len(dirs) - 1) /\ \A e \in may' : Up[e] = d
      /\ cdir' = d
  BY DEF OpenDir, In, Walk, ScanTypes
<1>2. /\ Len(dirs') = Len(dirs) - 1
      /\ \A j \in 1..Len(dirs') : dirs'[j] = dirs[j] /\ j \in 1..Len(dirs) /\ j # Len(dirs)
  <2>1. dirs \in Seq(Subdir \cup {Root})
    BY DEF ScanTypes
  <2>2. Len(dirs') = Len(dirs) - 1
    <3>1. Len(SubSeq(dirs, 1, Len(dirs) - 1)) = Len(dirs) - 1
      BY <1>1, <2>1, LenSubSeq
    <3> QED
      BY <1>1, <3>1
  <2>3. ASSUME NEW j \in 1..Len(dirs') PROVE dirs'[j] = dirs[j]
    <3>1. j \in 1..(Len(dirs) - 1)
      BY <2>2, <2>3
    <3> QED
      BY <1>1, <2>1, <3>1, LenSubSeq
  <2>4. \A j \in 1..(Len(dirs) - 1) : j \in 1..Len(dirs) /\ j # Len(dirs)
    BY <1>1
  <2> QED
    BY <2>2, <2>3, <2>4
<1>3. Stacked' \subseteq Stacked \ {d} /\ d \in Stacked
  <2>1. d \in Stacked
    BY <1>1 DEF Stacked
  <2>2. ASSUME NEW j \in 1..Len(dirs') PROVE dirs'[j] \in Stacked /\ dirs'[j] # d
    <3>1. dirs'[j] = dirs[j] /\ j \in 1..Len(dirs) /\ j # Len(dirs)
      BY <1>2, <2>2
    <3>2. Len(dirs) \in 1..Len(dirs)
      BY <1>1
    <3> QED
      BY <3>1, <3>2 DEF Stacked, Walk
  <2> QED
    BY <2>1, <2>2 DEF Stacked
<1>4. ASSUME NEW j \in 1..Len(dirs), dirs[j] # d PROVE dirs[j] \in Stacked'
  <2>1. j \in 1..Len(dirs')
    BY <1>1, <1>2, <1>4
  <2> QED
    BY <1>2, <2>1 DEF Stacked
<1>5. Stacked \ {d} \subseteq Stacked'
  BY <1>4 DEF Stacked
<1>6. Stacked' = Stacked \ {d}
  BY <1>3, <1>5
<1>7. Stacked' = Stacked \ {cdir'} /\ cdir' \in Stacked /\ \A e \in may' : Up[e] = cdir'
  BY <1>1, <1>3, <1>6
<1> QED
  BY <1>1, <1>2, <1>7

(* The top of the stack is opened. *)
LEMMA WalkOpen ==
  ASSUME ScanTypes, Walk, OpenDir
  PROVE  Walk' /\ \A e \in Entries : Pending(e)' => Pending(e)
<1> DEFINE d == dirs[Len(dirs)]
<1>1. may = {} /\ fpc' = "read" /\ \A e \in may' : Up[e] = d
  BY Popped
<1>2. /\ Len(dirs') = Len(dirs) - 1
      /\ \A j \in 1..Len(dirs') : dirs'[j] = dirs[j] /\ j \in 1..Len(dirs) /\ j # Len(dirs)
  BY Popped
<1>3. Stacked' \subseteq Stacked \ {d} /\ d \in Stacked
  BY Popped
<1>4. Front = Stacked
  BY <1>1 DEF Front
<1>5. may' \subseteq Entries /\ \A e \in may' : Up[e] = d
  BY DEF OpenDir, In, Entries
<1>6. \A j, k \in 1..Len(dirs') : dirs'[j] = dirs'[k] => j = k
  BY <1>2 DEF Walk
<1>7. CASE d = Root
  <2>1. Stacked' = {}
    BY <1>3, <1>4, <1>7 DEF Walk
  <2>2. \A e \in may' : Above[e] = {}
    BY <1>5, <1>7, FScannerAssumption
  <2>3. Root \notin may'
    BY <1>5, FScannerAssumption DEF Entries
  <2> QED
    BY <1>1, <1>3, <1>6, <1>7, <2>1, <2>2, <2>3 DEF Walk, Front, Pending
<1>8. CASE d # Root
  <2>1. d \in Subdir /\ d \in Entries
    BY <1>3, <1>8, FrontInTree DEF Entries
  <2>2. Root \notin Stacked
    BY <1>3, <1>4, <1>8 DEF Walk
  <2>3. Above[d] \cap Stacked = {} /\ d \notin Above[d]
    BY <1>3, <1>4, <1>8, <2>1, FScannerAssumption DEF Walk
  <2>4. \A e \in may' : Above[e] = {d} \cup Above[d]
    BY <1>5, <1>8, FScannerAssumption
  <2>5. \A e \in may' : e \notin Stacked
    BY <1>3, <1>4, <1>5, <1>8, <2>4, FScannerAssumption DEF Walk, Entries
  <2>6. \A e \in may' : Above[e] \cap may' = {}
    <3>1. SUFFICES ASSUME NEW e \in may', NEW x \in may', x \in Above[e] PROVE FALSE
      OBVIOUS
    <3>2. x # d
      BY <2>3, <2>4
    <3>3. x \in Above[d]
      BY <2>4, <3>1, <3>2
    <3>4. Above[x] \subseteq Above[d]
      BY <2>1, <3>3, FScannerAssumption
    <3> QED
      BY <2>3, <2>4, <3>4
  <2>7. \A e \in may' : Above[e] \cap Stacked' = {}
    BY <1>3, <2>3, <2>4
  <2>8. \A x \in Stacked' : Above[x] \cap may' = {}
    <3>1. SUFFICES ASSUME NEW x \in Stacked', NEW e \in may', e \in Above[x] PROVE FALSE
      OBVIOUS
    <3>2. x \in Stacked /\ x # Root /\ x \in Entries
      BY <1>3, <2>2, FrontInTree DEF Entries
    <3>3. Above[e] \subseteq Above[x]
      BY <3>1, <3>2, FScannerAssumption
    <3> QED
      BY <1>3, <1>4, <2>4, <3>2, <3>3 DEF Walk
  <2>9. \A x \in Stacked' : Above[x] \cap Stacked' = {}
    BY <1>3, <1>4, <2>2 DEF Walk
  <2>10. Walk'
    BY <1>1, <1>3, <1>6, <2>2, <2>5, <2>6, <2>7, <2>8, <2>9 DEF Walk, Front
  <2>11. ASSUME NEW e \in Entries, Pending(e)' PROVE Pending(e)
    <3>1. CASE e \in may'
      BY <1>3, <1>4, <2>4, <3>1 DEF Pending
    <3>2. ASSUME NEW x \in Above[e], x \in may' PROVE Pending(e)
      <4>1. Above[x] \subseteq Above[e]
        BY FScannerAssumption
      <4> QED
        BY <1>3, <1>4, <2>4, <3>2, <4>1 DEF Pending
    <3>3. ASSUME NEW x \in Above[e], x \in Stacked' PROVE Pending(e)
      BY <1>3, <1>4, <3>3 DEF Pending
    <3> QED
      BY <1>3, <2>2, <2>11, <3>1, <3>2, <3>3 DEF Pending, Front
  <2> QED
    BY <2>10, <2>11
<1> QED
  BY <1>7, <1>8

(* A directory goes from the entries to the stack. *)
LEMMA WalkPush ==
  ASSUME ScanTypes, Walk, NEW e \in Entries, PushDir(e)
  PROVE  Walk' /\ \A x \in Entries : Pending(x)' => Pending(x)
<1>1. dirs' = Append(dirs, e) /\ e \in may /\ may' = may \ {e} /\ fpc' = "read"
  BY DEF PushDir, Found, Returned
<1>2. /\ Len(dirs') = Len(dirs) + 1 /\ Len(dirs) \in Nat
      /\ dirs'[Len(dirs) + 1] = e /\ \A j \in 1..Len(dirs) : dirs'[j] = dirs[j]
  BY <1>1 DEF ScanTypes
<1>3. Stacked' = Stacked \cup {e}
  BY <1>2 DEF Stacked
<1>4. Front' = Front /\ Root \notin Stacked /\ e # Root
  BY <1>1, <1>3, FrontInTree DEF Front, Walk
<1>5. \A j, k \in 1..Len(dirs') : dirs'[j] = dirs'[k] => j = k
  <2>1. \A j \in 1..Len(dirs) : dirs[j] # e
    BY <1>1 DEF Walk, Stacked
  <2> QED
    BY <1>2, <2>1 DEF Walk
<1> QED
  BY <1>1, <1>3, <1>4, <1>5 DEF Walk, Pending

(* A path has been returned and perhaps .hcd.validate created in the root. *)
LEMMA WalkAdd ==
  ASSUME ScanTypes, Walk, NEW p \in may, NEW X \in SUBSET {VPath},
         may' = (may \ {p}) \cup X, dirs' = dirs, fpc' = "read"
  PROVE  /\ Walk' /\ \A e \in Entries \ X : Pending(e)' => Pending(e)
         /\ p \notin X => ~Pending(p)'
<1>1. p \in Entries /\ p # Root /\ p \in Front /\ Root \notin Stacked
  BY FrontInTree DEF Walk, Front
<1>2. Stacked' = Stacked
  BY DEF Stacked
<1>3. VPath \in Entries /\ Above[VPath] = {} /\ VPath \notin Stacked
  BY FrontInTree, FScannerAssumption DEF Entries
<1>4. \A e \in Entries : VPath \notin Above[e]
  BY FScannerAssumption
<1>5. Front' \subseteq Front \cup {VPath} /\ Front' = may' \cup Stacked
  BY <1>2 DEF Front
<1>6. \A e \in Front' \ {Root} : Above[e] \cap Front' = {}
  <2>1. SUFFICES ASSUME NEW e \in Front' \ {Root} PROVE Above[e] \cap Front' = {}
    OBVIOUS
  <2>2. CASE e = VPath
    BY <1>3, <2>2
  <2>3. CASE e # VPath
    <3>1. e \in Front \ {Root} /\ e \in Entries
      BY <1>5, <2>3, FrontInTree
    <3> QED
      BY <1>4, <1>5, <3>1 DEF Walk
  <2> QED
    BY <2>2, <2>3
<1>7. Walk'
  BY <1>1, <1>2, <1>3, <1>6 DEF Walk
<1>8. ASSUME NEW e \in Entries \ X, Pending(e)' PROVE Pending(e)
  BY <1>1, <1>2, <1>4, <1>5, <1>8 DEF Pending
<1>9. p \notin X => ~Pending(p)'
  BY <1>1, <1>2, <1>4, <1>5 DEF Pending, Walk
<1> QED
  BY <1>7, <1>8, <1>9

(* What AddPath does to the names: none, or a name is given to an inode that had none. *)
LEMMA AddPathNames ==
  ASSUME ScanTypes, NEW p \in Path, AddsPath(p, dir[p]), AddsCache(p)
  PROVE  /\ \A q \in Path : Exists(q) => dir'[q] = dir[q]
         /\ \A j \in Inode : Names(j) # {} => Names(j)' = Names(j)
         /\ \/ may' = may \ {p}
            \/ may' = (may \ {p}) \cup {VPath} /\ ~Exists(VPath) /\ dir'[VPath] # NoInode
<1>1. VPath \in Path /\ dir \in [Path -> Inode \cup {NoInode}] /\ NoInode \notin Inode
  BY FScannerAssumption, FileSystemAssumption DEF ScanTypes, FileSystemTypeOK
<1>2. CASE UNCHANGED <<fsVars, vopen>> /\ may' = may \ {p}
  BY <1>2 DEF fsVars, Names
<1>3. CASE Exists(VPath) /\ OpenValidate(p)
  <2>1. dir' = dir /\ may' = may \ {p}
    BY <1>1, <1>3 DEF OpenValidate
  <2> QED
    BY <2>1 DEF Names
<1>4. CASE ~Exists(VPath) /\ OpenValidate(p)
  <2>1. PICK i \in Inode \ Files : dir' = [dir EXCEPT ![VPath] = i]
    BY <1>4 DEF OpenValidate
  <2>2. \A q \in Path \ {VPath} : dir'[q] = dir[q]
    BY <1>1, <2>1
  <2>3. dir'[VPath] = i /\ Names(i) = {} /\ i # NoInode
    BY <1>1, <2>1 DEF Files
  <2>4. may' = (may \ {p}) \cup (IF cdir = Root THEN {VPath} ELSE {})
    BY <1>4 DEF OpenValidate
  <2>5. \A j \in Inode : Names(j) # {} => Names(j)' = Names(j)
    BY <1>1, <1>4, <2>2, <2>3 DEF Names, Exists
  <2>6. \A q \in Path : Exists(q) => dir'[q] = dir[q]
    BY <1>4, <2>2
  <2>7. CASE cdir = Root
    BY <1>4, <2>3, <2>4, <2>5, <2>6, <2>7
  <2>8. CASE cdir # Root
    BY <2>4, <2>5, <2>6, <2>8
  <2> QED
    BY <2>7, <2>8
<1> QED
  BY <1>2, <1>3, <1>4 DEF AddsCache

(* An entry has what it had, and the new path at its end. *)
Gains(p, i) ==
  /\ \A j \in Inode \ {i} : itab'[j] = itab[j]
  /\ itab'[i].slots = IF Recorded(i) THEN itab[i].slots ELSE Cardinality(Names(i))
  /\ itab'[i].mtime = IF Recorded(i) THEN itab[i].mtime ELSE node[i].mtime
  /\ \A k \in 1..Len(itab'[i].paths) :
       \/ k = Len(itab'[i].paths) /\ itab'[i].paths[k] = p
       \/ k \in 1..Len(itab[i].paths) /\ itab'[i].paths[k] = itab[i].paths[k]
  /\ \E k \in 1..Len(itab'[i].paths) : itab'[i].paths[k] = p
  /\ \A k \in 1..Len(itab[i].paths) :
       k \in 1..Len(itab'[i].paths) /\ itab'[i].paths[k] = itab[i].paths[k]

LEMMA NewPaths ==
  ASSUME ScanTypes, NEW p \in Path, NEW i \in Inode, AddsPath(p, i)
  PROVE  Gains(p, i)
<1>1. itab[i].paths \in Seq(Path)
  BY DEF ScanTypes, Node
<1>2. CASE Recorded(i)
  <2> DEFINE s == Append(itab[i].paths, p)
  <2>1. itab' = [itab EXCEPT ![i] =
                   [paths |-> s, slots |-> itab[i].slots, mtime |-> itab[i].mtime]]
    BY <1>2 DEF AddsPath
  <2>2. Len(s) = Len(itab[i].paths) + 1 /\ s[Len(s)] = p
        /\ \A k \in 1..Len(itab[i].paths) : s[k] = itab[i].paths[k]
    BY <1>1
  <2>3. Len(itab[i].paths) \in Nat
    BY <1>1
  <2> HIDE DEF s
  <2>4. /\ \A k \in 1..Len(s) : k = Len(s) \/ k \in 1..Len(itab[i].paths)
        /\ \A k \in 1..Len(itab[i].paths) : k \in 1..Len(s)
        /\ Len(s) \in 1..Len(s)
    BY <2>2, <2>3
  <2>5. itab'[i].paths = s /\ itab'[i].slots = itab[i].slots /\ itab'[i].mtime = itab[i].mtime
        /\ \A j \in Inode \ {i} : itab'[j] = itab[j]
    BY <2>1 DEF ScanTypes
  <2> QED
    BY <1>2, <2>2, <2>4, <2>5 DEF Gains
<1>3. CASE ~Recorded(i)
  <2>1. itab' = [itab EXCEPT ![i] =
                   [paths |-> <<p>>, slots |-> Cardinality(Names(i)), mtime |-> node[i].mtime]]
    BY <1>3 DEF AddsPath
  <2>2. Len(<<p>>) = 1 /\ <<p>>[1] = p /\ itab[i].slots = 0 /\ Len(itab[i].paths) = 0
    BY <1>1, <1>3 DEF Recorded, ScanTypes
  <2>3. itab'[i].paths = <<p>> /\ itab'[i].slots = Cardinality(Names(i))
        /\ itab'[i].mtime = node[i].mtime
        /\ \A j \in Inode \ {i} : itab'[j] = itab[j]
    BY <2>1 DEF ScanTypes
  <2> QED
    BY <1>3, <2>2, <2>3 DEF Gains
<1> QED
  BY <1>2, <1>3

LEMMA RoomKept ==
  ASSUME ScanTypes, Walk, RoomForAll, NEW p \in Path, NEW i \in Inode, i = dir[p],
         AddsPath(p, i), AddsCache(p)
  PROVE  /\ Walk' /\ RoomForAll'
         /\ (\A q \in may \cap Path : Exists(q)) => \A q \in may' \cap Path : dir'[q] # NoInode
<1>1. /\ \A q \in Path : Exists(q) => dir'[q] = dir[q]
      /\ \A j \in Inode : Names(j) # {} => Names(j)' = Names(j)
  BY AddPathNames
<1>2. PICK X \in SUBSET {VPath} :
        may' = (may \ {p}) \cup X /\ \A q \in X : ~Exists(q) /\ dir'[q] # NoInode
  <2>1. CASE may' = may \ {p}
    <3> WITNESS {} \in SUBSET {VPath}
    <3> QED
      BY <2>1
  <2>2. CASE may' = (may \ {p}) \cup {VPath} /\ ~Exists(VPath) /\ dir'[VPath] # NoInode
    <3> WITNESS {VPath} \in SUBSET {VPath}
    <3> QED
      BY <2>2
  <2> QED
    BY <2>1, <2>2, AddPathNames
<1>3. p \in may /\ Exists(p) /\ p \notin X /\ p \in Entries /\ dirs' = dirs /\ fpc' = "read"
  BY <1>2 DEF AddsPath, Entries
<1>4. Walk' /\ ~Pending(p)' /\ \A e \in Entries \ X : Pending(e)' => Pending(e)
  BY <1>2, <1>3, WalkAdd
<1>5. \A j \in Inode : Recorded(j) => Names(j)' = Names(j) /\ itab[j].slots = Cardinality(Names(j))
  BY <1>1, FS_EmptySet DEF RoomForAll, Recorded
<1>6. Names(i)' = Names(i)
  BY <1>1 DEF Names
<1>7. /\ \A j \in Inode \ {i} : itab'[j] = itab[j]
      /\ itab'[i].slots = IF Recorded(i) THEN itab[i].slots ELSE Cardinality(Names(i))
      /\ \A k \in 1..Len(itab'[i].paths) :
           \/ k = Len(itab'[i].paths) /\ itab'[i].paths[k] = p
           \/ k \in 1..Len(itab[i].paths) /\ itab'[i].paths[k] = itab[i].paths[k]
  BY NewPaths DEF Gains
<1>8. \A j \in Inode : Recorded(j)' => itab'[j].slots = Cardinality(Names(j)')
  BY <1>5, <1>6, <1>7 DEF Recorded
<1>9. ASSUME NEW j \in Inode, NEW k \in 1..Len(itab[j].paths), NEW q, q = itab[j].paths[k]
      PROVE  dir'[q] = j /\ ~Pending(q)' /\ q # p
  <2>1. q \in Path /\ q \in Entries
    BY <1>9 DEF ScanTypes, Node, Entries
  <2>2. dir[q] = j /\ ~Pending(q) /\ Exists(q)
    BY <1>9, FileSystemAssumption DEF RoomForAll, Exists
  <2>3. q \notin X
    BY <1>2, <2>2
  <2> QED
    BY <1>1, <1>3, <1>4, <2>1, <2>2, <2>3 DEF Pending
<1>10. ASSUME NEW j \in Inode, NEW k \in 1..Len(itab'[j].paths), NEW q, q = itab'[j].paths[k]
       PROVE  dir'[q] = j /\ ~Pending(q)'
  <2>1. dir'[p] = i
    BY <1>1, <1>3
  <2>2. CASE j # i
    BY <1>7, <1>9, <1>10, <2>2
  <2>3. CASE j = i
    BY <1>4, <1>7, <1>9, <1>10, <2>1, <2>3
  <2> QED
    BY <2>2, <2>3
<1>11. ASSUME NEW j \in Inode, NEW k \in 1..Len(itab'[j].paths), NEW l \in 1..Len(itab'[j].paths),
              itab'[j].paths[k] = itab'[j].paths[l]
       PROVE  k = l
  <2>1. CASE j # i
    BY <1>7, <1>11, <2>1 DEF RoomForAll
  <2>2. CASE j = i
    <3>1. \A m \in 1..Len(itab[i].paths) : itab[i].paths[m] # p
      BY <1>9
    <3> QED
      <4>1. CASE itab'[i].paths[k] = p
        BY <1>7, <1>11, <2>2, <3>1, <4>1
      <4>2. CASE itab'[i].paths[k] # p
        BY <1>7, <1>11, <2>2, <4>2 DEF RoomForAll
      <4> QED
        BY <4>1, <4>2
  <2> QED
    BY <2>1, <2>2
<1>12. (\A q \in may \cap Path : Exists(q)) => \A q \in may' \cap Path : dir'[q] # NoInode
  BY <1>1, <1>2 DEF Exists
<1>13. RoomForAll'
  BY <1>8, <1>10, <1>11 DEF RoomForAll
<1> QED
  BY <1>4, <1>12, <1>13

(* A path that comes has a slot: its inode has more names than paths. *)
LEMMA NeverFull ==
  ASSUME ScanTypes, RoomForAll, NEW p \in may \cap Path, Exists(p)
  PROVE  HasSlot(dir[p], Cardinality(Names(dir[p])))
<1> DEFINE i == dir[p]
<1>1. i \in Inode /\ p \in Names(i) /\ IsFiniteSet(Names(i)) /\ Cardinality(Names(i)) \in Nat
  BY NamesFinite DEF ScanTypes, FileSystemTypeOK, Exists, Names
<1>2. CASE Recorded(i)
  <2> DEFINE s == itab[i].paths
  <2>1. s \in Seq(Path) /\ Len(s) \in Nat
    BY <1>1 DEF ScanTypes, Node
  <2>2. \A j \in 1..Len(s) : s[j] \in Names(i) /\ s[j] # p
    BY <1>1, <2>1 DEF RoomForAll, Names, Pending
  <2> DEFINE f == [j \in 1..Len(s) |-> s[j]]
  <2>3. f \in Injection(1..Len(s), Names(i))
    <3>1. f \in [1..Len(s) -> Names(i)]
      BY <2>2
    <3>2. \A j, k \in 1..Len(s) : f[j] = f[k] => j = k
      BY <1>1 DEF RoomForAll
    <3> QED
      BY <3>1, <3>2 DEF Injection, IsInjective
  <2>4. f \notin Surjection(1..Len(s), Names(i))
    BY <1>1, <2>2 DEF Surjection
  <2>5. Cardinality(1..Len(s)) <= Cardinality(Names(i)) /\ Cardinality(1..Len(s)) # Cardinality(Names(i))
    BY <1>1, <2>3, <2>4, FS_Injection
  <2>6. Cardinality(1..Len(s)) = Len(s)
    BY <2>1, FS_Interval
  <2>7. Len(s) < itab[i].slots
    BY <1>1, <1>2, <2>1, <2>5, <2>6 DEF RoomForAll
  <2> QED
    BY <1>2, <2>7 DEF HasSlot, NodeFor
<1>3. CASE ~Recorded(i)
  <2>1. Cardinality(Names(i)) # 0
    BY <1>1, FS_EmptySet
  <2>2. NodeFor(i, Cardinality(Names(i)), 0) = [paths |-> << >>, slots |-> Cardinality(Names(i)), mtime |-> 0]
    BY <1>3 DEF NodeFor, NewNode
  <2>3. Len(<< >>) = 0 /\ 0 < Cardinality(Names(i))
    BY <1>1, <2>1
  <2> QED
    BY <2>2, <2>3 DEF HasSlot
<1> QED
  BY <1>2, <1>3

(* Steps that record nothing and change no name. *)
LEMMA RoomSame ==
  ASSUME ScanTypes, RoomForAll, UNCHANGED <<itab, dir>>, \A e \in Entries : Pending(e)' => Pending(e)
  PROVE  RoomForAll'
<1>1. \A i \in Inode : Names(i)' = Names(i) /\ (Recorded(i)' <=> Recorded(i))
  BY DEF Names, Recorded
<1>2. ASSUME NEW i \in Inode, NEW j \in 1..Len(itab[i].paths), NEW q, q = itab[i].paths[j]
      PROVE  dir[q] = i /\ ~Pending(q)'
  <2>1. q \in Entries
    BY <1>2 DEF ScanTypes, Node, Entries
  <2> QED
    BY <1>2, <2>1 DEF RoomForAll
<1> QED
  BY <1>1, <1>2 DEF RoomForAll

(* Changes by others that leave all names as they are. *)
LEMMA QuietOthers ==
  ASSUME ScanInv, Quiet, Others
  PROVE  Quiet'
<1>1. SUFFICES ASSUME moved' = {}
               PROVE  (Walk /\ RoomForAll /\ (\A p \in may \cap Path : Exists(p)) /\ (fpc = "failed" => NoRoom))'
  BY DEF Quiet
<1>2. moved = {} /\ \A p \in Path : dir'[p] = dir[p]
  BY <1>1, OthersKeep DEF OthersFrame, ScanInv
<1>3. dir' = dir
  BY <1>2, OthersKeep DEF OthersFrame, ScanInv, ScanTypes, FileSystemTypeOK
<1>4. may' = may /\ UNCHANGED <<itab, fpc, dirs, cdir>> /\ fpc # "failed"
  BY <1>3 DEF Others
<1>5. Walk /\ RoomForAll /\ \A p \in may \cap Path : Exists(p)
  BY <1>2 DEF Quiet
<1>6. Walk' /\ \A e \in Entries : Pending(e)' => Pending(e)
  BY <1>4, <1>5, WalkLess DEF Walk
<1>7. RoomForAll'
  BY <1>3, <1>4, <1>5, <1>6, RoomSame DEF ScanInv
<1> QED
  BY <1>3, <1>4, <1>5, <1>6, <1>7 DEF Exists

LEMMA QuietStep ==
  ASSUME ScanInv, Quiet, [Next]_scanVars
  PROVE  Quiet'
<1>1. CASE Others
  BY <1>1, QuietOthers
<1>2. CASE Step \/ Stays \/ UNCHANGED scanVars
  <2>1. moved' = moved
    BY <1>2 DEF Step, OpenDir, PassOver, PushDir, AddPath, OpenValidate, ScanFails, CloseDir, ScanDone,
                Clusters, Stays, scanVars, fsVars
  <2>2. SUFFICES ASSUME moved = {}
                 PROVE  /\ Walk' /\ RoomForAll' /\ \A p \in may' \cap Path : dir'[p] # NoInode
                        /\ fpc' = "failed" => NoRoom'
    BY <2>1 DEF Quiet, Exists
  <2>3. Walk /\ RoomForAll /\ (\A p \in may \cap Path : dir[p] # NoInode) /\ (fpc = "failed" => NoRoom)
        /\ ScanTypes
    BY <2>2 DEF Quiet, Exists, ScanInv
  <2> DEFINE Goal == /\ Walk' /\ RoomForAll' /\ \A p \in may' \cap Path : dir'[p] # NoInode
                     /\ fpc' = "failed" => NoRoom'
  <2>4. CASE OpenDir
    <3>1. Walk' /\ RoomForAll'
      BY <2>3, <2>4, WalkOpen, RoomSame DEF OpenDir, fsVars
    <3>2. \A p \in may' \cap Path : dir'[p] # NoInode
      BY <2>4, FScannerAssumption DEF OpenDir, In, Exists, fsVars
    <3> QED
      BY <2>4, <3>1, <3>2 DEF OpenDir
  <2>5. ASSUME NEW e \in Entries, PassOver(e) PROVE Goal
    <3>1. may' = may \ {e} /\ dirs' = dirs /\ fpc' = fpc /\ fpc = "read" /\ UNCHANGED <<itab, dir>>
      BY <2>5 DEF PassOver, Returned, Found, fsVars
    <3> QED
      BY <2>3, <3>1, WalkLess, RoomSame
  <2>6. ASSUME NEW e \in Entries, PushDir(e) PROVE Goal
    <3>1. may' = may \ {e} /\ fpc' = fpc /\ fpc = "read" /\ UNCHANGED <<itab, dir>>
      BY <2>6 DEF PushDir, Returned, Found, fsVars
    <3> QED
      BY <2>3, <2>6, <3>1, WalkPush, RoomSame
  <2>7. ASSUME NEW e \in Entries, AddPath(e) PROVE Goal
    <3>1. AddsPath(e, dir[e]) /\ AddsCache(e)
      BY <2>3, <2>7, AddPathFrame
    <3>2. e \in Path /\ dir[e] \in Inode /\ fpc' = "read"
      BY <3>1 DEF AddsPath
    <3>3. Walk' /\ RoomForAll'
          /\ ((\A q \in may \cap Path : Exists(q)) => \A q \in may' \cap Path : dir'[q] # NoInode)
      BY <2>3, <3>1, <3>2, RoomKept
    <3> QED
      BY <2>3, <3>2, <3>3 DEF Exists
  <2>8. CASE ScanFails
    <3>1. NoRoom
      BY <2>3, <2>8, NeverFull DEF ScanFails, Exists
    <3>2. UNCHANGED <<fsVars, itab, usecache, vopen, dirs, may>> /\ fpc' = "failed"
      BY <2>8 DEF ScanFails, scanLocal, argv
    <3>3. NoRoom'
      BY <3>1, <3>2 DEF NoRoom, Validates, Exists, Files, Names, fsVars
    <3>4. Walk' /\ \A e \in Entries : Pending(e)' => Pending(e)
      BY <2>3, <3>2, WalkLess
    <3> QED
      BY <2>3, <3>2, <3>3, <3>4, RoomSame DEF fsVars
  <2>9. CASE CloseDir
    <3>1. may' = {} /\ dirs' = dirs /\ fpc' = "open" /\ UNCHANGED <<itab, dir>>
      BY <2>9 DEF CloseDir, fsVars
    <3> QED
      BY <2>3, <3>1, WalkLess, RoomSame
  <2>10. CASE ScanDone \/ Clusters
    <3>1. UNCHANGED <<may, dirs, itab, dir>> /\ fpc' = "scanned"
      BY <2>10 DEF ScanDone, Clusters, scanLocal, fsVars
    <3> QED
      BY <2>3, <3>1, WalkLess, RoomSame
  <2>11. CASE Stays \/ UNCHANGED scanVars
    <3>1. UNCHANGED <<may, dirs, itab, dir, fpc, usecache, vopen>>
      BY <2>11 DEF Stays, scanVars, scanLocal, fsVars, argv
    <3>2. Walk' /\ \A e \in Entries : Pending(e)' => Pending(e)
      BY <2>3, <3>1, WalkLess DEF Walk
    <3>3. NoRoom' <=> NoRoom
      BY <3>1 DEF NoRoom, Validates, Exists, Files, Names
    <3> QED
      BY <2>3, <3>1, <3>2, <3>3, RoomSame
  <2> QED
    BY <1>2, <2>4, <2>5, <2>6, <2>7, <2>8, <2>9, <2>10, <2>11 DEF Step
<1> QED
  BY <1>1, <1>2 DEF Next

LEMMA QuietInit == Init => Quiet
<1> SUFFICES ASSUME Init PROVE Walk /\ RoomForAll /\ may = {} /\ fpc = "open"
  BY DEF Quiet
<1>1. Len(dirs) = 1 /\ dirs[1] = Root /\ may = {}
  BY DEF Init
<1>2. Stacked = {Root} /\ Front = {Root}
  BY <1>1 DEF Stacked, Front
<1>3. Walk
  BY <1>1, <1>2 DEF Walk
<1>4. \A i \in Inode : ~Recorded(i) /\ itab[i].paths = << >>
  BY DEF Init, NoNode, Recorded
<1> QED
  BY <1>3, <1>4 DEF Init, RoomForAll

(* No scan fails at a file or at a full entry of inodetab, whatever edits, chmods and      *)
(* chowns there are meanwhile, unless others change a name: every path comes once, and     *)
(* the slots an inode gets at its first path are enough for those that follow                *)
(* (fscanner.c:76, inodetab.c:59-71).                                                          *)
THEOREM ScanFailsOnRenames == Spec => []FailsOnlyOnRenames
<1>1. ScanInv /\ Quiet /\ [Next]_scanVars => Quiet'
  BY QuietStep
<1>2. Quiet => FailsOnlyOnRenames
  BY DEF Quiet, FailsOnlyOnRenames
<1> QED
  BY <1>1, <1>2, QuietInit, ScanInvariant, PTL DEF Spec

--------------------------------------------------------------------------------
(* What a scan that others disturb is right about. *)

(* Names that others have changed, or the cache; inodes neither has to do with. *)
Loose == moved \cup {VPath}
Alone == {i \in Inode \ (touched \cup {dir0[VPath]}) : \E p \in Path : dir0[p] = i}

Steady ==
  /\ \A p \in Path \ Loose : dir[p] = dir0[p]
  /\ \A i \in Alone :
       /\ node[i] = node0[i] /\ dir[VPath] # i
       /\ \A p \in Path : dir0[p] = i => dir[p] = i

(* Neither the directory in hand nor one above it comes again. *)
Clear ==
  fpc = "read" =>
    /\ Root \notin Front
    /\ cdir # Root => ({cdir} \cup Above[cdir]) \cap Front = {}

(* The patterns are the options', and let the walk come where it is. *)
Fine(e) == ~Unwanted(e) /\ e \notin OtherFS
Reached ==
  /\ options \in Options /\ excludes = ExcludesOf(options)
  /\ \A e \in (Stacked \cup {cdir}) \ {Root} : Fine(e) /\ \A y \in Above[e] : Fine(y)

(* What is recorded should be, under its own inode, once. *)
RecordedRight ==
  \A i \in Inode : \A k \in 1..Len(itab[i].paths) :
    /\ Wanted(itab[i].paths[k])
    /\ itab[i].paths[k] \notin Loose => dir0[itab[i].paths[k]] = i /\ ~Pending(itab[i].paths[k])

RecordedOnce ==
  \A i \in Inode : \A k, l \in 1..Len(itab[i].paths) :
    itab[i].paths[k] = itab[i].paths[l] => k = l \/ itab[i].paths[k] \in Loose

Entered ==
  \A i \in Alone : Recorded(i) =>
    /\ node0[i].data # << >> /\ itab[i].mtime = node0[i].mtime
    /\ dphase = "fill" => <<KeyOf(node0[i]), i>> \in Holds(dtab)

(* The walk is bound to come to p: readdir(3) still owes it, or a directory above it, or *)
(* that is on the stack.                                                                    *)
Owed(p) == p \in must \/ Root \in Stacked \/ Above[p] \cap (must \cup Stacked) # {}
Has(i, p) == \E k \in 1..Len(itab[i].paths) : itab[i].paths[k] = p

NoneMissed ==
  \A p \in Path \ Loose :
    dir0[p] \in Alone /\ Wanted(p) /\ ~Empty0(p) => Owed(p) \/ Has(dir0[p], p)

Over == fpc = "scanned" => dirs = << >> /\ may = {}

Records == RecordedRight /\ RecordedOnce /\ Entered
TrackInv == Walk /\ Clear /\ Steady /\ Reached /\ Records /\ NoneMissed /\ Over

LEMMA TrackInit == Init => TrackInv
<1> SUFFICES ASSUME Init PROVE TrackInv
  OBVIOUS
<1>1. Len(dirs) = 1 /\ dirs[1] = Root /\ may = {} /\ cdir = Root /\ fpc = "open"
  BY DEF Init
<1>2. Stacked = {Root} /\ Front = {Root}
  BY <1>1 DEF Stacked, Front
<1>3. Walk /\ Clear /\ Over
  BY <1>1, <1>2 DEF Walk, Clear, Over
<1>4. Steady
  BY FScannerAssumption DEF Init, FileSystemInit, Steady, Alone
<1>5. Reached
  BY <1>1, <1>2 DEF Init, Reached
<1>6. \A i \in Inode : ~Recorded(i) /\ Len(itab[i].paths) = 0
  BY DEF Init, NoNode, Recorded
<1>7. Records
  BY <1>6 DEF Records, RecordedRight, RecordedOnce, Entered, Alone
<1>8. NoneMissed
  BY <1>2 DEF NoneMissed, Owed
<1> QED
  BY <1>3, <1>4, <1>5, <1>7, <1>8 DEF TrackInv

(* exclude.c finds what the options say of an entry. *)
LEMMA ExcludesAre ==
  ASSUME Reached, NEW e \in Entries
  PROVE  ExcludesCheck(e) <=> Unwanted(e)
<1>1. options \in Seq(Option)
  BY FScannerAssumption DEF Reached
<1>2. DOMAIN options = 1..Len(options) /\ Len(options) \in Nat
      /\ \A j \in DOMAIN options : options[j] \in Option
  BY <1>1
<1>3. DOMAIN excludes = DOMAIN options /\ \A j \in DOMAIN options : excludes[j] = Pattern(options[j])
  BY DEF Reached, ExcludesOf
<1>4. ASSUME NEW o \in Option
      PROVE  /\ Matches(Pattern(o), e) <=> Says(o, e)
             /\ "EXCLUDE" \in Pattern(o).flags <=> o.opt = "X"
  <2>1. Pattern(o).flags = Flags(o) /\ Pattern(o).texts = o.texts
    BY DEF Pattern
  <2>2. ("MATCHDIR" \in Flags(o) <=> o.trails) /\ ("FULLPATH" \in Flags(o) <=> o.leads)
        /\ ("EXCLUDE" \in Flags(o) <=> o.opt = "X")
    BY DEF Flags, Option
  <2> QED
    BY <2>1, <2>2 DEF Matches, Says
<1>5. \A j \in DOMAIN options : \A k \in 1..(j - 1) : k \in DOMAIN options
  BY <1>2
<1> QED
  BY <1>2, <1>3, <1>4, <1>5 DEF ExcludesCheck, Unwanted

(* From a directory there is one step towards an entry below it. *)
LEMMA OnTheWay ==
  ASSUME NEW p \in Entries, NEW d, d = Root \/ d \in Above[p]
  PROVE  \E e \in {p} \cup Above[p] : e \in Entries /\ Up[e] = d
<1> DEFINE X == {x \in {p} \cup Above[p] : d = Root \/ d \in Above[x]}
           T == {Above[x] : x \in X}
<1>1. p \in X /\ X \subseteq Entries
  BY FScannerAssumption DEF Entries
<1>2. \A x \in Entries : Above[x] \in SUBSET Subdir
  BY FScannerAssumption
<1>3. T \subseteq FiniteSubsetsOf(Subdir) /\ T # {}
  <2>1. \A x \in X : IsFiniteSet(Above[x]) /\ Above[x] \in SUBSET Subdir
    BY <1>1, <1>2, FS_Subset, FScannerAssumption
  <2> QED
    BY <1>1, <2>1 DEF FiniteSubsetsOf
<1>4. PICK t \in T : \A u \in T : ~ (<<u, t>> \in StrictSubsetOrdering(Subdir))
  BY <1>3, FS_StrictSubsetOrderingWellFounded, WFMin
<1>5. PICK x \in X : t = Above[x]
  OBVIOUS
<1>6. x \in Entries
  BY <1>1
<1>7. CASE Up[x] = d
  BY <1>6, <1>7
<1>8. CASE Up[x] # d
  <2> DEFINE u == Up[x]
  <2>1. u # Root
    BY <1>5, <1>6, <1>8, FScannerAssumption
  <2>2. u \in Entries /\ Above[x] = {u} \cup Above[u] /\ u \notin Above[u]
    BY <1>6, <2>1, FScannerAssumption DEF Entries
  <2>3. u \in X
    BY <1>5, <1>6, <1>8, <2>2, FScannerAssumption
  <2>4. Above[u] \in T /\ Above[u] \in SUBSET Subdir /\ Above[x] \in SUBSET Subdir
        /\ Above[u] \subseteq Above[x] /\ Above[u] # Above[x]
    BY <1>2, <1>6, <2>2, <2>3
  <2> HIDE DEF T, u
  <2> QED
    BY <1>4, <1>5, <2>4 DEF StrictSubsetOrdering
<1> QED
  BY <1>7, <1>8

--------------------------------------------------------------------------------
(* What others and the cache leave as it is. *)

LEMMA OthersSteady ==
  ASSUME ScanTypes, Steady, Others
  PROVE  /\ Steady' /\ Alone' \subseteq Alone /\ Loose \subseteq Loose'
         /\ UNCHANGED <<dir0, node0>>
<1>1. OthersFrame
  BY OthersKeep
<1>2. UNCHANGED <<dir0, node0>> /\ touched \subseteq touched' /\ moved \subseteq moved'
  BY <1>1 DEF OthersFrame, history
<1>3. Alone' \subseteq Alone /\ Loose \subseteq Loose'
  BY <1>2 DEF Alone, Loose
<1>4. \A p \in Path \ Loose' : dir'[p] = dir0'[p]
  BY <1>1, <1>2, <1>3 DEF OthersFrame, Steady, Loose
<1>5. ASSUME NEW i \in Alone'
      PROVE  /\ node'[i] = node0'[i] /\ dir'[VPath] # i
             /\ \A p \in Path : dir0'[p] = i => dir'[p] = i
  <2>1. i \in Inode \ touched' /\ i # NoInode /\ i \in Alone
    BY <1>3, <1>5, FileSystemAssumption DEF Alone
  <2>2. node'[i] = node0'[i]
    BY <1>1, <1>2, <2>1 DEF OthersFrame, Steady
  <2>3. dir'[VPath] # i
    BY <1>1, <2>1, FScannerAssumption DEF OthersFrame, Steady
  <2>4. \A p \in Path : dir0'[p] = i => dir'[p] = i
    BY <1>1, <1>2, <2>1 DEF OthersFrame, Steady
  <2> QED
    BY <2>2, <2>3, <2>4
<1> QED
  BY <1>2, <1>3, <1>4, <1>5 DEF Steady

LEMMA CacheSteady ==
  ASSUME ScanTypes, Steady, NEW p \in Path, AddsCache(p)
  PROVE  Steady' /\ UNCHANGED <<dir0, node0, touched, moved>> /\ Alone' = Alone /\ Loose' = Loose
<1>1. UNCHANGED <<dir0, node0, touched, moved>>
  BY DEF AddsCache, OpenValidate, fsVars, history
<1>2. Alone' = Alone /\ Loose' = Loose
  BY <1>1 DEF Alone, Loose
<1>3. CASE UNCHANGED <<fsVars, vopen>>
  BY <1>1, <1>2, <1>3 DEF Steady, fsVars
<1>4. CASE OpenValidate(p)
  <2>1. PICK v \in (IF Exists(VPath) THEN {dir[VPath]} ELSE Inode \ Files) :
          dir' = [dir EXCEPT ![VPath] = v] /\ node' = [node EXCEPT ![v] = HcdFile]
    BY <1>4 DEF OpenValidate
  <2>2. \A q \in Path \ {VPath} : dir'[q] = dir[q]
    BY <2>1 DEF ScanTypes, FileSystemTypeOK
  <2>3. dir'[VPath] = v
    BY <2>1, FScannerAssumption DEF ScanTypes, FileSystemTypeOK
  <2>4. ASSUME NEW i \in Alone PROVE v # i
    <3>1. PICK q \in Path : dir0[q] = i
      BY <2>4 DEF Alone
    <3>2. dir[q] = i /\ dir[VPath] # i /\ i \in Inode
      BY <2>4, <3>1 DEF Steady, Alone
    <3>3. i \in Files
      BY <3>2 DEF Files, Names
    <3> QED
      BY <2>1, <3>2, <3>3
  <2>5. ASSUME NEW i \in Alone PROVE node'[i] = node[i]
    BY <2>1, <2>4, <2>5 DEF ScanTypes, FileSystemTypeOK, Alone
  <2>6. ASSUME NEW i \in Alone, NEW q \in Path, dir0[q] = i PROVE dir'[q] = i
    <3>1. q # VPath
      BY <2>6 DEF Alone
    <3> QED
      BY <2>2, <2>6, <3>1 DEF Steady
  <2>7. \A q \in Path \ Loose' : dir'[q] = dir0'[q]
    BY <1>1, <1>2, <2>2 DEF Steady, Loose
  <2> QED
    BY <1>1, <1>2, <2>3, <2>4, <2>5, <2>6, <2>7 DEF Steady
<1> QED
  BY <1>1, <1>2, <1>3, <1>4 DEF AddsCache

(* Others give names to the directory in hand. *)
LEMMA WalkMore ==
  ASSUME ScanTypes, Walk, Clear, fpc = "read", UNCHANGED <<dirs, fpc, cdir>>,
         NEW X \in SUBSET Path, \A q \in X : Up[q] = cdir, may' = may \cup X
  PROVE  Walk' /\ Clear' /\ \A e \in Entries \ X : Pending(e)' => Pending(e)
<1>1. Stacked' = Stacked /\ Front' = Front \cup X
  BY DEF Stacked, Front
<1>2. \A q \in X : q \in Entries /\ q \notin Subdir /\ q # Root
  BY FScannerAssumption DEF Entries
<1>3. \A e \in Entries : Above[e] \cap X = {}
  BY <1>2, FScannerAssumption
<1>4. Root \notin Front /\ (cdir # Root => ({cdir} \cup Above[cdir]) \cap Front = {})
  BY DEF Clear
<1>5. cdir \in Subdir \cup {Root} /\ cdir \notin X
  BY <1>2 DEF ScanTypes
<1>6. X \cap Stacked = {}
  BY <1>2, FrontInTree
<1>7. \A q \in X : Above[q] \cap Front = {}
  BY <1>2, <1>4, FScannerAssumption
<1>8. \A e \in Front' \ {Root} : Above[e] \cap Front' = {}
  BY <1>1, <1>2, <1>3, <1>7, FrontInTree DEF Walk
<1>9. Walk'
  BY <1>1, <1>4, <1>6, <1>8 DEF Walk, Front
<1>10. Clear'
  <2>1. Root \notin Front'
    BY <1>1, <1>2, <1>4
  <2>2. cdir # Root => Above[cdir] \cap X = {} /\ cdir \notin X
    BY <1>3, <1>5 DEF Entries
  <2> QED
    BY <1>1, <1>4, <2>1, <2>2 DEF Clear
<1>11. ASSUME NEW e \in Entries \ X, Pending(e)' PROVE Pending(e)
  BY <1>1, <1>3, <1>11 DEF Pending
<1> QED
  BY <1>9, <1>10, <1>11

(* The directory in hand stays clear while the walk takes on no directory. *)
LEMMA ClearKept ==
  ASSUME ScanTypes, Clear, fpc' = "read" => fpc = "read" /\ cdir' = cdir /\ Front' \subseteq Front \cup Path
  PROVE  Clear'
<1>1. Root \notin Path /\ \A d \in Subdir : d \notin Path /\ Above[d] \subseteq Subdir
  BY FScannerAssumption DEF Entries
<1>2. cdir \in Subdir \cup {Root}
  BY DEF ScanTypes
<1> QED
  BY <1>1, <1>2 DEF Clear

LEMMA OpenClear ==
  ASSUME ScanTypes, Walk, OpenDir
  PROVE  Clear'
<1>1. /\ may = {} /\ cdir' \in Stacked /\ Stacked' = Stacked \ {cdir'}
      /\ \A e \in may' : Up[e] = cdir'
  BY Popped
<1>2. may' \subseteq Entries /\ Front' = may' \cup Stacked' /\ Front = Stacked
  BY <1>1 DEF OpenDir, In, Entries, Front
<1>3. Root \notin may' /\ Stacked \subseteq Subdir \cup {Root}
  BY <1>2, FrontInTree, FScannerAssumption DEF Entries
<1>4. Root \notin Front'
  BY <1>1, <1>2, <1>3 DEF Walk
<1>5. ASSUME cdir' # Root PROVE ({cdir'} \cup Above[cdir']) \cap Front' = {}
  <2>1. cdir' \in Entries /\ Above[cdir'] \cap Stacked = {}
    BY <1>1, <1>2, <1>3, <1>5 DEF Walk, Entries
  <2>2. \A e \in may' : cdir' \in Above[e]
    BY <1>1, <1>2, <1>5, FScannerAssumption
  <2>3. \A e \in may' : e # cdir' /\ e \notin Above[cdir']
    BY <1>2, <2>1, <2>2, FScannerAssumption
  <2> QED
    BY <1>1, <1>2, <2>1, <2>3
<1> QED
  BY <1>4, <1>5 DEF Clear

--------------------------------------------------------------------------------
(* What is reached and recorded. *)

LEMMA ReachedKept ==
  ASSUME Reached, UNCHANGED <<options, excludes>>,
         (Stacked \cup {cdir})' \subseteq Stacked \cup {cdir}
  PROVE  Reached'
BY DEF Reached, Fine, Unwanted

(* The way to an entry that readdir(3) returns is free. *)
LEMMA MayFine ==
  ASSUME ScanTypes, Reached, NEW e \in may
  PROVE  \A y \in Above[e] : Fine(y)
<1>1. e \in Entries /\ Up[e] = cdir
  BY DEF ScanTypes
<1>2. Above[e] = IF cdir = Root THEN {} ELSE {cdir} \cup Above[cdir]
  BY <1>1, FScannerAssumption
<1> QED
  BY <1>2 DEF Reached

LEMMA PushReached ==
  ASSUME ScanTypes, Reached, NEW e \in Entries, PushDir(e)
  PROVE  Reached' /\ Stacked' = Stacked \cup {e}
<1>1. dirs' = Append(dirs, e) /\ e \in may /\ ~NotScanned(e) /\ cdir' = cdir
      /\ UNCHANGED <<options, excludes>>
  BY DEF PushDir, Found, argv
<1>2. /\ Len(dirs') = Len(dirs) + 1 /\ Len(dirs) \in Nat
      /\ dirs'[Len(dirs) + 1] = e /\ \A j \in 1..Len(dirs) : dirs'[j] = dirs[j]
  BY <1>1 DEF ScanTypes
<1>3. Stacked' = Stacked \cup {e}
  BY <1>2 DEF Stacked
<1>4. Fine(e) /\ \A y \in Above[e] : Fine(y)
  BY <1>1, MayFine, ExcludesAre DEF NotScanned, Ignored, Fine
<1> QED
  BY <1>1, <1>3, <1>4 DEF Reached, Fine, Unwanted

(* Steps that record nothing. *)
LEMMA RecordsKept ==
  ASSUME ScanTypes, Records, UNCHANGED <<itab, options, dir0, node0>>,
         Loose \subseteq Loose', Alone' \subseteq Alone,
         \A p \in Path \ Loose' : Pending(p)' => Pending(p),
         dphase' = "fill" => dphase = "fill" /\ dtab' = dtab
  PROVE  Records'
<1>1. \A p \in Path : Wanted(p)' <=> Wanted(p)
  BY DEF Wanted, Unwanted
<1>2. \A i \in Inode : \A k \in 1..Len(itab[i].paths) : itab[i].paths[k] \in Path
  BY DEF ScanTypes, Node
<1>3. RecordedRight'
  BY <1>1, <1>2 DEF Records, RecordedRight
<1>4. RecordedOnce'
  BY <1>2 DEF Records, RecordedOnce
<1>5. Entered'
  BY DEF Records, Entered, Recorded, Holds
<1> QED
  BY <1>3, <1>4, <1>5 DEF Records

(* What is owed stays so, or is recorded. *)
LEMMA NoneMissedKept ==
  ASSUME NoneMissed, UNCHANGED <<itab, options, dir0, node0>>,
         Loose \subseteq Loose', Alone' \subseteq Alone,
         \A p \in Path \ Loose' :
           dir0[p] \in Alone /\ Wanted(p) /\ ~Empty0(p) /\ Owed(p) => Owed(p)'
  PROVE  NoneMissed'
<1>1. \A p \in Path : (Wanted(p)' <=> Wanted(p)) /\ (Empty0(p)' <=> Empty0(p))
  BY DEF Wanted, Unwanted, Empty0
<1>2. \A p \in Path : \A i : Has(i, p)' <=> Has(i, p)
  BY DEF Has
<1> QED
  BY <1>1, <1>2 DEF NoneMissed

LEMMA OpenOwed ==
  ASSUME ScanTypes, Walk, Steady, OpenDir, NEW p \in Path \ Loose, dir0[p] \in Alone, Owed(p)
  PROVE  Owed(p)'
<1>1. must = {} /\ cdir' \in Stacked /\ Stacked' = Stacked \ {cdir'}
  BY Popped DEF ScanTypes
<1>2. must' = In(cdir')
  BY DEF OpenDir
<1>3. p \in Entries /\ Above[p] \subseteq Subdir /\ dir[p] # NoInode
  BY FScannerAssumption, FileSystemAssumption DEF Entries, Steady, Alone
<1>4. PICK d : d \in Stacked /\ (d = Root \/ d \in Above[p])
  BY <1>1 DEF Owed
<1>5. CASE d # cdir'
  BY <1>1, <1>4, <1>5 DEF Owed
<1>6. CASE d = cdir'
  <2>1. PICK e \in {p} \cup Above[p] : e \in Entries /\ Up[e] = d
    BY <1>3, <1>4, OnTheWay
  <2>2. e \in In(cdir')
    BY <1>3, <1>6, <2>1 DEF In, Exists
  <2> QED
    BY <1>2, <2>1, <2>2 DEF Owed
<1> QED
  BY <1>5, <1>6

(* An entry that is passed over is no wanted path, nor a directory above one. *)
LEMMA PassOwed ==
  ASSUME ScanTypes, Steady, Reached, NEW e \in Entries, PassOver(e),
         NEW p \in Path \ Loose, dir0[p] \in Alone, Wanted(p), ~Empty0(p), Owed(p)
  PROVE  Owed(p)'
<1>1. NotScanned(e) /\ must' = must \ {e} /\ dirs' = dirs
  BY DEF PassOver, Returned
<1>2. p \in Entries /\ p \notin Subdir /\ Above[p] \subseteq Subdir /\ HcdPath \notin Subdir
      /\ Subdir \cap Path = {} /\ OtherFS \subseteq Subdir
  BY FScannerAssumption DEF Entries
<1>3. node[dir[p]].data # << >>
  <2>1. dir[p] = dir0[p] /\ node[dir0[p]] = node0[dir0[p]] /\ dir0[p] # NoInode
    BY FileSystemAssumption DEF Steady, Alone
  <2> QED
    BY <2>1 DEF Empty0
<1>4. e # p
  BY <1>1, <1>2, <1>3, ExcludesAre DEF NotScanned, Ignored, Wanted
<1>5. e \notin Above[p]
  BY <1>1, <1>2, ExcludesAre DEF NotScanned, Ignored, Wanted
<1> QED
  BY <1>1, <1>4, <1>5 DEF Owed, Stacked

(* A path is recorded, and perhaps .hcd.validate made. *)
LEMMA AddTrack ==
  ASSUME ScanInv, TrackInv, NEW p \in Path, NEW i \in Inode, i = dir[p],
         AddsPath(p, i), AddsCache(p)
  PROVE  TrackInv'
<1>1. ScanTypes /\ Filled /\ Walk /\ Clear /\ Steady /\ Reached /\ NoneMissed
      /\ RecordedRight /\ RecordedOnce /\ Entered
  BY DEF ScanInv, TrackInv, Records
<1>2. /\ p \in may /\ Exists(p) /\ fpc = "read" /\ ~NotScanned(p) /\ p \in Entries
      /\ must' = must \ {p} /\ UNCHANGED <<fpc, dirs, cdir, options, excludes>>
  BY DEF AddsPath, Entries
<1>3. Steady' /\ UNCHANGED <<dir0, node0>> /\ Alone' = Alone /\ Loose' = Loose
  BY <1>1, CacheSteady
<1>4. PICK X \in SUBSET {VPath} : may' = (may \ {p}) \cup X /\ p \notin X
  <2>1. CASE may' = may \ {p}
    <3> WITNESS {} \in SUBSET {VPath}
    <3> QED
      BY <2>1
  <2>2. CASE may' = (may \ {p}) \cup {VPath} /\ ~Exists(VPath)
    <3> WITNESS {VPath} \in SUBSET {VPath}
    <3> QED
      BY <1>2, <2>2
  <2> QED
    BY <1>1, <2>1, <2>2, AddPathNames
<1>5. Walk' /\ ~Pending(p)' /\ \A e \in Entries \ X : Pending(e)' => Pending(e)
  BY <1>1, <1>2, <1>4, WalkAdd
<1>6. Stacked' = Stacked
  BY <1>2 DEF Stacked
<1>7. Clear'
  BY <1>1, <1>2, <1>4, <1>6, ClearKept, FScannerAssumption DEF Front
<1>8. Reached'
  BY <1>1, <1>2, <1>6, ReachedKept
<1>9. /\ \A j \in Inode \ {i} : itab'[j] = itab[j]
      /\ itab'[i].slots = IF Recorded(i) THEN itab[i].slots ELSE Cardinality(Names(i))
      /\ itab'[i].mtime = IF Recorded(i) THEN itab[i].mtime ELSE node[i].mtime
      /\ \A k \in 1..Len(itab'[i].paths) :
           \/ k = Len(itab'[i].paths) /\ itab'[i].paths[k] = p
           \/ k \in 1..Len(itab[i].paths) /\ itab'[i].paths[k] = itab[i].paths[k]
      /\ \E k \in 1..Len(itab'[i].paths) : itab'[i].paths[k] = p
      /\ \A k \in 1..Len(itab[i].paths) :
           k \in 1..Len(itab'[i].paths) /\ itab'[i].paths[k] = itab[i].paths[k]
  <2>1. Gains(p, i)
    BY <1>1, NewPaths
  <2> QED
    BY ONLY <2>1 DEF Gains
<1>10. \A q \in Path : (Wanted(q)' <=> Wanted(q)) /\ (Empty0(q)' <=> Empty0(q))
  BY <1>2, <1>3 DEF Wanted, Unwanted, Empty0
<1>11. Wanted(p)
  BY <1>1, <1>2, MayFine, ExcludesAre DEF NotScanned, Ignored, Wanted, Fine
<1>12. p \notin Loose => dir0[p] = i
  BY <1>1 DEF Steady
<1>13. \A j \in Inode : \A k \in 1..Len(itab[j].paths) : itab[j].paths[k] \in Path /\ itab[j].paths[k] \in Entries
  BY <1>1 DEF ScanTypes, Node, Entries
<1>14. RecordedRight'
  <2>1. ASSUME NEW j \in Inode, NEW k \in 1..Len(itab[j].paths), NEW q, q = itab[j].paths[k]
        PROVE  Wanted(q)' /\ (q \notin Loose' => dir0'[q] = j /\ ~Pending(q)')
    <3>1. q \in Path /\ q \in Entries /\ Wanted(q) /\ (q \notin Loose => dir0[q] = j /\ ~Pending(q))
      BY <1>1, <1>13, <2>1 DEF RecordedRight
    <3>2. q \notin Loose => q \notin X
      BY DEF Loose
    <3> QED
      BY <1>3, <1>5, <1>10, <3>1, <3>2
  <2>2. ASSUME NEW j \in Inode, NEW k \in 1..Len(itab'[j].paths), NEW q, q = itab'[j].paths[k]
        PROVE  Wanted(q)' /\ (q \notin Loose' => dir0'[q] = j /\ ~Pending(q)')
    <3>1. CASE j = i /\ q = p
      BY <1>3, <1>5, <1>10, <1>11, <1>12, <3>1
    <3>2. CASE j # i
      BY <1>9, <2>1, <2>2, <3>2
    <3>3. CASE j = i /\ q # p
      <4>1. k \in 1..Len(itab[i].paths) /\ itab[i].paths[k] = q
        BY <1>9, <2>2, <3>3
      <4> QED
        BY <2>1, <3>3, <4>1
    <3> QED
      BY <3>1, <3>2, <3>3
  <2> QED
    BY <2>2 DEF RecordedRight
<1>15. RecordedOnce'
  <2>1. ASSUME NEW j \in Inode, NEW k \in 1..Len(itab'[j].paths), NEW l \in 1..Len(itab'[j].paths),
               itab'[j].paths[k] = itab'[j].paths[l], itab'[j].paths[k] \notin Loose
        PROVE  k = l
    <3>1. CASE j # i
      BY <1>1, <1>9, <2>1, <3>1 DEF RecordedOnce
    <3>2. CASE j = i
      <4>1. p \notin Loose => \A m \in 1..Len(itab[i].paths) : itab[i].paths[m] # p
        BY <1>1, <1>2 DEF RecordedRight, Pending
      <4>2. CASE itab'[i].paths[k] = p
        <5>1. \A m \in 1..Len(itab'[i].paths) : itab'[i].paths[m] = p => m = Len(itab'[i].paths)
          BY <1>9, <2>1, <3>2, <4>1, <4>2
        <5> QED
          BY <2>1, <3>2, <4>2, <5>1
      <4>3. CASE itab'[i].paths[k] # p
        <5>1. \A m \in 1..Len(itab'[i].paths) : itab'[i].paths[m] # p =>
                m \in 1..Len(itab[i].paths) /\ itab[i].paths[m] = itab'[i].paths[m]
          BY <1>9
        <5>2. k \in 1..Len(itab[i].paths) /\ l \in 1..Len(itab[i].paths)
              /\ itab[i].paths[k] = itab[i].paths[l] /\ itab[i].paths[k] \notin Loose
          BY <2>1, <3>2, <4>3, <5>1
        <5> QED
          BY <1>1, <5>2 DEF RecordedOnce
      <4> QED
        BY <4>2, <4>3
    <3> QED
      BY <3>1, <3>2
  <2> QED
    BY <1>3, <2>1 DEF RecordedOnce
<1>16. Entered'
  <2>1. node[i].data # << >>
    BY <1>2 DEF NotScanned
  <2>2. CASE Recorded(i)
    <3>1. \A j \in Inode : (Recorded(j)' <=> Recorded(j)) /\ itab'[j].mtime = itab[j].mtime
      BY <1>9, <2>2 DEF Recorded
    <3>2. dtab' = dtab /\ dphase' = dphase
      BY <2>2 DEF AddsPath, dupVars
    <3> QED
      BY <1>1, <1>3, <3>1, <3>2 DEF Entered, Alone, Holds
  <2>3. CASE ~Recorded(i)
    <3>1. AddScanned(KeyOf(node[i]), i) /\ KeyOf(node[i]) \in Key /\ i \in Ino
      BY <1>1, <2>1, <2>3, FScannerAssumption DEF AddsPath, KeyOf, ScanTypes, FileSystemTypeOK
    <3>2. dphase = "fill" /\ Holds(dtab') = Holds(dtab) \cup {<<KeyOf(node[i]), i>>}
      BY <1>1, <3>1, HoldsAdded DEF AddScanned, ScanTypes, DupInv
    <3>3. Holds(dtab)' = Holds(dtab')
      BY DEF Holds
    <3>4. \A j \in Inode \ {i} : (Recorded(j)' <=> Recorded(j)) /\ itab'[j].mtime = itab[j].mtime
      BY <1>9 DEF Recorded
    <3>5. i \in Alone => node0[i].data # << >> /\ itab'[i].mtime = node0[i].mtime
                         /\ KeyOf(node0[i]) = KeyOf(node[i])
      BY <1>1, <1>9, <2>1, <2>3 DEF Steady
    <3>6. ASSUME NEW j \in Alone, Recorded(j)'
          PROVE  /\ node0'[j].data # << >> /\ itab'[j].mtime = node0'[j].mtime
                 /\ <<KeyOf(node0'[j]), j>> \in Holds(dtab)'
      <4>1. CASE j = i
        BY <1>3, <3>2, <3>3, <3>5, <3>6, <4>1
      <4>2. CASE j # i
        BY <1>1, <1>3, <3>2, <3>3, <3>4, <3>6, <4>2 DEF Entered, Alone
      <4> QED
        BY <4>1, <4>2
    <3> QED
      BY <1>3, <3>6 DEF Entered
  <2> QED
    BY <2>2, <2>3
<1>17. NoneMissed'
  <2>1. SUFFICES ASSUME NEW q \in Path \ Loose, dir0[q] \in Alone, Wanted(q), ~Empty0(q)
                 PROVE  Owed(q)' \/ Has(dir0[q], q)'
    BY <1>3, <1>10 DEF NoneMissed
  <2>2. CASE Has(dir0[q], q)
    BY <1>3, <1>9, <2>1, <2>2 DEF Has, Alone
  <2>3. CASE q = p
    BY <1>3, <1>9, <1>12, <2>1, <2>3 DEF Has
  <2>4. CASE Owed(q) /\ q # p
    <3>1. p \notin Above[q]
      BY <2>1, FScannerAssumption DEF Entries
    <3> QED
      BY <1>2, <1>6, <2>4, <3>1 DEF Owed
  <2> QED
    BY <1>1, <2>1, <2>2, <2>3, <2>4 DEF NoneMissed
<1> QED
  BY <1>2, <1>3, <1>5, <1>7, <1>8, <1>14, <1>15, <1>16, <1>17 DEF TrackInv, Records, Over

LEMMA OthersTrack ==
  ASSUME ScanInv, TrackInv, Others
  PROVE  TrackInv'
<1>1. ScanTypes /\ Walk /\ Clear /\ Steady /\ Reached /\ NoneMissed /\ Records
  BY DEF ScanInv, TrackInv
<1>2. Steady' /\ Alone' \subseteq Alone /\ Loose \subseteq Loose' /\ UNCHANGED <<dir0, node0>>
  BY <1>1, OthersSteady
<1>3. fpc \in {"open", "read"} /\ UNCHANGED <<itab, dupVars, options, excludes, fpc, dirs, cdir>>
  BY DEF Others, argv
<1>4. PICK changed \in SUBSET Path :
        /\ changed \subseteq moved' /\ must' = must \ changed
        /\ may' = may \cup (IF fpc = "read"
                              THEN {p \in changed : Up[p] = cdir /\ dir'[p] # NoInode} ELSE {})
  <2> DEFINE changed == {p \in Path : dir'[p] # dir[p]}
  <2>1. changed \subseteq moved'
    BY <1>1, OthersKeep DEF OthersFrame
  <2>2. /\ must' = must \ changed
        /\ may' = may \cup (IF fpc = "read"
                              THEN {p \in changed : Up[p] = cdir /\ dir'[p] # NoInode} ELSE {})
    BY DEF Others
  <2>3. changed \in SUBSET Path
    OBVIOUS
  <2> HIDE DEF changed
  <2> QED
    BY <2>1, <2>2, <2>3
<1>5. Walk' /\ Clear' /\ \A p \in Path \ Loose' : Pending(p)' => Pending(p)
  <2>1. CASE fpc = "read"
    <3> DEFINE X == {p \in changed : Up[p] = cdir /\ dir'[p] # NoInode}
    <3>1. X \in SUBSET Path /\ X \subseteq Loose' /\ may' = may \cup X /\ \A q \in X : Up[q] = cdir
      BY <1>4, <2>1 DEF Loose
    <3> HIDE DEF X
    <3>2. Walk' /\ Clear' /\ \A e \in Entries \ X : Pending(e)' => Pending(e)
      BY <1>1, <1>3, <2>1, <3>1, WalkMore
    <3> QED
      BY <3>1, <3>2 DEF Entries
  <2>2. CASE fpc # "read"
    <3>1. may' = may
      BY <1>4, <2>2
    <3>2. Walk' /\ \A e \in Entries : Pending(e)' => Pending(e)
      BY <1>1, <1>3, <3>1, WalkLess DEF Walk
    <3> QED
      BY <1>3, <2>2, <3>2 DEF Clear, Entries
  <2> QED
    BY <2>1, <2>2
<1>6. Stacked' = Stacked
  BY <1>3 DEF Stacked
<1>7. Reached'
  BY <1>1, <1>3, <1>6, ReachedKept
<1>8. Records'
  BY <1>1, <1>2, <1>3, <1>5, RecordsKept DEF dupVars
<1>9. NoneMissed'
  <2>1. ASSUME NEW p \in Path \ Loose', Owed(p) PROVE Owed(p)'
    <3>1. p \notin changed /\ Above[p] \cap changed = {}
      BY <1>4, <2>1, FScannerAssumption DEF Loose, Entries
    <3> QED
      BY <1>4, <1>6, <2>1, <3>1 DEF Owed
  <2> QED
    BY <1>1, <1>2, <1>3, <2>1, NoneMissedKept
<1> QED
  BY <1>2, <1>3, <1>5, <1>7, <1>8, <1>9 DEF TrackInv, Over

(* Steps of the program that change no file and record none. *)
LEMMA QuietTrack ==
  ASSUME ScanInv, TrackInv, UNCHANGED <<fsVars, itab, options, excludes>>,
         Walk', Clear', Over',
         \A p \in Path : Pending(p)' => Pending(p),
         (Stacked \cup {cdir})' \subseteq Stacked \cup {cdir} \/ Reached',
         dphase' = "fill" => dphase = "fill" /\ dtab' = dtab,
         \A p \in Path \ Loose :
           dir0[p] \in Alone /\ Wanted(p) /\ ~Empty0(p) /\ Owed(p) => Owed(p)'
  PROVE  TrackInv'
<1>1. ScanTypes /\ Steady /\ Reached /\ NoneMissed /\ Records
  BY DEF ScanInv, TrackInv
<1>2. UNCHANGED <<dir, node, dir0, node0, touched, moved>>
  BY DEF fsVars, history
<1>3. Alone' = Alone /\ Loose' = Loose
  BY <1>2 DEF Alone, Loose
<1>4. Steady'
  BY <1>1, <1>2, <1>3 DEF Steady
<1>5. Reached'
  BY <1>1, ReachedKept
<1>6. Records'
  BY <1>1, <1>2, <1>3, RecordsKept
<1>7. NoneMissed'
  BY <1>1, <1>2, <1>3, NoneMissedKept
<1> QED
  BY <1>4, <1>5, <1>6, <1>7 DEF TrackInv

LEMMA TrackStep ==
  ASSUME ScanInv, TrackInv, [Next]_scanVars
  PROVE  TrackInv'
<1>1. ScanTypes /\ Walk /\ Clear /\ Steady /\ Reached /\ Over
  BY DEF ScanInv, TrackInv
<1>2. \A p \in Path : p \in Entries /\ p \notin Subdir
  BY FScannerAssumption DEF Entries
<1>3. CASE OpenDir
  <2>1. Walk' /\ \A e \in Entries : Pending(e)' => Pending(e)
    BY <1>1, <1>3, WalkOpen
  <2>2. Clear'
    BY <1>1, <1>3, OpenClear
  <2>3. (Stacked \cup {cdir})' \subseteq Stacked \cup {cdir}
    BY <1>1, <1>3, Popped
  <2>4. UNCHANGED <<fsVars, itab, dupVars, options, excludes>> /\ fpc' = "read"
    BY <1>3 DEF OpenDir, argv
  <2>5. \A p \in Path \ Loose : dir0[p] \in Alone /\ Owed(p) => Owed(p)'
    BY <1>1, <1>3, OpenOwed
  <2> QED
    BY <1>2, <2>1, <2>2, <2>3, <2>4, <2>5, QuietTrack DEF Over, dupVars
<1>4. ASSUME NEW e \in Entries, PassOver(e) PROVE TrackInv'
  <2>1. /\ UNCHANGED <<fsVars, itab, dupVars, options, excludes, dirs, cdir, fpc>>
        /\ fpc = "read" /\ may' = may \ {e}
    BY <1>4 DEF PassOver, Found, Returned, argv
  <2>2. Stacked' = Stacked /\ Front' \subseteq Front
    BY <2>1 DEF Stacked, Front
  <2>3. Walk' /\ \A x \in Entries : Pending(x)' => Pending(x)
    BY <1>1, <2>1, WalkLess
  <2>4. Clear'
    BY <1>1, <2>1, <2>2, ClearKept
  <2>5. \A p \in Path \ Loose : dir0[p] \in Alone /\ Wanted(p) /\ ~Empty0(p) /\ Owed(p) => Owed(p)'
    BY <1>1, <1>4, PassOwed
  <2> QED
    BY <1>2, <2>1, <2>2, <2>3, <2>4, <2>5, QuietTrack DEF Over, dupVars
<1>5. ASSUME NEW e \in Entries, PushDir(e) PROVE TrackInv'
  <2>1. /\ UNCHANGED <<fsVars, itab, dupVars, options, excludes, cdir, fpc>>
        /\ fpc = "read" /\ e \in Subdir /\ e \in may /\ may' = may \ {e} /\ must' = must \ {e}
    BY <1>5 DEF PushDir, Found, Returned, argv
  <2>2. Reached' /\ Stacked' = Stacked \cup {e}
    BY <1>1, <1>5, PushReached
  <2>3. Walk' /\ \A x \in Entries : Pending(x)' => Pending(x)
    BY <1>1, <1>5, WalkPush
  <2>4. Clear'
    BY <1>1, <2>1, <2>2, ClearKept DEF Front
  <2>5. \A p \in Path : Owed(p) => Owed(p)'
    BY <1>2, <2>1, <2>2 DEF Owed
  <2> QED
    BY <1>2, <2>1, <2>2, <2>3, <2>4, <2>5, QuietTrack DEF Over, dupVars
<1>6. ASSUME NEW e \in Entries, AddPath(e) PROVE TrackInv'
  <2>1. AddsPath(e, dir[e]) /\ AddsCache(e)
    BY <1>1, <1>6, AddPathFrame
  <2>2. e \in Path /\ dir[e] \in Inode
    BY <2>1 DEF AddsPath
  <2> QED
    BY <2>1, <2>2, AddTrack
<1>7. CASE ScanFails \/ CloseDir \/ ScanDone \/ Clusters \/ Stays \/ UNCHANGED scanVars
  <2>1. UNCHANGED <<fsVars, itab, options, excludes, dirs, cdir, must>>
    BY <1>7 DEF ScanFails, CloseDir, ScanDone, Clusters, Stays, scanVars, scanLocal, argv
  <2>2. may' \subseteq may /\ (fpc' = "open" => may' = {}) /\ (fpc' = "read" => fpc = "read")
        /\ Over'
    BY <1>1, <1>7 DEF ScanFails, CloseDir, ScanDone, Clusters, Stays, scanVars, scanLocal, Walk, Over
  <2>3. Stacked' = Stacked /\ Front' \subseteq Front
    BY <2>1, <2>2 DEF Stacked, Front
  <2>4. Walk' /\ \A x \in Entries : Pending(x)' => Pending(x)
    BY <1>1, <2>1, <2>2, WalkLess
  <2>5. Clear'
    BY <1>1, <2>1, <2>2, <2>3, ClearKept
  <2>6. dphase' = "fill" => dphase = "fill" /\ dtab' = dtab
    BY <1>7 DEF ScanFails, CloseDir, ScanDone, Clusters, Stays, scanVars, dupVars, DupStep,
                StartCluster, NextEntry, CopyInode, SortClusters, Deal, PassDone
  <2>7. \A p \in Path : Owed(p) => Owed(p)'
    BY <2>1, <2>3 DEF Owed
  <2> QED
    BY <1>2, <2>1, <2>2, <2>3, <2>4, <2>5, <2>6, <2>7, QuietTrack
<1>8. CASE Others
  BY <1>8, OthersTrack
<1> QED
  BY <1>3, <1>4, <1>5, <1>6, <1>7, <1>8 DEF Next, Step

(* At the end of the scan nothing is owed any more. *)
LEMMA TrackExact ==
  ASSUME ScanInv, TrackInv
  PROVE  ScanExact
<1>1. /\ ScanTypes /\ Over /\ NoneMissed /\ Steady
      /\ RecordedRight /\ RecordedOnce /\ Entered
  BY DEF ScanInv, TrackInv, Records
<1>2. SUFFICES ASSUME fpc = "scanned", dphase = "fill", NEW p \in Path \ (moved \cup {VPath})
               PROVE
         /\ \A i \in Inode \ {dir0[p]} : Times(i, p) = 0
         /\ dir0[p] \in Inode \ (touched \cup {dir0[VPath]}) =>
              /\ Times(dir0[p], p) = IF Wanted(p) /\ ~Empty0(p) THEN 1 ELSE 0
              /\ Recorded(dir0[p]) =>
                   /\ <<KeyOf(node0[dir0[p]]), dir0[p]>> \in Holds(dtab)
                   /\ itab[dir0[p]].mtime = node0[dir0[p]].mtime
  BY DEF ScanExact
<1>3. p \in Path \ Loose
  BY DEF Loose
<1>4. \A i \in Inode : ~Has(i, p) => Times(i, p) = 0
  <2>1. ASSUME NEW i \in Inode, ~Has(i, p) PROVE Times(i, p) = 0
    <3>1. {j \in 1..Len(itab[i].paths) : itab[i].paths[j] = p} = {}
      BY <2>1 DEF Has
    <3> QED
      BY <3>1, FS_EmptySet DEF Times
  <2> QED
    BY <2>1
<1>5. \A i \in Inode \ {dir0[p]} : ~Has(i, p)
  BY <1>1, <1>3 DEF RecordedRight, Has
<1>6. ASSUME dir0[p] \in Inode \ (touched \cup {dir0[VPath]})
      PROVE  /\ Times(dir0[p], p) = IF Wanted(p) /\ ~Empty0(p) THEN 1 ELSE 0
             /\ Recorded(dir0[p]) =>
                   /\ <<KeyOf(node0[dir0[p]]), dir0[p]>> \in Holds(dtab)
                   /\ itab[dir0[p]].mtime = node0[dir0[p]].mtime
  <2> DEFINE i == dir0[p]
  <2>1. i \in Alone /\ i \in Inode
    BY <1>3, <1>6 DEF Alone
  <2>2. Has(i, p) => Times(i, p) = 1
    <3>1. SUFFICES ASSUME NEW k \in 1..Len(itab[i].paths), itab[i].paths[k] = p
                   PROVE Times(i, p) = 1
      BY DEF Has
    <3>2. {j \in 1..Len(itab[i].paths) : itab[i].paths[j] = p} = {k}
      BY <1>1, <1>3, <2>1, <3>1 DEF RecordedOnce
    <3> QED
      BY <3>2, FS_Singleton DEF Times
  <2>3. Has(i, p) => Wanted(p) /\ ~Empty0(p)
    <3>1. SUFFICES ASSUME NEW k \in 1..Len(itab[i].paths), itab[i].paths[k] = p
                   PROVE Wanted(p) /\ ~Empty0(p)
      BY DEF Has
    <3>2. itab[i].slots # 0
      <4>1. Len(itab[i].paths) \in Nat /\ Len(itab[i].paths) <= itab[i].slots /\ itab[i].slots \in Nat
        BY <1>1, <2>1 DEF ScanTypes, Node
      <4> QED
        BY <3>1, <4>1
    <3>3. Wanted(itab[i].paths[k])
      BY <1>1, <2>1, <3>1 DEF RecordedRight
    <3>4. node0[i].data # << >>
      BY <1>1, <2>1, <3>2 DEF Entered, Recorded
    <3> QED
      BY <3>1, <3>3, <3>4 DEF Empty0
  <2>4. Wanted(p) /\ ~Empty0(p) => Has(i, p)
    <3>1. ~Owed(p)
      <4>1. Stacked = {} /\ must = {}
        BY <1>1, <1>2 DEF Over, ScanTypes, Stacked
      <4> QED
        BY <4>1 DEF Owed
    <3> QED
      BY <1>1, <1>3, <2>1, <3>1 DEF NoneMissed
  <2>5. Times(i, p) = IF Wanted(p) /\ ~Empty0(p) THEN 1 ELSE 0
    BY <1>4, <2>1, <2>2, <2>3, <2>4
  <2> QED
    BY <1>1, <1>2, <2>1, <2>5 DEF Entered
<1> QED
  BY <1>4, <1>5, <1>6

(* The scan is right about all names and files that nobody disturbs, whatever others do   *)
(* to the rest meanwhile: a wanted name of such a file is recorded under its inode, once,  *)
(* an unwanted one is not, and the file is in the table with the owner, size and mtime it   *)
(* has, however deep the tree, whatever the patterns (fscanner.c:62-117).                    *)
THEOREM ScanIsExact == Spec => []ScanExact
<1>1. ScanInv /\ TrackInv => ScanExact
  BY TrackExact
<1>2. ScanInv /\ TrackInv /\ [Next]_scanVars => TrackInv'
  BY TrackStep
<1> QED
  BY <1>1, <1>2, TrackInit, ScanInvariant, PTL DEF Spec
================================================================================
