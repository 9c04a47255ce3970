------------------------------ MODULE HumanReadable ------------------------------
(***************************************************************************)
(* human_readable.c, and the numbers undup prints with it: struct dedup_stats is    *)
(* an int that do_dedup adds st_blocks to, inode by inode, and what is printed in     *)
(* the end is that int, as an unsigned long long, in units of 512.                      *)
(*                                                                         *)
(* A printed number is a record: its whole part, its tenths, and what the letter behind    *)
(* it stands for, 1 for none, K for "K" and so on.                                          *)
(***************************************************************************)
EXTENDS Integers

CONSTANTS
  INT_MAX,   \* the largest int
  ULLONG,    \* one more than the largest unsigned long long
  StBlocks,  \* st_blocks of an inode
  MaxTotal   \* bound: blocks of all inodes that are replaced

K == 1024

(* An int of blocks, in bytes, is an unsigned long long, whose 64 bits make six turns of a  *)
(* loop that divides by K enough.                                                            *)
ASSUME HumanReadableAssumption ==
  /\ INT_MAX \in Nat /\ ULLONG \in Nat /\ MaxTotal \in Nat
  /\ StBlocks \subseteq Nat
  /\ K * INT_MAX + K <= ULLONG
  /\ (((((ULLONG \div K) \div K) \div K) \div K) \div K) \div K < K

VARIABLES
  blocks,  \* stats.blocks
  total    \* history: the blocks there really are

sizeVars == <<blocks, total>>

--------------------------------------------------------------------------------
(* Mutants of ToInt: the int is wide enough; it has one bit less. *)
ToIntWide(x) == x
ToIntHalf(x) == x % (INT_MAX \div 2 + 1)

(* int, from a wider integer. *)
ToInt(x) == ((x + INT_MAX + 1) % (2 * (INT_MAX + 1))) - (INT_MAX + 1)

Number == [val : Nat, frac : 0..10, unit : Nat]

(* The number divided once more; the tenths are make_human_readable_str's. *)
Divided(d) ==
  [val |-> d.val \div K, frac |-> ((d.val % K) * 10 + K \div 2) \div K, unit |-> d.unit * K]

(* Mutant of Turn: one value too many is taken to fit. *)
TurnTooFew(max) == [d \in Number |-> IF d.val <= max THEN d ELSE Divided(d)]

(* A turn of the loops that divide a number until it is below max, and all the turns. *)
Turn(max) == [d \in Number |-> IF d.val < max THEN d ELSE Divided(d)]
Divide(d, max) == LET t == Turn(max) IN t[t[t[t[t[t[d]]]]]]

(* Mutant of Carried: ten tenths are not made a whole. *)
CarriedNot(d) == d

Carried(d) == IF d.frac >= 10 THEN [d EXCEPT !.val = @ + 1, !.frac = 0] ELSE d

(* make_human_readable_str *)
MakeHumanReadable(val, block_size, display_unit) ==
  LET bytes == (val * (IF block_size > 1 THEN block_size ELSE 1)) % ULLONG
      d == Carried(Divide([val |-> bytes, frac |-> 0, unit |-> 1], K))
  IN  IF display_unit # 0
        THEN [val |-> ((bytes + display_unit \div 2) % ULLONG) \div display_unit, frac |-> 0, unit |-> 1]
      ELSE IF block_size = 0
        THEN [val |-> IF d.frac >= 5 THEN d.val + 1 ELSE d.val, frac |-> 0, unit |-> d.unit]
      ELSE d

(* smart_ulltoa5 and smart_ulltoa4, for numbers below max: there is room for tenths below     *)
(* `tens'.  The first turn of their loop is made in any case, on ten times the number.         *)
Smart(ul, max, tens) ==
  IF ul < max THEN [val |-> ul, frac |-> 0, unit |-> 1]
  ELSE LET d == Divide([val |-> ((ul * 10) % ULLONG) \div K, frac |-> 0, unit |-> K], max)
       IN  [val |-> d.val \div 10, frac |-> IF d.val \div 10 < tens THEN d.val % 10 ELSE 0,
            unit |-> d.unit]

SmartUlltoa5(ul) == Smart(ul, 100000, 100)
SmartUlltoa4(ul) == Smart(ul, 10000, 10)

--------------------------------------------------------------------------------
SizesTypeOK ==
  /\ blocks \in -(INT_MAX + 1)..INT_MAX
  /\ total \in Nat

Init == blocks = 0 /\ total = 0

(* do_dedup meets an inode. *)
CountBlocks(b) ==
  /\ total + b <= MaxTotal
  /\ blocks' = ToInt(blocks + b)
  /\ total' = total + b

Next == \E b \in StBlocks : CountBlocks(b)

Spec == Init /\ [][Next]_sizeVars

(* "Storage freed: %s" *)
Freed == MakeHumanReadable(blocks % ULLONG, 512, 0)

--------------------------------------------------------------------------------
(* Properties.                                                                  *)

(* A printed number in tenths of what it counts. *)
Tenths(r) == (10 * r.val + r.frac) * r.unit
Off(r, n) == LET x == Tenths(r) - 10 * n IN IF x < 0 THEN -x ELSE x

Bytes == 512 * total
InRange == total <= INT_MAX

(* Up to INT_MAX blocks, a terabyte, the storage that undup says it freed is what it      *)
(* freed, exactly below a kilobyte, else to half a tenth of the unit and what is left of  *)
(* the unit below; beyond, the counter has wrapped (undup.c:128, 410).  A size printed     *)
(* without tenths is that size to 0.55 of its unit, for the tenths are rounded first        *)
(* (human_readable.c:67-82).                                                                 *)
FreedIsRight ==
  InRange =>
    LET f == Freed
        g == MakeHumanReadable(Bytes, 0, 0)
        k == MakeHumanReadable(Bytes, 1, K) IN
      /\ f.frac \in 0..9 /\ f.val <= K
      /\ Off(f, Bytes) <= IF f.unit = 1 THEN 0 ELSE f.unit \div 2 + 10 * (f.unit \div K)
      /\ Off(g, Bytes) <= IF g.unit = 1 THEN 0 ELSE (11 * g.unit) \div 2
      /\ Off(k, Bytes \div K) <= 10

(* Another inode freed never makes the printed number smaller. *)
FreedNeverShrinks == [][InRange' => Tenths(Freed') >= Tenths(Freed)]_sizeVars

(* "Convert unsigned long long value into compact 5-char representation", and 4-char:      *)
(* the digits fit, and are those of the value, cut off, as long as ten times the value       *)
(* does not overflow (human_readable.c:91-92, 98-104, 142-144).                                *)
Cut(r, n, room, tens) ==
  /\ r.val < (IF r.unit = 1 THEN room ELSE room \div 10)
  /\ Tenths(r) <= 10 * n
  /\ 10 * n < Tenths(r) + r.unit * (IF r.unit # 1 /\ r.val < tens THEN 1 ELSE 10)
CompactFits ==
  \A n \in {m \in {total, Bytes} : 10 * m < ULLONG} :
    Cut(SmartUlltoa5(n), n, 100000, 100) /\ Cut(SmartUlltoa4(n), n, 10000, 10)
================================================================================
