--------------------------------- MODULE Exclude ---------------------------------
(***************************************************************************)
(* exclude.c, and the options -X and -I (undup.c:216-229).                         *)
(*                                                                         *)
(* An option is a record: which of the two it is, whether its argument starts and   *)
(* ends with a slash, and the texts the rest of it matches, one for a plain pattern  *)
(* and several for one with *, ? or [].  A text is the name of an entry, or for a     *)
(* pattern that starts with a slash, the entry itself: its path from the root.         *)
(***************************************************************************)
EXTENDS Naturals, Sequences

CONSTANTS
  Name,    \* the last component of each entry's path
  Subdir   \* the entries that are directories

VARIABLE excludes   \* the list of patterns, in the order of the options

(* Mutant of Flags: a pattern that ends with a slash is not kept to directories. *)
FlagsAnyType(o) ==
  {IF o.opt = "I" THEN "INCLUDE" ELSE "EXCLUDE"} \cup (IF o.leads THEN {"FULLPATH"} ELSE {})

(* The flags undup_main gives a pattern. *)
Flags(o) ==
  {IF o.opt = "I" THEN "INCLUDE" ELSE "EXCLUDE"}
    \cup (IF o.leads THEN {"FULLPATH"} ELSE {})
    \cup (IF o.trails THEN {"MATCHDIR"} ELSE {})

Pattern(o) == [flags |-> Flags(o), texts |-> o.texts]

(* excludes_add, once for each option. *)
ExcludesOf(opts) == [j \in DOMAIN opts |-> Pattern(opts[j])]

Matches(pp, e) ==
  /\ "MATCHDIR" \in pp.flags => e \in Subdir
  /\ (IF "FULLPATH" \in pp.flags THEN e ELSE Name[e]) \in pp.texts

(* excludes_check: the first pattern that matches decides. *)
ExcludesCheck(e) ==
  \E j \in DOMAIN excludes :
    /\ Matches(excludes[j], e)
    /\ \A k \in 1..(j - 1) : ~Matches(excludes[k], e)
    /\ "EXCLUDE" \in excludes[j].flags
================================================================================
