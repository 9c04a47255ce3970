----------------------------- MODULE MCHumanReadable -----------------------------
(* An instance of HumanReadable for TLC, where an int has 19 bits. *)
EXTENDS HumanReadable

MCStBlocks == {1, 8, 4096}
================================================================================
