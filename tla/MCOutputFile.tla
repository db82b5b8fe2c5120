---------------------------- MODULE MCOutputFile ----------------------------
(* Instances of OutputFile for TLC. *)
EXTENDS OutputFile

CONSTANTS a, b, c   \* runs of Doctor

TwoWriters == {a, b}
ThreeWriters == {a, b, c}
=============================================================================
