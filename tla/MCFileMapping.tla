---------------------------- MODULE MCFileMapping ----------------------------
(* Small instances of FileMapping for TLC. *)
EXTENDS FileMapping, TLC

CONSTANTS handle1, handle2, Ar

ThreeReaders == {handle1, handle2, Ar}
OneOrTwo == {1, 2}
Symmetry == Permutations(ThreeReaders)
===============================================================================
