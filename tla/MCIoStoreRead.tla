---------------------------- MODULE MCIoStoreRead ----------------------------
(* Small instances of IoStoreRead for TLC. *)
EXTENDS IoStoreReadProofs, TLC

CONSTANTS t1, t2

TwoThreads == {t1, t2}
\* The whole file, and one that ends where its second block begins: reading
\* that one is refused, and so is seeking the third.
WholeOrCut == {1, LastBlock + 1}
Truncated == {0}
NoCorrupt == {}
OneCorrupt == {LastBlock}
=============================================================================
