---------------------------- MODULE MCThreadPool ----------------------------
(* Small instances of ThreadPool for TLC. *)
EXTENDS ThreadPool

CONSTANTS global, pakchunk0, optional, w1, w2

TwoArchives == {global, pakchunk0}
ThreeArchives == {global, pakchunk0, optional}
OneBad == {optional}
TwoWorkers == {w1, w2}
=============================================================================
