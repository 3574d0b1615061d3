------------------------------ MODULE MCIoStoreToc ------------------------------
(* Small instances of IoStoreToc for TLC. *)
EXTENDS IoStoreToc, TLC

\* An empty chunk at offset 0, the target in the middle, a full last block.
FourChunks == <<0, 3, 4, 2>>

\* A directory in a directory, and two side by side; files at every level.
TwoTrees ==
  {[parent |-> 1 :> 0 @@ 2 :> 1, dir |-> 1 :> 0 @@ 2 :> 2 @@ 3 :> 1 @@ 4 :> 2],
   [parent |-> 1 :> 0 @@ 2 :> 0, dir |-> 2 :> 2 @@ 3 :> 1 @@ 4 :> 0]}
=================================================================================
