------------------------------ MODULE MCMountVfs ------------------------------
(* Small instances of MountVfs for TLC. *)
EXTENDS MountVfs, TLC

CONSTANTS global, pakchunk0, uasset, umap, Skin, Lobby

TwoArchives == {global, pakchunk0}
F(p, e, n) == [path |-> p, ext |-> e, toc |-> n]

\* A path in both archives, at different indexes; more threads than files in
\* one, a remainder in the other.
SharedPath ==
  (global :> <<F(Skin, uasset, 1)>>)
    @@ (pakchunk0 :> <<F(Skin, uasset, 0), F(Lobby, umap, 1), F(Lobby, uasset, 2)>>)
===============================================================================
