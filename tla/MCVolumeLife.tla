----------------------------- MODULE MCVolumeLife -----------------------------
(***************************************************************************)
(* VolumeLife for model checking: volumes and nodes are interchangeable.   *)
(***************************************************************************)
EXTENDS VolumeLife, TLC

Symmetry == Permutations(Volumes) \cup Permutations(Nodes)

=============================================================================
