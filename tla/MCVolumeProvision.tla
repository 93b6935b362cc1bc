-------------------------- MODULE MCVolumeProvision --------------------------
(***************************************************************************)
(* Instances of VolumeProvision.  A GiB has two bytes here, so sizes fall  *)
(* on, and between, multiples of it.                                       *)
(***************************************************************************)
EXTENDS VolumeProvision, TLC

CONSTANTS snap, back, disk

MCSourceInfo ==
    (snap :> [kind |-> "snapshot", zone |-> "z1"]) @@
    (back :> [kind |-> "backup",   zone |-> "z2"]) @@
    (disk :> [kind |-> "volume",   zone |-> "z1"])

\* Every source, in its zone and in another one; sizes off and on the unit; zero.
MCRequests ==
    {[bytes |-> 3, zone |-> "z1", from |-> f] : f \in Sources \cup {None}} \cup
    {[bytes |-> 2, zone |-> "z2", from |-> f] : f \in Sources} \cup
    {[bytes |-> 0, zone |-> "z1", from |-> None]}

\* Without a limit, on it, and beyond it.
MCExpansions == {[bytes |-> 5, limit |-> 0], [bytes |-> 7, limit |-> 7], [bytes |-> 9, limit |-> 8]}
==============================================================================
