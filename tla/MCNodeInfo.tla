------------------------------ MODULE MCNodeInfo ------------------------------
(***************************************************************************)
(* NodeInfo for model checking: the search order of the CSI plugin, and a  *)
(* volume of each kind on a node with two slots.                           *)
(***************************************************************************)
EXTENDS NodeInfo

MCOrder == <<"metadataService", "configDrive">>
MCKind == [v \in Volumes |-> v]

==============================================================================
