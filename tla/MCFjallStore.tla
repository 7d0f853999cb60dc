---------------------------- MODULE MCFjallStore ----------------------------
(***************************************************************************)
(* FjallStore for TLC.  The DIDs of the runs have distinct directories, as *)
(* every did:plc has; a directory goes by the name of its DID.             *)
(***************************************************************************)
EXTENDS FjallStore

MCDir == Did
MCDirOf == [d \in Did |-> d]
=============================================================================
