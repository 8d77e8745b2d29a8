---------------------------- MODULE MCHubPackets ----------------------------
(* The module the TLC runs of HubPackets start from.                         *)
EXTENDS HubPackets

=============================================================================
