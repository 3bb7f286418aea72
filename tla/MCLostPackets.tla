---------------------------- MODULE MCLostPackets ----------------------------
(***************************************************************************)
(* Instance of LostPackets for TLC.                                        *)
(***************************************************************************)
EXTENDS LostPackets
=============================================================================
