---------------------------- MODULE MCTrackStats ----------------------------
(***************************************************************************)
(* Instances of TrackStats for TLC: an audio and a video track.            *)
(***************************************************************************)
EXTENDS TrackStats

CONSTANTS a1, v1

MCTracks == {a1, v1}
MCAudioTracks == {a1}
=============================================================================
