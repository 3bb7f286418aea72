----------------------------- MODULE MCSignaling -----------------------------
(***************************************************************************)
(* Instance of Signaling for TLC.  The best track of the first message is  *)
(* at the target and has the index that the tracker starts with; in the    *)
(* second every track is above it, two are tied for the lowest, and the    *)
(* one at the target has another codec, as has every track of the third.   *)
(***************************************************************************)
EXTENDS Signaling

Track(idx, height, codec, type) == [idx |-> idx, height |-> height, codec |-> codec, type |-> type]

MCOffers == {
    {Track(0, 2, "H264", "video"), Track(1, 1, "H264", "video"), Track(9, 0, "opus", "audio")},
    {Track(2, 3, "H264", "video"), Track(3, 3, "H264", "video"), Track(0, 2, "VP8", "video")},
    {Track(0, 2, "VP8", "video")}}
=============================================================================
