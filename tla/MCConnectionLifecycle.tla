----------------------- MODULE MCConnectionLifecycle -----------------------
(***************************************************************************)
(* Instances of ConnectionLifecycle for TLC.                               *)
(***************************************************************************)
EXTENDS ConnectionLifecycle, FiniteSetsExt, TLC

\* Peers differ only in name; used where no liveness property is checked.
PeerSymmetry == Permutations(Peers)

\* Bound of the run with two peers: one has all its reports if the other does not
\* start, and together they have one less if it does.
FewReports ==
    MapThenSumSet(LAMBDA p : Len(events[p]), Peers) + Cardinality(Started) <= MaxEvents + 1
=============================================================================
