------------------------- MODULE MCCandidateHandoff -------------------------
(* A source bundle, one core and one file of the pin snapshot.             *)
EXTENDS CandidateHandoff

CONSTANTS old, new

SourceAndCore == <<"bundle.tar.gz", "core.so">>
OneSnapshotFile == <<"snapshot.json">>
Old == <<old, old>>
=============================================================================
