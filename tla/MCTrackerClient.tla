-------------------------- MODULE MCTrackerClient ---------------------------
(* A UDP tracker between one that is not supported and an HTTP tracker.    *)
EXTENDS TrackerClient

ThreeTrackers == <<"other", "udp", "http">>
=============================================================================
