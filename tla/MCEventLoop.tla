---------------------------- MODULE MCEventLoop -----------------------------
(* Three peers, batches of two.                                            *)
EXTENDS EventLoop

CONSTANTS a, b, c
=============================================================================
