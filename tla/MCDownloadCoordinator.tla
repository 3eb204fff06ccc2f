----------------------- MODULE MCDownloadCoordinator ------------------------
(* Instances of DownloadCoordinator for TLC.                               *)
EXTENDS DownloadCoordinator

CONSTANTS p1, p2, p3

\* Every peer has something to give.
AnyBitfield == SUBSET Piece \ {{}}
SeedBitfield == {Piece}
\* A seed, and a peer that has only the first piece.
TwoBitfields == {{0}, Piece}
=============================================================================
