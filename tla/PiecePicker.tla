---------------------------- MODULE PiecePicker -----------------------------
(***************************************************************************)
(* The piece picker: code/src/piece_picker.cpp.  It counts, for every      *)
(* piece, the peers known to have it, and chooses the piece a peer is      *)
(* asked for next: at random during bootstrap, rarest first afterwards.    *)
(* The random generator is a nondeterministic choice from PickSet.         *)
(***************************************************************************)
EXTENDS PieceManager

CONSTANT BootstrapPieces   \* 4 in the code

ASSUME BootstrapAssumption == BootstrapPieces \in Nat

VARIABLE availability      \* availability_histogram_

add_availability(av, i) == [av EXCEPT ![i] = @ + 1]

add_peer_bitfield(av, bf) ==
    [i \in Piece |-> IF i \in bf THEN av[i] + 1 ELSE av[i]]

\* Mutant: the contribution of a peer is never subtracted.
remove_peer_bitfield_Skipped(av, bf) == av

\* The compare-exchange loop decrements a counter only while it is positive.
remove_peer_bitfield(av, bf) ==
    [i \in Piece |-> IF i \in bf /\ av[i] > 0 THEN av[i] - 1 ELSE av[i]]

Candidates(peer_bf, our_bf) == peer_bf \ our_bf

\* Mutant: never leaves the bootstrap phase.
PickSet_AlwaysRandom(av, peer_bf, our_bf) == Candidates(peer_bf, our_bf)

\* The pieces pick_piece may return; it returns nothing when there are none.
PickSet(av, peer_bf, our_bf) ==
    LET cand == Candidates(peer_bf, our_bf)
    IN  IF Cardinality(our_bf) < BootstrapPieces
        THEN cand
        ELSE {i \in cand : \A j \in cand : av[i] <= av[j]}

PiecePickerTypeOK == availability \in [Piece -> Nat]

PiecePickerInit == availability = [i \in Piece |-> 0]
=============================================================================
