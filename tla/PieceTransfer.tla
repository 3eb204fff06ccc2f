---------------------------- MODULE PieceTransfer ---------------------------
(***************************************************************************)
(* What the download side of the engine promises, without peers, requests  *)
(* or connections: blocks are collected, each one once, until a piece has  *)
(* all of them; then the piece is obtained or all of it is thrown away.    *)
(* No other event loses a block, an obtained piece or a byte on disk.      *)
(* DownloadCoordinator implements this specification.                      *)
(***************************************************************************)
EXTENDS Integers

CONSTANTS
    Piece,       \* the pieces of the torrent
    BlockId      \* pairs of a piece and the offset of a block in it

VARIABLES
    have,        \* the pieces obtained
    held,        \* the blocks collected of the other pieces
    disk         \* what the output files hold, piece by piece

BlocksOf(i) == {r \in BlockId : r[1] = i}

Init ==
    /\ have = {}
    /\ held = {}
    /\ disk = [i \in Piece |-> "blank"]

Collect(r) ==
    /\ r[1] \notin have
    /\ r \notin held
    /\ held' = held \cup {r}
    /\ UNCHANGED <<have, disk>>

\* One block of piece i is still to come.
OneMissing(i) == \E r \in BlockId : BlocksOf(i) \ held = {r}

\* It comes, and the piece is right; a failing write leaves the disk alone.
Obtain(i) ==
    /\ i \notin have /\ OneMissing(i)
    /\ have' = have \cup {i}
    /\ held' = held \ BlocksOf(i)
    /\ disk' \in {disk, [disk EXCEPT ![i] = "good"]}

\* It comes, and the piece is wrong.
Discard(i) ==
    /\ i \notin have /\ OneMissing(i)
    /\ held' = held \ BlocksOf(i)
    /\ UNCHANGED <<have, disk>>

Next ==
    \/ \E r \in BlockId : Collect(r)
    \/ \E i \in Piece : Obtain(i) \/ Discard(i)

Spec == Init /\ [][Next]_<<have, held, disk>>
=============================================================================
