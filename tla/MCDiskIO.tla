------------------------------ MODULE MCDiskIO ------------------------------
(* All layouts of up to three files, empty files included.                 *)
EXTENDS DiskIO

SmallLayouts == UNION {[1 .. n -> 0 .. 3] : n \in 1 .. 3}
=============================================================================
