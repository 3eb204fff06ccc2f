------------------------------- MODULE DiskIO -------------------------------
(***************************************************************************)
(* The disk writer, code/src/disk_io.cpp, as main.cpp drives it: files are *)
(* preallocated, completed pieces are written across the files they        *)
(* overlap, and at the end every piece is read back and verified.          *)
(*                                                                         *)
(* The right byte at global offset g of the torrent is represented by g    *)
(* itself, so a byte in the wrong place is a wrong byte.                   *)
(***************************************************************************)
EXTENDS Integers, SequencesExt

CONSTANTS
    PieceLength,       \* metadata_.piece_length
    Layouts,           \* the lists of file lengths a torrent may have
    OldLengths,        \* lengths of the files found in the output directory
    MayFail            \* may opening or writing a file fail?

ASSUME DiskAssumption ==
    /\ PieceLength \in Nat \ {0}
    /\ Layouts \subseteq Seq(Nat)
    /\ OldLengths \subseteq Nat
    /\ MayFail \in BOOLEAN

VARIABLES
    layout,            \* metadata_.files: the length of each file
    content,           \* what each file holds
    thread,            \* program counter
    attempted,         \* the pieces write_piece was called for
    written,           \* ... and returned from
    lost,              \* those with bytes lost when a file was closed (ghost)
    unreadable,        \* the pieces the final validation could not read
    report             \* what the final validation printed

vars == <<layout, content, thread, attempted, written, lost, unreadable, report>>

Zero == -1             \* a byte no piece was written to
Old == -2              \* a byte of a file that existed before

----------------------------------------------------------------------------
(* The layout: files one after the other, cut into pieces.                 *)

File == DOMAIN layout

\* file.offset, as torrent parsing accumulates it; one entry past the last
\* file is the total length.
Start ==
    LET start[k \in 1 .. Len(layout) + 1] ==
            IF k = 1 THEN 0 ELSE start[k - 1] + layout[k - 1]
    IN  start

TotalLength == Start[Len(layout) + 1]
NumPieces == (TotalLength + PieceLength - 1) \div PieceLength
Piece == 0 .. NumPieces - 1

PieceSize(i) ==
    IF i = NumPieces - 1 THEN TotalLength - (NumPieces - 1) * PieceLength
                         ELSE PieceLength

\* Mutant: a file that begins inside the piece is taken to be past it.
Overlaps_FromInside(i, k) ==
    LET first == i * PieceLength
    IN  first >= Start[k] /\ first < Start[k] + layout[k]

\* The overlap test of write_piece and read_piece.
Overlaps(i, k) ==
    LET first == i * PieceLength
    IN  ~(first + PieceSize(i) <= Start[k] \/ first >= Start[k] + layout[k])

Larger(a, b) == IF a >= b THEN a ELSE b
Smaller(a, b) == IF a <= b THEN a ELSE b

OverlapStart(i, k) == Larger(i * PieceLength, Start[k])

OverlapEnd(i, k) == Smaller(i * PieceLength + PieceSize(i), Start[k] + layout[k])

OffsetInFile(i, k) == OverlapStart(i, k) - Start[k]
OffsetInData(i, k) == OverlapStart(i, k) - i * PieceLength
OverlapLength(i, k) == OverlapEnd(i, k) - OverlapStart(i, k)

\* The bytes of piece i, verified by the time it is written.
PieceData(i) == [x \in 1 .. PieceSize(i) |-> i * PieceLength + x - 1]

----------------------------------------------------------------------------
(* Files.  A write past the end of a file extends it, with zeros in a gap. *)

Resized(s, n) == [x \in 1 .. n |-> IF x <= Len(s) THEN s[x] ELSE Zero]

\* s after n bytes of data, from offset "from" on, are written at offset "at".
Overwritten(s, at, data, from, n) ==
    [x \in 1 .. Larger(Len(s), at + n) |->
        IF x > at /\ x <= at + n THEN data[from + x - at]
        ELSE IF x <= Len(s) THEN s[x] ELSE Zero]

Idle == [pc |-> "idle"]
Exit == [pc |-> "exit"]
Allocating(k) == [pc |-> "alloc", file |-> k]
Writing(i, k) == [pc |-> "write", piece |-> i, file |-> k]

\* preallocate_files, one file at a time: created if missing, then resized.
AllocateFile ==
    /\ thread.pc = "alloc"
    /\ thread.file \in File
    /\ content' = [content EXCEPT ![thread.file] =
                      Resized(content[thread.file], layout[thread.file])]
    /\ thread' = Allocating(thread.file + 1)
    /\ UNCHANGED <<layout, attempted, written, lost, unreadable, report>>

AllocateDone ==
    /\ thread.pc = "alloc"
    /\ thread.file \notin File
    /\ thread' = Idle
    /\ UNCHANGED <<layout, content, attempted, written, lost, unreadable, report>>

\* A file cannot be created or resized: main returns.
AllocateFails ==
    /\ thread.pc = "alloc"
    /\ thread.file \in File
    /\ MayFail
    /\ thread' = Exit
    /\ UNCHANGED <<layout, content, attempted, written, lost, unreadable, report>>

\* on_piece_completed calls write_piece, once for each piece.
StartWrite(i) ==
    /\ thread = Idle
    /\ report = "none"
    /\ i \notin attempted
    /\ attempted' = attempted \cup {i}
    /\ thread' = Writing(i, 1)
    /\ UNCHANGED <<layout, content, written, lost, unreadable, report>>

WriteFile ==
    LET i == thread.piece
        k == thread.file
    IN  /\ thread.pc = "write"
        /\ k \in File
        /\ content' = IF Overlaps(i, k)
                      THEN [content EXCEPT ![k] =
                              Overwritten(content[k], OffsetInFile(i, k),
                                          PieceData(i), OffsetInData(i, k),
                                          OverlapLength(i, k))]
                      ELSE content
        /\ thread' = Writing(i, k + 1)
        /\ UNCHANGED <<layout, attempted, written, lost, unreadable, report>>

\* Opening or writing fails after n bytes; main logs the exception and goes
\* on, with the piece marked completed.
WriteFails ==
    LET i == thread.piece
        k == thread.file
    IN  /\ thread.pc = "write"
        /\ k \in File
        /\ MayFail /\ Overlaps(i, k)
        /\ \E n \in 0 .. OverlapLength(i, k) :
             content' = [content EXCEPT ![k] =
                            Overwritten(content[k], OffsetInFile(i, k),
                                        PieceData(i), OffsetInData(i, k), n)]
        /\ thread' = Idle
        /\ UNCHANGED <<layout, attempted, written, lost, unreadable, report>>

\* Bytes that fit in the stream's buffer reach the file when the stream is
\* destroyed, after the last check: if that fails, nobody notices.
FlushFails ==
    LET i == thread.piece
        k == thread.file
    IN  /\ thread.pc = "write"
        /\ k \in File
        /\ MayFail /\ Overlaps(i, k)
        /\ \E n \in 0 .. OverlapLength(i, k) - 1 :
             content' = [content EXCEPT ![k] =
                            Overwritten(content[k], OffsetInFile(i, k),
                                        PieceData(i), OffsetInData(i, k), n)]
        /\ lost' = lost \cup {i}
        /\ thread' = Writing(i, k + 1)
        /\ UNCHANGED <<layout, attempted, written, unreadable, report>>

WriteDone ==
    /\ thread.pc = "write"
    /\ thread.file \notin File
    /\ written' = written \cup {thread.piece}
    /\ thread' = Idle
    /\ UNCHANGED <<layout, content, attempted, lost, unreadable, report>>

----------------------------------------------------------------------------
(* Reading back.                                                           *)

\* read_piece: the byte at position x comes from the last file of the list
\* whose overlap holds it; where there is none the buffer stays zero.
read_piece(i) ==
    [x \in 1 .. PieceSize(i) |->
        LET holds(k) == /\ Overlaps(i, k)
                        /\ x > OffsetInData(i, k)
                        /\ x <= OffsetInData(i, k) + OverlapLength(i, k)
            from == {k \in File : holds(k)}
        IN  IF from = {} THEN Zero
            ELSE LET k == CHOOSE j \in from : \A l \in from : l <= j
                     at == OffsetInFile(i, k) + x - OffsetInData(i, k)
                 IN  IF at <= Len(content[k]) THEN content[k][at] ELSE Zero]

\* Mutant: a piece is taken to be fine if any of its bytes is.
verify_piece_FirstByte(i) == read_piece(i)[1] = PieceData(i)[1]

verify_piece(i) == read_piece(i) = PieceData(i)

\* render_progress, once every piece is completed: verify all, and report.
\* A piece with a file that cannot be opened counts as damaged.
Validate ==
    /\ thread = Idle
    /\ report = "none"
    /\ attempted = Piece
    /\ unreadable' \in IF MayFail THEN SUBSET Piece ELSE {{}}
    /\ report' = IF \A i \in Piece : i \notin unreadable' /\ verify_piece(i)
                 THEN "ok" ELSE "corrupt"
    /\ thread' = Exit
    /\ UNCHANGED <<layout, content, attempted, written, lost>>

----------------------------------------------------------------------------
Init ==
    /\ layout \in {s \in Layouts : \E k \in DOMAIN s : s[k] > 0}
    /\ \E old \in [DOMAIN layout -> OldLengths] :
         content = [k \in DOMAIN layout |-> [x \in 1 .. old[k] |-> Old]]
    /\ thread = Allocating(1)
    /\ attempted = {}
    /\ written = {}
    /\ lost = {}
    /\ unreadable = {}
    /\ report = "none"

Next ==
    \/ AllocateFile
    \/ AllocateDone
    \/ AllocateFails
    \/ \E i \in Piece : StartWrite(i)
    \/ WriteFile
    \/ WriteFails
    \/ FlushFails
    \/ WriteDone
    \/ Validate

Spec == Init /\ [][Next]_vars

----------------------------------------------------------------------------
(* Properties.                                                             *)

Allocated == thread.pc \in {"idle", "write"} \/ report # "none"

\* Type correctness: once allocated, every file has exactly its length, and
\* no write ever extends one.
TypeOK ==
    /\ DOMAIN content = File
    /\ \A k \in File : content[k] \in Seq({Zero, Old} \cup 0 .. TotalLength - 1)
    /\ Allocated => \A k \in File : Len(content[k]) = layout[k]
    /\ written \cup lost \subseteq attempted /\ attempted \subseteq Piece
    /\ report \in {"none", "ok", "corrupt"}

\* A byte in a file is never one that belongs elsewhere, whatever the layout
\* and whichever writes failed half-way.
BytesInPlace ==
    \A k \in File : \A x \in DOMAIN content[k] :
        content[k][x] \in {Zero, Old, Start[k] + x - 1}

\* The bytes of piece i on disk, file by file.
OnDisk(i) ==
    \A k \in File : \A x \in 1 .. layout[k] :
        (Start[k] + x - 1) \div PieceLength = i => content[k][x] = Start[k] + x - 1

\* A piece whose write_piece returned is on disk in full, over all the files
\* it spans, and stays there: no later write damages it.  The one exception
\* is a failure to flush when a file is closed.
WrittenIsOnDisk == \A i \in written \ lost : OnDisk(i)

\* The output files are right after any sequence of writes, failed ones too:
\* they have their lengths, no byte is in a wrong place, and no piece that
\* was written is damaged.
FilesCorrect == TypeOK /\ BytesInPlace /\ WrittenIsOnDisk

\* The final report says "ok" exactly when every file is right and could be
\* read: reading back sees every byte of every file, a failed write or flush
\* is noticed, and there is no false alarm.
ReportIsExact ==
    report # "none" =>
        (report = "ok" <=> unreadable = {} /\ \A i \in Piece : OnDisk(i))
=============================================================================
