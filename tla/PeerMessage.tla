---------------------------- MODULE PeerMessage -----------------------------
(***************************************************************************)
(* The peer wire messages, code/src/peer_message.cpp: what serialize puts  *)
(* on the wire and what deserialize makes of the bytes in a receive        *)
(* buffer.  A message is a type, its numbers and the bytes at its end.     *)
(*                                                                         *)
(* A byte has Base values (256 in the code), so that a uint32_t has        *)
(* Base^4.  Reading past the end of the buffer is not modelled: see        *)
(* deserialize.                                                            *)
(***************************************************************************)
EXTENDS Integers, Sequences, SequencesExt

CONSTANT Base

ASSUME BaseAssumption == Base \in Nat /\ Base >= 10

\* enum MessageId.
MessageId == [choke |-> 0, unchoke |-> 1, interested |-> 2, not_interested |-> 3,
              have |-> 4, bitfield |-> 5, request |-> 6, piece |-> 7, cancel |-> 8,
              port |-> 9]

\* The widths of the numbers a message carries, and the types with bytes
\* after them.
Widths(type) ==
    CASE type = "have" -> <<4>>
      [] type = "piece" -> <<4, 4>>
      [] type \in {"request", "cancel"} -> <<4, 4, 4>>
      [] type = "port" -> <<2>>
      [] OTHER -> <<>>

HasTail(type) == type \in {"bitfield", "piece"}

Msg(type, numbers, tail) == [type |-> type, numbers |-> numbers, tail |-> tail]
KeepAlive == Msg("keep_alive", <<>>, <<>>)
NoMsg == Msg("none", <<>>, <<>>)

\* write_uint32_be and write_uint16_be, read_uint32_be and read_uint16_be.
Write(n, width) == [k \in 1 .. width |-> (n \div Base ^ (width - k)) % Base]
Read(bytes) == FoldLeft(LAMBDA n, b : n * Base + b, 0, bytes)

\* The offset of the k-th number behind the message id, and the length of
\* all of them.
Offset(type, k) == FoldLeft(LAMBDA n, w : n + w, 0, SubSeq(Widths(type), 1, k - 1))
Numbers(type) == Offset(type, Len(Widths(type)) + 1)

serialize(m) ==
    IF m.type = "keep_alive" THEN Write(0, 4)
    ELSE LET body == <<MessageId[m.type]>>
                     \o FlattenSeq([k \in DOMAIN m.numbers |->
                                       Write(m.numbers[k], Widths(m.type)[k])])
                     \o m.tail
         IN Write(Len(body), 4) \o body

\* Mutant: longer messages of a fixed size are accepted.
RightLength_AtLeast(type, length) == length >= 1 + Numbers(type)

\* The checks of the length in the cases of deserialize.
RightLength(type, length) ==
    IF HasTail(type) THEN length >= 1 + Numbers(type) ELSE length = 1 + Numbers(type)

\* 4 + length, in 32 bits.
FrameSize(length) == (4 + length) % Base ^ 4

\* Is the whole frame there?
Complete(data, length) == Len(data) >= FrameSize(length)

\* What deserialize returns, with its output parameter.  A frame of Base^4 - 4
\* bytes or more wraps around in FrameSize; the code then reads bytes that are
\* not there, and this definition is not applied to such frames.
deserialize(data) ==
    LET length == Read(SubSeq(data, 1, 4))
        types == {t \in DOMAIN MessageId :
                     SubSeq(data, 5, 5) = <<MessageId[t]>> /\ RightLength(t, length)}
        Decode(t) ==
            Msg(t, [k \in DOMAIN Widths(t) |->
                      Read(SubSeq(data, 6 + Offset(t, k), 5 + Offset(t, k) + Widths(t)[k]))],
                IF HasTail(t) THEN SubSeq(data, 6 + Numbers(t), 4 + length) ELSE <<>>)
    IN IF Len(data) < 4 THEN [consumed |-> 0, msg |-> NoMsg]
       ELSE IF length = 0 THEN [consumed |-> 4, msg |-> KeepAlive]
       ELSE IF ~Complete(data, length) THEN [consumed |-> 0, msg |-> NoMsg]
       ELSE [consumed |-> FrameSize(length),
             msg |-> IF types = {} THEN NoMsg ELSE Decode(CHOOSE t \in types : TRUE)]
=============================================================================
