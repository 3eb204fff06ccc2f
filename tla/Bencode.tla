------------------------------ MODULE Bencode -------------------------------
(***************************************************************************)
(* The bencode parser and encoder, code/src/bencode.cpp.  Input and output *)
(* are sequences of character codes; a value is a record whose only field  *)
(* names its alternative of the variant: int, str, list or dict.  A        *)
(* dictionary is the sequence of its entries in the order of the map.      *)
(*                                                                         *)
(* Everything the parser throws is Fail.  A parse function returns the     *)
(* value and what remains of the input.                                    *)
(***************************************************************************)
EXTENDS Integers, Sequences, SequencesExt

CONSTANTS
    MaxInt,     \* the largest int64_t
    MaxSize     \* the largest size_t

ASSUME BencodeAssumption == MaxInt \in Nat \ {0} /\ MaxSize \in Nat \ {0}

Int64(n) == [int |-> n]
Str(s) == [str |-> s]
List(s) == [list |-> s]
Dict(s) == [dict |-> s]

is_int(v) == "int" \in DOMAIN v
is_string(v) == "str" \in DOMAIN v
is_list(v) == "list" \in DOMAIN v
is_dict(v) == "dict" \in DOMAIN v

Fail == [fail |-> TRUE]
Failed(r) == "fail" \in DOMAIN r
Parsed(v, rest) == [val |-> v, rest |-> rest]

Minus == 45
Zero == 48
Colon == 58
ChD == 100
ChE == 101
ChI == 105
ChL == 108

isdigit(c) == c \in Zero .. Zero + 9

\* Does the input go on with character c?
At(s, c) == s # <<>> /\ s[1] = c

\* The digits that s begins with.
Digits(s) == LET n == CHOOSE n \in 0 .. Len(s) :
                         /\ \A k \in 1 .. n : isdigit(s[k])
                         /\ n < Len(s) => ~isdigit(s[n + 1])
             IN SubSeq(s, 1, n)

Drop(s, n) == SubSeq(s, n + 1, Len(s))

\* Mutant: the digit to come is left out of the overflow check.
Overflows_NoDigit(value, digit, max) == value > max \div 10

\* Would value * 10 + digit exceed max?
Overflows(value, digit, max) == value > (max - digit) \div 10

\* Digits to a number; -1 if it is larger than max.
ToNumber(digits, max) ==
    FoldLeft(LAMBDA value, c :
                 IF value = -1 \/ Overflows(value, c - Zero, max) THEN -1
                 ELSE value * 10 + (c - Zero),
             0, digits)

\* A zero is not followed by another character than the end mark.
LeadingZero(s, end) == s[1] = Zero /\ (Len(s) < 2 \/ s[2] # end)

parse_int(s) ==
    LET negative == At(Drop(s, 1), Minus)
        t == Drop(s, IF negative THEN 2 ELSE 1)
        digits == Digits(t)
        value == ToNumber(digits, MaxInt)
        rest == Drop(t, Len(digits))
    IN IF \/ digits = <<>>
          \/ LeadingZero(t, ChE)
          \/ t[1] = Zero /\ negative
          \/ value = -1
          \/ ~At(rest, ChE)
       THEN Fail
       ELSE Parsed(Int64(IF negative THEN -value ELSE value), Drop(rest, 1))

parse_string(s) ==
    LET digits == Digits(s)
        length == ToNumber(digits, MaxSize)
        rest == Drop(s, Len(digits))
    IN IF \/ digits = <<>>
          \/ LeadingZero(s, Colon)
          \/ length = -1
          \/ ~At(rest, Colon)
          \/ Len(rest) - 1 < length
       THEN Fail
       ELSE Parsed(Str(SubSeq(rest, 2, length + 1)), Drop(rest, length + 1))

\* operator< of string_view.
RECURSIVE Less(_, _)
Less(a, b) ==
    b # <<>> /\ (a = <<>> \/ a[1] < b[1] \/ (a[1] = b[1] /\ Less(Tail(a), Tail(b))))

\* Keys come in strictly increasing order; last is empty or holds the last one.
KeyInOrder(key, last) == last = <<>> \/ Less(last[1], key)

\* Mutant: the span ends before the closing 'e'.
Span_Short(start, rest) == SubSeq(start, 1, Len(start) - Len(rest) - 1)

\* The bytes between two positions of the input.
Span(start, rest) == SubSeq(start, 1, Len(start) - Len(rest))

\* The value of a list or dictionary, once its end has been reached.
AsList(r) == IF Failed(r) THEN Fail ELSE Parsed(List(r.val), r.rest)
AsDict(r) == IF Failed(r) THEN Fail
             ELSE Parsed(Dict([k \in DOMAIN r.val |-> r.val[k].entry]), r.rest)

\* The key of the last entry, as KeyInOrder has it.
LastKey(entries) == IF entries = <<>> THEN <<>> ELSE <<entries[Len(entries)].entry[1]>>

RECURSIVE parse_value(_), parse_items(_, _), more_items(_, _),
          parse_entries(_, _), parse_entry(_, _), more_entries(_, _, _)
parse_value(s) ==
    CASE At(s, ChI) -> parse_int(s)
      [] At(s, ChL) -> AsList(parse_items(Drop(s, 1), <<>>))
      [] At(s, ChD) -> AsDict(parse_entries(Drop(s, 1), <<>>))
      [] s # <<>> /\ isdigit(s[1]) -> parse_string(s)
      [] OTHER -> Fail

\* The loop of parse_list: values up to an 'e'.
parse_items(s, items) ==
    IF s = <<>> THEN Fail
    ELSE IF At(s, ChE) THEN Parsed(items, Drop(s, 1))
    ELSE more_items(parse_value(s), items)

more_items(r, items) ==
    IF Failed(r) THEN Fail ELSE parse_items(r.rest, Append(items, r.val))

\* The loop of parse_dict, and of TorrentMetadata::from_bencode, which has
\* its own copy to learn the bytes each value was parsed from.
parse_entries(s, entries) ==
    IF s = <<>> THEN Fail
    ELSE IF At(s, ChE) THEN Parsed(entries, Drop(s, 1))
    ELSE parse_entry(parse_string(s), entries)

\* After the key, the value.
parse_entry(k, entries) ==
    IF Failed(k) \/ ~KeyInOrder(k.val.str, LastKey(entries)) THEN Fail
    ELSE more_entries(k, parse_value(k.rest), entries)

more_entries(k, r, entries) ==
    IF Failed(r) THEN Fail
    ELSE parse_entries(r.rest, Append(entries, [entry |-> <<k.val.str, r.val>>,
                                                span |-> Span(k.rest, r.rest)]))

\* BencodeParser::parse: one value and nothing after it.
WholeInput(r) == IF Failed(r) \/ r.rest # <<>> THEN Fail ELSE r.val
parse(s) == WholeInput(parse_value(s))

\* std::to_string.
RECURSIVE to_string(_)
to_string(n) ==
    IF n < 0 THEN <<Minus>> \o to_string(-n)
    ELSE IF n < 10 THEN <<Zero + n>>
    ELSE to_string(n \div 10) \o <<Zero + (n % 10)>>

encode_string(s) == to_string(Len(s)) \o <<Colon>> \o s

RECURSIVE encode(_)
encode(v) ==
    CASE is_int(v) -> <<ChI>> \o to_string(v.int) \o <<ChE>>
      [] is_string(v) -> encode_string(v.str)
      [] is_list(v) -> <<ChL>> \o FlattenSeq([k \in DOMAIN v.list |-> encode(v.list[k])])
                              \o <<ChE>>
      [] is_dict(v) -> <<ChD>> \o FlattenSeq([k \in DOMAIN v.dict |->
                                     encode_string(v.dict[k][1]) \o encode(v.dict[k][2])])
                              \o <<ChE>>

\* std::map::find on an entry sequence, and what it finds.
HasKey(entries, key) == \E k \in DOMAIN entries : entries[k][1] = key
ValueAt(entries, key) == entries[CHOOSE k \in DOMAIN entries : entries[k][1] = key][2]
=============================================================================
