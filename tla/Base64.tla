------------------------------- MODULE Base64 -------------------------------
(***************************************************************************)
(* dbp::codec::codec_base64 (codec_base64.cpp): encode reads the input    *)
(* stream three bytes at a time and writes four characters of the RFC 1113 *)
(* alphabet, padding with '=', and ends a line after linesize / 4 blocks   *)
(* and at the end of the input; decode skips every character outside the *)
(* alphabet ('=' and line ends included) and turns each group of four     *)
(* into len - 1 bytes.  Streams are sequences of byte values; endl is 10. *)
(***************************************************************************)
EXTENDS Naturals, Sequences

CONSTANT LineBlocks     \* linesize / 4: blocks per output line (18 in the code)

NL == 10
Pad == 61               \* '='

Min2(a, b) == IF a < b THEN a ELSE b

\* cb64[i]: 'A'..'Z', 'a'..'z', '0'..'9', '+', '/'.
Cb64(i) ==
    CASE i < 26 -> 65 + i
      [] i < 52 -> 97 + i - 26
      [] i < 62 -> 48 + i - 52
      [] i = 62 -> 43
      [] OTHER  -> 47

\* Mutant: the third character drops the top bits of the third byte.
EncodeBlockMut(b, len) ==
    LET in(i) == IF i <= len THEN b[i] ELSE 0
    IN << Cb64(in(1) \div 4),
          Cb64((in(1) % 4) * 16 + in(2) \div 16),
          IF len > 1 THEN Cb64((in(2) % 16) * 4) ELSE Pad,
          IF len > 2 THEN Cb64(in(3) % 64) ELSE Pad >>

\* encodeblock: the three bytes (missing ones are 0) as four sextets; the
\* third and fourth characters are '=' when len is below 2 and 3.
EncodeBlock(b, len) ==
    LET in(i) == IF i <= len THEN b[i] ELSE 0
    IN << Cb64(in(1) \div 4),
          Cb64((in(1) % 4) * 16 + in(2) \div 16),
          IF len > 1 THEN Cb64((in(2) % 16) * 4 + in(3) \div 64) ELSE Pad,
          IF len > 2 THEN Cb64(in(3) % 64) ELSE Pad >>

RECURSIVE Encode64From(_, _)

\* Mutant: a line ends only after more than LineBlocks blocks.
Encode64FromMut(s, blocks) ==
    LET n == Min2(3, Len(s))
        eof == Len(s) < 3
        b1 == IF n > 0 THEN blocks + 1 ELSE blocks
        nl == b1 > LineBlocks \/ eof
        out == (IF n > 0 THEN EncodeBlock(SubSeq(s, 1, n), n) ELSE <<>>)
               \o (IF nl /\ b1 > 0 THEN <<NL>> ELSE <<>>)
    IN IF eof THEN out
       ELSE out \o Encode64From(SubSeq(s, 4, Len(s)), IF nl THEN 0 ELSE b1)

\* codec_base64::encode: each pass of the loop reads up to three bytes;
\* eof is set when a read fails, that is when fewer than three were left.
\* A line ends after LineBlocks blocks, or at eof when it holds any.
Encode64From(s, blocks) ==
    LET n == Min2(3, Len(s))
        eof == Len(s) < 3
        b1 == IF n > 0 THEN blocks + 1 ELSE blocks
        nl == b1 >= LineBlocks \/ eof
        out == (IF n > 0 THEN EncodeBlock(SubSeq(s, 1, n), n) ELSE <<>>)
               \o (IF nl /\ b1 > 0 THEN <<NL>> ELSE <<>>)
    IN IF eof THEN out
       ELSE out \o Encode64From(SubSeq(s, 4, Len(s)), IF nl THEN 0 ELSE b1)

Encode64(s) == Encode64From(s, 0)

\* cd64, then "- 61" and "- 1": the sextet of a character of the alphabet;
\* every other character (bytes outside 43..122 and the '$' entries of
\* cd64, '=' among them) reads as 0 and is skipped.
InAlphabet(c) == c \in (65..90) \cup (97..122) \cup (48..57) \cup {43, 47}
Sextet(c) == CHOOSE i \in 0..63 : Cb64(i) = c

\* decodeblock: three bytes from four sextets, each truncated to a byte.
DecodeBlock(q) ==
    << (q[1] * 4 + q[2] \div 16) % 256,
       (q[2] * 16 + q[3] \div 4) % 256,
       (q[3] % 4) * 64 + q[4] >>

RECURSIVE Decode64From(_, _)

\* Mutant: a short group at eof gives len bytes instead of len - 1.
Decode64FromMut(s, group) ==
    IF s = <<>>
    THEN IF group = <<>> THEN <<>>
         ELSE SubSeq(DecodeBlock(group \o [i \in 1..(4 - Len(group)) |-> 0]),
                     1, Len(group))
    ELSE IF ~InAlphabet(Head(s)) THEN Decode64From(Tail(s), group)
    ELSE LET g == Append(group, Sextet(Head(s))) IN
         IF Len(g) = 4 THEN DecodeBlock(g) \o Decode64From(Tail(s), <<>>)
         ELSE Decode64From(Tail(s), g)

\* codec_base64::decode: characters outside the alphabet are skipped; a
\* group ends after four sextets or at eof, and a group of len sextets
\* (the missing ones 0) gives its first len - 1 bytes.
Decode64From(s, group) ==
    IF s = <<>>
    THEN IF group = <<>> THEN <<>>
         ELSE SubSeq(DecodeBlock(group \o [i \in 1..(4 - Len(group)) |-> 0]),
                     1, Len(group) - 1)
    ELSE IF ~InAlphabet(Head(s)) THEN Decode64From(Tail(s), group)
    ELSE LET g == Append(group, Sextet(Head(s))) IN
         IF Len(g) = 4 THEN DecodeBlock(g) \o Decode64From(Tail(s), <<>>)
         ELSE Decode64From(Tail(s), g)

Decode64(s) == Decode64From(s, <<>>)

-----------------------------------------------------------------------------
(* Reference: RFC 4648 base64 without line breaks, from the bit string.    *)

RECURSIVE Bits(_)
Bits(s) ==
    IF s = <<>> THEN <<>>
    ELSE [i \in 1..8 |-> (Head(s) \div (2 ^ (8 - i))) % 2] \o Bits(Tail(s))

RECURSIVE Chars(_)
Chars(bits) ==
    IF bits = <<>> THEN <<>>
    ELSE LET six == SubSeq(bits \o <<0, 0, 0, 0, 0>>, 1, 6)
             v == six[1]*32 + six[2]*16 + six[3]*8 + six[4]*4 + six[5]*2 + six[6]
         IN <<Cb64(v)>> \o Chars(SubSeq(bits, 7, Len(bits)))

RefBase64(s) ==
    LET c == Chars(Bits(s))
    IN c \o [i \in 1..((4 - (Len(c) % 4)) % 4) |-> Pad]

\* The encoder's output with its line ends removed.
Unwrapped(s) == SelectSeq(s, LAMBDA c : c # NL)
=============================================================================
