-------------------------------- MODULE Uuid --------------------------------
(***************************************************************************)
(* dbp::uuid (uuid.h, uuid.cpp): a value of 16 unsigned bytes, its text   *)
(* form, its parsing and its order.  A uuid is the sequence of its bytes  *)
(* (0..255); its text is a TLA+ string.                                   *)
(***************************************************************************)
EXTENDS Naturals, Sequences, SequencesExt, StrUtils

\* uuid::size.
UuidSize == 16

\* clear(): every byte 0.
UuidClear == [i \in 1..UuidSize |-> 0]

\* empty(): every byte is 0.
UuidEmpty(d) == \A i \in 1..UuidSize : d[i] = 0

\* operator==: std::equal over the bytes.
UuidEqual(a, b) == \A i \in 1..UuidSize : a[i] = b[i]

\* Mutant: the bytes compared as signed chars.
SignedByte(x) == IF x >= 128 THEN x - 256 ELSE x
UuidLessMut(a, b) ==
    \E i \in 1..UuidSize : SignedByte(a[i]) < SignedByte(b[i]) /\ \A j \in 1..(i - 1) : a[j] = b[j]

\* operator<: std::lexicographical_compare over the unsigned bytes.
UuidLess(a, b) ==
    \E i \in 1..UuidSize : a[i] < b[i] /\ \A j \in 1..(i - 1) : a[j] = b[j]

\* operator>, <=, >= and != as uuid.h defines them from < and ==.
UuidGreater(a, b) == UuidLess(b, a)
UuidLessEq(a, b) == ~UuidLess(b, a)
UuidGreaterEq(a, b) == ~UuidLess(a, b)
UuidNotEqual(a, b) == ~UuidEqual(a, b)

\* The two lower-case hex digits setw(2), setfill('0') and hex write for
\* a byte.
HexByte(x) == At("0123456789abcdef", (x \div 16) + 1) \o At("0123456789abcdef", (x % 16) + 1)

\* str(): the bytes in hex, a '-' after the 4th, 6th, 8th and 10th.
UuidStr(d) ==
    FoldLeft(LAMBDA acc, i : acc \o HexByte(d[i]) \o (IF i \in {4, 6, 8, 10} THEN "-" ELSE ""),
             "", [i \in 1..UuidSize |-> i])

\* strtol(buf, NULL, 16) of one or two hex digits.
HexValue(buf) == IF Len(buf) = 1 THEN DigitValue(buf) ELSE 16 * DigitValue(At(buf, 1)) + DigitValue(At(buf, 2))

\* The loop of assign from position i, with the digits buffered, the
\* next byte j and the bytes so far: characters that are not hex digits
\* are skipped, every two digits make a byte, and the sixteenth byte ends
\* the loop.  A digit left over at the end is the value of the next byte.
RECURSIVE AssignFrom(_, _, _, _, _)
AssignFrom(s, i, buf, j, d) ==
    IF i > Len(s)
    THEN IF buf # "" THEN [d EXCEPT ![j] = HexValue(buf)] ELSE d
    ELSE IF At(s, i) \notin HexDigits THEN AssignFrom(s, i + 1, buf, j, d)
    ELSE LET b == buf \o At(s, i)
         IN IF Len(b) < 2 THEN AssignFrom(s, i + 1, b, j, d)
            ELSE LET d2 == [d EXCEPT ![j] = HexValue(b)]
                 IN IF j + 1 > UuidSize THEN d2 ELSE AssignFrom(s, i + 1, "", j + 1, d2)

\* assign(value): clear(), then the loop; also uuid(string) and
\* operator>>.
UuidAssign(s) == AssignFrom(s, 1, "", 1, UuidClear)

\* generate(): the first 4 bytes of time_t t as they lie in memory
\* (little-endian), then rand() % 0xFF for each of the 12 others, rs
\* being the values rand() returns.
UuidGenerate(t, rs) ==
    [i \in 1..UuidSize |-> IF i <= 4 THEN (t \div (2 ^ (8 * (i - 1)))) % 256
                           ELSE rs[i - 4] % 255]
=============================================================================
