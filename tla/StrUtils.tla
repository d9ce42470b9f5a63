------------------------------ MODULE StrUtils ------------------------------
(***************************************************************************)
(* The string functors of strutils.h / strutils.cpp that the HTTP and URL  *)
(* classes are built on: trim, compare (case-insensitive equality),        *)
(* tokenize (into a list and into a pair), to_string<int> and             *)
(* from_string<int>.  Strings are TLA+ strings; TLC evaluates Len, SubSeq *)
(* and \o on them, and a character is a string of length 1.  Character    *)
(* codes are those of the C locale (ASCII); the strings enumerated are     *)
(* printable ASCII and blanks.                                             *)
(***************************************************************************)
EXTENDS Naturals, Sequences

At(s, i) == SubSeq(s, i, i)

\* The printable ASCII characters of codes 32..95 and 97..126 (the grave
\* accent, 96, cannot be written in a TLA+ string and occurs in no input).
PrintLo == " !\"#$%&'()*+,-./0123456789:;<=>?@ABCDEFGHIJKLMNOPQRSTUVWXYZ[\\]^_"
PrintHi == "abcdefghijklmnopqrstuvwxyz{|}~"

\* The code of each character (blanks and printable ASCII), and of c.
Codes ==
    [c \in {"\t", "\n", "\r"} \cup {At(PrintLo, i) : i \in 1..Len(PrintLo)}
            \cup {At(PrintHi, i) : i \in 1..Len(PrintHi)} |->
        CASE c = "\t" -> 9 [] c = "\n" -> 10 [] c = "\r" -> 13
          [] \E i \in 1..Len(PrintLo) : At(PrintLo, i) = c ->
                 31 + CHOOSE i \in 1..Len(PrintLo) : At(PrintLo, i) = c
          [] OTHER -> 96 + CHOOSE i \in 1..Len(PrintHi) : At(PrintHi, i) = c]
Ord(c) == Codes[c]

Chr(n) == IF n < 96 THEN At(PrintLo, n - 31) ELSE At(PrintHi, n - 96)

\* toupper and tolower in the C locale.
ToUpperC(c) == IF Ord(c) \in 97..122 THEN Chr(Ord(c) - 32) ELSE c
ToLowerC(c) == IF Ord(c) \in 65..90 THEN Chr(Ord(c) + 32) ELSE c

\* string::find_first_of(C) and find_last_of(C): the 1-based position, 0
\* for npos.
FindFirstOf(s, C) ==
    LET I == {i \in 1..Len(s) : At(s, i) \in C}
    IN IF I = {} THEN 0 ELSE CHOOSE i \in I : \A j \in I : i <= j
FindLastOf(s, C) ==
    LET I == {i \in 1..Len(s) : At(s, i) \in C}
    IN IF I = {} THEN 0 ELSE CHOOSE i \in I : \A j \in I : i >= j
Find(s, c) == FindFirstOf(s, {c})

\* trim()'s default delimiters: blank, tab, CR and LF.
Blanks == {" ", "\t", "\r", "\n"}

\* trim()(source): everything before the first and after the last
\* character that is not a delimiter is erased; a string of delimiters
\* only becomes empty.
Trim(s) ==
    LET keep == {i \in 1..Len(s) : At(s, i) \notin Blanks}
    IN IF keep = {} THEN ""
       ELSE SubSeq(s, CHOOSE i \in keep : \A j \in keep : i <= j,
                      CHOOSE i \in keep : \A j \in keep : i >= j)

\* compare()(x, y): equal lengths and equal characters after toupper.
Compare(x, y) ==
    Len(x) = Len(y) /\ \A i \in 1..Len(x) : ToUpperC(At(x, i)) = ToUpperC(At(y, i))

\* http_header::ci_less: lexicographical_compare after tolower.
RECURSIVE CiLess(_, _)
CiLess(x, y) ==
    IF y = "" THEN FALSE
    ELSE IF x = "" THEN TRUE
    ELSE LET a == Ord(ToLowerC(At(x, 1)))
             b == Ord(ToLowerC(At(y, 1)))
         IN a < b \/ (a = b /\ CiLess(SubSeq(x, 2, Len(x)), SubSeq(y, 2, Len(y))))

\* tokenize()(source, delims): the trimmed pieces between delimiters; an
\* empty source gives no tokens, a trailing delimiter a last "".
RECURSIVE Tokenize(_, _)
Tokenize(s, D) ==
    IF s = "" THEN <<>>
    ELSE LET p == FindFirstOf(s, D) IN
         IF p = 0 THEN <<Trim(s)>>
         ELSE <<Trim(SubSeq(s, 1, p - 1))>> \o
              (IF p = Len(s) THEN <<"">> ELSE Tokenize(SubSeq(s, p + 1, Len(s)), D))

\* tokenize()(source, left, right, greedy, delims), as strutils.h
\* declares it and every caller calls it: split at the last delimiter
\* when greedy, at the first otherwise; without a delimiter left is ""
\* and right the whole source.  An empty source leaves the callers'
\* fresh strings empty.  The body in strutils.cpp has no greedy
\* parameter and always splits at the last delimiter.
SplitPair(s, greedy, D) ==
    LET p == IF greedy THEN FindLastOf(s, D) ELSE FindFirstOf(s, D)
    IN IF p = 0 THEN [left |-> "", right |-> s]
       ELSE [left |-> SubSeq(s, 1, p - 1), right |-> SubSeq(s, p + 1, Len(s))]

\* to_string<int>: snprintf("%d") of a non-negative value.
RECURSIVE ToDecimal(_)
ToDecimal(n) ==
    LET d == At("0123456789", (n % 10) + 1)
    IN IF n < 10 THEN d ELSE ToDecimal(n \div 10) \o d

\* Hexadecimal digit characters (isxdigit) and their values.
HexDigits == {At("0123456789abcdef", n) : n \in 1..16} \cup {At("ABCDEF", n) : n \in 1..6}
DigitValue(c) ==
    CHOOSE n \in 0..15 : At("0123456789abcdef", n + 1) = c \/ At("0123456789ABCDEF", n + 1) = c

\* strtol(s, NULL, 0), the body of from_string<int>: base 16 after "0x",
\* base 8 after a leading "0", base 10 otherwise; digits are read up to
\* the first character that is not one of the base.  (Leading blanks and
\* signs do not occur in the strings enumerated.)
StrToL(s) ==
    LET hex == Len(s) > 2 /\ SubSeq(s, 1, 2) \in {"0x", "0X"}
                 /\ At(s, 3) \in HexDigits
        base == IF hex THEN 16 ELSE IF Len(s) > 0 /\ At(s, 1) = "0" THEN 8 ELSE 10
        from == IF hex THEN 3 ELSE 1
        ok(i) == At(s, i) \in HexDigits /\ DigitValue(At(s, i)) < base
        stop == CHOOSE e \in from..(Len(s) + 1) :
                    /\ \A i \in from..(e - 1) : ok(i)
                    /\ e = Len(s) + 1 \/ ~ok(e)
        RECURSIVE Val(_)
        Val(i) == IF i < from THEN 0 ELSE Val(i - 1) * base + DigitValue(At(s, i))
    IN Val(stop - 1)

\* format::operator%(x): the stream output of x is appended to params_
\* (a string as it is, an int in decimal).
FormatArg(params, x) == Append(params, x)
FormatIntArg(params, n) == FormatArg(params, ToDecimal(n))

\* Mutant: the marker's number is taken as a 1-based position.
FormatParamMut(params, piece) ==
    LET n == StrToL(piece)
    IN IF n \in 1..Len(params) THEN [ok |-> TRUE, text |-> params[n]] ELSE [ok |-> FALSE, text |-> ""]

\* params_[from_string<int>(piece)], where piece is the text between the
\* previous bracket and a '}'; a number past the end of params_ is an
\* unchecked vector index (undefined behaviour, ok = FALSE).
FormatParam(params, piece) ==
    LET n == StrToL(piece)
    IN IF n \in 0..(Len(params) - 1) THEN [ok |-> TRUE, text |-> params[n + 1]]
       ELSE [ok |-> FALSE, text |-> ""]

\* The while loop of format::str from old_pos i, with the result so far:
\* text before a '{' is copied, the text between a bracket and a '}' is a
\* parameter number; the rest after the last bracket is copied.
RECURSIVE FormatFrom(_, _, _, _)
FormatFrom(s, i, params, acc) ==
    LET p == FindFirstOf(SubSeq(s, i, Len(s)), {"{", "}"})
        pos == i + p - 1
        piece == SubSeq(s, i, pos - 1)
    IN IF p = 0 THEN [ok |-> TRUE, text |-> acc \o SubSeq(s, i, Len(s))]
       ELSE IF At(s, pos) = "{" THEN FormatFrom(s, pos + 1, params, acc \o piece)
       ELSE LET r == FormatParam(params, piece)
            IN IF r.ok THEN FormatFrom(s, pos + 1, params, acc \o r.text) ELSE r

\* format::str().
FormatStr(s, params) == FormatFrom(s, 1, params, "")

=============================================================================
