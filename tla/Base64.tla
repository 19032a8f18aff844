------------------------------- MODULE Base64 -------------------------------
(***************************************************************************)
(* pallette/Base64.cpp.  A character of the alphabet is its position in    *)
(* base64_chars; the last two have one form for text and one for URLs.     *)
(***************************************************************************)
EXTENDS Integers, Sequences

CONSTANTS
    Bytes,          \* bound: the byte values encoded
    MaxInput,       \* bound: bytes of an input
    LineLength      \* 64 for PEM, 76 for MIME

ASSUME Base64Assumption == Bytes \subseteq 0..255 /\ LineLength \in Nat \ {0}

\* The URL forms of 62 and 63, the two trailing characters, and the line break
Dash == 64
Underscore == 65
Equal == 66
Dot == 67
Newline == 68

\* base64_chars[url][i] and trailing_char
Char(i, url) == IF url /\ i >= 62 THEN i + 2 ELSE i
Trailing(url) == IF url THEN Dot ELSE Equal

-----------------------------------------------------------------------------
(* A wrong variant: the URL forms are not known to the decoder.             *)

PlainOnly(c) == c % 64

-----------------------------------------------------------------------------
\* pos_of_char(), which takes both forms
PosOfChar(c) == CASE c = Dash -> 62 [] c = Underscore -> 63 [] OTHER -> c

\* base64_encode(): the group of up to three bytes at pos
EncodeGroup(s, pos, url) ==
    LET byte(k) == IF pos + k < Len(s) THEN s[pos + k + 1] ELSE 0
        char(i) == Char(i, url)
    IN  <<char(byte(0) \div 4),
          char((byte(0) % 4) * 16 + byte(1) \div 16),
          IF pos + 1 < Len(s) THEN char((byte(1) % 16) * 4 + byte(2) \div 64) ELSE Trailing(url),
          IF pos + 2 < Len(s) THEN char(byte(2) % 64) ELSE Trailing(url)>>

Encode64(s, url) ==
    [i \in 1..((Len(s) + 2) \div 3) * 4 |->
        EncodeGroup(s, 3 * ((i - 1) \div 4), url)[((i - 1) % 4) + 1]]

-----------------------------------------------------------------------------
\* insert_linebreaks(): a newline at distance, and each distance + 1 after it
InsertLinebreaks(s, distance) ==
    LET breaks == IF s = <<>> THEN 0 ELSE (Len(s) - 1) \div distance
    IN  [i \in 1..(Len(s) + breaks) |->
            IF i % (distance + 1) = 0 THEN Newline ELSE s[i - i \div (distance + 1)]]

\* decode(): the group of four characters at pos
DecodeGroup(s, pos) ==
    LET p(k) == PosOfChar(s[pos + k + 1])
        isTrailing(k) == s[pos + k + 1] \in {Equal, Dot}
        first == (p(0) * 4 + p(1) \div 16) % 256
        second == ((p(1) % 16) * 16 + p(2) \div 4) % 256
        third == ((p(2) % 4) * 64 + p(3)) % 256
    IN  CASE isTrailing(2) -> <<first>>
          [] ~isTrailing(2) /\ isTrailing(3) -> <<first, second>>
          [] OTHER -> <<first, second, third>>

Decode64(s) ==
    LET upTo[n \in 0..(Len(s) \div 4)] ==
            IF n = 0 THEN <<>> ELSE upTo[n - 1] \o DecodeGroup(s, 4 * (n - 1))
    IN  upTo[Len(s) \div 4]

\* decode() with remove_linebreaks: every newline is erased first
EraseLinebreaks(s) ==
    LET upTo[n \in 0..Len(s)] ==
            IF n = 0 THEN <<>>
            ELSE IF s[n] = Newline THEN upTo[n - 1] ELSE Append(upTo[n - 1], s[n])
    IN  upTo[Len(s)]

DecodeLines(s) == Decode64(EraseLinebreaks(s))

-----------------------------------------------------------------------------
VARIABLE plain      \* the string to encode

Base64Init == plain = <<>>

AddByte == /\ Len(plain) < MaxInput
           /\ \E b \in Bytes : plain' = Append(plain, b)

Base64Spec == Base64Init /\ [][AddByte]_plain

-----------------------------------------------------------------------------
\* Every string is decoded from each of its encodings, plain, for URLs and with
\* line breaks, whatever its length modulo three; the alphabets are kept apart,
\* and no line is empty or longer than the line length.
DecodeInvertsEncode ==
    LET text == Encode64(plain, FALSE)
        url == Encode64(plain, TRUE)
        lines == InsertLinebreaks(text, LineLength)
        isBreak(i) == i \in {0, Len(lines) + 1} \/ lines[i] = Newline
    IN  /\ Decode64(text) = plain /\ Decode64(url) = plain
        /\ DecodeLines(lines) = plain
        /\ \A i \in DOMAIN text : text[i] \notin {Dash, Underscore, Dot}
        /\ \A i \in DOMAIN url : url[i] \notin {62, 63, Equal}
        /\ \A i \in 0..Len(lines) : isBreak(i) /\ lines # <<>> =>
               /\ ~isBreak(i + 1)
               /\ \E j \in 1..LineLength + 1 : i + j <= Len(lines) + 1 /\ isBreak(i + j)

=============================================================================
