------------------------------ MODULE Escapes ------------------------------
(***************************************************************************)
(* uri_escape and uri_unescape (ext/URI-Escape/nanouri.h), on texts as     *)
(* sequences of bytes.                                                     *)
(***************************************************************************)
EXTENDS Integers, Sequences

CONSTANTS
  Bytes,     \* the bytes texts are made of
  MaxLength  \* bound: length of a text

VARIABLES
  src,      \* what is escaped
  escaped,  \* uri_escape(src)
  back      \* uri_unescape(uri_escape(src))

vars == << src, escaped, back >>

Percent == 37
Zero == 48
Capitals == 65..90
Letters == Capitals \union 97..122
Digits == 48..57

\* Those of nu_uric_map that are 0: the unreserved characters of RFC 2396.
Plain == Letters \union Digits \union {33, 39, 40, 41, 42, 45, 46, 95, 126}

nu_isuric(c) == c \notin Plain

nu_hex_char(n) == IF n < 10 THEN Zero + n ELSE 97 + n - 10

\* A char is signed: >> keeps the sign, the mask takes it off.
Signed(c) == IF c < 128 THEN c ELSE c - 256
High(c) == (Signed(c) \div 16) % 16
Low(c) == Signed(c) % 16

nu_escape_uri(s) ==
  LET dst[i \in 0..Len(s)] ==
        IF i = 0 THEN << >>
        ELSE dst[i-1] \o IF nu_isuric(s[i]) THEN << Percent, nu_hex_char(High(s[i])), nu_hex_char(Low(s[i])) >>
                         ELSE << s[i] >>
  IN  dst[Len(s)]

\* Mutant: only capitals.
CapitalsOnly(c) == IF c \in Digits THEN c - Zero ELSE c - 65 + 10

nu_unhex(c) == IF c \in Digits THEN c - Zero ELSE IF c \in 65..70 THEN c - 65 + 10 ELSE c - 97 + 10

\* A byte 0, and that which ends the text, has no value.  (A text that ends in % makes the code read
\* further than that.)
HexAt(s, n) == IF n > Len(s) \/ s[n] = 0 THEN 0 ELSE nu_unhex(s[n])

nu_unescape_uri(s) ==
  LET dst[i \in 1..Len(s)+3] ==
        IF i > Len(s) THEN << >>
        ELSE IF s[i] = Percent THEN << (HexAt(s, i+1) * 16 + HexAt(s, i+2)) % 256 >> \o dst[i+3]
        ELSE << s[i] >> \o dst[i+1]
  IN  dst[1]

Init == src = << >> /\ escaped = << >> /\ back = << >>

\* The next text.
Next ==
  /\ Len(src) < MaxLength
  /\ \E c \in Bytes : src' = Append(src, c)
  /\ escaped' = nu_escape_uri(src')
  /\ back' = nu_unescape_uri(escaped')

Spec == Init /\ [][Next]_vars

-----------------------------------------------------------------------------
(* Properties. *)

\* nu_escape_uri and nu_unescape_uri (nanouri.h:84-126): every text, the bytes above 127, % and 0
\* included, comes back from its escaped form, which holds plain characters and % only.
ComesBack ==
  /\ back = src
  /\ \A n \in DOMAIN escaped : escaped[n] \in Plain \union {Percent}
=============================================================================
