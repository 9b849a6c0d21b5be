--------------------------------- MODULE Codec ---------------------------------
(***************************************************************************)
(* The builtins of python/thuelang/interpreter.py.  A text is its UTF-8    *)
(* bytes.  An operator named ..Fails says when the builtin raises.         *)
(***************************************************************************)
EXTENDS Ascending, FiniteSetsExt, SequencesExt

Byte == 0 .. 255

Percent == 37
Backslash == 92
Quote == 34

Digit(b) == b \in 48 .. 57
Upper(b) == b \in 65 .. 90
Lower(b) == b \in 97 .. 122

\* What bytes.decode("utf-8") takes, of sequences of one and two bytes.
Utf8(s) ==
    \A i \in DOMAIN s :
        \/ s[i] < 128
        \/ s[i] \in 194 .. 223 /\ i < Len(s) /\ s[i + 1] \in 128 .. 191
        \/ s[i] \in 128 .. 191 /\ i > 1 /\ s[i - 1] \in 194 .. 223

-----------------------------------------------------------------------------
\* PCT.

Safe(b) == Digit(b) \/ Upper(b) \/ Lower(b) \/ b \in {95, 46, 45}

HexDigit(n) == IF n < 10 THEN 48 + n ELSE 55 + n

HexValue(b) == IF Digit(b) THEN b - 48 ELSE b - 55

IsHex(b) == Digit(b) \/ b \in 65 .. 70

\* Mutant: the percent sign stands for itself.
pct_encode_RawPercent(s) ==
    FlattenSeq([i \in DOMAIN s |->
        IF Safe(s[i]) \/ s[i] = Percent THEN <<s[i]>>
        ELSE <<Percent, HexDigit(s[i] \div 16), HexDigit(s[i] % 16)>>])

pct_encode(s) ==
    FlattenSeq([i \in DOMAIN s |->
        IF Safe(s[i]) THEN <<s[i]>>
        ELSE <<Percent, HexDigit(s[i] \div 16), HexDigit(s[i] % 16)>>])

\* Where the scan of _pct_decode stops on its way: behind each safe byte, and
\* behind the two digits of each escape.
PctStarts(s) ==
    LET start[i \in 1 .. Len(s)] ==
            /\ i > 1 => ~(start[i - 1] /\ s[i - 1] = Percent)
            /\ i > 2 => ~(start[i - 2] /\ s[i - 2] = Percent)
    IN  { i \in DOMAIN s : start[i] }

PctByte(s, i) ==
    IF s[i] = Percent THEN 16 * HexValue(s[i + 1]) + HexValue(s[i + 2]) ELSE s[i]

pct_bytes(s) ==
    LET at == Ascending(PctStarts(s))
    IN  [k \in DOMAIN at |-> PctByte(s, at[k])]

\* An escape that is cut short or not two capital hexadecimal digits, an unsafe
\* byte, or bytes that are no text.
pct_decode_Fails(s) ==
    \/ \E i \in PctStarts(s) :
          IF s[i] # Percent THEN ~Safe(s[i])
          ELSE i + 2 > Len(s) \/ ~(IsHex(s[i + 1]) /\ IsHex(s[i + 2]))
    \/ ~Utf8(pct_bytes(s))

-----------------------------------------------------------------------------
\* Escapes of a string literal, inside PCT.

EscapeLetter ==
    [b \in {8, 9, 10, 12, 13, Quote, Backslash} |->
        CASE b = 8 -> 98 [] b = 9 -> 116 [] b = 10 -> 110 [] b = 12 -> 102 [] b = 13 -> 114
          [] OTHER -> b]

Unescaped == [l \in Range(EscapeLetter) |-> CHOOSE b \in DOMAIN EscapeLetter : EscapeLetter[b] = l]

escape_Fails(s) == pct_decode_Fails(s)

\* Mutant: the quotation mark is not escaped.
escape_NoQuote(s) ==
    LET t == pct_bytes(s)
    IN  pct_encode(FlattenSeq([i \in DOMAIN t |->
            IF t[i] \in DOMAIN EscapeLetter \ {Quote, Backslash}
            THEN <<Backslash, EscapeLetter[t[i]]>> ELSE <<t[i]>>]))

escape(s) ==
    LET t == pct_bytes(s)
    IN  pct_encode(FlattenSeq([i \in DOMAIN t |->
            IF t[i] \in DOMAIN EscapeLetter THEN <<Backslash, EscapeLetter[t[i]]>>
            ELSE <<t[i]>>]))

\* The bytes at which the scan of _unescape stands.
EscapeStarts(t) ==
    LET start[i \in 1 .. Len(t)] == i > 1 => ~(start[i - 1] /\ t[i - 1] = Backslash)
    IN  { i \in DOMAIN t : start[i] }

unescape_Fails(s) ==
    \/ pct_decode_Fails(s)
    \/ LET t == pct_bytes(s)
       IN  \E i \in EscapeStarts(t) :
              /\ t[i] = Backslash
              /\ i = Len(t) \/ t[i + 1] \notin DOMAIN Unescaped

unescape(s) ==
    LET t == pct_bytes(s)
        at == Ascending(EscapeStarts(t))
    IN  pct_encode([k \in DOMAIN at |->
            IF t[at[k]] = Backslash THEN Unescaped[t[at[k] + 1]] ELSE t[at[k]]])

\* The places a replacement leaves: all but the second byte of each pair.
PairStarts(t, second) ==
    LET start[i \in 1 .. Len(t)] ==
            i > 1 => ~(start[i - 1] /\ t[i - 1] = Backslash /\ t[i] = second)
    IN  { i \in DOMAIN t : start[i] }

\* str.replace of a backslash and `second`, from the left.
ReplacePair(t, second, by) ==
    LET at == Ascending(PairStarts(t, second))
    IN  [k \in DOMAIN at |->
            IF t[at[k]] = Backslash /\ at[k] < Len(t) /\ t[at[k] + 1] = second
            THEN by ELSE t[at[k]]]

\* Mutant: the backslash is replaced last.
decode_replacement_escapes_Late(t) ==
    ReplacePair(ReplacePair(ReplacePair(ReplacePair(t, 110, 10), 116, 9), 114, 13), 92, 92)

\* The four replacements of _decode_replacement_escapes, the backslash set aside
\* first; 256 stands for the placeholder, which is the word BACKSLASH between two NULs in the
\* code: a right-hand side that holds that text is not modelled.
decode_replacement_escapes(t) ==
    LET u == ReplacePair(ReplacePair(ReplacePair(ReplacePair(t, 92, 256), 110, 10), 116, 9),
                         114, 13)
    IN  [i \in DOMAIN u |-> IF u[i] = 256 THEN Backslash ELSE u[i]]

-----------------------------------------------------------------------------
\* Base64url without padding: four symbols for three bytes.

Alphabet(n) ==
    CASE n < 26 -> 65 + n [] n \in 26 .. 51 -> 71 + n [] n \in 52 .. 61 -> n - 4
      [] n = 62 -> 45 [] OTHER -> 95

Sextet(b) ==
    CASE Upper(b) -> b - 65 [] Lower(b) -> b - 71 [] Digit(b) -> b + 4 [] b = 45 -> 62
      [] OTHER -> 63

ByteAt(s, k) == IF k \in DOMAIN s THEN s[k] ELSE 0

\* Symbol k: six bits of three bytes, which are zero behind the end.
SextetOf(s, k) ==
    LET of(j) == ByteAt(s, 3 * ((k - 1) \div 4) + j)
    IN  CASE k % 4 = 1 -> of(1) \div 4
          [] k % 4 = 2 -> 16 * (of(1) % 4) + (of(2) \div 16)
          [] k % 4 = 3 -> 4 * (of(2) % 16) + (of(3) \div 64)
          [] OTHER -> of(3) % 64

b64url_encode(s) ==
    [k \in 1 .. (8 * Len(s) + 5) \div 6 |-> Alphabet(SextetOf(s, k))]

\* Byte k: eight bits of two symbols; bits that fill no byte are dropped.
b64url_bytes(s) ==
    [k \in 1 .. (6 * Len(s)) \div 8 |->
        LET of(j) == Sextet(s[4 * ((k - 1) \div 3) + j])
        IN  CASE k % 3 = 1 -> 4 * of(1) + (of(2) \div 16)
              [] k % 3 = 2 -> 16 * (of(2) % 16) + (of(3) \div 4)
              [] OTHER -> 64 * (of(3) % 4) + of(4)]

\* Mutant: the text need not be the one its bytes encode to.
b64url_decode_Fails_AnySpelling(s) ==
    \/ \E i \in DOMAIN s : ~(Digit(s[i]) \/ Upper(s[i]) \/ Lower(s[i]) \/ s[i] \in {45, 95})
    \/ Len(s) % 4 = 1
    \/ ~Utf8(b64url_bytes(s))

b64url_decode_Fails(s) ==
    \/ \E i \in DOMAIN s : ~(Digit(s[i]) \/ Upper(s[i]) \/ Lower(s[i]) \/ s[i] \in {45, 95})
    \/ Len(s) % 4 = 1
    \/ ~Utf8(b64url_bytes(s))
    \/ b64url_encode(b64url_bytes(s)) # s

-----------------------------------------------------------------------------
\* Numbers.  A literal is a sign and an integer, a decimal or a fraction.

Literal == [minus : BOOLEAN, kind : {"integer", "decimal", "fraction"}, up : Nat, down : Nat]

\* A decimal up.down has one digit behind its point here.
Numerator(l) ==
    (IF l.minus THEN -1 ELSE 1) * (IF l.kind = "decimal" THEN 10 * l.up + l.down ELSE l.up)

Denominator(l) ==
    CASE l.kind = "integer" -> 1 [] l.kind = "decimal" -> 10 [] OTHER -> l.down

parse_number_Fails(l) == l.kind = "fraction" /\ l.down = 0

Abs(n) == IF n < 0 THEN -n ELSE n

\* Mutant: the fraction is not reduced.
Fraction_Unreduced(n, d) ==
    [num |-> IF d < 0 THEN -n ELSE n, den |-> Abs(d)]

\* Fraction(n, d): lowest terms, positive denominator.
Fraction(n, d) ==
    LET g == Max({ k \in 1 .. Abs(n) + Abs(d) : n % k = 0 /\ Abs(d) % k = 0 })
        s == IF d < 0 THEN -1 ELSE 1
    IN  [num |-> s * (Abs(n) \div g) * (IF n < 0 THEN -1 ELSE 1), den |-> Abs(d) \div g]

parse_number(l) == Fraction(Numerator(l), Denominator(l))

\* The canonical text: a number is printed as the literal of this kind.
format_rational(q) ==
    [minus |-> q.num < 0, kind |-> IF q.den = 1 THEN "integer" ELSE "fraction",
     up |-> Abs(q.num), down |-> IF q.den = 1 THEN 0 ELSE q.den]

Arithmetic == {"add", "sub", "mul", "div", "mod"}
Comparison == {"numeq", "lt", "le", "gt", "ge"}

builtin_Fails(name, x, y) ==
    \/ parse_number_Fails(x) \/ parse_number_Fails(y)
    \/ name \in {"div", "mod"} /\ parse_number(y).num = 0
    \/ /\ name = "mod"
       /\ \E q \in {parse_number(x), parse_number(y)} : q.den # 1 \/ q.num < 0

\* Mutant: the second numerator is not brought to the common denominator.
Computed_OneDenominator(name, a, b) ==
    CASE name = "add" -> Fraction(a.num * b.den + b.num * a.den, a.den * b.den)
      [] name = "sub" -> Fraction(a.num * b.den - b.num, a.den * b.den)
      [] name = "mul" -> Fraction(a.num * b.num, a.den * b.den)
      [] name = "div" -> Fraction(a.num * b.den, a.den * b.num)
      [] OTHER -> Fraction(a.num % b.num, 1)

Computed(name, a, b) ==
    CASE name = "add" -> Fraction(a.num * b.den + b.num * a.den, a.den * b.den)
      [] name = "sub" -> Fraction(a.num * b.den - b.num * a.den, a.den * b.den)
      [] name = "mul" -> Fraction(a.num * b.num, a.den * b.den)
      [] name = "div" -> Fraction(a.num * b.den, a.den * b.num)
      [] OTHER -> Fraction(a.num % b.num, 1)

eval_arithmetic(name, x, y) ==
    format_rational(Computed(name, parse_number(x), parse_number(y)))

eval_comparison(name, x, y) ==
    LET a == parse_number(x)
        b == parse_number(y)
        left == a.num * b.den
        right == b.num * a.den
    IN  CASE name = "numeq" -> left = right
          [] name = "lt" -> left < right [] name = "le" -> left <= right
          [] name = "gt" -> left > right [] OTHER -> left >= right
=============================================================================
