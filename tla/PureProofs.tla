------------------------------- MODULE PureProofs -------------------------------
(***************************************************************************)
(* Theorems about the pure functions, for every input.                     *)
(*                                                                         *)
(* Numbers: a fraction in lowest terms has the least denominator of its    *)
(* value, so that equal numbers have one text, and what one builtin does   *)
(* another undoes.                                                         *)
(*                                                                         *)
(* The pull request check, for every base, head and changed files: green   *)
(* means earned, no rise is silent, and the report keeps to one comment.   *)
(* Only the sum over the common problems needs more than the definitions:  *)
(* it is built subset by subset, and grows with each of its terms.         *)
(*                                                                         *)
(* Codecs, for every payload: what PCT, Base64url and `escape` write is    *)
(* read back, and a right-hand side is read once from the left.  A reader  *)
(* is a flattening of the letters at the places it stops at, so the proofs *)
(* are about those places: a writer lays its letters at known offsets, the *)
(* places at which a reader must stop are unique, and they are the         *)
(* offsets.                                                                *)
(*                                                                         *)
(* Rows, for every program: a rule is cut at its operators and joined from *)
(* its parts; an alias is expanded inside a group that no operator leaves, *)
(* so the expanded row is cut where the row was; and what was read of the  *)
(* first n rows is an increasing choice among them.                        *)
(*                                                                         *)
(* At the end, the properties of the runs follow from them: the inputs a   *)
(* behaviour grows are such inputs.                                        *)
(***************************************************************************)
EXTENDS PureFunctions, FiniteSetTheorems, SequenceTheorems, WellFoundedInduction,
        NaturalsInduction, TLAPS

\* Among some numbers one is the least.
LEMMA Least ==
    ASSUME NEW T \in SUBSET Nat, T # {}
    PROVE  \E n \in T : \A m \in T : n <= m
<1> DEFINE R == {ss \in Nat \X Nat : ss[1] < ss[2]}
<1>1. IsWellFoundedOn(R, Nat)
  BY NatLessThanWellFounded DEF OpToRel
<1>2. \A y, x \in Nat : y < x => <<y, x>> \in R
  OBVIOUS
<1> HIDE DEF R
<1>3. T \subseteq Nat
  OBVIOUS
<1>4. \E x \in T : \A y \in T : ~(<<y, x>> \in R)
  BY <1>1, <1>3, WFMin, Zenon
<1>5. PICK x \in T : \A y \in T : ~(<<y, x>> \in R)
  BY <1>4
<1>6. \A y \in T : ~(y < x)
  BY <1>2, <1>3, <1>5
<1>7. QED
  BY <1>3, <1>6


-----------------------------------------------------------------------------
\* Numbers.

\* Products.
LEMMA Commutes == \A a, b \in Int : a * b = b * a /\ a * b \in Int
OBVIOUS
LEMMA Associates == \A a, b, c \in Int : (a * b) * c = a * (b * c)
OBVIOUS
LEMMA Distributes == \A a, b, c \in Int : a * (b + c) = a * b + a * c /\ a * (b - c) = a * b - a * c
OBVIOUS
LEMMA Cancels == \A a, b, c \in Int : c # 0 /\ a * c = b * c => a = b
OBVIOUS
LEMMA Positive == \A a, b \in Int : a > 0 /\ b > 0 => a * b > 0
OBVIOUS
LEMMA Divides == \A n \in Int, k \in Nat \ {0} :
    /\ n \div k \in Int /\ n % k \in 0 .. k - 1
    /\ n = k * (n \div k) + (n % k)
OBVIOUS

\* A multiple of k leaves nothing when k is divided out.
LEMMA Multiple ==
    ASSUME NEW k \in Nat \ {0}, NEW j \in Int
    PROVE  (k * j) % k = 0 /\ (k * j) \div k = j
<1> DEFINE q == (k * j) \div k
           r == (k * j) % k
<1>1. q \in Int /\ r \in 0 .. k - 1 /\ k * j = k * q + r
  <2>1. \A p \in Int : p \div k \in Int /\ p % k \in 0 .. k - 1 /\ p = k * (p \div k) + (p % k)
    BY Divides
  <2>2. k * j \in Int
    OBVIOUS
  <2>3. QED
    BY <2>1, <2>2
<1> HIDE DEF q, r
<1>2. r = k * (j - q)
  BY <1>1, Distributes
<1>3. j = q
  <2>1. CASE j - q >= 1
    <3>1. k * (j - q) >= k
      BY <1>1, <2>1
    <3>2. QED
      BY <1>1, <1>2, <3>1
  <2>2. CASE j - q <= -1
    <3>1. k * (j - q) <= -k
      BY <1>1, <2>2
    <3>2. QED
      BY <1>1, <1>2, <3>1
  <2>3. QED
    BY <1>1, <2>1, <2>2
<1>4. r = 0
  BY <1>1, <1>2, <1>3
<1>5. QED
  BY <1>3, <1>4 DEF q, r

\* Among some numbers with a bound one is the greatest.
LEMMA MaxIsGreatest ==
    ASSUME NEW S \in SUBSET Nat, S # {}, NEW b \in Nat, \A x \in S : x <= b
    PROVE  Max(S) \in S /\ \A x \in S : x <= Max(S)
<1> DEFINE T == { b - x : x \in S }
<1>1. T \in SUBSET Nat /\ T # {}
  <2>1. \A x \in S : b - x \in Nat
    OBVIOUS
  <2>2. QED
    BY <2>1
<1>2. PICK m \in T : \A y \in T : m <= y
  BY <1>1, Least
<1>3. PICK x \in S : m = b - x
  BY <1>2
<1>4. \A y \in S : x >= y
  <2>1. \A y \in S : b - y \in T
    OBVIOUS
  <2> HIDE DEF T
  <2>2. QED
    BY <1>2, <1>3, <2>1
<1>5. Max(S) \in S /\ \A y \in S : Max(S) >= y
  BY <1>3, <1>4 DEF Max
<1>6. QED
  BY <1>5

Rational == [num : Int, den : Nat \ {0}]

\* Nothing but 1 divides both.
Lowest(q) ==
    \A k \in Nat \ {0}, i, j \in Int : q.num = k * i /\ q.den = k * j => k = 1

Divisors(n, d) == { k \in 1 .. Abs(n) + Abs(d) : n % k = 0 /\ Abs(d) % k = 0 }

\* What is left of a multiple of g when g is divided out.
LEMMA DividedOut ==
    ASSUME NEW n \in Int, NEW g \in Nat \ {0}, n % g = 0 \/ Abs(n) % g = 0
    PROVE  Abs(n) \div g \in Nat /\ Abs(n) = g * (Abs(n) \div g)
<1>1. PICK i \in Int : Abs(n) = g * i
  <2>1. CASE n % g = 0
    <3>1. n = g * (n \div g) /\ n \div g \in Int
      BY <2>1, Divides
    <3>2. PICK i \in Int : n = g * i
      BY <3>1
    <3>3. g * (-i) = -(g * i) /\ -i \in Int
      OBVIOUS
    <3>4. QED
      BY <3>2, <3>3 DEF Abs
  <2>2. CASE Abs(n) % g = 0
    <3>1. Abs(n) \in Int
      BY DEF Abs
    <3>2. Abs(n) = g * (Abs(n) \div g) /\ Abs(n) \div g \in Int
      <4>1. \A p \in Int : p % g = 0 => p = g * (p \div g) /\ p \div g \in Int
        BY Divides
      <4>2. QED
        BY <2>2, <3>1, <4>1
    <3>3. QED
      BY <3>2
  <2>3. QED
    BY <2>1, <2>2
<1>2. Abs(n) \div g = i
  BY <1>1, Multiple
<1>3. i >= 0
  <2>1. Abs(n) >= 0
    BY DEF Abs
  <2>2. i < 0 => g * i < 0
    OBVIOUS
  <2>3. QED
    BY <1>1, <2>1, <2>2
<1>4. QED
  BY <1>1, <1>2, <1>3

\* Fraction keeps the value and takes the lowest terms.
LEMMA FractionIsLowest ==
    ASSUME NEW n \in Int, NEW d \in Int, d # 0, NEW q, q = Fraction(n, d)
    PROVE  q \in Rational /\ Lowest(q) /\ q.num * d = n * q.den
<1> DEFINE S == Divisors(n, d)
           g == Max(S)
           u == Abs(n) \div g
           v == Abs(d) \div g
<1>1. Abs(n) \in Nat /\ Abs(d) \in Nat \ {0}
  BY DEF Abs
<1>2. g \in S /\ \A x \in S : x <= g
  <2>1. 1 \in S
    <3>1. n % 1 = 0 /\ Abs(d) % 1 = 0
      BY <1>1
    <3>2. QED
      BY <1>1, <3>1 DEF Divisors
  <2>2. S \in SUBSET Nat /\ \A x \in S : x <= Abs(n) + Abs(d)
    BY <1>1 DEF Divisors
  <2>3. Abs(n) + Abs(d) \in Nat
    BY <1>1
  <2> HIDE DEF S
  <2>4. QED
    BY <2>1, <2>2, <2>3, MaxIsGreatest
<1>3. g \in Nat \ {0} /\ n % g = 0 /\ Abs(d) % g = 0
  BY <1>1, <1>2 DEF Divisors
<1>4. q = [num |-> (IF d < 0 THEN -1 ELSE 1) * u * (IF n < 0 THEN -1 ELSE 1), den |-> v]
  BY DEF Fraction, Divisors
<1> HIDE DEF g
<1>5. u \in Nat /\ Abs(n) = g * u /\ v \in Nat /\ Abs(d) = g * v
  BY <1>3, DividedOut
<1> HIDE DEF u, v
<1>6. v # 0
  BY <1>1, <1>3, <1>5
<1>7. \E s, t \in {-1, 1} : n = t * (g * u) /\ d = s * (g * v) /\ q.num = s * u * t
  <2>1. n = (IF n < 0 THEN -1 ELSE 1) * (g * u)
    BY <1>3, <1>5 DEF Abs
  <2>2. d = (IF d < 0 THEN -1 ELSE 1) * (g * v)
    BY <1>3, <1>5 DEF Abs
  <2>3. QED
    BY <1>4, <2>1, <2>2
<1>8. PICK s, t \in {-1, 1} : n = t * (g * u) /\ d = s * (g * v) /\ q.num = s * u * t
  BY <1>7
<1>9. q.den = v /\ q.num \in Int /\ q \in Rational
  BY <1>4, <1>5, <1>6 DEF Rational
<1>10. q.num * d = n * q.den
  <2>1. (s * u * t) * (s * (g * v)) = (t * (g * u)) * v
    BY <1>3, <1>5
  <2>2. QED
    BY <1>8, <1>9, <2>1
<1>11. Lowest(q)
  <2> SUFFICES ASSUME NEW k \in Nat \ {0}, NEW i \in Int, NEW j \in Int,
                      q.num = k * i, q.den = k * j
               PROVE  k = 1
    BY DEF Lowest
  <2>1. g * k \in Nat \ {0}
    BY <1>3
  <2>2. n % (g * k) = 0
    <3>1. u = s * t * (k * i)
      BY <1>5, <1>8
    <3>2. n = (g * k) * (s * i)
      <4>1. t * (g * (s * t * (k * i))) = (g * k) * (s * i)
        BY <1>3
      <4>2. QED
        BY <1>8, <3>1, <4>1
    <3>3. s * i \in Int
      OBVIOUS
    <3>4. QED
      BY <2>1, <3>2, <3>3, Multiple
  <2>3. Abs(d) = (g * k) * j
    BY <1>3, <1>5, <1>9
  <2>4. Abs(d) % (g * k) = 0
    BY <2>1, <2>3, Multiple
  <2>5. j >= 1
    <3>1. j <= 0 => k * j <= 0
      OBVIOUS
    <3>2. QED
      BY <1>5, <1>6, <1>9, <3>1
  <2>6. g * k <= Abs(d)
    BY <2>1, <2>3, <2>5
  <2>7. g * k \in S
    BY <1>1, <2>1, <2>2, <2>4, <2>6 DEF Divisors
  <2>8. g * k <= g
    BY <1>2, <2>7
  <2>9. QED
    BY <1>3, <2>8
<1>12. QED
  BY <1>9, <1>10, <1>11

\* Lowest terms are those of the least denominator.
LEMMA LowestIsLeast ==
    ASSUME NEW q \in Rational, Lowest(q), NEW m \in Int, NEW e \in Nat \ {0},
           q.num * e = m * q.den
    PROVE  q.den <= e
<1> DEFINE n == q.num
           d == q.den
           T == { f \in Nat \ {0} : \E x \in Int : n * f = x * d }
<1>1. n \in Int /\ d \in Nat \ {0}
  BY DEF Rational
<1>2. e \in T
  OBVIOUS
<1>3. PICK f \in T : \A y \in T : f <= y
  BY <1>2, Least
<1>4. PICK x \in Int : n * f = x * d
  OBVIOUS
<1>5. f \in Nat \ {0} /\ \A r \in Nat \ {0}, y \in Int : n * r = y * d => f <= r
  BY <1>3
<1> HIDE DEF T, n, d
<1> DEFINE k == d \div f
           r == d % f
<1>6. k \in Int /\ r \in 0 .. f - 1 /\ d = f * k + r
  BY <1>1, <1>5, Divides
<1> HIDE DEF k, r
<1>7. n * r = (n - k * x) * d
  <2>1. r = d - f * k
    BY <1>1, <1>5, <1>6
  <2>2. n * r = n * d - n * (f * k)
    BY <1>1, <1>5, <1>6, <2>1
  <2>3. n * (f * k) = (n * f) * k
    BY <1>1, <1>5, <1>6
  <2>4. (x * d) * k = (k * x) * d
    BY <1>1, <1>6
  <2>5. n * d - (k * x) * d = (n - k * x) * d
    BY <1>1, <1>6
  <2>6. QED
    BY <1>4, <2>2, <2>3, <2>4, <2>5
<1>8. r = 0
  <2>1. n - k * x \in Int
    BY <1>1, <1>6
  <2>2. QED
    BY <1>5, <1>6, <1>7, <2>1
<1>9. d = f * k
  BY <1>5, <1>6, <1>8
<1>10. k >= 1
  <2>1. k <= 0 => f * k <= 0
    BY <1>5, <1>6
  <2>2. QED
    BY <1>1, <1>6, <1>9, <2>1
<1>11. n = k * x
  <2>1. n * f = (k * x) * f
    BY <1>4, <1>5, <1>6, <1>9
  <2>2. QED
    BY <1>1, <1>5, <1>6, <2>1
<1>12. k = 1
  <2>1. d = k * f
    BY <1>5, <1>6, <1>9
  <2>2. \A i, j \in Int : n = k * i /\ d = k * j => k = 1
    <3>1. k \in Nat \ {0}
      BY <1>6, <1>10
    <3>2. QED
      BY <3>1 DEF Lowest, n, d
  <2>3. f \in Int /\ x \in Int
    BY <1>5
  <2>4. QED
    BY <1>11, <2>1, <2>2, <2>3
<1>13. QED
  BY <1>2, <1>3, <1>5, <1>9, <1>12 DEF d, T

\* Numbers of one value have one form in lowest terms.
LEMMA LowestIsUnique ==
    ASSUME NEW p \in Rational, Lowest(p), NEW q \in Rational, Lowest(q),
           p.num * q.den = q.num * p.den
    PROVE  p = q
<1>1. /\ p.num \in Int /\ p.den \in Nat \ {0} /\ p = [num |-> p.num, den |-> p.den]
      /\ q.num \in Int /\ q.den \in Nat \ {0} /\ q = [num |-> q.num, den |-> q.den]
  BY DEF Rational
<1>2. p.den <= q.den
  BY <1>1, LowestIsLeast
<1>3. q.den <= p.den
  BY <1>1, LowestIsLeast
<1>4. p.den = q.den
  BY <1>1, <1>2, <1>3
<1>5. p.num = q.num
  BY <1>1, <1>4, Cancels
<1>6. QED
  BY <1>1, <1>4, <1>5

\* Two fractions are the same when they have the same value.
LEMMA SameFraction ==
    ASSUME NEW n \in Int, NEW d \in Int, d # 0, NEW q \in Rational, Lowest(q),
           n * q.den = q.num * d
    PROVE  Fraction(n, d) = q
<1> DEFINE p == Fraction(n, d)
<1>1. p \in Rational /\ Lowest(p) /\ p.num * d = n * p.den
  BY FractionIsLowest
<1> HIDE DEF p
<1>2. p.num \in Int /\ p.den \in Nat \ {0} /\ q.num \in Int /\ q.den \in Nat \ {0}
  BY <1>1 DEF Rational
<1>3. p.num * q.den = q.num * p.den
  <2>1. (p.num * q.den) * d = (n * p.den) * q.den
    BY <1>1, <1>2
  <2>2. (n * q.den) * p.den = (q.num * p.den) * d
    BY <1>2
  <2>3. (p.num * q.den) * d = (q.num * p.den) * d
    BY <1>2, <2>1, <2>2
  <2>4. p.num * q.den \in Int /\ q.num * p.den \in Int
    BY <1>2
  <2>5. QED
    BY <2>3, <2>4, Cancels
<1>4. p = q
  BY <1>1, <1>3, LowestIsUnique
<1>5. QED
  BY <1>4 DEF p

\* A literal that is read is a number in lowest terms.
LEMMA ParsedIsLowest ==
    ASSUME NEW x \in Literal, ~parse_number_Fails(x), NEW q, q = parse_number(x)
    PROVE  q \in Rational /\ Lowest(q)
<1>1. /\ x.up \in Nat /\ x.down \in Nat /\ x.kind \in {"integer", "decimal", "fraction"}
      /\ x.kind = "fraction" => x.down # 0
  BY DEF Literal, parse_number_Fails
<1>2. Numerator(x) \in Int
  BY <1>1 DEF Numerator
<1>3. Denominator(x) \in Int /\ Denominator(x) # 0
  BY <1>1 DEF Denominator
<1>4. QED
  BY <1>2, <1>3, FractionIsLowest DEF parse_number

\* What is written is read as the same number.
LEMMA WrittenIsRead ==
    ASSUME NEW q \in Rational, Lowest(q), NEW l, l = format_rational(q)
    PROVE  /\ l \in Literal /\ ~parse_number_Fails(l) /\ parse_number(l) = q
           /\ l.minus <=> q.num < 0
           /\ l.up = 0 <=> q.num = 0
<1>1. q.num \in Int /\ q.den \in Nat \ {0}
  BY DEF Rational
<1>2. /\ l.kind = IF q.den = 1 THEN "integer" ELSE "fraction"
      /\ l.up = Abs(q.num) /\ l.down = IF q.den = 1 THEN 0 ELSE q.den
  BY DEF format_rational
<1>3. l.minus <=> q.num < 0
  BY DEF format_rational
<1>4. Abs(q.num) \in Nat /\ (Abs(q.num) = 0 <=> q.num = 0)
  BY <1>1 DEF Abs
<1>5. l \in Literal
  <2>1. (q.num < 0) \in BOOLEAN
    BY <1>1
  <2>2. /\ (IF q.den = 1 THEN "integer" ELSE "fraction") \in {"integer", "decimal", "fraction"}
        /\ (IF q.den = 1 THEN 0 ELSE q.den) \in Nat
    BY <1>1
  <2>3. QED
    BY <1>4, <2>1, <2>2, Zenon DEF format_rational, Literal
<1>6. ~parse_number_Fails(l)
  BY <1>1, <1>2 DEF parse_number_Fails
<1>7. Numerator(l) = q.num
  BY <1>1, <1>2, <1>3 DEF Numerator, Abs
<1>8. Denominator(l) = q.den
  BY <1>1, <1>2 DEF Denominator
<1>9. parse_number(l) = q
  BY <1>1, <1>7, <1>8, SameFraction DEF parse_number
<1>10. QED
  BY <1>2, <1>3, <1>4, <1>5, <1>6, <1>9

Canonical(l) == format_rational(parse_number(l))

\* Two literals are numerically equal exactly when they are written as one text.
LEMMA OneText ==
    ASSUME NEW x \in Literal, NEW y \in Literal, ~parse_number_Fails(x), ~parse_number_Fails(y)
    PROVE  /\ parse_number(Canonical(x)) = parse_number(x)
           /\ eval_comparison("numeq", x, y) <=> Canonical(x) = Canonical(y)
<1> DEFINE a == parse_number(x)
           b == parse_number(y)
<1>1. a \in Rational /\ Lowest(a) /\ b \in Rational /\ Lowest(b)
  BY ParsedIsLowest
<1>2. eval_comparison("numeq", x, y) <=> a.num * b.den = b.num * a.den
  BY DEF eval_comparison
<1> HIDE DEF a, b
<1>3. a.num * b.den = b.num * a.den <=> a = b
  BY <1>1, LowestIsUnique
<1>4. parse_number(format_rational(a)) = a /\ parse_number(format_rational(b)) = b
  BY <1>1, WrittenIsRead
<1>5. QED
  BY <1>2, <1>3, <1>4 DEF Canonical, a, b

\* The number a builtin computes is in lowest terms and has the value of its fraction.
LEMMA ComputedIs ==
    ASSUME NEW a \in Rational, NEW b \in Rational, NEW m
    PROVE  /\ m = Computed("add", a, b) =>
                 /\ m \in Rational /\ Lowest(m)
                 /\ m.num * (a.den * b.den) = (a.num * b.den + b.num * a.den) * m.den
           /\ m = Computed("sub", a, b) =>
                 /\ m \in Rational /\ Lowest(m)
                 /\ m.num * (a.den * b.den) = (a.num * b.den - b.num * a.den) * m.den
           /\ m = Computed("mul", a, b) =>
                 /\ m \in Rational /\ Lowest(m)
                 /\ m.num * (a.den * b.den) = (a.num * b.num) * m.den
           /\ m = Computed("div", a, b) /\ b.num # 0 =>
                 /\ m \in Rational /\ Lowest(m)
                 /\ m.num * (a.den * b.num) = (a.num * b.den) * m.den
<1>1. a.num \in Int /\ a.den \in Nat \ {0} /\ b.num \in Int /\ b.den \in Nat \ {0}
  BY DEF Rational
<1>2. a.den * b.den \in Int /\ a.den * b.den # 0 /\ a.den * b.num \in Int
  BY <1>1
<1>3. b.num # 0 => a.den * b.num # 0
  BY <1>1
<1>4. /\ a.num * b.den + b.num * a.den \in Int /\ a.num * b.den - b.num * a.den \in Int
      /\ a.num * b.num \in Int /\ a.num * b.den \in Int
  BY <1>1
<1>5. ASSUME m = Computed("add", a, b) PROVE m = Fraction(a.num * b.den + b.num * a.den, a.den * b.den)
  BY <1>5 DEF Computed
<1>6. ASSUME m = Computed("sub", a, b) PROVE m = Fraction(a.num * b.den - b.num * a.den, a.den * b.den)
  BY <1>6 DEF Computed
<1>7. ASSUME m = Computed("mul", a, b) PROVE m = Fraction(a.num * b.num, a.den * b.den)
  BY <1>7 DEF Computed
<1>8. ASSUME m = Computed("div", a, b) PROVE m = Fraction(a.num * b.den, a.den * b.num)
  BY <1>8 DEF Computed
<1>9. \A n, d \in Int : d # 0 /\ m = Fraction(n, d) =>
          m \in Rational /\ Lowest(m) /\ m.num * d = n * m.den
  BY FractionIsLowest
<1>10. QED
  BY <1>2, <1>3, <1>4, <1>5, <1>6, <1>7, <1>8, <1>9

\* The sign of a difference.
LEMMA Sign ==
    ASSUME NEW n \in Int, NEW k \in Int, k > 0, NEW l \in Int, NEW r \in Int, NEW d \in Int, d > 0,
           n * k = (l - r) * d
    PROVE  (l < r <=> n < 0) /\ (l = r <=> n = 0)
<1>1. CASE l < r
  <2>1. (l - r) * d < 0
    BY <1>1
  <2>2. n >= 0 => n * k >= 0
    OBVIOUS
  <2>3. QED
    BY <1>1, <2>1, <2>2
<1>2. CASE l = r
  <2>1. (l - r) * d = 0
    BY <1>2
  <2>2. n > 0 => n * k > 0
    OBVIOUS
  <2>3. n < 0 => n * k < 0
    OBVIOUS
  <2>4. QED
    BY <1>2, <2>1, <2>2, <2>3
<1>3. CASE l > r
  <2>1. (l - r) * d > 0
    BY <1>3
  <2>2. n <= 0 => n * k <= 0
    OBVIOUS
  <2>3. QED
    BY <1>3, <2>1, <2>2
<1>4. QED
  BY <1>1, <1>2, <1>3

\* Adding undoes subtracting, and multiplying undoes dividing.
LEMMA Undone ==
    ASSUME NEW a \in Rational, Lowest(a), NEW b \in Rational
    PROVE  /\ Computed("add", Computed("sub", a, b), b) = a
           /\ b.num # 0 => Computed("mul", Computed("div", a, b), b) = a
<1>1. a.num \in Int /\ a.den \in Nat \ {0} /\ b.num \in Int /\ b.den \in Nat \ {0}
  BY DEF Rational
<1>2. Computed("add", Computed("sub", a, b), b) = a
  <2> DEFINE m == Computed("sub", a, b)
             s == Computed("add", m, b)
  <2>1. m \in Rational /\ m.num * (a.den * b.den) = (a.num * b.den - b.num * a.den) * m.den
    BY ComputedIs
  <2> HIDE DEF m
  <2>2. s \in Rational /\ Lowest(s) /\ s.num * (m.den * b.den) = (m.num * b.den + b.num * m.den) * s.den
    BY <2>1, ComputedIs
  <2> HIDE DEF s
  <2>3. m.num \in Int /\ m.den \in Nat \ {0} /\ s.num \in Int /\ s.den \in Nat \ {0}
    BY <2>1, <2>2 DEF Rational
  <2>4. (m.num * b.den + b.num * m.den) * a.den = a.num * (m.den * b.den)
    <3>1. (m.num * b.den + b.num * m.den) * a.den
             = m.num * (a.den * b.den) + (b.num * m.den) * a.den
      BY <1>1, <2>3
    <3>2. (a.num * b.den - b.num * a.den) * m.den
             = a.num * (m.den * b.den) - (b.num * m.den) * a.den
      BY <1>1, <2>3
    <3>3. QED
      BY <1>1, <2>1, <2>3, <3>1, <3>2
  <2>5. s.num * a.den = a.num * s.den
    <3> DEFINE k == m.den * b.den
               z == m.num * b.den + b.num * m.den
    <3>1. k \in Int /\ k # 0 /\ z \in Int
      BY <1>1, <2>3
    <3>2. s.num * k = z * s.den /\ z * a.den = a.num * k
      BY <2>2, <2>4
    <3> HIDE DEF k, z
    <3>3. (s.num * a.den) * k = (a.num * s.den) * k
      <4>1. (s.num * a.den) * k = (z * s.den) * a.den
        BY <1>1, <2>3, <3>1, <3>2
      <4>2. (z * s.den) * a.den = (a.num * k) * s.den
        BY <1>1, <2>3, <3>1, <3>2
      <4>3. QED
        BY <1>1, <2>3, <3>1, <4>1, <4>2
    <3>4. s.num * a.den \in Int /\ a.num * s.den \in Int
      BY <1>1, <2>3
    <3>5. QED
      BY <3>1, <3>3, <3>4, Cancels
  <2>6. s = a
    BY <2>2, <2>5, LowestIsUnique
  <2>7. QED
    BY <2>6 DEF s, m
<1>3. ASSUME b.num # 0 PROVE Computed("mul", Computed("div", a, b), b) = a
  <2> DEFINE m == Computed("div", a, b)
             s == Computed("mul", m, b)
  <2>1. m \in Rational /\ m.num * (a.den * b.num) = (a.num * b.den) * m.den
    BY <1>3, ComputedIs
  <2> HIDE DEF m
  <2>2. s \in Rational /\ Lowest(s) /\ s.num * (m.den * b.den) = (m.num * b.num) * s.den
    BY <2>1, ComputedIs
  <2> HIDE DEF s
  <2>3. m.num \in Int /\ m.den \in Nat \ {0} /\ s.num \in Int /\ s.den \in Nat \ {0}
    BY <2>1, <2>2 DEF Rational
  <2>4. s.num * a.den = a.num * s.den
    <3> DEFINE k == m.den * b.den
               z == m.num * b.num
    <3>1. k \in Int /\ k # 0 /\ z \in Int
      BY <1>1, <2>3
    <3>2. s.num * k = z * s.den /\ z * a.den = a.num * k
      <4>1. z * a.den = m.num * (a.den * b.num)
        BY <1>1, <2>3
      <4>2. a.num * k = (a.num * b.den) * m.den
        BY <1>1, <2>3
      <4>3. QED
        BY <2>1, <2>2, <4>1, <4>2
    <3> HIDE DEF k, z
    <3>3. (s.num * a.den) * k = (a.num * s.den) * k
      <4>1. (s.num * a.den) * k = (z * s.den) * a.den
        BY <1>1, <2>3, <3>1, <3>2
      <4>2. (z * s.den) * a.den = (a.num * k) * s.den
        BY <1>1, <2>3, <3>1, <3>2
      <4>3. QED
        BY <1>1, <2>3, <3>1, <4>1, <4>2
    <3>4. s.num * a.den \in Int /\ a.num * s.den \in Int
      BY <1>1, <2>3
    <3>5. QED
      BY <3>1, <3>3, <3>4, Cancels
  <2>5. s = a
    BY <2>2, <2>4, LowestIsUnique
  <2>6. QED
    BY <2>5 DEF s, m
<1>4. QED
  BY <1>2, <1>3

\* The builtins undo one another, and the comparisons are the sign of the difference.
LEMMA Exact ==
    ASSUME NEW x \in Literal, NEW y \in Literal, ~parse_number_Fails(x), ~parse_number_Fails(y),
           NEW minus, minus = eval_arithmetic("sub", x, y)
    PROVE  /\ eval_arithmetic("add", minus, y) = Canonical(x)
           /\ parse_number(y).num # 0 =>
                 eval_arithmetic("mul", eval_arithmetic("div", x, y), y) = Canonical(x)
           /\ eval_comparison("lt", x, y) <=> minus.minus
           /\ eval_comparison("ge", x, y) <=> ~minus.minus
           /\ eval_comparison("gt", x, y) <=> ~minus.minus /\ minus.up # 0
           /\ eval_comparison("le", x, y) <=> minus.minus \/ minus.up = 0
<1> DEFINE a == parse_number(x)
           b == parse_number(y)
           m == Computed("sub", a, b)
           left == a.num * b.den
           right == b.num * a.den
<1>1. a \in Rational /\ Lowest(a) /\ b \in Rational /\ Lowest(b)
  BY ParsedIsLowest
<1>2. minus = format_rational(m)
  BY DEF eval_arithmetic
<1>3. /\ eval_comparison("lt", x, y) <=> left < right
      /\ eval_comparison("ge", x, y) <=> left >= right
      /\ eval_comparison("gt", x, y) <=> left > right
      /\ eval_comparison("le", x, y) <=> left <= right
  BY DEF eval_comparison
<1> HIDE DEF a, b
<1>4. /\ m \in Rational /\ Lowest(m)
      /\ m.num * (a.den * b.den) = (left - right) * m.den
  BY <1>1, ComputedIs
<1>5. Computed("add", m, b) = a
  BY <1>1, Undone
<1> HIDE DEF m
<1>6. /\ parse_number(minus) = m
      /\ minus.minus <=> m.num < 0
      /\ minus.up = 0 <=> m.num = 0
  BY <1>2, <1>4, WrittenIsRead
<1>7. eval_arithmetic("add", minus, y) = Canonical(x)
  BY <1>5, <1>6 DEF eval_arithmetic, Canonical, a, b
<1>8. ASSUME b.num # 0
      PROVE  eval_arithmetic("mul", eval_arithmetic("div", x, y), y) = Canonical(x)
  <2>1. Computed("div", a, b) \in Rational /\ Lowest(Computed("div", a, b))
    BY <1>1, <1>8, ComputedIs
  <2>2. parse_number(eval_arithmetic("div", x, y)) = Computed("div", a, b)
    BY <2>1, WrittenIsRead DEF eval_arithmetic, a, b
  <2>3. Computed("mul", Computed("div", a, b), b) = a
    BY <1>1, <1>8, Undone
  <2>4. QED
    BY <2>2, <2>3 DEF eval_arithmetic, Canonical, a, b
<1>9. /\ a.num \in Int /\ a.den \in Nat \ {0} /\ b.num \in Int /\ b.den \in Nat \ {0}
      /\ m.num \in Int /\ m.den \in Nat \ {0}
  BY <1>1, <1>4 DEF Rational
<1>10. left \in Int /\ right \in Int /\ a.den * b.den \in Int /\ a.den * b.den > 0
  BY <1>9
<1> HIDE DEF left, right
<1>11. (left < right <=> m.num < 0) /\ (left = right <=> m.num = 0)
  BY <1>4, <1>9, <1>10, Sign
<1>12. /\ left >= right <=> ~(left < right)
       /\ left > right <=> ~(left < right) /\ ~(left = right)
       /\ left <= right <=> left < right \/ left = right
  BY <1>10
<1>13. QED
  BY <1>3, <1>6, <1>7, <1>8, <1>11, <1>12, Zenon DEF b

-----------------------------------------------------------------------------
\* The pull request check.

\* One step of a sum: some key of the set is taken, and the rest summed by g.
Added(costs, r, g, s) ==
    IF s = {} THEN 0
    ELSE LET p == CHOOSE x \in s : TRUE IN costs[<<p, r>>] + g[s \ {p}]

\* A function that sums every subset.
Sums(costs, r, S, g) == g = [s \in SUBSET S |-> Added(costs, r, g, s)]

\* A sum is the value, at the whole set, of a function that sums every subset.
LEMMA SumIs ==
    ASSUME NEW costs, NEW r, NEW S
    PROVE  SumOver(costs, r, S) = (CHOOSE g : Sums(costs, r, S, g))[S]
BY DEF SumOver, MapThenSumSet, MapThenFoldSet, Sums, Added

\* A set without the key that is taken is smaller.
LEMMA Smaller ==
    ASSUME NEW s, IsFiniteSet(s), s # {}
    PROVE  LET p == CHOOSE x \in s : TRUE
           IN  /\ p \in s /\ IsFiniteSet(s \ {p})
               /\ Cardinality(s \ {p}) = Cardinality(s) - 1
               /\ Cardinality(s) \in Nat /\ Cardinality(s) # 0
<1> DEFINE p == CHOOSE x \in s : TRUE
<1>1. p \in s
  OBVIOUS
<1> HIDE DEF p
<1>2. IsFiniteSet(s \ {p}) /\ Cardinality(s \ {p}) = Cardinality(s) - 1
  BY <1>1, FS_RemoveElement
<1>3. Cardinality(s) \in Nat /\ Cardinality(s) # 0
  BY FS_CardinalityType, FS_EmptySet
<1>4. QED
  BY <1>1, <1>2, <1>3 DEF p

\* A finite set can be summed: the function is built one size of the subsets at a time.
LEMMA SumExists ==
    ASSUME NEW costs, NEW r, NEW S, IsFiniteSet(S)
    PROVE  \E g : Sums(costs, r, S, g)
<1> DEFINE UpTo(n) == \E g : \A s \in SUBSET S :
                          Cardinality(s) <= n => g[s] = Added(costs, r, g, s)
           Bad == { n \in Nat : ~UpTo(n) }
<1>1. \A s \in SUBSET S : IsFiniteSet(s) /\ Cardinality(s) \in Nat
  BY FS_Subset, FS_CardinalityType
<1>2. UpTo(0)
  <2> DEFINE g == [s \in SUBSET S |-> 0]
  <2>1. ASSUME NEW s \in SUBSET S, Cardinality(s) <= 0 PROVE g[s] = Added(costs, r, g, s)
    <3>1. s = {}
      BY <1>1, <2>1, FS_EmptySet
    <3>2. QED
      BY <3>1 DEF Added
  <2>2. QED
    BY <2>1
<1>3. ASSUME NEW n \in Nat, UpTo(n) PROVE UpTo(n + 1)
  <2>1. PICK f : \A s \in SUBSET S : Cardinality(s) <= n => f[s] = Added(costs, r, f, s)
    BY <1>3
  <2> DEFINE g == [s \in SUBSET S |-> Added(costs, r, f, s)]
  <2>2. ASSUME NEW s \in SUBSET S, Cardinality(s) <= n + 1
        PROVE  Added(costs, r, f, s) = Added(costs, r, g, s)
    <3>1. CASE s = {}
      BY <3>1 DEF Added
    <3>2. CASE s # {}
      <4> DEFINE p == CHOOSE x \in s : TRUE
      <4>1. s \ {p} \in SUBSET S /\ Cardinality(s \ {p}) <= n
        BY <1>1, <2>2, <3>2, Smaller
      <4>2. g[s \ {p}] = f[s \ {p}]
        BY <2>1, <4>1
      <4>3. QED
        BY <3>2, <4>2 DEF Added
    <3>3. QED
      BY <3>1, <3>2
  <2>3. \A s \in SUBSET S : g[s] = Added(costs, r, f, s)
    OBVIOUS
  <2> HIDE DEF g
  <2>4. QED
    BY <2>2, <2>3
<1> HIDE DEF UpTo
<1>4. Bad = {}
  <2> SUFFICES ASSUME Bad # {} PROVE FALSE
    OBVIOUS
  <2>1. PICK n \in Bad : \A m \in Bad : n <= m
    BY Least
  <2>2. n # 0
    BY <1>2
  <2>3. n - 1 \in Nat /\ n - 1 \notin Bad
    BY <2>1, <2>2
  <2>4. UpTo(n)
    BY <1>3, <2>3
  <2>5. QED
    BY <2>4
<1>5. UpTo(Cardinality(S))
  BY <1>1, <1>4
<1>6. PICK f : \A s \in SUBSET S : Cardinality(s) <= Cardinality(S) => f[s] = Added(costs, r, f, s)
  BY <1>5 DEF UpTo
<1>7. \A s \in SUBSET S : f[s] = Added(costs, r, f, s)
  BY <1>6, FS_Subset
<1> DEFINE g == [s \in SUBSET S |-> f[s]]
<1>8. \A s \in SUBSET S : Added(costs, r, f, s) = Added(costs, r, g, s)
  BY DEF Added
<1>9. g = [s \in SUBSET S |-> Added(costs, r, g, s)]
  <2> HIDE DEF Added
  <2>1. \A s \in SUBSET S : g[s] = Added(costs, r, g, s)
    BY <1>7, <1>8
  <2>2. QED
    BY <2>1
<1>10. QED
  BY <1>9 DEF Sums

\* The function that a sum is read off adds up its subsets step by step.
SumBy(costs, r, S, g) ==
    /\ SumOver(costs, r, S) = g[S]
    /\ \A s \in SUBSET S : g[s] = Added(costs, r, g, s)

\* There is such a function, for every finite set.
LEMMA SumSteps ==
    ASSUME NEW costs, NEW r, NEW S, IsFiniteSet(S)
    PROVE  \E g : SumBy(costs, r, S, g)
<1> DEFINE g == CHOOSE f : Sums(costs, r, S, f)
<1>1. Sums(costs, r, S, g)
  BY SumExists
<1>2. SumOver(costs, r, S) = g[S]
  BY SumIs
<1> HIDE DEF g
<1>3. \A s \in SUBSET S : g[s] = Added(costs, r, g, s)
  BY <1>1 DEF Sums
<1>4. QED
  BY <1>2, <1>3 DEF SumBy

\* What costs no more in any part costs no more in sum.
LEMMA SumIsMonotone ==
    ASSUME NEW old, NEW new, NEW r, NEW S, IsFiniteSet(S),
           \A p \in S : old[<<p, r>>] \in Nat /\ new[<<p, r>>] \in Nat
                       /\ new[<<p, r>>] <= old[<<p, r>>]
    PROVE  ~(SumOver(new, r, S) > SumOver(old, r, S))
<1>1. PICK f : SumBy(old, r, S, f)
  BY SumSteps
<1>2. PICK g : SumBy(new, r, S, g)
  BY SumSteps
<1> DEFINE Fine(s) == f[s] \in Nat /\ g[s] \in Nat /\ g[s] <= f[s]
           Bad == { n \in Nat : \E s \in SUBSET S : Cardinality(s) = n /\ ~Fine(s) }
<1>3. \A s \in SUBSET S : IsFiniteSet(s) /\ Cardinality(s) \in Nat
  BY FS_Subset, FS_CardinalityType
<1>4. Bad = {}
  <2> SUFFICES ASSUME Bad # {} PROVE FALSE
    OBVIOUS
  <2>1. PICK n \in Bad : \A m \in Bad : n <= m
    BY Least
  <2>2. PICK s \in SUBSET S : Cardinality(s) = n /\ ~Fine(s)
    BY <2>1
  <2>3. CASE s = {}
    <3>1. f[s] = 0 /\ g[s] = 0
      BY <1>1, <1>2, <2>3 DEF SumBy, Added
    <3>2. QED
      BY <2>2, <3>1
  <2>4. CASE s # {}
    <3> DEFINE p == CHOOSE x \in s : TRUE
               t == s \ {p}
    <3>1. p \in s /\ t \in SUBSET S /\ Cardinality(t) = n - 1 /\ n - 1 \in Nat
      BY <1>3, <2>2, <2>4, Smaller
    <3>2. f[s] = old[<<p, r>>] + f[t] /\ g[s] = new[<<p, r>>] + g[t]
      BY <1>1, <1>2, <2>4 DEF SumBy, Added
    <3> HIDE DEF p, t
    <3>3. n - 1 \notin Bad
      BY <2>1, <3>1
    <3>4. Fine(t)
      BY <3>1, <3>3
    <3>5. p \in S
      BY <3>1
    <3>6. QED
      BY <2>2, <3>2, <3>4, <3>5
  <2>5. QED
    BY <2>3, <2>4
<1>5. Fine(S)
  BY <1>3, <1>4
<1>6. QED
  BY <1>1, <1>2, <1>5 DEF SumBy

-----------------------------------------------------------------------------
\* The recorded figures are costs of pairs of a problem and a ruleset.
LEMMA CostsType ==
    ASSUME NEW costs \in Costs
    PROVE  /\ DOMAIN costs \subseteq Key /\ IsFiniteSet(DOMAIN costs)
           /\ \A key \in DOMAIN costs : costs[key] \in Nat /\ key = <<key[1], key[2]>>
           /\ costs = [key \in DOMAIN costs |-> costs[key]]
<1>1. PICK keys \in SUBSET Key : costs \in [keys -> Figure]
  BY DEF Costs
<1>2. DOMAIN costs = keys
  BY <1>1
<1>3. IsFiniteSet(keys)
  BY PrCheckAssumption, FS_Subset
<1>4. QED
  BY <1>1, <1>2, <1>3, PrCheckAssumption

\* A ruleset is compared on the problems that every ruleset of the base solves.
LEMMA ScopeIsCommon ==
    ASSUME NEW base \in Costs, NEW r
    PROVE  /\ Scope(base, r) = CommonInBase(base)
           /\ common_problems(ProblemsPassed(base)) = CommonInBase(base)
           /\ r \in Rulesets(DOMAIN base) => \A p \in CommonInBase(base) : <<p, r>> \in DOMAIN base
<1> DEFINE passed == ProblemsPassed(base)
<1>1. \A key \in DOMAIN base : key = <<key[1], key[2]>>
  BY CostsType
<1>2. /\ DOMAIN passed = Rulesets(DOMAIN base)
      /\ \A q \in Rulesets(DOMAIN base) :
            passed[q] = { p \in Problems(DOMAIN base) : <<p, q>> \in DOMAIN base }
  BY DEF ProblemsPassed
<1> HIDE DEF passed
<1>3. \A q \in Rulesets(DOMAIN base) : passed[q] # {}
  <2> SUFFICES ASSUME NEW q \in Rulesets(DOMAIN base) PROVE passed[q] # {}
    OBVIOUS
  <2>1. PICK key \in DOMAIN base : key[2] = q
    BY DEF Rulesets
  <2>2. key[1] \in passed[q]
    BY <1>1, <1>2, <2>1 DEF Problems
  <2>3. QED
    BY <2>2
<1>4. common_problems(passed) =
        { p \in UNION { passed[q] : q \in Rulesets(DOMAIN base) } :
              \A q \in Rulesets(DOMAIN base) : p \in passed[q] }
  <2>1. { q \in DOMAIN passed : passed[q] # {} } = Rulesets(DOMAIN base)
    BY <1>2, <1>3
  <2>2. QED
    BY <2>1 DEF common_problems
<1>5. \A p : p \in common_problems(passed) <=> p \in CommonInBase(base)
  <2>1. ASSUME NEW p \in common_problems(passed) PROVE p \in CommonInBase(base)
    BY <1>2, <1>4, <2>1 DEF CommonInBase
  <2>2. ASSUME NEW p \in CommonInBase(base) PROVE p \in common_problems(passed)
    <3>1. PICK key \in DOMAIN base : key[1] = p
      BY <2>2 DEF CommonInBase, Problems
    <3>2. key[2] \in Rulesets(DOMAIN base)
      BY <3>1 DEF Rulesets
    <3>3. \A q \in Rulesets(DOMAIN base) : p \in passed[q]
      BY <1>2, <2>2 DEF CommonInBase
    <3>4. QED
      BY <1>4, <3>2, <3>3
  <2>3. QED
    BY <2>1, <2>2
<1>6. common_problems(passed) = CommonInBase(base)
  BY <1>5
<1>7. r \in Rulesets(DOMAIN base) => \A p \in CommonInBase(base) : <<p, r>> \in DOMAIN base
  BY DEF CommonInBase
<1>8. Scope(base, r) = CommonInBase(base)
  <2>1. CASE r \in Rulesets(DOMAIN base)
    BY <1>6, <1>7, <2>1 DEF Scope, passed
  <2>2. CASE r \notin Rulesets(DOMAIN base)
    BY <1>6, <2>2 DEF Scope, passed
  <2>3. QED
    BY <2>1, <2>2
<1>9. QED
  BY <1>6, <1>7, <1>8 DEF passed

\* The runs of some keys on every host.
Runs(keys) == [AnyHost -> [keys -> [pass : BOOLEAN, cost : Nat]]]

\* The hosts agree when parity finds nothing.
LEMMA ParityIsAgreement ==
    ASSUME NEW keys, NEW runs \in Runs(keys)
    PROVE  /\ parity_failure(runs) <=> ~Agree(runs)
           /\ DOMAIN go_results(runs) = keys
           /\ Agree(runs) => \A key \in keys : go_results(runs)[key].pass = TRUE
<1>1. /\ DOMAIN runs = AnyHost /\ "go" \in AnyHost
      /\ \A h \in AnyHost : DOMAIN runs[h] = keys
      /\ \A h \in AnyHost, key \in keys : runs[h][key].pass \in BOOLEAN
  BY PrCheckAssumption DEF Runs
<1>2. parity_failure(runs) <=> ~Agree(runs)
  BY <1>1 DEF parity_failure, Agree
<1>3. Agree(runs) => \A key \in keys : go_results(runs)[key].pass = TRUE
  BY <1>1, Zenon DEF Agree, go_results
<1>4. QED
  BY <1>1, <1>2, <1>3 DEF go_results

\* No solution fails when all pass.
LEMMA NoSolutionFails ==
    ASSUME NEW measured, \A key \in DOMAIN measured : measured[key].pass = TRUE,
           NEW names, NEW base
    PROVE  \A m \in SolutionMessages(names, base, measured) : m[1] # "failure"
<1> DEFINE failed == { key \in DOMAIN measured : ~measured[key].pass }
<1>1. failed = {}
  OBVIOUS
<1> HIDE DEF failed
<1>2. \A k : <<"note", k, "contract">>[1] # "failure" /\ <<"warning", k, "cost">>[1] # "failure"
  OBVIOUS
<1>3. \A m \in SolutionMessages(names, base, measured) :
         \/ \E k \in failed : TRUE
         \/ \E k : m = <<"note", k, "contract">>
         \/ \E k : m = <<"warning", k, "cost">>
  BY Zenon DEF SolutionMessages, failed
<1>4. QED
  BY <1>1, <1>2, <1>3

\* The changed interpreters that no longer pass a problem of their scope.
Stopped(names, base, head) ==
    { r \in changed_interpreters(names) \cap (Rulesets(DOMAIN base) \cup Rulesets(DOMAIN head)) :
          \E p \in Scope(base, r) : <<p, r>> \notin DOMAIN head }

\* An interpreter fails exactly when there is one of these.
LEMMA InterpretersFail ==
    ASSUME NEW names, NEW base, NEW head
    PROVE  (\A m \in InterpreterMessages(names, base, head) : m[1] # "failure")
               <=> Stopped(names, base, head) = {}
<1>1. \A r \in Stopped(names, base, head) :
         <<"failure", <<r>>, "stopped passing">> \in InterpreterMessages(names, base, head)
  BY Zenon DEF InterpreterMessages, Stopped
<1>2. \A m \in InterpreterMessages(names, base, head) :
         \/ Stopped(names, base, head) # {}
         \/ \E k : m = <<"note", k, "contract">>
         \/ \E k : m = <<"warning", k, "sum">>
  BY Zenon DEF InterpreterMessages, Stopped
<1>3. \A k : <<"note", k, "contract">>[1] # "failure" /\ <<"warning", k, "sum">>[1] # "failure"
  OBVIOUS
<1>4. ASSUME NEW r \in Stopped(names, base, head)
      PROVE  \E m \in InterpreterMessages(names, base, head) : m[1] = "failure"
  <2>1. <<"failure", <<r>>, "stopped passing">>[1] = "failure"
    OBVIOUS
  <2>2. QED
    BY <1>1, <2>1, Zenon
<1>5. ASSUME Stopped(names, base, head) = {}, NEW m \in InterpreterMessages(names, base, head)
      PROVE  m[1] # "failure"
  BY <1>2, <1>3, <1>5
<1>6. QED
  BY <1>4, <1>5, Zenon

\* When the hosts agree, the head costs what Go measured, and only an interpreter
\* can fail.
LEMMA AgreedReport ==
    ASSUME NEW keys, NEW runs \in Runs(keys), Agree(runs), NEW names, NEW base
    PROVE  LET head == HeadCosts(go_results(runs))
           IN  /\ judge(names, base, runs) =
                     SolutionMessages(names, base, go_results(runs))
                         \cup InterpreterMessages(names, base, head)
               /\ head = [key \in keys |-> go_results(runs)[key].cost]
               /\ Green(judge(names, base, runs)) <=> Stopped(names, base, head) = {}
<1> DEFINE measured == go_results(runs)
           head == HeadCosts(measured)
<1>1. /\ ~parity_failure(runs) /\ DOMAIN measured = keys
      /\ \A key \in keys : measured[key].pass = TRUE
  BY ParityIsAgreement
<1>2. judge(names, base, runs) =
          SolutionMessages(names, base, measured) \cup InterpreterMessages(names, base, head)
  BY <1>1 DEF judge
<1> HIDE DEF measured
<1>3. head = [key \in keys |-> measured[key].cost]
  <2>1. { key \in DOMAIN measured : measured[key].pass } = keys
    BY <1>1
  <2>2. QED
    BY <2>1 DEF HeadCosts
<1> HIDE DEF head
<1>4. \A m \in SolutionMessages(names, base, measured) : m[1] # "failure"
  BY <1>1, NoSolutionFails
<1>6. (\A m \in InterpreterMessages(names, base, head) : m[1] # "failure")
          <=> Stopped(names, base, head) = {}
  BY InterpretersFail
<1>7. Green(judge(names, base, runs)) <=> Stopped(names, base, head) = {}
  BY <1>2, <1>4, <1>6 DEF Green
<1>8. QED
  BY <1>2, <1>3, <1>7 DEF measured, head

\* A file of an interpreter or a solution changes it.
LEMMA FilesChange ==
    ASSUME NEW names, NEW p, NEW r
    PROVE  /\ <<"interpreter", r>> \in names => r \in changed_interpreters(names)
           /\ <<"solution", p, r>> \in names => <<p, r>> \in changed_solutions(names)
<1>1. ASSUME <<"interpreter", r>> \in names PROVE r \in changed_interpreters(names)
  <2> DEFINE f == <<"interpreter", r>>
  <2>1. f[1] = "interpreter" /\ f[2] = r
    OBVIOUS
  <2> HIDE DEF f
  <2>2. f \in { g \in names : g[1] = "interpreter" }
    BY <1>1, <2>1 DEF f
  <2>3. QED
    BY <2>1, <2>2 DEF changed_interpreters
<1>2. ASSUME <<"solution", p, r>> \in names PROVE <<p, r>> \in changed_solutions(names)
  <2> DEFINE f == <<"solution", p, r>>
  <2>1. f[1] = "solution" /\ f[2] = p /\ f[3] = r
    OBVIOUS
  <2> HIDE DEF f
  <2>2. f \in { g \in names : g[1] = "solution" }
    BY <1>2, <2>1 DEF f
  <2>3. QED
    BY <2>1, <2>2 DEF changed_solutions
<1>3. QED
  BY <1>1, <1>2

\* The check is green exactly when the frontmatter is whole, the hosts agree, every
\* solution and every metric file of the base passes, and every changed interpreter that
\* is measured passes what the base's rulesets have in common: for all metric files of the
\* base, all runs of the head on every host, and all changed files.
THEOREM GreenMeansEarned ==
    ASSUME NEW layout \in BOOLEAN,
           NEW tree, base_costs(tree) \in Costs, \A key \in DOMAIN tree : tree[key].pass \in BOOLEAN,
           NEW keys, NEW runs \in Runs(keys),
           NEW names, \A f \in names : f[1] = "interpreter" => f = <<"interpreter", f[2]>>
    PROVE  Earned(layout, names, tree, runs)
<1> DEFINE base == base_costs(tree)
           head == HeadCosts(go_results(runs))
           report == measure_report(layout, names, tree, runs)
           Passes == \A key \in DOMAIN tree : tree[key].pass
<1> SUFFICES Green(report) <=> layout /\ Agree(runs) /\ Passes /\ StillPasses(names, base, runs)
  BY DEF Earned, Green, Agree, StillPasses
<1>1. Passes <=> ~base_costs_Fails(tree)
  BY DEF base_costs_Fails
<1>2. CASE ~layout
  <2>1. report = { <<"failure", <<>>, "frontmatter">> }
    BY <1>2 DEF measure_report
  <2>2. QED
    BY <1>2, <2>1 DEF Green
<1>3. CASE layout /\ ~Agree(runs)
  <2>1. report = { <<"failure", <<>>, "parity">> }
    BY <1>3, ParityIsAgreement DEF measure_report
  <2>2. ~Green(report)
    BY <2>1 DEF Green
  <2> HIDE DEF report, Passes
  <2>3. QED
    BY <1>3, <2>2, Zenon
<1>4. CASE layout /\ Agree(runs) /\ ~Passes
  <2>1. report = { <<"failure", <<>>, "exception">> }
    BY <1>1, <1>4, ParityIsAgreement DEF measure_report
  <2>2. ~Green(report)
    BY <2>1 DEF Green
  <2> HIDE DEF report, Passes
  <2>3. QED
    BY <1>4, <2>2, Zenon
<1>5. CASE layout /\ Agree(runs) /\ Passes
  <2>1. report = judge(names, base, runs)
    BY <1>1, <1>5, ParityIsAgreement DEF measure_report
  <2>2. /\ Green(judge(names, base, runs)) <=> Stopped(names, base, head) = {}
        /\ head = [key \in keys |-> go_results(runs)[key].cost]
    BY <1>5, AgreedReport
  <2>3. DOMAIN head = keys /\ DOMAIN runs["go"] = keys
    BY <2>2, ParityIsAgreement DEF go_results
  <2>4. base \in Costs
    OBVIOUS
  <2> HIDE DEF head, base
  <2>5. \A r : r \in changed_interpreters(names) <=> <<"interpreter", r>> \in names
    <3> SUFFICES ASSUME NEW r
                 PROVE  r \in changed_interpreters(names) <=> <<"interpreter", r>> \in names
      OBVIOUS
    <3>1. ASSUME r \in changed_interpreters(names) PROVE <<"interpreter", r>> \in names
      <4>1. PICK f \in names : f[1] = "interpreter" /\ f[2] = r
        BY <3>1 DEF changed_interpreters
      <4>2. f = <<"interpreter", r>>
        BY <4>1
      <4>3. QED
        BY <4>2
    <3>2. ASSUME <<"interpreter", r>> \in names PROVE r \in changed_interpreters(names)
      BY <3>2, FilesChange
    <3>3. QED
      BY <3>1, <3>2
  <2>6. \A r : Scope(base, r) = CommonInBase(base)
    BY <2>4, ScopeIsCommon
  <2>7. \A r : r \in Stopped(names, base, head)
                 <=> /\ <<"interpreter", r>> \in names
                     /\ r \in Rulesets(DOMAIN base) \cup Rulesets(keys)
                     /\ \E p \in CommonInBase(base) : <<p, r>> \notin keys
    BY <2>3, <2>5, <2>6 DEF Stopped
  <2>8. Stopped(names, base, head) = {} <=> StillPasses(names, base, runs)
    BY <2>3, <2>7 DEF StillPasses
  <2> HIDE DEF Passes, report
  <2>9. QED
    BY <1>5, <2>1, <2>2, <2>8
<1>6. QED
  BY <1>2, <1>3, <1>4, <1>5

-----------------------------------------------------------------------------
\* The runs of a head that passes are its costs.
LEMMA PassingHead ==
    ASSUME NEW head \in Costs
    PROVE  LET runs == PassingRuns(head)
           IN  /\ runs \in Runs(DOMAIN head) /\ Agree(runs)
               /\ DOMAIN go_results(runs) = DOMAIN head
               /\ \A key \in DOMAIN head : go_results(runs)[key] = [pass |-> TRUE, cost |-> head[key]]
               /\ HeadCosts(go_results(runs)) = head
<1> DEFINE runs == PassingRuns(head)
<1>1. \A key \in DOMAIN head : head[key] \in Nat
  BY CostsType
<1>2. /\ runs \in Runs(DOMAIN head)
      /\ \A h \in AnyHost : /\ DOMAIN runs[h] = DOMAIN head
                           /\ \A key \in DOMAIN head : runs[h][key] = [pass |-> TRUE, cost |-> head[key]]
  BY <1>1 DEF PassingRuns, Runs
<1> HIDE DEF runs
<1>3. /\ DOMAIN go_results(runs) = DOMAIN head
      /\ \A key \in DOMAIN head : go_results(runs)[key] = [pass |-> TRUE, cost |-> head[key]]
  BY <1>2, PrCheckAssumption DEF go_results
<1>4. Agree(runs)
  <2>1. /\ DOMAIN runs["go"] = DOMAIN head
        /\ \A key \in DOMAIN head : runs["go"][key] = [pass |-> TRUE, cost |-> head[key]]
    BY <1>2, PrCheckAssumption
  <2>2. \A key \in DOMAIN runs["go"] : runs["go"][key].pass = TRUE
    <3>1. \A key : [pass |-> TRUE, cost |-> head[key]].pass = TRUE
      OBVIOUS
    <3>2. QED
      BY <2>1, <3>1, Zenon
  <2>3. \A h \in AnyHost : \A key \in DOMAIN runs["go"] : runs[h][key] = runs["go"][key]
    BY <1>2, <2>1
  <2>4. QED
    BY <2>2, <2>3, Zenon DEF Agree
<1>5. HeadCosts(go_results(runs)) = [key \in DOMAIN head |-> go_results(runs)[key].cost]
  BY <1>2, <1>4, AgreedReport
<1>6. HeadCosts(go_results(runs)) = head
  <2>1. HeadCosts(go_results(runs)) = [key \in DOMAIN head |-> head[key]]
    BY <1>3, <1>5
  <2>2. QED
    BY <2>1, CostsType
<1>7. QED
  BY <1>2, <1>3, <1>4, <1>6 DEF runs

\* A changed solution that costs more is told of, unless its contract changed.
LEMMA DearerSolution ==
    ASSUME NEW names, NEW base, NEW measured, NEW p, NEW r,
           <<p, r>> \in DOMAIN base \cap DOMAIN measured \cap changed_solutions(names),
           measured[<<p, r>>].pass = TRUE, <<"case", p>> \notin names,
           ~(measured[<<p, r>>].cost < base[<<p, r>>])
    PROVE  <<"warning", <<p, r>>, "cost">> \in SolutionMessages(names, base, measured)
<1> DEFINE key == <<p, r>>
           failed == { k \in DOMAIN measured : ~measured[k].pass }
           moved == { k \in ((DOMAIN base \cup DOMAIN measured) \ failed) \cap changed_solutions(names) :
                          contract_changed(k[1], names) }
           dearer == { k \in ((DOMAIN base \cap DOMAIN measured) \ (failed \cup moved))
                                \cap changed_solutions(names) :
                           solution_change(base[k], measured[k].cost) }
<1>1. key[1] = p
  OBVIOUS
<1> HIDE DEF key
<1>2. key \notin failed /\ key \notin moved
  BY <1>1 DEF contract_changed, key
<1> HIDE DEF failed, moved
<1>3. key \in dearer
  BY <1>2 DEF solution_change, key
<1>4. { <<"warning", k, "cost">> : k \in dearer } \subseteq SolutionMessages(names, base, measured)
  BY Zenon DEF SolutionMessages, failed, moved
<1>5. QED
  BY <1>3, <1>4 DEF key

\* A changed interpreter that costs more is told of, unless a contract changed.
LEMMA DearerInterpreter ==
    ASSUME NEW names, NEW base, NEW head, NEW r \in Rulesets(DOMAIN base),
           r \in changed_interpreters(names),
           \A p \in Scope(base, r) : <<p, r>> \in DOMAIN head,
           \A p \in common_problems(ProblemsPassed(base)) : <<"case", p>> \notin names,
           aggregate_sum(head, r, Scope(base, r)) > aggregate_sum(base, r, Scope(base, r))
    PROVE  <<"warning", <<r>>, "sum">> \in InterpreterMessages(names, base, head)
<1> DEFINE rulesets == changed_interpreters(names)
                           \cap (Rulesets(DOMAIN base) \cup Rulesets(DOMAIN head))
           stopped == { q \in rulesets : \E p \in Scope(base, q) : <<p, q>> \notin DOMAIN head }
           moved == { q \in rulesets \ stopped :
                          \E p \in common_problems(ProblemsPassed(base)) : contract_changed(p, names) }
           dearer == { q \in (rulesets \ (stopped \cup moved)) \cap Rulesets(DOMAIN base) :
                           interpreter_change(aggregate_sum(base, q, Scope(base, q)),
                                              aggregate_sum(head, q, Scope(base, q))) }
<1>1. r \in rulesets /\ r \notin stopped /\ r \notin moved
  BY DEF contract_changed
<1>2. r \in dearer
  BY <1>1 DEF interpreter_change
<1>3. { <<"warning", <<q>>, "sum">> : q \in dearer } \subseteq InterpreterMessages(names, base, head)
  BY Zenon DEF InterpreterMessages
<1> HIDE DEF dearer
<1>4. QED
  BY <1>2, <1>3

\* What the metric files of these figures are read as.
LEMMA RecordedIsRead ==
    ASSUME NEW base \in Costs
    PROVE  base_costs(Recorded(base, {})) = base /\ ~base_costs_Fails(Recorded(base, {}))
<1>1. base = [key \in DOMAIN base |-> base[key]]
  BY CostsType
<1> DEFINE tree == Recorded(base, {})
<1>2. DOMAIN tree = DOMAIN base
      /\ \A key \in DOMAIN base : tree[key] = [pass |-> key \notin {}, cost |-> base[key]]
  BY DEF Recorded
<1>3. \A key \in DOMAIN base : tree[key].pass = TRUE /\ tree[key].cost = base[key]
  <2>1. \A key : [pass |-> key \notin {}, cost |-> base[key]].cost = base[key]
    OBVIOUS
  <2>2. \A key : (key \notin {}) = TRUE
    OBVIOUS
  <2>3. \A key : [pass |-> key \notin {}, cost |-> base[key]].pass = TRUE
    BY <2>2
  <2>4. QED
    BY <1>2, <2>1, <2>3, Zenon
<1> HIDE DEF tree
<1>4. base_costs(tree) = [key \in DOMAIN base |-> base[key]]
  BY <1>2, <1>3 DEF base_costs
<1>5. ~base_costs_Fails(tree)
  BY <1>2, <1>3 DEF base_costs_Fails
<1>6. QED
  BY <1>1, <1>4, <1>5 DEF tree

\* A rise of a ruleset's sum on the common problems is told of when the engine is as it
\* was, for all figures of base and head and all changed files that explain their
\* differences.
THEOREM RisesAreTold ==
    ASSUME NEW base \in Costs, NEW head \in Costs, NEW names, Explains(names, base, head)
    PROVE  RiseIsSaid(names, base, head)
<1> DEFINE runs == PassingRuns(head)
           measured == go_results(runs)
           shared == CommonInBase(base)
<1>1. /\ runs \in Runs(DOMAIN head) /\ Agree(runs) /\ DOMAIN measured = DOMAIN head
      /\ \A key \in DOMAIN head : measured[key] = [pass |-> TRUE, cost |-> head[key]]
      /\ HeadCosts(measured) = head
  BY PassingHead
<1> DEFINE report == measure_report(TRUE, names, Recorded(base, {}), runs)
<1>2. report = SolutionMessages(names, base, measured) \cup InterpreterMessages(names, base, head)
  <2>1. judge(names, base, runs) =
            SolutionMessages(names, base, measured) \cup InterpreterMessages(names, base, head)
    BY <1>1, AgreedReport
  <2> HIDE DEF runs, measured
  <2>2. report = judge(names, base, runs)
    BY <1>1, RecordedIsRead, ParityIsAgreement DEF measure_report
  <2>3. QED
    BY <2>1, <2>2
<1> HIDE DEF runs, measured, shared, report
<1> SUFFICES ASSUME NEW r \in Rulesets(DOMAIN base), <<"engine">> \notin names,
                    \A p \in shared : <<p, r>> \in DOMAIN head /\ <<"case", p>> \notin names,
                    SumOver(head, r, shared) > SumOver(base, r, shared)
             PROVE  \E m \in report :
                       m[1] # "note" /\ (m[2] = <<r>> \/ \E p \in shared : m[2] = <<p, r>>)
  BY DEF RiseIsSaid, runs, shared, report
<1>3. /\ Scope(base, r) = shared /\ common_problems(ProblemsPassed(base)) = shared
      /\ \A p \in shared : <<p, r>> \in DOMAIN base
  BY ScopeIsCommon DEF shared
<1>4. /\ DOMAIN base \subseteq Key /\ DOMAIN head \subseteq Key /\ IsFiniteSet(shared)
      /\ \A key \in DOMAIN base : base[key] \in Nat
      /\ \A key \in DOMAIN head : head[key] \in Nat
  <2>1. /\ DOMAIN base \subseteq Key /\ DOMAIN head \subseteq Key /\ IsFiniteSet(DOMAIN base)
        /\ \A key \in DOMAIN base : base[key] \in Nat
        /\ \A key \in DOMAIN head : head[key] \in Nat
    BY CostsType
  <2>2. IsFiniteSet(Problems(DOMAIN base))
    <3> DEFINE f == [k \in DOMAIN base |-> k[1]]
    <3>1. f \in Surjection(DOMAIN base, Problems(DOMAIN base))
      BY DEF Surjection, Problems
    <3>2. QED
      BY <2>1, <3>1, FS_Surjection
  <2>3. shared \subseteq Problems(DOMAIN base)
    BY DEF shared, CommonInBase
  <2>4. QED
    BY <2>1, <2>2, <2>3, FS_Subset
<1>5. PICK p \in shared : head[<<p, r>>] > base[<<p, r>>]
  <2> SUFFICES ASSUME \A q \in shared : ~(head[<<q, r>>] > base[<<q, r>>])
               PROVE  FALSE
    OBVIOUS
  <2>1. \A q \in shared : base[<<q, r>>] \in Nat /\ head[<<q, r>>] \in Nat
    BY <1>3, <1>4
  <2>2. \A q \in shared : head[<<q, r>>] <= base[<<q, r>>]
    BY <2>1
  <2>3. ~(SumOver(head, r, shared) > SumOver(base, r, shared))
    BY <1>4, <2>1, <2>2, SumIsMonotone
  <2>4. QED
    BY <2>3
<1> DEFINE key == <<p, r>>
<1>6. key[1] = p /\ key[2] = r
  OBVIOUS
<1>7. key \in Key /\ key \in DOMAIN base /\ key \in DOMAIN head
  BY <1>3, <1>4
<1> HIDE DEF key
<1>8. CostIn(base, key) # CostIn(head, key)
  BY <1>4, <1>5, <1>7 DEF CostIn, key
<1>9. <<"solution", p, r>> \in names \/ <<"interpreter", r>> \in names
  BY <1>6, <1>7, <1>8 DEF Explains
<1>10. CASE <<"solution", p, r>> \in names
  <2> DEFINE m == <<"warning", <<p, r>>, "cost">>
  <2>1. ~(measured[<<p, r>>].cost < base[<<p, r>>]) /\ measured[<<p, r>>].pass = TRUE
    BY <1>1, <1>4, <1>5, <1>7 DEF key
  <2>2. m \in SolutionMessages(names, base, measured)
    BY <1>1, <1>7, <1>10, <2>1, FilesChange, DearerSolution DEF key
  <2>3. m[1] # "note" /\ m[2] = <<p, r>>
    OBVIOUS
  <2> HIDE DEF m
  <2>4. QED
    BY <1>2, <2>2, <2>3
<1>11. CASE <<"interpreter", r>> \in names
  <2> DEFINE m == <<"warning", <<r>>, "sum">>
  <2>1. aggregate_sum(head, r, shared) > aggregate_sum(base, r, shared)
    BY DEF SumOver, aggregate_sum
  <2>2. m \in InterpreterMessages(names, base, head)
    BY <1>3, <1>11, <2>1, FilesChange, DearerInterpreter
  <2>3. m[1] # "note" /\ m[2] = <<r>>
    OBVIOUS
  <2> HIDE DEF m
  <2>4. QED
    BY <1>2, <2>2, <2>3
<1>12. QED
  BY <1>9, <1>10, <1>11

-----------------------------------------------------------------------------
\* The comments.

Body == {"old", "first", "second", "third"}

Comment == [id : Nat, marked : BOOLEAN, body : Body]

Ids(comments) == { c.id : c \in comments }

\* The least of some numbers.
LEMMA MinIsLeast ==
    ASSUME NEW S \in SUBSET Nat, S # {}
    PROVE  Min(S) \in S /\ \A n \in S : Min(S) <= n
<1>1. \E x \in S : \A y \in S : x <= y
  BY Least
<1>2. Min(S) = CHOOSE x \in S : \A y \in S : x <= y
  BY Zenon DEF Min
<1>3. QED
  BY <1>1, <1>2

\* post_comment takes the oldest marked comment, and posts when there is none.
LEMMA ActionIsOldest ==
    ASSUME NEW S \in SUBSET Comment
    PROVE  /\ Ids(Marked(S)) = {} => comment_action(S) = 0
           /\ Ids(Marked(S)) # {} => comment_action(S) = Min(Ids(Marked(S)))
<1>1. Marked(S) = {} <=> Ids(Marked(S)) = {}
  BY DEF Ids
<1>2. QED
  BY <1>1, Zenon DEF comment_action, Ids

\* An edit changes the body of one comment.
LEMMA Edited ==
    ASSUME NEW S \in SUBSET Comment, NEW m \in Nat \ {0}, NEW body \in Body,
           NEW T, T = Perform(S, m, body)
    PROVE  /\ T \in SUBSET Comment
           /\ Ids(Marked(T)) = Ids(Marked(S)) /\ Ids(T) = Ids(S)
           /\ \A c \in T : IF c.id = m THEN c.body = body ELSE c \in S
<1> DEFINE edit(c) == IF c.id = m THEN [c EXCEPT !.body = body] ELSE c
<1>1. T = { edit(c) : c \in S }
  BY DEF Perform
<1>2. \A c \in Comment : /\ edit(c) \in Comment /\ edit(c).id = c.id
                        /\ edit(c).marked = c.marked
                        /\ IF c.id = m THEN edit(c).body = body ELSE edit(c) = c
  BY DEF Comment
<1> HIDE DEF edit
<1>3. T \in SUBSET Comment
  BY <1>1, <1>2
<1>4. \A c \in T : IF c.id = m THEN c.body = body ELSE c \in S
  BY <1>1, <1>2
<1>5. Ids(T) = Ids(S)
  BY <1>1, <1>2 DEF Ids
<1>6. Ids(Marked(T)) = Ids(Marked(S))
  BY <1>1, <1>2 DEF Ids, Marked
<1>7. QED
  BY <1>3, <1>4, <1>5, <1>6

\* A new comment is marked and has the next number.
LEMMA Posted ==
    ASSUME NEW S \in SUBSET Comment, NEW n \in Nat, Ids(S) = 1 .. n, NEW body \in Body,
           NEW T, T = Perform(S, 0, body)
    PROVE  /\ T \in SUBSET Comment
           /\ Ids(T) = 1 .. n + 1
           /\ Ids(Marked(T)) = Ids(Marked(S)) \cup {n + 1}
<1> DEFINE c == [id |-> n + 1, marked |-> TRUE, body |-> body]
<1>1. Max({ d.id : d \in S } \cup {0}) = n
  <2>1. { d.id : d \in S } \cup {0} = 0 .. n
    BY DEF Ids
  <2>2. Max(0 .. n) = n
    <3>1. \A x \in 0 .. n : (\A y \in 0 .. n : x >= y) => x = n
      OBVIOUS
    <3>2. \E x \in 0 .. n : \A y \in 0 .. n : x >= y
      OBVIOUS
    <3>3. Max(0 .. n) = CHOOSE x \in 0 .. n : \A y \in 0 .. n : x >= y
      BY Zenon DEF Max
    <3>4. QED
      BY <3>1, <3>2, <3>3
  <2>3. QED
    BY <2>1, <2>2
<1>2. T = S \cup {c}
  <2>1. 1 + Max({ d.id : d \in S } \cup {0}) = n + 1
    BY <1>1
  <2>2. QED
    BY <2>1 DEF Perform
<1>3. c \in Comment /\ c.id = n + 1 /\ c.marked = TRUE
  BY DEF Comment
<1> HIDE DEF c
<1>4. Ids(T) = 1 .. n + 1
  <2>1. Ids(T) = Ids(S) \cup {n + 1}
    BY <1>2, <1>3 DEF Ids
  <2>2. \A x : x \in 1 .. n + 1 <=> x \in 1 .. n \/ x = n + 1
    OBVIOUS
  <2> HIDE DEF Ids
  <2>3. QED
    BY <2>1, <2>2
<1>5. Ids(Marked(T)) = Ids(Marked(S)) \cup {n + 1}
  BY <1>2, <1>3 DEF Ids, Marked
<1>6. QED
  BY <1>2, <1>3, <1>4, <1>5

\* One number is one comment when its body is known.
LEMMA OneIsOne ==
    ASSUME NEW T \in SUBSET Comment, NEW m, Ids(Marked(T)) = {m}, NEW body \in Body,
           \A c \in T : c.id = m => c.body = body
    PROVE  Cardinality(Marked(T)) = 1
<1>1. \A c \in Marked(T) : c \in Comment /\ c.id = m /\ c.marked = TRUE /\ c.body = body
  <2>1. \A c \in Marked(T) : c.id \in Ids(Marked(T)) /\ c \in T /\ c.marked
    BY DEF Marked, Ids
  <2>2. \A c \in Marked(T) : c.marked \in BOOLEAN
    BY <2>1 DEF Comment
  <2>3. QED
    BY <2>1, <2>2
<1>2. \A c \in Marked(T) : c = [id |-> m, marked |-> TRUE, body |-> body]
  BY <1>1 DEF Comment
<1>3. Marked(T) # {}
  BY DEF Ids
<1>4. Marked(T) = {[id |-> m, marked |-> TRUE, body |-> body]}
  BY <1>2, <1>3
<1>5. QED
  BY <1>4, FS_Singleton

\* Three jobs report on a pull request with any comments before; the second has listed
\* them before or after the first has posted.
LEMMA JobsStick ==
    ASSUME NEW before \in SUBSET Comment, IsFiniteSet(before),
           NEW n \in Nat, Ids(before) = 1 .. n, NEW overlap \in BOOLEAN,
           NEW first, first = Perform(before, comment_action(before), "first"),
           NEW second,
           second = Perform(first, IF overlap THEN comment_action(before) ELSE comment_action(first),
                            "second"),
           NEW third, third = Perform(second, comment_action(second), "third")
    PROVE  LET oldest == Min(Ids(Marked(first)))
           IN  /\ \A c \in Marked(third) : c.id = oldest => c.body = "third"
               /\ \A c \in third : c.id # oldest => c \in second
               /\ ~overlap /\ Cardinality(Marked(before)) <= 1 => Cardinality(Marked(third)) = 1
<1> DEFINE marked == Ids(Marked(before))
           oldest == Min(Ids(Marked(first)))
<1>1. "first" \in Body /\ "second" \in Body /\ "third" \in Body
  BY DEF Body
<1>2. \A S \in SUBSET Comment : Ids(Marked(S)) \subseteq Ids(S) /\ Ids(S) \subseteq Nat
  BY DEF Ids, Marked, Comment
\* It is enough that the second job leaves the oldest comment the oldest.
<1>3. ASSUME second \in SUBSET Comment, oldest \in Nat \ {0}, comment_action(second) = oldest,
             ~overlap /\ Cardinality(Marked(before)) <= 1 => Ids(Marked(second)) = {oldest}
      PROVE  /\ \A c \in Marked(third) : c.id = oldest => c.body = "third"
             /\ \A c \in third : c.id # oldest => c \in second
             /\ ~overlap /\ Cardinality(Marked(before)) <= 1 => Cardinality(Marked(third)) = 1
  <2> HIDE DEF oldest
  <2>1. /\ third \in SUBSET Comment /\ Ids(Marked(third)) = Ids(Marked(second))
        /\ \A c \in third : IF c.id = oldest THEN c.body = "third" ELSE c \in second
    BY <1>1, <1>3, Edited
  <2>2. Marked(third) \subseteq third
    BY DEF Marked
  <2>3. ASSUME ~overlap, Cardinality(Marked(before)) <= 1 PROVE Cardinality(Marked(third)) = 1
    <3>1. Ids(Marked(third)) = {oldest} /\ \A c \in third : c.id = oldest => c.body = "third"
      BY <1>3, <2>1, <2>3
    <3>2. third \in SUBSET Comment /\ Ids(Marked(third)) = {oldest}
      BY <2>1, <3>1
    <3>3. \A c \in third : c.id = oldest => c.body = "third"
      BY <3>1
    <3>4. (\A c \in third : c.id = oldest => c.body = "third") => Cardinality(Marked(third)) = 1
      BY <1>1, <3>2, OneIsOne
    <3>5. QED
      BY <3>3, <3>4
  <2>4. QED
    BY <2>1, <2>2, <2>3
<1>4. CASE marked = {}
  <2>1. comment_action(before) = 0
    BY <1>4, ActionIsOldest
  <2>2. first \in SUBSET Comment /\ Ids(first) = 1 .. n + 1 /\ Ids(Marked(first)) = {n + 1}
    BY <1>1, <1>4, <2>1, Posted
  <2>3. oldest = n + 1
    BY <2>2, MinIsLeast
  <2>4. /\ second \in SUBSET Comment
        /\ Ids(Marked(second)) = IF overlap THEN {n + 1, n + 2} ELSE {n + 1}
    <3>1. CASE overlap
      <4>1. second = Perform(first, 0, "second")
        BY <2>1, <3>1
      <4>2. second \in SUBSET Comment /\ Ids(Marked(second)) = {n + 1} \cup {(n + 1) + 1}
        BY <1>1, <2>2, <4>1, Posted
      <4>3. QED
        BY <3>1, <4>2
    <3>2. CASE ~overlap
      <4>1. comment_action(first) = n + 1
        BY <2>2, <2>3, ActionIsOldest
      <4>2. second = Perform(first, n + 1, "second")
        BY <3>2, <4>1
      <4>3. second \in SUBSET Comment /\ Ids(Marked(second)) = {n + 1}
        BY <1>1, <2>2, <4>2, Edited
      <4>4. QED
        BY <3>2, <4>3
    <3>3. QED
      BY <3>1, <3>2
  <2>5. comment_action(second) = oldest
    <3>1. comment_action(second) = Min(Ids(Marked(second)))
      BY <2>4, ActionIsOldest
    <3>2. Min(Ids(Marked(second))) = n + 1
      BY <2>4, MinIsLeast
    <3>3. QED
      BY <2>3, <3>1, <3>2
  <2> HIDE DEF oldest, marked
  <2>6. QED
    BY <1>3, <2>3, <2>4, <2>5 DEF oldest
<1>5. CASE marked # {}
  <2> DEFINE m == Min(marked)
  <2>1. m \in marked /\ m \in Nat \ {0} /\ \A k \in marked : m <= k
    <3>1. marked \in SUBSET (1 .. n)
      BY <1>2
    <3> HIDE DEF marked
    <3>2. 1 .. n \subseteq Nat \ {0}
      OBVIOUS
    <3>3. marked \in SUBSET Nat
      BY <3>1, <3>2
    <3>4. Min(marked) \in marked /\ \A k \in marked : Min(marked) <= k
      BY <1>5, <3>3, MinIsLeast
    <3>5. QED
      BY <3>1, <3>2, <3>4
  <2>2. comment_action(before) = m
    BY <1>5, ActionIsOldest
  <2> HIDE DEF m
  <2>3. first \in SUBSET Comment /\ Ids(Marked(first)) = marked
    BY <1>1, <2>1, <2>2, Edited
  <2>4. oldest = m /\ comment_action(first) = m
    BY <1>5, <2>3, ActionIsOldest DEF m
  <2> HIDE DEF oldest
  <2>5. second \in SUBSET Comment /\ Ids(Marked(second)) = marked
    BY <1>1, <2>1, <2>2, <2>3, <2>4, Edited
  <2>6. comment_action(second) = oldest
    BY <1>5, <2>4, <2>5, ActionIsOldest DEF m
  <2>7. ASSUME Cardinality(Marked(before)) <= 1 PROVE marked = {m}
    <3>1. Marked(before) # {}
      BY <1>5 DEF Ids
    <3>2. IsFiniteSet(Marked(before))
      BY FS_Subset DEF Marked
    <3>3. Cardinality(Marked(before)) \in Nat /\ Cardinality(Marked(before)) # 0
      BY <3>1, <3>2, FS_CardinalityType, FS_EmptySet
    <3>4. Cardinality(Marked(before)) = 1
      BY <2>7, <3>3
    <3>5. PICK c : Marked(before) = {c}
      BY <3>2, <3>4, FS_Singleton
    <3>6. QED
      BY <2>1, <3>5 DEF Ids
  <2> HIDE DEF marked
  <2>8. QED
    BY <1>3, <2>1, <2>4, <2>5, <2>6, <2>7 DEF oldest
<1>6. QED
  BY <1>4, <1>5

\* However long the list of comments, which of them are marked, and whether the first
\* two jobs overlapped: the report goes into the comment that was marked first.
THEOREM ReportsStick ==
    ASSUME NEW marks \in Seq(BOOLEAN)
    PROVE  OneComment(marks)
<1> DEFINE before == Commented(marks)
           entry(i) == [id |-> i, marked |-> marks[i], body |-> "old"]
<1>1. PICK n \in Nat : n = Len(marks)
  OBVIOUS
<1>2. before = { entry(i) : i \in 1 .. n }
  BY <1>1 DEF Commented
<1>3. \A i \in 1 .. n : entry(i) \in Comment /\ entry(i).id = i
  <2>1. \A i \in 1 .. n : marks[i] \in BOOLEAN /\ i \in Nat
    BY <1>1
  <2>2. QED
    BY <2>1 DEF Comment, Body
<1> HIDE DEF before, entry
<1>4. before \in SUBSET Comment /\ Ids(before) = 1 .. n
  BY <1>2, <1>3 DEF Ids
<1>5. IsFiniteSet(before)
  <2> DEFINE f == [i \in 1 .. n |-> entry(i)]
  <2>1. f \in Surjection(1 .. n, before)
    BY <1>2 DEF Surjection
  <2>2. IsFiniteSet(1 .. n)
    BY FS_Interval
  <2>3. QED
    BY <2>1, <2>2, FS_Surjection
<1>6. ASSUME NEW overlap \in BOOLEAN
      PROVE  LET second == AfterSecond(marks, overlap)
                 third == post_comment(second, "third")
                 oldest == Min(Ids(Marked(AfterFirst(marks))))
             IN  /\ \A c \in Marked(third) : c.id = oldest => c.body = "third"
                 /\ \A c \in third : c.id # oldest => c \in second
                 /\ ~overlap /\ Cardinality(Marked(before)) <= 1 => Cardinality(Marked(third)) = 1
  <2>1. AfterFirst(marks) = Perform(before, comment_action(before), "first")
    BY DEF AfterFirst, post_comment, before
  <2>2. AfterSecond(marks, overlap) =
            Perform(AfterFirst(marks),
                    IF overlap THEN comment_action(before) ELSE comment_action(AfterFirst(marks)),
                    "second")
    BY DEF AfterSecond, post_comment, before
  <2>3. post_comment(AfterSecond(marks, overlap), "third") =
            Perform(AfterSecond(marks, overlap), comment_action(AfterSecond(marks, overlap)), "third")
    BY DEF post_comment
  <2>4. QED
    BY <1>4, <1>5, <2>1, <2>2, <2>3, JobsStick
<1>7. QED
  BY <1>6 DEF OneComment, Ids, before

\* The runs the model takes are runs.
LEMMA HeadsAreRun ==
    ASSUME NEW head \in Costs, NEW runs \in RunsOf(head)
    PROVE  runs \in Runs(DOMAIN head)
<1>1. \A key \in DOMAIN head : head[key] \in Nat
  BY PrCheckAssumption DEF Costs
<1>2. CASE runs = PassingRuns(head)
  BY <1>1, <1>2 DEF PassingRuns, Runs
<1>3. CASE runs # PassingRuns(head)
  <2>1. \A failing, differing, host : RunWith(head, failing, differing, host) \in Runs(DOMAIN head)
    BY <1>1 DEF Runs, RunWith
  <2>2. PICK failing, differing, host : runs = RunWith(head, failing, differing, host)
    BY <1>3 DEF RunsOf
  <2>3. QED
    BY <2>1, <2>2
<1>4. QED
  BY <1>2, <1>3

\* Induction, for the numbers that have a property.
LEMMA Inductive ==
    ASSUME NEW T, 0 \in T, \A n \in Nat : n \in T => n + 1 \in T
    PROVE  \A n \in Nat : n \in T
<1> DEFINE Bad == Nat \ T
<1> SUFFICES ASSUME Bad # {} PROVE FALSE
  OBVIOUS
<1>1. PICK n \in Bad : \A m \in Bad : n <= m
  BY Least
<1>2. n # 0 /\ n \in Nat
  OBVIOUS
<1>3. n - 1 \in Nat /\ n - 1 \notin Bad
  BY <1>1, <1>2
<1>4. (n - 1) + 1 \in T
  BY <1>3
<1>5. QED
  BY <1>2, <1>4

-----------------------------------------------------------------------------
\* Ascending.

\* A numbering of a set, from its least member to its greatest.
Numbers(g, n, S) ==
    /\ DOMAIN g = 1 .. n
    /\ \A k \in 1 .. n : g[k] \in S
    /\ \A i \in S : \E k \in 1 .. n : g[k] = i
    /\ \A i, j \in 1 .. n : i < j => g[i] < g[j]

\* The members up to the k-th are k.
LEMMA RankIs ==
    ASSUME NEW n \in Nat, NEW S, \A i \in S : i \in Int, NEW g, Numbers(g, n, S),
           NEW k \in 0 .. n,
           NEW T, T \subseteq S, \A i \in 1 .. n : g[i] \in T <=> i <= k
    PROVE  IsFiniteSet(T) /\ Cardinality(T) = k
<1> DEFINE f == [i \in 1 .. k |-> g[i]]
<1>1. f \in Bijection(1 .. k, T)
  <2>1. f \in [1 .. k -> T]
    BY DEF Numbers
  <2>2. \A i, j \in 1 .. k : f[i] = f[j] => i = j
    <3>1. \A i \in 1 .. k : i \in 1 .. n /\ f[i] = g[i] /\ g[i] \in Int
      BY DEF Numbers
    <3>2. \A i, j \in 1 .. n : i < j => g[i] < g[j]
      BY DEF Numbers
    <3>3. QED
      BY <3>1, <3>2
  <2>3. \A t \in T : \E i \in 1 .. k : f[i] = t
    <3> SUFFICES ASSUME NEW t \in T PROVE \E i \in 1 .. k : f[i] = t
      OBVIOUS
    <3>1. PICK i \in 1 .. n : g[i] = t
      BY DEF Numbers
    <3>2. QED
      BY <3>1
  <2>4. QED
    BY <2>1, <2>2, <2>3 DEF Bijection, Injection, Surjection, IsInjective
<1>2. IsFiniteSet(1 .. k) /\ Cardinality(1 .. k) = k
  BY FS_Interval
<1>3. QED
  BY <1>1, <1>2, FS_Bijection DEF ExistsBijection

\* A numbering is the one Ascending finds.
LEMMA AscendingIs ==
    ASSUME NEW n \in Nat, NEW S, \A i \in S : i \in Int, NEW g, Numbers(g, n, S)
    PROVE  IsFiniteSet(S) /\ Cardinality(S) = n /\ Ascending(S) = [k \in 1 .. n |-> g[k]]
<1>1. IsFiniteSet(S) /\ Cardinality(S) = n
  <2>1. \A i \in 1 .. n : g[i] \in S <=> i <= n
    BY DEF Numbers
  <2>2. QED
    BY <2>1, RankIs
<1>2. ASSUME NEW k \in 1 .. n
      PROVE  Cardinality({ j \in S : j <= g[k] }) = k
  <2> DEFINE T == { j \in S : j <= g[k] }
  <2>1. \A i \in 1 .. n : g[i] \in T <=> i <= k
    <3> SUFFICES ASSUME NEW i \in 1 .. n PROVE g[i] <= g[k] <=> i <= k
      BY DEF Numbers
    <3>1. g[i] \in Int /\ g[k] \in Int
      BY DEF Numbers
    <3>2. i < k => g[i] < g[k]
      BY DEF Numbers
    <3>3. k < i => g[k] < g[i]
      BY DEF Numbers
    <3>4. QED
      BY <3>1, <3>2, <3>3
  <2>2. T \subseteq S
    OBVIOUS
  <2> HIDE DEF T
  <2>3. k \in 0 .. n
    OBVIOUS
  <2>4. Cardinality(T) = k
    BY <2>1, <2>2, <2>3, RankIs
  <2>5. QED
    BY <2>4 DEF T
<1>3. ASSUME NEW k \in 1 .. n
      PROVE  Nth(S, k) = g[k]
  <2>1. g[k] \in S
    BY DEF Numbers
  <2>2. \A i \in S : Cardinality({ j \in S : j <= i }) = k => i = g[k]
    <3> SUFFICES ASSUME NEW i \in S, Cardinality({ j \in S : j <= i }) = k PROVE i = g[k]
      OBVIOUS
    <3>1. PICK m \in 1 .. n : g[m] = i
      BY DEF Numbers
    <3>2. Cardinality({ j \in S : j <= i }) = m
      BY <1>2, <3>1
    <3>3. QED
      BY <3>1, <3>2
  <2>3. \E i \in S : Cardinality({ j \in S : j <= i }) = k
    BY <1>2, <2>1
  <2>4. Nth(S, k) \in S /\ Cardinality({ j \in S : j <= Nth(S, k) }) = k
    BY <2>3 DEF Nth
  <2>5. QED
    BY <2>2, <2>4
<1>4. QED
  BY <1>1, <1>3 DEF Ascending

\* Every finite set of numbers has one.
LEMMA AscendingNumbers ==
    ASSUME NEW S, \A i \in S : i \in Int, IsFiniteSet(S)
    PROVE  Cardinality(S) \in Nat /\ Numbers(Ascending(S), Cardinality(S), S)
<1> DEFINE n == Cardinality(S)
           To(i) == { j \in S : j <= i }
           rank == [i \in S |-> Cardinality(To(i))]
<1>1. n \in Nat
  BY FS_CardinalityType
<1>2. \A i \in S : IsFiniteSet(To(i)) /\ Cardinality(To(i)) \in Nat /\ Cardinality(To(i)) <= n
  <2> SUFFICES ASSUME NEW i \in S
               PROVE  IsFiniteSet(To(i)) /\ Cardinality(To(i)) \in Nat /\ Cardinality(To(i)) <= n
    OBVIOUS
  <2>1. To(i) \in SUBSET S
    OBVIOUS
  <2> HIDE DEF To
  <2>2. IsFiniteSet(To(i)) /\ Cardinality(To(i)) <= n
    BY <2>1, FS_Subset
  <2>3. QED
    BY <2>2, FS_CardinalityType
<1>3. \A i, j \in S : i < j => Cardinality(To(i)) < Cardinality(To(j))
  <2> SUFFICES ASSUME NEW i \in S, NEW j \in S, i < j
               PROVE  Cardinality(To(i)) < Cardinality(To(j))
    OBVIOUS
  <2>1. \A x \in To(i) : x \in To(j)
    OBVIOUS
  <2>2. To(i) \in SUBSET To(j) /\ j \in To(j) /\ j \notin To(i)
    BY <2>1
  <2>3. /\ IsFiniteSet(To(j)) /\ Cardinality(To(j)) \in Nat /\ Cardinality(To(i)) \in Nat
    BY <1>2
  <2> HIDE DEF To
  <2>4. Cardinality(To(i)) <= Cardinality(To(j))
    BY <2>2, <2>3, FS_Subset
  <2>5. Cardinality(To(i)) # Cardinality(To(j))
    BY <2>2, <2>3, FS_Subset
  <2>6. QED
    BY <2>3, <2>4, <2>5
<1>4. \A i \in S : Cardinality(To(i)) # 0
  <2> SUFFICES ASSUME NEW i \in S PROVE Cardinality(To(i)) # 0
    OBVIOUS
  <2>1. i \in To(i) /\ IsFiniteSet(To(i))
    BY <1>2
  <2> HIDE DEF To
  <2>2. QED
    BY <2>1, FS_EmptySet
<1> HIDE DEF To
<1>5. rank \in Injection(S, 1 .. n)
  <2>1. rank \in [S -> 1 .. n]
    BY <1>1, <1>2, <1>4
  <2>2. \A i, j \in S : rank[i] = rank[j] => i = j
    <3> SUFFICES ASSUME NEW i \in S, NEW j \in S, i # j PROVE rank[i] # rank[j]
      OBVIOUS
    <3>1. i < j \/ j < i
      OBVIOUS
    <3>2. QED
      BY <1>2, <1>3, <3>1
  <2>3. QED
    BY <2>1, <2>2 DEF Injection, IsInjective
<1>6. IsFiniteSet(1 .. n) /\ Cardinality(1 .. n) = n
  BY <1>1, FS_Interval
<1>7. rank \in Surjection(S, 1 .. n)
  BY <1>5, <1>6, FS_Injection
<1>8. \A k \in 1 .. n : \E i \in S : rank[i] = k
  BY <1>7 DEF Surjection
<1>9. \A k \in 1 .. n : \E i \in S : Cardinality(To(i)) = k
  BY <1>8
<1>10. \A k \in 1 .. n : Nth(S, k) \in S /\ Cardinality(To(Nth(S, k))) = k
  BY <1>9 DEF Nth, To
<1>11. \A i \in S : Cardinality(To(i)) \in 1 .. n
  BY <1>1, <1>2, <1>4
<1> HIDE DEF n
<1>12. \A i \in S : Nth(S, Cardinality(To(i))) = i
  <2> SUFFICES ASSUME NEW i \in S, NEW m, m = Nth(S, Cardinality(To(i))) PROVE m = i
    OBVIOUS
  <2>1. m \in S /\ Cardinality(To(m)) = Cardinality(To(i))
    BY <1>10, <1>11
  <2>2. ~(m < i) /\ ~(i < m)
    BY <1>2, <1>3, <2>1
  <2>3. QED
    BY <2>1, <2>2
<1>13. \A j, k \in 1 .. n : j < k => Nth(S, j) < Nth(S, k)
  <2> SUFFICES ASSUME NEW j \in 1 .. n, NEW k \in 1 .. n, j < k,
                      NEW a, a = Nth(S, j), NEW b, b = Nth(S, k)
               PROVE  a < b
    OBVIOUS
  <2>1. a \in S /\ b \in S /\ Cardinality(To(a)) = j /\ Cardinality(To(b)) = k
    BY <1>10
  <2>2. ~(b < a) /\ a # b
    BY <1>1, <1>3, <2>1
  <2>3. QED
    BY <2>1, <2>2
<1>14. Ascending(S) = [k \in 1 .. n |-> Nth(S, k)]
  BY DEF Ascending, n
<1>15. Numbers(Ascending(S), n, S)
  BY <1>10, <1>11, <1>12, <1>13, <1>14 DEF Numbers
<1>16. QED
  BY <1>1, <1>15 DEF n

-----------------------------------------------------------------------------
\* FlattenSeq.

\* The parts of a flattened sequence follow each other: part k stands behind off[k].
Placed(ss, off, f) ==
    /\ DOMAIN off = 1 .. Len(ss) + 1 /\ off[1] = 0
    /\ \A k \in 1 .. Len(ss) : off[k] \in Nat /\ off[k + 1] = off[k] + Len(ss[k])
    /\ Len(f) = off[Len(ss) + 1]
    /\ \A k \in 1 .. Len(ss) : \A j \in 1 .. Len(ss[k]) :
          off[k] + j \in 1 .. Len(f) /\ f[off[k] + j] = ss[k][j]
    /\ \A p \in 1 .. Len(f) : \E k \in 1 .. Len(ss) : \E j \in 1 .. Len(ss[k]) : p = off[k] + j

\* What the first n parts come to.
Flattens(ss, n, g) ==
    \A i \in 1 .. n : g[i] = IF i = 1 THEN ss[i] ELSE g[i - 1] \o ss[i]

\* The parts up to n are placed in g.
Fits(ss, off, n, g) ==
    /\ \A k \in 1 .. n : \A j \in 1 .. Len(ss[k]) :
          off[k] + j \in 1 .. Len(g) /\ g[off[k] + j] = ss[k][j]
    /\ \A p \in 1 .. Len(g) : \E k \in 1 .. n : \E j \in 1 .. Len(ss[k]) : p = off[k] + j

\* FlattenSeq is the last of the sequences that take one part more each.
LEMMA FlattenExists ==
    ASSUME NEW X, NEW ss \in Seq(Seq(X)), Len(ss) # 0
    PROVE  \E g \in [1 .. Len(ss) -> Seq(X)] :
              FlattenSeq(ss) = g[Len(ss)] /\ Flattens(ss, Len(ss), g)
<1> DEFINE To(n) == \E g \in [1 .. n -> Seq(X)] : Flattens(ss, n, g)
           T == { n \in Nat : n <= Len(ss) => To(n) }
<1>1. PICK len \in Nat : len = Len(ss)
  OBVIOUS
<1>2. \A i \in 1 .. len : ss[i] \in Seq(X)
  BY <1>1
<1>3. 0 \in T
  <2>1. Flattens(ss, 0, [i \in 1 .. 0 |-> <<>>])
    BY DEF Flattens
  <2>2. [i \in 1 .. 0 |-> <<>>] \in [1 .. 0 -> Seq(X)]
    OBVIOUS
  <2>3. QED
    BY <2>1, <2>2
<1>4. ASSUME NEW n \in Nat, n \in T PROVE n + 1 \in T
  <2> SUFFICES ASSUME n + 1 <= len PROVE To(n + 1)
    BY <1>1
  <2>1. PICK g \in [1 .. n -> Seq(X)] : Flattens(ss, n, g)
    BY <1>1, <1>4
  <2> DEFINE last == IF n = 0 THEN ss[n + 1] ELSE g[n] \o ss[n + 1]
             h == [i \in 1 .. n + 1 |-> IF i = n + 1 THEN last ELSE g[i]]
  <2>2. last \in Seq(X)
    <3>1. n + 1 \in 1 .. len
      OBVIOUS
    <3>2. ss[n + 1] \in Seq(X)
      BY <1>2, <3>1
    <3>3. n # 0 => g[n] \in Seq(X)
      OBVIOUS
    <3>4. QED
      BY <3>2, <3>3, ConcatProperties
  <2>3. h \in [1 .. n + 1 -> Seq(X)]
    BY <2>2
  <2>4. Flattens(ss, n + 1, h)
    <3> SUFFICES ASSUME NEW i \in 1 .. n + 1
                 PROVE  h[i] = IF i = 1 THEN ss[i] ELSE h[i - 1] \o ss[i]
      BY DEF Flattens
    <3>1. CASE i = n + 1
      <4>1. h[i] = last
        BY <3>1
      <4>2. n # 0 => h[i - 1] = g[n]
        BY <3>1
      <4>3. QED
        BY <3>1, <4>1, <4>2
    <3>2. CASE i # n + 1
      <4>1. i \in 1 .. n /\ h[i] = g[i]
        BY <3>2
      <4>2. i # 1 => h[i - 1] = g[i - 1]
        BY <4>1
      <4>3. QED
        BY <2>1, <4>1, <4>2 DEF Flattens
    <3>3. QED
      BY <3>1, <3>2
  <2>5. QED
    BY <2>3, <2>4
<1>5. \A n \in Nat : n \in T
  <2> HIDE DEF T
  <2>1. QED
    BY <1>3, <1>4, Inductive
<1>6. PICK g \in [1 .. len -> Seq(X)] : Flattens(ss, len, g)
  BY <1>1, <1>5
<1> DEFINE Eq(f) == f = [i \in 1 .. Len(ss) |-> IF i = 1 THEN ss[i] ELSE f[i - 1] \o ss[i]]
           flat == CHOOSE f : Eq(f)
<1>7. Eq(g)
  BY <1>1, <1>6 DEF Flattens
<1>8. FlattenSeq(ss) = flat[Len(ss)]
  BY DEF FlattenSeq
<1>9. Eq(flat)
  BY <1>7
<1> HIDE DEF flat
<1>10. Flattens(ss, len, flat)
  BY <1>1, <1>9 DEF Flattens
<1>11. flat \in [1 .. len -> Seq(X)]
  <2> DEFINE U == { n \in Nat : n <= len => \A i \in 1 .. n : flat[i] \in Seq(X) }
  <2>1. 0 \in U
    OBVIOUS
  <2>2. ASSUME NEW n \in Nat, n \in U PROVE n + 1 \in U
    <3> SUFFICES ASSUME n + 1 <= len PROVE flat[n + 1] \in Seq(X)
      BY <2>2
    <3>1. n + 1 \in 1 .. len
      OBVIOUS
    <3>2. ss[n + 1] \in Seq(X)
      BY <1>2, <3>1
    <3>3. n # 0 => flat[n] \in Seq(X)
      BY <2>2
    <3>4. flat[n + 1] = IF n = 0 THEN ss[n + 1] ELSE flat[n] \o ss[n + 1]
      BY <1>10, <3>1 DEF Flattens
    <3>5. QED
      BY <3>2, <3>3, <3>4, ConcatProperties
  <2>3. \A n \in Nat : n \in U
    <3> HIDE DEF U
    <3>1. QED
      BY <2>1, <2>2, Inductive
  <2>4. \A i \in 1 .. len : flat[i] \in Seq(X)
    <3>1. len \in U
      <4> HIDE DEF U
      <4>1. QED
        BY <2>3
    <3>2. QED
      BY <3>1
  <2>5. flat = [i \in 1 .. len |-> flat[i]]
    BY <1>1, <1>9
  <2>6. QED
    BY <2>4, <2>5
<1>12. QED
  BY <1>1, <1>8, <1>10, <1>11

\* One part more.
LEMMA FitsNext ==
    ASSUME NEW X, NEW n \in Nat, NEW ss, NEW part \in Seq(X), part = ss[n + 1], NEW off,
           NEW g \in Seq(X), off[n + 1] = Len(g), \A k \in 1 .. n : off[k] \in Nat,
           \A k \in 1 .. n : Len(ss[k]) \in Nat,
           Fits(ss, off, n, g)
    PROVE  Fits(ss, off, n + 1, g \o part)
<1>1. PICK a \in Nat : a = Len(g)
  OBVIOUS
<1>2. PICK b \in Nat : b = Len(part)
  OBVIOUS
<1> DEFINE h == g \o part
<1>3. Len(h) = a + b /\ \A p \in 1 .. a + b : h[p] = IF p <= a THEN g[p] ELSE part[p - a]
  BY <1>1, <1>2, ConcatProperties
<1> HIDE DEF h
<1>4. ASSUME NEW k \in 1 .. n + 1, NEW j \in 1 .. Len(ss[k])
      PROVE  off[k] + j \in 1 .. Len(h) /\ h[off[k] + j] = ss[k][j]
  <2>1. CASE k = n + 1
    <3>1. j \in 1 .. b /\ off[k] = a
      BY <1>1, <1>2, <2>1
    <3>2. a + j \in 1 .. a + b /\ ~(a + j <= a) /\ (a + j) - a = j
      BY <3>1
    <3>3. h[a + j] = part[j]
      BY <1>3, <3>2
    <3>4. QED
      BY <1>3, <2>1, <3>1, <3>2, <3>3
  <2>2. CASE k # n + 1
    <3>1. k \in 1 .. n
      BY <2>2
    <3>2. off[k] + j \in 1 .. a /\ g[off[k] + j] = ss[k][j]
      BY <1>1, <3>1 DEF Fits
    <3>3. PICK p \in 1 .. a : p = off[k] + j
      BY <3>2
    <3>4. p \in 1 .. a + b /\ p <= a
      OBVIOUS
    <3>5. h[p] = g[p]
      BY <1>3, <3>4
    <3>6. QED
      BY <1>3, <3>2, <3>3, <3>4, <3>5
  <2>3. QED
    BY <2>1, <2>2
<1>5. ASSUME NEW p \in 1 .. Len(h)
      PROVE  \E k \in 1 .. n + 1 : \E j \in 1 .. Len(ss[k]) : p = off[k] + j
  <2>0. p \in 1 .. a + b
    BY <1>3
  <2>1. CASE p <= a
    <3>1. p \in 1 .. a
      BY <2>0, <2>1
    <3>2. PICK k \in 1 .. n : \E j \in 1 .. Len(ss[k]) : p = off[k] + j
      BY <1>1, <3>1 DEF Fits
    <3>3. k \in 1 .. n + 1
      OBVIOUS
    <3>4. QED
      BY <3>2, <3>3
  <2>2. CASE p > a
    <3>1. PICK j \in 1 .. b : p = a + j
      <4>1. p - a \in 1 .. b /\ p = a + (p - a)
        BY <2>0, <2>2
      <4>2. QED
        BY <4>1
    <3>2. n + 1 \in 1 .. n + 1 /\ j \in 1 .. Len(ss[n + 1]) /\ p = off[n + 1] + j
      BY <1>1, <1>2, <3>1
    <3>3. QED
      BY <3>2
  <2>3. QED
    BY <2>0, <2>1, <2>2
<1>6. QED
  BY <1>4, <1>5 DEF Fits, h

\* So every part stands behind the parts before it.
LEMMA FlattenPlaces ==
    ASSUME NEW X, NEW ss \in Seq(Seq(X))
    PROVE  FlattenSeq(ss) \in Seq(X) /\ \E off : Placed(ss, off, FlattenSeq(ss))
<1>1. PICK len \in Nat : len = Len(ss)
  OBVIOUS
<1>2. \A i \in 1 .. len : ss[i] \in Seq(X) /\ Len(ss[i]) \in Nat
  BY <1>1
<1>3. CASE len = 0
  <2>1. ss = <<>>
    BY <1>1, <1>3, EmptySeq
  <2>2. FlattenSeq(ss) = <<>>
    BY <2>1 DEF FlattenSeq
  <2>3. Placed(<<>>, [k \in 1 .. 1 |-> 0], <<>>)
    BY DEF Placed
  <2>4. \E off : Placed(<<>>, off, <<>>)
    BY <2>3
  <2>5. <<>> \in Seq(X)
    OBVIOUS
  <2>6. QED
    BY <2>1, <2>2, <2>4, <2>5, Zenon
<1>4. CASE len # 0
  <2>1. PICK g \in [1 .. len -> Seq(X)] : FlattenSeq(ss) = g[len] /\ Flattens(ss, len, g)
    BY <1>1, <1>4, FlattenExists
  <2>2. \A i \in 1 .. len : g[i] \in Seq(X) /\ Len(g[i]) \in Nat
    OBVIOUS
  <2>3. \A k \in 1 .. len : g[k] = IF k = 1 THEN ss[k] ELSE g[k - 1] \o ss[k]
    BY <2>1 DEF Flattens
  <2> DEFINE off == [k \in 1 .. len + 1 |-> IF k = 1 THEN 0 ELSE Len(g[k - 1])]
  <2>4. /\ DOMAIN off = 1 .. len + 1 /\ off[1] = 0
        /\ \A k \in 1 .. len : off[k + 1] = Len(g[k])
    OBVIOUS
  <2> HIDE DEF off
  <2>5. \A k \in 1 .. len : off[k] \in Nat
    <3> SUFFICES ASSUME NEW k \in 1 .. len PROVE off[k] \in Nat
      OBVIOUS
    <3>1. CASE k = 1
      BY <2>4, <3>1
    <3>2. CASE k # 1
      <4>1. PICK m \in 1 .. len : m + 1 = k
        <5>1. k - 1 \in 1 .. len /\ (k - 1) + 1 = k
          BY <3>2
        <5>2. QED
          BY <5>1
      <4>2. off[k] = Len(g[m])
        BY <2>4, <4>1
      <4>3. QED
        BY <2>2, <4>2
    <3>3. QED
      BY <3>1, <3>2
  <2>6. \A k \in 1 .. len : off[k + 1] = off[k] + Len(ss[k])
    <3> SUFFICES ASSUME NEW k \in 1 .. len PROVE Len(g[k]) = off[k] + Len(ss[k])
      BY <2>4
    <3>1. CASE k = 1
      <4>1. g[1] = ss[1]
        BY <2>3, <3>1
      <4>2. QED
        BY <1>2, <2>4, <3>1, <4>1
    <3>2. CASE k # 1
      <4>1. PICK m \in 1 .. len : m = k - 1 /\ m + 1 = k
        BY <3>2
      <4>2. g[k] = g[m] \o ss[k] /\ off[k] = Len(g[m])
        BY <2>3, <2>4, <3>2, <4>1
      <4>3. g[m] \in Seq(X) /\ ss[k] \in Seq(X)
        BY <1>2, <2>2
      <4>4. Len(g[m] \o ss[k]) = Len(g[m]) + Len(ss[k])
        BY <4>3, ConcatProperties
      <4>5. QED
        BY <4>2, <4>4
    <3>3. QED
      BY <3>1, <3>2
  <2> DEFINE U == { n \in Nat : n \in 1 .. len => Fits(ss, off, n, g[n]) }
  <2>7. 0 \in U
    OBVIOUS
  <2>8. ASSUME NEW n \in Nat, n \in U PROVE n + 1 \in U
    <3> SUFFICES ASSUME n + 1 \in 1 .. len PROVE Fits(ss, off, n + 1, g[n + 1])
      OBVIOUS
    <3>0. ss[n + 1] \in Seq(X)
      BY <1>2
    <3>1. CASE n = 0
      <4>1. g[1] = ss[1] /\ Fits(ss, off, 0, <<>>) /\ <<>> \o ss[1] = ss[1]
        <5>1. g[1] = ss[1]
          <6>1. 1 \in 1 .. len
            BY <3>1
          <6>2. QED
            BY <2>3, <6>1, Zenon
        <5>2. Fits(ss, off, 0, <<>>)
          BY DEF Fits
        <5>3. <<>> \o ss[1] = ss[1]
          BY <3>0, <3>1, ConcatEmptySeq
        <5>4. QED
          BY <5>1, <5>2, <5>3
      <4>2. off[0 + 1] = Len(<<>>) /\ <<>> \in Seq(X) /\ ss[1] \in Seq(X) /\ ss[0 + 1] = ss[1]
        BY <2>4, <3>0, <3>1
      <4>3. Fits(ss, off, 0 + 1, <<>> \o ss[1])
        <5>1. /\ \A k \in 1 .. 0 : off[k] \in Nat
              /\ \A k \in 1 .. 0 : Len(ss[k]) \in Nat
          OBVIOUS
        <5>2. QED
          BY <4>1, <4>2, <5>1, FitsNext
      <4>4. QED
        BY <3>1, <4>1, <4>3
    <3>2. CASE n # 0
      <4>1. n \in 1 .. len
        BY <3>2
      <4>2. Fits(ss, off, n, g[n])
        BY <2>8, <4>1
      <4>3. g[n] \in Seq(X) /\ off[n + 1] = Len(g[n])
        BY <2>2, <2>4, <4>1
      <4>4. /\ \A k \in 1 .. n : off[k] \in Nat
            /\ \A k \in 1 .. n : Len(ss[k]) \in Nat
        BY <1>2, <2>5, <4>1
      <4>5. Fits(ss, off, n + 1, g[n] \o ss[n + 1])
        <5> HIDE DEF U
        <5>1. QED
          BY <3>0, <4>2, <4>3, <4>4, FitsNext
      <4>6. g[n + 1] = g[n] \o ss[n + 1]
        <5>1. (n + 1) - 1 = n /\ n + 1 # 1
          BY <3>2
        <5>2. QED
          BY <2>3, <5>1
      <4>7. QED
        BY <4>5, <4>6
    <3>3. QED
      BY <3>1, <3>2
  <2>9. len \in U
    <3> HIDE DEF U
    <3>1. QED
      BY <2>7, <2>8, Inductive
  <2>10. Fits(ss, off, len, g[len])
    BY <1>4, <2>9
  <2>11. len \in 1 .. len
    BY <1>4
  <2>12. Len(g[len]) = off[len + 1]
    BY <2>4, <2>11
  <2>13. Placed(ss, off, g[len])
    BY <1>1, <2>4, <2>5, <2>6, <2>10, <2>12 DEF Placed, Fits
  <2>14. g[len] \in Seq(X)
    BY <2>2, <2>11
  <2>15. QED
    BY <2>1, <2>13, <2>14
<1>5. QED
  BY <1>3, <1>4

-----------------------------------------------------------------------------
\* A scan from the left.

\* S are the places in 1 .. n at which a scan stands that steps over one more place
\* from a place in A, and over two more from a place in B.
Scan(S, n, A, B) ==
    /\ S \subseteq 1 .. n
    /\ \A i \in 1 .. n :
          i \in S <=> ~(i - 1 \in S /\ i - 1 \in A) /\ ~(i - 2 \in S /\ i - 2 \in B)

\* There is one.
LEMMA ScanExists ==
    ASSUME NEW n \in Nat, NEW A, NEW B
    PROVE  \E S : Scan(S, n, A, B)
<1> DEFINE T == { m \in Nat : \E S : Scan(S, m, A, B) }
<1>1. 0 \in T
  <2>1. Scan({}, 0, A, B)
    BY DEF Scan
  <2>2. QED
    BY <2>1
<1>2. ASSUME NEW m \in Nat, m \in T PROVE m + 1 \in T
  <2>1. PICK S : Scan(S, m, A, B)
    BY <1>2
  <2> DEFINE stands == ~(m \in S /\ m \in A) /\ ~(m - 1 \in S /\ m - 1 \in B)
             U == IF stands THEN S \cup {m + 1} ELSE S
  <2>2. S \subseteq 1 .. m
    BY <2>1 DEF Scan
  <2>3. U \subseteq 1 .. m + 1
    BY <2>2
  <2>4. \A i \in 0 .. m : i \in U <=> i \in S
    BY <2>2
  <2>5. m + 1 \in U <=> stands
    BY <2>2
  <2> HIDE DEF U
  <2>6. ASSUME NEW i \in 1 .. m + 1
        PROVE  i \in U <=> ~(i - 1 \in U /\ i - 1 \in A) /\ ~(i - 2 \in U /\ i - 2 \in B)
    <3>1. CASE i = m + 1
      <4>1. i - 1 = m /\ i - 2 = m - 1 /\ i = m + 1
        BY <3>1
      <4>2. m \in U <=> m \in S
        BY <2>4
      <4>3. m - 1 \in U <=> m - 1 \in S
        <5>1. CASE m = 0
          BY <2>2, <2>3, <5>1
        <5>2. CASE m # 0
          BY <2>4, <5>2
        <5>3. QED
          BY <5>1, <5>2
      <4>4. QED
        BY <2>5, <4>1, <4>2, <4>3
    <3>2. CASE i # m + 1
      <4>1. i \in 1 .. m /\ i - 1 \in 0 .. m
        BY <3>2
      <4>2. i - 2 \in U <=> i - 2 \in S
        <5>1. CASE i = 1
          BY <2>2, <2>3, <5>1
        <5>2. CASE i # 1
          BY <2>4, <4>1, <5>2
        <5>3. QED
          BY <5>1, <5>2
      <4>3. i - 1 \in U <=> i - 1 \in S
        BY <2>4, <4>1
      <4>4. i \in U <=> i \in S
        BY <2>4, <4>1
      <4>5. i \in S <=> ~(i - 1 \in S /\ i - 1 \in A) /\ ~(i - 2 \in S /\ i - 2 \in B)
        BY <2>1, <4>1 DEF Scan
      <4>6. QED
        BY <4>2, <4>3, <4>4, <4>5, Zenon
    <3>3. QED
      BY <3>1, <3>2
  <2>7. Scan(U, m + 1, A, B)
    BY <2>3, <2>6 DEF Scan
  <2>8. QED
    BY <2>7
<1>3. n \in T
  <2> HIDE DEF T
  <2>1. QED
    BY <1>1, <1>2, Inductive
<1>4. QED
  BY <1>3

\* There is only one.
LEMMA ScanOnly ==
    ASSUME NEW n \in Nat, NEW A, NEW B, NEW S, NEW T, Scan(S, n, A, B), Scan(T, n, A, B)
    PROVE  S = T
<1> DEFINE D == { i \in 1 .. n : ~(i \in S <=> i \in T) }
<1>1. D = {}
  <2> SUFFICES ASSUME D # {} PROVE FALSE
    OBVIOUS
  <2>1. D \in SUBSET Nat
    OBVIOUS
  <2>2. PICK i \in D : \A j \in D : i <= j
    <3> HIDE DEF D
    <3>1. QED
      BY <2>1, Least
  <2>3. i \in 1 .. n /\ ~(i \in S <=> i \in T)
    OBVIOUS
  <2>4. \A j \in Int : j < i => (j \in S <=> j \in T)
    <3> SUFFICES ASSUME NEW j \in Int, j < i PROVE j \in S <=> j \in T
      OBVIOUS
    <3>1. CASE j \in 1 .. n
      <4>1. j \notin D
        BY <2>2, <2>3
      <4>2. QED
        BY <3>1, <4>1
    <3>2. CASE j \notin 1 .. n
      BY <3>2 DEF Scan
    <3>3. QED
      BY <3>1, <3>2
  <2>5. (i - 1 \in S <=> i - 1 \in T) /\ (i - 2 \in S <=> i - 2 \in T)
    BY <2>3, <2>4
  <2>6. i \in S <=> ~(i - 1 \in S /\ i - 1 \in A) /\ ~(i - 2 \in S /\ i - 2 \in B)
    BY <2>3 DEF Scan
  <2>7. i \in T <=> ~(i - 1 \in T /\ i - 1 \in A) /\ ~(i - 2 \in T /\ i - 2 \in B)
    BY <2>3 DEF Scan
  <2>8. QED
    BY <2>3, <2>5, <2>6, <2>7, Zenon
<1>2. \A i \in S \cup T : i \in 1 .. n
  BY DEF Scan
<1>3. QED
  BY <1>1, <1>2

\* The scans of the codecs are written as functions: whether the scan stands at i.
Stands(f, i, A, B) ==
    /\ i > 1 => ~(f[i - 1] /\ i - 1 \in A)
    /\ i > 2 => ~(f[i - 2] /\ i - 2 \in B)

\* There is such a function: it is built place by place, from the left.
LEMMA StandsExists ==
    ASSUME NEW n \in Nat, NEW A, NEW B
    PROVE  \E f \in [1 .. n -> BOOLEAN] : \A i \in 1 .. n : f[i] <=> Stands(f, i, A, B)
<1>1. PICK S : Scan(S, n, A, B)
  BY ScanExists
<1> DEFINE h == [i \in 1 .. n |-> i \in S]
<1>2. h \in [1 .. n -> BOOLEAN]
  OBVIOUS
<1>3. ASSUME NEW i \in 1 .. n PROVE h[i] <=> Stands(h, i, A, B)
  <2>1. i > 1 => (h[i - 1] <=> i - 1 \in S)
    <3> SUFFICES ASSUME i > 1 PROVE h[i - 1] <=> i - 1 \in S
      OBVIOUS
    <3>1. i - 1 \in 1 .. n
      OBVIOUS
    <3>2. QED
      BY <3>1, Zenon
  <2>2. i > 2 => (h[i - 2] <=> i - 2 \in S)
    <3> SUFFICES ASSUME i > 2 PROVE h[i - 2] <=> i - 2 \in S
      OBVIOUS
    <3>1. i - 2 \in 1 .. n
      OBVIOUS
    <3>2. QED
      BY <3>1, Zenon
  <2>3. i \in S <=> ~(i - 1 \in S /\ i - 1 \in A) /\ ~(i - 2 \in S /\ i - 2 \in B)
    BY <1>1 DEF Scan
  <2>4. (~(i > 1) => i - 1 \notin S) /\ (~(i > 2) => i - 2 \notin S)
    BY <1>1 DEF Scan
  <2>5. h[i] <=> i \in S
    BY Zenon
  <2> HIDE DEF h
  <2>6. QED
    BY <2>1, <2>2, <2>3, <2>4, <2>5, Zenon DEF Stands
<1>4. QED
  BY <1>2, <1>3

\* The places it is TRUE at are a scan.
LEMMA StandsScan ==
    ASSUME NEW n \in Nat, NEW A, NEW B, NEW f, \A i \in 1 .. n : f[i] <=> Stands(f, i, A, B)
    PROVE  Scan({ i \in 1 .. n : f[i] }, n, A, B)
<1> DEFINE P == { i \in 1 .. n : f[i] }
<1>1. P \subseteq 1 .. n /\ \A i \in 1 .. n : i \in P <=> f[i]
  OBVIOUS
<1> HIDE DEF P
<1>2. ASSUME NEW i \in 1 .. n
      PROVE  i \in P <=> ~(i - 1 \in P /\ i - 1 \in A) /\ ~(i - 2 \in P /\ i - 2 \in B)
  <2>1. i > 1 => (f[i - 1] <=> i - 1 \in P)
    <3> SUFFICES ASSUME i > 1 PROVE f[i - 1] <=> i - 1 \in P
      OBVIOUS
    <3>1. i - 1 \in 1 .. n
      OBVIOUS
    <3>2. QED
      BY <1>1, <3>1, Zenon
  <2>2. i > 2 => (f[i - 2] <=> i - 2 \in P)
    <3> SUFFICES ASSUME i > 2 PROVE f[i - 2] <=> i - 2 \in P
      OBVIOUS
    <3>1. i - 2 \in 1 .. n
      OBVIOUS
    <3>2. QED
      BY <1>1, <3>1, Zenon
  <2>3. (~(i > 1) => i - 1 \notin P) /\ (~(i > 2) => i - 2 \notin P)
    BY <1>1
  <2>4. f[i] <=> Stands(f, i, A, B)
    OBVIOUS
  <2>5. i \in P <=> f[i]
    BY <1>1, Zenon
  <2>6. QED
    BY <2>1, <2>2, <2>3, <2>4, <2>5, Zenon DEF Stands
<1>3. QED
  BY <1>1, <1>2 DEF Scan, P

\* Boolean values that are equivalent are equal.
LEMMA SameTruth ==
    ASSUME NEW p \in BOOLEAN, NEW q \in BOOLEAN, p <=> q
    PROVE  p = q
OBVIOUS

\* The scan over percent escapes.
LEMMA PctScan ==
    ASSUME NEW X, NEW s \in Seq(X), NEW A, A = { i \in DOMAIN s : s[i] = Percent }
    PROVE  Scan(PctStarts(s), Len(s), A, A)
<1>1. PICK n \in Nat : n = Len(s) /\ DOMAIN s = 1 .. n
  OBVIOUS
<1>2. PICK h \in [1 .. n -> BOOLEAN] : \A i \in 1 .. n : h[i] <=> Stands(h, i, A, A)
  BY StandsExists
<1> DEFINE Rule(f, i) == /\ i > 1 => ~(f[i - 1] /\ s[i - 1] = Percent)
                         /\ i > 2 => ~(f[i - 2] /\ s[i - 2] = Percent)
           Eq(f) == f = [i \in 1 .. Len(s) |-> Rule(f, i)]
           start == CHOOSE f : Eq(f)
<1>3. ASSUME NEW f, NEW i \in 1 .. n PROVE Rule(f, i) <=> Stands(f, i, A, A)
  <2>1. i > 1 => (s[i - 1] = Percent <=> i - 1 \in A)
    <3> SUFFICES ASSUME i > 1 PROVE s[i - 1] = Percent <=> i - 1 \in A
      OBVIOUS
    <3>1. i - 1 \in 1 .. n
      OBVIOUS
    <3>2. QED
      BY <1>1, <3>1, Zenon
  <2>2. i > 2 => (s[i - 2] = Percent <=> i - 2 \in A)
    <3> SUFFICES ASSUME i > 2 PROVE s[i - 2] = Percent <=> i - 2 \in A
      OBVIOUS
    <3>1. i - 2 \in 1 .. n
      OBVIOUS
    <3>2. QED
      BY <1>1, <3>1, Zenon
  <2>3. QED
    BY <2>1, <2>2, Zenon DEF Stands
<1>4. Eq(h)
  <2>1. ASSUME NEW i \in 1 .. n PROVE h[i] = Rule(h, i)
    <3>1. h[i] \in BOOLEAN
      OBVIOUS
    <3>2. Rule(h, i) \in BOOLEAN
      OBVIOUS
    <3>3. h[i] <=> Rule(h, i)
      BY <1>2, <1>3, Zenon
    <3> HIDE DEF Rule
    <3>4. QED
      BY <3>1, <3>2, <3>3, SameTruth, Zenon
  <2>2. h = [i \in 1 .. n |-> h[i]]
    OBVIOUS
  <2> HIDE DEF Rule
  <2>3. QED
    BY <1>1, <2>1, <2>2, Zenon
<1>5. Eq(start)
  BY <1>4, Zenon
<1>6. PctStarts(s) = { i \in DOMAIN s : start[i] }
  BY Zenon DEF PctStarts
<1> HIDE DEF start
<1>7. \A i \in 1 .. n : start[i] <=> Stands(start, i, A, A)
  <2> SUFFICES ASSUME NEW i \in 1 .. n PROVE start[i] <=> Stands(start, i, A, A)
    OBVIOUS
  <2>1. start[i] = Rule(start, i)
    <3> HIDE DEF Rule
    <3>1. QED
      BY <1>1, <1>5, Zenon
  <2> HIDE DEF Rule
  <2>2. QED
    BY <1>3, <2>1, Zenon
<1>8. Scan({ i \in 1 .. n : start[i] }, n, A, A)
  BY <1>7, StandsScan
<1>9. QED
  BY <1>1, <1>6, <1>8

\* The scan over backslashes.
LEMMA EscapeScan ==
    ASSUME NEW X, NEW s \in Seq(X), NEW A, A = { i \in DOMAIN s : s[i] = Backslash }
    PROVE  Scan(EscapeStarts(s), Len(s), A, {})
<1>1. PICK n \in Nat : n = Len(s) /\ DOMAIN s = 1 .. n
  OBVIOUS
<1>2. PICK h \in [1 .. n -> BOOLEAN] : \A i \in 1 .. n : h[i] <=> Stands(h, i, A, {})
  BY StandsExists
<1> DEFINE Rule(f, i) == i > 1 => ~(f[i - 1] /\ s[i - 1] = Backslash)
           Eq(f) == f = [i \in 1 .. Len(s) |-> Rule(f, i)]
           start == CHOOSE f : Eq(f)
<1>3. ASSUME NEW f, NEW i \in 1 .. n PROVE Rule(f, i) <=> Stands(f, i, A, {})
  <2>1. i > 1 => (s[i - 1] = Backslash <=> i - 1 \in A)
    <3> SUFFICES ASSUME i > 1 PROVE s[i - 1] = Backslash <=> i - 1 \in A
      OBVIOUS
    <3>1. i - 1 \in 1 .. n
      OBVIOUS
    <3>2. QED
      BY <1>1, <3>1, Zenon
  <2>2. QED
    BY <2>1, Zenon DEF Stands
<1>4. Eq(h)
  <2>1. ASSUME NEW i \in 1 .. n PROVE h[i] = Rule(h, i)
    <3>1. h[i] \in BOOLEAN
      OBVIOUS
    <3>2. Rule(h, i) \in BOOLEAN
      OBVIOUS
    <3>3. h[i] <=> Rule(h, i)
      BY <1>2, <1>3, Zenon
    <3> HIDE DEF Rule
    <3>4. QED
      BY <3>1, <3>2, <3>3, SameTruth, Zenon
  <2>2. h = [i \in 1 .. n |-> h[i]]
    OBVIOUS
  <2> HIDE DEF Rule
  <2>3. QED
    BY <1>1, <2>1, <2>2, Zenon
<1>5. Eq(start)
  BY <1>4, Zenon
<1>6. EscapeStarts(s) = { i \in DOMAIN s : start[i] }
  BY Zenon DEF EscapeStarts
<1> HIDE DEF start
<1>7. \A i \in 1 .. n : start[i] <=> Stands(start, i, A, {})
  <2> SUFFICES ASSUME NEW i \in 1 .. n PROVE start[i] <=> Stands(start, i, A, {})
    OBVIOUS
  <2>1. start[i] = Rule(start, i)
    <3> HIDE DEF Rule
    <3>1. QED
      BY <1>1, <1>5, Zenon
  <2> HIDE DEF Rule
  <2>2. QED
    BY <1>3, <2>1, Zenon
<1>8. Scan({ i \in 1 .. n : start[i] }, n, A, {})
  BY <1>7, StandsScan
<1>9. QED
  BY <1>1, <1>6, <1>8

\* The scan of a replacement, over the pairs of a backslash and x.
LEMMA PairScan ==
    ASSUME NEW X, NEW s \in Seq(X), NEW x, NEW A,
           A = { i \in DOMAIN s : s[i] = Backslash /\ i < Len(s) /\ s[i + 1] = x }
    PROVE  Scan(PairStarts(s, x), Len(s), A, {})
<1>1. PICK n \in Nat : n = Len(s) /\ DOMAIN s = 1 .. n
  OBVIOUS
<1>2. PICK h \in [1 .. n -> BOOLEAN] : \A i \in 1 .. n : h[i] <=> Stands(h, i, A, {})
  BY StandsExists
<1> DEFINE Rule(f, i) == i > 1 => ~(f[i - 1] /\ s[i - 1] = Backslash /\ s[i] = x)
           Eq(f) == f = [i \in 1 .. Len(s) |-> Rule(f, i)]
           start == CHOOSE f : Eq(f)
<1>3. ASSUME NEW f, NEW i \in 1 .. n PROVE Rule(f, i) <=> Stands(f, i, A, {})
  <2>1. i > 1 => (s[i - 1] = Backslash /\ s[i] = x <=> i - 1 \in A)
    <3> SUFFICES ASSUME i > 1 PROVE s[i - 1] = Backslash /\ s[i] = x <=> i - 1 \in A
      OBVIOUS
    <3>1. i - 1 \in 1 .. n /\ (i - 1) + 1 = i /\ i - 1 < n
      OBVIOUS
    <3>2. i - 1 \in A <=> s[i - 1] = Backslash /\ i - 1 < n /\ s[(i - 1) + 1] = x
      BY <1>1, <3>1, Zenon
    <3>3. QED
      BY <3>1, <3>2, Zenon
  <2>2. QED
    BY <2>1, Zenon DEF Stands
<1>4. Eq(h)
  <2>1. ASSUME NEW i \in 1 .. n PROVE h[i] = Rule(h, i)
    <3>1. h[i] \in BOOLEAN
      OBVIOUS
    <3>2. Rule(h, i) \in BOOLEAN
      OBVIOUS
    <3>3. h[i] <=> Rule(h, i)
      BY <1>2, <1>3, Zenon
    <3> HIDE DEF Rule
    <3>4. QED
      BY <3>1, <3>2, <3>3, SameTruth, Zenon
  <2>2. h = [i \in 1 .. n |-> h[i]]
    OBVIOUS
  <2> HIDE DEF Rule
  <2>3. QED
    BY <1>1, <2>1, <2>2, Zenon
<1>5. Eq(start)
  BY <1>4, Zenon
<1>6. PairStarts(s, x) = { i \in DOMAIN s : start[i] }
  BY Zenon DEF PairStarts
<1> HIDE DEF start
<1>7. \A i \in 1 .. n : start[i] <=> Stands(start, i, A, {})
  <2> SUFFICES ASSUME NEW i \in 1 .. n PROVE start[i] <=> Stands(start, i, A, {})
    OBVIOUS
  <2>1. start[i] = Rule(start, i)
    <3> HIDE DEF Rule
    <3>1. QED
      BY <1>1, <1>5, Zenon
  <2> HIDE DEF Rule
  <2>2. QED
    BY <1>3, <2>1, Zenon
<1>8. Scan({ i \in 1 .. n : start[i] }, n, A, {})
  BY <1>7, StandsScan
<1>9. QED
  BY <1>1, <1>6, <1>8

-----------------------------------------------------------------------------
\* Where the parts of a flattened sequence begin: part k, of width w[k], behind off[k].
Layout(n, w, off, len) ==
    /\ \A k \in 1 .. n : off[k] \in Nat /\ w[k] \in Nat /\ off[k + 1] = off[k] + w[k]
    /\ \A k \in 1 .. n : \A j \in 1 .. w[k] : off[k] + j \in 1 .. len
    /\ \A p \in 1 .. len : \E k \in 1 .. n : \E j \in 1 .. w[k] : p = off[k] + j

\* The parts of a flattened sequence are laid out by their lengths.
LEMMA PlacedLayout ==
    ASSUME NEW X, NEW ss \in Seq(Seq(X)), NEW off, NEW f, Placed(ss, off, f),
           NEW w, w = [k \in 1 .. Len(ss) |-> Len(ss[k])]
    PROVE  Layout(Len(ss), w, off, Len(f))
<1>1. PICK n \in Nat : n = Len(ss)
  OBVIOUS
<1>2. \A k \in 1 .. n : Len(ss[k]) \in Nat /\ w[k] = Len(ss[k])
  BY <1>1
<1>3. /\ \A k \in 1 .. n : off[k] \in Nat /\ off[k + 1] = off[k] + Len(ss[k])
      /\ \A k \in 1 .. n : \A j \in 1 .. Len(ss[k]) : off[k] + j \in 1 .. Len(f)
      /\ \A p \in 1 .. Len(f) : \E k \in 1 .. n : \E j \in 1 .. Len(ss[k]) : p = off[k] + j
  BY <1>1 DEF Placed
<1>4. \A k \in 1 .. n : off[k] \in Nat /\ w[k] \in Nat /\ off[k + 1] = off[k] + w[k]
  BY <1>2, <1>3, Zenon
<1>5. \A k \in 1 .. n : \A j \in 1 .. w[k] : off[k] + j \in 1 .. Len(f)
  BY <1>2, <1>3, Zenon
<1>6. \A p \in 1 .. Len(f) : \E k \in 1 .. n : \E j \in 1 .. w[k] : p = off[k] + j
  BY <1>2, <1>3, Zenon
<1>7. QED
  BY <1>1, <1>4, <1>5, <1>6, Zenon DEF Layout

\* A later part begins behind an earlier one.
LEMMA PlacedBefore ==
    ASSUME NEW n \in Nat, NEW w, NEW off, NEW len, Layout(n, w, off, len),
           NEW k \in 1 .. n, NEW m \in 1 .. n, k < m
    PROVE  off[k] + w[k] <= off[m] /\ off[m] \in Nat /\ off[k] \in Nat /\ w[k] \in Nat
<1>2. \A i \in 1 .. n : off[i] \in Nat /\ w[i] \in Nat /\ off[i + 1] = off[i] + w[i]
  BY DEF Layout
<1> DEFINE U == { j \in Nat : k < j /\ j <= n => off[k] + w[k] <= off[j] }
<1>3. 0 \in U
  OBVIOUS
<1>4. ASSUME NEW j \in Nat, j \in U PROVE j + 1 \in U
  <2> SUFFICES ASSUME k < j + 1, j + 1 <= n PROVE off[k] + w[k] <= off[j + 1]
    OBVIOUS
  <2>1. j \in 1 .. n
    OBVIOUS
  <2>2. CASE k = j
    BY <1>2, <2>1, <2>2
  <2>3. CASE k # j
    <3>1. off[k] + w[k] <= off[j]
      BY <1>4, <2>1, <2>3
    <3>2. k \in 1 .. n
      OBVIOUS
    <3>3. QED
      BY <1>2, <2>1, <3>1, <3>2
  <2>4. QED
    BY <2>2, <2>3
<1>5. m \in U
  <2> HIDE DEF U
  <2>1. \A j \in Nat : j \in U
    BY <1>3, <1>4, Inductive
  <2>2. QED
    BY <2>1
<1>6. QED
  BY <1>2, <1>5

\* No place is in two parts.
LEMMA PlacedOnce ==
    ASSUME NEW n \in Nat, NEW w, NEW off, NEW len, Layout(n, w, off, len),
           NEW k \in 1 .. n, NEW m \in 1 .. n,
           NEW i \in 1 .. w[k], NEW j \in 1 .. w[m], off[k] + i = off[m] + j
    PROVE  k = m /\ i = j
<1>2. /\ off[k] \in Nat /\ off[m] \in Nat /\ w[k] \in Nat /\ w[m] \in Nat
  BY DEF Layout
<1>3. ~(k < m)
  <2> SUFFICES ASSUME k < m PROVE FALSE
    OBVIOUS
  <2>1. off[k] + w[k] <= off[m]
    BY PlacedBefore
  <2>2. QED
    BY <1>2, <2>1
<1>4. ~(m < k)
  <2> SUFFICES ASSUME m < k PROVE FALSE
    OBVIOUS
  <2>1. off[m] + w[m] <= off[k]
    BY PlacedBefore
  <2>2. QED
    BY <1>2, <2>1
<1>5. k = m
  BY <1>3, <1>4
<1>6. QED
  BY <1>2, <1>5

\* A scan of a flattened sequence whose parts are the steps of the scan stands at
\* the first place of each part.
LEMMA PlacedScan ==
    ASSUME NEW n \in Nat, NEW w, NEW off, NEW len \in Nat, Layout(n, w, off, len), NEW A, NEW B,
           \A k \in 1 .. n :
              /\ w[k] \in 1 .. 3
              /\ off[k] + 1 \in A <=> w[k] > 1
              /\ off[k] + 1 \in B <=> w[k] > 2
    PROVE  Scan({ off[k] + 1 : k \in 1 .. n }, len, A, B)
<1> DEFINE S == { off[k] + 1 : k \in 1 .. n }
<1>2. \A k \in 1 .. n :
         /\ off[k] \in Nat /\ w[k] \in 1 .. 3
         /\ \A j \in 1 .. w[k] : off[k] + j \in 1 .. len
         /\ off[k] + 1 \in A <=> w[k] > 1
         /\ off[k] + 1 \in B <=> w[k] > 2
  BY DEF Layout
<1>3. S \subseteq 1 .. len
  BY <1>2
<1>4. ASSUME NEW k \in 1 .. n, NEW j \in 1 .. w[k]
      PROVE  off[k] + j \in S <=> j = 1
  <2>1. j = 1 => off[k] + j \in S
    OBVIOUS
  <2>2. ASSUME off[k] + j \in S PROVE j = 1
    <3>1. PICK m \in 1 .. n : off[k] + j = off[m] + 1
      BY <2>2
    <3>2. 1 \in 1 .. w[m]
      BY <1>2
    <3>3. QED
      BY <3>1, <3>2, PlacedOnce
  <2>3. QED
    BY <2>1, <2>2
<1>5. ASSUME NEW k \in 1 .. n, NEW p, p \in S, p \in A, p + 1 = off[k] + 1 PROVE FALSE
  <2>1. PICK m \in 1 .. n : p = off[m] + 1
    BY <1>5
  <2>2. 1 \in 1 .. w[k] /\ 2 \in 1 .. w[m] /\ off[m] + 2 = off[k] + 1
    BY <1>2, <1>5, <2>1
  <2>3. 1 = 2
    BY <2>2, PlacedOnce
  <2>4. QED
    BY <2>3
<1>6. ASSUME NEW k \in 1 .. n, NEW p, p \in S, p \in B, p + 2 = off[k] + 1 PROVE FALSE
  <2>1. PICK m \in 1 .. n : p = off[m] + 1
    BY <1>6
  <2>2. 1 \in 1 .. w[k] /\ 3 \in 1 .. w[m] /\ off[m] + 3 = off[k] + 1
    BY <1>2, <1>6, <2>1
  <2>3. 1 = 3
    BY <2>2, PlacedOnce
  <2>4. QED
    BY <2>3
<1>7. ASSUME NEW p \in 1 .. len
      PROVE  p \in S <=> ~(p - 1 \in S /\ p - 1 \in A) /\ ~(p - 2 \in S /\ p - 2 \in B)
  <2>1. PICK k \in 1 .. n : \E j \in 1 .. w[k] : p = off[k] + j
    BY DEF Layout
  <2>2. PICK j \in 1 .. w[k] : p = off[k] + j
    BY <2>1
  <2>3. p \in S <=> j = 1
    BY <1>4, <2>2
  <2>4. j \in 1 .. 3 /\ off[k] \in Nat /\ off[k] + 1 \in S
    BY <1>2
  <2>5. CASE j = 1
    <3>1. (p - 1) + 1 = off[k] + 1 /\ (p - 2) + 2 = off[k] + 1
      BY <2>2, <2>4, <2>5
    <3>2. ~(p - 1 \in S /\ p - 1 \in A) /\ ~(p - 2 \in S /\ p - 2 \in B)
      <4> HIDE DEF S
      <4>1. QED
        BY <1>5, <1>6, <3>1
    <3>3. QED
      BY <2>3, <2>5, <3>2
  <2>6. CASE j = 2
    <3>1. p - 1 = off[k] + 1 /\ off[k] + 1 \in A
      BY <1>2, <2>2, <2>4, <2>6
    <3>2. QED
      BY <2>3, <2>4, <2>6, <3>1
  <2>7. CASE j = 3
    <3>1. p - 2 = off[k] + 1 /\ off[k] + 1 \in B
      BY <1>2, <2>2, <2>4, <2>7
    <3>2. QED
      BY <2>3, <2>4, <2>7, <3>1
  <2>8. QED
    BY <2>4, <2>5, <2>6, <2>7
<1>8. QED
  BY <1>3, <1>7 DEF Scan

\* And those first places are numbered as the parts are.
LEMMA PlacedStarts ==
    ASSUME NEW n \in Nat, NEW w, NEW off, NEW len, Layout(n, w, off, len),
           \A k \in 1 .. n : w[k] \in 1 .. 3
    PROVE  Ascending({ off[k] + 1 : k \in 1 .. n }) = [k \in 1 .. n |-> off[k] + 1]
<1> DEFINE S == { off[k] + 1 : k \in 1 .. n }
           g == [k \in 1 .. n |-> off[k] + 1]
<1>2. \A k \in 1 .. n : off[k] \in Nat
  BY DEF Layout
<1>3. \A i \in S : i \in Int
  BY <1>2
<1>4. ASSUME NEW i \in 1 .. n, NEW j \in 1 .. n, i < j PROVE g[i] < g[j]
  <2>1. off[i] + w[i] <= off[j]
    BY <1>4, PlacedBefore
  <2>2. w[i] \in 1 .. 3
    OBVIOUS
  <2>3. g[i] = off[i] + 1 /\ g[j] = off[j] + 1
    OBVIOUS
  <2>4. QED
    BY <1>2, <2>1, <2>2, <2>3
<1>5. Numbers(g, n, S)
  BY <1>4 DEF Numbers
<1>6. Ascending(S) = [k \in 1 .. n |-> g[k]]
  <2> HIDE DEF S, g
  <2>1. QED
    BY <1>3, <1>5, AscendingIs
<1>7. QED
  BY <1>6

-----------------------------------------------------------------------------
\* PCT.

\* A hexadecimal digit is read as the number it was written for.
LEMMA HexReads ==
    ASSUME NEW n \in 0 .. 15
    PROVE  HexDigit(n) \in Byte /\ HexDigit(n) # Percent /\ IsHex(HexDigit(n)) /\ HexValue(HexDigit(n)) = n
BY DEF HexDigit, HexValue, IsHex, Digit, Byte, Percent

\* A byte is its two halves.
LEMMA HalvesOf ==
    ASSUME NEW b \in Byte
    PROVE  b \div 16 \in 0 .. 15 /\ b % 16 \in 0 .. 15 /\ 16 * (b \div 16) + (b % 16) = b
BY DEF Byte

\* What one byte is written as.
Written(b) ==
    IF Safe(b) THEN <<b>> ELSE <<Percent, HexDigit(b \div 16), HexDigit(b % 16)>>

\* One byte or three: the byte itself where it is safe, else the mark and its two digits.
LEMMA WrittenIs ==
    ASSUME NEW b \in Byte
    PROVE  /\ Written(b) \in Seq(Byte)
           /\ Len(Written(b)) = IF Safe(b) THEN 1 ELSE 3
           /\ Written(b)[1] \in Byte
           /\ Written(b)[1] = Percent <=> ~Safe(b)
           /\ Safe(b) => Written(b)[1] = b
           /\ ~Safe(b) => /\ Written(b)[2] = HexDigit(b \div 16)
                          /\ Written(b)[3] = HexDigit(b % 16)
<1>1. b \div 16 \in 0 .. 15 /\ b % 16 \in 0 .. 15 /\ b \in 0 .. 255
  BY DEF Byte
<1>2. HexDigit(b \div 16) \in Byte /\ HexDigit(b % 16) \in Byte /\ Percent \in Byte
  BY <1>1, HexReads DEF Byte, Percent
<1>3. Safe(b) => b # Percent
  BY <1>1 DEF Safe, Digit, Upper, Lower, Percent
<1>4. CASE Safe(b)
  BY <1>3, <1>4 DEF Written
<1>5. CASE ~Safe(b)
  <2>1. Written(b) = <<Percent, HexDigit(b \div 16), HexDigit(b % 16)>>
    BY <1>5 DEF Written
  <2> HIDE DEF Safe, Percent, HexDigit
  <2>2. QED
    BY <1>2, <1>5, <2>1
<1>6. QED
  BY <1>4, <1>5

\* What pct_encode writes is read byte by byte: no step of the reading fails, and
\* the bytes are the ones that were written.
LEMMA PctReads ==
    ASSUME NEW s \in Seq(Byte), NEW e, e = pct_encode(s)
    PROVE  /\ e \in Seq(Byte)
           /\ pct_bytes(e) = s
           /\ pct_decode_Fails(e) <=> ~Utf8(s)
<1> DEFINE ss == [i \in DOMAIN s |-> Written(s[i])]
<1>1. PICK n \in Nat : n = Len(s) /\ DOMAIN s = 1 .. n
  OBVIOUS
<1>2. \A k \in 1 .. n : s[k] \in Byte
  BY <1>1
<1>3. ss \in Seq(Seq(Byte)) /\ Len(ss) = n /\ \A k \in 1 .. n : ss[k] = Written(s[k])
  <2>1. \A k \in 1 .. n : Written(s[k]) \in Seq(Byte)
    BY <1>2, WrittenIs
  <2> HIDE DEF Written
  <2>2. QED
    BY <1>1, <2>1
<1>4. e = FlattenSeq(ss)
  BY DEF pct_encode, Written
<1> HIDE DEF ss
<1>5. PICK off : Placed(ss, off, e)
  BY <1>3, <1>4, FlattenPlaces
<1>6. e \in Seq(Byte)
  BY <1>3, <1>4, FlattenPlaces
<1>7. PICK len \in Nat : len = Len(e) /\ DOMAIN e = 1 .. len
  BY <1>6
<1> DEFINE w == [k \in 1 .. n |-> Len(ss[k])]
           A == { i \in DOMAIN e : e[i] = Percent }
           S == { off[k] + 1 : k \in 1 .. n }
<1>8. Layout(n, w, off, len)
  BY <1>3, <1>5, <1>7, PlacedLayout
<1>9. \A k \in 1 .. n : w[k] = IF Safe(s[k]) THEN 1 ELSE 3
  <2> SUFFICES ASSUME NEW k \in 1 .. n PROVE w[k] = IF Safe(s[k]) THEN 1 ELSE 3
    OBVIOUS
  <2>1. w[k] = Len(Written(s[k]))
    BY <1>3
  <2> HIDE DEF w
  <2>2. QED
    BY <1>2, <2>1, WrittenIs, Zenon
<1>10. \A k \in 1 .. n : \A j \in 1 .. w[k] :
          off[k] \in Nat /\ off[k] + j \in 1 .. len /\ e[off[k] + j] = Written(s[k])[j]
  <2>1. \A k \in 1 .. n : \A j \in 1 .. Len(ss[k]) : e[off[k] + j] = ss[k][j]
    BY <1>3, <1>5, Zenon DEF Placed
  <2>2. \A k \in 1 .. n : w[k] = Len(ss[k])
    OBVIOUS
  <2> HIDE DEF w
  <2> SUFFICES ASSUME NEW k \in 1 .. n, NEW j \in 1 .. w[k]
               PROVE  off[k] \in Nat /\ off[k] + j \in 1 .. len /\ e[off[k] + j] = Written(s[k])[j]
    OBVIOUS
  <2>3. off[k] \in Nat /\ off[k] + j \in 1 .. len
    BY <1>8, Zenon DEF Layout
  <2>4. j \in 1 .. Len(ss[k]) /\ ss[k] = Written(s[k])
    BY <1>3, <2>2, Zenon
  <2>5. e[off[k] + j] = Written(s[k])[j]
    BY <2>1, <2>4, Zenon
  <2>6. QED
    BY <2>3, <2>5
<1> HIDE DEF w
<1>11. ASSUME NEW k \in 1 .. n
       PROVE  /\ off[k] \in Nat /\ off[k] + 1 \in 1 .. len /\ e[off[k] + 1] = Written(s[k])[1]
              /\ e[off[k] + 1] = Percent <=> ~Safe(s[k])
              /\ Safe(s[k]) => e[off[k] + 1] = s[k]
              /\ ~Safe(s[k]) =>
                    /\ off[k] + 3 \in 1 .. len
                    /\ e[off[k] + 2] = HexDigit(s[k] \div 16)
                    /\ e[off[k] + 3] = HexDigit(s[k] % 16)
  <2>1. 1 \in 1 .. w[k] /\ (~Safe(s[k]) => 2 \in 1 .. w[k] /\ 3 \in 1 .. w[k])
    BY <1>9
  <2>2. off[k] \in Nat /\ off[k] + 1 \in 1 .. len /\ e[off[k] + 1] = Written(s[k])[1]
    BY <1>10, <2>1, Zenon
  <2>3. ~Safe(s[k]) => /\ off[k] + 3 \in 1 .. len /\ e[off[k] + 2] = Written(s[k])[2]
                       /\ e[off[k] + 3] = Written(s[k])[3]
    BY <1>10, <2>1, Zenon
  <2>4. s[k] \in Byte
    BY <1>2
  <2>5. QED
    BY <2>2, <2>3, <2>4, WrittenIs, Zenon
<1>12. \A k \in 1 .. n :
          /\ w[k] \in 1 .. 3
          /\ off[k] + 1 \in A <=> w[k] > 1
          /\ off[k] + 1 \in A <=> w[k] > 2
  <2> SUFFICES ASSUME NEW k \in 1 .. n
               PROVE  w[k] \in 1 .. 3 /\ (off[k] + 1 \in A <=> w[k] > 1) /\ (off[k] + 1 \in A <=> w[k] > 2)
    OBVIOUS
  <2>1. off[k] + 1 \in A <=> ~Safe(s[k])
    BY <1>7, <1>11, Zenon
  <2>2. w[k] = IF Safe(s[k]) THEN 1 ELSE 3
    BY <1>9, Zenon
  <2> HIDE DEF A
  <2>3. QED
    BY <2>1, <2>2
<1>13. Scan(S, len, A, A)
  <2> HIDE DEF A
  <2>1. QED
    BY <1>8, <1>12, PlacedScan
<1>14. Scan(PctStarts(e), len, A, A)
  BY <1>6, <1>7, PctScan
<1>15. PctStarts(e) = S
  <2> HIDE DEF S, A
  <2>1. QED
    BY <1>13, <1>14, ScanOnly, Zenon
<1>16. Ascending(S) = [k \in 1 .. n |-> off[k] + 1]
  <2>1. \A k \in 1 .. n : w[k] \in 1 .. 3
    BY <1>12, Zenon
  <2>2. QED
    BY <1>8, <2>1, PlacedStarts
<1>17. ASSUME NEW k \in 1 .. n PROVE PctByte(e, off[k] + 1) = s[k]
  <2>1. s[k] \in Byte
    BY <1>2
  <2>2. CASE Safe(s[k])
    BY <1>11, <2>2, Zenon DEF PctByte
  <2>3. CASE ~Safe(s[k])
    <3>1. s[k] \div 16 \in 0 .. 15 /\ s[k] % 16 \in 0 .. 15 /\ 16 * (s[k] \div 16) + (s[k] % 16) = s[k]
      BY <2>1, HalvesOf, Zenon
    <3>2. (off[k] + 1) + 1 = off[k] + 2 /\ (off[k] + 1) + 2 = off[k] + 3
      BY <1>11
    <3>3. HexValue(e[off[k] + 2]) = s[k] \div 16 /\ HexValue(e[off[k] + 3]) = s[k] % 16
      BY <1>11, <2>3, <3>1, HexReads, Zenon
    <3>4. PctByte(e, off[k] + 1) = 16 * HexValue(e[off[k] + 2]) + HexValue(e[off[k] + 3])
      BY <1>11, <2>3, <3>2, Zenon DEF PctByte
    <3>5. QED
      BY <3>1, <3>3, <3>4, Zenon
  <2>4. QED
    BY <2>2, <2>3
<1>18. pct_bytes(e) = s
  <2> DEFINE at == Ascending(S)
  <2>1. pct_bytes(e) = [k \in DOMAIN at |-> PctByte(e, at[k])]
    BY <1>15, Zenon DEF pct_bytes
  <2>2. at = [k \in 1 .. n |-> off[k] + 1]
    BY <1>16
  <2> HIDE DEF at
  <2>3. DOMAIN at = 1 .. n /\ \A k \in 1 .. n : at[k] = off[k] + 1
    BY <2>2
  <2>4. pct_bytes(e) = [k \in 1 .. n |-> s[k]]
    BY <1>17, <2>1, <2>3, Zenon
  <2>5. s = [k \in 1 .. n |-> s[k]]
    BY <1>1
  <2>6. QED
    BY <2>4, <2>5, Zenon
<1>19. ASSUME NEW i \in PctStarts(e)
       PROVE  ~(IF e[i] # Percent THEN ~Safe(e[i])
                ELSE i + 2 > Len(e) \/ ~(IsHex(e[i + 1]) /\ IsHex(e[i + 2])))
  <2>1. PICK k \in 1 .. n : i = off[k] + 1
    BY <1>15
  <2>2. s[k] \in Byte
    BY <1>2
  <2>3. CASE Safe(s[k])
    BY <1>11, <2>1, <2>3, Zenon
  <2>4. CASE ~Safe(s[k])
    <3>1. s[k] \div 16 \in 0 .. 15 /\ s[k] % 16 \in 0 .. 15
      BY <2>2, HalvesOf, Zenon
    <3>2. i + 1 = off[k] + 2 /\ i + 2 = off[k] + 3
      BY <1>11, <2>1
    <3>3. IsHex(e[i + 1]) /\ IsHex(e[i + 2]) /\ i + 2 \in 1 .. len
      BY <1>11, <2>4, <3>1, <3>2, HexReads, Zenon
    <3>4. ~(i + 2 > Len(e))
      BY <1>7, <3>3
    <3>5. e[i] = Percent
      BY <1>11, <2>1, <2>4, Zenon
    <3>6. QED
      BY <3>3, <3>4, <3>5, Zenon
  <2>5. QED
    BY <2>3, <2>4
<1>20. QED
  BY <1>6, <1>18, <1>19, Zenon DEF pct_decode_Fails

-----------------------------------------------------------------------------
\* Base64url.

\* A symbol of the alphabet is read as the number it was written for.
LEMMA SymbolReads ==
    ASSUME NEW x \in 0 .. 63
    PROVE  /\ Sextet(Alphabet(x)) = x
           /\ Digit(Alphabet(x)) \/ Upper(Alphabet(x)) \/ Lower(Alphabet(x)) \/ Alphabet(x) \in {45, 95}
<1>1. CASE x < 26
  <2>1. Alphabet(x) = 65 + x
    BY <1>1 DEF Alphabet
  <2>2. QED
    BY <1>1, <2>1 DEF Sextet, Upper, Lower, Digit
<1>2. CASE x \in 26 .. 51
  <2>1. Alphabet(x) = 71 + x
    BY <1>2 DEF Alphabet
  <2>2. QED
    BY <1>2, <2>1 DEF Sextet, Upper, Lower, Digit
<1>3. CASE x \in 52 .. 61
  <2>1. Alphabet(x) = x - 4
    BY <1>3 DEF Alphabet
  <2>2. QED
    BY <1>3, <2>1 DEF Sextet, Upper, Lower, Digit
<1>4. CASE x = 62
  <2>1. Alphabet(x) = 45
    BY <1>4 DEF Alphabet
  <2>2. QED
    BY <1>4, <2>1 DEF Sextet, Upper, Lower, Digit
<1>5. CASE x = 63
  <2>1. Alphabet(x) = 95
    BY <1>5 DEF Alphabet
  <2>2. QED
    BY <1>5, <2>1 DEF Sextet, Upper, Lower, Digit
<1>6. QED
  BY <1>1, <1>2, <1>3, <1>4, <1>5

\* Four symbols hold three bytes.
Quad(a, b, c) ==
    LET w == a \div 4
        x == 16 * (a % 4) + (b \div 16)
        y == 4 * (b % 16) + (c \div 64)
        z == c % 64
    IN  /\ w \in 0 .. 63 /\ x \in 0 .. 63 /\ y \in 0 .. 63 /\ z \in 0 .. 63
        /\ 4 * w + (x \div 16) = a
        /\ 16 * (x % 16) + (y \div 4) = b
        /\ 64 * (y % 4) + z = c

\* Four symbols hold three bytes.
LEMMA QuadReads ==
    ASSUME NEW a \in 0 .. 255, NEW b \in 0 .. 255, NEW c \in 0 .. 255
    PROVE  Quad(a, b, c)
<1> DEFINE w == a \div 4
           x == 16 * (a % 4) + (b \div 16)
           y == 4 * (b % 16) + (c \div 64)
           z == c % 64
<1>1. PICK a1 \in 0 .. 63, a2 \in 0 .. 3 : a = 4 * a1 + a2 /\ a \div 4 = a1 /\ a % 4 = a2
  <2>1. a \div 4 \in 0 .. 63 /\ a % 4 \in 0 .. 3 /\ a = 4 * (a \div 4) + (a % 4)
    OBVIOUS
  <2>2. QED
    BY <2>1
<1>2. PICK b1 \in 0 .. 15, b2 \in 0 .. 15 : b = 16 * b1 + b2 /\ b \div 16 = b1 /\ b % 16 = b2
  <2>1. b \div 16 \in 0 .. 15 /\ b % 16 \in 0 .. 15 /\ b = 16 * (b \div 16) + (b % 16)
    OBVIOUS
  <2>2. QED
    BY <2>1
<1>3. PICK c1 \in 0 .. 3, c2 \in 0 .. 63 : c = 64 * c1 + c2 /\ c \div 64 = c1 /\ c % 64 = c2
  <2>1. c \div 64 \in 0 .. 3 /\ c % 64 \in 0 .. 63 /\ c = 64 * (c \div 64) + (c % 64)
    OBVIOUS
  <2>2. QED
    BY <2>1
<1>4. w = a1 /\ x = 16 * a2 + b1 /\ y = 4 * b2 + c1 /\ z = c2
  BY <1>1, <1>2, <1>3
<1> HIDE DEF w, x, y, z
<1>5. x \div 16 = a2 /\ x % 16 = b1 /\ x \in 0 .. 63
  BY <1>4
<1>6. y \div 4 = b2 /\ y % 4 = c1 /\ y \in 0 .. 63
  <2>1. y = 4 * b2 + c1
    BY <1>4
  <2>2. y \in 0 .. 63
    BY <2>1
  <2>3. y \div 4 = b2
    BY <2>1
  <2>4. y % 4 = c1
    BY <2>1
  <2>5. QED
    BY <2>2, <2>3, <2>4
<1>7. /\ w \in 0 .. 63 /\ x \in 0 .. 63 /\ y \in 0 .. 63 /\ z \in 0 .. 63
      /\ 4 * w + (x \div 16) = a
      /\ 16 * (x % 16) + (y \div 4) = b
      /\ 64 * (y % 4) + z = c
  BY <1>1, <1>2, <1>3, <1>4, <1>5, <1>6
<1>8. QED
  BY <1>7, Zenon DEF w, x, y, z, Quad

\* The four symbols of a group, from its three bytes.
LEMMA SymbolsOf ==
    ASSUME NEW s, NEW q \in Nat
    PROVE  /\ SextetOf(s, 4 * q + 1) = ByteAt(s, 3 * q + 1) \div 4
           /\ SextetOf(s, 4 * q + 2) = 16 * (ByteAt(s, 3 * q + 1) % 4) + (ByteAt(s, 3 * q + 2) \div 16)
           /\ SextetOf(s, 4 * q + 3) = 4 * (ByteAt(s, 3 * q + 2) % 16) + (ByteAt(s, 3 * q + 3) \div 64)
           /\ SextetOf(s, 4 * q + 4) = ByteAt(s, 3 * q + 3) % 64
<1>1. /\ ((4 * q + 1) - 1) \div 4 = q /\ (4 * q + 1) % 4 = 1
      /\ ((4 * q + 2) - 1) \div 4 = q /\ (4 * q + 2) % 4 = 2
      /\ ((4 * q + 3) - 1) \div 4 = q /\ (4 * q + 3) % 4 = 3
      /\ ((4 * q + 4) - 1) \div 4 = q /\ (4 * q + 4) % 4 = 0
  OBVIOUS
<1>2. SextetOf(s, 4 * q + 1) = ByteAt(s, 3 * q + 1) \div 4
  BY <1>1 DEF SextetOf
<1>3. SextetOf(s, 4 * q + 2) = 16 * (ByteAt(s, 3 * q + 1) % 4) + (ByteAt(s, 3 * q + 2) \div 16)
  BY <1>1 DEF SextetOf
<1>4. SextetOf(s, 4 * q + 3) = 4 * (ByteAt(s, 3 * q + 2) % 16) + (ByteAt(s, 3 * q + 3) \div 64)
  BY <1>1 DEF SextetOf
<1>5. SextetOf(s, 4 * q + 4) = ByteAt(s, 3 * q + 3) % 64
  BY <1>1 DEF SextetOf
<1>6. QED
  BY <1>2, <1>3, <1>4, <1>5

\* Behind the end the bytes are zero.
LEMMA ByteAtIs ==
    ASSUME NEW s \in Seq(Byte), NEW k
    PROVE  ByteAt(s, k) \in 0 .. 255
<1>1. \A j \in DOMAIN s : s[j] \in 0 .. 255
  <2>1. PICK n \in Nat : n = Len(s) /\ DOMAIN s = 1 .. n
    OBVIOUS
  <2>2. \A j \in 1 .. n : s[j] \in Byte
    BY <2>1
  <2>3. QED
    BY <2>1, <2>2 DEF Byte
<1>2. 0 \in 0 .. 255
  OBVIOUS
<1>3. QED
  BY <1>1, <1>2, Zenon DEF ByteAt

\* Place k is the first, the second or the third of a group, or of four.
LEMMA ThreeOf ==
    ASSUME NEW k \in Nat, k # 0
    PROVE  \E q \in Nat : /\ (k - 1) \div 3 = q
                          /\ \/ k = 3 * q + 1 /\ k % 3 = 1
                             \/ k = 3 * q + 2 /\ k % 3 = 2
                             \/ k = 3 * q + 3 /\ k % 3 = 0
<1>1. PICK q \in Nat : (k - 1) \div 3 = q /\ (k = 3 * q + 1 \/ k = 3 * q + 2 \/ k = 3 * q + 3)
  OBVIOUS
<1>2. QED
  BY <1>1

\* Every place is the first, second, third or fourth of its group.
LEMMA FourOf ==
    ASSUME NEW k \in Nat, k # 0
    PROVE  \E q \in Nat : k = 4 * q + 1 \/ k = 4 * q + 2 \/ k = 4 * q + 3 \/ k = 4 * q + 4
<1>1. PICK q \in Nat : q = (k - 1) \div 4
  OBVIOUS
<1>2. QED
  BY <1>1

\* What Base64url writes is read back, and fails only when it is no text.
LEMMA B64Reads ==
    ASSUME NEW s \in Seq(Byte), NEW e, e = b64url_encode(s)
    PROVE  /\ b64url_bytes(e) = s
           /\ b64url_decode_Fails(e) <=> ~Utf8(s)
<1>1. PICK n \in Nat : n = Len(s) /\ DOMAIN s = 1 .. n
  OBVIOUS
<1>2. PICK len \in Nat : len = (8 * n + 5) \div 6
  OBVIOUS
<1>3. e = [k \in 1 .. len |-> Alphabet(SextetOf(s, k))]
  BY <1>1, <1>2 DEF b64url_encode
<1>4. DOMAIN e = 1 .. len /\ Len(e) = len /\ \A k \in 1 .. len : e[k] = Alphabet(SextetOf(s, k))
  BY <1>3
<1>5. (6 * len) \div 8 = n /\ len % 4 # 1 /\ 3 * len >= 4 * n /\ 3 * len <= 4 * n + 2
  <2>1. PICK q \in Nat, r \in 0 .. 2 : n = 3 * q + r
    <3>1. n \div 3 \in Nat /\ n % 3 \in 0 .. 2 /\ n = 3 * (n \div 3) + (n % 3)
      OBVIOUS
    <3>2. QED
      BY <3>1
  <2>2. CASE r = 0
    <3>1. len = 4 * q
      BY <1>2, <2>1, <2>2
    <3>2. QED
      BY <2>1, <2>2, <3>1
  <2>3. CASE r = 1
    <3>1. len = 4 * q + 2
      BY <1>2, <2>1, <2>3
    <3>2. QED
      BY <2>1, <2>3, <3>1
  <2>4. CASE r = 2
    <3>1. len = 4 * q + 3
      BY <1>2, <2>1, <2>4
    <3>2. QED
      BY <2>1, <2>4, <3>1
  <2>5. QED
    BY <2>2, <2>3, <2>4
<1>6. ASSUME NEW q \in Nat
      PROVE  LET a == ByteAt(s, 3 * q + 1)
                 b == ByteAt(s, 3 * q + 2)
                 c == ByteAt(s, 3 * q + 3)
                 w == SextetOf(s, 4 * q + 1)
                 x == SextetOf(s, 4 * q + 2)
                 y == SextetOf(s, 4 * q + 3)
                 z == SextetOf(s, 4 * q + 4)
             IN  /\ w \in 0 .. 63 /\ x \in 0 .. 63 /\ y \in 0 .. 63 /\ z \in 0 .. 63
                 /\ 4 * w + (x \div 16) = a
                 /\ 16 * (x % 16) + (y \div 4) = b
                 /\ 64 * (y % 4) + z = c
  <2> DEFINE a == ByteAt(s, 3 * q + 1)
             b == ByteAt(s, 3 * q + 2)
             c == ByteAt(s, 3 * q + 3)
             w == SextetOf(s, 4 * q + 1)
             x == SextetOf(s, 4 * q + 2)
             y == SextetOf(s, 4 * q + 3)
             z == SextetOf(s, 4 * q + 4)
  <2>1. a \in 0 .. 255 /\ b \in 0 .. 255 /\ c \in 0 .. 255
    BY ByteAtIs, Zenon
  <2>2. /\ w = a \div 4 /\ x = 16 * (a % 4) + (b \div 16)
        /\ y = 4 * (b % 16) + (c \div 64) /\ z = c % 64
    BY SymbolsOf, Zenon
  <2> HIDE DEF a, b, c, w, x, y, z
  <2>3. Quad(a, b, c)
    BY <2>1, QuadReads, Zenon
  <2>4. /\ w \in 0 .. 63 /\ x \in 0 .. 63 /\ y \in 0 .. 63 /\ z \in 0 .. 63
        /\ 4 * w + (x \div 16) = a
        /\ 16 * (x % 16) + (y \div 4) = b
        /\ 64 * (y % 4) + z = c
    BY <2>2, <2>3, Zenon DEF Quad
  <2>5. QED
    BY <2>4, Zenon DEF a, b, c, w, x, y, z
<1>7. ASSUME NEW q \in Nat, NEW j \in 1 .. 4, 4 * q + j \in 1 .. len
      PROVE  Sextet(e[4 * q + j]) = SextetOf(s, 4 * q + j)
  <2>1. SextetOf(s, 4 * q + j) \in 0 .. 63
    <3>1. CASE j = 1
      BY <1>6, <3>1, Zenon
    <3>2. CASE j = 2
      BY <1>6, <3>2, Zenon
    <3>3. CASE j = 3
      BY <1>6, <3>3, Zenon
    <3>4. CASE j = 4
      BY <1>6, <3>4, Zenon
    <3>5. QED
      BY <3>1, <3>2, <3>3, <3>4
  <2>2. QED
    BY <1>4, <1>7, <2>1, SymbolReads, Zenon
<1>8. ASSUME NEW k \in 1 .. len
      PROVE  Digit(e[k]) \/ Upper(e[k]) \/ Lower(e[k]) \/ e[k] \in {45, 95}
  <2>1. PICK q \in Nat : k = 4 * q + 1 \/ k = 4 * q + 2 \/ k = 4 * q + 3 \/ k = 4 * q + 4
    <3>1. k \in Nat /\ k # 0
      OBVIOUS
    <3>2. QED
      BY <3>1, FourOf, Zenon
  <2>2. SextetOf(s, k) \in 0 .. 63
    BY <1>6, <2>1, Zenon
  <2> DEFINE x == SextetOf(s, k)
  <2>3. e[k] = Alphabet(x)
    BY <1>4, Zenon
  <2> HIDE DEF x
  <2>4. x \in 0 .. 63
    BY <2>2 DEF x
  <2>5. Digit(Alphabet(x)) \/ Upper(Alphabet(x)) \/ Lower(Alphabet(x)) \/ Alphabet(x) \in {45, 95}
    BY <2>4, SymbolReads, Zenon
  <2>6. QED
    BY <2>3, <2>5, Zenon
<1> DEFINE of(k, j) == Sextet(e[4 * ((k - 1) \div 3) + j])
           Byte8(k) == CASE k % 3 = 1 -> 4 * of(k, 1) + (of(k, 2) \div 16)
                         [] k % 3 = 2 -> 16 * (of(k, 2) % 16) + (of(k, 3) \div 4)
                         [] OTHER -> 64 * (of(k, 3) % 4) + of(k, 4)
<1>9. ASSUME NEW k \in 1 .. n PROVE Byte8(k) = s[k]
  <2>1. PICK q \in Nat : /\ (k - 1) \div 3 = q
                         /\ \/ k = 3 * q + 1 /\ k % 3 = 1
                            \/ k = 3 * q + 2 /\ k % 3 = 2
                            \/ k = 3 * q + 3 /\ k % 3 = 0
    BY ThreeOf
  <2>2. ByteAt(s, k) = s[k]
    BY <1>1 DEF ByteAt
  <2>3. \A j \in 1 .. 4 : of(k, j) = Sextet(e[4 * q + j])
    BY <2>1
  <2> HIDE DEF of
  <2>4. CASE k = 3 * q + 1 /\ k % 3 = 1
    <3>1. 4 * q + 1 \in 1 .. len /\ 4 * q + 2 \in 1 .. len
      BY <1>5, <2>4
    <3>2. of(k, 1) = SextetOf(s, 4 * q + 1) /\ of(k, 2) = SextetOf(s, 4 * q + 2)
      BY <1>7, <2>3, <3>1
    <3>3. Byte8(k) = 4 * of(k, 1) + (of(k, 2) \div 16)
      BY <2>4
    <3>4. QED
      BY <1>6, <2>2, <2>4, <3>2, <3>3, Zenon
  <2>5. CASE k = 3 * q + 2 /\ k % 3 = 2
    <3>1. 4 * q + 2 \in 1 .. len /\ 4 * q + 3 \in 1 .. len
      BY <1>5, <2>5
    <3>2. of(k, 2) = SextetOf(s, 4 * q + 2) /\ of(k, 3) = SextetOf(s, 4 * q + 3)
      BY <1>7, <2>3, <3>1
    <3>3. Byte8(k) = 16 * (of(k, 2) % 16) + (of(k, 3) \div 4)
      BY <2>5
    <3>4. QED
      BY <1>6, <2>2, <2>5, <3>2, <3>3, Zenon
  <2>6. CASE k = 3 * q + 3 /\ k % 3 = 0
    <3>1. 4 * q + 3 \in 1 .. len /\ 4 * q + 4 \in 1 .. len
      BY <1>5, <2>6
    <3>2. of(k, 3) = SextetOf(s, 4 * q + 3) /\ of(k, 4) = SextetOf(s, 4 * q + 4)
      BY <1>7, <2>3, <3>1
    <3>3. Byte8(k) = 64 * (of(k, 3) % 4) + of(k, 4)
      BY <2>6
    <3>4. QED
      BY <1>6, <2>2, <2>6, <3>2, <3>3, Zenon
  <2>7. QED
    BY <2>1, <2>4, <2>5, <2>6
<1>10. b64url_bytes(e) = s
  <2>1. b64url_bytes(e) = [k \in 1 .. (6 * Len(e)) \div 8 |-> Byte8(k)]
    BY Zenon DEF b64url_bytes
  <2>2. s = [k \in 1 .. n |-> s[k]]
    BY <1>1
  <2> HIDE DEF Byte8
  <2>3. 1 .. (6 * Len(e)) \div 8 = 1 .. n
    BY <1>4, <1>5, Zenon
  <2>4. QED
    BY <1>9, <2>1, <2>2, <2>3, Zenon
<1>11. QED
  <2>1. Len(e) % 4 # 1
    BY <1>4, <1>5, Zenon
  <2>2. b64url_encode(b64url_bytes(e)) = e
    BY <1>10
  <2>3. QED
    BY <1>4, <1>8, <1>10, <2>1, <2>2, Zenon DEF b64url_decode_Fails

-----------------------------------------------------------------------------
\* Escapes.

Escaping == {8, 9, 10, 12, 13, Quote, Backslash}

\* The bytes that are escaped, and their letters.
LEMMA LetterIs ==
    /\ DOMAIN EscapeLetter = Escaping
    /\ Escaping = {8, 9, 10, 12, 13, 34, 92}
    /\ EscapeLetter[8] = 98 /\ EscapeLetter[9] = 116 /\ EscapeLetter[10] = 110
    /\ EscapeLetter[12] = 102 /\ EscapeLetter[13] = 114
    /\ EscapeLetter[34] = 34 /\ EscapeLetter[92] = 92
<1>1. DOMAIN EscapeLetter = Escaping
  BY Zenon DEF EscapeLetter, Escaping
<1>2. Escaping = {8, 9, 10, 12, 13, 34, 92}
  BY DEF Escaping, Quote, Backslash
<1>3. /\ EscapeLetter[8] = 98 /\ EscapeLetter[9] = 116 /\ EscapeLetter[10] = 110
      /\ EscapeLetter[12] = 102 /\ EscapeLetter[13] = 114
      /\ EscapeLetter[34] = 34 /\ EscapeLetter[92] = 92
  BY DEF EscapeLetter, Quote, Backslash
<1>4. QED
  BY <1>1, <1>2, <1>3

\* A letter is read as the byte it was written for.
LEMMA LetterReads ==
    ASSUME NEW b \in DOMAIN EscapeLetter
    PROVE  /\ EscapeLetter[b] \in Byte /\ EscapeLetter[b] < 128 /\ b < 128
           /\ EscapeLetter[b] \in DOMAIN Unescaped
           /\ Unescaped[EscapeLetter[b]] = b
<1>1. b \in {8, 9, 10, 12, 13, 34, 92}
  BY LetterIs
<1>2. EscapeLetter[b] \in Byte /\ EscapeLetter[b] < 128 /\ b < 128
  BY <1>1, LetterIs DEF Byte
<1>3. \A c \in DOMAIN EscapeLetter : EscapeLetter[c] = EscapeLetter[b] => c = b
  <2> SUFFICES ASSUME NEW c \in DOMAIN EscapeLetter, EscapeLetter[c] = EscapeLetter[b]
               PROVE  c = b
    OBVIOUS
  <2>1. c \in {8, 9, 10, 12, 13, 34, 92}
    BY LetterIs
  <2>2. QED
    BY <1>1, <2>1, LetterIs
<1>4. EscapeLetter[b] \in Range(EscapeLetter)
  BY DEF Range
<1>5. DOMAIN Unescaped = Range(EscapeLetter)
  BY DEF Unescaped
<1>6. Unescaped[EscapeLetter[b]] = CHOOSE c \in DOMAIN EscapeLetter : EscapeLetter[c] = EscapeLetter[b]
  BY <1>4, Zenon DEF Unescaped
<1>7. QED
  BY <1>2, <1>3, <1>4, <1>5, <1>6, Zenon

\* What one byte is escaped as.
Escaped(b) == IF b \in DOMAIN EscapeLetter THEN <<Backslash, EscapeLetter[b]>> ELSE <<b>>

\* One byte or two, of which the first is no quotation mark.
LEMMA EscapedIs ==
    ASSUME NEW b \in Byte
    PROVE  /\ Escaped(b) \in Seq(Byte)
           /\ Len(Escaped(b)) = IF b \in DOMAIN EscapeLetter THEN 2 ELSE 1
           /\ Escaped(b)[1] = Backslash <=> b \in DOMAIN EscapeLetter
           /\ Escaped(b)[1] # Quote
           /\ b \notin DOMAIN EscapeLetter => Escaped(b)[1] = b
           /\ b \in DOMAIN EscapeLetter => Escaped(b)[2] = EscapeLetter[b]
<1>1. Backslash \in DOMAIN EscapeLetter /\ Quote \in DOMAIN EscapeLetter /\ Backslash # Quote
  BY LetterIs DEF Backslash, Quote
<1>2. Backslash \in Byte
  BY DEF Backslash, Byte
<1>3. CASE b \in DOMAIN EscapeLetter
  <2>1. Escaped(b) = <<Backslash, EscapeLetter[b]>>
    BY <1>3 DEF Escaped
  <2>2. EscapeLetter[b] \in Byte
    BY <1>3, LetterReads
  <2> HIDE DEF EscapeLetter, Backslash, Quote
  <2>3. QED
    BY <1>1, <1>2, <1>3, <2>1, <2>2
<1>4. CASE b \notin DOMAIN EscapeLetter
  <2>1. Escaped(b) = <<b>>
    BY <1>4 DEF Escaped
  <2> HIDE DEF EscapeLetter, Backslash, Quote
  <2>2. QED
    BY <1>1, <1>4, <2>1
<1>5. QED
  BY <1>3, <1>4

\* An escaped text, read from the left: the scan stands at the first byte of what
\* each byte became.
EscapedAt(t, n, u, off) ==
    /\ EscapeStarts(u) = { off[k] + 1 : k \in 1 .. n }
    /\ Ascending(EscapeStarts(u)) = [k \in 1 .. n |-> off[k] + 1]
    /\ \A k \in 1 .. n :
          /\ off[k] \in Nat /\ off[k] + 1 \in 1 .. Len(u)
          /\ off[k + 1] = off[k] + Len(Escaped(t[k]))
          /\ \A j \in 1 .. Len(Escaped(t[k])) :
                off[k] + j \in 1 .. Len(u) /\ u[off[k] + j] = Escaped(t[k])[j]
    /\ \A p \in 1 .. Len(u) :
          \E k \in 1 .. n : \E j \in 1 .. Len(Escaped(t[k])) : p = off[k] + j

\* A sequence is a function on its length.
LEMMA SeqIs ==
    ASSUME NEW X, NEW s \in Seq(X)
    PROVE  \E n \in Nat : n = Len(s) /\ DOMAIN s = 1 .. n
OBVIOUS

\* The escaped bytes stand one behind the other.
LEMMA EscapedPlaces ==
    ASSUME NEW t \in Seq(Byte), NEW n \in Nat, n = Len(t), DOMAIN t = 1 .. n,
           NEW u, u = FlattenSeq([i \in DOMAIN t |-> Escaped(t[i])])
    PROVE  u \in Seq(Byte) /\ \E off : EscapedAt(t, n, u, off)
<1> DEFINE ss == [i \in DOMAIN t |-> Escaped(t[i])]
<1>1. \A k \in 1 .. n : t[k] \in Byte
  OBVIOUS
<1>2. ss \in Seq(Seq(Byte)) /\ Len(ss) = n /\ \A k \in 1 .. n : ss[k] = Escaped(t[k])
  <2>1. \A k \in 1 .. n : Escaped(t[k]) \in Seq(Byte)
    BY <1>1, EscapedIs
  <2> HIDE DEF Escaped
  <2>2. QED
    BY <2>1
<1>3. u = FlattenSeq(ss)
  OBVIOUS
<1> HIDE DEF ss
<1>4. PICK off : Placed(ss, off, u)
  BY <1>2, <1>3, FlattenPlaces
<1>5. u \in Seq(Byte)
  BY <1>2, <1>3, FlattenPlaces
<1>6. PICK len \in Nat : len = Len(u) /\ DOMAIN u = 1 .. len
  BY <1>5, SeqIs, Zenon
<1> DEFINE w == [k \in 1 .. n |-> Len(ss[k])]
           A == { i \in DOMAIN u : u[i] = Backslash }
           S == { off[k] + 1 : k \in 1 .. n }
<1>7. Layout(n, w, off, len)
  BY <1>2, <1>4, <1>6, PlacedLayout
<1>8. \A k \in 1 .. n : w[k] = Len(Escaped(t[k]))
  BY <1>2
<1> HIDE DEF w
<1>9. \A k \in 1 .. n : w[k] = IF t[k] \in DOMAIN EscapeLetter THEN 2 ELSE 1
  BY <1>1, <1>8, EscapedIs, Zenon
<1>10. ASSUME NEW k \in 1 .. n, NEW j \in 1 .. w[k]
       PROVE  off[k] \in Nat /\ off[k] + j \in 1 .. len /\ u[off[k] + j] = Escaped(t[k])[j]
  <2>1. off[k] \in Nat /\ off[k] + j \in 1 .. len
    BY <1>7, Zenon DEF Layout
  <2>2. j \in 1 .. Len(ss[k]) /\ ss[k] = Escaped(t[k])
    BY <1>2, <1>8, Zenon
  <2>3. u[off[k] + j] = ss[k][j]
    BY <1>2, <1>4, <2>2, Zenon DEF Placed
  <2>4. QED
    BY <2>1, <2>2, <2>3, Zenon
<1>11. \A k \in 1 .. n :
          /\ w[k] \in 1 .. 3
          /\ off[k] + 1 \in A <=> w[k] > 1
          /\ off[k] + 1 \in {} <=> w[k] > 2
  <2> SUFFICES ASSUME NEW k \in 1 .. n
               PROVE  w[k] \in 1 .. 3 /\ (off[k] + 1 \in A <=> w[k] > 1) /\ ~(w[k] > 2)
    OBVIOUS
  <2>1. w[k] = IF t[k] \in DOMAIN EscapeLetter THEN 2 ELSE 1
    BY <1>9, Zenon
  <2>2. 1 \in 1 .. w[k]
    BY <2>1
  <2>3. off[k] + 1 \in 1 .. len /\ u[off[k] + 1] = Escaped(t[k])[1]
    BY <1>10, <2>2, Zenon
  <2>4. off[k] + 1 \in A <=> t[k] \in DOMAIN EscapeLetter
    BY <1>1, <1>6, <2>3, EscapedIs, Zenon
  <2> HIDE DEF A
  <2>5. QED
    BY <2>1, <2>4
<1>12. Scan(S, len, A, {})
  <2> HIDE DEF A
  <2>1. QED
    BY <1>7, <1>11, PlacedScan
<1>13. Scan(EscapeStarts(u), len, A, {})
  BY <1>5, <1>6, EscapeScan
<1>14. EscapeStarts(u) = S
  <2> HIDE DEF S, A
  <2>1. QED
    BY <1>12, <1>13, ScanOnly, Zenon
<1>15. Ascending(S) = [k \in 1 .. n |-> off[k] + 1]
  <2>1. \A k \in 1 .. n : w[k] \in 1 .. 3
    BY <1>11, Zenon
  <2>2. QED
    BY <1>7, <2>1, PlacedStarts
<1>16. ASSUME NEW k \in 1 .. n
       PROVE  /\ off[k] \in Nat /\ off[k] + 1 \in 1 .. Len(u)
              /\ off[k + 1] = off[k] + Len(Escaped(t[k]))
              /\ \A j \in 1 .. Len(Escaped(t[k])) :
                    off[k] + j \in 1 .. Len(u) /\ u[off[k] + j] = Escaped(t[k])[j]
  <2>1. 1 \in 1 .. w[k]
    BY <1>11
  <2>2. off[k + 1] = off[k] + Len(Escaped(t[k]))
    BY <1>7, <1>8, Zenon DEF Layout
  <2>3. off[k] \in Nat /\ off[k] + 1 \in 1 .. Len(u)
    BY <1>6, <1>10, <2>1, Zenon
  <2>4. \A j \in 1 .. Len(Escaped(t[k])) :
           off[k] + j \in 1 .. Len(u) /\ u[off[k] + j] = Escaped(t[k])[j]
    BY <1>6, <1>8, <1>10, Zenon
  <2>5. QED
    BY <2>2, <2>3, <2>4
<1>17. \A p \in 1 .. Len(u) :
          \E k \in 1 .. n : \E j \in 1 .. Len(Escaped(t[k])) : p = off[k] + j
  <2> SUFFICES ASSUME NEW p \in 1 .. Len(u)
               PROVE  \E k \in 1 .. n : \E j \in 1 .. Len(Escaped(t[k])) : p = off[k] + j
    OBVIOUS
  <2>1. PICK k \in 1 .. n : \E j \in 1 .. w[k] : p = off[k] + j
    BY <1>6, <1>7, Zenon DEF Layout
  <2>2. QED
    BY <1>8, <2>1, Zenon
<1>18. QED
  <2> HIDE DEF S
  <2>1. /\ EscapeStarts(u) = { off[k] + 1 : k \in 1 .. n }
        /\ Ascending(EscapeStarts(u)) = [k \in 1 .. n |-> off[k] + 1]
    BY <1>14, <1>15, Zenon DEF S
  <2>2. \A k \in 1 .. n :
           /\ off[k] \in Nat /\ off[k] + 1 \in 1 .. Len(u)
           /\ off[k + 1] = off[k] + Len(Escaped(t[k]))
           /\ \A j \in 1 .. Len(Escaped(t[k])) :
                 off[k] + j \in 1 .. Len(u) /\ u[off[k] + j] = Escaped(t[k])[j]
    BY <1>16, Zenon
  <2>3. EscapedAt(t, n, u, off)
    BY <1>17, <2>1, <2>2, Zenon DEF EscapedAt
  <2>4. QED
    BY <1>5, <2>3

\* Two hexadecimal digits are a byte.
LEMMA HexByte ==
    ASSUME NEW a, NEW b, IsHex(a), IsHex(b)
    PROVE  16 * HexValue(a) + HexValue(b) \in Byte
<1>1. HexValue(a) \in 0 .. 15
  BY DEF HexValue, IsHex, Digit
<1>2. HexValue(b) \in 0 .. 15
  BY DEF HexValue, IsHex, Digit
<1>3. QED
  BY <1>1, <1>2 DEF Byte

\* What is read without a failure is text.
LEMMA PctText ==
    ASSUME NEW s \in Seq(Byte), ~pct_decode_Fails(s)
    PROVE  pct_bytes(s) \in Seq(Byte) /\ Utf8(pct_bytes(s))
<1>1. PICK n \in Nat : n = Len(s) /\ DOMAIN s = 1 .. n
  BY SeqIs, Zenon
<1>2. \A i \in 1 .. n : s[i] \in Byte
  BY <1>1
<1>3. PctStarts(s) \subseteq 1 .. n
  BY <1>1, Zenon DEF PctStarts
<1>4. IsFiniteSet(PctStarts(s))
  <2>1. IsFiniteSet(1 .. n)
    BY FS_Interval
  <2>2. QED
    BY <1>3, <2>1, FS_Subset
<1> DEFINE at == Ascending(PctStarts(s))
           c == Cardinality(PctStarts(s))
<1>5. c \in Nat /\ Numbers(at, c, PctStarts(s))
  <2>1. \A i \in PctStarts(s) : i \in Int
    BY <1>3
  <2>2. QED
    BY <1>4, <2>1, AscendingNumbers, Zenon
<1>6. pct_bytes(s) = [k \in DOMAIN at |-> PctByte(s, at[k])]
  BY Zenon DEF pct_bytes
<1> HIDE DEF at, c
<1>7. DOMAIN at = 1 .. c /\ \A k \in 1 .. c : at[k] \in PctStarts(s)
  BY <1>5, Zenon DEF Numbers
<1>8. ASSUME NEW i \in PctStarts(s) PROVE PctByte(s, i) \in Byte
  <2>1. i \in 1 .. n
    BY <1>3
  <2>2. ~(IF s[i] # Percent THEN ~Safe(s[i])
          ELSE i + 2 > Len(s) \/ ~(IsHex(s[i + 1]) /\ IsHex(s[i + 2])))
    BY Zenon DEF pct_decode_Fails
  <2>3. CASE s[i] # Percent
    <3>1. PctByte(s, i) = s[i]
      BY <2>3, Zenon DEF PctByte
    <3>2. QED
      BY <1>2, <2>1, <3>1, Zenon
  <2>4. CASE s[i] = Percent
    <3>1. IsHex(s[i + 1]) /\ IsHex(s[i + 2])
      BY <2>2, <2>4, Zenon
    <3>2. PctByte(s, i) = 16 * HexValue(s[i + 1]) + HexValue(s[i + 2])
      BY <2>4, Zenon DEF PctByte
    <3>3. QED
      BY <3>1, <3>2, HexByte, Zenon
  <2>5. QED
    BY <2>3, <2>4
<1>9. \A k \in 1 .. c : PctByte(s, at[k]) \in Byte
  BY <1>7, <1>8, Zenon
<1>10. pct_bytes(s) \in Seq(Byte)
  <2>1. pct_bytes(s) = [k \in 1 .. c |-> PctByte(s, at[k])]
    BY <1>6, <1>7, Zenon
  <2> DEFINE v == pct_bytes(s)
  <2> HIDE DEF v
  <2>2. [k \in 1 .. c |-> PctByte(s, at[k])] \in [1 .. c -> Byte]
    BY <1>9, Zenon
  <2>3. \A f \in [1 .. c -> Byte] : f \in Seq(Byte)
    BY <1>5
  <2>4. QED
    BY <2>1, <2>2, <2>3, Zenon
<1>11. QED
  BY <1>10, Zenon DEF pct_decode_Fails

\* What Utf8 asks of byte i.
TextByte(s, n, i) ==
    \/ s[i] < 128
    \/ s[i] \in 194 .. 223 /\ i < n /\ s[i + 1] \in 128 .. 191
    \/ s[i] \in 128 .. 191 /\ i > 1 /\ s[i - 1] \in 194 .. 223

\* Utf8 asks it of every byte.
LEMMA Utf8Is ==
    ASSUME NEW s, NEW n, n = Len(s), DOMAIN s = 1 .. n
    PROVE  Utf8(s) <=> \A i \in 1 .. n : TextByte(s, n, i)
<1>1. Utf8(s) <=> \A i \in DOMAIN s : TextByte(s, Len(s), i)
  BY Zenon DEF Utf8, TextByte
<1>2. QED
  BY <1>1, Zenon

\* The bytes of a longer character are not ASCII.
LEMMA NotAscii ==
    ASSUME NEW b, b \in 194 .. 223 \/ b \in 128 .. 191
    PROVE  ~(b < 128)
OBVIOUS

\* An escaped text is text.
LEMMA EscapedText ==
    ASSUME NEW t \in Seq(Byte), NEW n \in Nat, n = Len(t), DOMAIN t = 1 .. n,
           NEW u \in Seq(Byte), NEW off, EscapedAt(t, n, u, off), Utf8(t)
    PROVE  Utf8(u)
<1>1. PICK len \in Nat : len = Len(u) /\ DOMAIN u = 1 .. len
  BY SeqIs, Zenon
<1>2. \A k \in 1 .. n : t[k] \in Byte
  OBVIOUS
<1>3. ASSUME NEW k \in 1 .. n, ~(t[k] < 128)
      PROVE  t[k] \notin DOMAIN EscapeLetter /\ u[off[k] + 1] = t[k] /\ off[k] \in Nat
             /\ off[k] + 1 \in 1 .. len /\ off[k + 1] = off[k] + 1
  <2>1. t[k] \notin DOMAIN EscapeLetter
    BY <1>3, LetterReads, Zenon
  <2>2. Len(Escaped(t[k])) = 1 /\ Escaped(t[k])[1] = t[k]
    BY <1>2, <2>1, EscapedIs, Zenon
  <2>3. 1 \in 1 .. 1
    OBVIOUS
  <2>4. QED
    BY <1>1, <2>1, <2>2, <2>3, Zenon DEF EscapedAt
<1>4. ASSUME NEW p \in 1 .. len
      PROVE  TextByte(u, len, p)
  <2>1. PICK k \in 1 .. n : \E j \in 1 .. Len(Escaped(t[k])) : p = off[k] + j
    BY <1>1, Zenon DEF EscapedAt
  <2>2. PICK j \in 1 .. Len(Escaped(t[k])) : p = off[k] + j
    BY <2>1
  <2>3. u[p] = Escaped(t[k])[j]
    BY <2>2, Zenon DEF EscapedAt
  <2>4. CASE t[k] \in DOMAIN EscapeLetter
    <3>1. Len(Escaped(t[k])) = 2 /\ Escaped(t[k])[1] = Backslash /\ Escaped(t[k])[2] = EscapeLetter[t[k]]
      BY <1>2, <2>4, EscapedIs, Zenon
    <3>2. EscapeLetter[t[k]] < 128
      BY <2>4, LetterReads, Zenon
    <3>3. j = 1 \/ j = 2
      BY <3>1
    <3>4. Backslash < 128
      BY DEF Backslash
    <3>5. QED
      BY <2>3, <3>1, <3>2, <3>3, <3>4, Zenon DEF TextByte
  <2>5. CASE t[k] \notin DOMAIN EscapeLetter
    <3>1. Len(Escaped(t[k])) = 1 /\ Escaped(t[k])[1] = t[k]
      BY <1>2, <2>5, EscapedIs, Zenon
    <3>2. j = 1
      BY <3>1
    <3>3. u[p] = t[k] /\ p = off[k] + 1
      BY <2>2, <2>3, <3>1, <3>2, Zenon
    <3>4. \/ t[k] < 128
          \/ t[k] \in 194 .. 223 /\ k < n /\ t[k + 1] \in 128 .. 191
          \/ t[k] \in 128 .. 191 /\ k > 1 /\ t[k - 1] \in 194 .. 223
      <4>1. TextByte(t, n, k)
        BY Utf8Is, Zenon
      <4>2. QED
        BY <4>1, Zenon DEF TextByte
    <3>5. CASE t[k] < 128
      BY <3>3, <3>5, Zenon DEF TextByte
    <3>6. CASE t[k] \in 194 .. 223 /\ k < n /\ t[k + 1] \in 128 .. 191
      <4>0. k + 1 \in 1 .. n
        BY <3>6
      <4>1. k + 1 \in 1 .. n /\ ~(t[k + 1] < 128) /\ ~(t[k] < 128)
        BY <3>6, <4>0, NotAscii, Zenon
      <4>2. u[off[k + 1] + 1] = t[k + 1] /\ off[k + 1] + 1 \in 1 .. len /\ off[k + 1] = off[k] + 1
        BY <1>3, <4>1, Zenon
      <4>3. off[k + 1] + 1 = p + 1
        BY <3>3, <4>2, Zenon
      <4>4. u[p + 1] = t[k + 1] /\ p + 1 \in 1 .. len
        BY <4>2, <4>3, Zenon
      <4>5. p < len
        BY <4>4
      <4>6. QED
        BY <3>3, <3>6, <4>4, <4>5, Zenon DEF TextByte
    <3>7. CASE t[k] \in 128 .. 191 /\ k > 1 /\ t[k - 1] \in 194 .. 223
      <4>1. PICK m \in 1 .. n : m = k - 1 /\ m + 1 = k
        BY <3>7
      <4>2. ~(t[m] < 128)
        BY <3>7, <4>1, NotAscii, Zenon
      <4>3. u[off[m] + 1] = t[m] /\ off[m] \in Nat /\ off[k] = off[m] + 1
        BY <1>3, <4>1, <4>2, Zenon
      <4>4. p - 1 = off[m] + 1 /\ p > 1
        BY <3>3, <4>3
      <4>5. u[p] \in 128 .. 191
        BY <3>3, <3>7, Zenon
      <4>6. u[p - 1] \in 194 .. 223
        <5>1. u[p - 1] = t[m]
          BY <4>3, <4>4, Zenon
        <5>2. t[m] = t[k - 1]
          BY <4>1, Zenon
        <5>3. QED
          BY <3>7, <5>1, <5>2
      <4>7. QED
        BY <4>4, <4>5, <4>6, Zenon DEF TextByte
    <3>8. QED
      BY <3>4, <3>5, <3>6, <3>7
  <2>6. QED
    BY <2>4, <2>5
<1>5. QED
  BY <1>1, <1>4, Utf8Is, Zenon

\* `unescape` reads what `escape` writes, and no quotation mark stands where the
\* scan of a literal does.
LEMMA EscapeReads ==
    ASSUME NEW s \in Seq(Byte), ~escape_Fails(s)
    PROVE  LET u == pct_bytes(escape(s))
           IN  /\ \A i \in EscapeStarts(u) : u[i] # Quote
               /\ ~unescape_Fails(escape(s))
               /\ pct_bytes(unescape(escape(s))) = pct_bytes(s)
<1> DEFINE t == pct_bytes(s)
           u == FlattenSeq([i \in DOMAIN t |-> Escaped(t[i])])
           e == pct_encode(u)
<1>1. t \in Seq(Byte) /\ Utf8(t)
  BY PctText, Zenon DEF escape_Fails
<1>2. escape(s) = e
  BY Zenon DEF escape, Escaped
<1> HIDE DEF t
<1>3. PICK n \in Nat : n = Len(t) /\ DOMAIN t = 1 .. n
  BY <1>1, SeqIs, Zenon
<1>4. \A k \in 1 .. n : t[k] \in Byte
  BY <1>1, <1>3
<1>5. u \in Seq(Byte) /\ \E off : EscapedAt(t, n, u, off)
  BY <1>1, <1>3, EscapedPlaces, Zenon
<1> HIDE DEF u
<1>6. PICK off : EscapedAt(t, n, u, off)
  BY <1>5
<1>7. Utf8(u)
  BY <1>1, <1>3, <1>5, <1>6, EscapedText, Zenon
<1>8. pct_bytes(e) = u /\ ~pct_decode_Fails(e)
  BY <1>5, <1>7, PctReads, Zenon
<1> HIDE DEF e
<1>9. ASSUME NEW k \in 1 .. n
      PROVE  /\ off[k] + 1 \in 1 .. Len(u) /\ u[off[k] + 1] # Quote /\ off[k] \in Nat
             /\ u[off[k] + 1] = Backslash <=> t[k] \in DOMAIN EscapeLetter
             /\ t[k] \notin DOMAIN EscapeLetter => u[off[k] + 1] = t[k]
             /\ t[k] \in DOMAIN EscapeLetter =>
                   off[k] + 2 \in 1 .. Len(u) /\ u[off[k] + 2] = EscapeLetter[t[k]]
  <2>1. Len(Escaped(t[k])) = IF t[k] \in DOMAIN EscapeLetter THEN 2 ELSE 1
    BY <1>4, EscapedIs, Zenon
  <2>2. 1 \in 1 .. Len(Escaped(t[k])) /\ (t[k] \in DOMAIN EscapeLetter => 2 \in 1 .. Len(Escaped(t[k])))
    BY <2>1
  <2>3. off[k] + 1 \in 1 .. Len(u) /\ u[off[k] + 1] = Escaped(t[k])[1] /\ off[k] \in Nat
    BY <1>6, <2>2, Zenon DEF EscapedAt
  <2>4. t[k] \in DOMAIN EscapeLetter =>
           off[k] + 2 \in 1 .. Len(u) /\ u[off[k] + 2] = Escaped(t[k])[2]
    BY <1>6, <2>2, Zenon DEF EscapedAt
  <2>5. QED
    BY <1>4, <2>3, <2>4, EscapedIs, Zenon
<1>10. ASSUME NEW i \in EscapeStarts(u)
       PROVE  /\ u[i] # Quote
              /\ ~(u[i] = Backslash /\ (i = Len(u) \/ u[i + 1] \notin DOMAIN Unescaped))
  <2>1. PICK k \in 1 .. n : i = off[k] + 1
    BY <1>6 DEF EscapedAt
  <2>2. PICK len \in Nat : len = Len(u)
    BY <1>5, SeqIs, Zenon
  <2>3. CASE t[k] \in DOMAIN EscapeLetter
    <3>1. i + 1 = off[k] + 2 /\ i + 1 \in 1 .. len
      BY <1>9, <2>1, <2>2, <2>3
    <3>2. i # Len(u)
      BY <2>2, <3>1
    <3>3. u[i + 1] \in DOMAIN Unescaped
      BY <1>9, <2>3, <3>1, LetterReads, Zenon
    <3>4. QED
      BY <1>9, <2>1, <3>2, <3>3, Zenon
  <2>4. CASE t[k] \notin DOMAIN EscapeLetter
    BY <1>9, <2>1, <2>4, Zenon
  <2>5. QED
    BY <2>3, <2>4
<1>11. ~unescape_Fails(e)
  BY <1>8, <1>10, Zenon DEF unescape_Fails
<1> DEFINE at == Ascending(EscapeStarts(u))
           v == [k \in DOMAIN at |-> IF u[at[k]] = Backslash THEN Unescaped[u[at[k] + 1]] ELSE u[at[k]]]
<1>12. unescape(e) = pct_encode(v)
  BY <1>8, Zenon DEF unescape
<1>13. v = t
  <2>1. DOMAIN at = 1 .. n /\ \A k \in 1 .. n : at[k] = off[k] + 1
    BY <1>6 DEF EscapedAt
  <2> HIDE DEF at
  <2>2. ASSUME NEW k \in 1 .. n
        PROVE  (IF u[at[k]] = Backslash THEN Unescaped[u[at[k] + 1]] ELSE u[at[k]]) = t[k]
    <3>1. at[k] = off[k] + 1 /\ at[k] + 1 = off[k] + 2
      BY <1>9, <2>1
    <3>2. CASE t[k] \in DOMAIN EscapeLetter
      <4>1. u[at[k]] = Backslash /\ u[at[k] + 1] = EscapeLetter[t[k]]
        BY <1>9, <3>1, <3>2, Zenon
      <4>2. QED
        BY <3>2, <4>1, LetterReads, Zenon
    <3>3. CASE t[k] \notin DOMAIN EscapeLetter
      BY <1>9, <3>1, <3>3, Zenon
    <3>4. QED
      BY <3>2, <3>3
  <2>3. v = [k \in 1 .. n |-> t[k]]
    BY <2>1, <2>2, Zenon
  <2>4. t = [k \in 1 .. n |-> t[k]]
    BY <1>1, <1>3
  <2>5. QED
    BY <2>3, <2>4, Zenon
<1> HIDE DEF v
<1>14. pct_bytes(unescape(e)) = t
  BY <1>1, <1>12, <1>13, PctReads, Zenon
<1>15. QED
  BY <1>2, <1>8, <1>10, <1>11, <1>14, Zenon DEF t

-----------------------------------------------------------------------------
\* The replacements of a right-hand side.

Letters == {92, 110, 116, 114}

\* What a pass writes for the pair of a backslash and c.
Value(c) == CASE c = 92 -> 256 [] c = 110 -> 10 [] c = 116 -> 9 [] OTHER -> 13

\* What stands at a place: a byte or the placeholder.
Cell == 0 .. 256

\* What a pair becomes begins no pair, and ends none.
LEMMA ValueIs ==
    ASSUME NEW c \in Letters
    PROVE  Value(c) \in Cell /\ Value(c) \notin Letters /\ Value(c) # Backslash
BY DEF Value, Letters, Cell, Backslash

\* The pairs a scan over backslashes finds, of a second byte in L; what passes over
\* these letters leave of the places, and what they make of one.
Pairs(t, n, L) == { i \in EscapeStarts(t) : t[i] = Backslash /\ i < n /\ t[i + 1] \in L }
Left(t, n, L) == { i \in 1 .. n : i - 1 \notin Pairs(t, n, L) }
Become(t, n, L, i) == IF i \in Pairs(t, n, L) THEN Value(t[i + 1]) ELSE t[i]
ReadBy(t, n, L) ==
    [k \in 1 .. Cardinality(Left(t, n, L)) |-> Become(t, n, L, Ascending(Left(t, n, L))[k])]

\* A text of n bytes.
Text(t, n) == t \in Seq(Byte) /\ n \in Nat /\ n = Len(t) /\ DOMAIN t = 1 .. n

\* The passes over L are done, the one over x is next.
Pass(L, x) == L \in SUBSET Letters /\ x \in Letters /\ x \notin L /\ (Backslash \in L \/ x = Backslash)

\* A place is an escape's second exactly when the scan stood at a backslash before it.
LEMMA EscapeStep ==
    ASSUME NEW t, NEW n, Text(t, n)
    PROVE  /\ EscapeStarts(t) \subseteq 1 .. n
           /\ \A i \in 1 .. n : i \in EscapeStarts(t) <=> ~(i - 1 \in EscapeStarts(t) /\ t[i - 1] = Backslash)
<1> DEFINE A == { i \in DOMAIN t : t[i] = Backslash }
           E == EscapeStarts(t)
<1>0. t \in Seq(Byte) /\ n \in Nat /\ n = Len(t) /\ DOMAIN t = 1 .. n
  BY Zenon DEF Text
<1>1. Scan(E, n, A, {})
  BY <1>0, EscapeScan
<1> HIDE DEF E
<1>2. E \subseteq 1 .. n
  BY <1>1 DEF Scan
<1>3. ASSUME NEW i \in 1 .. n PROVE i \in E <=> ~(i - 1 \in E /\ t[i - 1] = Backslash)
  <2>1. i \in E <=> ~(i - 1 \in E /\ i - 1 \in A)
    BY <1>1, Zenon DEF Scan
  <2>2. i - 1 \in E => i - 1 \in DOMAIN t
    BY <1>0, <1>2
  <2>3. i - 1 \in A <=> i - 1 \in DOMAIN t /\ t[i - 1] = Backslash
    BY Zenon
  <2>4. QED
    BY <2>1, <2>2, <2>3, Zenon
<1>4. QED
  BY <1>2, <1>3 DEF E

\* A pair is two places, of which the scan stands at the first only.
LEMMA PairsIs ==
    ASSUME NEW t, NEW n, Text(t, n), NEW L, NEW i
    PROVE  /\ i \in Pairs(t, n, L) <=> i \in EscapeStarts(t) /\ t[i] = Backslash /\ i < n /\ t[i + 1] \in L
           /\ i \in Pairs(t, n, L) => i \in 1 .. n /\ i + 1 \in 1 .. n /\ i + 1 \notin EscapeStarts(t)
<1>0. n \in Nat
  BY DEF Text
<1>1. i \in Pairs(t, n, L) <=> i \in EscapeStarts(t) /\ t[i] = Backslash /\ i < n /\ t[i + 1] \in L
  BY Zenon DEF Pairs
<1>2. ASSUME i \in Pairs(t, n, L)
      PROVE  i \in 1 .. n /\ i + 1 \in 1 .. n /\ i + 1 \notin EscapeStarts(t)
  <2>0. i < n /\ t[i] = Backslash /\ i \in EscapeStarts(t)
    BY <1>1, <1>2
  <2>1. i \in 1 .. n /\ i < n /\ t[i] = Backslash /\ i \in EscapeStarts(t)
    BY <2>0, EscapeStep
  <2>2. PICK j \in 1 .. n : j = i + 1 /\ j - 1 = i
    BY <1>0, <2>1
  <2>3. j \notin EscapeStarts(t)
    <3>1. j - 1 \in EscapeStarts(t) /\ t[j - 1] = Backslash
      BY <2>1, <2>2
    <3>2. QED
      BY <3>1, EscapeStep, Zenon
  <2>4. QED
    BY <2>1, <2>2, <2>3
<1>3. QED
  BY <1>1, <1>2

\* The places that are left are numbered, and what is read at each is a byte or the
\* placeholder.
LeftNumbered(t, n, L, D, m, a, r) ==
    /\ D \subseteq 1 .. n
    /\ m \in Nat
    /\ Numbers(a, m, D)
    /\ r \in Seq(Cell)
    /\ Len(r) = m
    /\ DOMAIN r = 1 .. m
    /\ \A k \in 1 .. m : r[k] = Become(t, n, L, a[k])

\* The places that are left, numbered from the left, hold what has been read.
LEMMA LeftIs ==
    ASSUME NEW t, NEW n, Text(t, n), NEW L, L \in SUBSET Letters
    PROVE  LeftNumbered(t, n, L, Left(t, n, L), Cardinality(Left(t, n, L)),
                        Ascending(Left(t, n, L)), ReadBy(t, n, L))
<1> DEFINE D == Left(t, n, L)
<1>0. t \in Seq(Byte) /\ n \in Nat /\ n = Len(t) /\ DOMAIN t = 1 .. n
  BY Zenon DEF Text
<1>1. D \subseteq 1 .. n
  BY DEF Left
<1>2. IsFiniteSet(D)
  <2>1. IsFiniteSet(1 .. n)
    BY <1>0, FS_Interval
  <2>2. QED
    BY <1>1, <2>1, FS_Subset
<1> DEFINE m == Cardinality(D)
           a == Ascending(D)
           r == ReadBy(t, n, L)
<1>3. m \in Nat /\ Numbers(a, m, D)
  <2>1. \A i \in D : i \in Int
    BY <1>0, <1>1
  <2>2. QED
    BY <1>2, <2>1, AscendingNumbers, Zenon
<1>4. r = [k \in 1 .. m |-> Become(t, n, L, a[k])]
  BY Zenon DEF ReadBy
<1> HIDE DEF D, m, a, r
<1>5. ASSUME NEW i \in D PROVE Become(t, n, L, i) \in Cell
  <2>1. i \in 1 .. n
    BY <1>1
  <2>2. CASE i \in Pairs(t, n, L)
    <3>1. t[i + 1] \in Letters
      BY <2>2, PairsIs
    <3>2. QED
      BY <2>2, <3>1, ValueIs, Zenon DEF Become
  <2>3. CASE i \notin Pairs(t, n, L)
    <3>1. Become(t, n, L, i) = t[i]
      BY <2>3, Zenon DEF Become
    <3>2. t[i] \in Byte
      BY <1>0, <2>1
    <3>3. QED
      BY <3>1, <3>2 DEF Byte, Cell
  <2>4. QED
    BY <2>2, <2>3
<1>6. \A k \in 1 .. m : Become(t, n, L, a[k]) \in Cell
  BY <1>3, <1>5, Zenon DEF Numbers
<1>7. r \in [1 .. m -> Cell]
  BY <1>4, <1>6, Zenon
<1>8. \A f \in [1 .. m -> Cell] : f \in Seq(Cell) /\ Len(f) = m /\ DOMAIN f = 1 .. m
  BY <1>3
<1>9. r \in Seq(Cell) /\ Len(r) = m /\ DOMAIN r = 1 .. m
  BY <1>7, <1>8, Zenon
<1>10. \A k \in 1 .. m : r[k] = Become(t, n, L, a[k])
  BY <1>4, Zenon
<1>11. QED
  <2>1. LeftNumbered(t, n, L, D, m, a, r)
    BY <1>1, <1>3, <1>9, <1>10, Zenon DEF LeftNumbered
  <2>2. QED
    BY <2>1, Zenon DEF D, m, a, r

\* In a numbering the successor of a member, when it is one, comes next.
LEMMA NumbersNext ==
    ASSUME NEW m \in Nat, NEW D \in SUBSET Int, NEW a, Numbers(a, m, D)
    PROVE  \A k \in 1 .. m : a[k] + 1 \in D => k + 1 \in 1 .. m /\ a[k + 1] = a[k] + 1
<1> SUFFICES ASSUME NEW k \in 1 .. m, a[k] + 1 \in D
             PROVE  k + 1 \in 1 .. m /\ a[k + 1] = a[k] + 1
  OBVIOUS
<1>1. PICK j \in 1 .. m : a[j] = a[k] + 1
  BY Zenon DEF Numbers
<1>2. \A i \in 1 .. m : a[i] \in Int
  BY Zenon DEF Numbers
<1>3. \A i, l \in 1 .. m : i < l => a[i] < a[l]
  BY Zenon DEF Numbers
<1>4. k < j
  BY <1>1, <1>2, <1>3
<1>5. k + 1 \in 1 .. m
  BY <1>4
<1>6. ~(k + 1 < j)
  <2> SUFFICES ASSUME k + 1 < j PROVE FALSE
    OBVIOUS
  <2>1. a[k] < a[k + 1] /\ a[k + 1] < a[j]
    BY <1>3, <1>5
  <2>2. a[k] \in Int /\ a[k + 1] \in Int
    BY <1>2, <1>5
  <2>3. QED
    BY <1>1, <2>1, <2>2
<1>7. j = k + 1
  BY <1>4, <1>5, <1>6
<1>8. QED
  BY <1>1, <1>5, <1>7

\* A pass over the letter x reads, of what the passes over L left, the pairs of x.
Passes(Q, D, B, a, m) ==
    /\ \A i \in Q : i \in D /\ i + 1 \in D
    /\ \A k \in 1 .. m : a[k] \in Q => k + 1 \in 1 .. m /\ a[k + 1] = a[k] + 1 /\ k \in B
    /\ \A k \in B : k \in 1 .. m /\ k + 1 \in 1 .. m /\ (a[k] \in Q \/ a[k] - 1 \in Q)

\* A pass finds, in what is left, the pairs of its letter and no other.
LEMMA PassIs ==
    ASSUME NEW t, NEW n, Text(t, n),
           NEW L, NEW x, Pass(L, x)
    PROVE  LET r == ReadBy(t, n, L)
               D == Left(t, n, L)
               B == { k \in DOMAIN r : r[k] = Backslash /\ k < Len(r) /\ r[k + 1] = x }
           IN  Passes(Pairs(t, n, {x}), D, B, Ascending(D), Cardinality(D))
<1> DEFINE r == ReadBy(t, n, L)
           D == Left(t, n, L)
           m == Cardinality(D)
           a == Ascending(D)
           Q == Pairs(t, n, {x})
           B == { k \in DOMAIN r : r[k] = Backslash /\ k < Len(r) /\ r[k + 1] = x }
<1> DEFINE P == Pairs(t, n, L)
           E == EscapeStarts(t)
<1>a. n \in Nat
  BY DEF Text
<1> USE <1>a
<1>b. L \in SUBSET Letters /\ x \in Letters /\ x \notin L /\ (Backslash \in L \/ x = Backslash)
  BY DEF Pass
<1>1. /\ D \subseteq 1 .. n /\ m \in Nat /\ Numbers(a, m, D)
      /\ Len(r) = m /\ DOMAIN r = 1 .. m /\ \A k \in 1 .. m : r[k] = Become(t, n, L, a[k])
  BY <1>b, LeftIs, Zenon DEF LeftNumbered
<1>2. \A i : i \in P <=> i \in E /\ t[i] = Backslash /\ i < n /\ t[i + 1] \in L
  BY PairsIs, Zenon
<1>3. \A i : i \in Q <=> i \in E /\ t[i] = Backslash /\ i < n /\ t[i + 1] \in {x}
  BY PairsIs, Zenon
<1>4. \A i : i \in P \/ i \in Q => i \in 1 .. n /\ i + 1 \in 1 .. n /\ i + 1 \notin E
  BY PairsIs, Zenon
<1>5. \A i : i \in D <=> i \in 1 .. n /\ i - 1 \notin P
  BY DEF Left
<1>6. E \subseteq 1 .. n /\ \A i \in 1 .. n : i \in E <=> ~(i - 1 \in E /\ t[i - 1] = Backslash)
  BY EscapeStep, Zenon
<1> HIDE DEF P, E, Q, D, r, m, a
<1>0. \A k : k \in B <=> k \in 1 .. m /\ r[k] = Backslash /\ k < m /\ r[k + 1] = x
  BY <1>1, Zenon
<1> HIDE DEF B
<1>7. ASSUME NEW i \in Q
      PROVE  i \in D /\ i + 1 \in D /\ i \notin P /\ t[i] = Backslash /\ t[i + 1] = x /\ i + 1 \notin P
  <2>1. i \in 1 .. n /\ i + 1 \in 1 .. n /\ i + 1 \notin E /\ i \in E /\ t[i] = Backslash /\ t[i + 1] = x
    BY <1>3, <1>4
  <2>2. i \notin P
    BY <1>2, <1>b, <2>1
  <2>3. i + 1 \notin P
    BY <1>2, <2>1
  <2>4. i - 1 \notin P
    <3>1. ~(i - 1 \in E /\ t[i - 1] = Backslash)
      BY <1>6, <2>1, Zenon
    <3>2. QED
      BY <1>2, <3>1
  <2>5. PICK j \in 1 .. n : j = i + 1 /\ j - 1 = i
    BY <2>1
  <2>6. j \in D
    BY <1>5, <2>2, <2>5
  <2>7. QED
    BY <1>5, <2>1, <2>2, <2>3, <2>4, <2>5, <2>6
<1>8. \A k \in 1 .. m : a[k] \in D
  BY <1>1, Zenon DEF Numbers
<1>9. D \in SUBSET Int
  BY <1>1
<1>c. \A k \in 1 .. m : a[k] + 1 \in D => k + 1 \in 1 .. m /\ a[k + 1] = a[k] + 1
  <2>1. m \in Nat
    BY <1>1
  <2>2. Numbers(a, m, D)
    BY <1>1
  <2>3. QED
    BY <1>9, <2>1, <2>2, NumbersNext
<1>10. ASSUME NEW k \in 1 .. m, a[k] \in Q
       PROVE  k + 1 \in 1 .. m /\ a[k + 1] = a[k] + 1 /\ k \in B
  <2>1. k + 1 \in 1 .. m /\ a[k + 1] = a[k] + 1
    BY <1>c, <1>7, <1>10, Zenon
  <2>2. r[k] = Backslash
    <3>1. Become(t, n, L, a[k]) = t[a[k]]
      BY <1>7, <1>10, Zenon DEF Become, P
    <3>2. QED
      BY <1>1, <1>7, <1>10, <3>1, Zenon
  <2>3. r[k + 1] = x
    <3>1. a[k + 1] \notin P /\ t[a[k + 1]] = x
      <4>1. a[k] + 1 \notin P /\ t[a[k] + 1] = x
        BY <1>7, <1>10
      <4>2. QED
        BY <2>1, <4>1
    <3>2. Become(t, n, L, a[k + 1]) = x
      BY <3>1, Zenon DEF Become, P
    <3>3. QED
      BY <1>1, <2>1, <3>2, Zenon
  <2>4. k < m
    BY <1>1, <2>1
  <2>5. k \in B
    BY <1>0, <2>2, <2>3, <2>4, Zenon
  <2>6. QED
    BY <2>1, <2>5
<1>11. ASSUME NEW k \in B
       PROVE  k \in 1 .. m /\ k + 1 \in 1 .. m /\ (a[k] \in Q \/ a[k] - 1 \in Q)
  <2>1. k \in 1 .. m /\ r[k] = Backslash /\ k < m /\ r[k + 1] = x
    BY <1>0, Zenon
  <2>2. k + 1 \in 1 .. m /\ k < k + 1
    BY <1>1, <2>1
  <2>3. PICK i \in D : i = a[k]
    BY <1>8, <2>1
  <2>4. PICK l \in D : l = a[k + 1]
    BY <1>8, <2>2
  <2>5. i < l /\ i \in 1 .. n /\ l \in 1 .. n
    <3>1. a[k] < a[k + 1]
      BY <1>1, <2>1, <2>2, Zenon DEF Numbers
    <3>2. QED
      BY <1>1, <2>3, <2>4, <3>1
  <2>6. i \notin P
    <3> SUFFICES ASSUME i \in P PROVE FALSE
      OBVIOUS
    <3>1. t[i + 1] \in Letters
      BY <1>b, <1>2
    <3>2. r[k] = Value(t[i + 1])
      BY <1>1, <2>1, <2>3, Zenon DEF Become, P
    <3>3. QED
      BY <1>b, <2>1, <3>1, <3>2, ValueIs
  <2>7. t[i] = Backslash
    <3>1. r[k] = t[i]
      BY <1>1, <2>1, <2>3, <2>6, Zenon DEF Become, P
    <3>2. QED
      BY <2>1, <3>1
  <2>8. i + 1 \in D
    <3>1. PICK j \in 1 .. n : j = i + 1 /\ j - 1 = i
      BY <2>5
    <3>2. j \in D
      BY <1>5, <2>6, <3>1
    <3>3. QED
      BY <3>1, <3>2
  <2>9. l = i + 1
    <3>1. a[k + 1] = a[k] + 1
      BY <1>c, <2>1, <2>3, <2>8, Zenon
    <3>2. QED
      BY <2>3, <2>4, <3>1
  <2>10. l \notin P
    <3> SUFFICES ASSUME l \in P PROVE FALSE
      OBVIOUS
    <3>1. t[l + 1] \in Letters
      BY <1>b, <1>2
    <3>2. r[k + 1] = Value(t[l + 1])
      BY <1>1, <2>2, <2>4, Zenon DEF Become, P
    <3>3. QED
      BY <1>b, <2>1, <3>1, <3>2, ValueIs
  <2>11. t[i + 1] = x
    <3>1. r[k + 1] = t[l]
      BY <1>1, <2>2, <2>4, <2>10, Zenon DEF Become, P
    <3>2. QED
      BY <2>1, <2>9, <3>1
  <2>12. i < n
    BY <2>5
  <2>13. CASE i \in E
    <3>1. i \in Q
      BY <1>3, <2>7, <2>11, <2>12, <2>13
    <3>2. QED
      BY <2>1, <2>2, <2>3, <3>1
  <2>14. CASE i \notin E
    <3>1. i - 1 \in E /\ t[i - 1] = Backslash
      BY <1>6, <2>5, <2>14, Zenon
    <3>2. PICK h \in 1 .. n : h = i - 1 /\ h + 1 = i
      BY <1>6, <2>5, <3>1
    <3>3. h \in E /\ t[h] = Backslash /\ h < n /\ t[h + 1] = Backslash
      BY <2>7, <2>5, <3>1, <3>2
    <3>4. Backslash \notin L
      <4> SUFFICES ASSUME Backslash \in L PROVE FALSE
        OBVIOUS
      <4>1. h \in P
        BY <1>2, <3>3
      <4>2. i - 1 \notin P
        BY <1>5
      <4>3. QED
        BY <3>2, <4>1, <4>2
    <3>5. x = Backslash
      BY <1>b, <3>4
    <3>6. h \in Q
      BY <1>3, <3>3, <3>5
    <3>7. QED
      BY <2>1, <2>2, <2>3, <3>2, <3>6
  <2>15. QED
    BY <2>13, <2>14
<1>12. Passes(Q, D, B, a, m)
  BY <1>7, <1>10, <1>11, Zenon DEF Passes
<1>13. QED
  BY <1>12, Zenon DEF Q, D, B, a, m, r

-----------------------------------------------------------------------------
\* The places the pass keeps are those not behind a pair it reads.
LEMMA PassScan ==
    ASSUME NEW m \in Nat, NEW D \in SUBSET Int, NEW a, Numbers(a, m, D), NEW Q, NEW B,
           Passes(Q, D, B, a, m), \A i \in Q : i - 1 \notin Q
    PROVE  Scan({ k \in 1 .. m : a[k] - 1 \notin Q }, m, B, {})
<1> DEFINE S == { k \in 1 .. m : a[k] - 1 \notin Q }
<1>1. \A i \in Q : i \in D /\ i + 1 \in D
  BY Zenon DEF Passes
<1>2. \A k \in 1 .. m : a[k] \in Q => k + 1 \in 1 .. m /\ a[k + 1] = a[k] + 1 /\ k \in B
  BY Zenon DEF Passes
<1>3. \A k \in B : k \in 1 .. m /\ k + 1 \in 1 .. m /\ (a[k] \in Q \/ a[k] - 1 \in Q)
  BY Zenon DEF Passes
<1>4. /\ \A k \in 1 .. m : a[k] \in Int
      /\ \A i \in D : \E k \in 1 .. m : a[k] = i
      /\ \A i, j \in 1 .. m : i < j => a[i] < a[j]
  BY DEF Numbers
<1>5. ASSUME NEW k \in 1 .. m PROVE k \in S <=> ~(k - 1 \in S /\ k - 1 \in B)
  <2>1. ASSUME k \in S, k - 1 \in S, k - 1 \in B PROVE FALSE
    <3>1. PICK h \in 1 .. m : h = k - 1 /\ h + 1 = k
      BY <2>1
    <3>2. a[h] \in Q
      BY <1>3, <2>1, <3>1
    <3>3. a[k] = a[h] + 1
      BY <1>2, <3>1, <3>2
    <3>4. a[k] - 1 \in Q
      BY <1>4, <3>1, <3>2, <3>3
    <3>5. QED
      BY <2>1, <3>4
  <2>2. ASSUME k \notin S PROVE k - 1 \in S /\ k - 1 \in B
    <3>1. a[k] - 1 \in Q
      BY <2>2
    <3>2. PICK h \in 1 .. m : a[h] = a[k] - 1
      BY <1>1, <1>4, <3>1
    <3>3. h + 1 \in 1 .. m /\ a[h + 1] = a[h] + 1 /\ h \in B
      BY <1>2, <3>1, <3>2
    <3>4. a[h + 1] = a[k]
      BY <1>4, <3>2, <3>3
    <3>5. h + 1 = k
      <4>1. h + 1 < k \/ h + 1 = k \/ k < h + 1
        BY <3>3
      <4>2. h + 1 < k => a[h + 1] < a[k]
        BY <1>4, <3>3
      <4>3. k < h + 1 => a[k] < a[h + 1]
        BY <1>4, <3>3
      <4>4. a[k] \in Int
        BY <1>4
      <4>5. QED
        BY <3>4, <4>1, <4>2, <4>3, <4>4
    <3>6. a[h] - 1 \notin Q
      BY <3>1, <3>2
    <3>7. h = k - 1 /\ h \in S
      BY <3>5, <3>6
    <3>8. QED
      BY <3>3, <3>7
  <2>3. QED
    BY <2>1, <2>2
<1>6. S \subseteq 1 .. m
  OBVIOUS
<1> HIDE DEF S
<1>7. Scan(S, m, B, {})
  BY <1>5, <1>6 DEF Scan
<1>8. QED
  BY <1>7 DEF S

\* And they are numbered in their order.
Kept(S, b, c, h, a) ==
    /\ c \in Nat
    /\ DOMAIN b = 1 .. c
    /\ \A j \in 1 .. c : b[j] \in S /\ h[j] = a[b[j]]

\* What a pass leaves of the places left is what it leaves of the text.
LEMMA PassNumbers ==
    ASSUME NEW m \in Nat, NEW D \in SUBSET Int, NEW a, Numbers(a, m, D), NEW Q
    PROVE  Kept({ k \in 1 .. m : a[k] - 1 \notin Q }, Ascending({ k \in 1 .. m : a[k] - 1 \notin Q }),
                Cardinality({ i \in D : i - 1 \notin Q }), Ascending({ i \in D : i - 1 \notin Q }), a)
<1> DEFINE S == { k \in 1 .. m : a[k] - 1 \notin Q }
           G == { i \in D : i - 1 \notin Q }
           b == Ascending(S)
           l == Cardinality(S)
           g == [j \in 1 .. l |-> a[b[j]]]
<1>1. l \in Nat /\ Numbers(b, l, S)
  <2>1. S \subseteq 1 .. m /\ \A i \in S : i \in Int
    OBVIOUS
  <2>2. IsFiniteSet(S)
    <3>1. IsFiniteSet(1 .. m)
      BY FS_Interval
    <3>2. QED
      BY <2>1, <3>1, FS_Subset
  <2>3. QED
    BY <2>1, <2>2, AscendingNumbers, Zenon
<1> HIDE DEF b, l
<1>2. /\ \A k \in 1 .. m : a[k] \in D
      /\ \A i \in D : \E k \in 1 .. m : a[k] = i
      /\ \A i, j \in 1 .. m : i < j => a[i] < a[j]
  BY DEF Numbers
<1>3. /\ DOMAIN b = 1 .. l
      /\ \A k \in 1 .. l : b[k] \in S
      /\ \A i \in S : \E k \in 1 .. l : b[k] = i
      /\ \A i, j \in 1 .. l : i < j => b[i] < b[j]
  BY <1>1, Zenon DEF Numbers
<1>4. Numbers(g, l, G)
  <2>1. DOMAIN g = 1 .. l /\ \A k \in 1 .. l : g[k] = a[b[k]]
    OBVIOUS
  <2> HIDE DEF g
  <2>2. ASSUME NEW k \in 1 .. l PROVE g[k] \in G
    <3>1. b[k] \in 1 .. m /\ a[b[k]] - 1 \notin Q
      BY <1>3
    <3>2. QED
      BY <1>2, <2>1, <3>1
  <2>3. ASSUME NEW i \in G PROVE \E k \in 1 .. l : g[k] = i
    <3>1. PICK j \in 1 .. m : a[j] = i
      BY <1>2
    <3>2. j \in S
      BY <3>1
    <3>3. PICK k \in 1 .. l : b[k] = j
      BY <1>3, <3>2
    <3>4. QED
      BY <2>1, <3>1, <3>3
  <2>4. ASSUME NEW i \in 1 .. l, NEW j \in 1 .. l, i < j PROVE g[i] < g[j]
    <3>1. b[i] \in 1 .. m /\ b[j] \in 1 .. m /\ b[i] < b[j]
      BY <1>3, <2>4
    <3>2. QED
      BY <1>2, <2>1, <3>1
  <2>5. QED
    BY <2>1, <2>2, <2>3, <2>4, Zenon DEF Numbers
<1>5. \A i \in G : i \in Int
  OBVIOUS
<1>6. \A k \in 1 .. l : g[k] = a[b[k]]
  OBVIOUS
<1> HIDE DEF S, G, g
<1>7. Cardinality(G) = l /\ Ascending(G) = [k \in 1 .. l |-> g[k]]
  <2>1. l \in Nat
    BY <1>1
  <2>2. Numbers(g, l, G)
    BY <1>4
  <2>3. QED
    BY <1>5, <2>1, <2>2, AscendingIs
<1>8. \A k \in 1 .. l : Ascending(G)[k] = a[b[k]]
  BY <1>6, <1>7, Zenon
<1>9. Kept(S, b, Cardinality(G), Ascending(G), a)
  BY <1>1, <1>3, <1>7, <1>8, Zenon DEF Kept
<1>10. QED
  BY <1>9 DEF S, G, b

\* One replacement is one pass: it reads one letter more.
LEMMA PassReads ==
    ASSUME NEW t, NEW n, Text(t, n), NEW L, NEW x, Pass(L, x)
    PROVE  ReplacePair(ReadBy(t, n, L), x, Value(x)) = ReadBy(t, n, L \cup {x})
<1> DEFINE r == ReadBy(t, n, L)
           D == Left(t, n, L)
           m == Cardinality(D)
           a == Ascending(D)
           P == Pairs(t, n, L)
           Q == Pairs(t, n, {x})
           R == Pairs(t, n, L \cup {x})
           B == { k \in DOMAIN r : r[k] = Backslash /\ k < Len(r) /\ r[k + 1] = x }
           S == { k \in 1 .. m : a[k] - 1 \notin Q }
           G == { i \in D : i - 1 \notin Q }
           E == EscapeStarts(t)
           b == Ascending(S)
           c == Cardinality(G)
<1>1. L \in SUBSET Letters /\ x \in Letters /\ x \notin L
  BY Zenon DEF Pass
<1>2. /\ D \subseteq 1 .. n /\ m \in Nat /\ Numbers(a, m, D) /\ r \in Seq(Cell)
      /\ Len(r) = m /\ DOMAIN r = 1 .. m /\ \A k \in 1 .. m : r[k] = Become(t, n, L, a[k])
  BY <1>1, LeftIs, Zenon DEF LeftNumbered
<1>3. Passes(Q, D, B, a, m)
  BY PassIs, Zenon
<1>4. \A i : i \in P <=> i \in E /\ t[i] = Backslash /\ i < n /\ t[i + 1] \in L
  BY PairsIs, Zenon
<1>5. \A i : i \in Q <=> i \in E /\ t[i] = Backslash /\ i < n /\ t[i + 1] \in {x}
  BY PairsIs, Zenon
<1>6. \A i : i \in R <=> i \in E /\ t[i] = Backslash /\ i < n /\ t[i + 1] \in L \cup {x}
  BY PairsIs, Zenon
<1>7. \A i : i \in R <=> i \in P \/ i \in Q
  BY <1>4, <1>5, <1>6, Zenon
<1>8. \A i : i \in P => i \notin Q
  BY <1>1, <1>4, <1>5
<1>9. \A i \in Q : i - 1 \notin Q
  <2> SUFFICES ASSUME NEW i \in Q PROVE i - 1 \notin Q
    OBVIOUS
  <2>1. i \in E /\ i \in 1 .. n
    BY <1>5, PairsIs, Zenon
  <2>2. ~(i - 1 \in E /\ t[i - 1] = Backslash)
    BY <2>1, EscapeStep, Zenon
  <2>3. QED
    BY <1>5, <2>2, Zenon
<1>10. G = Left(t, n, L \cup {x})
  <2>1. \A i : i \in D <=> i \in 1 .. n /\ i - 1 \notin P
    BY DEF Left
  <2>2. \A i : i \in Left(t, n, L \cup {x}) <=> i \in 1 .. n /\ i - 1 \notin R
    BY DEF Left
  <2> HIDE DEF D, P, Q, R
  <2>3. \A i : i \in G <=> i \in D /\ i - 1 \notin Q
    OBVIOUS
  <2> HIDE DEF G
  <2>4. \A i : i \in G <=> i \in Left(t, n, L \cup {x})
    BY <1>7, <2>1, <2>2, <2>3, Zenon
  <2>5. QED
    BY <2>4
<1>11. ReplacePair(r, x, Value(x)) =
          LET at == Ascending(PairStarts(r, x))
          IN  [k \in DOMAIN at |->
                  IF r[at[k]] = Backslash /\ at[k] < Len(r) /\ r[at[k] + 1] = x
                  THEN Value(x) ELSE r[at[k]]]
  BY Zenon DEF ReplacePair
<1>12. ReadBy(t, n, L \cup {x}) = [k \in 1 .. c |-> Become(t, n, L \cup {x}, Ascending(G)[k])]
  BY <1>10, Zenon DEF ReadBy
<1>13. \A k : k \in B <=> k \in 1 .. m /\ r[k] = Backslash /\ k < Len(r) /\ r[k + 1] = x
  BY <1>2, Zenon
<1>14. Scan(PairStarts(r, x), Len(r), B, {})
  <2> HIDE DEF r
  <2>1. QED
    BY <1>2, PairScan, Zenon
<1>15. \A i : Become(t, n, L, i) = IF i \in P THEN Value(t[i + 1]) ELSE t[i]
  BY Zenon DEF Become
<1>16. \A i : Become(t, n, L \cup {x}, i) = IF i \in R THEN Value(t[i + 1]) ELSE t[i]
  BY Zenon DEF Become
<1> HIDE DEF r, D, m, a, P, Q, R, B, E
<1>17. D \in SUBSET Int
  BY <1>2
<1>18. Scan(S, m, B, {})
  BY <1>2, <1>3, <1>9, <1>17, PassScan
<1>19. PairStarts(r, x) = S
  <2> HIDE DEF S
  <2>1. QED
    BY <1>2, <1>14, <1>18, ScanOnly, Zenon
<1>20. /\ c \in Nat /\ DOMAIN b = 1 .. c
       /\ \A j \in 1 .. c : b[j] \in S /\ Ascending(G)[j] = a[b[j]]
  <2>1. m \in Nat
    BY <1>2
  <2>2. Numbers(a, m, D)
    BY <1>2
  <2>3. Kept(S, b, c, Ascending(G), a)
    BY <1>17, <2>1, <2>2, PassNumbers
  <2>4. QED
    BY <2>3, Zenon DEF Kept
<1>21. \A k \in 1 .. m : a[k] \in Q => k \in B
  BY <1>3, Zenon DEF Passes
<1>22. \A k \in B : a[k] \in Q \/ a[k] - 1 \in Q
  BY <1>3, Zenon DEF Passes
<1>23. \A k \in S : k \in 1 .. m /\ (k \in B <=> a[k] \in Q)
  BY <1>21, <1>22
<1> HIDE DEF S, G, b, c
<1>24. ASSUME NEW j \in 1 .. c
       PROVE  (IF r[b[j]] = Backslash /\ b[j] < Len(r) /\ r[b[j] + 1] = x THEN Value(x) ELSE r[b[j]])
                 = Become(t, n, L \cup {x}, Ascending(G)[j])
  <2> DEFINE k == b[j]
  <2>1. k \in S /\ Ascending(G)[j] = a[k]
    BY <1>20
  <2> HIDE DEF k
  <2>2. k \in 1 .. m /\ (k \in B <=> a[k] \in Q)
    BY <1>23, <2>1
  <2>3. k \in B <=> r[k] = Backslash /\ k < Len(r) /\ r[k + 1] = x
    BY <1>13, <2>2, Zenon
  <2>4. CASE k \in B
    <3>1. a[k] \in R /\ t[a[k] + 1] = x
      BY <1>5, <1>7, <2>2, <2>4
    <3>2. Become(t, n, L \cup {x}, a[k]) = Value(x)
      BY <1>16, <3>1, Zenon
    <3>3. QED
      BY <2>1, <2>3, <2>4, <3>2, Zenon DEF k
  <2>5. CASE k \notin B
    <3>1. a[k] \in R <=> a[k] \in P
      BY <1>7, <2>2, <2>5, Zenon
    <3>2. Become(t, n, L \cup {x}, a[k]) = Become(t, n, L, a[k])
      BY <1>15, <1>16, <3>1, Zenon
    <3>3. r[k] = Become(t, n, L, a[k])
      BY <1>2, <2>2, Zenon
    <3>4. QED
      BY <2>1, <2>3, <2>5, <3>2, <3>3, Zenon DEF k
  <2>6. QED
    BY <2>4, <2>5
<1>25. QED
  <2>1. ReplacePair(r, x, Value(x)) =
           [j \in 1 .. c |->
               IF r[b[j]] = Backslash /\ b[j] < Len(r) /\ r[b[j] + 1] = x THEN Value(x) ELSE r[b[j]]]
    BY <1>11, <1>19, <1>20, Zenon DEF b
  <2>2. ReplacePair(r, x, Value(x)) = ReadBy(t, n, L \cup {x})
    BY <1>12, <1>24, <2>1, Zenon
  <2>3. QED
    BY <2>2 DEF r

-----------------------------------------------------------------------------
\* Part k of a flattened sequence holds one place or two, of which e[k] is the first.
PlaceIn(e, k, j) == IF j = 1 THEN e[k] ELSE e[k] + 1

\* The parts hold the places of G, each once: those of E first, then the place behind.
Holds(e, n, w, E, G) ==
    /\ \A k \in 1 .. n : w[k] \in 1 .. 2 /\ e[k] \in G
    /\ \A k \in 1 .. n : w[k] = 2 => e[k] + 1 \in G /\ e[k] + 1 \notin E
    /\ \A i \in G : i \notin E => \E k \in 1 .. n : w[k] = 2 /\ i = e[k] + 1

\* g numbers G, in the order of the parts.
InParts(g, len, G, n, w, off, e) ==
    /\ Numbers(g, len, G)
    /\ \A k \in 1 .. n : \A j \in 1 .. w[k] : g[off[k] + j] = PlaceIn(e, k, j)

\* Parts in order number the places they hold.
LEMMA PartsNumber ==
    ASSUME NEW n \in Nat, NEW w, NEW off, NEW len \in Nat, Layout(n, w, off, len),
           NEW E \in SUBSET Int, NEW G \in SUBSET Int, NEW e, Numbers(e, n, E),
           Holds(e, n, w, E, G)
    PROVE  \E g : InParts(g, len, G, n, w, off, e)
<1> DEFINE Is(p, i) == \E k \in 1 .. n : \E j \in 1 .. w[k] : p = off[k] + j /\ i = PlaceIn(e, k, j)
           g == [p \in 1 .. len |-> CHOOSE i : Is(p, i)]
<1>1. /\ \A k \in 1 .. n : e[k] \in E /\ e[k] \in Int
      /\ \A i \in E : \E k \in 1 .. n : e[k] = i
      /\ \A i, j \in 1 .. n : i < j => e[i] < e[j]
  BY DEF Numbers
<1>2. /\ \A k \in 1 .. n : w[k] \in 1 .. 2 /\ e[k] \in G
      /\ \A k \in 1 .. n : w[k] = 2 => e[k] + 1 \in G /\ e[k] + 1 \notin E
      /\ \A i \in G : i \notin E => \E k \in 1 .. n : w[k] = 2 /\ i = e[k] + 1
  BY Zenon DEF Holds
<1>3. /\ \A k \in 1 .. n : off[k] \in Nat
      /\ \A k \in 1 .. n : \A j \in 1 .. w[k] : off[k] + j \in 1 .. len
      /\ \A p \in 1 .. len : \E k \in 1 .. n : \E j \in 1 .. w[k] : p = off[k] + j
  BY Zenon DEF Layout
<1>4. ASSUME NEW k \in 1 .. n, NEW j \in 1 .. w[k]
      PROVE  g[off[k] + j] = PlaceIn(e, k, j) /\ off[k] + j \in 1 .. len
  <2>1. off[k] + j \in 1 .. len
    BY <1>3
  <2>2. Is(off[k] + j, PlaceIn(e, k, j))
    BY Zenon
  <2>3. \A i : Is(off[k] + j, i) => i = PlaceIn(e, k, j)
    <3> SUFFICES ASSUME NEW i, Is(off[k] + j, i) PROVE i = PlaceIn(e, k, j)
      BY Zenon
    <3>1. PICK m \in 1 .. n : \E l \in 1 .. w[m] : off[k] + j = off[m] + l /\ i = PlaceIn(e, m, l)
      BY Zenon
    <3>2. PICK l \in 1 .. w[m] : off[k] + j = off[m] + l /\ i = PlaceIn(e, m, l)
      BY <3>1, Zenon
    <3>3. k = m /\ j = l
      BY <3>2, PlacedOnce
    <3>4. QED
      BY <3>2, <3>3
  <2> HIDE DEF Is
  <2>4. (CHOOSE i : Is(off[k] + j, i)) = PlaceIn(e, k, j)
    BY <2>2, <2>3, Zenon
  <2>5. QED
    BY <2>1, <2>4, Zenon
<1>5. DOMAIN g = 1 .. len
  OBVIOUS
<1> HIDE DEF g
<1>6. ASSUME NEW k \in 1 .. n, NEW j \in 1 .. w[k]
      PROVE  PlaceIn(e, k, j) \in G
  <2>1. CASE j = 1
    BY <1>2, <2>1 DEF PlaceIn
  <2>2. CASE j # 1
    <3>1. w[k] = 2
      BY <1>2, <2>2
    <3>2. QED
      BY <1>2, <2>2, <3>1 DEF PlaceIn
  <2>3. QED
    BY <2>1, <2>2
<1>7. ASSUME NEW p \in 1 .. len PROVE g[p] \in G
  <2>1. PICK k \in 1 .. n : \E j \in 1 .. w[k] : p = off[k] + j
    BY <1>3, Zenon
  <2>2. PICK j \in 1 .. w[k] : p = off[k] + j
    BY <2>1, Zenon
  <2>3. QED
    BY <1>4, <1>6, <2>2, Zenon
<1>8. ASSUME NEW i \in G PROVE \E p \in 1 .. len : g[p] = i
  <2>1. CASE i \in E
    <3>1. PICK k \in 1 .. n : e[k] = i
      BY <1>1, <2>1, Zenon
    <3>2. 1 \in 1 .. w[k]
      BY <1>2
    <3>3. g[off[k] + 1] = i /\ off[k] + 1 \in 1 .. len
      <4>1. PlaceIn(e, k, 1) = i
        BY <3>1 DEF PlaceIn
      <4>2. QED
        BY <1>4, <3>2, <4>1, Zenon
    <3>4. QED
      BY <3>3, Zenon
  <2>2. CASE i \notin E
    <3>1. PICK k \in 1 .. n : w[k] = 2 /\ i = e[k] + 1
      BY <1>2, <2>2, Zenon
    <3>2. 2 \in 1 .. w[k]
      BY <3>1
    <3>3. g[off[k] + 2] = i /\ off[k] + 2 \in 1 .. len
      <4>1. PlaceIn(e, k, 2) = i
        BY <3>1 DEF PlaceIn
      <4>2. QED
        BY <1>4, <3>2, <4>1, Zenon
    <3>4. QED
      BY <3>3, Zenon
  <2>3. QED
    BY <2>1, <2>2
<1>9. ASSUME NEW p \in 1 .. len, NEW q \in 1 .. len, p < q PROVE g[p] < g[q]
  <2>1. PICK k \in 1 .. n : \E j \in 1 .. w[k] : p = off[k] + j
    BY <1>3, Zenon
  <2>2. PICK j \in 1 .. w[k] : p = off[k] + j
    BY <2>1, Zenon
  <2>3. PICK m \in 1 .. n : \E l \in 1 .. w[m] : q = off[m] + l
    BY <1>3, Zenon
  <2>4. PICK l \in 1 .. w[m] : q = off[m] + l
    BY <2>3, Zenon
  <2>5. g[p] = PlaceIn(e, k, j) /\ g[q] = PlaceIn(e, m, l)
    BY <1>4, <2>2, <2>4, Zenon
  <2>6. /\ w[k] \in 1 .. 2 /\ w[m] \in 1 .. 2 /\ e[k] \in Int /\ e[m] \in Int
        /\ off[k] \in Nat /\ off[m] \in Nat
    BY <1>1, <1>2, <1>3
  <2>7. ~(m < k)
    <3> SUFFICES ASSUME m < k PROVE FALSE
      OBVIOUS
    <3>1. off[m] + w[m] <= off[k]
      BY PlacedBefore
    <3>2. QED
      BY <1>9, <2>2, <2>4, <2>6, <3>1
  <2>8. CASE k = m
    <3>1. j = 1 /\ l # 1
      BY <1>9, <2>2, <2>4, <2>6, <2>8
    <3>2. QED
      BY <2>5, <2>6, <2>8, <3>1 DEF PlaceIn
  <2>9. CASE k < m
    <3>1. e[k] < e[m]
      BY <1>1, <2>9
    <3>2. j # 1 => e[k] + 1 # e[m]
      <4>1. j # 1 => w[k] = 2
        BY <2>6
      <4>2. e[m] \in E
        BY <1>1
      <4>3. QED
        BY <1>2, <4>1, <4>2
    <3>3. QED
      BY <2>5, <2>6, <3>1, <3>2 DEF PlaceIn
  <2>10. QED
    BY <2>7, <2>8, <2>9
<1>10. Numbers(g, len, G)
  <2>1. \A p \in 1 .. len : g[p] \in G /\ g[p] \in Int
    BY <1>7
  <2>2. QED
    BY <1>5, <1>7, <1>8, <1>9, <2>1 DEF Numbers
<1>11. InParts(g, len, G, n, w, off, e)
  BY <1>4, <1>10, Zenon DEF InParts
<1>12. QED
  BY <1>11, Zenon

\* The placeholder is read as a backslash.
Plain(b) == IF b = 256 THEN Backslash ELSE b

\* What the reference reads at one place of the scan.
ReadOne(t, n, i) ==
    IF t[i] # Backslash \/ i = n THEN <<t[i]>>
    ELSE IF t[i + 1] \in Letters THEN <<Plain(Value(t[i + 1]))>>
    ELSE <<Backslash, t[i + 1]>>

\* The placeholder becomes the backslash it stood for; nothing else changes.
LEMMA PlainIs ==
    /\ \A c \in Letters : Plain(Value(c)) \in Byte
    /\ \A b \in Byte : Plain(b) = b
    /\ Backslash \in Byte
BY DEF Plain, Value, Letters, Byte, Backslash

ReadAt(t, n, i, r, P) ==
    /\ r \in Seq(Byte)
    /\ Len(r) \in 1 .. 2
    /\ Len(r) = 2 <=> i < n /\ t[i] = Backslash /\ i \notin P
    /\ r[1] = Plain(Become(t, n, Letters, i))
    /\ Len(r) = 2 => r[2] = t[i + 1]

\* At one place one cell is read, or two when an unknown letter is escaped.
LEMMA ReadOneIs ==
    ASSUME NEW t, NEW n, Text(t, n), NEW i \in EscapeStarts(t)
    PROVE  ReadAt(t, n, i, ReadOne(t, n, i), Pairs(t, n, Letters))
<1> DEFINE P == Pairs(t, n, Letters)
<1>1. n \in Nat /\ i \in 1 .. n
  BY EscapeStep DEF Text
<1>2. t[i] \in Byte /\ (i < n => t[i + 1] \in Byte)
  BY <1>1 DEF Text
<1>3. i \in P <=> t[i] = Backslash /\ i < n /\ t[i + 1] \in Letters
  BY PairsIs, Zenon
<1> HIDE DEF P
<1>4. Become(t, n, Letters, i) = IF i \in P THEN Value(t[i + 1]) ELSE t[i]
  BY Zenon DEF Become, P
<1>5. CASE t[i] # Backslash \/ i = n
  <2>1. ReadOne(t, n, i) = <<t[i]>>
    BY <1>5, Zenon DEF ReadOne
  <2>2. i \notin P
    BY <1>1, <1>3, <1>5
  <2>3. Plain(Become(t, n, Letters, i)) = t[i]
    BY <1>2, <1>4, <2>2, PlainIs, Zenon
  <2>4. ~(i < n /\ t[i] = Backslash)
    BY <1>1, <1>5
  <2>5. QED
    BY <1>2, <2>1, <2>2, <2>3, <2>4 DEF P, ReadAt
<1>6. CASE t[i] = Backslash /\ i # n
  <2>1. i < n
    BY <1>1, <1>6
  <2>2. CASE t[i + 1] \in Letters
    <3>1. ReadOne(t, n, i) = <<Plain(Value(t[i + 1]))>>
      BY <1>6, <2>2, Zenon DEF ReadOne
    <3>2. i \in P
      BY <1>3, <1>6, <2>1, <2>2
    <3>3. Plain(Become(t, n, Letters, i)) = Plain(Value(t[i + 1]))
      BY <1>4, <3>2, Zenon
    <3>4. Plain(Value(t[i + 1])) \in Byte
      BY <2>2, PlainIs, Zenon
    <3>5. QED
      BY <3>1, <3>2, <3>3, <3>4 DEF P, ReadAt
  <2>3. CASE t[i + 1] \notin Letters
    <3>1. ReadOne(t, n, i) = <<Backslash, t[i + 1]>>
      BY <1>6, <2>3, Zenon DEF ReadOne
    <3>2. i \notin P
      BY <1>3, <2>3
    <3>3. Plain(Become(t, n, Letters, i)) = Backslash
      BY <1>2, <1>4, <1>6, <3>2, PlainIs, Zenon
    <3>4. QED
      BY <1>2, <1>6, <2>1, <3>1, <3>2, <3>3, PlainIs DEF P, ReadAt
  <2>4. QED
    BY <2>2, <2>3
<1>7. QED
  BY <1>5, <1>6

-----------------------------------------------------------------------------
\* The four passes read the pairs of the four letters.
LEMMA PassesRead ==
    ASSUME NEW t, NEW n, Text(t, n)
    PROVE  ReplacePair(ReplacePair(ReplacePair(ReplacePair(t, 92, 256), 110, 10), 116, 9), 114, 13)
             = ReadBy(t, n, Letters)
<1>1. t \in Seq(Byte) /\ n \in Nat /\ n = Len(t) /\ DOMAIN t = 1 .. n
  BY Zenon DEF Text
<1>2. ReadBy(t, n, {}) = t
  <2> DEFINE g == [i \in 1 .. n |-> i]
  <2>1. Left(t, n, {}) = 1 .. n /\ \A i : Become(t, n, {}, i) = t[i]
    <3>1. \A i : i \notin Pairs(t, n, {})
      BY Zenon DEF Pairs
    <3>2. QED
      BY <3>1 DEF Left, Become
  <2>2. Numbers(g, n, 1 .. n)
    BY <1>1 DEF Numbers
  <2>3. Cardinality(1 .. n) = n /\ Ascending(1 .. n) = [i \in 1 .. n |-> g[i]]
    <3> HIDE DEF g
    <3>1. \A i \in 1 .. n : i \in Int
      OBVIOUS
    <3>2. n \in Nat
      BY <1>1
    <3>3. QED
      BY <2>2, <3>1, <3>2, AscendingIs
  <2>4. \A i \in 1 .. n : Ascending(1 .. n)[i] = i
    BY <2>3
  <2>5. ReadBy(t, n, {}) = [i \in 1 .. n |-> Become(t, n, {}, Ascending(1 .. n)[i])]
    BY <2>1, <2>3, Zenon DEF ReadBy
  <2>6. ReadBy(t, n, {}) = [i \in 1 .. n |-> t[i]]
    BY <2>1, <2>4, <2>5, Zenon
  <2>7. t = [i \in 1 .. n |-> t[i]]
    BY <1>1
  <2>8. QED
    BY <2>6, <2>7, Zenon
<1>3. /\ Pass({}, 92) /\ Pass({92}, 110) /\ Pass({92, 110}, 116) /\ Pass({92, 110, 116}, 114)
  BY DEF Pass, Letters, Backslash
<1>4. Value(92) = 256 /\ Value(110) = 10 /\ Value(116) = 9 /\ Value(114) = 13
  BY DEF Value
<1>5. /\ {} \cup {92} = {92} /\ {92} \cup {110} = {92, 110} /\ {92, 110} \cup {116} = {92, 110, 116}
      /\ {92, 110, 116} \cup {114} = Letters
  BY DEF Letters
<1>6. ReplacePair(ReadBy(t, n, {}), 92, 256) = ReadBy(t, n, {92})
  <2>1. ReplacePair(ReadBy(t, n, {}), 92, Value(92)) = ReadBy(t, n, {} \cup {92})
    BY <1>3, PassReads
  <2>2. QED
    BY <1>4, <1>5, <2>1
<1>7. ReplacePair(ReadBy(t, n, {92}), 110, 10) = ReadBy(t, n, {92, 110})
  <2>1. ReplacePair(ReadBy(t, n, {92}), 110, Value(110)) = ReadBy(t, n, {92} \cup {110})
    BY <1>3, PassReads
  <2>2. QED
    BY <1>4, <1>5, <2>1
<1>8. ReplacePair(ReadBy(t, n, {92, 110}), 116, 9) = ReadBy(t, n, {92, 110, 116})
  <2>1. ReplacePair(ReadBy(t, n, {92, 110}), 116, Value(116)) = ReadBy(t, n, {92, 110} \cup {116})
    BY <1>3, PassReads
  <2>2. QED
    BY <1>4, <1>5, <2>1
<1>9. ReplacePair(ReadBy(t, n, {92, 110, 116}), 114, 13) = ReadBy(t, n, Letters)
  <2>1. ReplacePair(ReadBy(t, n, {92, 110, 116}), 114, Value(114)) = ReadBy(t, n, {92, 110, 116} \cup {114})
    BY <1>3, PassReads
  <2>2. QED
    BY <1>4, <1>5, <2>1
<1>10. QED
  BY <1>2, <1>6, <1>7, <1>8, <1>9

\* What the reference reads, place by place of the scan, holds the places the passes leave.
LEMMA ReadHolds ==
    ASSUME NEW t, NEW n, Text(t, n), NEW c \in Nat, NEW e, Numbers(e, c, EscapeStarts(t)),
           NEW w, \A k \in 1 .. c : w[k] = Len(ReadOne(t, n, e[k]))
    PROVE  Holds(e, c, w, EscapeStarts(t), Left(t, n, Letters))
<1> DEFINE E == EscapeStarts(t)
           P == Pairs(t, n, Letters)
           G == Left(t, n, Letters)
<1>1. n \in Nat
  BY DEF Text
<1>2. E \subseteq 1 .. n /\ \A i \in 1 .. n : i \in E <=> ~(i - 1 \in E /\ t[i - 1] = Backslash)
  BY EscapeStep, Zenon
<1>3. \A i : i \in P <=> i \in E /\ t[i] = Backslash /\ i < n /\ t[i + 1] \in Letters
  BY PairsIs, Zenon
<1>4. \A i : i \in G <=> i \in 1 .. n /\ i - 1 \notin P
  BY DEF Left
<1>5. \A k \in 1 .. c : e[k] \in E
  BY Zenon DEF Numbers
<1>6. \A i \in E : \E k \in 1 .. c : e[k] = i
  BY Zenon DEF Numbers
<1>7. \A k \in 1 .. c : w[k] \in 1 .. 2 /\ (w[k] = 2 <=> e[k] < n /\ t[e[k]] = Backslash /\ e[k] \notin P)
  <2>1. \A i \in E : ReadAt(t, n, i, ReadOne(t, n, i), P)
    BY ReadOneIs
  <2> HIDE DEF E, P
  <2>2. ASSUME NEW k \in 1 .. c
        PROVE  w[k] \in 1 .. 2 /\ (w[k] = 2 <=> e[k] < n /\ t[e[k]] = Backslash /\ e[k] \notin P)
    <3>1. ReadAt(t, n, e[k], ReadOne(t, n, e[k]), P)
      BY <1>5, <2>1
    <3>2. QED
      BY <3>1, Zenon DEF ReadAt
  <2>3. QED
    BY <2>2
<1> HIDE DEF E, P, G
<1>8. ASSUME NEW i \in E PROVE i \in G
  <2>1. i \in 1 .. n /\ ~(i - 1 \in E /\ t[i - 1] = Backslash)
    BY <1>2
  <2>2. QED
    BY <1>3, <1>4, <2>1, Zenon
<1>9. ASSUME NEW i \in E, i < n, t[i] = Backslash, i \notin P PROVE i + 1 \in G /\ i + 1 \notin E
  <2>1. PICK j \in 1 .. n : j = i + 1 /\ j - 1 = i
    BY <1>1, <1>2, <1>9
  <2>2. j \in G
    BY <1>4, <1>9, <2>1
  <2>3. j \notin E
    BY <1>2, <1>9, <2>1
  <2>4. QED
    BY <2>1, <2>2, <2>3
<1>10. ASSUME NEW i \in G, i \notin E PROVE \E k \in 1 .. c : w[k] = 2 /\ i = e[k] + 1
  <2>1. i \in 1 .. n /\ i - 1 \notin P
    BY <1>4, Zenon
  <2>2. i - 1 \in E /\ t[i - 1] = Backslash
    BY <1>2, <1>10, <2>1, Zenon
  <2>3. PICK k \in 1 .. c : e[k] = i - 1
    BY <1>6, <2>2, Zenon
  <2>4. i - 1 < n /\ i = (i - 1) + 1
    BY <1>1, <2>1
  <2>5. w[k] = 2
    BY <1>7, <2>1, <2>2, <2>3, <2>4, Zenon
  <2>6. QED
    BY <2>3, <2>4, <2>5, Zenon
<1>11. Holds(e, c, w, E, G)
  <2>1. \A k \in 1 .. c : w[k] \in 1 .. 2 /\ e[k] \in G
    BY <1>5, <1>7, <1>8, Zenon
  <2>2. \A k \in 1 .. c : w[k] = 2 => e[k] + 1 \in G /\ e[k] + 1 \notin E
    BY <1>5, <1>7, <1>9, Zenon
  <2>3. QED
    BY <1>10, <2>1, <2>2, Zenon DEF Holds
<1>12. QED
  BY <1>11 DEF E, G

\* The replacements read the text once, from the left.
LEMMA ReplacementsRead ==
    ASSUME NEW t, NEW n, Text(t, n)
    PROVE  decode_replacement_escapes(t)
             = FlattenSeq([k \in DOMAIN Ascending(EscapeStarts(t)) |->
                              ReadOne(t, n, Ascending(EscapeStarts(t))[k])])
<1> DEFINE E == EscapeStarts(t)
           G == Left(t, n, Letters)
           c == Cardinality(E)
           e == Ascending(E)
           u == ReadBy(t, n, Letters)
           ss == [k \in DOMAIN e |-> ReadOne(t, n, e[k])]
           F == FlattenSeq(ss)
<1>1. n \in Nat
  BY DEF Text
<1>2. E \subseteq 1 .. n
  BY EscapeStep, Zenon
<1>3. c \in Nat /\ Numbers(e, c, E)
  <2>1. IsFiniteSet(1 .. n)
    BY <1>1, FS_Interval
  <2>2. IsFiniteSet(E)
    BY <1>2, <2>1, FS_Subset
  <2>3. \A i \in E : i \in Int
    BY <1>2
  <2>4. QED
    BY <2>2, <2>3, AscendingNumbers, Zenon
<1>4. DOMAIN e = 1 .. c /\ \A k \in 1 .. c : e[k] \in E
  BY <1>3, Zenon DEF Numbers
<1>5. G \subseteq 1 .. n
  BY DEF Left
<1>6. decode_replacement_escapes(t) = [i \in DOMAIN u |-> Plain(u[i])]
  <2> DEFINE v == ReplacePair(ReplacePair(ReplacePair(ReplacePair(t, 92, 256), 110, 10), 116, 9), 114, 13)
  <2>1. decode_replacement_escapes(t) = [i \in DOMAIN v |-> Plain(v[i])]
    BY DEF decode_replacement_escapes, Plain
  <2>2. v = u
    BY PassesRead
  <2> HIDE DEF v, u
  <2>3. QED
    BY <2>1, <2>2, Zenon
<1>7. u = [k \in 1 .. Cardinality(G) |-> Become(t, n, Letters, Ascending(G)[k])]
  BY Zenon DEF ReadBy
<1>a. \A i \in E : ReadAt(t, n, i, ReadOne(t, n, i), Pairs(t, n, Letters))
  BY ReadOneIs
<1> HIDE DEF E, c, e, u, G
<1>8. \A k \in 1 .. c : ReadOne(t, n, e[k]) \in Seq(Byte)
  BY <1>4, <1>a, Zenon DEF ReadAt
<1>9. ss \in Seq(Seq(Byte)) /\ Len(ss) = c /\ \A k \in 1 .. c : ss[k] = ReadOne(t, n, e[k])
  <2>1. ss = [k \in 1 .. c |-> ReadOne(t, n, e[k])]
    BY <1>4, Zenon
  <2> HIDE DEF ss
  <2>2. c \in Nat
    BY <1>3
  <2> DEFINE R(k) == ReadOne(t, n, e[k])
  <2>3. \A k \in 1 .. c : R(k) \in Seq(Byte)
    BY <1>8
  <2>4. ss = [k \in 1 .. c |-> R(k)]
    BY <2>1
  <2> HIDE DEF R
  <2>5. ss \in Seq(Seq(Byte)) /\ Len(ss) = c /\ \A k \in 1 .. c : ss[k] = R(k)
    BY <2>2, <2>3, <2>4
  <2>6. QED
    BY <2>5 DEF R
<1> HIDE DEF ss
<1>10. PICK off : Placed(ss, off, F)
  BY <1>9, FlattenPlaces
<1>11. F \in Seq(Byte)
  BY <1>9, FlattenPlaces
<1> HIDE DEF F
<1>12. PICK len \in Nat : len = Len(F) /\ DOMAIN F = 1 .. len
  BY <1>11, SeqIs, Zenon
<1> DEFINE w == [k \in 1 .. c |-> Len(ss[k])]
<1>13. Layout(c, w, off, len)
  BY <1>9, <1>10, <1>12, PlacedLayout
<1>14. \A k \in 1 .. c : w[k] = Len(ReadOne(t, n, e[k]))
  BY <1>9
<1>15. \A k \in 1 .. c : w[k] = Len(ss[k])
  OBVIOUS
<1> HIDE DEF w
<1>16. Holds(e, c, w, E, G)
  <2>1. c \in Nat /\ Numbers(e, c, EscapeStarts(t))
    BY <1>3 DEF E
  <2>2. QED
    BY <1>14, <2>1, ReadHolds, Zenon DEF E, G
<1>17. PICK g : InParts(g, len, G, c, w, off, e)
  <2>1. E \in SUBSET Int /\ G \in SUBSET Int /\ c \in Nat
    BY <1>2, <1>3, <1>5
  <2>2. QED
    BY <1>3, <1>13, <1>16, <2>1, PartsNumber, Zenon
<1>18. Cardinality(G) = len /\ \A p \in 1 .. len : Ascending(G)[p] = g[p]
  <2>1. Numbers(g, len, G)
    BY <1>17, Zenon DEF InParts
  <2>2. \A i \in G : i \in Int
    BY <1>5
  <2>3. Cardinality(G) = len /\ Ascending(G) = [p \in 1 .. len |-> g[p]]
    BY <2>1, <2>2, AscendingIs
  <2>4. QED
    BY <2>3
<1>19. ASSUME NEW p \in 1 .. len
       PROVE  Plain(Become(t, n, Letters, g[p])) = F[p]
  <2>1. PICK k \in 1 .. c : \E j \in 1 .. w[k] : p = off[k] + j
    BY <1>13, Zenon DEF Layout
  <2>2. PICK j \in 1 .. w[k] : p = off[k] + j
    BY <2>1, Zenon
  <2>3. F[p] = ReadOne(t, n, e[k])[j]
    <3>1. j \in 1 .. Len(ss[k])
      BY <1>15, Zenon
    <3>2. F[off[k] + j] = ss[k][j]
      BY <1>9, <1>10, <3>1, Zenon DEF Placed
    <3>3. QED
      BY <1>9, <2>2, <3>2, Zenon
  <2>4. g[p] = PlaceIn(e, k, j)
    BY <1>17, <2>2, Zenon DEF InParts
  <2>5. e[k] \in E /\ e[k] \in 1 .. n /\ w[k] \in 1 .. 2
    BY <1>2, <1>4, <1>16, Zenon DEF Holds
  <2>6. CASE j = 1
    <3>1. g[p] = e[k]
      BY <2>4, <2>6, Zenon DEF PlaceIn
    <3>2. ReadOne(t, n, e[k])[1] = Plain(Become(t, n, Letters, e[k]))
      BY <2>5, <1>a, Zenon DEF ReadAt
    <3>3. QED
      BY <2>3, <2>6, <3>1, <3>2, Zenon
  <2>7. CASE j # 1
    <3>1. w[k] = 2 /\ j = 2
      BY <2>5, <2>7
    <3>2. g[p] = e[k] + 1
      BY <2>4, <2>7, Zenon DEF PlaceIn
    <3>3. ReadOne(t, n, e[k])[2] = t[e[k] + 1] /\ e[k] < n
      <4>1. Len(ReadOne(t, n, e[k])) = 2
        BY <1>14, <3>1, Zenon
      <4>2. QED
        BY <2>5, <4>1, <1>a, Zenon DEF ReadAt
    <3>4. e[k] + 1 \in 1 .. n
      BY <1>1, <2>5, <3>3
    <3>5. e[k] + 1 \notin Pairs(t, n, Letters)
      <4>1. e[k] + 1 \notin E
        BY <1>16, <3>1, Zenon DEF Holds
      <4>2. QED
        BY <4>1, PairsIs, Zenon DEF E
    <3>6. Become(t, n, Letters, e[k] + 1) = t[e[k] + 1]
      BY <3>5, Zenon DEF Become
    <3>7. t[e[k] + 1] \in Byte
      BY <3>4 DEF Text
    <3>8. Plain(t[e[k] + 1]) = t[e[k] + 1]
      BY <3>7, PlainIs, Zenon
    <3>9. QED
      BY <2>3, <3>1, <3>2, <3>3, <3>6, <3>8, Zenon
  <2>8. QED
    BY <2>6, <2>7
<1>20. u = [p \in 1 .. len |-> Become(t, n, Letters, g[p])]
  BY <1>7, <1>18, Zenon
<1>21. [i \in DOMAIN u |-> Plain(u[i])] = [p \in 1 .. len |-> F[p]]
  <2>1. DOMAIN u = 1 .. len /\ \A p \in 1 .. len : u[p] = Become(t, n, Letters, g[p])
    BY <1>20, Zenon
  <2>2. \A p \in 1 .. len : Plain(u[p]) = F[p]
    BY <1>19, <2>1, Zenon
  <2>3. QED
    BY <2>1, <2>2, Zenon
<1>22. F = [p \in 1 .. len |-> F[p]]
  BY <1>11, <1>12
<1>23. decode_replacement_escapes(t) = F
  BY <1>6, <1>21, <1>22, Zenon
<1>24. QED
  BY <1>23, Zenon DEF F, ss, e, E

-----------------------------------------------------------------------------
\* Rows: where a row is cut.

\* What stands behind the "::" of an operator.
Mark == Terminal \cup {"|"}

\* The units that operators, groups, escapes and references are made of are told apart.
LEMMA Units ==
    /\ \A a \in AliasName : a \notin Terminal /\ a # Blank /\ a # "::" /\ a # "|" /\ a # "\\" /\ a # "(?:" /\ a # ")"
    /\ "::" \notin Mark /\ "\\" \notin Mark /\ "(?:" \notin Mark /\ "|" \notin Terminal /\ ")" \notin Mark
    /\ Terminal \subseteq Mark /\ Blank \notin Mark
    /\ Blank # "::" /\ Blank # "\\" /\ Blank # "(?:"
<1>1. \A a : a \in AliasName => a \notin (Terminal \cup {Blank, "::", "|", "\\", "(?:", ")"})
  BY AliasAssumption, Zenon
<1>2. \A a \in AliasName : a \notin Terminal /\ a # Blank /\ a # "::" /\ a # "|" /\ a # "\\" /\ a # "(?:" /\ a # ")"
  BY <1>1, Zenon
<1>3. /\ "::" \notin Mark /\ "\\" \notin Mark /\ "(?:" \notin Mark /\ "|" \notin Terminal /\ ")" \notin Mark
      /\ Terminal \subseteq Mark /\ Blank \notin Mark
      /\ Blank # "::" /\ Blank # "\\" /\ Blank # "(?:"
  BY DEF Mark, Terminal, Blank
<1>4. QED
  BY <1>2, <1>3

\* A place at which an operator of these marks stands.
Cut(s, n, marks, i) ==
    /\ i \in 1 .. n /\ i + 1 \in 1 .. n
    /\ s[i] = "::" /\ s[i + 1] \in marks
    /\ i > 1 => s[i - 1] # "\\"

\* The sets of places the loader looks for are these cuts.
LEMMA CutsAre ==
    ASSUME NEW s, NEW n \in Nat, n = Len(s)
    PROVE  /\ \A i : i \in Structural(s) <=> Cut(s, n, Mark, i)
           /\ \A i : i \in TerminalAt(s) <=> Cut(s, n, Terminal, i)
           /\ TerminalAt(s) \subseteq Structural(s)
           /\ Structural(s) \subseteq 1 .. n
<1>1. \A i : i \in 1 .. Len(s) - 1 <=> i \in 1 .. n /\ i + 1 \in 1 .. n
  <2>1. \A i : i \in 1 .. n - 1 <=> i \in 1 .. n /\ i + 1 \in 1 .. n
    OBVIOUS
  <2>2. QED
    BY <2>1
<1>2. \A i : i \in Structural(s) <=> Cut(s, n, Mark, i)
  BY <1>1, Zenon DEF Structural, structural_op_at, Cut, Mark
<1>3. \A i : i \in TerminalAt(s) <=> i \in Structural(s) /\ s[i + 1] # "|"
  BY Zenon DEF TerminalAt
<1>4. \A c : c \in Terminal <=> c \in Mark /\ c # "|"
  BY DEF Terminal, Mark
<1>5. \A i : i \in TerminalAt(s) <=> Cut(s, n, Terminal, i)
  BY <1>2, <1>3, <1>4, Zenon DEF Cut
<1>6. Structural(s) \subseteq 1 .. n
  BY <1>2, Zenon DEF Cut
<1>7. TerminalAt(s) \subseteq Structural(s)
  BY <1>3, Zenon
<1>8. QED
  BY <1>2, <1>5, <1>6, <1>7

\* A rule is cut at its operators, numbered, up to and with the first that ends it.
RowCut(s, n, c, m, q) ==
    /\ m \in Nat /\ m # 0 /\ q \in 1 .. n
    /\ DOMAIN c = 1 .. m /\ Len(c) = m /\ c[m] = q
    /\ Cut(s, n, Terminal, q)
    /\ \A i : Cut(s, n, Terminal, i) => q <= i
    /\ \A k \in 1 .. m : c[k] \in 1 .. q /\ Cut(s, n, Mark, c[k])
    /\ \A i : Cut(s, n, Mark, i) /\ i <= q => \E k \in 1 .. m : c[k] = i
    /\ \A i, j \in 1 .. m : i < j => c[i] < c[j]

\* A row with an operator that ends it is cut at its operators up to the first of these.
LEMMA RowIsCut ==
    ASSUME NEW X, NEW s \in Seq(X), NEW n \in Nat, n = Len(s), TerminalAt(s) # {}
    PROVE  \E c, m, q : RowCut(s, n, c, m, q) /\ split_rule_line(s) = CutAt(s, c)
<1> DEFINE S == Structural(s)
           T == TerminalAt(s)
           q == Min(T)
           C == { i \in S : i <= q }
           c == Ascending(C)
           m == Cardinality(C)
<1>1. /\ \A i : i \in S <=> Cut(s, n, Mark, i)
      /\ \A i : i \in T <=> Cut(s, n, Terminal, i)
      /\ T \subseteq S /\ S \subseteq 1 .. n
  BY CutsAre, Zenon
<1>2. T # {} /\ S # {}
  BY <1>1
<1>3. split_rule_line(s) = CutAt(s, c)
  BY <1>2, Zenon DEF split_rule_line, SplitAt
<1> HIDE DEF S, T
<1>4. q \in T /\ \A i \in T : q <= i
  <2>1. T \in SUBSET Nat
    BY <1>1
  <2>2. QED
    BY <1>2, <2>1, MinIsLeast
<1> HIDE DEF q
<1>5. q \in 1 .. n
  BY <1>1, <1>4
<1>6. C \subseteq 1 .. n /\ q \in C
  BY <1>1, <1>4, <1>5
<1>7. \A i : i \in C <=> i \in S /\ i <= q
  OBVIOUS
<1> HIDE DEF C
<1>8. m \in Nat /\ Numbers(c, m, C)
  <2>1. IsFiniteSet(1 .. n)
    BY FS_Interval
  <2>2. IsFiniteSet(C)
    BY <1>6, <2>1, FS_Subset
  <2>3. \A i \in C : i \in Int
    BY <1>6
  <2>4. QED
    BY <2>2, <2>3, AscendingNumbers, Zenon
<1>9. DOMAIN c = 1 .. m /\ Len(c) = m
  <2>1. c = [k \in 1 .. m |-> Nth(C, k)]
    BY Zenon DEF Ascending
  <2>2. m \in Nat
    BY <1>8
  <2> HIDE DEF c, m
  <2>3. QED
    BY <2>1, <2>2
<1> HIDE DEF c, m
<1>10. /\ \A k \in 1 .. m : c[k] \in C
       /\ \A i \in C : \E k \in 1 .. m : c[k] = i
       /\ \A i, j \in 1 .. m : i < j => c[i] < c[j]
  BY <1>8, Zenon DEF Numbers
<1>11. m # 0 /\ c[m] = q
  <2>1. PICK k \in 1 .. m : c[k] = q
    BY <1>6, <1>10, Zenon
  <2>2. m \in 1 .. m
    BY <1>8, <2>1
  <2>3. c[m] \in C /\ c[m] \in 1 .. n
    BY <1>6, <1>10, <2>2
  <2>4. ~(k < m)
    <3>1. c[m] <= q
      BY <1>7, <2>3
    <3>2. k < m => c[k] < c[m]
      BY <1>10, <2>2
    <3>3. QED
      BY <1>5, <2>1, <2>3, <3>1, <3>2
  <2>5. k = m
    BY <1>8, <2>2, <2>4
  <2>6. QED
    BY <2>1, <2>2, <2>5
<1>12. \A k \in 1 .. m : c[k] \in 1 .. q /\ Cut(s, n, Mark, c[k])
  <2> SUFFICES ASSUME NEW k \in 1 .. m PROVE c[k] \in 1 .. q /\ Cut(s, n, Mark, c[k])
    OBVIOUS
  <2>1. c[k] \in S /\ c[k] <= q /\ c[k] \in 1 .. n
    BY <1>6, <1>7, <1>10
  <2>2. Cut(s, n, Mark, c[k])
    BY <1>1, <2>1, Zenon
  <2>3. QED
    BY <1>5, <2>1, <2>2
<1>13. \A i : Cut(s, n, Mark, i) /\ i <= q => \E k \in 1 .. m : c[k] = i
  BY <1>1, <1>7, <1>10, Zenon
<1>14. Cut(s, n, Terminal, q) /\ \A i : Cut(s, n, Terminal, i) => q <= i
  BY <1>1, <1>4, Zenon
<1>15. RowCut(s, n, c, m, q)
  BY <1>5, <1>8, <1>9, <1>10, <1>11, <1>12, <1>13, <1>14, Zenon DEF RowCut
<1>16. QED
  BY <1>3, <1>15, Zenon

-----------------------------------------------------------------------------
\* Rows: what a row is cut into.

\* A stretch of a text, of w units behind the b-th.
LEMMA StretchIs ==
    ASSUME NEW X, NEW s \in Seq(X), NEW n \in Nat, n = Len(s),
           NEW b \in Nat, NEW w \in Nat, b + w <= n
    PROVE  /\ SubSeq(s, b + 1, b + w) \in Seq(X) /\ Len(SubSeq(s, b + 1, b + w)) = w
           /\ \A i \in 1 .. w : SubSeq(s, b + 1, b + w)[i] = s[b + i]
<1>1. \A i \in b + 1 .. b + w : s[i] \in X
  OBVIOUS
<1>2. b + 1 \in Int /\ b + w \in Int
  OBVIOUS
<1> DEFINE t == SubSeq(s, b + 1, b + w)
<1>3. /\ t \in Seq(X)
      /\ Len(t) = IF b + 1 <= b + w THEN (b + w) - (b + 1) + 1 ELSE 0
      /\ \A i \in 1 .. (b + w) - (b + 1) + 1 : t[i] = s[(b + 1) + i - 1]
  BY <1>1, <1>2, SubSeqProperties
<1> HIDE DEF t
<1>4. (b + w) - (b + 1) + 1 = w /\ (b + 1 <= b + w <=> 1 <= w)
  OBVIOUS
<1>5. \A i \in 1 .. w : (b + 1) + i - 1 = b + i
  OBVIOUS
<1>6. Len(t) = w
  BY <1>3, <1>4
<1>7. \A i \in 1 .. w : t[i] = s[b + i]
  BY <1>3, <1>4, <1>5
<1>8. QED
  BY <1>3, <1>6, <1>7 DEF t

\* The parts of a row in front of its operators: part k has w[k] units behind the b[k]-th.
Sliced(s, c, m, b, w, P) ==
    /\ DOMAIN P = 1 .. m /\ Len(P) = m
    /\ \A k \in 1 .. m :
          /\ b[k] \in Nat /\ w[k] \in Nat /\ c[k] = b[k] + w[k] + 1
          /\ P[k] = SubSeq(s, b[k] + 1, b[k] + w[k])
    /\ b[1] = 0 /\ \A k \in 1 .. m : k + 1 \in 1 .. m => b[k + 1] = c[k] + 1

\* What the fields of a rule are.
RuleCut(s, n, c, m, q, r) ==
    /\ r.kind = "rule" /\ r.op = s[q + 1] /\ r.op \in Terminal
    /\ r.lhs = SubSeq(s, 1, c[1] - 1) /\ r.rhs = SubSeq(s, q + 2, n)
    /\ r.mids = [k \in 1 .. m - 1 |-> SubSeq(s, c[k] + 2, c[k + 1] - 1)]

\* CutAt takes the fields of the rule from between the cuts.
LEMMA RuleIsCut ==
    ASSUME NEW X, NEW s \in Seq(X), NEW n \in Nat, n = Len(s),
           NEW c, NEW m, NEW q, RowCut(s, n, c, m, q)
    PROVE  RuleCut(s, n, c, m, q, CutAt(s, c)) /\ Len(CutAt(s, c).mids) = m - 1
<1>1. m \in Nat /\ m # 0 /\ Len(c) = m /\ c[m] = q /\ s[q + 1] \in Terminal
  BY Zenon DEF RowCut, Cut
<1>2. Last(c) = q
  BY <1>1, Zenon DEF Last
<1> DEFINE r == CutAt(s, c)
<1>3. r = [kind |-> "rule", lhs |-> SubSeq(s, 1, c[1] - 1),
           mids |-> [k \in 1 .. m - 1 |-> SubSeq(s, c[k] + 2, c[k + 1] - 1)],
           op |-> s[q + 1], rhs |-> SubSeq(s, q + 2, n)]
  BY <1>1, <1>2, Zenon DEF CutAt
<1> HIDE DEF r
<1>4. /\ r.kind = "rule" /\ r.op = s[q + 1]
      /\ r.lhs = SubSeq(s, 1, c[1] - 1) /\ r.rhs = SubSeq(s, q + 2, n)
      /\ r.mids = [k \in 1 .. m - 1 |-> SubSeq(s, c[k] + 2, c[k + 1] - 1)]
  BY <1>3, Zenon
<1>5. m - 1 \in Nat
  BY <1>1
<1>6. Len(r.mids) = m - 1
  BY <1>4, <1>5
<1>7. QED
  BY <1>1, <1>4, <1>6, Zenon DEF RuleCut, r

\* Two operators are not next to each other.
LEMMA CutsApart ==
    ASSUME NEW s, NEW n \in Nat, NEW c, NEW m, NEW q, RowCut(s, n, c, m, q),
           NEW k \in 1 .. m, k + 1 \in 1 .. m
    PROVE  c[k] + 2 <= c[k + 1] /\ s[c[k] + 1] = "|" /\ c[k + 1] <= q /\ c[k] \in Nat /\ c[k + 1] \in Nat
<1>1. m \in Nat /\ q \in 1 .. n
  BY Zenon DEF RowCut
<1>2. c[k] \in 1 .. q /\ Cut(s, n, Mark, c[k]) /\ c[k + 1] \in 1 .. q /\ Cut(s, n, Mark, c[k + 1])
  BY Zenon DEF RowCut
<1>3. c[k] < c[k + 1]
  <2>1. k < k + 1
    BY <1>1
  <2>2. \A i, j \in 1 .. m : i < j => c[i] < c[j]
    BY Zenon DEF RowCut
  <2>3. QED
    BY <2>1, <2>2
<1>4. s[c[k] + 1] \in Mark /\ s[c[k + 1]] = "::"
  BY <1>2, Zenon DEF Cut
<1>5. c[k] + 1 # c[k + 1]
  BY <1>4, Units
<1>6. s[c[k] + 1] \notin Terminal
  <2>1. s[c[k] + 1] \in Terminal => Cut(s, n, Terminal, c[k])
    BY <1>2, Zenon DEF Cut
  <2>2. Cut(s, n, Terminal, c[k]) => q <= c[k]
    BY Zenon DEF RowCut
  <2>3. ~(q <= c[k])
    BY <1>1, <1>2, <1>3
  <2>4. QED
    BY <2>1, <2>2, <2>3
<1>7. s[c[k] + 1] = "|"
  BY <1>4, <1>6 DEF Mark
<1>8. QED
  BY <1>1, <1>2, <1>3, <1>5, <1>7

\* The parts of a rule are stretches of its row.
LEMMA RuleIsSliced ==
    ASSUME NEW X, NEW s \in Seq(X), NEW n \in Nat, n = Len(s),
           NEW c, NEW m, NEW q, RowCut(s, n, c, m, q), NEW r, RuleCut(s, n, c, m, q, r),
           Len(r.mids) = m - 1
    PROVE  /\ \E b, w : Sliced(s, c, m, b, w, <<r.lhs>> \o r.mids)
           /\ <<r.lhs>> \o r.mids \in Seq(Seq(X)) /\ r.lhs \in Seq(X) /\ r.mids \in Seq(Seq(X))
           /\ r.rhs \in Seq(X)
<1>1. m \in Nat /\ m # 0 /\ q \in 1 .. n /\ c[m] = q /\ q + 1 \in 1 .. n
  BY Zenon DEF RowCut, Cut
<1>2. \A k \in 1 .. m : c[k] \in 1 .. q /\ c[k] \in Nat
  BY <1>1 DEF RowCut
<1> DEFINE b == [k \in 1 .. m |-> IF k = 1 THEN 0 ELSE c[k - 1] + 1]
           w == [k \in 1 .. m |-> c[k] - b[k] - 1]
<1>3. b[1] = 0
  BY <1>1
<1>4. \A k \in 1 .. m : k + 1 \in 1 .. m => b[k + 1] = c[k] + 1
  <2> SUFFICES ASSUME NEW k \in 1 .. m, k + 1 \in 1 .. m PROVE b[k + 1] = c[k] + 1
    OBVIOUS
  <2>1. k + 1 # 1 /\ (k + 1) - 1 = k
    BY <1>1
  <2>2. QED
    BY <2>1
<1> HIDE DEF b
<1>5. \A k \in 1 .. m : b[k] \in Nat /\ b[k] + 1 <= c[k] /\ w[k] \in Nat /\ c[k] = b[k] + w[k] + 1
  <2> SUFFICES ASSUME NEW k \in 1 .. m PROVE b[k] \in Nat /\ b[k] + 1 <= c[k]
    BY <1>2
  <2>1. CASE k = 1
    BY <1>2, <1>3, <2>1
  <2>2. CASE k # 1
    <3>1. PICK j \in 1 .. m : k = j + 1
      <4>1. k - 1 \in 1 .. m /\ k = (k - 1) + 1
        BY <1>1, <2>2
      <4>2. QED
        BY <4>1
    <3>2. c[j] + 2 <= c[j + 1]
      BY <3>1, CutsApart
    <3>3. QED
      BY <1>2, <1>4, <3>1, <3>2
  <2>3. QED
    BY <2>1, <2>2
<1> HIDE DEF w
<1>6. \A k \in 1 .. m : b[k] + w[k] <= n
  <2> SUFFICES ASSUME NEW k \in 1 .. m PROVE b[k] + w[k] <= n
    OBVIOUS
  <2>1. c[k] \in Nat /\ c[k] <= q /\ q <= n /\ q \in Nat
    BY <1>1, <1>2
  <2>2. b[k] \in Nat /\ w[k] \in Nat /\ c[k] = b[k] + w[k] + 1
    BY <1>5
  <2>3. QED
    BY <2>1, <2>2
<1>7. \A k \in 1 .. m : SubSeq(s, b[k] + 1, b[k] + w[k]) \in Seq(X)
  BY <1>5, <1>6, StretchIs
<1>8. r.lhs = SubSeq(s, b[1] + 1, b[1] + w[1])
  <2>1. b[1] + 1 = 1 /\ b[1] + w[1] = c[1] - 1
    <3>1. 1 \in 1 .. m
      BY <1>1
    <3>2. b[1] \in Nat /\ w[1] \in Nat /\ c[1] = b[1] + w[1] + 1
      BY <1>5, <3>1
    <3>3. QED
      BY <1>3, <3>2
  <2>2. QED
    BY <2>1, Zenon DEF RuleCut
<1>9. \A k \in 1 .. m - 1 : r.mids[k] = SubSeq(s, b[k + 1] + 1, b[k + 1] + w[k + 1])
  <2> SUFFICES ASSUME NEW k \in 1 .. m - 1
               PROVE  r.mids[k] = SubSeq(s, b[k + 1] + 1, b[k + 1] + w[k + 1])
    OBVIOUS
  <2>1. k \in 1 .. m /\ k + 1 \in 1 .. m
    BY <1>1
  <2>2. b[k + 1] + 1 = c[k] + 2 /\ b[k + 1] + w[k + 1] = c[k + 1] - 1
    BY <1>2, <1>4, <1>5, <2>1
  <2>3. QED
    BY <2>2, Zenon DEF RuleCut
<1>10. r.lhs \in Seq(X)
  <2>1. 1 \in 1 .. m
    BY <1>1
  <2>2. QED
    BY <1>7, <1>8, <2>1, Zenon
<1>11. r.mids \in Seq(Seq(X))
  <2>1. \A k \in 1 .. m - 1 : r.mids[k] \in Seq(X)
    <3> SUFFICES ASSUME NEW k \in 1 .. m - 1 PROVE r.mids[k] \in Seq(X)
      OBVIOUS
    <3>1. k + 1 \in 1 .. m
      BY <1>1
    <3>2. QED
      BY <1>7, <1>9, <3>1, Zenon
  <2>2. m - 1 \in Nat
    BY <1>1
  <2>3. r.mids = [k \in 1 .. m - 1 |-> r.mids[k]]
    BY DEF RuleCut
  <2>4. QED
    BY <2>1, <2>2, <2>3
<1>12. r.rhs \in Seq(X)
  <2>1. r.rhs = SubSeq(s, q + 2, n)
    BY Zenon DEF RuleCut
  <2>2. \A i \in q + 2 .. n : s[i] \in X
    BY <1>1
  <2>3. QED
    BY <1>1, <2>1, <2>2, SubSeqProperties
<1> DEFINE P == <<r.lhs>> \o r.mids
<1>13. P \in Seq(Seq(X)) /\ DOMAIN P = 1 .. m /\ Len(P) = m
       /\ P[1] = r.lhs /\ \A k \in 1 .. m - 1 : P[k + 1] = r.mids[k]
  BY <1>1, <1>10, <1>11
<1>14. \A k \in 1 .. m : P[k] = SubSeq(s, b[k] + 1, b[k] + w[k])
  <2> HIDE DEF P
  <2> SUFFICES ASSUME NEW k \in 1 .. m PROVE P[k] = SubSeq(s, b[k] + 1, b[k] + w[k])
    OBVIOUS
  <2>1. CASE k = 1
    BY <1>8, <1>13, <2>1, Zenon
  <2>2. CASE k # 1
    <3>1. PICK j \in 1 .. m - 1 : k = j + 1
      <4>1. k - 1 \in 1 .. m - 1 /\ k = (k - 1) + 1
        BY <1>1, <2>2
      <4>2. QED
        BY <4>1
    <3>2. QED
      BY <1>9, <1>13, <3>1, Zenon
  <2>3. QED
    BY <2>1, <2>2
<1>15. Sliced(s, c, m, b, w, P)
  BY <1>3, <1>4, <1>5, <1>13, <1>14, Zenon DEF Sliced
<1>16. QED
  BY <1>10, <1>11, <1>12, <1>13, <1>15, Zenon

-----------------------------------------------------------------------------
\* Rows: the parts and the operators are the row.

\* Two stretches that meet.
LEMMA Meet ==
    ASSUME NEW X, NEW s \in Seq(X), NEW n \in Nat, n = Len(s),
           NEW i \in Nat, NEW j \in Nat, NEW k \in Nat, i # 0, i <= j + 1, j <= k, k <= n
    PROVE  SubSeq(s, i, j) \o SubSeq(s, j + 1, k) = SubSeq(s, i, k)
<1>1. i \in 1 .. Len(s) + 1 /\ j \in i - 1 .. Len(s) /\ k \in j .. Len(s)
  OBVIOUS
<1>2. QED
  BY <1>1, ConcatAdjacentSubSeq

\* Two units in a row.
LEMMA Both ==
    ASSUME NEW X, NEW s \in Seq(X), NEW n \in Nat, n = Len(s), NEW i \in Nat, i # 0, i + 1 <= n
    PROVE  SubSeq(s, i, i + 1) = <<s[i], s[i + 1]>>
<1> DEFINE t == SubSeq(s, i, i + 1)
           u == <<s[i], s[i + 1]>>
<1>1. \A p \in i .. i + 1 : s[p] \in X
  OBVIOUS
<1>2. /\ t \in Seq(X)
      /\ Len(t) = IF i <= i + 1 THEN (i + 1) - i + 1 ELSE 0
      /\ \A p \in 1 .. (i + 1) - i + 1 : t[p] = s[i + p - 1]
  BY <1>1, SubSeqProperties
<1> HIDE DEF t
<1>3. (i + 1) - i + 1 = 2 /\ i <= i + 1 /\ i + 1 - 1 = i /\ i + 2 - 1 = i + 1
  OBVIOUS
<1>4. Len(t) = 2 /\ t[1] = s[i] /\ t[2] = s[i + 1]
  BY <1>2, <1>3
<1>5. u \in Seq(X) /\ Len(u) = 2 /\ u[1] = s[i] /\ u[2] = s[i + 1]
  BY <1>1
<1> HIDE DEF u
<1>6. \A p \in 1 .. Len(t) : t[p] = u[p]
  BY <1>4, <1>5
<1>7. t = u
  BY <1>2, <1>4, <1>5, <1>6, SeqEqual
<1>8. QED
  BY <1>7 DEF t, u

\* What stands between two cuts.
LEMMA StepAt ==
    ASSUME NEW X, NEW s \in Seq(X), NEW n \in Nat, n = Len(s), NEW d \in Nat, NEW e \in Nat,
           d # 0, d + 2 <= e, e <= n, s[d] = "::", s[d + 1] = "|"
    PROVE  <<"::", "|">> \o SubSeq(s, d + 2, e - 1) = SubSeq(s, d, e - 1)
<1>1. SubSeq(s, d, d + 1) = <<"::", "|">>
  <2>1. d + 1 <= n
    OBVIOUS
  <2>2. SubSeq(s, d, d + 1) = <<s[d], s[d + 1]>>
    BY <2>1, Both
  <2>3. QED
    BY <2>2, Zenon
<1>2. PICK j \in Nat : j = d + 1
  OBVIOUS
<1>3. PICK f \in Nat : f = e - 1
  OBVIOUS
<1>4. d <= j + 1 /\ j <= f /\ f <= n /\ j + 1 = d + 2
  BY <1>2, <1>3
<1>5. SubSeq(s, d, j) \o SubSeq(s, j + 1, f) = SubSeq(s, d, f)
  BY <1>4, Meet
<1>6. QED
  BY <1>1, <1>2, <1>3, <1>4, <1>5, Zenon

\* Two stretches that meet are one.
LEMMA StepOn ==
    ASSUME NEW X, NEW s \in Seq(X), NEW n \in Nat, n = Len(s),
           NEW a \in Nat, NEW d \in Nat, NEW e \in Nat, a # 0, a <= d, d <= e, e <= n
    PROVE  SubSeq(s, a, d - 1) \o SubSeq(s, d, e - 1) = SubSeq(s, a, e - 1)
<1>1. PICK j \in Nat : j = d - 1
  OBVIOUS
<1>2. PICK f \in Nat : f = e - 1
  OBVIOUS
<1>3. a <= j + 1 /\ j <= f /\ f <= n /\ j + 1 = d
  BY <1>1, <1>2
<1>4. SubSeq(s, a, j) \o SubSeq(s, j + 1, f) = SubSeq(s, a, f)
  BY <1>3, Meet
<1>5. QED
  BY <1>1, <1>2, <1>3, <1>4, Zenon

StepFollows(X, s, c, k) ==
    /\ <<"::", "|">> \o SubSeq(s, c[k] + 2, c[k + 1] - 1) = SubSeq(s, c[k], c[k + 1] - 1)
    /\ SubSeq(s, c[k], c[k + 1] - 1) \in Seq(X)
    /\ SubSeq(s, c[1], c[k] - 1) \o SubSeq(s, c[k], c[k + 1] - 1) = SubSeq(s, c[1], c[k + 1] - 1)

\* An operator and the part behind it are the stretch from one cut to the next.
LEMMA StepIs ==
    ASSUME NEW X, NEW s \in Seq(X), NEW n \in Nat, n = Len(s),
           NEW c, NEW m, NEW q, RowCut(s, n, c, m, q), NEW k \in 1 .. m, k + 1 \in 1 .. m
    PROVE  StepFollows(X, s, c, k)
<1>1. q \in 1 .. n /\ m \in Nat
  BY Zenon DEF RowCut
<1>2. c[k] + 2 <= c[k + 1] /\ s[c[k] + 1] = "|" /\ c[k + 1] <= q /\ c[k] \in Nat /\ c[k + 1] \in Nat
  BY CutsApart
<1>3. s[c[k]] = "::" /\ c[k] # 0
  <2>1. Cut(s, n, Mark, c[k])
    BY Zenon DEF RowCut
  <2>2. QED
    BY <2>1 DEF Cut
<1>4. c[1] \in Nat /\ c[1] # 0 /\ c[1] <= c[k]
  <2>1. 1 \in 1 .. m /\ (1 = k \/ 1 < k)
    BY <1>1
  <2>2. c[1] \in 1 .. q
    BY <2>1, Zenon DEF RowCut
  <2>3. \A i, j \in 1 .. m : i < j => c[i] < c[j]
    BY Zenon DEF RowCut
  <2>4. 1 < k => c[1] < c[k]
    BY <2>1, <2>3
  <2>5. QED
    BY <1>1, <1>2, <2>1, <2>2, <2>4
<1>5. PICK d \in Nat : d = c[k]
  BY <1>2
<1>6. PICK e \in Nat : e = c[k + 1]
  BY <1>2
<1>7. PICK a \in Nat : a = c[1]
  BY <1>4
<1>8. d + 2 <= e /\ e <= n /\ a # 0 /\ a <= d /\ d # 0 /\ d <= e
  BY <1>1, <1>2, <1>3, <1>4, <1>5, <1>6, <1>7
<1>9. s[d] = "::" /\ s[d + 1] = "|"
  BY <1>2, <1>3, <1>5, Zenon
<1>10. <<"::", "|">> \o SubSeq(s, d + 2, e - 1) = SubSeq(s, d, e - 1)
  BY <1>8, <1>9, StepAt
<1>11. SubSeq(s, a, d - 1) \o SubSeq(s, d, e - 1) = SubSeq(s, a, e - 1)
  BY <1>8, StepOn
<1>12. SubSeq(s, d, e - 1) \in Seq(X)
  <2>1. \A p \in d .. e - 1 : s[p] \in X
    BY <1>8
  <2>2. d \in Int /\ e - 1 \in Int
    OBVIOUS
  <2>3. QED
    BY <2>1, <2>2, SubSeqProperties
<1>13. QED
  BY <1>5, <1>6, <1>7, <1>10, <1>11, <1>12, Zenon DEF StepFollows

\* The steps of a rule, each with its operator.
StepsOf(r) == [k \in DOMAIN r.mids |-> <<"::", "|">> \o r.mids[k]]

\* The steps of a row, from its first operator to the one that ends it.
LEMMA StepsAre ==
    ASSUME NEW X, NEW s \in Seq(X), NEW n \in Nat, n = Len(s),
           NEW c, NEW m, NEW q, RowCut(s, n, c, m, q), NEW r, RuleCut(s, n, c, m, q, r)
    PROVE  FlattenSeq(StepsOf(r)) = SubSeq(s, c[1], q - 1)
<1>1. m \in Nat /\ m # 0 /\ q \in 1 .. n /\ c[m] = q
  BY Zenon DEF RowCut
<1>2. PICK len \in Nat : len + 1 = m
  <2>1. m - 1 \in Nat /\ (m - 1) + 1 = m
    BY <1>1
  <2>2. QED
    BY <2>1
<1>3. \A k \in 1 .. m : c[k] \in 1 .. q /\ c[k] \in Nat
  BY <1>1 DEF RowCut
<1>4. r.mids = [k \in 1 .. len |-> SubSeq(s, c[k] + 2, c[k + 1] - 1)]
  <2>1. m - 1 = len
    BY <1>2
  <2>2. QED
    BY <2>1, Zenon DEF RuleCut
<1> DEFINE ss == StepsOf(r)
           At(k) == SubSeq(s, c[k], c[k + 1] - 1)
           To(k) == SubSeq(s, c[1], c[k + 1] - 1)
<1>5. \A k \in 1 .. len : k \in 1 .. m /\ k + 1 \in 1 .. m
  BY <1>2
<1>6. \A k \in 1 .. len : <<"::", "|">> \o r.mids[k] = At(k) /\ At(k) \in Seq(X)
                          /\ SubSeq(s, c[1], c[k] - 1) \o At(k) = To(k)
  <2> SUFFICES ASSUME NEW k \in 1 .. len
               PROVE  <<"::", "|">> \o r.mids[k] = At(k) /\ At(k) \in Seq(X)
                      /\ SubSeq(s, c[1], c[k] - 1) \o At(k) = To(k)
    OBVIOUS
  <2>1. r.mids[k] = SubSeq(s, c[k] + 2, c[k + 1] - 1)
    BY <1>4, Zenon
  <2>2. k \in 1 .. m /\ k + 1 \in 1 .. m
    BY <1>5
  <2>3. StepFollows(X, s, c, k)
    BY <2>2, StepIs
  <2>4. QED
    BY <2>1, <2>3, Zenon DEF StepFollows
<1>7. DOMAIN r.mids = 1 .. len
  BY <1>4, Zenon
<1>8. ss = [k \in 1 .. len |-> At(k)]
  BY <1>6, <1>7, Zenon DEF StepsOf
<1>9. \A k \in 1 .. len : At(k) \in Seq(X)
  BY <1>6, Zenon
<1>13. To(0) = SubSeq(s, c[1], c[1] - 1) /\ To(len) = SubSeq(s, c[1], q - 1)
  <2>1. 0 + 1 = 1
    OBVIOUS
  <2>2. QED
    BY <1>1, <1>2, <2>1, Zenon
<1>14. ASSUME NEW k \in 1 .. len PROVE SubSeq(s, c[1], c[k] - 1) = To(k - 1)
  <2>1. (k - 1) + 1 = k
    OBVIOUS
  <2>2. QED
    BY <2>1, Zenon
<1>15. At(1) = To(1)
  BY Zenon
<1> HIDE DEF ss, At, To
<1>10. ss \in Seq(Seq(X)) /\ Len(ss) = len /\ \A k \in 1 .. len : ss[k] = At(k)
  BY <1>8, <1>9
<1>11. CASE len = 0
  <2>1. FlattenSeq(ss) = <<>>
    <3>1. ss = <<>>
      BY <1>10, <1>11, EmptySeq
    <3>2. QED
      BY <3>1 DEF FlattenSeq
  <2>2. c[1] = q /\ q - 1 < q /\ q \in Int /\ q - 1 \in Int
    BY <1>1, <1>2, <1>11
  <2>3. SubSeq(s, c[1], q - 1) = <<>>
    BY <2>2, SubSeqEmpty
  <2>4. QED
    BY <2>1, <2>3 DEF ss
<1>12. CASE len # 0
  <2>1. PICK g \in [1 .. len -> Seq(X)] : FlattenSeq(ss) = g[len] /\ Flattens(ss, len, g)
    BY <1>10, <1>12, FlattenExists
  <2>2. \A k \in 1 .. len : g[k] = IF k = 1 THEN At(k) ELSE g[k - 1] \o At(k)
    BY <1>10, <2>1 DEF Flattens
  <2> DEFINE T == { k \in Nat : k # 0 /\ k <= len => g[k] = To(k) }
  <2>3. 0 \in T
    OBVIOUS
  <2>4. ASSUME NEW k \in Nat, k \in T PROVE k + 1 \in T
    <3> SUFFICES ASSUME k + 1 <= len PROVE g[k + 1] = To(k + 1)
      OBVIOUS
    <3>1. k + 1 \in 1 .. len /\ (k + 1) - 1 = k
      OBVIOUS
    <3>2. CASE k = 0
      <4>1. g[k + 1] = At(k + 1) /\ k + 1 = 1
        BY <2>2, <3>1, <3>2
      <4>2. QED
        BY <1>15, <4>1, Zenon
    <3>3. CASE k # 0
      <4>1. g[k + 1] = g[k] \o At(k + 1)
        <5>1. k + 1 # 1
          BY <3>3
        <5>2. QED
          BY <2>2, <3>1, <5>1
      <4>2. g[k] = To(k)
        <5>1. k <= len
          BY <3>1
        <5>2. QED
          BY <3>3, <2>4, <5>1, Zenon
      <4>3. To(k) \o At(k + 1) = To(k + 1)
        <5>1. SubSeq(s, c[1], c[k + 1] - 1) = To((k + 1) - 1)
          BY <1>14, <3>1, Zenon
        <5>2. SubSeq(s, c[1], c[k + 1] - 1) \o At(k + 1) = To(k + 1)
          BY <1>6, <3>1, Zenon
        <5>3. QED
          BY <3>1, <5>1, <5>2, Zenon
      <4>4. QED
        BY <4>1, <4>2, <4>3, Zenon
    <3>4. QED
      BY <3>2, <3>3
  <2>5. len \in T
    <3> HIDE DEF T
    <3>1. \A k \in Nat : k \in T
      BY <2>3, <2>4, Inductive
    <3>2. QED
      BY <3>1
  <2>6. g[len] = To(len)
    BY <1>12, <2>5
  <2>7. QED
    BY <1>13, <2>1, <2>6, Zenon DEF ss
<1>16. QED
  BY <1>11, <1>12

\* The parts of a rule, joined by its operators, are the row.
LEMMA RowJoins ==
    ASSUME NEW X, NEW s \in Seq(X), NEW n \in Nat, n = Len(s),
           NEW c, NEW m, NEW q, RowCut(s, n, c, m, q), NEW r, RuleCut(s, n, c, m, q, r)
    PROVE  Joined(r) = s
<1>1. m \in Nat /\ m # 0 /\ q \in 1 .. n /\ q + 1 \in 1 .. n /\ s[q] = "::"
  BY Zenon DEF RowCut, Cut
<1>2. c[1] \in 1 .. q
  <2>1. 1 \in 1 .. m
    BY <1>1
  <2>2. QED
    BY <2>1 DEF RowCut
<1> DEFINE f == FlattenSeq(StepsOf(r))
<1>3. f = SubSeq(s, c[1], q - 1)
  BY StepsAre
<1>4. Joined(r) = r.lhs \o f \o <<"::", r.op>> \o r.rhs
  BY Zenon DEF Joined, StepsOf
<1> HIDE DEF f
<1>5. r.lhs = SubSeq(s, 1, c[1] - 1) /\ r.op = s[q + 1] /\ r.rhs = SubSeq(s, q + 2, n)
  BY Zenon DEF RuleCut
<1>6. PICK a \in Nat : a = c[1] - 1
  BY <1>1, <1>2
<1>7. PICK e \in Nat : e = q - 1
  BY <1>1
<1>8. a + 1 = c[1] /\ a <= e /\ e <= n /\ e + 1 = q /\ q + 1 <= n /\ (q + 1) + 1 = q + 2 /\ q \in Nat
      /\ e <= q + 1 /\ 1 <= a + 1 /\ 1 <= e + 1 /\ 1 <= (q + 1) + 1 /\ q + 1 \in Nat /\ 1 \in Nat /\ 1 # 0 /\ n <= n
  BY <1>1, <1>2, <1>6, <1>7
<1>9. SubSeq(s, 1, a) \o SubSeq(s, a + 1, e) = SubSeq(s, 1, e)
  BY <1>8, Meet
<1>10. SubSeq(s, 1, e) \o SubSeq(s, e + 1, q + 1) = SubSeq(s, 1, q + 1)
  BY <1>8, Meet
<1>11. SubSeq(s, 1, q + 1) \o SubSeq(s, (q + 1) + 1, n) = SubSeq(s, 1, n)
  <2>1. PICK p \in Nat : p = q + 1
    BY <1>8
  <2>2. 1 <= p + 1 /\ p <= n /\ n <= n /\ 1 \in Nat /\ 1 # 0
    BY <1>8, <2>1
  <2>3. SubSeq(s, 1, p) \o SubSeq(s, p + 1, n) = SubSeq(s, 1, n)
    <3>1. PICK one \in Nat : one = 1
      OBVIOUS
    <3>2. PICK k \in Nat : k = n
      OBVIOUS
    <3>3. one # 0 /\ one <= p + 1 /\ p <= k /\ k <= n
      BY <2>2, <3>1, <3>2
    <3>4. SubSeq(s, one, p) \o SubSeq(s, p + 1, k) = SubSeq(s, one, k)
      BY <3>3, Meet
    <3>5. QED
      BY <3>1, <3>2, <3>4, Zenon
  <2>4. QED
    BY <2>1, <2>3, Zenon
<1>12. SubSeq(s, q, q + 1) = <<s[q], s[q + 1]>>
  <2>1. q # 0
    BY <1>1
  <2>2. QED
    BY <1>8, <2>1, Both
<1>13. SubSeq(s, 1, n) = s
  BY SubSeqFull
<1>14. r.lhs \o f = SubSeq(s, 1, e)
  BY <1>3, <1>5, <1>6, <1>7, <1>8, <1>9, Zenon
<1>15. <<"::", r.op>> = SubSeq(s, e + 1, q + 1)
  BY <1>1, <1>5, <1>8, <1>12, Zenon
<1>16. r.rhs = SubSeq(s, (q + 1) + 1, n)
  BY <1>5, <1>8, Zenon
<1>17. QED
  BY <1>4, <1>10, <1>11, <1>13, <1>14, <1>15, <1>16, Zenon

\* A text of n units in which a backslash stands before each operator.
Spared(t, n) ==
    \A i \in 1 .. n : i + 1 \in 1 .. n /\ t[i] = "::" /\ t[i + 1] \in Mark => i > 1 /\ t[i - 1] = "\\"

\* No part ends in a backslash, and none holds an operator.
PartKept(s, part) ==
    /\ part # <<>> => part[Len(part)] # "\\"
    /\ \A i \in 2 .. Len(part) - 1 :
          part[i] = "::" /\ part[i + 1] \in Terminal \cup {"|"} => part[i - 1] = "\\"

\* Each part is a stretch between cuts: it begins behind no backslash and ends in none.
LEMMA PartsKept ==
    ASSUME NEW X, NEW s \in Seq(X), NEW n \in Nat, n = Len(s),
           NEW c, NEW m, NEW q, RowCut(s, n, c, m, q), NEW b, NEW w, NEW P,
           Sliced(s, c, m, b, w, P),
           NEW k \in 1 .. m
    PROVE  /\ PartKept(s, P[k]) /\ P[k] \in Seq(X) /\ w[k] \in Nat /\ w[k] = Len(P[k])
           /\ w[k] # 0 => P[k][w[k]] # "\\"
           /\ Spared(P[k], w[k])
<1>1. m \in Nat /\ m # 0 /\ q \in 1 .. n
  BY Zenon DEF RowCut
<1>2. c[k] \in 1 .. q /\ Cut(s, n, Mark, c[k])
  BY Zenon DEF RowCut
<1>3. b[k] \in Nat /\ w[k] \in Nat /\ c[k] = b[k] + w[k] + 1 /\ P[k] = SubSeq(s, b[k] + 1, b[k] + w[k])
  BY Zenon DEF Sliced
<1>4. PICK v \in Nat : v = w[k]
  BY <1>3
<1>5. PICK o \in Nat : o = b[k]
  BY <1>3
<1>6. PICK part \in Seq(X) : part = P[k] /\ Len(part) = v /\ \A i \in 1 .. v : part[i] = s[o + i]
  <2>1. o + v <= n
    BY <1>1, <1>2, <1>3, <1>4, <1>5
  <2> DEFINE t == SubSeq(s, o + 1, o + v)
  <2>2. t \in Seq(X) /\ Len(t) = v /\ \A i \in 1 .. v : t[i] = s[o + i]
    BY <2>1, StretchIs
  <2>3. P[k] = t
    BY <1>3, <1>4, <1>5, Zenon
  <2>4. QED
    BY <2>2, <2>3, Zenon
<1>11. c[k] = o + v + 1
  BY <1>3, <1>4, <1>5
<1>12. c[k] \in Nat /\ c[k] <= q /\ q \in Nat /\ q <= n
  BY <1>1, <1>2
<1>13. o # 0 => s[o] # "\\"
  <2> SUFFICES ASSUME o # 0 PROVE s[o] # "\\"
    OBVIOUS
  <2>1. k # 1
    <3>1. b[1] = 0
      BY Zenon DEF Sliced
    <3>2. QED
      BY <1>5, <3>1
  <2>2. PICK l \in 1 .. m : l + 1 = k
    <3>1. k - 1 \in 1 .. m /\ (k - 1) + 1 = k
      BY <1>1, <2>1
    <3>2. QED
      BY <3>1
  <2>3. b[l + 1] = c[l] + 1
    BY <2>2, Zenon DEF Sliced
  <2>4. s[c[l] + 1] \in Mark
    BY Zenon DEF RowCut, Cut
  <2>5. s[o] \in Mark
    BY <1>5, <2>2, <2>3, <2>4, Zenon
  <2>6. QED
    BY <2>5, Units
<1>7. v # 0 => part[v] # "\\"
  <2> SUFFICES ASSUME v # 0 PROVE part[v] # "\\"
    OBVIOUS
  <2>1. v \in 1 .. v
    OBVIOUS
  <2>2. part[v] = s[o + v]
    BY <1>6, <2>1
  <2>3. c[k] - 1 = o + v /\ c[k] > 1
    BY <1>11, <2>1
  <2>4. s[c[k] - 1] # "\\"
    BY <1>2, <2>3 DEF Cut
  <2>5. QED
    BY <2>2, <2>3, <2>4, Zenon
<1>8. ASSUME NEW i \in 1 .. v, i + 1 \in 1 .. v, part[i] = "::", part[i + 1] \in Mark, i > 1 => part[i - 1] # "\\"
      PROVE  FALSE
  <2>2. part[i] = s[o + i] /\ part[i + 1] = s[o + (i + 1)]
    BY <1>6, <1>8
  <2>3. PICK p \in Nat : p = o + i
    OBVIOUS
  <2>4. o + (i + 1) = p + 1 /\ p \in 1 .. n /\ p + 1 \in 1 .. n /\ p <= q /\ p < c[k]
    BY <1>1, <1>11, <1>12, <1>8, <2>3
  <2>1. s[p - 1] # "\\" \/ ~(p > 1)
    <3>1. CASE i = 1
      <4>1. p - 1 = o /\ (p > 1 => o # 0)
        BY <2>3, <3>1
      <4>2. QED
        BY <1>13, <4>1, Zenon
    <3>2. CASE i # 1
      <4>1. i > 1 /\ i - 1 \in 1 .. v /\ o + (i - 1) = p - 1
        BY <2>3, <3>2
      <4>2. part[i - 1] = s[o + (i - 1)]
        BY <1>6, <4>1
      <4>3. QED
        BY <1>8, <4>1, <4>2, Zenon
    <3>3. QED
      BY <3>1, <3>2
  <2>5. Cut(s, n, Mark, p)
    BY <1>8, <2>1, <2>2, <2>3, <2>4, Zenon DEF Cut
  <2>6. PICK j \in 1 .. m : c[j] = p
    BY <2>4, <2>5, Zenon DEF RowCut
  <2>7. \A i1, j1 \in 1 .. m : i1 < j1 => c[i1] < c[j1]
    BY Zenon DEF RowCut
  <2>8. j < k
    <3>1. j # k
      BY <2>4, <2>6
    <3>2. ~(k < j)
      <4>1. k < j => c[k] < c[j]
        BY <2>7
      <4>2. QED
        BY <1>2, <2>4, <2>6, <4>1
    <3>3. QED
      BY <1>1, <3>1, <3>2
  <2>9. PICK l \in 1 .. m : l + 1 = k
    <3>1. k - 1 \in 1 .. m /\ (k - 1) + 1 = k
      BY <1>1, <2>8
    <3>2. QED
      BY <3>1
  <2>10. b[l + 1] = c[l] + 1
    BY <2>9, Zenon DEF Sliced
  <2>11. c[l] \in Nat /\ c[j] \in Nat
    BY <1>1 DEF RowCut
  <2>12. c[j] <= c[l]
    <3>1. j = l \/ j < l
      BY <1>1, <2>8, <2>9
    <3>2. QED
      BY <2>7, <2>11, <3>1
  <2>13. QED
    BY <1>5, <2>3, <2>6, <2>9, <2>10, <2>11, <2>12
<1>14. Spared(part, v)
  BY <1>8, Zenon DEF Spared
<1>9. PartKept(s, part)
  <2>1. part # <<>> => v # 0
    BY <1>6, EmptySeq
  <2>2. part # <<>> => part[Len(part)] # "\\"
    BY <1>6, <1>7, <2>1, Zenon
  <2>3. ASSUME NEW i \in 2 .. v - 1, part[i] = "::", part[i + 1] \in Mark PROVE part[i - 1] = "\\"
    <3>1. i \in 1 .. v /\ i + 1 \in 1 .. v
      BY <1>4
    <3>2. QED
      BY <1>14, <2>3, <3>1, Zenon DEF Spared
  <2>4. QED
    BY <1>6, <2>2, <2>3, Zenon DEF PartKept, Mark
<1>10. QED
  BY <1>4, <1>6, <1>7, <1>9, <1>14, Zenon

-----------------------------------------------------------------------------
\* Rows: what a backslash must stand before.

\* Before each of these places stands a backslash.
Shielded(s, B) == \A i \in B : i > 1 /\ s[i - 1] = "\\"

\* The names of aliases in a text of n units, and the "::" before one of these marks.
NamedAt(s, n) == { i \in 1 .. n : s[i] \in AliasName }
MarkedAt(s, n, marks) == { i \in 1 .. n : i + 1 \in 1 .. n /\ s[i] = "::" /\ s[i + 1] \in marks }

\* References and operators are the names and marks behind no backslash.
LEMMA ShieldsAre ==
    ASSUME NEW X, NEW s \in Seq(X), NEW n \in Nat, n = Len(s)
    PROVE  /\ References(s) = {} <=> Shielded(s, NamedAt(s, n))
           /\ TerminalAt(s) = {} <=> Shielded(s, MarkedAt(s, n, Terminal))
           /\ Structural(s) = {} <=> Shielded(s, MarkedAt(s, n, Mark))
<1>1. DOMAIN s = 1 .. n
  OBVIOUS
<1>2. References(s) = {} <=> Shielded(s, NamedAt(s, n))
  BY <1>1, Zenon DEF References, Refers, Shielded, NamedAt
<1>3. \A i : i \in Structural(s) <=> Cut(s, n, Mark, i)
  BY CutsAre, Zenon
<1>4. \A i : i \in TerminalAt(s) <=> Cut(s, n, Terminal, i)
  BY CutsAre, Zenon
<1>5. \A marks, i : Cut(s, n, marks, i) <=> i \in MarkedAt(s, n, marks) /\ (i > 1 => s[i - 1] # "\\")
  BY Zenon DEF Cut, MarkedAt
<1>6. TerminalAt(s) = {} <=> Shielded(s, MarkedAt(s, n, Terminal))
  BY <1>4, <1>5, Zenon DEF Shielded
<1>7. Structural(s) = {} <=> Shielded(s, MarkedAt(s, n, Mark))
  BY <1>3, <1>5, Zenon DEF Shielded
<1>8. QED
  BY <1>2, <1>6, <1>7, Zenon

\* A stretch that begins behind no backslash.
Shifted(s, t, b, w, B, C) ==
    /\ \A i \in 1 .. w : t[i] = s[b + i]
    /\ b # 0 => s[b] # "\\"
    /\ \A i \in C : i \in 1 .. w /\ b + i \in B

\* What stood behind backslashes in a text does so in a stretch of it.
LEMMA ShieldedBehind ==
    ASSUME NEW s, NEW t, NEW b \in Nat, NEW w \in Nat, NEW B, NEW C,
           Shifted(s, t, b, w, B, C), Shielded(s, B)
    PROVE  Shielded(t, C)
<1> SUFFICES ASSUME NEW i \in C PROVE i > 1 /\ t[i - 1] = "\\"
  BY DEF Shielded
<1>1. i \in 1 .. w /\ b + i > 1 /\ s[b + i - 1] = "\\"
  BY DEF Shielded, Shifted
<1>0. /\ \A k \in 1 .. w : t[k] = s[b + k]
      /\ b # 0 => s[b] # "\\"
  BY DEF Shifted
<1>2. i # 1
  <2> SUFFICES ASSUME i = 1 PROVE FALSE
    OBVIOUS
  <2>1. b + i - 1 = b /\ b # 0
    BY <1>1
  <2>2. QED
    BY <1>0, <1>1, <2>1
<1>3. PICK j \in 1 .. w : i = j + 1
  <2>1. i - 1 \in 1 .. w /\ i = (i - 1) + 1
    BY <1>1, <1>2
  <2>2. QED
    BY <2>1
<1>4. b + i - 1 = b + j /\ i - 1 = j /\ i > 1
  BY <1>3
<1>5. t[j] = s[b + j]
  BY <1>0, <1>3
<1>6. QED
  BY <1>1, <1>4, <1>5

\* So it is with the names and the marks of the stretch.
LEMMA StretchShielded ==
    ASSUME NEW s, NEW n \in Nat, NEW t, NEW b \in Nat, NEW w \in Nat, b + w <= n,
           \A i \in 1 .. w : t[i] = s[b + i], b # 0 => s[b] # "\\"
    PROVE  /\ Shielded(s, NamedAt(s, n)) => Shielded(t, NamedAt(t, w))
           /\ \A marks : Shielded(s, MarkedAt(s, n, marks)) => Shielded(t, MarkedAt(t, w, marks))
<1>1. \A i \in 1 .. w : b + i \in 1 .. n
  OBVIOUS
<1>2. ASSUME Shielded(s, NamedAt(s, n)) PROVE Shielded(t, NamedAt(t, w))
  <2>1. \A i \in NamedAt(t, w) : i \in 1 .. w /\ b + i \in NamedAt(s, n)
    BY <1>1 DEF NamedAt
  <2>2. Shifted(s, t, b, w, NamedAt(s, n), NamedAt(t, w))
    BY <2>1, Zenon DEF Shifted
  <2>3. QED
    BY <1>2, <2>2, ShieldedBehind, Zenon
<1>3. ASSUME NEW marks, Shielded(s, MarkedAt(s, n, marks)) PROVE Shielded(t, MarkedAt(t, w, marks))
  <2>1. ASSUME NEW i \in MarkedAt(t, w, marks) PROVE i \in 1 .. w /\ b + i \in MarkedAt(s, n, marks)
    <3>1. i \in 1 .. w /\ i + 1 \in 1 .. w /\ t[i] = "::" /\ t[i + 1] \in marks
      BY DEF MarkedAt
    <3>2. t[i] = s[b + i] /\ t[i + 1] = s[b + (i + 1)] /\ b + (i + 1) = (b + i) + 1
      BY <3>1
    <3>3. b + i \in 1 .. n /\ (b + i) + 1 \in 1 .. n
      BY <1>1, <3>1, <3>2
    <3>4. QED
      BY <3>1, <3>2, <3>3 DEF MarkedAt
  <2>2. Shifted(s, t, b, w, MarkedAt(s, n, marks), MarkedAt(t, w, marks))
    BY <2>1, Zenon DEF Shifted
  <2>3. QED
    BY <1>3, <2>2, ShieldedBehind, Zenon
<1>4. QED
  BY <1>2, <1>3

\* A text in front of another.
Chained(s, t, u, m, n, B, C, D) ==
    /\ \A i \in 1 .. m : u[i] = s[i]
    /\ \A i \in 1 .. n : u[m + i] = t[i]
    /\ \A i \in D : i \in 1 .. m + n
    /\ \A i \in D : i <= m => i \in B
    /\ \A i \in 1 .. n : m + i \in D => i \in C

\* Two texts one behind the other: no place loses its backslash.
LEMMA ChainShielded ==
    ASSUME NEW s, NEW t, NEW u, NEW m \in Nat, NEW n \in Nat, NEW B, NEW C, NEW D,
           Chained(s, t, u, m, n, B, C, D), Shielded(s, B), Shielded(t, C)
    PROVE  Shielded(u, D)
<1> SUFFICES ASSUME NEW i \in D PROVE i > 1 /\ u[i - 1] = "\\"
  BY DEF Shielded
<1>0. /\ \A j \in 1 .. m : u[j] = s[j]
      /\ \A j \in 1 .. n : u[m + j] = t[j]
      /\ \A j \in 1 .. n : m + j \in D => j \in C
  BY DEF Chained
<1>1. i \in 1 .. m + n
  BY DEF Chained
<1>2. CASE i <= m
  <2>1. i \in B
    BY <1>2 DEF Chained
  <2>2. i > 1 /\ s[i - 1] = "\\"
    BY <2>1 DEF Shielded
  <2>3. i - 1 \in 1 .. m
    BY <1>1, <1>2, <2>2
  <2>4. QED
    BY <1>0, <2>2, <2>3
<1>3. CASE i > m
  <2>1. PICK j \in 1 .. n : i = m + j
    <3>1. i - m \in 1 .. n /\ i = m + (i - m)
      BY <1>1, <1>3
    <3>2. QED
      BY <3>1
  <2>2. j > 1 /\ t[j - 1] = "\\"
    BY <1>0, <2>1 DEF Shielded
  <2>3. j - 1 \in 1 .. n /\ i - 1 = m + (j - 1) /\ i > 1
    BY <2>1, <2>2
  <2>4. QED
    BY <1>0, <2>2, <2>3
<1>4. QED
  BY <1>1, <1>2, <1>3

\* A text that stands within another.
Inside(t, u, b, n, C, D) ==
    /\ \A i \in 1 .. n : u[b + i] = t[i]
    /\ \A i \in D : \E j \in 1 .. n : j \in C /\ i = b + j

\* A text within another keeps its backslashes.
LEMMA InsideShielded ==
    ASSUME NEW t, NEW u, NEW b \in Nat, NEW n \in Nat, NEW C, NEW D,
           Inside(t, u, b, n, C, D), Shielded(t, C)
    PROVE  Shielded(u, D)
<1> SUFFICES ASSUME NEW i \in D PROVE i > 1 /\ u[i - 1] = "\\"
  BY DEF Shielded
<1>1. PICK j \in 1 .. n : j \in C /\ i = b + j
  BY DEF Inside
<1>2. j > 1 /\ t[j - 1] = "\\"
  BY <1>1 DEF Shielded
<1>3. j - 1 \in 1 .. n /\ i - 1 = b + (j - 1) /\ i > 1
  BY <1>1, <1>2
<1>4. \A k \in 1 .. n : u[b + k] = t[k]
  BY DEF Inside
<1>5. QED
  BY <1>2, <1>3, <1>4

-----------------------------------------------------------------------------
\* Rows: the values of the aliases.

\* In a text of n units no name stands without a backslash, and no operator that ends a rule.
Quiet(s, n) == Shielded(s, NamedAt(s, n)) /\ Shielded(s, MarkedAt(s, n, Terminal))

\* The text of an alias, n units in its group.
AliasText(X, v, n) ==
    /\ v \in Seq(X) /\ n \in Nat /\ n = Len(v) /\ n > 1
    /\ v[1] = "(?:" /\ v[n] = ")" /\ Quiet(v, n)

\* A quiet text in a group is the text of an alias: the group adds no name and no mark.
LEMMA WrappedQuiet ==
    ASSUME NEW X, "(?:" \in X, ")" \in X, NEW e \in Seq(X), NEW n \in Nat, n = Len(e),
           Quiet(e, n)
    PROVE  AliasText(X, Wrapped(e), n + 2)
<1> DEFINE v == Wrapped(e)
<1>1. /\ v \in Seq(X) /\ Len(v) = n + 2 /\ v[1] = "(?:" /\ v[n + 2] = ")"
      /\ \A i \in 1 .. n : v[1 + i] = e[i]
  <2>1. PICK o \in X : o = "(?:"
    OBVIOUS
  <2>2. PICK c \in X : c = ")"
    OBVIOUS
  <2> DEFINE a == <<o>> \o e
  <2>3. a \in Seq(X) /\ Len(a) = n + 1 /\ a[1] = o /\ \A i \in 1 .. n : a[1 + i] = e[i]
    <3>1. <<o>> \in Seq(X) /\ Len(<<o>>) = 1 /\ <<o>>[1] = o
      OBVIOUS
    <3>2. a \in Seq(X) /\ Len(a) = 1 + n /\ \A i \in 1 .. 1 + n : a[i] = IF i <= 1 THEN <<o>>[i] ELSE e[i - 1]
      BY <3>1, ConcatProperties
    <3> HIDE DEF a
    <3>3. \A i \in 1 .. n : a[1 + i] = e[i]
      <4> SUFFICES ASSUME NEW i \in 1 .. n PROVE a[1 + i] = e[i]
        OBVIOUS
      <4>1. 1 + i \in 1 .. 1 + n /\ ~(1 + i <= 1) /\ (1 + i) - 1 = i
        OBVIOUS
      <4>2. QED
        BY <3>2, <4>1
    <3>4. a[1] = o
      BY <3>1, <3>2
    <3>5. QED
      BY <3>2, <3>3, <3>4
  <2> HIDE DEF a
  <2> DEFINE u == a \o <<c>>
  <2>4. u \in Seq(X) /\ Len(u) = n + 2 /\ u[n + 2] = c /\ \A i \in 1 .. n + 1 : u[i] = a[i]
    <3>1. <<c>> \in Seq(X) /\ Len(<<c>>) = 1 /\ <<c>>[1] = c
      OBVIOUS
    <3>2. u \in Seq(X) /\ Len(u) = (n + 1) + 1
          /\ \A i \in 1 .. (n + 1) + 1 : u[i] = IF i <= n + 1 THEN a[i] ELSE <<c>>[i - (n + 1)]
      BY <2>3, <3>1, ConcatProperties
    <3> HIDE DEF u
    <3>3. n + 2 \in 1 .. (n + 1) + 1 /\ ~(n + 2 <= n + 1) /\ (n + 2) - (n + 1) = 1
      OBVIOUS
    <3>4. u[n + 2] = c
      BY <3>1, <3>2, <3>3
    <3>5. QED
      BY <3>2, <3>4
  <2> HIDE DEF u
  <2>5. v = u
    BY <2>1, <2>2, Zenon DEF Wrapped, a, u
  <2>6. 1 \in 1 .. n + 1 /\ \A i \in 1 .. n : 1 + i \in 1 .. n + 1
    OBVIOUS
  <2>7. u[1] = o /\ \A i \in 1 .. n : u[1 + i] = e[i]
    BY <2>3, <2>4, <2>6
  <2>8. QED
    BY <2>1, <2>2, <2>4, <2>5, <2>7, Zenon
<1> HIDE DEF v
<1>2. \A i \in 1 .. n + 2 : i = 1 \/ i = n + 2 \/ \E j \in 1 .. n : i = 1 + j
  <2> SUFFICES ASSUME NEW i \in 1 .. n + 2, i # 1, i # n + 2 PROVE \E j \in 1 .. n : i = 1 + j
    OBVIOUS
  <2>1. i - 1 \in 1 .. n /\ i = 1 + (i - 1)
    OBVIOUS
  <2>2. QED
    BY <2>1
<1>3. Inside(e, v, 1, n, NamedAt(e, n), NamedAt(v, n + 2))
  <2> SUFFICES ASSUME NEW i \in NamedAt(v, n + 2)
               PROVE  \E j \in 1 .. n : j \in NamedAt(e, n) /\ i = 1 + j
    BY <1>1, Zenon DEF Inside
  <2>1. i \in 1 .. n + 2 /\ v[i] \in AliasName
    BY DEF NamedAt
  <2>2. i # 1 /\ i # n + 2
    BY <1>1, <2>1, Units
  <2>3. PICK j \in 1 .. n : i = 1 + j
    BY <1>2, <2>1, <2>2
  <2>4. e[j] \in AliasName
    BY <1>1, <2>1, <2>3
  <2>5. QED
    BY <2>3, <2>4 DEF NamedAt
<1>4. Inside(e, v, 1, n, MarkedAt(e, n, Terminal), MarkedAt(v, n + 2, Terminal))
  <2> SUFFICES ASSUME NEW i \in MarkedAt(v, n + 2, Terminal)
               PROVE  \E j \in 1 .. n : j \in MarkedAt(e, n, Terminal) /\ i = 1 + j
    BY <1>1, Zenon DEF Inside
  <2>1. i \in 1 .. n + 2 /\ i + 1 \in 1 .. n + 2 /\ v[i] = "::" /\ v[i + 1] \in Terminal
    BY DEF MarkedAt
  <2>2. "(?:" # "::" /\ ")" # "::" /\ ")" \notin Terminal
    BY DEF Terminal
  <2>3. i # 1 /\ i # n + 2 /\ i + 1 # n + 2 /\ i + 1 # 1
    BY <1>1, <2>1, <2>2
  <2>4. PICK j \in 1 .. n : i = 1 + j
    BY <1>2, <2>1, <2>3
  <2>5. PICK k \in 1 .. n : i + 1 = 1 + k
    BY <1>2, <2>1, <2>3
  <2>6. k = j + 1
    BY <2>4, <2>5
  <2>7. e[j] = "::" /\ e[j + 1] \in Terminal /\ j + 1 \in 1 .. n
    BY <1>1, <2>1, <2>4, <2>5, <2>6
  <2>8. QED
    BY <2>4, <2>7 DEF MarkedAt
<1>5. Quiet(v, n + 2)
  <2>1. Shielded(e, NamedAt(e, n)) /\ Shielded(e, MarkedAt(e, n, Terminal))
    BY DEF Quiet
  <2>2. 1 \in Nat
    OBVIOUS
  <2>3. Shielded(v, NamedAt(v, n + 2))
    BY <1>3, <2>1, <2>2, InsideShielded
  <2>4. Shielded(v, MarkedAt(v, n + 2, Terminal))
    BY <1>4, <2>1, <2>2, InsideShielded
  <2>5. QED
    BY <2>3, <2>4, Zenon DEF Quiet
<1>6. n + 2 \in Nat /\ n + 2 > 1
  OBVIOUS
<1>7. QED
  BY <1>1, <1>5, <1>6, Zenon DEF AliasText, v

-----------------------------------------------------------------------------
\* Rows: where the units of an expanded text come from.

\* What stands for the k-th unit of a text, and its first and last unit.
Piece(text, al, k) == IF Refers(text, k) THEN al[text[k]] ELSE <<text[k]>>
First(text, k) == IF Refers(text, k) THEN "(?:" ELSE text[k]
Final(text, k) == IF Refers(text, k) THEN ")" ELSE text[k]

Spread(text, n, al, E, e, off, w) ==
    /\ off[1] = 0 /\ e = off[n + 1]
    /\ \A k \in 1 .. n : off[k] \in Nat /\ off[k + 1] \in Nat /\ w[k] \in Nat /\ w[k] # 0
                         /\ off[k + 1] = off[k] + w[k]
    /\ \A k \in 1 .. n : w[k] = Len(Piece(text, al, k)) /\ (~Refers(text, k) => w[k] = 1)
    /\ \A k \in 1 .. n : \A j \in 1 .. w[k] : off[k] + j \in 1 .. e /\ E[off[k] + j] = Piece(text, al, k)[j]
    /\ \A p \in 1 .. e : \E k \in 1 .. n : \E j \in 1 .. w[k] : p = off[k] + j
    /\ \A k \in 1 .. n : E[off[k] + 1] = First(text, k) /\ E[off[k + 1]] = Final(text, k)

\* Every reference of the text has a value.
Known(X, text, n, al) ==
    \A k \in 1 .. n : Refers(text, k) => \E v \in Nat : AliasText(X, al[text[k]], v)

\* What stands for a unit is not empty, and begins and ends in known units.
LEMMA PieceIs ==
    ASSUME NEW X, NEW text \in Seq(X), NEW n \in Nat, n = Len(text), NEW al,
           Known(X, text, n, al),
           NEW k \in 1 .. n
    PROVE  \E p \in Seq(X) : \E v \in Nat :
              /\ p = Piece(text, al, k) /\ v = Len(p) /\ v # 0
              /\ p[1] = First(text, k) /\ p[v] = Final(text, k)
              /\ ~Refers(text, k) => v = 1
<1>1. CASE Refers(text, k)
  <2>1. PICK v \in Nat : AliasText(X, al[text[k]], v)
    BY <1>1 DEF Known
  <2>2. al[text[k]] \in Seq(X) /\ v = Len(al[text[k]]) /\ v > 1 /\ al[text[k]][1] = "(?:" /\ al[text[k]][v] = ")"
    BY <2>1, Zenon DEF AliasText
  <2>3. v # 0
    BY <2>2
  <2>4. Piece(text, al, k) = al[text[k]] /\ First(text, k) = "(?:" /\ Final(text, k) = ")"
    BY <1>1, Zenon DEF Piece, First, Final
  <2>5. QED
    BY <1>1, <2>2, <2>3, <2>4, Zenon
<1>2. CASE ~Refers(text, k)
  <2>1. PICK x \in X : x = text[k]
    OBVIOUS
  <2>2. <<x>> \in Seq(X) /\ Len(<<x>>) = 1 /\ <<x>>[1] = x /\ 1 \in Nat /\ 1 # 0
    OBVIOUS
  <2>3. Piece(text, al, k) = <<x>> /\ First(text, k) = x /\ Final(text, k) = x
    BY <1>2, <2>1, Zenon DEF Piece, First, Final
  <2>4. QED
    BY <1>2, <2>2, <2>3, Zenon
<1>3. QED
  BY <1>1, <1>2

\* The expanded text is these pieces, one behind the other.
LEMMA ExpandedSpreads ==
    ASSUME NEW X, NEW text \in Seq(X), NEW n \in Nat, n = Len(text), NEW al,
           Known(X, text, n, al)
    PROVE  /\ Expanded(text, al) \in Seq(X)
           /\ \E off, w, e : /\ e \in Nat /\ e = Len(Expanded(text, al))
                             /\ Spread(text, n, al, Expanded(text, al), e, off, w)
<1> DEFINE ss == [i \in 1 .. n |-> Piece(text, al, i)]
           E == Expanded(text, al)
<1>1. E = FlattenSeq(ss)
  <2>1. DOMAIN text = 1 .. n
    OBVIOUS
  <2>2. QED
    BY <2>1, Zenon DEF Expanded, Piece
<1> HIDE DEF E
<1>2. \A k \in 1 .. n : Piece(text, al, k) \in Seq(X)
  <2> SUFFICES ASSUME NEW k \in 1 .. n PROVE Piece(text, al, k) \in Seq(X)
    OBVIOUS
  <2>1. \E p \in Seq(X) : \E v \in Nat : p = Piece(text, al, k) /\ v = Len(p)
    BY PieceIs
  <2>2. QED
    BY <2>1, Zenon
<1>3. ss \in Seq(Seq(X)) /\ Len(ss) = n /\ \A k \in 1 .. n : ss[k] = Piece(text, al, k)
  BY <1>2
<1> HIDE DEF ss
<1>4. FlattenSeq(ss) \in Seq(X) /\ \E off : Placed(ss, off, FlattenSeq(ss))
  BY <1>3, FlattenPlaces
<1>5. PICK off : Placed(ss, off, E)
  BY <1>1, <1>4, Zenon
<1> DEFINE w == [k \in 1 .. n |-> Len(ss[k])]
<1>6. \A k \in 1 .. n : /\ w[k] = Len(ss[k]) /\ w[k] \in Nat /\ w[k] # 0
                        /\ ss[k][1] = First(text, k) /\ ss[k][w[k]] = Final(text, k)
                        /\ ~Refers(text, k) => w[k] = 1
  <2> SUFFICES ASSUME NEW k \in 1 .. n
               PROVE  /\ w[k] = Len(ss[k]) /\ w[k] \in Nat /\ w[k] # 0
                      /\ ss[k][1] = First(text, k) /\ ss[k][w[k]] = Final(text, k)
                      /\ ~Refers(text, k) => w[k] = 1
    OBVIOUS
  <2>1. w[k] = Len(ss[k])
    OBVIOUS
  <2> HIDE DEF w
  <2>2. PICK p \in Seq(X), v \in Nat : /\ p = Piece(text, al, k) /\ v = Len(p) /\ v # 0
                                       /\ p[1] = First(text, k) /\ p[v] = Final(text, k)
                                       /\ ~Refers(text, k) => v = 1
    BY PieceIs
  <2>3. ss[k] = p
    BY <1>3, <2>2, Zenon
  <2>4. QED
    BY <2>1, <2>2, <2>3, Zenon
<1> HIDE DEF w
<1>7. PICK e \in Nat : e = Len(E)
  BY <1>1, <1>4
<1>8. off[1] = 0 /\ e = off[n + 1]
  BY <1>3, <1>5, <1>7, Zenon DEF Placed
<1>9. \A k \in 1 .. n : off[k] \in Nat /\ off[k + 1] = off[k] + w[k]
  <2>1. \A k \in 1 .. n : off[k] \in Nat /\ off[k + 1] = off[k] + Len(ss[k])
    BY <1>3, <1>5, Zenon DEF Placed
  <2>2. QED
    BY <1>6, <2>1, Zenon
<1>10. \A k \in 1 .. n : \A j \in 1 .. w[k] : off[k] + j \in 1 .. e /\ E[off[k] + j] = ss[k][j]
  <2>1. \A k \in 1 .. n : \A j \in 1 .. Len(ss[k]) : off[k] + j \in 1 .. Len(E) /\ E[off[k] + j] = ss[k][j]
    BY <1>3, <1>5, Zenon DEF Placed
  <2>2. QED
    BY <1>6, <1>7, <2>1, Zenon
<1>11. \A p \in 1 .. e : \E k \in 1 .. n : \E j \in 1 .. w[k] : p = off[k] + j
  <2> SUFFICES ASSUME NEW p \in 1 .. e PROVE \E k \in 1 .. n : \E j \in 1 .. w[k] : p = off[k] + j
    OBVIOUS
  <2>1. \A r \in 1 .. Len(E) : \E k \in 1 .. Len(ss) : \E j \in 1 .. Len(ss[k]) : r = off[k] + j
    BY <1>5, Zenon DEF Placed
  <2>2. p \in 1 .. Len(E) /\ 1 .. Len(ss) = 1 .. n
    BY <1>3, <1>7, Zenon
  <2>3. PICK k \in 1 .. Len(ss) : \E j \in 1 .. Len(ss[k]) : p = off[k] + j
    BY <2>1, <2>2, Zenon
  <2>4. k \in 1 .. n
    BY <2>2, Zenon
  <2>5. w[k] = Len(ss[k])
    BY <1>6, <2>4, Zenon
  <2>6. QED
    BY <2>3, <2>4, <2>5, Zenon
<1>12. \A k \in 1 .. n : off[k + 1] \in Nat
  BY <1>6, <1>9
<1>13. ASSUME NEW k \in 1 .. n PROVE E[off[k] + 1] = First(text, k) /\ E[off[k + 1]] = Final(text, k)
  <2>1. 1 \in 1 .. w[k] /\ w[k] \in 1 .. w[k]
    BY <1>6
  <2>2. E[off[k] + 1] = ss[k][1] /\ E[off[k] + w[k]] = ss[k][w[k]]
    BY <1>10, <2>1
  <2>3. QED
    BY <1>6, <1>9, <2>2, Zenon
<1>14. \A k \in 1 .. n : \A j \in 1 .. w[k] : off[k] + j \in 1 .. e /\ E[off[k] + j] = Piece(text, al, k)[j]
  BY <1>3, <1>10, Zenon
<1>18. \A k \in 1 .. n : w[k] = Len(Piece(text, al, k))
  BY <1>3, <1>6, Zenon
<1>15. Spread(text, n, al, E, e, off, w)
  BY <1>18, <1>6, <1>8, <1>9, <1>11, <1>12, <1>13, <1>14, Zenon DEF Spread
<1>16. E \in Seq(X)
  BY <1>1, <1>4, Zenon
<1>17. QED
  BY <1>7, <1>15, <1>16, Zenon DEF E

-----------------------------------------------------------------------------
\* Rows: an expanded text has no name left, and no operator that the text did not have.

\* What stands behind a backslash still does.
Follows(s, k) == k > 1 /\ s[k - 1] = "\\"

\* Where a unit stood behind a backslash, its piece does.
LEMMA BehindBackslash ==
    ASSUME NEW text, NEW n \in Nat, NEW al, NEW E, NEW e \in Nat, NEW off, NEW w,
           Spread(text, n, al, E, e, off, w), NEW k \in 1 .. n, Follows(text, k)
    PROVE  Follows(E, off[k] + 1)
<1>0. k > 1 /\ text[k - 1] = "\\"
  BY DEF Follows
<1>1. PICK l \in 1 .. n : k = l + 1
  <2>1. k - 1 \in 1 .. n /\ k = (k - 1) + 1
    BY <1>0
  <2>2. QED
    BY <2>1
<1>2. text[l] = "\\"
  <2>1. k - 1 = l
    BY <1>1
  <2>2. QED
    BY <1>0, <2>1, Zenon
<1>3. ~Refers(text, l)
  BY <1>2, Units, Zenon DEF Refers
<1>4. E[off[l + 1]] = Final(text, l) /\ off[l] \in Nat /\ off[l + 1] \in Nat /\ w[l] \in Nat /\ w[l] # 0
      /\ off[l + 1] = off[l] + w[l]
  BY Zenon DEF Spread
<1>5. Final(text, l) = "\\"
  BY <1>2, <1>3, Zenon DEF Final
<1>6. off[l + 1] + 1 > 1 /\ (off[l + 1] + 1) - 1 = off[l + 1]
  BY <1>4
<1>7. QED
  BY <1>1, <1>4, <1>5, <1>6, Zenon DEF Follows

\* A unit that is no reference stands as it is.
LEMMA UnitStands ==
    ASSUME NEW text, NEW n \in Nat, NEW al, NEW E, NEW e \in Nat, NEW off, NEW w,
           Spread(text, n, al, E, e, off, w), NEW k \in 1 .. n, ~Refers(text, k), NEW j \in 1 .. w[k]
    PROVE  off[k + 1] = off[k] + j /\ j = 1 /\ E[off[k] + j] = text[k] /\ off[k] \in Nat
<1>1. w[k] = 1 /\ off[k] \in Nat /\ off[k + 1] = off[k] + w[k] /\ E[off[k] + 1] = First(text, k)
  BY Zenon DEF Spread
<1>2. j = 1
  BY <1>1
<1>3. First(text, k) = text[k]
  BY Zenon DEF First
<1>4. QED
  BY <1>1, <1>2, <1>3, Zenon

\* What stands for a reference.
StandsFor(X, v, m, o, E, e) ==
    /\ AliasText(X, v, m) /\ m \in Nat /\ o \in Nat
    /\ \A j \in 1 .. m : o + j \in 1 .. e /\ E[o + j] = v[j]

\* It is the text of the alias, unit by unit.
LEMMA ValueStands ==
    ASSUME NEW X, NEW text, NEW n \in Nat, NEW al, Known(X, text, n, al), NEW E, NEW e \in Nat,
           NEW off, NEW w,
           Spread(text, n, al, E, e, off, w), NEW k \in 1 .. n, Refers(text, k)
    PROVE  StandsFor(X, al[text[k]], w[k], off[k], E, e)
<1>1. PICK v \in Nat : AliasText(X, al[text[k]], v)
  BY Zenon DEF Known
<1>2. Piece(text, al, k) = al[text[k]]
  BY Zenon DEF Piece
<1>3. /\ w[k] = Len(Piece(text, al, k)) /\ w[k] \in Nat /\ off[k] \in Nat
      /\ \A j \in 1 .. w[k] : off[k] + j \in 1 .. e /\ E[off[k] + j] = Piece(text, al, k)[j]
  BY Zenon DEF Spread
<1>4. v = Len(al[text[k]])
  BY <1>1, Zenon DEF AliasText
<1>5. v = w[k]
  BY <1>2, <1>3, <1>4, Zenon
<1>6. QED
  BY <1>1, <1>2, <1>3, <1>5, Zenon DEF StandsFor

\* An expanded text has no reference: its names are escaped, or escaped in a value.
LEMMA ExpandedNames ==
    ASSUME NEW X, NEW text, NEW n \in Nat, NEW al, Known(X, text, n, al), NEW E, NEW e \in Nat,
           NEW off, NEW w,
           Spread(text, n, al, E, e, off, w)
    PROVE  Shielded(E, NamedAt(E, e))
<1> SUFFICES ASSUME NEW p \in NamedAt(E, e) PROVE p > 1 /\ E[p - 1] = "\\"
  BY DEF Shielded
<1>1. p \in 1 .. e /\ E[p] \in AliasName
  BY DEF NamedAt
<1>2. \A r \in 1 .. e : \E k \in 1 .. n : \E j \in 1 .. w[k] : r = off[k] + j
  BY Zenon DEF Spread
<1>3. PICK k \in 1 .. n : \E j \in 1 .. w[k] : p = off[k] + j
  BY <1>1, <1>2, Zenon
<1>4. PICK j \in 1 .. w[k] : p = off[k] + j
  BY <1>3
<1>5. CASE Refers(text, k)
  <2> DEFINE v == al[text[k]]
             m == w[k]
  <2>1. /\ AliasText(X, v, m) /\ m \in Nat /\ off[k] \in Nat
        /\ \A i \in 1 .. m : off[k] + i \in 1 .. e /\ E[off[k] + i] = v[i]
    <3>1. StandsFor(X, v, m, off[k], E, e)
      BY <1>5, ValueStands, Zenon
    <3>2. QED
      BY <3>1, Zenon DEF StandsFor
  <2>2. j \in 1 .. m
    OBVIOUS
  <2> HIDE DEF v, m
  <2>3. Shielded(v, NamedAt(v, m))
    BY <2>1, Zenon DEF AliasText, Quiet
  <2>4. v[j] \in AliasName
    BY <1>1, <1>4, <2>1, <2>2, Zenon
  <2>5. j \in NamedAt(v, m)
    BY <2>2, <2>4, Zenon DEF NamedAt
  <2>6. j > 1 /\ v[j - 1] = "\\"
    BY <2>3, <2>5, Zenon DEF Shielded
  <2>7. j - 1 \in 1 .. m
    BY <2>1, <2>2, <2>6
  <2>8. E[off[k] + (j - 1)] = "\\"
    BY <2>1, <2>6, <2>7
  <2>9. p - 1 = off[k] + (j - 1) /\ p > 1
    BY <1>4, <2>1, <2>2, <2>6
  <2>10. QED
    BY <2>8, <2>9, Zenon
<1>6. CASE ~Refers(text, k)
  <2>1. off[k + 1] = off[k] + j /\ j = 1 /\ E[off[k] + j] = text[k] /\ off[k] \in Nat
    BY <1>6, UnitStands
  <2>2. text[k] \in AliasName
    BY <1>1, <1>4, <2>1, Zenon
  <2>3. Follows(text, k)
    BY <1>6, <2>2, Zenon DEF Refers, Follows
  <2>4. Follows(E, off[k] + 1)
    BY <2>3, BehindBackslash
  <2>5. QED
    BY <1>4, <2>1, <2>4, Zenon DEF Follows
<1>7. QED
  BY <1>5, <1>6

\* Expanding makes no operator that ends a rule.
LEMMA ExpandedMarks ==
    ASSUME NEW X, NEW text, NEW n \in Nat, NEW al, Known(X, text, n, al), NEW E, NEW e \in Nat,
           NEW off, NEW w,
           Spread(text, n, al, E, e, off, w), Shielded(text, MarkedAt(text, n, Terminal))
    PROVE  Shielded(E, MarkedAt(E, e, Terminal))
<1> SUFFICES ASSUME NEW p \in MarkedAt(E, e, Terminal) PROVE p > 1 /\ E[p - 1] = "\\"
  BY DEF Shielded
<1>1. p \in 1 .. e /\ p + 1 \in 1 .. e /\ E[p] = "::" /\ E[p + 1] \in Terminal
  BY DEF MarkedAt
<1>2. \A r \in 1 .. e : \E k \in 1 .. n : \E j \in 1 .. w[k] : r = off[k] + j
  BY Zenon DEF Spread
<1>3. PICK k \in 1 .. n : \E j \in 1 .. w[k] : p = off[k] + j
  BY <1>1, <1>2, Zenon
<1>4. PICK j \in 1 .. w[k] : p = off[k] + j
  BY <1>3
<1>5. CASE Refers(text, k)
  <2> DEFINE v == al[text[k]]
             m == w[k]
  <2>1. /\ AliasText(X, v, m) /\ m \in Nat /\ off[k] \in Nat
        /\ \A i \in 1 .. m : off[k] + i \in 1 .. e /\ E[off[k] + i] = v[i]
    <3>1. StandsFor(X, v, m, off[k], E, e)
      BY <1>5, ValueStands, Zenon
    <3>2. QED
      BY <3>1, Zenon DEF StandsFor
  <2>2. j \in 1 .. m
    OBVIOUS
  <2> HIDE DEF v, m
  <2>3. Shielded(v, MarkedAt(v, m, Terminal)) /\ v[m] = ")"
    BY <2>1, Zenon DEF AliasText, Quiet
  <2>4. v[j] = "::"
    BY <1>1, <1>4, <2>1, <2>2, Zenon
  <2>5. j # m
    BY <2>3, <2>4
  <2>6. j + 1 \in 1 .. m /\ p + 1 = off[k] + (j + 1)
    BY <1>4, <2>1, <2>2, <2>5
  <2>7. v[j + 1] \in Terminal
    <3>1. E[off[k] + (j + 1)] = v[j + 1]
      BY <2>1, <2>6, Zenon
    <3>2. E[off[k] + (j + 1)] = E[p + 1]
      BY <2>6, Zenon
    <3>3. QED
      BY <1>1, <3>1, <3>2, Zenon
  <2>8. j \in MarkedAt(v, m, Terminal)
    BY <2>2, <2>4, <2>6, <2>7, Zenon DEF MarkedAt
  <2>9. j > 1 /\ v[j - 1] = "\\"
    BY <2>3, <2>8, Zenon DEF Shielded
  <2>10. j - 1 \in 1 .. m
    BY <2>1, <2>2, <2>9
  <2>11. E[off[k] + (j - 1)] = "\\"
    BY <2>1, <2>9, <2>10
  <2>12. p - 1 = off[k] + (j - 1) /\ p > 1
    BY <1>4, <2>1, <2>2, <2>9
  <2>13. QED
    BY <2>11, <2>12, Zenon
<1>6. CASE ~Refers(text, k)
  <2>1. off[k + 1] = off[k] + j /\ j = 1 /\ E[off[k] + j] = text[k] /\ off[k] \in Nat
    BY <1>6, UnitStands
  <2>2. text[k] = "::"
    BY <1>1, <1>4, <2>1, Zenon
  <2>3. e = off[n + 1]
    BY Zenon DEF Spread
  <2>4. p = off[k + 1]
    BY <1>4, <2>1, Zenon
  <2>5. k # n
    BY <1>1, <2>3, <2>4
  <2>6. k + 1 \in 1 .. n
    BY <2>5
  <2>7. E[off[k + 1] + 1] = First(text, k + 1)
    BY <2>6, Zenon DEF Spread
  <2>8. First(text, k + 1) \in Terminal
    BY <1>1, <2>4, <2>7, Zenon
  <2>9. text[k + 1] \in Terminal
    BY <2>8, Units, Zenon DEF First
  <2>10. k \in MarkedAt(text, n, Terminal)
    BY <2>2, <2>6, <2>9, Zenon DEF MarkedAt
  <2>11. Follows(text, k)
    BY <2>10, Zenon DEF Shielded, Follows
  <2>12. Follows(E, off[k] + 1)
    BY <2>11, BehindBackslash
  <2>13. QED
    BY <1>4, <2>1, <2>12, Zenon DEF Follows
<1>7. QED
  BY <1>5, <1>6

\* Expanding keeps what a text ends in.
Unfinished(s, n) == n # 0 /\ s[n] = "\\"

\* Unless the text ends in a backslash, the expanded one does not.
LEMMA ExpandedEnds ==
    ASSUME NEW text, NEW n \in Nat, NEW al, NEW E, NEW e \in Nat, NEW off, NEW w,
           Spread(text, n, al, E, e, off, w), ~Unfinished(text, n)
    PROVE  ~Unfinished(E, e)
<1> SUFFICES ASSUME e # 0, E[e] = "\\" PROVE FALSE
  BY DEF Unfinished
<1>1. e = off[n + 1] /\ off[1] = 0
  BY Zenon DEF Spread
<1>2. CASE n = 0
  <2>1. n + 1 = 1
    BY <1>2
  <2>2. QED
    BY <1>1, <2>1, Zenon
<1>3. CASE n # 0
  <2>1. n \in 1 .. n
    BY <1>3
  <2>2. E[off[n + 1]] = Final(text, n)
    BY <2>1, Zenon DEF Spread
  <2>3. Final(text, n) = "\\"
    BY <1>1, <2>2, Zenon
  <2>4. ")" # "\\"
    OBVIOUS
  <2>5. text[n] = "\\"
    BY <2>3, <2>4, Zenon DEF Final
  <2>6. QED
    BY <1>3, <2>5, Zenon DEF Unfinished
<1>4. QED
  BY <1>2, <1>3

-----------------------------------------------------------------------------
\* Rows: the blanks a text begins with.

\* Nothing but blanks in front of the i-th unit.
BlankUpTo(t, n, i) == \A k \in 1 .. n : k < i => t[k] = Blank

\* Blanks in front stay where they are.
LEMMA BlanksStand ==
    ASSUME NEW text, NEW n \in Nat, NEW al, NEW E, NEW e \in Nat, NEW off, NEW w,
           Spread(text, n, al, E, e, off, w), NEW i \in 1 .. n + 1,
           BlankUpTo(text, n, i)
    PROVE  off[i] + 1 = i /\ off[i] \in Nat /\ BlankUpTo(E, n, i)
<1>1. off[1] = 0
  BY Zenon DEF Spread
<1>2. ASSUME NEW k \in 1 .. n, k < i
      PROVE  /\ off[k] \in Nat /\ off[k + 1] = off[k] + 1 /\ E[off[k] + 1] = Blank
  <2>1. text[k] = Blank
    BY <1>2 DEF BlankUpTo
  <2>2. ~Refers(text, k)
    BY <2>1, Units, Zenon DEF Refers
  <2>3. w[k] = 1 /\ off[k] \in Nat /\ off[k + 1] = off[k] + w[k] /\ E[off[k] + 1] = First(text, k)
    BY <2>2, Zenon DEF Spread
  <2>4. First(text, k) = Blank
    BY <2>1, <2>2, Zenon DEF First
  <2>5. QED
    BY <2>3, <2>4, Zenon
<1> DEFINE T == { m \in Nat : m + 1 <= i => off[m + 1] = m }
<1>3. 0 \in T
  BY <1>1
<1>4. ASSUME NEW m \in Nat, m \in T PROVE m + 1 \in T
  <2> SUFFICES ASSUME (m + 1) + 1 <= i PROVE off[(m + 1) + 1] = m + 1
    OBVIOUS
  <2>1. off[m + 1] = m
    BY <1>4
  <2>2. m + 1 \in 1 .. n /\ m + 1 < i
    OBVIOUS
  <2>3. off[(m + 1) + 1] = off[m + 1] + 1
    BY <1>2, <2>2
  <2>4. QED
    BY <2>1, <2>3
<1>5. \A m \in Nat : m \in T
  <2> HIDE DEF T
  <2>1. QED
    BY <1>3, <1>4, Inductive
<1>6. \A k \in 1 .. n + 1 : k <= i => off[k] + 1 = k /\ off[k] \in Nat
  <2> SUFFICES ASSUME NEW k \in 1 .. n + 1, k <= i PROVE off[k] + 1 = k /\ off[k] \in Nat
    OBVIOUS
  <2>1. PICK m \in Nat : k = m + 1
    <3>1. k - 1 \in Nat /\ k = (k - 1) + 1
      OBVIOUS
    <3>2. QED
      BY <3>1
  <2>2. m \in T
    BY <1>5
  <2>3. off[m + 1] = m
    BY <2>1, <2>2
  <2>4. QED
    BY <2>1, <2>3
<1>7. ASSUME NEW k \in 1 .. n, k < i PROVE E[k] = Blank
  <2>1. off[k] + 1 = k
    BY <1>6, <1>7
  <2>2. E[off[k] + 1] = Blank
    BY <1>2, <1>7
  <2>3. QED
    BY <2>1, <2>2, Zenon
<1>8. QED
  BY <1>6, <1>7 DEF BlankUpTo

-----------------------------------------------------------------------------
\* Rows: stripping.

Blanks(t, n) == \A i \in 1 .. n : t[i] = Blank

\* From the first to the last unit that is no blank.
Ink(t, n, a, b) ==
    /\ a \in 1 .. n /\ b \in 1 .. n /\ a <= b /\ t[a] # Blank /\ t[b] # Blank
    /\ \A i \in 1 .. n : t[i] # Blank => a <= i /\ i <= b

\* Stripping keeps the units from the first to the last that is no blank.
LEMMA StripIs ==
    ASSUME NEW X, NEW t \in Seq(X), NEW n \in Nat, n = Len(t)
    PROVE  /\ Blanks(t, n) => Strip(t) = <<>> /\ RStrip(t) = <<>>
           /\ ~Blanks(t, n) => \E a, b : /\ Ink(t, n, a, b) /\ Strip(t) = SubSeq(t, a, b)
                                         /\ RStrip(t) = SubSeq(t, 1, b)
<1> DEFINE inked == { i \in DOMAIN t : t[i] # Blank }
<1>1. DOMAIN t = 1 .. n
  OBVIOUS
<1>2. inked \subseteq 1 .. n /\ \A i : i \in inked <=> i \in 1 .. n /\ t[i] # Blank
  BY <1>1
<1>3. Strip(t) = IF inked = {} THEN <<>> ELSE SubSeq(t, Min(inked), Max(inked))
  BY Zenon DEF Strip
<1>4. RStrip(t) = IF inked = {} THEN <<>> ELSE SubSeq(t, 1, Max(inked))
  BY Zenon DEF RStrip
<1> HIDE DEF inked
<1>5. ASSUME Blanks(t, n) PROVE Strip(t) = <<>> /\ RStrip(t) = <<>>
  <2>1. inked = {}
    BY <1>2, <1>5, Zenon DEF Blanks
  <2>2. QED
    BY <1>3, <1>4, <2>1, Zenon
<1>6. ASSUME ~Blanks(t, n)
      PROVE  \E a, b : Ink(t, n, a, b) /\ Strip(t) = SubSeq(t, a, b) /\ RStrip(t) = SubSeq(t, 1, b)
  <2>1. inked # {}
    BY <1>2, <1>6, Zenon DEF Blanks
  <2>2. inked \in SUBSET Nat /\ \A x \in inked : x <= n
    BY <1>2
  <2>3. Min(inked) \in inked /\ \A x \in inked : Min(inked) <= x
    BY <2>1, <2>2, MinIsLeast
  <2>4. Max(inked) \in inked /\ \A x \in inked : x <= Max(inked)
    BY <2>1, <2>2, MaxIsGreatest
  <2> DEFINE a == Min(inked)
             b == Max(inked)
  <2>5. a \in inked /\ b \in inked /\ \A x \in inked : a <= x /\ x <= b
    BY <2>3, <2>4, Zenon
  <2>6. Strip(t) = SubSeq(t, a, b) /\ RStrip(t) = SubSeq(t, 1, b)
    BY <1>3, <1>4, <2>1, Zenon
  <2> HIDE DEF a, b
  <2>7. Ink(t, n, a, b)
    BY <1>2, <2>5, Zenon DEF Ink
  <2>8. QED
    BY <2>6, <2>7, Zenon
<1>7. QED
  BY <1>5, <1>6

\* A stretch that begins and ends within a text.
LEMMA WithinIs ==
    ASSUME NEW X, NEW t \in Seq(X), NEW n \in Nat, n = Len(t), NEW a \in 1 .. n,
           NEW b \in 1 .. n, a <= b
    PROVE  \E o, w \in Nat : /\ o + 1 = a /\ o + w = b /\ w # 0
                             /\ SubSeq(t, a, b) \in Seq(X) /\ Len(SubSeq(t, a, b)) = w
                             /\ \A i \in 1 .. w : SubSeq(t, a, b)[i] = t[o + i]
<1>1. PICK o \in Nat : o + 1 = a
  <2>1. a - 1 \in Nat /\ (a - 1) + 1 = a
    OBVIOUS
  <2>2. QED
    BY <2>1
<1>2. PICK w \in Nat : o + w = b /\ w # 0
  <2>1. b - o \in Nat /\ o + (b - o) = b /\ b - o # 0
    BY <1>1
  <2>2. QED
    BY <2>1
<1>3. o + w <= n
  BY <1>2
<1>4. /\ SubSeq(t, o + 1, o + w) \in Seq(X) /\ Len(SubSeq(t, o + 1, o + w)) = w
      /\ \A i \in 1 .. w : SubSeq(t, o + 1, o + w)[i] = t[o + i]
  BY <1>3, StretchIs
<1>5. QED
  BY <1>1, <1>2, <1>4, Zenon

\* What a text of n units keeps when it is stripped to u: its names and its operators
\* still stand behind the backslashes they stood behind.
Survives(t, n, u) ==
    /\ Shielded(t, NamedAt(t, n)) => References(u) = {}
    /\ \A marks : Shielded(t, MarkedAt(t, n, marks)) => Shielded(u, MarkedAt(u, Len(u), marks))

\* Stripping takes no backslash away, because a backslash is no blank.
LEMMA StripShielded ==
    ASSUME NEW X, NEW t \in Seq(X), NEW n \in Nat, n = Len(t)
    PROVE  /\ Strip(t) \in Seq(X) /\ Survives(t, n, Strip(t)) /\ (Strip(t) = <<>> <=> Blanks(t, n))
           /\ RStrip(t) \in Seq(X) /\ Survives(t, n, RStrip(t)) /\ (RStrip(t) = <<>> <=> Blanks(t, n))
<1>1. CASE Blanks(t, n)
  <2>1. Strip(t) = <<>> /\ RStrip(t) = <<>>
    BY <1>1, StripIs
  <2>2. References(<<>>) = {} /\ <<>> \in Seq(X) /\ Len(<<>>) = 0
    BY DEF References
  <2>3. \A marks : MarkedAt(<<>>, 0, marks) = {}
    BY DEF MarkedAt
  <2>4. Survives(t, n, <<>>)
    BY <2>2, <2>3, Zenon DEF Survives, Shielded
  <2>5. QED
    BY <1>1, <2>1, <2>2, <2>4, Zenon
<1>2. CASE ~Blanks(t, n)
  <2>1. PICK a, b : Ink(t, n, a, b) /\ Strip(t) = SubSeq(t, a, b) /\ RStrip(t) = SubSeq(t, 1, b)
    BY <1>2, StripIs
  <2>2. /\ a \in 1 .. n /\ b \in 1 .. n /\ a <= b /\ t[a] # Blank
        /\ \A i \in 1 .. n : t[i] # Blank => a <= i /\ i <= b
    BY <2>1, Zenon DEF Ink
  <2>3. ASSUME NEW f \in 1 .. n, f <= b, f > 1 => t[f - 1] # "\\"
        PROVE  Survives(t, n, SubSeq(t, f, b)) /\ SubSeq(t, f, b) \in Seq(X) /\ SubSeq(t, f, b) # <<>>
    <3>1. PICK o \in Nat, w \in Nat : /\ o + 1 = f /\ o + w = b /\ w # 0
                             /\ SubSeq(t, f, b) \in Seq(X) /\ Len(SubSeq(t, f, b)) = w
                             /\ \A i \in 1 .. w : SubSeq(t, f, b)[i] = t[o + i]
      BY <2>2, <2>3, WithinIs
    <3> DEFINE u == SubSeq(t, f, b)
    <3>2. u \in Seq(X) /\ w = Len(u) /\ \A i \in 1 .. w : u[i] = t[o + i]
      BY <3>1, Zenon
    <3> HIDE DEF u
    <3>3. o # 0 => t[o] # "\\"
      <4>1. o # 0 => f > 1 /\ f - 1 = o
        BY <3>1
      <4>2. QED
        BY <2>3, <4>1
    <3>4. o + w <= n
      BY <2>2, <3>1
    <3>5. /\ Shielded(t, NamedAt(t, n)) => Shielded(u, NamedAt(u, w))
          /\ \A marks : Shielded(t, MarkedAt(t, n, marks)) => Shielded(u, MarkedAt(u, w, marks))
      BY <3>2, <3>3, <3>4, StretchShielded
    <3>6. References(u) = {} <=> Shielded(u, NamedAt(u, w))
      BY <3>2, ShieldsAre
    <3>7. u # <<>>
      BY <3>1, <3>2
    <3>8. Survives(t, n, u)
      BY <3>2, <3>5, <3>6, Zenon DEF Survives
    <3>9. QED
      BY <3>2, <3>7, <3>8 DEF u
  <2>4. a > 1 => t[a - 1] # "\\"
    <3> SUFFICES ASSUME a > 1 PROVE t[a - 1] # "\\"
      OBVIOUS
    <3>1. a - 1 \in 1 .. n /\ ~(a <= a - 1)
      BY <2>2
    <3>2. t[a - 1] = Blank
      BY <2>2, <3>1
    <3>3. QED
      BY <3>2, Units
  <2>5. Survives(t, n, SubSeq(t, a, b)) /\ SubSeq(t, a, b) \in Seq(X) /\ SubSeq(t, a, b) # <<>>
    BY <2>2, <2>3, <2>4
  <2>6. 1 \in 1 .. n /\ 1 <= b /\ ~(1 > 1)
    BY <2>2
  <2>7. Survives(t, n, SubSeq(t, 1, b)) /\ SubSeq(t, 1, b) \in Seq(X) /\ SubSeq(t, 1, b) # <<>>
    BY <2>3, <2>6
  <2>8. QED
    BY <1>2, <2>1, <2>5, <2>7, Zenon
<1>3. QED
  BY <1>1, <1>2

-----------------------------------------------------------------------------
\* Rows: splitting an expanded row.

\* H, then "::", an operator that ends the rule and a right-hand side: the text J of n units.
Row3(X, H, h, op, rhs, J, n) ==
    /\ J \in Seq(X) /\ n \in Nat /\ n = Len(J) /\ h + 2 <= n
    /\ \A i \in 1 .. h : J[i] = H[i]
    /\ J[h + 1] = "::" /\ J[h + 2] = op
    /\ SubSeq(J, h + 3, n) = rhs

\* A row that is put together has this form.
LEMMA JoinIs ==
    ASSUME NEW X, "::" \in X, NEW H \in Seq(X), NEW h \in Nat, h = Len(H), NEW op \in X,
           NEW rhs \in Seq(X)
    PROVE  \E n \in Nat : Row3(X, H, h, op, rhs, H \o <<"::", op>> \o rhs, n)
<1>1. PICK two \in Seq(X) : two = <<"::", op>> /\ Len(two) = 2 /\ two[1] = "::" /\ two[2] = op
  <2>1. PICK x \in X : x = "::"
    OBVIOUS
  <2>2. <<x, op>> \in Seq(X) /\ Len(<<x, op>>) = 2 /\ <<x, op>>[1] = x /\ <<x, op>>[2] = op
    OBVIOUS
  <2>3. QED
    BY <2>1, <2>2, Zenon
<1>2. PICK k \in Nat : k = Len(rhs)
  OBVIOUS
<1> DEFINE A == H \o two
<1>3. A \in Seq(X) /\ Len(A) = h + 2
      /\ \A i \in 1 .. h + 2 : A[i] = IF i <= h THEN H[i] ELSE two[i - h]
  BY <1>1, ConcatProperties
<1> HIDE DEF A
<1> DEFINE J == A \o rhs
<1>4. J \in Seq(X) /\ Len(J) = (h + 2) + k
      /\ \A i \in 1 .. (h + 2) + k : J[i] = IF i <= h + 2 THEN A[i] ELSE rhs[i - (h + 2)]
  <2>1. J \in Seq(X) /\ Len(J) = Len(A) + Len(rhs)
        /\ \A i \in 1 .. Len(A) + Len(rhs) : J[i] = IF i <= Len(A) THEN A[i] ELSE rhs[i - Len(A)]
    BY <1>3, ConcatProperties
  <2>2. Len(A) = h + 2 /\ Len(rhs) = k
    BY <1>2, <1>3, Zenon
  <2>3. QED
    BY <2>1, <2>2, Zenon
<1> HIDE DEF J
<1>5. PICK n \in Nat : n = (h + 2) + k
  OBVIOUS
<1>6. \A i \in 1 .. h + 2 : J[i] = A[i]
  BY <1>4
<1>7. \A i \in 1 .. h : J[i] = H[i]
  <2> SUFFICES ASSUME NEW i \in 1 .. h PROVE J[i] = H[i]
    OBVIOUS
  <2>1. i \in 1 .. h + 2 /\ i <= h
    OBVIOUS
  <2>2. QED
    BY <1>3, <1>6, <2>1
<1>8. J[h + 1] = "::" /\ J[h + 2] = op
  <2>1. h + 1 \in 1 .. h + 2 /\ ~(h + 1 <= h) /\ (h + 1) - h = 1
        /\ h + 2 \in 1 .. h + 2 /\ ~(h + 2 <= h) /\ (h + 2) - h = 2
    OBVIOUS
  <2>2. A[h + 1] = two[1] /\ A[h + 2] = two[2]
    BY <1>3, <2>1
  <2>3. J[h + 1] = A[h + 1] /\ J[h + 2] = A[h + 2]
    BY <1>6, <2>1
  <2>4. QED
    BY <1>1, <2>2, <2>3
<1>9. SubSeq(J, h + 3, n) = rhs
  <2>1. PICK b \in Nat : b = h + 2
    OBVIOUS
  <2>2. b + 1 = h + 3 /\ b + k = n /\ b + k <= n /\ n = Len(J)
    BY <1>4, <1>5, <2>1
  <2> DEFINE u == SubSeq(J, b + 1, b + k)
  <2>3. u \in Seq(X) /\ Len(u) = k /\ \A i \in 1 .. k : u[i] = J[b + i]
    BY <1>4, <2>2, StretchIs
  <2> HIDE DEF u
  <2>4. \A i \in 1 .. k : J[b + i] = rhs[i]
    <3> SUFFICES ASSUME NEW i \in 1 .. k PROVE J[b + i] = rhs[i]
      OBVIOUS
    <3>1. b + i \in 1 .. (h + 2) + k /\ ~(b + i <= h + 2) /\ (b + i) - (h + 2) = i
      BY <2>1
    <3>2. QED
      BY <1>4, <3>1
  <2>5. \A i \in 1 .. Len(u) : u[i] = rhs[i]
    BY <2>3, <2>4
  <2>6. u = rhs
    BY <1>2, <2>3, <2>5, SeqEqual
  <2>7. QED
    BY <2>2, <2>6, Zenon DEF u
<1>10. h + 2 <= n
  BY <1>5
<1>11. J = H \o <<"::", op>> \o rhs
  BY <1>1, Zenon DEF A, J
<1>12. n = Len(J)
  BY <1>4, <1>5
<1>13. Row3(X, H, h, op, rhs, J, n)
  BY <1>4, <1>7, <1>8, <1>9, <1>10, <1>12, Zenon DEF Row3
<1>14. QED
  BY <1>11, <1>13, Zenon

\* It is cut where H ends.
LEMMA CutBehind ==
    ASSUME NEW X, NEW H, NEW h \in Nat, NEW op \in Terminal, NEW rhs, NEW J, NEW n \in Nat,
           Row3(X, H, h, op, rhs, J, n), Quiet(H, h), ~Unfinished(H, h)
    PROVE  /\ Cut(J, n, Terminal, h + 1)
           /\ \A q : Cut(J, n, Terminal, q) => h + 1 <= q
<1>1. /\ n = Len(J) /\ h + 2 <= n /\ J[h + 1] = "::" /\ J[h + 2] = op
      /\ \A i \in 1 .. h : J[i] = H[i]
  BY Zenon DEF Row3
<1>2. Cut(J, n, Terminal, h + 1)
  <2>1. h + 1 \in 1 .. n /\ (h + 1) + 1 \in 1 .. n /\ (h + 1) + 1 = h + 2 /\ (h + 1) - 1 = h
    BY <1>1
  <2>2. h + 1 > 1 => J[(h + 1) - 1] # "\\"
    <3> SUFFICES ASSUME h + 1 > 1 PROVE J[h] # "\\"
      BY <2>1, Zenon
    <3>1. h # 0 /\ h \in 1 .. h
      OBVIOUS
    <3>2. H[h] # "\\"
      BY <3>1, Zenon DEF Unfinished
    <3>3. QED
      BY <1>1, <3>1, <3>2, Zenon
  <2>3. QED
    BY <1>1, <2>1, <2>2, Zenon DEF Cut
<1>3. ASSUME NEW q, Cut(J, n, Terminal, q), ~(h + 1 <= q) PROVE FALSE
  <2>1. q \in 1 .. n /\ q + 1 \in 1 .. n /\ J[q] = "::" /\ J[q + 1] \in Terminal /\ (q > 1 => J[q - 1] # "\\")
    BY <1>3, Zenon DEF Cut
  <2>2. q \in 1 .. h /\ J[q] = H[q]
    BY <1>1, <1>3, <2>1
  <2>3. q # h
    <3>1. J[h + 1] \notin Terminal
      BY <1>1 DEF Terminal
    <3>2. QED
      BY <2>1, <3>1
  <2>4. q + 1 \in 1 .. h
    BY <2>2, <2>3
  <2>5. J[q + 1] = H[q + 1]
    BY <1>1, <2>4, Zenon
  <2>6. q \in MarkedAt(H, h, Terminal)
    BY <2>1, <2>2, <2>4, <2>5, Zenon DEF MarkedAt
  <2>7. q > 1 /\ H[q - 1] = "\\"
    BY <2>6, Zenon DEF Quiet, Shielded
  <2>8. q - 1 \in 1 .. h
    BY <2>2, <2>7
  <2>9. J[q - 1] = H[q - 1]
    BY <1>1, <2>8, Zenon
  <2>10. QED
    BY <2>1, <2>7, <2>9, Zenon
<1>4. QED
  BY <1>2, <1>3, Zenon

\* It is cut again where it was put together, when nothing in front of it is cut.
LEMMA Resplit ==
    ASSUME NEW X, NEW H, NEW h \in Nat, NEW op \in Terminal, NEW rhs, NEW J \in Seq(X),
           NEW n \in Nat,
           Row3(X, H, h, op, rhs, J, n), Quiet(H, h), ~Unfinished(H, h)
    PROVE  \E c, m : RowCut(J, n, c, m, h + 1) /\ split_rule_line(J) = CutAt(J, c)
<1>1. n = Len(J)
  BY Zenon DEF Row3
<1>2. /\ Cut(J, n, Terminal, h + 1)
      /\ \A q : Cut(J, n, Terminal, q) => h + 1 <= q
  BY CutBehind
<1>3. TerminalAt(J) # {}
  <2>1. h + 1 \in TerminalAt(J)
    BY <1>1, <1>2, CutsAre
  <2>2. QED
    BY <2>1, Zenon
<1>4. PICK c, m, q : RowCut(J, n, c, m, q) /\ split_rule_line(J) = CutAt(J, c)
  BY <1>1, <1>3, RowIsCut
<1>5. q = h + 1
  <2>1. q \in 1 .. n /\ Cut(J, n, Terminal, q) /\ \A i : Cut(J, n, Terminal, i) => q <= i
    BY <1>4, Zenon DEF RowCut
  <2>2. q <= h + 1 /\ h + 1 <= q
    BY <1>2, <2>1, Zenon
  <2>3. QED
    BY <2>1, <2>2
<1>6. QED
  BY <1>4, <1>5, Zenon

\* The parts of a row have no name left, when what stands before the operator that ends it has none.
LEMMA ResplitParts ==
    ASSUME NEW X, NEW H, NEW h \in Nat, NEW op, NEW rhs, NEW J \in Seq(X), NEW n \in Nat,
           Row3(X, H, h, op, rhs, J, n), Shielded(H, NamedAt(H, h)),
           NEW c, NEW m, RowCut(J, n, c, m, h + 1), NEW b, NEW w, NEW P,
           Sliced(J, c, m, b, w, P),
           NEW k \in 1 .. m
    PROVE  /\ P[k] \in Seq(X) /\ Len(P[k]) = w[k] /\ w[k] \in Nat
           /\ Shielded(P[k], NamedAt(P[k], w[k]))
<1>1. m \in Nat /\ m # 0 /\ c[k] \in 1 .. h + 1
  BY Zenon DEF RowCut
<1>2. b[k] \in Nat /\ w[k] \in Nat /\ c[k] = b[k] + w[k] + 1 /\ P[k] = SubSeq(J, b[k] + 1, b[k] + w[k])
  BY Zenon DEF Sliced
<1>3. /\ n = Len(J) /\ h + 2 <= n /\ \A i \in 1 .. h : J[i] = H[i]
  BY Zenon DEF Row3
<1>4. PICK v \in Nat : v = w[k]
  BY <1>2
<1>5. PICK o \in Nat : o = b[k]
  BY <1>2
<1>6. o + v <= h /\ o + v <= n
  <2>1. c[k] \in Nat /\ c[k] <= h + 1 /\ c[k] = o + v + 1
    BY <1>1, <1>2, <1>4, <1>5
  <2>2. QED
    BY <1>3, <2>1
<1> DEFINE t == SubSeq(J, o + 1, o + v)
<1>7. t \in Seq(X) /\ Len(t) = v /\ \A i \in 1 .. v : t[i] = J[o + i]
  BY <1>3, <1>6, StretchIs
<1>8. P[k] = t
  BY <1>2, <1>4, <1>5, Zenon
<1> HIDE DEF t
<1>9. \A i \in 1 .. v : t[i] = H[o + i]
  <2>1. \A i \in 1 .. v : o + i \in 1 .. h
    BY <1>6
  <2>2. QED
    BY <1>3, <1>7, <2>1
<1>10. o # 0 => H[o] # "\\"
  <2> SUFFICES ASSUME o # 0 PROVE H[o] # "\\"
    OBVIOUS
  <2>1. k # 1
    <3>1. b[1] = 0
      BY Zenon DEF Sliced
    <3>2. QED
      BY <1>5, <3>1
  <2>2. PICK l \in 1 .. m : l + 1 = k
    <3>1. k - 1 \in 1 .. m /\ (k - 1) + 1 = k
      BY <1>1, <2>1
    <3>2. QED
      BY <3>1
  <2>3. b[l + 1] = c[l] + 1
    BY <2>2, Zenon DEF Sliced
  <2>4. J[c[l] + 1] \in Mark
    BY Zenon DEF RowCut, Cut
  <2>5. J[o] \in Mark
    BY <1>5, <2>2, <2>3, <2>4, Zenon
  <2>6. o \in 1 .. h
    BY <1>6
  <2>7. H[o] \in Mark
    BY <1>3, <2>5, <2>6, Zenon
  <2>8. QED
    BY <2>7, Units
<1>11. Shielded(t, NamedAt(t, v))
  BY <1>6, <1>9, <1>10, StretchShielded
<1>12. QED
  BY <1>4, <1>7, <1>8, <1>11, Zenon

-----------------------------------------------------------------------------
\* Rows: what stands before the operator that ends an expanded row.

\* A text of n units that another can follow.
Steady(X, s, n) == s \in Seq(X) /\ n \in Nat /\ n = Len(s) /\ Quiet(s, n) /\ ~Unfinished(s, n)

\* A text u of k units that begins with s, and goes on with an operator.
Leads(s, n, u, k) ==
    /\ n <= k /\ \A i \in 1 .. n : u[i] = s[i]
    /\ k # n => n + 2 <= k /\ u[n + 1] = "::" /\ u[n + 2] = "|"

\* A steady part is steady behind its "::|".
LEMMA MarkedStep ==
    ASSUME NEW X, "::" \in X, "|" \in X, NEW e, NEW n, Steady(X, e, n)
    PROVE  /\ Steady(X, <<"::", "|">> \o e, n + 2)
           /\ (<<"::", "|">> \o e)[1] = "::" /\ (<<"::", "|">> \o e)[2] = "|"
<1>1. e \in Seq(X) /\ n \in Nat /\ n = Len(e) /\ Quiet(e, n) /\ ~Unfinished(e, n)
  BY Zenon DEF Steady
<1>2. PICK two \in Seq(X) : two = <<"::", "|">> /\ Len(two) = 2 /\ two[1] = "::" /\ two[2] = "|"
  <2>1. PICK x \in X, y \in X : x = "::" /\ y = "|"
    OBVIOUS
  <2>2. <<x, y>> \in Seq(X) /\ Len(<<x, y>>) = 2 /\ <<x, y>>[1] = x /\ <<x, y>>[2] = y
    OBVIOUS
  <2>3. QED
    BY <2>1, <2>2, Zenon
<1> DEFINE t == two \o e
<1>3. t \in Seq(X) /\ Len(t) = 2 + n /\ \A i \in 1 .. 2 + n : t[i] = IF i <= 2 THEN two[i] ELSE e[i - 2]
  <2>1. t \in Seq(X) /\ Len(t) = Len(two) + Len(e)
        /\ \A i \in 1 .. Len(two) + Len(e) : t[i] = IF i <= Len(two) THEN two[i] ELSE e[i - Len(two)]
    BY <1>1, ConcatProperties
  <2>2. QED
    BY <1>1, <1>2, <2>1, Zenon
<1> HIDE DEF t
<1>4. t[1] = "::" /\ t[2] = "|"
  BY <1>1, <1>2, <1>3
<1>5. \A i \in 1 .. n : t[2 + i] = e[i]
  <2> SUFFICES ASSUME NEW i \in 1 .. n PROVE t[2 + i] = e[i]
    OBVIOUS
  <2>1. 2 + i \in 1 .. 2 + n /\ ~(2 + i <= 2) /\ (2 + i) - 2 = i
    BY <1>1
  <2>2. QED
    BY <1>3, <2>1
<1>6. \A i \in 1 .. 2 + n : i = 1 \/ i = 2 \/ \E j \in 1 .. n : i = 2 + j
  <2> SUFFICES ASSUME NEW i \in 1 .. 2 + n, i # 1, i # 2 PROVE \E j \in 1 .. n : i = 2 + j
    OBVIOUS
  <2>1. i - 2 \in 1 .. n /\ i = 2 + (i - 2)
    BY <1>1
  <2>2. QED
    BY <2>1
<1>7. PICK len \in Nat : len = 2 + n /\ len = n + 2
  BY <1>1
<1>8. Inside(e, t, 2, n, NamedAt(e, n), NamedAt(t, len))
  <2> SUFFICES ASSUME NEW i \in NamedAt(t, len)
               PROVE  \E j \in 1 .. n : j \in NamedAt(e, n) /\ i = 2 + j
    BY <1>5, Zenon DEF Inside
  <2>1. i \in 1 .. 2 + n /\ t[i] \in AliasName
    BY <1>7 DEF NamedAt
  <2>2. i # 1 /\ i # 2
    BY <1>4, <2>1, Units
  <2>3. PICK j \in 1 .. n : i = 2 + j
    BY <1>6, <2>1, <2>2
  <2>4. e[j] \in AliasName
    BY <1>5, <2>1, <2>3, Zenon
  <2>5. QED
    BY <2>3, <2>4 DEF NamedAt
<1>9. Inside(e, t, 2, n, MarkedAt(e, n, Terminal), MarkedAt(t, len, Terminal))
  <2> SUFFICES ASSUME NEW i \in MarkedAt(t, len, Terminal)
               PROVE  \E j \in 1 .. n : j \in MarkedAt(e, n, Terminal) /\ i = 2 + j
    BY <1>5, Zenon DEF Inside
  <2>1. i \in 1 .. 2 + n /\ i + 1 \in 1 .. 2 + n /\ t[i] = "::" /\ t[i + 1] \in Terminal
    BY <1>7 DEF MarkedAt
  <2>2. "|" # "::" /\ "|" \notin Terminal
    BY DEF Terminal
  <2>3. i # 2 /\ i # 1 /\ i + 1 # 1 /\ i + 1 # 2
    <3>1. i # 2
      BY <1>4, <2>1, <2>2, Zenon
    <3>2. i + 1 # 2
      BY <1>4, <2>1, <2>2, Zenon
    <3>3. QED
      BY <1>1, <2>1, <3>1, <3>2
  <2>4. PICK j \in 1 .. n : i = 2 + j
    BY <1>6, <2>1, <2>3
  <2>5. PICK k \in 1 .. n : i + 1 = 2 + k
    BY <1>6, <2>1, <2>3
  <2>6. k = j + 1
    BY <1>1, <2>4, <2>5
  <2>7. e[j] = "::" /\ e[j + 1] \in Terminal /\ j + 1 \in 1 .. n
    <3>1. e[k] \in Terminal
      BY <1>5, <2>1, <2>5, Zenon
    <3>2. e[j] = "::"
      BY <1>5, <2>1, <2>4, Zenon
    <3>3. QED
      BY <2>6, <3>1, <3>2, Zenon
  <2>8. QED
    BY <2>4, <2>7 DEF MarkedAt
<1>10. Quiet(t, len)
  <2>1. Shielded(e, NamedAt(e, n)) /\ Shielded(e, MarkedAt(e, n, Terminal)) /\ n \in Nat
    BY <1>1, Zenon DEF Quiet
  <2>2. 2 \in Nat
    OBVIOUS
  <2>3. Shielded(t, NamedAt(t, len))
    BY <1>8, <2>1, <2>2, InsideShielded
  <2>4. Shielded(t, MarkedAt(t, len, Terminal))
    BY <1>9, <2>1, <2>2, InsideShielded
  <2>5. QED
    BY <2>3, <2>4, Zenon DEF Quiet
<1>11. ~Unfinished(t, len)
  <2> SUFFICES t[len] # "\\"
    BY DEF Unfinished
  <2>1. CASE n = 0
    <3>1. len = 2
      BY <1>7, <2>1
    <3>2. QED
      BY <1>4, <3>1
  <2>2. CASE n # 0
    <3>1. n \in 1 .. n /\ len = 2 + n
      BY <1>1, <1>7, <2>2
    <3>2. t[len] = e[n]
      BY <1>5, <3>1, Zenon
    <3>3. e[n] # "\\"
      BY <1>1, <2>2, Zenon DEF Unfinished
    <3>4. QED
      BY <3>2, <3>3, Zenon
  <2>3. QED
    BY <2>1, <2>2
<1>12. Steady(X, t, n + 2)
  <2>1. Len(t) = len /\ n + 2 = len
    BY <1>3, <1>7, Zenon
  <2>2. QED
    BY <1>3, <1>7, <1>10, <1>11, <2>1, Zenon DEF Steady
<1>13. t = <<"::", "|">> \o e
  BY <1>2, Zenon DEF t
<1>14. QED
  BY <1>4, <1>12, <1>13, Zenon

\* A steady text goes on with a steady step.
LEMMA LeftStep ==
    ASSUME NEW X, NEW s, NEW m, Steady(X, s, m), NEW t, NEW n, Steady(X, t, n), n > 1, t[1] = "::", t[2] = "|"
    PROVE  Steady(X, s \o t, m + n) /\ Leads(s, m, s \o t, m + n)
<1>1. /\ s \in Seq(X) /\ m \in Nat /\ m = Len(s) /\ Quiet(s, m)
      /\ t \in Seq(X) /\ n \in Nat /\ n = Len(t) /\ Quiet(t, n) /\ ~Unfinished(t, n)
  BY Zenon DEF Steady
<1> DEFINE u == s \o t
<1>2. u \in Seq(X) /\ Len(u) = m + n /\ \A i \in 1 .. m + n : u[i] = IF i <= m THEN s[i] ELSE t[i - m]
  <2>1. u \in Seq(X) /\ Len(u) = Len(s) + Len(t)
        /\ \A i \in 1 .. Len(s) + Len(t) : u[i] = IF i <= Len(s) THEN s[i] ELSE t[i - Len(s)]
    BY <1>1, ConcatProperties
  <2>2. QED
    BY <1>1, <2>1, Zenon
<1> HIDE DEF u
<1>3. \A i \in 1 .. m : u[i] = s[i]
  <2> SUFFICES ASSUME NEW i \in 1 .. m PROVE u[i] = s[i]
    OBVIOUS
  <2>1. i \in 1 .. m + n /\ i <= m
    BY <1>1
  <2>2. QED
    BY <1>2, <2>1
<1>4. \A i \in 1 .. n : u[m + i] = t[i]
  <2> SUFFICES ASSUME NEW i \in 1 .. n PROVE u[m + i] = t[i]
    OBVIOUS
  <2>1. m + i \in 1 .. m + n /\ ~(m + i <= m) /\ (m + i) - m = i
    BY <1>1
  <2>2. QED
    BY <1>2, <2>1
<1>5. u[m + 1] = "::" /\ u[m + 2] = "|" /\ m + 2 <= m + n
  <2>1. 1 \in 1 .. n /\ 2 \in 1 .. n /\ m + 2 <= m + n
    BY <1>1
  <2>2. QED
    BY <1>4, <2>1
<1>6. Chained(s, t, u, m, n, NamedAt(s, m), NamedAt(t, n), NamedAt(u, m + n))
  <2>1. \A i \in NamedAt(u, m + n) : i \in 1 .. m + n
    BY DEF NamedAt
  <2>2. ASSUME NEW i \in NamedAt(u, m + n), i <= m PROVE i \in NamedAt(s, m)
    <3>1. i \in 1 .. m /\ u[i] \in AliasName
      BY <1>1, <2>2 DEF NamedAt
    <3>2. QED
      BY <1>3, <3>1, Zenon DEF NamedAt
  <2>3. ASSUME NEW i \in 1 .. n, m + i \in NamedAt(u, m + n) PROVE i \in NamedAt(t, n)
    <3>1. u[m + i] \in AliasName
      BY <2>3 DEF NamedAt
    <3>2. QED
      BY <1>4, <3>1, Zenon DEF NamedAt
  <2>4. QED
    BY <1>3, <1>4, <2>1, <2>2, <2>3, Zenon DEF Chained
<1>7. Chained(s, t, u, m, n, MarkedAt(s, m, Terminal), MarkedAt(t, n, Terminal), MarkedAt(u, m + n, Terminal))
  <2>1. \A i \in MarkedAt(u, m + n, Terminal) : i \in 1 .. m + n
    BY DEF MarkedAt
  <2>2. ASSUME NEW i \in MarkedAt(u, m + n, Terminal), i <= m PROVE i \in MarkedAt(s, m, Terminal)
    <3>1. i \in 1 .. m + n /\ u[i] = "::" /\ u[i + 1] \in Terminal
      BY DEF MarkedAt
    <3>2. "::" \notin Terminal
      BY DEF Terminal
    <3>3. i # m
      BY <1>5, <3>1, <3>2
    <3>4. i \in 1 .. m /\ i + 1 \in 1 .. m
      BY <1>1, <2>2, <3>1, <3>3
    <3>5. s[i] = "::" /\ s[i + 1] \in Terminal
      BY <1>3, <3>1, <3>4, Zenon
    <3>6. QED
      BY <3>4, <3>5, Zenon DEF MarkedAt
  <2>3. ASSUME NEW i \in 1 .. n, m + i \in MarkedAt(u, m + n, Terminal) PROVE i \in MarkedAt(t, n, Terminal)
    <3>1. (m + i) + 1 \in 1 .. m + n /\ u[m + i] = "::" /\ u[(m + i) + 1] \in Terminal
      BY <2>3 DEF MarkedAt
    <3>2. (m + i) + 1 = m + (i + 1) /\ i + 1 \in 1 .. n
      BY <1>1, <3>1
    <3>3. t[i] = "::"
      BY <1>4, <3>1, Zenon
    <3>4. u[m + (i + 1)] = t[i + 1]
      BY <1>4, <3>2, Zenon
    <3>5. t[i + 1] \in Terminal
      BY <3>1, <3>2, <3>4, Zenon
    <3>6. QED
      BY <3>2, <3>3, <3>5, Zenon DEF MarkedAt
  <2>4. QED
    BY <1>3, <1>4, <2>1, <2>2, <2>3, Zenon DEF Chained
<1>8. Quiet(u, m + n)
  <2>1. /\ Shielded(s, NamedAt(s, m)) /\ Shielded(s, MarkedAt(s, m, Terminal)) /\ m \in Nat
        /\ Shielded(t, NamedAt(t, n)) /\ Shielded(t, MarkedAt(t, n, Terminal)) /\ n \in Nat
    BY <1>1, Zenon DEF Quiet
  <2>2. Shielded(u, NamedAt(u, m + n))
    BY <1>6, <2>1, ChainShielded
  <2>3. Shielded(u, MarkedAt(u, m + n, Terminal))
    BY <1>7, <2>1, ChainShielded
  <2>4. QED
    BY <2>2, <2>3, Zenon DEF Quiet
<1>9. ~Unfinished(u, m + n)
  <2>1. n \in 1 .. n /\ n # 0
    BY <1>1
  <2>2. u[m + n] = t[n]
    BY <1>4, <2>1
  <2>3. t[n] # "\\"
    BY <1>1, <2>1, Zenon DEF Unfinished
  <2>4. QED
    BY <2>2, <2>3, Zenon DEF Unfinished
<1>10. m + n \in Nat /\ m <= m + n
  BY <1>1
<1>11. Steady(X, u, m + n)
  BY <1>2, <1>8, <1>9, <1>10, Zenon DEF Steady
<1>12. Leads(s, m, u, m + n)
  BY <1>3, <1>5, <1>10, Zenon DEF Leads
<1>13. QED
  BY <1>11, <1>12 DEF u

-----------------------------------------------------------------------------
\* Rows: the expanded parts of a row, one behind the other.

\* An expanded part.
LEMMA ExpandedLeft ==
    ASSUME NEW X, NEW text \in Seq(X), NEW n \in Nat, n = Len(text), NEW al,
           Known(X, text, n, al),
           Shielded(text, MarkedAt(text, n, Terminal)), ~Unfinished(text, n)
    PROVE  \E e \in Nat : Steady(X, Expanded(text, al), e)
<1> DEFINE E == Expanded(text, al)
<1>1. E \in Seq(X)
  BY ExpandedSpreads
<1>2. PICK off, w, e : e \in Nat /\ e = Len(E) /\ Spread(text, n, al, E, e, off, w)
  BY ExpandedSpreads
<1> HIDE DEF E
<1>3. Shielded(E, NamedAt(E, e))
  BY <1>2, ExpandedNames
<1>4. Shielded(E, MarkedAt(E, e, Terminal))
  BY <1>2, ExpandedMarks
<1>5. ~Unfinished(E, e)
  BY <1>2, ExpandedEnds
<1>6. Steady(X, E, e)
  BY <1>1, <1>2, <1>3, <1>4, <1>5, Zenon DEF Steady, Quiet
<1>7. QED
  BY <1>2, <1>6, Zenon DEF E

\* What begins a beginning begins the whole.
LEMMA LeadsOn ==
    ASSUME NEW s, NEW l \in Nat, NEW t, NEW m \in Nat, NEW u, NEW n \in Nat, Leads(s, l, t, m),
           Leads(t, m, u, n)
    PROVE  Leads(s, l, u, n)
<1>1. l <= m /\ m <= n /\ l <= n
  BY DEF Leads
<1>2. \A i \in 1 .. m : u[i] = t[i]
  BY Zenon DEF Leads
<1>3. \A i \in 1 .. l : u[i] = s[i]
  <2> SUFFICES ASSUME NEW i \in 1 .. l PROVE u[i] = s[i]
    OBVIOUS
  <2>1. i \in 1 .. m
    BY <1>1
  <2>2. t[i] = s[i]
    BY Zenon DEF Leads
  <2>3. QED
    BY <1>2, <2>1, <2>2, Zenon
<1>4. ASSUME n # l PROVE l + 2 <= n /\ u[l + 1] = "::" /\ u[l + 2] = "|"
  <2>1. CASE l = m
    BY <1>4, <2>1 DEF Leads
  <2>2. CASE l # m
    <3>1. l + 2 <= m /\ t[l + 1] = "::" /\ t[l + 2] = "|"
      BY <2>2, Zenon DEF Leads
    <3>2. l + 1 \in 1 .. m /\ l + 2 \in 1 .. m /\ l + 2 <= n
      BY <1>1, <3>1
    <3>3. QED
      BY <1>2, <3>1, <3>2, Zenon
  <2>3. QED
    BY <2>1, <2>2
<1>5. QED
  BY <1>1, <1>3, <1>4, Zenon DEF Leads

\* A left-hand side and the steps behind it.
Following(X, s, l, u) == \E n \in Nat : Steady(X, u, n) /\ Leads(s, l, u, n)

\* A left-hand side goes on with all its steps.
LEMMA StepsLeft ==
    ASSUME NEW X, "::" \in X, "|" \in X, NEW s, NEW l, Steady(X, s, l), NEW m \in Nat, NEW mids,
           DOMAIN mids = 1 .. m,
           \A k \in 1 .. m : \E n \in Nat : Steady(X, mids[k], n)
    PROVE  Following(X, s, l, s \o FlattenSeq([k \in DOMAIN mids |-> <<"::", "|">> \o mids[k]]))
<1> DEFINE ss == [k \in 1 .. m |-> <<"::", "|">> \o mids[k]]
<1>1. s \in Seq(X) /\ l \in Nat
  BY Zenon DEF Steady
<1>2. ASSUME NEW k \in 1 .. m
      PROVE  /\ ss[k] \in Seq(X)
             /\ \E n \in Nat : Steady(X, ss[k], n) /\ n > 1 /\ ss[k][1] = "::" /\ ss[k][2] = "|"
  <2>1. PICK n \in Nat : Steady(X, mids[k], n)
    OBVIOUS
  <2>2. /\ Steady(X, <<"::", "|">> \o mids[k], n + 2)
        /\ (<<"::", "|">> \o mids[k])[1] = "::" /\ (<<"::", "|">> \o mids[k])[2] = "|"
    BY <2>1, MarkedStep
  <2>3. ss[k] = <<"::", "|">> \o mids[k]
    OBVIOUS
  <2>4. n + 2 \in Nat /\ n + 2 > 1
    OBVIOUS
  <2> HIDE DEF ss
  <2>5. Steady(X, ss[k], n + 2) /\ ss[k][1] = "::" /\ ss[k][2] = "|"
    BY <2>2, <2>3, Zenon
  <2>6. QED
    BY <2>4, <2>5, Zenon DEF Steady
<1>3. ss = [k \in DOMAIN mids |-> <<"::", "|">> \o mids[k]]
  OBVIOUS
<1>4. ss \in Seq(Seq(X)) /\ Len(ss) = m /\ DOMAIN ss = 1 .. m
  <2>1. \A k \in 1 .. m : ss[k] \in Seq(X)
    BY <1>2
  <2>2. DOMAIN ss = 1 .. m
    OBVIOUS
  <2>3. ss = [k \in 1 .. m |-> ss[k]]
    OBVIOUS
  <2> HIDE DEF ss
  <2>4. ss \in [1 .. m -> Seq(X)]
    BY <2>1, <2>3, Zenon
  <2>5. QED
    BY <2>2, <2>4, SeqDef, LenProperties
<1> HIDE DEF ss
<1>5. CASE m = 0
  <2>1. ss = <<>>
    BY <1>4, <1>5, EmptySeq
  <2>2. FlattenSeq(ss) = <<>>
    BY <2>1 DEF FlattenSeq
  <2>3. s \o FlattenSeq(ss) = s
    BY <1>1, <2>2, ConcatEmptySeq
  <2>4. Leads(s, l, s, l)
    BY <1>1 DEF Leads
  <2>5. Following(X, s, l, s)
    BY <1>1, <2>4, Zenon DEF Following
  <2>6. QED
    BY <1>3, <2>3, <2>5, Zenon
<1>6. CASE m # 0
  <2>1. PICK g \in [1 .. m -> Seq(X)] : FlattenSeq(ss) = g[m] /\ Flattens(ss, m, g)
    <3>1. Len(ss) # 0
      BY <1>4, <1>6
    <3>2. \E g \in [1 .. Len(ss) -> Seq(X)] : FlattenSeq(ss) = g[Len(ss)] /\ Flattens(ss, Len(ss), g)
      BY <1>4, <3>1, FlattenExists
    <3>3. QED
      BY <1>4, <3>2, Zenon
  <2>2. g[1] = ss[1] /\ 1 \in 1 .. m
    <3>1. 1 \in 1 .. m
      BY <1>6
    <3>2. g[1] = IF 1 = 1 THEN ss[1] ELSE g[1 - 1] \o ss[1]
      BY <2>1, <3>1, Zenon DEF Flattens
    <3>3. QED
      BY <3>1, <3>2, Zenon
  <2>3. \A k \in 1 .. m : k + 1 \in 1 .. m => g[k + 1] = g[k] \o ss[k + 1]
    <3> SUFFICES ASSUME NEW k \in 1 .. m, k + 1 \in 1 .. m PROVE g[k + 1] = g[k] \o ss[k + 1]
      OBVIOUS
    <3>1. k + 1 # 1 /\ (k + 1) - 1 = k
      OBVIOUS
    <3>2. g[k + 1] = IF k + 1 = 1 THEN ss[k + 1] ELSE g[(k + 1) - 1] \o ss[k + 1]
      BY <2>1, Zenon DEF Flattens
    <3>3. QED
      BY <3>1, <3>2, Zenon
  <2> DEFINE T == { k \in Nat : k + 1 <= m => Following(X, s, l, s \o g[k + 1]) }
  <2>4. 0 \in T
    <3>1. PICK n \in Nat : Steady(X, ss[1], n) /\ n > 1 /\ ss[1][1] = "::" /\ ss[1][2] = "|"
      BY <1>2, <2>2
    <3>2. Steady(X, s \o ss[1], l + n) /\ Leads(s, l, s \o ss[1], l + n)
      BY <3>1, LeftStep
    <3>3. l + n \in Nat
      BY <1>1
    <3>4. Following(X, s, l, s \o g[1])
      BY <2>2, <3>2, <3>3, Zenon DEF Following
    <3>5. QED
      BY <3>4
  <2>5. ASSUME NEW k \in Nat, k \in T PROVE k + 1 \in T
    <3> SUFFICES ASSUME (k + 1) + 1 <= m PROVE Following(X, s, l, s \o g[(k + 1) + 1])
      OBVIOUS
    <3>1. k + 1 \in 1 .. m /\ (k + 1) + 1 \in 1 .. m /\ k + 1 <= m
      OBVIOUS
    <3>2. Following(X, s, l, s \o g[k + 1])
      BY <2>5, <3>1
    <3> HIDE DEF T
    <3>3. PICK j \in 1 .. m : j = (k + 1) + 1
      BY <3>1
    <3>4. PICK i \in 1 .. m : i = k + 1
      BY <3>1
    <3>5. g[j] = g[i] \o ss[j] /\ g[i] \in Seq(X) /\ ss[j] \in Seq(X)
      <4>1. g[i + 1] = g[i] \o ss[i + 1]
        BY <2>3, <3>1, <3>4, Zenon
      <4>2. QED
        BY <1>2, <3>3, <3>4, <4>1, Zenon
    <3>6. PICK h \in Nat : Steady(X, s \o g[i], h) /\ Leads(s, l, s \o g[i], h)
      BY <3>2, <3>4, Zenon DEF Following
    <3>7. PICK n \in Nat : Steady(X, ss[j], n) /\ n > 1 /\ ss[j][1] = "::" /\ ss[j][2] = "|"
      BY <1>2
    <3>8. Steady(X, (s \o g[i]) \o ss[j], h + n) /\ Leads(s \o g[i], h, (s \o g[i]) \o ss[j], h + n)
      BY <3>6, <3>7, LeftStep
    <3>9. h + n \in Nat
      OBVIOUS
    <3>10. (s \o g[i]) \o ss[j] = s \o g[j]
      <4>1. \A u, v, t \in Seq(X) : (u \o v) \o t = u \o (v \o t)
        BY ConcatAssociative
      <4>2. (s \o g[i]) \o ss[j] = s \o (g[i] \o ss[j])
        BY <1>1, <3>5, <4>1, Zenon
      <4>3. QED
        BY <3>5, <4>2, Zenon
    <3>11. Leads(s, l, (s \o g[i]) \o ss[j], h + n)
      BY <1>1, <3>6, <3>8, <3>9, LeadsOn
    <3>12. Following(X, s, l, s \o g[j])
      BY <3>8, <3>9, <3>10, <3>11, Zenon DEF Following
    <3>13. QED
      BY <3>3, <3>12, Zenon
  <2>6. \A k \in Nat : k \in T
    <3> HIDE DEF T
    <3>1. QED
      BY <2>4, <2>5, Inductive
  <2>7. PICK k \in Nat : k + 1 = m
    <3>1. m - 1 \in Nat /\ (m - 1) + 1 = m
      BY <1>6
    <3>2. QED
      BY <3>1
  <2>8. Following(X, s, l, s \o g[k + 1])
    BY <2>6, <2>7
  <2>9. QED
    BY <1>3, <2>1, <2>7, <2>8, Zenon
<1>7. QED
  BY <1>5, <1>6

-----------------------------------------------------------------------------
\* Rows: the first part of an expanded row.

\* It ends within what the first part of the row expands to.
LEMMA FirstCut ==
    ASSUME NEW X, NEW E, NEW e, Steady(X, E, e), NEW H, NEW h \in Nat, Leads(E, e, H, h),
           NEW op, NEW rhs, NEW J, NEW n \in Nat, Row3(X, H, h, op, rhs, J, n),
           NEW c, NEW m, RowCut(J, n, c, m, h + 1)
    PROVE  /\ \A i \in 1 .. e : J[i] = E[i]
           /\ J[e + 1] = "::" /\ e \in Nat /\ e + 1 \in Nat
           /\ c[1] \in Nat /\ c[1] # 0 /\ c[1] <= e + 1 /\ Cut(J, n, Mark, c[1])
<1>1. e \in Nat /\ ~Unfinished(E, e)
  BY Zenon DEF Steady
<1>2. e <= h /\ \A i \in 1 .. e : H[i] = E[i]
  BY Zenon DEF Leads
<1>3. h + 2 <= n /\ J[h + 1] = "::" /\ \A i \in 1 .. h : J[i] = H[i]
  BY Zenon DEF Row3
<1>4. \A i \in 1 .. e : J[i] = E[i]
  <2> SUFFICES ASSUME NEW i \in 1 .. e PROVE J[i] = E[i]
    OBVIOUS
  <2>1. i \in 1 .. h
    BY <1>1, <1>2
  <2>2. QED
    BY <1>2, <1>3, <2>1, Zenon
<1>5. /\ m \in Nat /\ m # 0 /\ Cut(J, n, Terminal, h + 1)
      /\ \A k \in 1 .. m : c[k] \in 1 .. h + 1 /\ Cut(J, n, Mark, c[k])
      /\ \A i : Cut(J, n, Mark, i) /\ i <= h + 1 => \E k \in 1 .. m : c[k] = i
      /\ \A i, j \in 1 .. m : i < j => c[i] < c[j]
  BY Zenon DEF RowCut
<1>6. 1 \in 1 .. m
  BY <1>5
<1>7. c[1] \in 1 .. h + 1 /\ Cut(J, n, Mark, c[1])
  BY <1>5, <1>6, Zenon
<1>8. J[e + 1] = "::" /\ Cut(J, n, Mark, e + 1)
  <2>1. CASE h = e
    <3>1. Cut(J, n, Mark, h + 1)
      BY <1>5, Units, Zenon DEF Cut
    <3>2. QED
      BY <1>3, <2>1, <3>1, Zenon
  <2>2. CASE h # e
    <3>1. e + 2 <= h /\ H[e + 1] = "::" /\ H[e + 2] = "|"
      BY <2>2, Zenon DEF Leads
    <3>2. e + 1 \in 1 .. h /\ e + 2 \in 1 .. h /\ e + 1 \in 1 .. n /\ (e + 1) + 1 \in 1 .. n /\ (e + 1) + 1 = e + 2
          /\ (e + 1) - 1 = e /\ (e + 1 > 1 => e \in 1 .. e /\ e # 0)
      BY <1>1, <1>3, <3>1
    <3>3. J[e + 1] = "::" /\ J[e + 2] = "|"
      BY <1>3, <3>1, <3>2, Zenon
    <3>4. J[(e + 1) + 1] \in Mark
      BY <3>2, <3>3 DEF Mark
    <3>5. e + 1 > 1 => J[(e + 1) - 1] # "\\"
      <4> SUFFICES ASSUME e + 1 > 1 PROVE J[e] # "\\"
        BY <3>2, Zenon
      <4>1. e \in 1 .. e /\ e # 0
        BY <3>2
      <4>2. E[e] # "\\"
        BY <1>1, <4>1, Zenon DEF Unfinished
      <4>3. QED
        BY <1>4, <4>1, <4>2, Zenon
    <3>6. Cut(J, n, Mark, e + 1)
      BY <3>2, <3>3, <3>4, <3>5, Zenon DEF Cut
    <3>7. QED
      BY <3>3, <3>6
  <2>3. QED
    BY <2>1, <2>2
<1>9. c[1] <= e + 1
  <2>1. e + 1 <= h + 1
    BY <1>1, <1>2
  <2>2. PICK k \in 1 .. m : c[k] = e + 1
    BY <1>5, <1>8, <2>1, Zenon
  <2>3. 1 < k => c[1] < c[k]
    BY <1>5, <1>6
  <2>4. QED
    BY <1>1, <1>7, <2>2, <2>3
<1>10. c[1] \in Nat /\ c[1] # 0 /\ e + 1 \in Nat
  BY <1>1, <1>7
<1>11. QED
  BY <1>1, <1>4, <1>7, <1>8, <1>9, <1>10, Zenon

\* It is blank exactly when the first part of the row is.
LEMMA LhsKept ==
    ASSUME NEW X, NEW text \in Seq(X), NEW l \in Nat, l = Len(text), NEW al,
           Known(X, text, l, al), Spared(text, l),
           NEW e, Steady(X, Expanded(text, al), e), NEW H, NEW h \in Nat,
           Leads(Expanded(text, al), e, H, h),
           NEW op, NEW rhs, NEW J \in Seq(X), NEW n \in Nat, Row3(X, H, h, op, rhs, J, n),
           NEW c, NEW m, RowCut(J, n, c, m, h + 1), NEW v \in Nat, c[1] = v + 1, NEW t,
           \A i \in 1 .. v : t[i] = J[i]
    PROVE  Blanks(t, v) <=> Blanks(text, l)
<1> DEFINE E == Expanded(text, al)
<1>1. PICK off, w, f : f \in Nat /\ f = Len(E) /\ Spread(text, l, al, E, f, off, w)
  BY ExpandedSpreads
<1>2. f = e /\ Steady(X, E, e) /\ Leads(E, e, H, h)
  BY <1>1, Zenon DEF Steady
<1> HIDE DEF E
<1>3. Spread(text, l, al, E, e, off, w)
  BY <1>1, <1>2, Zenon
<1>4. /\ \A i \in 1 .. e : J[i] = E[i]
      /\ J[e + 1] = "::" /\ e \in Nat /\ e + 1 \in Nat
      /\ c[1] \in Nat /\ c[1] # 0 /\ c[1] <= e + 1 /\ Cut(J, n, Mark, c[1])
  BY <1>2, FirstCut
<1>5. v <= e
  BY <1>4
<1>6. \A i \in 1 .. v : t[i] = E[i]
  <2> SUFFICES ASSUME NEW i \in 1 .. v PROVE t[i] = E[i]
    OBVIOUS
  <2>1. i \in 1 .. e
    BY <1>4, <1>5
  <2>2. QED
    BY <1>4, <2>1, Zenon
<1>7. ASSUME Blanks(text, l) PROVE Blanks(t, v)
  <2>1. BlankUpTo(text, l, l + 1)
    BY <1>7, Zenon DEF Blanks, BlankUpTo
  <2>2. l + 1 \in 1 .. l + 1
    OBVIOUS
  <2>3. off[l + 1] + 1 = l + 1 /\ off[l + 1] \in Nat /\ BlankUpTo(E, l, l + 1)
    BY <1>3, <1>4, <2>1, <2>2, BlanksStand
  <2>4. e = off[l + 1]
    BY <1>3, Zenon DEF Spread
  <2>5. \A i \in 1 .. v : i \in 1 .. l /\ i < l + 1
    BY <1>4, <1>5, <2>3, <2>4
  <2>6. QED
    BY <1>6, <2>3, <2>5, Zenon DEF Blanks, BlankUpTo
<1>8. ASSUME ~Blanks(text, l), Blanks(t, v) PROVE FALSE
  <2>1. PICK i \in 1 .. l : text[i] # Blank /\ \A k \in 1 .. l : text[k] # Blank => i <= k
    <3> DEFINE S == { k \in 1 .. l : text[k] # Blank }
    <3>1. S \in SUBSET Nat /\ S # {}
      BY <1>8 DEF Blanks
    <3>2. PICK i \in S : \A k \in S : i <= k
      <4> HIDE DEF S
      <4>1. QED
        BY <3>1, Least
    <3>3. QED
      BY <3>2
  <2>2. BlankUpTo(text, l, i)
    BY <2>1 DEF BlankUpTo
  <2>3. i \in 1 .. l + 1 /\ i \in Nat /\ i # 0
    OBVIOUS
  <2>4. off[i] + 1 = i /\ off[i] \in Nat /\ BlankUpTo(E, l, i)
    BY <1>3, <1>4, <2>2, <2>3, BlanksStand
  <2>5. w[i] \in Nat /\ w[i] # 0 /\ off[i + 1] = off[i] + w[i] /\ off[i + 1] \in Nat
        /\ E[off[i] + 1] = First(text, i) /\ E[off[i + 1]] = Final(text, i)
        /\ (\A j \in 1 .. w[i] : off[i] + j \in 1 .. e) /\ (~Refers(text, i) => w[i] = 1)
    BY <1>3, Zenon DEF Spread
  <2>6. i \in 1 .. e
    <3>1. 1 \in 1 .. w[i]
      BY <2>5
    <3>2. off[i] + 1 \in 1 .. e
      BY <2>5, <3>1, Zenon
    <3>3. QED
      BY <2>4, <3>2, Zenon
  <2>7. E[i] = First(text, i)
    BY <2>4, <2>5, Zenon
  <2>8. First(text, i) # Blank
    BY <2>1, Units DEF First
  <2>9. v < i
    <3> SUFFICES ASSUME ~(v < i) PROVE FALSE
      OBVIOUS
    <3>1. i \in 1 .. v
      BY <2>3
    <3>2. QED
      BY <1>6, <1>8, <2>7, <2>8, <3>1, Zenon DEF Blanks
  <2>10. c[1] = i
    <3> SUFFICES ASSUME c[1] # i PROVE FALSE
      OBVIOUS
    <3>1. c[1] \in 1 .. l /\ c[1] < i /\ c[1] \in 1 .. e
      BY <1>4, <2>3, <2>6, <2>9
    <3>2. J[c[1]] = Blank
      BY <1>4, <2>4, <3>1, Zenon DEF BlankUpTo
    <3>3. J[c[1]] = "::"
      BY <1>4, Zenon DEF Cut
    <3>4. QED
      BY <3>2, <3>3, Units
  <2>11. J[i] = "::" /\ J[i + 1] \in Mark
    BY <1>4, <2>10, Zenon DEF Cut
  <2>12. First(text, i) = "::"
    BY <1>4, <2>6, <2>7, <2>11, Zenon
  <2>13. ~Refers(text, i) /\ text[i] = "::"
    <3>1. "(?:" # "::"
      OBVIOUS
    <3>2. QED
      BY <2>12, <3>1, Zenon DEF First
  <2>14. off[i + 1] = i
    BY <2>4, <2>5, <2>13
  <2>15. CASE i = l
    <3>1. e = i
      BY <1>3, <2>14, <2>15, Zenon DEF Spread
    <3>2. J[i + 1] = "::"
      BY <1>4, <3>1, Zenon
    <3>3. QED
      BY <2>11, <3>2, Units
  <2>16. CASE i # l
    <3>1. i + 1 \in 1 .. l
      BY <2>16
    <3>2. w[i + 1] \in Nat /\ w[i + 1] # 0 /\ E[off[i + 1] + 1] = First(text, i + 1)
          /\ (\A j \in 1 .. w[i + 1] : off[i + 1] + j \in 1 .. e)
      BY <1>3, <3>1, Zenon DEF Spread
    <3>3. 1 \in 1 .. w[i + 1]
      BY <3>2
    <3>4. off[i + 1] + 1 \in 1 .. e
      BY <3>2, <3>3, Zenon
    <3>5. i + 1 \in 1 .. e /\ E[i + 1] = First(text, i + 1)
      BY <2>14, <3>2, <3>4, Zenon
    <3>6. First(text, i + 1) \in Mark
      BY <1>4, <2>11, <3>5, Zenon
    <3>7. text[i + 1] \in Mark
      BY <3>6, Units, Zenon DEF First
    <3>8. i > 1 /\ text[i - 1] = "\\"
      BY <2>13, <3>1, <3>7, Zenon DEF Spared
    <3>9. i - 1 \in 1 .. l /\ i - 1 < i
      BY <3>8
    <3>10. text[i - 1] = Blank
      BY <2>2, <3>9, Zenon DEF BlankUpTo
    <3>11. QED
      BY <3>8, <3>10, Units
  <2>17. QED
    BY <2>15, <2>16
<1>9. QED
  BY <1>7, <1>8

\* A row that is not all blanks before its first operator is no separator.
LEMMA LongRow ==
    ASSUME NEW X, NEW J \in Seq(X), NEW n \in Nat, n = Len(J), NEW d \in Nat,
           Cut(J, n, Mark, d),
           NEW p \in 1 .. d, J[p] # Blank, p # d
    PROVE  Strip(J) # <<>> /\ Strip(J) # <<"::", "=">>
<1>1. d \in 1 .. n /\ d + 1 \in 1 .. n /\ J[d + 1] \in Mark
  BY Zenon DEF Cut
<1>2. J[d + 1] # Blank
  BY <1>1, Units
<1>3. p \in 1 .. n
  BY <1>1
<1>4. ~Blanks(J, n)
  BY <1>3, Zenon DEF Blanks
<1>5. PICK a, b : Ink(J, n, a, b) /\ Strip(J) = SubSeq(J, a, b)
  BY <1>4, StripIs
<1>6. a \in 1 .. n /\ b \in 1 .. n /\ a <= b /\ a <= p /\ d + 1 <= b
  BY <1>1, <1>2, <1>3, <1>5, Zenon DEF Ink
<1>7. PICK o, w \in Nat : o + 1 = a /\ o + w = b /\ w # 0 /\ Len(SubSeq(J, a, b)) = w
  BY <1>6, WithinIs
<1>8. w > 2
  BY <1>6, <1>7
<1>9. Len(<<>>) = 0 /\ Len(<<"::", "=">>) = 2
  OBVIOUS
<1>10. w # 0 /\ w # 2
  BY <1>8
<1>11. QED
  BY <1>5, <1>7, <1>9, <1>10, Zenon

-----------------------------------------------------------------------------
\* Rows: an expanded row is the rule of its row.

\* What the expanded parts of a rule are joined to.
Grown(X, lhs, op, rhs, al, J) ==
    \E H : \E e, h, n \in Nat :
        /\ Steady(X, Expanded(lhs, al), e) /\ Steady(X, H, h) /\ Leads(Expanded(lhs, al), e, H, h)
        /\ Row3(X, H, h, op, rhs, J, n)

KnownParts(X, P, al) == \A k \in DOMAIN P : Known(X, P[k], Len(P[k]), al)

\* In a part that holds no operator none ends a rule.
LEMMA SparedShields ==
    ASSUME NEW t, NEW n \in Nat, Spared(t, n)
    PROVE  Shielded(t, MarkedAt(t, n, Terminal))
<1> SUFFICES ASSUME NEW i \in MarkedAt(t, n, Terminal) PROVE i > 1 /\ t[i - 1] = "\\"
  BY Zenon DEF Shielded
<1>1. i \in 1 .. n /\ i + 1 \in 1 .. n /\ t[i] = "::" /\ t[i + 1] \in Terminal
  BY Zenon DEF MarkedAt
<1>2. t[i + 1] \in Mark
  BY <1>1, Units
<1>3. QED
  BY <1>1, <1>2, Zenon DEF Spared

\* A left-hand side and the steps behind it.
LEMMA Parted ==
    ASSUME NEW Y, NEW x \in Y, NEW u \in Seq(Y), NEW g \in Nat, g = Len(u)
    PROVE  (<<x>> \o u)[1] = x /\ \A k \in 1 .. g : (<<x>> \o u)[k + 1] = u[k]
<1>1. PICK one \in Seq(Y) : one = <<x>> /\ Len(one) = 1 /\ one[1] = x
  <2>1. <<x>> \in Seq(Y) /\ Len(<<x>>) = 1 /\ <<x>>[1] = x
    OBVIOUS
  <2>2. QED
    BY <2>1
<1> DEFINE P == one \o u
<1>2. \A i \in 1 .. 1 + g : P[i] = IF i <= 1 THEN one[i] ELSE u[i - 1]
  <2>1. \A i \in 1 .. Len(one) + Len(u) : P[i] = IF i <= Len(one) THEN one[i] ELSE u[i - Len(one)]
    BY ConcatProperties
  <2>2. QED
    BY <1>1, <2>1, Zenon
<1>3. P = <<x>> \o u
  BY <1>1, Zenon
<1> HIDE DEF P
<1>4. 1 \in 1 .. 1 + g /\ 1 <= 1
  OBVIOUS
<1>5. P[1] = x
  BY <1>1, <1>2, <1>4, Zenon
<1>6. ASSUME NEW k \in 1 .. g PROVE P[k + 1] = u[k]
  <2>1. k + 1 \in 1 .. 1 + g /\ ~(k + 1 <= 1) /\ (k + 1) - 1 = k
    OBVIOUS
  <2>2. QED
    BY <1>2, <2>1
<1>7. QED
  BY <1>3, <1>5, <1>6, Zenon

\* A rule, and the rule with its parts expanded.
ExpandsTo(r, al, R) ==
    /\ R.lhs = Expanded(r.lhs, al) /\ R.mids = [k \in DOMAIN r.mids |-> Expanded(r.mids[k], al)]
    /\ R.op = r.op /\ R.rhs = r.rhs

\* A row whose parts are expanded grows to a row of that form.
LEMMA JoinGrows ==
    ASSUME NEW X, "::" \in X, "|" \in X, NEW s \in Seq(X), NEW n \in Nat, n = Len(s),
           NEW c, NEW m, NEW q, RowCut(s, n, c, m, q), NEW r, RuleCut(s, n, c, m, q, r),
           Len(r.mids) = m - 1,
           NEW al, KnownParts(X, <<r.lhs>> \o r.mids, al),
           NEW R, ExpandsTo(r, al, R)
    PROVE  /\ Grown(X, r.lhs, r.op, r.rhs, al, Joined(R))
           /\ r.lhs \in Seq(X) /\ Known(X, r.lhs, Len(r.lhs), al) /\ Spared(r.lhs, Len(r.lhs))
<1> DEFINE P == <<r.lhs>> \o r.mids
<1>1. m \in Nat /\ m # 0 /\ q \in 1 .. n /\ Cut(s, n, Terminal, q)
  BY Zenon DEF RowCut
<1>2. /\ \E b, w : Sliced(s, c, m, b, w, P)
      /\ P \in Seq(Seq(X)) /\ r.lhs \in Seq(X) /\ r.mids \in Seq(Seq(X)) /\ r.rhs \in Seq(X)
  BY RuleIsSliced
<1>3. PICK b, w : Sliced(s, c, m, b, w, P)
  BY <1>2
<1>4. PICK g \in Nat : g + 1 = m /\ g = m - 1
  <2>1. m - 1 \in Nat /\ (m - 1) + 1 = m
    BY <1>1
  <2>2. QED
    BY <2>1
<1>5. DOMAIN r.mids = 1 .. g
  <2>1. DOMAIN r.mids = 1 .. Len(r.mids)
    BY <1>2, LenProperties
  <2>2. QED
    BY <1>4, <2>1, Zenon
<1>6. P[1] = r.lhs /\ \A k \in 1 .. g : P[k + 1] = r.mids[k]
  <2>1. g = Len(r.mids)
    BY <1>4, Zenon
  <2>2. QED
    BY <1>2, <2>1, Parted
<1>7. DOMAIN P = 1 .. m
  BY <1>3, Zenon DEF Sliced
<1>8. \A k \in 1 .. m : Known(X, P[k], Len(P[k]), al)
  BY <1>7, Zenon DEF KnownParts
<1> HIDE DEF P
<1>9. ASSUME NEW k \in 1 .. m
      PROVE  Spared(P[k], Len(P[k])) /\ \E e \in Nat : Steady(X, Expanded(P[k], al), e)
  <2>1. /\ P[k] \in Seq(X) /\ w[k] \in Nat /\ w[k] = Len(P[k])
        /\ w[k] # 0 => P[k][w[k]] # "\\"
        /\ Spared(P[k], w[k])
    BY <1>3, PartsKept
  <2>2. ~Unfinished(P[k], w[k])
    BY <2>1, Zenon DEF Unfinished
  <2>3. Known(X, P[k], w[k], al)
    BY <1>8, <2>1, Zenon
  <2>4. Shielded(P[k], MarkedAt(P[k], w[k], Terminal))
    BY <2>1, SparedShields
  <2>5. \E e \in Nat : Steady(X, Expanded(P[k], al), e)
    BY <2>1, <2>2, <2>3, <2>4, ExpandedLeft
  <2>6. QED
    BY <2>1, <2>5, Zenon
<1>10. 1 \in 1 .. m /\ \A k \in 1 .. g : k + 1 \in 1 .. m
  BY <1>4
<1> DEFINE E == Expanded(r.lhs, al)
<1>11. PICK e \in Nat : Steady(X, E, e)
  BY <1>6, <1>9, <1>10, Zenon
<1>12. DOMAIN R.mids = 1 .. g /\ \A k \in 1 .. g : R.mids[k] = Expanded(r.mids[k], al)
  BY <1>5 DEF ExpandsTo
<1>13. \A k \in 1 .. g : \E i \in Nat : Steady(X, R.mids[k], i)
  BY <1>6, <1>9, <1>10, <1>12, Zenon
<1> HIDE DEF E
<1> DEFINE H == E \o FlattenSeq([k \in DOMAIN R.mids |-> <<"::", "|">> \o R.mids[k]])
<1>14. Following(X, E, e, H)
  BY <1>11, <1>12, <1>13, StepsLeft
<1>15. Joined(R) = H \o <<"::", r.op>> \o r.rhs
  BY Zenon DEF Joined, E, ExpandsTo
<1> HIDE DEF H
<1>16. PICK h \in Nat : Steady(X, H, h) /\ Leads(E, e, H, h)
  BY <1>14, Zenon DEF Following
<1>17. H \in Seq(X) /\ h = Len(H)
  BY <1>16, Zenon DEF Steady
<1>18. r.op \in X
  <2>1. q + 1 \in 1 .. n
    BY <1>1, Zenon DEF Cut
  <2>2. s[q + 1] \in X
    BY <2>1
  <2>3. r.op = s[q + 1]
    BY Zenon DEF RuleCut
  <2>4. QED
    BY <2>2, <2>3, Zenon
<1>19. \E i \in Nat : Row3(X, H, h, r.op, r.rhs, H \o <<"::", r.op>> \o r.rhs, i)
  BY <1>2, <1>17, <1>18, JoinIs
<1>20. Grown(X, r.lhs, r.op, r.rhs, al, Joined(R))
  BY <1>11, <1>15, <1>16, <1>19, Zenon DEF Grown, E
<1>21. Known(X, r.lhs, Len(r.lhs), al) /\ Spared(r.lhs, Len(r.lhs))
  BY <1>6, <1>8, <1>9, <1>10, Zenon
<1>22. QED
  BY <1>2, <1>20, <1>21, Zenon

\* The row it is, is split into the operator and the right-hand side of the rule, and into parts
\* without a name.
ReadBack(lhs, op, rhs, J, r) ==
    /\ r.kind = "rule" /\ r.op = op /\ r.rhs = rhs
    /\ RStrip(r.lhs) = <<>> <=> Strip(lhs) = <<>>
    /\ RStrip(r.lhs) # <<>> => Strip(J) # <<>> /\ Strip(J) # <<"::", "=">>
    /\ References(RStrip(r.lhs)) = {}
    /\ \A k \in DOMAIN r.mids : References(Strip(r.mids[k])) = {}
    /\ \E g \in Nat : DOMAIN r.mids = 1 .. g

\* And splitting it finds the operator and the right-hand side it was written with.
LEMMA GrownReads ==
    ASSUME NEW X, NEW lhs \in Seq(X), NEW op \in Terminal, NEW rhs, NEW al, NEW J,
           Grown(X, lhs, op, rhs, al, J), Known(X, lhs, Len(lhs), al), Spared(lhs, Len(lhs))
    PROVE  ReadBack(lhs, op, rhs, J, split_rule_line(J))
<1> DEFINE E == Expanded(lhs, al)
           r == split_rule_line(J)
<1>1. PICK l \in Nat : l = Len(lhs)
  OBVIOUS
<1>2. PICK H : \E e, h, n \in Nat : /\ Steady(X, E, e) /\ Steady(X, H, h) /\ Leads(E, e, H, h)
                                   /\ Row3(X, H, h, op, rhs, J, n)
  BY Zenon DEF Grown
<1>3. PICK e, h, n \in Nat : /\ Steady(X, E, e) /\ Steady(X, H, h) /\ Leads(E, e, H, h)
                             /\ Row3(X, H, h, op, rhs, J, n)
  BY <1>2
<1>4. /\ J \in Seq(X) /\ n = Len(J) /\ h + 2 <= n /\ J[h + 2] = op /\ SubSeq(J, h + 3, n) = rhs
  BY <1>3, Zenon DEF Row3
<1>5. Quiet(H, h) /\ ~Unfinished(H, h) /\ Shielded(H, NamedAt(H, h))
  BY <1>3, Zenon DEF Steady, Quiet
<1>6. PICK c, m : RowCut(J, n, c, m, h + 1) /\ r = CutAt(J, c)
  BY <1>3, <1>4, <1>5, Resplit
<1>7. RuleCut(J, n, c, m, h + 1, r) /\ Len(r.mids) = m - 1
  BY <1>4, <1>6, RuleIsCut
<1> HIDE DEF r
<1>8. /\ \E b, w : Sliced(J, c, m, b, w, <<r.lhs>> \o r.mids)
      /\ <<r.lhs>> \o r.mids \in Seq(Seq(X)) /\ r.lhs \in Seq(X) /\ r.mids \in Seq(Seq(X))
  BY <1>4, <1>6, <1>7, RuleIsSliced
<1>9. r.kind = "rule" /\ r.op = op /\ r.rhs = rhs
  <2>1. (h + 1) + 1 = h + 2 /\ (h + 1) + 2 = h + 3
    OBVIOUS
  <2>2. r.kind = "rule" /\ r.op = J[(h + 1) + 1] /\ r.rhs = SubSeq(J, (h + 1) + 2, n)
    BY <1>7, Zenon DEF RuleCut
  <2>3. QED
    BY <1>4, <2>1, <2>2, Zenon
<1> DEFINE P == <<r.lhs>> \o r.mids
<1>10. PICK b, w : Sliced(J, c, m, b, w, P)
  BY <1>8
<1>11. m \in Nat /\ m # 0
  BY <1>6, Zenon DEF RowCut
<1>12. PICK g \in Nat : g + 1 = m /\ g = m - 1
  <2>1. m - 1 \in Nat /\ (m - 1) + 1 = m
    BY <1>11
  <2>2. QED
    BY <2>1
<1>13. DOMAIN r.mids = 1 .. g
  <2>1. DOMAIN r.mids = 1 .. Len(r.mids)
    BY <1>8, LenProperties
  <2>2. QED
    BY <1>7, <1>12, <2>1, Zenon
<1>14. P[1] = r.lhs /\ \A k \in 1 .. g : P[k + 1] = r.mids[k]
  <2>1. g = Len(r.mids)
    BY <1>7, <1>12, Zenon
  <2>2. QED
    BY <1>8, <2>1, Parted
<1> HIDE DEF P
<1>15. ASSUME NEW k \in 1 .. m
       PROVE  /\ P[k] \in Seq(X) /\ Len(P[k]) = w[k] /\ w[k] \in Nat
              /\ References(Strip(P[k])) = {} /\ References(RStrip(P[k])) = {}
              /\ RStrip(P[k]) = <<>> <=> Blanks(P[k], w[k])
  <2>1. /\ P[k] \in Seq(X) /\ Len(P[k]) = w[k] /\ w[k] \in Nat
        /\ Shielded(P[k], NamedAt(P[k], w[k]))
    BY <1>3, <1>4, <1>5, <1>6, <1>10, ResplitParts
  <2>2. PICK t \in Seq(X), v \in Nat : t = P[k] /\ v = w[k] /\ v = Len(t) /\ Shielded(t, NamedAt(t, v))
    BY <2>1, Zenon
  <2>3. Survives(t, v, Strip(t)) /\ Survives(t, v, RStrip(t)) /\ (RStrip(t) = <<>> <=> Blanks(t, v))
    BY <2>2, StripShielded
  <2>4. QED
    BY <2>1, <2>2, <2>3, Zenon DEF Survives
<1>16. 1 \in 1 .. m /\ \A k \in 1 .. g : k + 1 \in 1 .. m
  BY <1>12
<1>17. \A k \in DOMAIN r.mids : References(Strip(r.mids[k])) = {}
  BY <1>13, <1>14, <1>15, <1>16, Zenon
<1>18. References(RStrip(r.lhs)) = {} /\ w[1] \in Nat /\ Len(r.lhs) = w[1] /\ (RStrip(r.lhs) = <<>> <=> Blanks(r.lhs, w[1]))
  BY <1>14, <1>15, <1>16, Zenon
<1>19. PICK v \in Nat : v = w[1]
  BY <1>18
<1>20. c[1] = v + 1 /\ r.lhs = SubSeq(J, 1, v)
  <2>1. c[1] = b[1] + w[1] + 1 /\ b[1] = 0 /\ P[1] = SubSeq(J, b[1] + 1, b[1] + w[1])
    BY <1>10, <1>16, Zenon DEF Sliced
  <2>2. b[1] + w[1] + 1 = v + 1 /\ b[1] + 1 = 1 /\ b[1] + w[1] = v
    BY <1>19, <2>1
  <2>3. QED
    BY <1>14, <2>1, <2>2, Zenon
<1>21. Steady(X, E, e) /\ Leads(E, e, H, h)
  BY <1>3, Zenon
<1>22. /\ \A i \in 1 .. e : J[i] = E[i]
       /\ J[e + 1] = "::" /\ e \in Nat /\ e + 1 \in Nat
       /\ c[1] \in Nat /\ c[1] # 0 /\ c[1] <= e + 1 /\ Cut(J, n, Mark, c[1])
  <2> HIDE DEF E
  <2>1. QED
    BY <1>3, <1>6, FirstCut
<1>23. v <= n /\ \A i \in 1 .. v : r.lhs[i] = J[i]
  <2>1. c[1] \in 1 .. n
    BY <1>22, Zenon DEF Cut
  <2>2. 0 + v <= n /\ 0 \in Nat
    BY <1>20, <2>1
  <2>3. \A i \in 1 .. v : SubSeq(J, 0 + 1, 0 + v)[i] = J[0 + i]
    BY <1>4, <2>2, StretchIs
  <2>4. 0 + 1 = 1 /\ 0 + v = v /\ \A i \in 1 .. v : 0 + i = i
    OBVIOUS
  <2>5. QED
    BY <1>20, <2>2, <2>3, <2>4
<1>24. Blanks(r.lhs, v) <=> Blanks(lhs, l)
  <2>1. Known(X, lhs, l, al) /\ Spared(lhs, l)
    BY <1>1, Zenon
  <2>2. Steady(X, Expanded(lhs, al), e) /\ Leads(Expanded(lhs, al), e, H, h) /\ Row3(X, H, h, op, rhs, J, n)
    BY <1>3, Zenon
  <2>3. RowCut(J, n, c, m, h + 1) /\ c[1] = v + 1 /\ J \in Seq(X)
    BY <1>4, <1>6, <1>20, Zenon
  <2>4. PICK t : t = r.lhs /\ \A i \in 1 .. v : t[i] = J[i]
    BY <1>23, Zenon
  <2>5. Blanks(t, v) <=> Blanks(lhs, l)
    BY <1>1, <2>1, <2>2, <2>3, <2>4, LhsKept
  <2>6. QED
    BY <2>4, <2>5, Zenon
<1>25. Strip(lhs) = <<>> <=> Blanks(lhs, l)
  BY <1>1, StripShielded
<1>26. ASSUME RStrip(r.lhs) # <<>> PROVE Strip(J) # <<>> /\ Strip(J) # <<"::", "=">>
  <2>1. ~Blanks(r.lhs, v)
    BY <1>18, <1>19, <1>26, Zenon
  <2>2. PICK p \in 1 .. v : r.lhs[p] # Blank
    BY <2>1, Zenon DEF Blanks
  <2>3. PICK d \in Nat : d = c[1] /\ d = v + 1
    BY <1>20
  <2>4. p \in 1 .. d /\ p # d
    BY <2>3
  <2>5. J[p] # Blank
    BY <1>23, <2>2, Zenon
  <2>6. Cut(J, n, Mark, d)
    BY <1>22, <2>3, Zenon
  <2>7. QED
    BY <1>4, <2>4, <2>5, <2>6, LongRow
<1>27. RStrip(r.lhs) = <<>> <=> Strip(lhs) = <<>>
  BY <1>18, <1>19, <1>24, <1>25, Zenon
<1>28. ReadBack(lhs, op, rhs, J, r)
  BY <1>9, <1>13, <1>17, <1>18, <1>26, <1>27, Zenon DEF ReadBack
<1>29. QED
  BY <1>28 DEF r

-----------------------------------------------------------------------------
\* Rows: reading one row.

\* The units and the rows of a program; the texts of its aliases.
Name == AliasName \cup {""}
Word == STRING  \* the provers need nothing of strings but their differences
Unit == Word \cup {"::", "|", "(?:", ")"}

Syntax(X) == "::" \in X /\ "|" \in X /\ "(?:" \in X /\ ")" \in X
RowOf(X, row) == row \in [name : Name, text : Seq(X), line : Nat]
Quiets(X, al) == \A a \in DOMAIN al : \E v \in Nat : AliasText(X, al[a], v)

\* A row with an operator that ends it, and something in front of the first one.
HasRule(text) == has_terminal_operator(text) /\ Strip(split_rule_line(text).lhs) # <<>>

\* What a row is parsed as is its rule.
RuleKept(row, p) ==
    /\ p.kind = "rule" =>
          /\ HasRule(row.text) /\ p.line = row.line
          /\ p.op = split_rule_line(row.text).op /\ p.rhs = LStrip(split_rule_line(row.text).rhs)
          /\ \A k \in DOMAIN (<<p.lhs>> \o p.mids) : References((<<p.lhs>> \o p.mids)[k]) = {}
    /\ HasRule(row.text) /\ p.kind # "error" => p.kind = "rule"

\* Aliases that can be expanded have values.
LEMMA ExpandsKnown ==
    ASSUME NEW X, NEW text \in Seq(X), NEW al, Quiets(X, al), ~ExpansionFails(text, al)
    PROVE  Known(X, text, Len(text), al)
<1> SUFFICES ASSUME NEW k \in 1 .. Len(text), Refers(text, k) PROVE \E v \in Nat : AliasText(X, al[text[k]], v)
  BY Zenon DEF Known
<1>1. DOMAIN text = 1 .. Len(text)
  BY LenProperties
<1>2. k \in References(text)
  BY <1>1, Zenon DEF References
<1>3. text[k] \in DOMAIN al
  BY <1>2, Zenon DEF ExpansionFails
<1>4. QED
  BY <1>3, Zenon DEF Quiets

\* A row without an operator that ends it is no rule.
LEMMA TextKept ==
    ASSUME NEW row, ~has_terminal_operator(row.text)
    PROVE  RuleKept(row, parse_rule(row))
<1> DEFINE r == split_rule_line(row.text)
<1>1. TerminalAt(row.text) = {} /\ ~HasRule(row.text)
  BY Zenon DEF has_terminal_operator, HasRule
<1>2. r = [kind |-> "text"] \/ r = [kind |-> "error"]
  BY <1>1, Zenon DEF split_rule_line, SplitAt
<1>3. r.kind = "text" \/ r.kind = "error"
  BY <1>2
<1> HIDE DEF r
<1>4. RuleOf(row, r) = NoRule \/ RuleOf(row, r) = RowError
  BY <1>3, Zenon DEF RuleOf
<1>5. NoRule.kind # "rule" /\ RowError.kind # "rule"
  BY DEF NoRule, RowError
<1>6. parse_rule(row).kind # "rule"
  BY <1>4, <1>5, Zenon DEF parse_rule, r
<1>7. QED
  BY <1>1, <1>6, Zenon DEF RuleKept

\* A row that is read back is its rule.
LEMMA ReadKept ==
    ASSUME NEW row, NEW r, r = split_rule_line(row.text), has_terminal_operator(row.text),
           NEW row1, row1.line = row.line, NEW J, row1.text = J,
           ReadBack(r.lhs, r.op, r.rhs, J, split_rule_line(J))
    PROVE  RuleKept(row, parse_rule(row1))
<1> DEFINE u == split_rule_line(J)
           p == parse_rule(row1)
           lhs == RStrip(u.lhs)
           mids == [k \in DOMAIN u.mids |-> Strip(u.mids[k])]
<1>1. /\ u.kind = "rule" /\ u.op = r.op /\ u.rhs = r.rhs
      /\ lhs = <<>> <=> Strip(r.lhs) = <<>>
      /\ lhs # <<>> => Strip(J) # <<>> /\ Strip(J) # <<"::", "=">>
      /\ References(lhs) = {}
      /\ \A k \in DOMAIN u.mids : References(Strip(u.mids[k])) = {}
      /\ \E g \in Nat : DOMAIN u.mids = 1 .. g
  BY Zenon DEF ReadBack
<1>2. HasRule(row.text) <=> lhs # <<>>
  BY <1>1, Zenon DEF HasRule
<1>3. p = RuleOf(row1, u)
  BY Zenon DEF parse_rule
<1> HIDE DEF u
<1>4. "rule" # "error" /\ "rule" # "text"
  OBVIOUS
<1> DEFINE rule == [kind |-> "rule", lhs |-> lhs, mids |-> mids, op |-> u.op, rhs |-> LStrip(u.rhs), line |-> row1.line]
<1>5. CASE lhs = <<>>
  <2>1. p = NoRule
    BY <1>1, <1>3, <1>4, <1>5, Zenon DEF RuleOf
  <2>2. p.kind # "rule"
    BY <2>1 DEF NoRule
  <2>3. QED
    BY <1>2, <1>5, <2>2, Zenon DEF RuleKept
<1>6. CASE lhs # <<>>
  <2>1. Strip(row1.text) \notin {<<>>, <<"::", "=">>}
    BY <1>1, <1>6, Zenon
  <2>2. p = RowError \/ p = rule
    BY <1>1, <1>3, <1>4, <1>6, <2>1, Zenon DEF RuleOf
  <2>3. CASE p = RowError
    <3>1. p.kind = "error" /\ p.kind # "rule"
      BY <2>3 DEF RowError
    <3>2. QED
      BY <3>1, Zenon DEF RuleKept
  <2>4. CASE p = rule
    <3>1. /\ rule.kind = "rule" /\ rule.lhs = lhs /\ rule.mids = mids /\ rule.op = u.op /\ rule.rhs = LStrip(u.rhs)
          /\ rule.line = row1.line
      OBVIOUS
    <3>2. PICK g \in Nat : DOMAIN u.mids = 1 .. g
      BY <1>1
    <3> DEFINE Y == {lhs} \cup { Strip(u.mids[k]) : k \in 1 .. g }
    <3>3. \A t \in Y : References(t) = {}
      BY <1>1, <3>2
    <3>4. mids \in Seq(Y) /\ lhs \in Y
      <4>1. \A k \in 1 .. g : mids[k] \in Y
        BY <3>2
      <4>2. mids = [k \in 1 .. g |-> mids[k]]
        BY <3>2
      <4>3. lhs \in Y
        OBVIOUS
      <4> HIDE DEF mids, Y
      <4>4. mids \in [1 .. g -> Y]
        BY <4>1, <4>2, Zenon
      <4>5. QED
        BY <4>3, <4>4, SeqDef
    <3> HIDE DEF Y, lhs, mids, rule
    <3> DEFINE P == <<lhs>> \o mids
    <3>5. P \in Seq(Y)
      <4>1. <<lhs>> \in Seq(Y)
        BY <3>4
      <4>2. QED
        BY <3>4, <4>1, ConcatProperties
    <3>6. \A k \in DOMAIN P : P[k] \in Y
      <4> HIDE DEF P
      <4>1. QED
        BY <3>5
    <3>7. \A k \in DOMAIN P : References(P[k]) = {}
      BY <3>3, <3>6, Zenon
    <3>8. <<p.lhs>> \o p.mids = P
      BY <2>4, <3>1, Zenon
    <3>9. p.kind = "rule" /\ p.line = row.line /\ p.op = r.op /\ p.rhs = LStrip(r.rhs)
      BY <1>1, <2>4, <3>1, Zenon
    <3> HIDE DEF P
    <3>10. QED
      BY <1>2, <1>6, <3>7, <3>8, <3>9, Zenon DEF RuleKept
  <2>5. QED
    BY <2>2, <2>3, <2>4
<1>7. QED
  BY <1>5, <1>6

-----------------------------------------------------------------------------
\* Rows: what a row adds to what was read.

Reads(al, rs) == [aliases |-> al, rows |-> rs, failed |-> FALSE]

\* What was read, when nothing failed.
Reading(acc) == acc = Reads(acc.aliases, acc.rows)

\* Changing one field leaves the other.
LEMMA ReadsExcept ==
    ASSUME NEW al, NEW rs, NEW x
    PROVE  /\ [Reads(al, rs) EXCEPT !.rows = x] = Reads(al, x) /\ [Reads(al, rs) EXCEPT !.aliases = x] = Reads(x, rs)
           /\ [Reads(al, rs) EXCEPT !.failed = TRUE].failed = TRUE
<1>1. [Reads(al, rs) EXCEPT !.rows = x] = Reads(al, x)
  <2> DEFINE a == Reads(al, rs)
             l == [a EXCEPT !.rows = x]
             r == Reads(al, x)
             D == {"aliases", "rows", "failed"}
  <2>1. DOMAIN a = D /\ a.aliases = al /\ a.rows = rs /\ a.failed = FALSE /\ a = [i \in D |-> a[i]]
    BY DEF Reads
  <2>2. DOMAIN r = D /\ r.aliases = al /\ r.rows = x /\ r.failed = FALSE /\ r = [i \in D |-> r[i]]
    BY DEF Reads
  <2> HIDE DEF a, r
  <2>3. l = [i \in D |-> l[i]] /\ l.aliases = al /\ l.rows = x /\ l.failed = FALSE
    BY <2>1
  <2> HIDE DEF l
  <2>4. \A i \in D : l[i] = r[i]
    BY <2>2, <2>3
  <2>5. l = r
    BY <2>2, <2>3, <2>4
  <2>6. QED
    BY <2>5 DEF l, r, a
<1>2. [Reads(al, rs) EXCEPT !.aliases = x] = Reads(x, rs)
  <2> DEFINE a == Reads(al, rs)
             l == [a EXCEPT !.aliases = x]
             r == Reads(x, rs)
             D == {"aliases", "rows", "failed"}
  <2>1. DOMAIN a = D /\ a.aliases = al /\ a.rows = rs /\ a.failed = FALSE /\ a = [i \in D |-> a[i]]
    BY DEF Reads
  <2>2. DOMAIN r = D /\ r.aliases = x /\ r.rows = rs /\ r.failed = FALSE /\ r = [i \in D |-> r[i]]
    BY DEF Reads
  <2> HIDE DEF a, r
  <2>3. l = [i \in D |-> l[i]] /\ l.aliases = x /\ l.rows = rs /\ l.failed = FALSE
    BY <2>1
  <2> HIDE DEF l
  <2>4. \A i \in D : l[i] = r[i]
    BY <2>2, <2>3
  <2>5. l = r
    BY <2>2, <2>3, <2>4
  <2>6. QED
    BY <2>5 DEF l, r, a
<1>3. [Reads(al, rs) EXCEPT !.failed = TRUE].failed = TRUE
  BY DEF Reads
<1>4. QED
  BY <1>1, <1>2, <1>3

\* The updates of the loop, one field at a time.
LEMMA ReadsIs ==
    ASSUME NEW acc, Reading(acc)
    PROVE  /\ [acc EXCEPT !.failed = TRUE].failed = TRUE
           /\ \A row : [acc EXCEPT !.rows = Append(@, row)] = Reads(acc.aliases, Append(acc.rows, row))
           /\ \A name, v : [acc EXCEPT !.aliases = With(@, name, v)] = Reads(With(acc.aliases, name, v), acc.rows)
<1>1. \A x : /\ [acc EXCEPT !.rows = x] = Reads(acc.aliases, x) /\ [acc EXCEPT !.aliases = x] = Reads(x, acc.rows)
             /\ [acc EXCEPT !.failed = TRUE].failed = TRUE
  <2>1. PICK al, rs : acc = Reads(al, rs) /\ acc.aliases = al /\ acc.rows = rs
    BY Zenon DEF Reading
  <2>2. ASSUME NEW x
        PROVE  /\ [acc EXCEPT !.rows = x] = Reads(al, x) /\ [acc EXCEPT !.aliases = x] = Reads(x, rs)
               /\ [acc EXCEPT !.failed = TRUE].failed = TRUE
    <3>1. /\ [Reads(al, rs) EXCEPT !.rows = x] = Reads(al, x) /\ [Reads(al, rs) EXCEPT !.aliases = x] = Reads(x, rs)
          /\ [Reads(al, rs) EXCEPT !.failed = TRUE].failed = TRUE
      BY ReadsExcept
    <3>2. QED
      BY <2>1, <3>1, Zenon
  <2>3. QED
    BY <2>1, <2>2, Zenon
<1>2. ASSUME NEW row PROVE [acc EXCEPT !.rows = Append(@, row)] = Reads(acc.aliases, Append(acc.rows, row))
  BY <1>1, Zenon
<1>3. ASSUME NEW name, NEW v PROVE [acc EXCEPT !.aliases = With(@, name, v)] = Reads(With(acc.aliases, name, v), acc.rows)
  BY <1>1, Zenon
<1>4. QED
  BY <1>1, <1>2, <1>3, Zenon

\* The definition of an alias: its value is known.
LEMMA DefinitionAdds ==
    ASSUME NEW X, Syntax(X), NEW row, RowOf(X, row), row.text # <<>>, row.text[1] # "\\",
           ~has_terminal_operator(row.text), NEW acc, Reading(acc), Quiets(X, acc.aliases),
           DefineAlias(acc, row).failed # TRUE
    PROVE  \E al : Quiets(X, al) /\ DefineAlias(acc, row) = Reads(al, acc.rows)
<1> DEFINE s == row.text
           tail == Tail(s)
           text == Strip(tail)
           al == acc.aliases
           E == Expanded(text, al)
<1>1. s \in Seq(X) /\ s # <<>> /\ s[1] # "\\"
  BY DEF RowOf
<1>2. [acc EXCEPT !.failed = TRUE].failed = TRUE
      /\ \A name, v : [acc EXCEPT !.aliases = With(@, name, v)] = Reads(With(acc.aliases, name, v), acc.rows)
  BY ReadsIs
<1>3. ~ExpansionFails(text, al) /\ DefineAlias(acc, row) = Reads(With(al, row.name, Wrapped(E)), acc.rows)
  <2>1. DefineAlias(acc, row) =
          IF \/ row.name \in DOMAIN al \/ \E i \in DOMAIN text : text[i] \in DOMAIN Capture
             \/ ExpansionFails(text, al)
          THEN [acc EXCEPT !.failed = TRUE]
          ELSE [acc EXCEPT !.aliases = With(@, row.name, Wrapped(E))]
    BY Zenon DEF DefineAlias
  <2>2. [acc EXCEPT !.aliases = With(@, row.name, Wrapped(E))] = Reads(With(al, row.name, Wrapped(E)), acc.rows)
    <3> HIDE DEF E
    <3>1. QED
      BY <1>2, Zenon
  <2> HIDE DEF text, E
  <2>3. QED
    BY <1>2, <2>1, <2>2, Zenon
<1>22. Quiets(X, al)
  OBVIOUS
<1> HIDE DEF al
<1>4. TerminalAt(s) = {}
  BY Zenon DEF has_terminal_operator
<1> HIDE DEF s
<1>5. PICK n \in Nat : n = Len(s) /\ n # 0
  <2>1. Len(s) \in Nat /\ Len(s) # 0
    BY <1>1, EmptySeq
  <2>2. QED
    BY <2>1
<1>6. PICK m \in Nat : m + 1 = n /\ m = n - 1
  <2>1. n - 1 \in Nat /\ (n - 1) + 1 = n
    BY <1>5
  <2>2. QED
    BY <2>1
<1>7. tail \in Seq(X) /\ m = Len(tail) /\ \A i \in 1 .. m : tail[i] = s[1 + i]
  <2>1. tail \in Seq(X) /\ Len(tail) = Len(s) - 1 /\ \A i \in 1 .. Len(tail) : tail[i] = s[i + 1]
    BY <1>1, HeadTailProperties
  <2>2. Len(tail) = m /\ \A i \in 1 .. m : i + 1 = 1 + i
    BY <1>5, <1>6, <2>1
  <2>3. QED
    BY <2>1, <2>2, Zenon
<1> HIDE DEF tail
<1>8. Shielded(tail, MarkedAt(tail, m, Terminal))
  <2>1. Shielded(s, MarkedAt(s, n, Terminal))
    BY <1>1, <1>4, <1>5, ShieldsAre
  <2>2. 1 + m <= n /\ 1 \in Nat /\ (1 # 0 => s[1] # "\\")
    BY <1>1, <1>6
  <2>3. \A marks : Shielded(s, MarkedAt(s, n, marks)) => Shielded(tail, MarkedAt(tail, m, marks))
    BY <1>7, <2>2, StretchShielded
  <2>4. QED
    BY <2>1, <2>3, Zenon
<1>9. text \in Seq(X) /\ Survives(tail, m, text)
  BY <1>7, StripShielded
<1> HIDE DEF text
<1>10. PICK l \in Nat : l = Len(text)
  BY <1>9
<1>11. Shielded(text, MarkedAt(text, l, Terminal))
  BY <1>8, <1>9, <1>10, Zenon DEF Survives
<1>12. Known(X, text, l, al)
  <2>1. Known(X, text, Len(text), al)
    BY <1>3, <1>9, <1>22, ExpandsKnown
  <2>2. QED
    BY <1>10, <2>1, Zenon
<1>13. E \in Seq(X)
  BY <1>9, <1>10, <1>12, ExpandedSpreads
<1>14. PICK off, w, e : e \in Nat /\ e = Len(E) /\ Spread(text, l, al, E, e, off, w)
  BY <1>9, <1>10, <1>12, ExpandedSpreads
<1> HIDE DEF E
<1>15. Shielded(E, NamedAt(E, e))
  BY <1>12, <1>14, ExpandedNames
<1>16. Shielded(E, MarkedAt(E, e, Terminal))
  BY <1>11, <1>12, <1>14, ExpandedMarks
<1>17. Quiet(E, e)
  BY <1>15, <1>16, Zenon DEF Quiet
<1>18. "(?:" \in X /\ ")" \in X
  BY Zenon DEF Syntax
<1>19. AliasText(X, Wrapped(E), e + 2) /\ e + 2 \in Nat
  <2>1. AliasText(X, Wrapped(E), e + 2)
    BY <1>13, <1>14, <1>17, <1>18, WrappedQuiet
  <2>2. e + 2 \in Nat
    BY <1>14
  <2>3. QED
    BY <2>1, <2>2
<1>20. Quiets(X, With(al, row.name, Wrapped(E)))
  <2> DEFINE v == Wrapped(E)
             name == row.name
  <2>1. AliasText(X, v, e + 2)
    BY <1>19
  <2> HIDE DEF v, name
  <2>2. DOMAIN With(al, name, v) = DOMAIN al \cup {name}
        /\ \A a \in DOMAIN al \cup {name} : With(al, name, v)[a] = IF a = name THEN v ELSE al[a]
    BY DEF With
  <2>3. ASSUME NEW a \in DOMAIN al \cup {name} PROVE \E i \in Nat : AliasText(X, With(al, name, v)[a], i)
    <3>1. CASE a = name
      BY <1>19, <2>1, <2>2, <3>1, Zenon
    <3>2. CASE a # name
      <4>1. a \in DOMAIN al /\ With(al, name, v)[a] = al[a]
        BY <2>2, <3>2
      <4>2. QED
        BY <1>22, <4>1, Zenon DEF Quiets
    <3>3. QED
      BY <3>1, <3>2
  <2>4. Quiets(X, With(al, name, v))
    BY <2>2, <2>3, Zenon DEF Quiets
  <2>5. QED
    BY <2>4 DEF v, name
<1>21. QED
  BY <1>3, <1>20, Zenon

\* A rule with its parts expanded.
LEMMA ExpandedRule ==
    ASSUME NEW line, NEW cuts, NEW r, r = CutAt(line, cuts), NEW al
    PROVE  ExpandsTo(r, al, [r EXCEPT !.lhs = Expanded(@, al), !.mids = [k \in DOMAIN @ |-> Expanded(@[k], al)]])
<1>1. \E lhs, mids, op, rhs : r = [kind |-> "rule", lhs |-> lhs, mids |-> mids, op |-> op, rhs |-> rhs]
  BY Zenon DEF CutAt
<1>2. PICK lhs, mids, op, rhs : r = [kind |-> "rule", lhs |-> lhs, mids |-> mids, op |-> op, rhs |-> rhs]
  BY <1>1
<1>3. r.lhs = lhs /\ r.mids = mids /\ r.op = op /\ r.rhs = rhs
      /\ DOMAIN r = {"kind", "lhs", "mids", "op", "rhs"}
  BY <1>2
<1> DEFINE x == Expanded(r.lhs, al)
           y == [k \in DOMAIN r.mids |-> Expanded(r.mids[k], al)]
           R == [r EXCEPT !.lhs = x, !.mids = y]
<1>4. R.lhs = x /\ R.mids = y /\ R.op = r.op /\ R.rhs = r.rhs
  <2> HIDE DEF x, y
  <2>1. R.lhs = x
    BY <1>2
  <2>2. R.mids = y
    BY <1>2
  <2>3. R.op = r.op
    BY <1>2
  <2>4. R.rhs = r.rhs
    BY <1>2
  <2>5. QED
    BY <2>1, <2>2, <2>3, <2>4
<1>5. QED
  BY <1>4, Zenon DEF ExpandsTo

\* A row that is no definition: it stays, or it is expanded.
LEMMA RowAdds ==
    ASSUME NEW X, Syntax(X), NEW row, RowOf(X, row), NEW acc, Reading(acc),
           Quiets(X, acc.aliases),
           ExpandRow(acc, row).failed # TRUE
    PROVE  \E row1 : /\ RowOf(X, row1) /\ RuleKept(row, parse_rule(row1))
                     /\ ExpandRow(acc, row) = Reads(acc.aliases, Append(acc.rows, row1))
<1> DEFINE s == row.text
           al == acc.aliases
           rs == acc.rows
           r == split_rule_line(s)
           R == [r EXCEPT !.lhs = Expanded(@, al), !.mids = [k \in DOMAIN @ |-> Expanded(@[k], al)]]
           P == <<r.lhs>> \o r.mids
           J == Joined(R)
           row1 == [row EXCEPT !.text = J]
<1>1. s \in Seq(X)
  BY DEF RowOf
<1>2. [acc EXCEPT !.failed = TRUE].failed = TRUE
      /\ \A u : [acc EXCEPT !.rows = Append(@, u)] = Reads(al, Append(rs, u))
  BY ReadsIs
<1>3. ExpandRow(acc, row) =
        IF Strip(s) = <<>> \/ r.kind = "text" THEN Reads(al, Append(rs, row))
        ELSE IF r.kind = "error" \/ \E k \in DOMAIN P : ExpansionFails(P[k], al)
        THEN [acc EXCEPT !.failed = TRUE]
        ELSE Reads(al, Append(rs, row1))
  <2>1. ExpandRow(acc, row) =
          IF Strip(s) = <<>> \/ r.kind = "text" THEN [acc EXCEPT !.rows = Append(@, row)]
          ELSE IF r.kind = "error" \/ \E k \in DOMAIN P : ExpansionFails(P[k], al)
          THEN [acc EXCEPT !.failed = TRUE]
          ELSE [acc EXCEPT !.rows = Append(@, row1)]
    BY Zenon DEF ExpandRow, ExpandSplit
  <2> HIDE DEF s, r, P, row1
  <2>2. QED
    BY <1>2, <2>1, Zenon
<1>18. Quiets(X, al)
  OBVIOUS
<1>4. PICK n \in Nat : n = Len(s)
  BY <1>1
<1>5. CASE ~has_terminal_operator(s)
  <2>1. r = [kind |-> "text"] \/ r = [kind |-> "error"]
    BY <1>5, Zenon DEF has_terminal_operator, split_rule_line, SplitAt
  <2>2. r.kind = "text" \/ r.kind = "error"
    BY <2>1
  <2>3. ExpandRow(acc, row) = Reads(al, Append(rs, row))
    BY <1>2, <1>3, <2>2, Zenon
  <2>4. RuleKept(row, parse_rule(row))
    BY <1>5, TextKept
  <2>5. QED
    BY <2>3, <2>4, Zenon
<1>6. CASE has_terminal_operator(s)
  <2>1. TerminalAt(s) # {}
    BY <1>6, Zenon DEF has_terminal_operator
  <2>2. PICK c, m, q : RowCut(s, n, c, m, q) /\ r = CutAt(s, c)
    BY <1>1, <1>4, <2>1, RowIsCut
  <2>3. RuleCut(s, n, c, m, q, r) /\ Len(r.mids) = m - 1
    BY <1>1, <1>4, <2>2, RuleIsCut
  <2>4. r.kind = "rule" /\ r.op \in Terminal
    BY <2>3, Zenon DEF RuleCut
  <2>5. Strip(s) # <<>>
    <3>1. q \in 1 .. n /\ s[q] = "::"
      BY <2>2, Zenon DEF RowCut, Cut
    <3>2. ~Blanks(s, n)
      BY <3>1, Units, Zenon DEF Blanks
    <3>3. QED
      BY <1>1, <1>4, <3>2, StripShielded
  <2>6. "rule" # "text"
    OBVIOUS
  <2>7. (\A k \in DOMAIN P : ~ExpansionFails(P[k], al)) /\ ExpandRow(acc, row) = Reads(al, Append(rs, row1))
    BY <1>2, <1>3, <2>4, <2>5, <2>6, Zenon
  <2>8. P \in Seq(Seq(X))
    BY <1>1, <1>4, <2>2, <2>3, RuleIsSliced
  <2>9. ExpandsTo(r, al, R)
    <3> HIDE DEF r, al
    <3>1. QED
      BY <2>2, ExpandedRule
  <2> HIDE DEF R, r, al, rs
  <2>10. KnownParts(X, P, al)
    <3> SUFFICES ASSUME NEW k \in DOMAIN P PROVE Known(X, P[k], Len(P[k]), al)
      BY Zenon DEF KnownParts
    <3>1. P[k] \in Seq(X)
      <4> HIDE DEF P
      <4>1. QED
        BY <2>8
    <3>2. QED
      BY <1>18, <2>7, <3>1, ExpandsKnown
  <2>11. "::" \in X /\ "|" \in X
    BY Zenon DEF Syntax
  <2>12. /\ Grown(X, r.lhs, r.op, r.rhs, al, J)
         /\ r.lhs \in Seq(X) /\ Known(X, r.lhs, Len(r.lhs), al) /\ Spared(r.lhs, Len(r.lhs))
    BY <1>1, <1>4, <2>2, <2>3, <2>9, <2>10, <2>11, JoinGrows
  <2> HIDE DEF J
  <2>13. ReadBack(r.lhs, r.op, r.rhs, J, split_rule_line(J))
    BY <2>4, <2>12, GrownReads
  <2>14. J \in Seq(X)
    BY <2>12, Zenon DEF Grown, Row3
  <2>15. row1.line = row.line /\ row1.text = J /\ RowOf(X, row1)
    BY <2>14 DEF RowOf
  <2>16. RuleKept(row, parse_rule(row1))
    BY <1>6, <2>13, <2>15, ReadKept DEF r
  <2>17. QED
    BY <2>7, <2>15, <2>16, Zenon DEF al, rs
<1>7. QED
  BY <1>5, <1>6

-----------------------------------------------------------------------------
\* Rows: reading the rows of a program.

\* The rows of a source: one that begins as a definition begins with its name.
Source(X, rows, n) ==
    \A i \in 1 .. n :
        /\ RowOf(X, rows[i])
        /\ rows[i].name # "" => rows[i].text # <<>> /\ rows[i].text[1] # "\\"

\* Of the first n rows the src[j]-th became the j-th row that was read.
Chosen(X, rows, n, rs, k, src) ==
    /\ rs \in Seq([name : Name, text : Seq(X), line : Nat]) /\ k = Len(rs)
    /\ \A j \in 1 .. k : src[j] \in 1 .. n /\ RuleKept(rows[src[j]], parse_rule(rs[j]))
    /\ \A i, j \in 1 .. k : i < j => src[i] < src[j]
    /\ \A i \in 1 .. n : ~has_terminal_operator(rows[i].text) \/ \E j \in 1 .. k : src[j] = i

\* What was read of the first n rows.
Good(X, rows, n, acc) ==
    /\ Reading(acc) /\ Quiets(X, acc.aliases)
    /\ \E k \in Nat : \E src : Chosen(X, rows, n, acc.rows, k, src)

Reached(X, rows, n, acc) == acc.failed # TRUE => Good(X, rows, n, acc)

LeftAt(acc, al, rs) == Reading(acc) /\ acc.aliases = al /\ acc.rows = rs /\ acc.failed = FALSE

\* The fields of what was read.
LEMMA ReadsFields ==
    ASSUME NEW al, NEW rs, NEW acc, acc = Reads(al, rs)
    PROVE  LeftAt(acc, al, rs)
<1>1. acc.aliases = al /\ acc.rows = rs /\ acc.failed = FALSE
  BY DEF Reads
<1>2. QED
  BY <1>1, Zenon DEF Reading, LeftAt

\* A row that is no rule changes nothing of it.
LEMMA Passed ==
    ASSUME NEW X, NEW rows, NEW n \in Nat, NEW rs, NEW k \in Nat, NEW src,
           Chosen(X, rows, n, rs, k, src),
           ~has_terminal_operator(rows[n + 1].text)
    PROVE  Chosen(X, rows, n + 1, rs, k, src)
<1>1. \A i \in 1 .. n : i \in 1 .. n + 1
  OBVIOUS
<1>2. \A i \in 1 .. n + 1 : i \in 1 .. n \/ i = n + 1
  OBVIOUS
<1>3. QED
  BY <1>1, <1>2, Zenon DEF Chosen

\* The others follow each other.
LEMMA Followed ==
    ASSUME NEW X, NEW rows, NEW n \in Nat, NEW rs, NEW k \in Nat, NEW src,
           Chosen(X, rows, n, rs, k, src),
           NEW row, RowOf(X, row), RuleKept(rows[n + 1], parse_rule(row))
    PROVE  \E i \in Nat : \E src1 : Chosen(X, rows, n + 1, Append(rs, row), i, src1)
<1> DEFINE Z == [name : Name, text : Seq(X), line : Nat]
           rs1 == Append(rs, row)
           src1 == [j \in 1 .. k + 1 |-> IF j = k + 1 THEN n + 1 ELSE src[j]]
<1>1. /\ rs \in Seq(Z) /\ k = Len(rs)
      /\ \A j \in 1 .. k : src[j] \in 1 .. n /\ RuleKept(rows[src[j]], parse_rule(rs[j]))
      /\ \A i, j \in 1 .. k : i < j => src[i] < src[j]
      /\ \A i \in 1 .. n : ~has_terminal_operator(rows[i].text) \/ \E j \in 1 .. k : src[j] = i
  BY Zenon DEF Chosen
<1>2. row \in Z
  BY Zenon DEF RowOf
<1> HIDE DEF Z
<1>3. rs1 \in Seq(Z) /\ Len(rs1) = k + 1 /\ rs1[k + 1] = row /\ \A j \in 1 .. k : rs1[j] = rs[j]
  BY <1>1, <1>2
<1>4. src1[k + 1] = n + 1 /\ \A j \in 1 .. k : src1[j] = src[j] /\ j \in 1 .. k + 1
  OBVIOUS
<1> HIDE DEF rs1, src1
<1>5. k + 1 \in Nat /\ k + 1 \in 1 .. k + 1 /\ n + 1 \in 1 .. n + 1
      /\ (\A j \in 1 .. k + 1 : j \in 1 .. k \/ j = k + 1) /\ (\A i \in 1 .. n + 1 : i \in 1 .. n \/ i = n + 1)
      /\ \A i \in 1 .. n : i \in 1 .. n + 1
  OBVIOUS
<1>6. \A j \in 1 .. k + 1 : src1[j] \in 1 .. n + 1 /\ RuleKept(rows[src1[j]], parse_rule(rs1[j]))
  <2> SUFFICES ASSUME NEW j \in 1 .. k + 1
               PROVE  src1[j] \in 1 .. n + 1 /\ RuleKept(rows[src1[j]], parse_rule(rs1[j]))
    OBVIOUS
  <2>1. CASE j \in 1 .. k
    <3>1. src1[j] = src[j] /\ rs1[j] = rs[j] /\ src[j] \in 1 .. n /\ RuleKept(rows[src[j]], parse_rule(rs[j]))
      BY <1>1, <1>3, <1>4, <2>1, Zenon
    <3>2. QED
      BY <1>5, <3>1, Zenon
  <2>2. CASE j = k + 1
    BY <1>3, <1>4, <1>5, <2>2, Zenon
  <2>3. QED
    BY <1>5, <2>1, <2>2
<1>7. \A i, j \in 1 .. k + 1 : i < j => src1[i] < src1[j]
  <2> SUFFICES ASSUME NEW i \in 1 .. k + 1, NEW j \in 1 .. k + 1, i < j PROVE src1[i] < src1[j]
    OBVIOUS
  <2>1. i \in 1 .. k
    OBVIOUS
  <2>2. src1[i] = src[i] /\ src[i] \in 1 .. n
    BY <1>1, <1>4, <2>1, Zenon
  <2>3. CASE j = k + 1
    <3>1. src1[j] = n + 1
      BY <1>4, <2>3
    <3>2. QED
      BY <2>2, <3>1
  <2>4. CASE j # k + 1
    <3>1. j \in 1 .. k
      BY <2>4
    <3>2. src1[j] = src[j] /\ src[i] < src[j]
      BY <1>1, <1>4, <2>1, <3>1
    <3>3. QED
      BY <2>2, <3>2
  <2>5. QED
    BY <2>3, <2>4
<1>8. ASSUME NEW i \in 1 .. n + 1
      PROVE  ~has_terminal_operator(rows[i].text) \/ \E j \in 1 .. k + 1 : src1[j] = i
  <2>1. CASE i \in 1 .. n
    BY <1>1, <1>4, <2>1, Zenon
  <2>2. CASE i = n + 1
    BY <1>4, <1>5, <2>2, Zenon
  <2>3. QED
    BY <1>5, <2>1, <2>2
<1>9. Chosen(X, rows, n + 1, rs1, k + 1, src1)
  BY <1>3, <1>6, <1>7, <1>8, Zenon DEF Chosen, Z
<1>10. QED
  BY <1>5, <1>9, Zenon DEF rs1

\* One row more is read: the loop keeps its invariant.
LEMMA ReadAdds ==
    ASSUME NEW X, Syntax(X), NEW rows, NEW m \in Nat, Source(X, rows, m), NEW n \in Nat, n + 1 <= m,
           NEW acc, Reached(X, rows, n, acc)
    PROVE  Reached(X, rows, n + 1, ReadRow(acc, rows[n + 1]))
<1> SUFFICES ASSUME ReadRow(acc, rows[n + 1]).failed # TRUE PROVE Good(X, rows, n + 1, ReadRow(acc, rows[n + 1]))
  BY Zenon DEF Reached
<1> DEFINE row == rows[n + 1]
           next == ReadRow(acc, row)
<1>1. RowOf(X, row) /\ (row.name # "" => row.text # <<>> /\ row.text[1] # "\\")
  <2>1. n + 1 \in 1 .. m
    OBVIOUS
  <2>2. QED
    BY <2>1, Zenon DEF Source
<1>2. ~has_terminal_operator(row.text) => ~has_terminal_operator(rows[n + 1].text)
  OBVIOUS
<1>3. \A u : RuleKept(row, u) => RuleKept(rows[n + 1], u)
  OBVIOUS
<1>11. next.failed # TRUE
  OBVIOUS
<1> HIDE DEF row
<1>4. acc.failed # TRUE
  BY <1>11, Zenon DEF ReadRow
<1>5. Reading(acc) /\ Quiets(X, acc.aliases) /\ \E k \in Nat : \E src : Chosen(X, rows, n, acc.rows, k, src)
  BY <1>4, Zenon DEF Good, Reached
<1>6. PICK k \in Nat : \E src : Chosen(X, rows, n, acc.rows, k, src)
  BY <1>5
<1>7. PICK src : Chosen(X, rows, n, acc.rows, k, src)
  BY <1>6
<1>8. acc.failed = FALSE
  <2>1. acc = Reads(acc.aliases, acc.rows)
    BY <1>5, Zenon DEF Reading
  <2>2. LeftAt(acc, acc.aliases, acc.rows)
    BY <2>1, ReadsFields
  <2>3. QED
    BY <2>2, Zenon DEF LeftAt
<1>9. CASE row.name # "" /\ ~has_terminal_operator(row.text)
  <2>1. next = DefineAlias(acc, row)
    BY <1>8, <1>9, Zenon DEF ReadRow
  <2>2. DefineAlias(acc, row).failed # TRUE
    BY <1>11, <2>1, Zenon
  <2>3. PICK al : Quiets(X, al) /\ DefineAlias(acc, row) = Reads(al, acc.rows)
    BY <1>1, <1>5, <1>9, <2>2, DefinitionAdds
  <2>4. next = Reads(al, acc.rows)
    BY <2>1, <2>3, Zenon
  <2> HIDE DEF next
  <2>5. Reading(next) /\ next.aliases = al /\ next.rows = acc.rows
    <3>1. LeftAt(next, al, acc.rows)
      BY <2>4, ReadsFields
    <3>2. QED
      BY <3>1, Zenon DEF LeftAt
  <2>6. Chosen(X, rows, n + 1, acc.rows, k, src)
    BY <1>2, <1>7, <1>9, Passed
  <2>7. Good(X, rows, n + 1, next)
    BY <2>3, <2>5, <2>6, Zenon DEF Good
  <2>8. QED
    BY <2>7 DEF next, row
<1>10. CASE ~(row.name # "" /\ ~has_terminal_operator(row.text))
  <2>1. next = ExpandRow(acc, row)
    BY <1>8, <1>10, Zenon DEF ReadRow
  <2>2. ExpandRow(acc, row).failed # TRUE
    BY <1>11, <2>1, Zenon
  <2>3. PICK row1 : /\ RowOf(X, row1) /\ RuleKept(row, parse_rule(row1))
                    /\ ExpandRow(acc, row) = Reads(acc.aliases, Append(acc.rows, row1))
    BY <1>1, <1>5, <2>2, RowAdds
  <2>4. next = Reads(acc.aliases, Append(acc.rows, row1))
    BY <2>1, <2>3, Zenon
  <2> HIDE DEF next
  <2>5. Reading(next) /\ next.aliases = acc.aliases /\ next.rows = Append(acc.rows, row1)
    <3>1. LeftAt(next, acc.aliases, Append(acc.rows, row1))
      BY <2>4, ReadsFields
    <3>2. QED
      BY <3>1, Zenon DEF LeftAt
  <2>6. \E i \in Nat : \E src1 : Chosen(X, rows, n + 1, Append(acc.rows, row1), i, src1)
    <3>1. RuleKept(rows[n + 1], parse_rule(row1))
      BY <1>3, <2>3, Zenon
    <3>2. QED
      BY <1>7, <2>3, <3>1, Followed
  <2>7. Good(X, rows, n + 1, next)
    BY <1>5, <2>5, <2>6, Zenon DEF Good
  <2>8. QED
    BY <2>7 DEF next, row
<1>12. QED
  BY <1>9, <1>10

\* The whole of it.
LEMMA ReadGood ==
    ASSUME NEW X, Syntax(X), NEW rows, NEW m \in Nat, m = Len(rows), Source(X, rows, m),
           expand_patterns(rows).failed # TRUE
    PROVE  Good(X, rows, m, expand_patterns(rows))
<1> DEFINE Steps(n, g) ==
              /\ g = [i \in 0 .. n |-> g[i]]
              /\ \A i \in 0 .. n : g[i] = IF i = 0 THEN Read0 ELSE ReadRow(g[i - 1], rows[i])
           T == { n \in Nat : \E g : Steps(n, g) }
<1>1. 0 \in T
  <2>1. Steps(0, [i \in 0 .. 0 |-> Read0])
    OBVIOUS
  <2>2. QED
    BY <2>1
<1>2. ASSUME NEW n \in Nat, n \in T PROVE n + 1 \in T
  <2>1. PICK g : Steps(n, g)
    BY <1>2
  <2> DEFINE h == [i \in 0 .. n + 1 |-> IF i = n + 1 THEN ReadRow(g[n], rows[n + 1]) ELSE g[i]]
  <2>2. Steps(n + 1, h)
    <3> SUFFICES ASSUME NEW i \in 0 .. n + 1
                 PROVE  h[i] = IF i = 0 THEN Read0 ELSE ReadRow(h[i - 1], rows[i])
      OBVIOUS
    <3>1. CASE i = n + 1
      <4>1. h[i] = ReadRow(g[n], rows[n + 1]) /\ i # 0 /\ h[i - 1] = g[n]
        BY <3>1
      <4> HIDE DEF h
      <4>2. QED
        BY <3>1, <4>1, Zenon
    <3>2. CASE i # n + 1
      <4>1. i \in 0 .. n /\ h[i] = g[i]
        BY <3>2
      <4>2. i # 0 => h[i - 1] = g[i - 1]
        BY <4>1
      <4>3. g[i] = IF i = 0 THEN Read0 ELSE ReadRow(g[i - 1], rows[i])
        BY <2>1, <4>1
      <4> HIDE DEF h
      <4>4. QED
        BY <4>1, <4>2, <4>3, Zenon
    <3>3. QED
      BY <3>1, <3>2
  <2> HIDE DEF h, Steps
  <2>3. QED
    BY <2>2
<1>3. \A n \in Nat : n \in T
  <2> HIDE DEF T
  <2>1. QED
    BY <1>1, <1>2, Inductive
<1>4. PICK g : Steps(m, g)
  BY <1>3
<1> DEFINE Eq(f) == f = [i \in 0 .. Len(rows) |-> IF i = 0 THEN Read0 ELSE ReadRow(f[i - 1], rows[i])]
           read == CHOOSE f : Eq(f)
<1>5. Eq(g)
  BY <1>4
<1>6. expand_patterns(rows) = read[m]
  BY DEF expand_patterns
<1>7. Eq(read)
  BY <1>5
<1> HIDE DEF read
<1>8. \A i \in 0 .. m : read[i] = IF i = 0 THEN Read0 ELSE ReadRow(read[i - 1], rows[i])
  BY <1>7
<1> DEFINE U == { n \in Nat : n <= m => Reached(X, rows, n, read[n]) }
<1>9. 0 \in U
  <2>1. PICK acc : acc = Reads(<<>>, <<>>) /\ read[0] = acc
    <3>1. 0 \in 0 .. m
      OBVIOUS
    <3>2. read[0] = Read0
      BY <1>8, <3>1
    <3>3. Read0 = Reads(<<>>, <<>>)
      BY Zenon DEF Read0, Reads
    <3>4. QED
      BY <3>2, <3>3, Zenon
  <2>2. Reading(acc) /\ acc.aliases = <<>> /\ acc.rows = <<>>
    <3>1. LeftAt(acc, <<>>, <<>>)
      BY <2>1, ReadsFields
    <3>2. QED
      BY <3>1, Zenon DEF LeftAt
  <2>3. Quiets(X, <<>>)
    BY DEF Quiets
  <2>4. Chosen(X, rows, 0, <<>>, 0, <<>>)
    <3>1. <<>> \in Seq([name : Name, text : Seq(X), line : Nat]) /\ Len(<<>>) = 0 /\ 1 .. 0 = {}
      OBVIOUS
    <3>2. QED
      BY <3>1, Zenon DEF Chosen
  <2>5. 0 \in Nat
    OBVIOUS
  <2>6. Good(X, rows, 0, acc)
    BY <2>2, <2>3, <2>4, <2>5, Zenon DEF Good
  <2>7. Reached(X, rows, 0, read[0])
    BY <2>1, <2>6, Zenon DEF Reached
  <2>8. QED
    BY <2>7
<1>10. ASSUME NEW n \in Nat, n \in U PROVE n + 1 \in U
  <2> SUFFICES ASSUME n + 1 <= m PROVE Reached(X, rows, n + 1, read[n + 1])
    OBVIOUS
  <2>1. Reached(X, rows, n, read[n])
    <3>1. n <= m
      OBVIOUS
    <3>2. QED
      BY <1>10, <3>1
  <2> HIDE DEF U
  <2>2. read[n + 1] = ReadRow(read[n], rows[n + 1])
    <3>1. n + 1 \in 0 .. m /\ n + 1 # 0 /\ (n + 1) - 1 = n
      OBVIOUS
    <3>2. read[n + 1] = IF n + 1 = 0 THEN Read0 ELSE ReadRow(read[(n + 1) - 1], rows[n + 1])
      BY <1>8, <3>1
    <3>3. QED
      BY <3>1, <3>2, Zenon
  <2>3. Reached(X, rows, n + 1, ReadRow(read[n], rows[n + 1]))
    BY <2>1, ReadAdds
  <2>4. QED
    BY <2>2, <2>3, Zenon
<1>11. \A n \in Nat : n \in U
  <2> HIDE DEF U
  <2>1. QED
    BY <1>9, <1>10, Inductive
<1>12. Reached(X, rows, m, read[m])
  <2>1. m \in U /\ m <= m
    <3> HIDE DEF U
    <3>1. QED
      BY <1>11
  <2>2. QED
    BY <2>1
<1>13. QED
  BY <1>6, <1>12, Zenon DEF Reached

-----------------------------------------------------------------------------
\* Rows: the rules of a program.

\* The rows that are rules, above the first separator.
RulesAbove(rows) ==
    { i \in DOMAIN rows :
        /\ \A j \in Separators(rows) : i < j
        /\ has_terminal_operator(rows[i].text)
        /\ Strip(split_rule_line(rows[i].text).lhs) # <<>> }

\* The rows above the first separator are the first m.
LEMMA RowsAbove ==
    ASSUME NEW Z, NEW rows \in Seq(Z), NEW n \in Nat, n = Len(rows)
    PROVE  \E m \in Nat :
              /\ m <= n /\ m + 1 = Min({Len(rows) + 1} \cup Separators(rows))
              /\ m = Min({Len(rows) + 1} \cup Separators(rows)) - 1
              /\ \A i \in 1 .. n : i \in 1 .. m <=> \A j \in Separators(rows) : i < j
<1> DEFINE S == {Len(rows) + 1} \cup Separators(rows)
<1>1. Separators(rows) \subseteq 1 .. n
  BY DEF Separators
<1>2. S \in SUBSET Nat /\ S # {} /\ n + 1 \in S /\ (\A j \in Separators(rows) : j \in S)
      /\ \A j \in S : j = n + 1 \/ j \in Separators(rows)
  BY <1>1
<1> HIDE DEF S
<1>3. Min(S) \in S /\ \A j \in S : Min(S) <= j
  BY <1>2, MinIsLeast
<1>4. PICK c \in S : c = Min(S) /\ \A j \in S : c <= j
  BY <1>3, Zenon
<1>5. c \in Nat /\ c # 0 /\ c <= n + 1
  BY <1>1, <1>2, <1>4
<1>6. PICK m \in Nat : m + 1 = c /\ m = c - 1
  <2>1. c - 1 \in Nat /\ (c - 1) + 1 = c
    BY <1>5
  <2>2. QED
    BY <2>1
<1>7. m <= n
  BY <1>5, <1>6
<1>8. ASSUME NEW i \in 1 .. n PROVE i \in 1 .. m <=> \A j \in Separators(rows) : i < j
  <2>1. ASSUME i \in 1 .. m, NEW j \in Separators(rows) PROVE i < j
    <3>1. c <= j /\ j \in Nat
      BY <1>1, <1>2, <1>4
    <3>2. QED
      BY <1>6, <2>1, <3>1
  <2>2. ASSUME \A j \in Separators(rows) : i < j PROVE i \in 1 .. m
    <3>1. i < c
      <4>1. CASE c = n + 1
        BY <4>1
      <4>2. CASE c \in Separators(rows)
        BY <2>2, <4>2
      <4>3. QED
        BY <1>2, <4>1, <4>2
    <3>2. QED
      BY <1>6, <3>1
  <2>3. QED
    BY <2>1, <2>2
<1>9. QED
  BY <1>4, <1>6, <1>7, <1>8, Zenon DEF S

\* What a program holds when it loads.
Loads(P, acc, rs) ==
    LET at == Ascending({ i \in DOMAIN rs : parse_rule(rs[i]).kind = "rule" })
    IN  /\ acc.failed # TRUE /\ \A i \in DOMAIN rs : parse_rule(rs[i]).kind # "error"
        /\ DOMAIN P.rules = DOMAIN at
        /\ P.rules = [k \in DOMAIN at |-> P.rules[k]]
        /\ \A k \in DOMAIN at : at[k] \in DOMAIN rs => P.rules[k] = parse_rule(rs[at[k]])

\* The rules of a program that loads are the rows that were parsed as rules, in order.
LEMMA ProgramIs ==
    ASSUME NEW acc, NEW state, NEW P, P = ProgramOf(ParsedRows(acc), state), ~P.failed, NEW rs,
           rs = acc.rows
    PROVE  Loads(P, acc, rs)
<1> DEFINE parsed == [i \in DOMAIN rs |-> parse_rule(rs[i])]
           read == [failed |-> acc.failed, parsed |-> parsed]
           K == { i \in DOMAIN read.parsed : read.parsed[i].kind = "rule" }
           at == Ascending(K)
<1>1. ParsedRows(acc) = read
  BY Zenon DEF ParsedRows
<1>2. read.failed = acc.failed /\ read.parsed = parsed
  OBVIOUS
<1> DEFINE fails == read.failed \/ \E i \in DOMAIN read.parsed : read.parsed[i].kind = "error"
           rules == [k \in DOMAIN at |-> read.parsed[at[k]]]
<1>3. P = [failed |-> fails, rules |-> rules, state |-> state]
  BY <1>1, Zenon DEF ProgramOf
<1>4. P.failed = fails /\ P.rules = rules
  <2> HIDE DEF fails, rules
  <2>1. QED
    BY <1>3
<1>5. ~fails
  BY <1>4, Zenon
<1>6. acc.failed # TRUE
  BY <1>2, <1>5, Zenon
<1>7. \A i \in DOMAIN rs : parse_rule(rs[i]).kind # "error"
  <2> SUFFICES ASSUME NEW i \in DOMAIN rs PROVE parse_rule(rs[i]).kind # "error"
    OBVIOUS
  <2>1. DOMAIN read.parsed = DOMAIN rs /\ read.parsed[i] = parse_rule(rs[i])
    OBVIOUS
  <2>2. read.parsed[i].kind # "error"
    BY <1>5, <2>1, Zenon
  <2>3. QED
    BY <2>1, <2>2, Zenon
<1>8. K = { i \in DOMAIN rs : parse_rule(rs[i]).kind = "rule" }
  OBVIOUS
<1>9. ASSUME NEW k \in DOMAIN at, at[k] \in DOMAIN rs PROVE rules[k] = parse_rule(rs[at[k]])
  <2> HIDE DEF K, at
  <2>1. QED
    BY <1>9
<1>10. DOMAIN rules = DOMAIN at /\ rules = [k \in DOMAIN at |-> rules[k]]
  OBVIOUS
<1> HIDE DEF rules, K, fails, read
<1>11. QED
  BY <1>4, <1>6, <1>7, <1>8, <1>9, <1>10, Zenon DEF Loads

\* A program that loads, loads its rows.
LEMMA ProgramLoads ==
    ASSUME NEW X, Syntax(X), NEW rows \in Seq([name : Name, text : Seq(X), line : Nat]),
           NEW n \in Nat, n = Len(rows),
           Source(X, rows, n), \A i \in 1 .. n : rows[i].line = i
    PROVE  LoadsItsRows(parse_program(rows), rows)
<1> DEFINE Z == [name : Name, text : Seq(X), line : Nat]
           cut == Min({Len(rows) + 1} \cup Separators(rows))
           A == SubSeq(rows, 1, cut - 1)
           acc == expand_patterns(A)
           P == parse_program(rows)
           rs == acc.rows
<1> SUFFICES ASSUME ~P.failed PROVE NoAliasLeft(P.rules) /\ RulesAreRows(P.rules, rows)
  BY Zenon DEF LoadsItsRows
<1>1. PICK m \in Nat : /\ m <= n /\ m = cut - 1
                       /\ \A i \in 1 .. n : i \in 1 .. m <=> \A j \in Separators(rows) : i < j
  BY RowsAbove
<1>2. P = ProgramOf(ParsedRows(acc), SubSeq(rows, cut + 1, Len(rows)))
  BY Zenon DEF parse_program
<1>3. m = Len(A) /\ \A i \in 1 .. m : A[i] = rows[i] /\ i \in 1 .. n
  <2>1. 0 + m <= n /\ 0 \in Nat
    BY <1>1
  <2>2. Len(SubSeq(rows, 0 + 1, 0 + m)) = m /\ \A i \in 1 .. m : SubSeq(rows, 0 + 1, 0 + m)[i] = rows[0 + i]
    BY <2>1, StretchIs
  <2>3. A = SubSeq(rows, 0 + 1, 0 + m)
    <3>1. 0 + 1 = 1 /\ 0 + m = cut - 1
      BY <1>1
    <3> HIDE DEF cut
    <3>2. QED
      BY <3>1, Zenon DEF A
  <2>4. \A i \in 1 .. m : 0 + i = i /\ i \in 1 .. n
    BY <1>1
  <2> HIDE DEF A
  <2>5. QED
    BY <2>2, <2>3, <2>4, Zenon
<1> HIDE DEF A, cut
<1>4. Source(X, A, m)
  <2> HIDE DEF A
  <2> SUFFICES ASSUME NEW i \in 1 .. m
               PROVE  RowOf(X, A[i]) /\ (A[i].name # "" => A[i].text # <<>> /\ A[i].text[1] # "\\")
    BY Zenon DEF Source
  <2>1. A[i] = rows[i] /\ i \in 1 .. n
    BY <1>3
  <2>2. RowOf(X, rows[i]) /\ (rows[i].name # "" => rows[i].text # <<>> /\ rows[i].text[1] # "\\")
    BY <2>1, Zenon DEF Source
  <2>3. QED
    BY <2>1, <2>2, Zenon
<1> HIDE DEF P
<1> DEFINE K == { i \in DOMAIN rs : parse_rule(rs[i]).kind = "rule" }
           at == Ascending(K)
<1>5. /\ acc.failed # TRUE /\ \A i \in DOMAIN rs : parse_rule(rs[i]).kind # "error"
      /\ DOMAIN P.rules = DOMAIN at /\ P.rules = [k \in DOMAIN at |-> P.rules[k]]
      /\ \A k \in DOMAIN at : at[k] \in DOMAIN rs => P.rules[k] = parse_rule(rs[at[k]])
  <2> HIDE DEF acc
  <2>1. Loads(P, acc, rs)
    BY <1>2, ProgramIs, Zenon
  <2>2. QED
    BY <2>1, Zenon DEF Loads
<1>6. Good(X, A, m, acc)
  BY <1>3, <1>4, <1>5, ReadGood
<1> HIDE DEF acc
<1>7. PICK k \in Nat : \E src : Chosen(X, A, m, rs, k, src)
  BY <1>6, Zenon DEF Good
<1>8. PICK src : Chosen(X, A, m, rs, k, src)
  BY <1>7
<1>9. /\ rs \in Seq(Z) /\ k = Len(rs)
      /\ \A j \in 1 .. k : src[j] \in 1 .. m /\ RuleKept(A[src[j]], parse_rule(rs[j]))
      /\ \A i, j \in 1 .. k : i < j => src[i] < src[j]
      /\ \A i \in 1 .. m : ~has_terminal_operator(A[i].text) \/ \E j \in 1 .. k : src[j] = i
  BY <1>8, Zenon DEF Chosen
<1>10. DOMAIN rs = 1 .. k
  BY <1>9
<1>11. DOMAIN rows = 1 .. n
  OBVIOUS
<1>12. K \subseteq 1 .. k /\ IsFiniteSet(K) /\ \A i \in K : i \in Int
  <2>1. K \subseteq 1 .. k
    BY <1>10
  <2> HIDE DEF K
  <2>2. IsFiniteSet(1 .. k)
    <3>1. 1 \in Int /\ k \in Int
      OBVIOUS
    <3>2. QED
      BY <3>1, FS_Interval, Zenon
  <2>3. IsFiniteSet(K)
    BY <2>1, <2>2, FS_Subset, Zenon
  <2>4. \A i \in K : i \in Int
    BY <2>1
  <2>5. QED
    BY <2>1, <2>3, <2>4, Zenon
<1>13. PICK l \in Nat : Numbers(at, l, K)
  <2> HIDE DEF K
  <2>1. Cardinality(K) \in Nat /\ Numbers(at, Cardinality(K), K)
    BY <1>12, AscendingNumbers
  <2>2. QED
    BY <2>1
<1>14. /\ DOMAIN at = 1 .. l /\ \A i \in 1 .. l : at[i] \in 1 .. k /\ parse_rule(rs[at[i]]).kind = "rule"
       /\ \A j \in 1 .. k : parse_rule(rs[j]).kind = "rule" => \E i \in 1 .. l : at[i] = j
       /\ \A i, j \in 1 .. l : i < j => at[i] < at[j]
  <2>1. /\ DOMAIN at = 1 .. l /\ (\A i \in 1 .. l : at[i] \in K) /\ \A j \in K : \E i \in 1 .. l : at[i] = j
        /\ \A i, j \in 1 .. l : i < j => at[i] < at[j]
    BY <1>13, Zenon DEF Numbers
  <2>2. \A j : j \in K <=> j \in 1 .. k /\ parse_rule(rs[j]).kind = "rule"
    BY <1>10
  <2> HIDE DEF K, at
  <2>3. QED
    BY <2>1, <2>2, Zenon
<1> HIDE DEF at
\* The row of a rule.
<1>15. ASSUME NEW i \in 1 .. l
       PROVE  /\ P.rules[i] = parse_rule(rs[at[i]]) /\ at[i] \in 1 .. k /\ src[at[i]] \in 1 .. m
              /\ src[at[i]] \in 1 .. n
              /\ RuleKept(rows[src[at[i]]], P.rules[i]) /\ P.rules[i].kind = "rule"
  <2>1. at[i] \in 1 .. k /\ parse_rule(rs[at[i]]).kind = "rule"
    BY <1>14
  <2>2. P.rules[i] = parse_rule(rs[at[i]])
    BY <1>5, <1>10, <1>14, <2>1, Zenon
  <2>3. src[at[i]] \in 1 .. m /\ RuleKept(A[src[at[i]]], parse_rule(rs[at[i]]))
    BY <1>9, <2>1, Zenon
  <2>4. A[src[at[i]]] = rows[src[at[i]]] /\ src[at[i]] \in 1 .. n
    BY <1>3, <2>3, Zenon
  <2>5. QED
    BY <2>1, <2>2, <2>3, <2>4, Zenon
<1>16. ASSUME NEW i \in 1 .. l
       PROVE  LET row == rows[src[at[i]]]
                  r == split_rule_line(row.text)
              IN  /\ HasRule(row.text) /\ P.rules[i].line = src[at[i]] /\ P.rules[i].op = r.op /\ P.rules[i].rhs = LStrip(r.rhs)
                  /\ \A j \in DOMAIN Parts(P.rules[i]) : References(Parts(P.rules[i])[j]) = {}
  <2>1. rows[src[at[i]]].line = src[at[i]]
    BY <1>15
  <2>2. RuleKept(rows[src[at[i]]], P.rules[i]) /\ P.rules[i].kind = "rule"
    BY <1>15
  <2>3. QED
    BY <2>1, <2>2, Zenon DEF RuleKept, Parts
<1>17. NoAliasLeft(P.rules)
  BY <1>5, <1>14, <1>16, Zenon DEF NoAliasLeft
<1> DEFINE f == [i \in 1 .. l |-> src[at[i]]]
           above == RulesAbove(rows)
<1>18. \A i : i \in above <=> i \in 1 .. m /\ HasRule(rows[i].text)
  <2>1. \A i : i \in above <=> /\ i \in 1 .. n /\ (\A j \in Separators(rows) : i < j)
                               /\ has_terminal_operator(rows[i].text)
                               /\ Strip(split_rule_line(rows[i].text).lhs) # <<>>
    BY <1>11 DEF RulesAbove
  <2> HIDE DEF above
  <2>2. QED
    BY <1>1, <1>3, <2>1, Zenon DEF HasRule
<1> HIDE DEF above
<1>19. Numbers(f, l, above)
  <2>1. \A i \in 1 .. l : f[i] = src[at[i]]
    OBVIOUS
  <2>2. DOMAIN f = 1 .. l
    OBVIOUS
  <2> HIDE DEF f
  <2>3. \A i \in 1 .. l : f[i] \in above
    BY <1>15, <1>16, <1>18, <2>1, Zenon
  <2>4. ASSUME NEW i \in above PROVE \E j \in 1 .. l : f[j] = i
    <3>1. i \in 1 .. m /\ HasRule(rows[i].text) /\ A[i] = rows[i]
      BY <1>3, <1>18, Zenon
    <3>2. has_terminal_operator(A[i].text)
      BY <3>1, Zenon DEF HasRule
    <3>3. PICK j \in 1 .. k : src[j] = i
      BY <1>9, <3>1, <3>2, Zenon
    <3>4. RuleKept(A[i], parse_rule(rs[j]))
      BY <1>9, <3>3, Zenon
    <3>5. parse_rule(rs[j]).kind # "error"
      BY <1>5, <1>10, Zenon
    <3>6. parse_rule(rs[j]).kind = "rule"
      BY <3>1, <3>4, <3>5, Zenon DEF RuleKept
    <3>7. PICK x \in 1 .. l : at[x] = j
      BY <1>14, <3>6, Zenon
    <3>8. QED
      BY <2>1, <3>3, <3>7, Zenon
  <2>5. ASSUME NEW i \in 1 .. l, NEW j \in 1 .. l, i < j PROVE f[i] < f[j]
    <3>1. at[i] < at[j] /\ at[i] \in 1 .. k /\ at[j] \in 1 .. k
      BY <1>14, <2>5
    <3>2. src[at[i]] < src[at[j]]
      BY <1>9, <3>1
    <3>3. QED
      BY <2>1, <3>2, Zenon
  <2>6. QED
    BY <2>2, <2>3, <2>4, <2>5, Zenon DEF Numbers
<1>20. \A i \in above : i \in Int
  BY <1>18
<1> HIDE DEF f
<1>21. IsFiniteSet(above) /\ Cardinality(above) = l /\ Ascending(above) = [i \in 1 .. l |-> f[i]]
  BY <1>19, <1>20, AscendingIs
<1>22. \A i \in 1 .. l : Ascending(above)[i] = src[at[i]]
  <2>1. \A i \in 1 .. l : f[i] = src[at[i]]
    BY DEF f
  <2>2. QED
    BY <1>21, <2>1
<1> DEFINE rules == P.rules
<1>23. DOMAIN rules = 1 .. l /\ Len(rules) = l
  <2>1. rules = [i \in 1 .. l |-> rules[i]]
    BY <1>5, <1>14, Zenon
  <2> HIDE DEF rules
  <2> DEFINE Y == { rules[i] : i \in 1 .. l }
  <2>2. \A i \in 1 .. l : rules[i] \in Y
    OBVIOUS
  <2> HIDE DEF Y
  <2>3. rules \in [1 .. l -> Y]
    BY <2>1, <2>2, Zenon
  <2>4. QED
    BY <2>3, SeqDef, LenProperties
<1> HIDE DEF rules
<1>24. RulesAreRows(rules, rows)
  <2>1. Len(rules) = Cardinality(above)
    BY <1>21, <1>23, Zenon
  <2>2. ASSUME NEW i \in DOMAIN rules
        PROVE  LET order == Ascending(above)
                   row == split_rule_line(rows[order[i]].text)
               IN  rules[i].line = order[i] /\ rules[i].op = row.op /\ rules[i].rhs = LStrip(row.rhs)
    BY <1>16, <1>22, <1>23, <2>2, Zenon DEF rules
  <2>3. QED
    BY <2>1, <2>2, Zenon DEF RulesAreRows, above, RulesAbove
<1>25. QED
  BY <1>17, <1>24 DEF rules

-----------------------------------------------------------------------------
\* Rows: the two halves of the property.

\* A row that is split is kept: what SplitKeepsText says of it.
SplitKeeps(s) ==
    LET r == split_rule_line(s)
    IN  r.kind = "rule" =>
            /\ Joined(r) = s
            /\ \A k \in DOMAIN Parts(r) :
                  LET part == Parts(r)[k]
                  IN  /\ part # <<>> => part[Len(part)] # "\\"
                      /\ \A i \in 2 .. Len(part) - 1 :
                            part[i] = "::" /\ part[i + 1] \in Terminal \cup {"|"}
                                => part[i - 1] = "\\"

\* A rule that is split keeps its text, and no part of it holds an operator.
LEMMA RowsSplit ==
    ASSUME NEW X, NEW s \in Seq(X)
    PROVE  SplitKeeps(s)
<1> DEFINE r == split_rule_line(s)
<1> SUFFICES ASSUME r.kind = "rule"
             PROVE  /\ Joined(r) = s
                    /\ \A k \in DOMAIN Parts(r) : PartKept(s, Parts(r)[k])
  BY Zenon DEF SplitKeeps, PartKept
<1>1. TerminalAt(s) # {}
  <2> SUFFICES ASSUME TerminalAt(s) = {} PROVE FALSE
    OBVIOUS
  <2>1. r = IF Structural(s) = {} THEN [kind |-> "text"] ELSE [kind |-> "error"]
    BY Zenon DEF split_rule_line, SplitAt
  <2>2. r.kind = "text" \/ r.kind = "error"
    BY <2>1
  <2> HIDE DEF r
  <2>3. QED
    BY <2>2
<1>2. PICK n \in Nat : n = Len(s)
  OBVIOUS
<1>3. PICK c, m, q : RowCut(s, n, c, m, q) /\ r = CutAt(s, c)
  BY <1>1, <1>2, RowIsCut, Zenon
<1>4. RuleCut(s, n, c, m, q, r) /\ Len(r.mids) = m - 1
  <2> HIDE DEF r
  <2>1. RuleCut(s, n, c, m, q, CutAt(s, c)) /\ Len(CutAt(s, c).mids) = m - 1
    BY <1>2, <1>3, RuleIsCut
  <2>2. QED
    BY <1>3, <2>1, Zenon
<1> HIDE DEF r
<1>5. Joined(r) = s
  BY <1>2, <1>3, <1>4, RowJoins
<1>6. PICK b, w : Sliced(s, c, m, b, w, Parts(r))
  BY <1>2, <1>3, <1>4, RuleIsSliced, Zenon DEF Parts
<1>7. DOMAIN Parts(r) = 1 .. m
  BY <1>6, Zenon DEF Sliced
<1>8. ASSUME NEW k \in 1 .. m PROVE PartKept(s, Parts(r)[k])
  BY <1>2, <1>3, <1>6, PartsKept
<1>9. QED
  BY <1>5, <1>7, <1>8, Zenon

\* Source rows, numbered from 1.
Listing(rows) ==
    /\ rows \in Seq([name : Name, text : Seq(Unit), line : Nat])
    /\ \A i \in 1 .. Len(rows) :
          /\ rows[i].line = i
          /\ rows[i].name # "" => rows[i].text # <<>> /\ rows[i].text[1] # "\\"

\* Such rows load as they say.
LEMMA ListingLoads ==
    ASSUME NEW rows, Listing(rows)
    PROVE  LoadsItsRows(parse_program(rows), rows)
<1> DEFINE Z == [name : Name, text : Seq(Unit), line : Nat]
<1>1. rows \in Seq(Z)
  BY DEF Listing
<1>2. PICK n \in Nat : n = Len(rows) /\ \A i \in 1 .. n : rows[i] \in Z
  <2> HIDE DEF Z
  <2>1. QED
    BY <1>1
<1>3. Syntax(Unit)
  BY Zenon DEF Syntax, Unit
<1>4. \A i \in 1 .. n : rows[i].line = i
  BY <1>2, Zenon DEF Listing
<1>5. Source(Unit, rows, n)
  BY <1>2, Zenon DEF Source, Listing, RowOf
<1>6. QED
  BY <1>1, <1>2, <1>3, <1>4, <1>5, ProgramLoads

\* A row, before its line is known.
Unnumbered(r) ==
    /\ r.name \in Name /\ r.text \in Seq(Unit)
    /\ r.name # "" => r.text # <<>> /\ r.text[1] # "\\"

\* Another row makes a longer listing.
LEMMA ListingGrows ==
    ASSUME NEW rows, Listing(rows), NEW r, Unnumbered(r)
    PROVE  Listing(Append(rows, [name |-> r.name, text |-> r.text, line |-> Len(rows) + 1]))
<1> DEFINE Z == [name : Name, text : Seq(Unit), line : Nat]
           row == [name |-> r.name, text |-> r.text, line |-> Len(rows) + 1]
           more == Append(rows, row)
<1>1. rows \in Seq(Z)
  BY Zenon DEF Listing
<1>2. PICK n \in Nat : n = Len(rows)
  <2> HIDE DEF Z
  <2>1. QED
    BY <1>1
<1>3. r.name \in Name /\ r.text \in Seq(Unit)
  BY Zenon DEF Unnumbered
<1>4. row.name = r.name /\ row.text = r.text /\ row.line = n + 1 /\ row \in Z
  <2> DEFINE T == Seq(Unit)
  <2>1. r.text \in T /\ n + 1 \in Nat
    BY <1>2, <1>3
  <2> HIDE DEF T
  <2>2. QED
    BY <1>2, <1>3, <2>1
<1> HIDE DEF row
<1>5. more \in Seq(Z) /\ Len(more) = n + 1 /\ (\A i \in 1 .. n : more[i] = rows[i]) /\ more[n + 1] = row
  <2> HIDE DEF Z
  <2>1. QED
    BY <1>1, <1>2, <1>4 DEF more
<1> HIDE DEF more
<1>6. ASSUME NEW i \in 1 .. n + 1
      PROVE  more[i].line = i /\ (more[i].name # "" => more[i].text # <<>> /\ more[i].text[1] # "\\")
  <2>1. CASE i \in 1 .. n
    <3>1. rows[i].line = i /\ (rows[i].name # "" => rows[i].text # <<>> /\ rows[i].text[1] # "\\")
      BY <1>2, <2>1, Zenon DEF Listing
    <3>2. QED
      BY <1>5, <2>1, <3>1, Zenon
  <2>2. CASE i = n + 1
    <3>1. more[i] = row
      BY <1>5, <2>2, Zenon
    <3>2. r.name # "" => r.text # <<>> /\ r.text[1] # "\\"
      BY Zenon DEF Unnumbered
    <3>3. QED
      BY <1>4, <2>2, <3>1, <3>2, Zenon
  <2>3. i = n + 1 \/ i \in 1 .. n
    OBVIOUS
  <2>4. QED
    BY <2>1, <2>2, <2>3, Zenon
<1>7. Listing(more)
  BY <1>5, <1>6, Zenon DEF Listing
<1>8. QED
  BY <1>7 DEF more, row

\* No row at all is a listing.
LEMMA EmptyListing == Listing(<<>>)
<1> DEFINE Z == [name : Name, text : Seq(Unit), line : Nat]
<1>1. <<>> \in Seq(Z) /\ 1 .. Len(<<>>) = {}
  <2> HIDE DEF Z
  <2>1. QED
    OBVIOUS
<1> HIDE DEF Z
<1>2. \A i \in 1 .. Len(<<>>) : FALSE
  BY <1>1, Zenon
<1>3. QED
  BY <1>1, <1>2, Zenon DEF Listing, Z

-----------------------------------------------------------------------------
\* The inputs.

\* What the inputs of each kind are made of.
InputInv ==
    /\ kind = "numbers" => input \in Seq(Operand)
    /\ kind = "comments" => input \in Seq(BOOLEAN)
    /\ kind = "payload" => input \in Seq(Byte)
    /\ kind = "line" => input \in Seq(LineUnit)
    /\ kind = "rows" => Listing(input)
    /\ kind = "pull" =>
          /\ input \in Seq(Costs \cup ChangedFiles)
          /\ \A k \in 1 .. Len(input) : k <= 2 => input[k] \in Costs
          /\ Len(input) = 3 => input[3] \in ChangedFiles /\ Explains(input[3], input[1], input[2])

\* The rows that behaviours grow are such rows.
LEMMA SourceRows ==
    ASSUME NEW r \in SourceRow
    PROVE  Unnumbered(r)
<1>1. r.text \in Seq(Word)
  BY RowAssumption, Zenon DEF Word
<1>2. r.text \in Seq(Unit)
  <2>1. \A w \in Word : w \in Unit
    BY Zenon DEF Unit
  <2>2. QED
    BY <1>1, <2>1
<1>3. QED
  BY <1>2, RowAssumption, Zenon DEF Unnumbered, Name

\* The inputs grow as they are meant to.
LEMMA InputsAreInputs == Spec => []InputInv
<1>1. Init => InputInv
  <2> SUFFICES ASSUME Init PROVE InputInv
    OBVIOUS
  <2>1. input = <<>>
    BY DEF Init
  <2>2. Listing(input)
    BY <2>1, EmptyListing, Zenon
  <2>3. QED
    BY <2>1, <2>2 DEF InputInv
<1>2. InputInv /\ [Next]_vars => InputInv'
  <2> SUFFICES ASSUME InputInv, [Next]_vars PROVE InputInv'
    OBVIOUS
  <2>1. CASE GrowNumbers
    BY <2>1 DEF GrowNumbers, InputInv
  <2>2. CASE GrowComments
    BY <2>2 DEF GrowComments, InputInv
  <2>3. CASE GrowPull
    <3>1. PICK part \in IF Len(input) < 2 THEN Costs
                        ELSE { names \in ChangedFiles : Explains(names, input[1], input[2]) } :
              input' = Append(input, part)
      BY <2>3 DEF GrowPull
    <3>2. kind = "pull" /\ kind' = "pull" /\ Len(input) < 3
      BY <2>3 DEF GrowPull
    <3>3. input \in Seq(Costs \cup ChangedFiles)
      BY <3>2 DEF InputInv
    <3>4. PICK n \in Nat : n = Len(input)
      BY <3>3
    <3>5. part \in Costs \cup ChangedFiles
      BY <3>1
    <3>6. /\ input' \in Seq(Costs \cup ChangedFiles)
          /\ \A k \in 1 .. n : input'[k] = input[k]
          /\ input'[n + 1] = part
      BY <3>1, <3>3, <3>4, <3>5
    <3>7. Len(input') = n + 1
      BY <3>1, <3>3, <3>4, <3>5
    <3>8. \A k \in 1 .. Len(input') : k <= 2 => input'[k] \in Costs
      <4>1. \A k \in 1 .. n : k <= 2 => input[k] \in Costs
        BY <3>2, <3>4 DEF InputInv
      <4>2. n < 2 => part \in Costs
        BY <3>1, <3>4
      <4>3. QED
        BY <3>6, <3>7, <4>1, <4>2
    <3>9. ASSUME Len(input') = 3
          PROVE  input'[3] \in ChangedFiles /\ Explains(input'[3], input'[1], input'[2])
      <4>1. n = 2
        <5>1. n + 1 = 3
          BY <3>7, <3>9, Zenon
        <5>2. QED
          BY <5>1
      <4>2. input'[1] = input[1] /\ input'[2] = input[2] /\ input'[3] = part
        BY <3>6, <4>1
      <4>3. part \in ChangedFiles /\ Explains(part, input[1], input[2])
        BY <3>1, <3>4, <4>1
      <4>4. QED
        BY <4>2, <4>3
    <3>10. QED
      BY <3>2, <3>6, <3>8, <3>9 DEF InputInv
  <2>4. CASE GrowPayload
    <3>1. PICK b \in PayloadByte : input' = Append(input, b)
      BY <2>4 DEF GrowPayload
    <3>2. kind = "payload" /\ kind' = "payload" /\ input \in Seq(Byte)
      BY <2>4 DEF GrowPayload, InputInv
    <3>3. b \in Byte
      BY PayloadAssumption
    <3>4. QED
      BY <3>1, <3>2, <3>3 DEF InputInv
  <2>5. CASE GrowLine
    <3>1. PICK u \in LineUnit : input' = Append(input, u)
      BY <2>5 DEF GrowLine
    <3>2. kind = "line" /\ kind' = "line" /\ input \in Seq(LineUnit)
      BY <2>5 DEF GrowLine, InputInv
    <3>3. QED
      BY <3>1, <3>2 DEF InputInv
  <2>6. CASE GrowRows
    <3>1. PICK r \in SourceRow :
              input' = Append(input, [name |-> r.name, text |-> r.text, line |-> Len(input) + 1])
      BY <2>6, Zenon DEF GrowRows
    <3>2. kind = "rows" /\ kind' = "rows" /\ Listing(input)
      BY <2>6, Zenon DEF GrowRows, InputInv
    <3>3. Unnumbered(r)
      BY SourceRows, Zenon
    <3>4. Listing(input')
      BY <3>1, <3>2, <3>3, ListingGrows, Zenon
    <3>5. QED
      BY <3>2, <3>4 DEF InputInv
  <2>7. CASE GrowPattern
    <3>1. kind' = "pattern"
      BY <2>7 DEF GrowPattern
    <3>2. QED
      BY <3>1 DEF InputInv
  <2>8. CASE UNCHANGED vars
    BY <2>8 DEF vars, InputInv
  <2>9. QED
    BY <2>1, <2>2, <2>3, <2>4, <2>5, <2>6, <2>7, <2>8 DEF Next
<1>3. QED
  BY <1>1, <1>2, PTL DEF Spec

\* For all literals, numbers that are equal have the same text, however they were
\* spelled or computed, and the arithmetic is exact (interpreter.py:764).
THEOREM NumbersAreTheirText == Spec => []NumbersAreExact
<1>1. InputInv => NumbersAreExact
  <2> SUFFICES ASSUME InputInv, kind = "numbers", Len(input) = 2
               PROVE  NumbersAreExact
    BY DEF NumbersAreExact, NumbersHaveOneText, ArithmeticIsExact
  <2> DEFINE x == input[1]
             y == input[2]
  <2>1. x \in Literal /\ y \in Literal
    <3>1. input \in Seq(Operand)
      BY DEF InputInv
    <3>2. QED
      BY <3>1, OperandAssumption
  <2> HIDE DEF x, y
  <2>2. NumbersHaveOneText
    <3>1. ~builtin_Fails("numeq", x, y) => ~parse_number_Fails(x) /\ ~parse_number_Fails(y)
      BY DEF builtin_Fails
    <3>2. QED
      BY <2>1, <3>1, OneText DEF NumbersHaveOneText, Canonical, x, y
  <2>3. ArithmeticIsExact
    <3>1. ~builtin_Fails("sub", x, y) => ~parse_number_Fails(x) /\ ~parse_number_Fails(y)
      BY DEF builtin_Fails
    <3>2. ~builtin_Fails("div", x, y) => parse_number(y).num # 0
      BY DEF builtin_Fails
    <3>3. QED
      BY <2>1, <3>1, <3>2, Exact DEF ArithmeticIsExact, Canonical, x, y
  <2>4. QED
    BY <2>2, <2>3 DEF NumbersAreExact
<1>2. QED
  BY <1>1, InputsAreInputs, PTL

\* What the checks of a pull request are made of.
LEMMA ChecksAre ==
    ASSUME NEW base \in Costs, NEW head \in Costs, NEW c \in Checks(base, head)
    PROVE  \E layout \in BOOLEAN, lost \in SUBSET Key, runs \in RunsOf(head) :
              c = <<layout, Recorded(base, lost), runs>>
<1>1. PassingRuns(head) \in RunsOf(head) /\ DOMAIN base \subseteq Key
  BY CostsType DEF RunsOf
<1>2. \/ \E runs \in RunsOf(head) : c = <<TRUE, Recorded(base, {}), runs>>
      \/ \E key \in DOMAIN base : c = <<TRUE, Recorded(base, {key}), PassingRuns(head)>>
      \/ c = <<FALSE, Recorded(base, {}), PassingRuns(head)>>
  BY Zenon DEF Checks
<1>3. {} \in SUBSET Key /\ \A key \in DOMAIN base : {key} \in SUBSET Key
  BY <1>1
<1>4. QED
  BY <1>1, <1>2, <1>3, Zenon

\* Metric files of these figures hold these figures, whether they pass or not.
LEMMA RecordedAre ==
    ASSUME NEW base \in Costs, NEW lost
    PROVE  /\ base_costs(Recorded(base, lost)) \in Costs
           /\ \A key \in DOMAIN Recorded(base, lost) : Recorded(base, lost)[key].pass \in BOOLEAN
<1>1. base = [key \in DOMAIN base |-> base[key]]
  BY CostsType
<1> DEFINE tree == Recorded(base, lost)
<1>2. DOMAIN tree = DOMAIN base
      /\ \A key \in DOMAIN base : tree[key] = [pass |-> key \notin lost, cost |-> base[key]]
  BY DEF Recorded
<1>3. \A key \in DOMAIN base : tree[key].pass \in BOOLEAN /\ tree[key].cost = base[key]
  <2>1. \A key : [pass |-> key \notin lost, cost |-> base[key]].cost = base[key]
    OBVIOUS
  <2>2. ASSUME NEW key PROVE [pass |-> key \notin lost, cost |-> base[key]].pass \in BOOLEAN
    <3>1. CASE key \in lost
      <4>1. (key \notin lost) = FALSE
        BY <3>1
      <4>2. [pass |-> key \notin lost, cost |-> base[key]].pass = FALSE
        BY <4>1
      <4>3. QED
        BY <4>2, Zenon
    <3>2. CASE key \notin lost
      <4>1. (key \notin lost) = TRUE
        BY <3>2
      <4>2. [pass |-> key \notin lost, cost |-> base[key]].pass = TRUE
        BY <4>1
      <4>3. QED
        BY <4>2, Zenon
    <3>3. QED
      BY <3>1, <3>2
  <2>3. QED
    BY <1>2, <2>1, <2>2, Zenon
<1> HIDE DEF tree
<1>4. base_costs(tree) = [key \in DOMAIN base |-> base[key]]
  BY <1>2, <1>3 DEF base_costs
<1>5. QED
  BY <1>1, <1>2, <1>3, <1>4 DEF tree

\* For every base, every head and all files that explain how they differ, the report is
\* green exactly when it is earned, and no rise that leaves the engine alone is silent
\* (pr_check.py:143 and 152).
THEOREM ReportsAreTrue == Spec => []ReportIsTrue
<1>1. InputInv => ReportIsTrue
  <2> SUFFICES ASSUME InputInv, kind = "pull", Len(input) = 3
               PROVE  ReportIsTrue
    BY DEF ReportIsTrue, GreenIsEarned, EngineAsideRisesAreSaid
  <2>1. /\ input[1] \in Costs /\ input[2] \in Costs /\ input[3] \in ChangedFiles
        /\ Explains(input[3], input[1], input[2])
    BY DEF InputInv
  <2>2. \A f \in input[3] : f[1] = "interpreter" => f = <<"interpreter", f[2]>>
    BY <2>1 DEF ChangedFiles
  <2>3. ASSUME NEW c \in Checks(input[1], input[2])
        PROVE  Earned(c[1], input[3], c[2], c[3])
    <3>1. PICK layout \in BOOLEAN, lost \in SUBSET Key, runs \in RunsOf(input[2]) :
              c = <<layout, Recorded(input[1], lost), runs>>
      BY <2>1, ChecksAre
    <3>2. runs \in Runs(DOMAIN input[2])
      BY <2>1, HeadsAreRun
    <3> DEFINE tree == Recorded(input[1], lost)
    <3>3. base_costs(tree) \in Costs /\ \A key \in DOMAIN tree : tree[key].pass \in BOOLEAN
      BY <2>1, RecordedAre
    <3> HIDE DEF tree
    <3>4. Earned(layout, input[3], tree, runs)
      BY <2>2, <3>2, <3>3, GreenMeansEarned
    <3>5. c[1] = layout /\ c[2] = tree /\ c[3] = runs
      BY <3>1 DEF tree
    <3>6. QED
      BY <3>4, <3>5
  <2>4. GreenIsEarned
    BY <2>3, Zenon DEF GreenIsEarned
  <2>5. EngineAsideRisesAreSaid
    BY <2>1, RisesAreTold DEF EngineAsideRisesAreSaid
  <2>6. QED
    BY <2>4, <2>5 DEF ReportIsTrue
<1>2. QED
  BY <1>1, InputsAreInputs, PTL

\* For every list of comments, the report keeps to the one that was marked first
\* (pr_check.py:240).
THEOREM CommentsStick == Spec => []CommentIsSticky
<1>1. InputInv => CommentIsSticky
  BY ReportsStick DEF InputInv, CommentIsSticky
<1>2. QED
  BY <1>1, InputsAreInputs, PTL

\* For every text, what PCT, Base64url and `escape` write is read back, and a right-hand
\* side is read once from the left; for every payload, a text has one spelling in
\* Base64url (interpreter.py:666 and 944).
THEOREM CodecsReadBack == Spec => []CodecsInvert
<1>1. InputInv => CodecsInvert
  <2> SUFFICES ASSUME InputInv, kind = "payload" PROVE CodecsInvert
    BY DEF CodecsInvert, EncodingsInvert, OneBase64Spelling, EscapesInvert, ReplacementsReadOnce
  <2>1. input \in Seq(Byte)
    BY DEF InputInv
  <2>2. PICK n \in Nat : n = Len(input) /\ DOMAIN input = 1 .. n
    BY <2>1, SeqIs, Zenon
  <2>3. EncodingsInvert
    <3>1. pct_bytes(pct_encode(input)) = input /\ (pct_decode_Fails(pct_encode(input)) <=> ~Utf8(input))
      BY <2>1, PctReads, Zenon
    <3>2. b64url_bytes(b64url_encode(input)) = input
          /\ (b64url_decode_Fails(b64url_encode(input)) <=> ~Utf8(input))
      BY <2>1, B64Reads, Zenon
    <3>3. QED
      BY <3>1, <3>2, Zenon DEF EncodingsInvert
  <2>4. OneBase64Spelling
    BY Zenon DEF OneBase64Spelling, b64url_decode_Fails
  <2>5. EscapesInvert
    BY <2>1, EscapeReads, Zenon DEF EscapesInvert, EndsLiteral
  <2>6. ReplacementsReadOnce
    <3> DEFINE letters == [l \in {92, 110, 116, 114} |->
                              CASE l = 110 -> 10 [] l = 116 -> 9 [] l = 114 -> 13 [] OTHER -> l]
               at == Ascending(EscapeStarts(input))
               Read1(i) ==
                   IF input[i] # Backslash \/ i = Len(input) THEN <<input[i]>>
                   ELSE IF input[i + 1] \in DOMAIN letters THEN <<letters[input[i + 1]]>>
                   ELSE <<Backslash, input[i + 1]>>
    <3>1. DOMAIN letters = Letters /\ \A c \in Letters : letters[c] = Plain(Value(c))
      BY DEF Letters, Plain, Value, Backslash
    <3> HIDE DEF letters
    <3>2. \A i : Read1(i) = ReadOne(input, n, i)
      BY <2>2, <3>1, Zenon DEF ReadOne
    <3> HIDE DEF Read1
    <3>3. decode_replacement_escapes(input)
            = FlattenSeq([k \in DOMAIN at |-> ReadOne(input, n, at[k])])
      BY <2>1, <2>2, ReplacementsRead, Zenon DEF Text
    <3> HIDE DEF at
    <3>4. decode_replacement_escapes(input) = FlattenSeq([k \in DOMAIN at |-> Read1(at[k])])
      BY <3>2, <3>3, Zenon
    <3>5. QED
      BY <3>4 DEF ReplacementsReadOnce, at, Read1, letters
  <2>7. QED
    BY <2>3, <2>4, <2>5, <2>6 DEF CodecsInvert
<1>2. QED
  BY <1>1, InputsAreInputs, PTL

\* For every row, what splits it keeps its text and its escapes; for every program that
\* loads, its rules are its rows, and no reference to an alias is left in a pattern,
\* whatever the aliases expand to (interpreter.py:392 and 478).
THEOREM RowsLoad == Spec => []RowsAreKept
<1>1. InputInv => RowsAreKept
  <2> SUFFICES ASSUME InputInv PROVE RowsAreKept
    OBVIOUS
  <2>1. SplitKeepsText
    <3>1. kind = "line" => SplitKeeps(input)
      <4>1. kind = "line" => input \in Seq(LineUnit)
        BY Zenon DEF InputInv
      <4>2. QED
        BY <4>1, RowsSplit, Zenon
    <3>2. QED
      BY <3>1, Zenon DEF SplitKeepsText, SplitKeeps
  <2>2. kind = "rows" => LoadsItsRows(parse_program(input), input)
    <3>1. kind = "rows" => Listing(input)
      BY Zenon DEF InputInv
    <3>2. QED
      BY <3>1, ListingLoads, Zenon
  <2>3. QED
    BY <2>1, <2>2, Zenon DEF RowsAreKept
<1>2. QED
  BY <1>1, InputsAreInputs, PTL
=============================================================================
