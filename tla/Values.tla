------------------------------- MODULE Values -------------------------------
(* Values of Infernal and the operators of its expressions (core/value.c,     *)
(* evaluator/eval_binop.c, eval_index.c, eval_slice.c, helpers.c), without    *)
(* references.                                                                *)
(*                                                                            *)
(* A value is a tuple of its type and its payload: an int, a float as a       *)
(* fraction in lowest terms (rounding and the sign of zero are left out), a   *)
(* bool, a string as a sequence of characters, a list as a sequence of        *)
(* values, a map as a sequence of pairs in the order of insertion.  An        *)
(* operation that raises an error returns Err.                                *)
EXTENDS Integers, FiniteSets, SequencesExt   \* SequencesExt extends TLC, for ToString

CONSTANTS
  IntMin, IntMax    \* INT_MIN and INT_MAX

\* Two's complement, of more than two bits: the positions a script writes are ints.
ASSUME WidthAssumption == IntMax \in Nat \ {0, 1} /\ IntMin = -IntMax - 1

Null      == <<"null">>
Err       == <<"error">>
Int_(n)   == <<"int", n>>
Bool(b)   == <<"bool", b>>
Str(s)    == <<"string", s>>
List(s)   == <<"list", s>>
MapOf(ps) == <<"map", ps>>
TypeOf(v) == v[1]

Abs(n) == IF n < 0 THEN -n ELSE n

Gcd[p \in Nat \X Nat] == IF p[2] = 0 THEN p[1] ELSE Gcd[<<p[2], p[1] % p[2]>>]

\* n/d as a float.
Float(n, d) ==
  LET g == Gcd[<<Abs(n), Abs(d)>>] IN <<"float", (IF d < 0 THEN -n ELSE n) \div g, Abs(d) \div g>>

Integral(v) == TypeOf(v) = "float" /\ v[3] = 1
Numeric(v) == TypeOf(v) \in {"int", "float", "bool"}

\* The double an operator computes with: numerator and denominator.
Num(v) == CASE TypeOf(v) = "int" -> <<v[2], 1>>
            [] TypeOf(v) = "float" -> <<v[2], v[3]>>
            [] TypeOf(v) = "bool" -> <<IF v[2] THEN 1 ELSE 0, 1>>
            [] OTHER -> <<0, 1>>

Truthy(v) ==
  CASE TypeOf(v) = "bool" -> v[2]
    [] TypeOf(v) \in {"int", "float"} -> v[2] # 0
    [] TypeOf(v) \in {"string", "list", "map"} -> v[2] # <<>>
    [] OTHER -> FALSE

Not(v) == Bool(~Truthy(v))

----------------------------------------------------------------------------
(* Arithmetic.                                                                *)

\* The division of C: towards zero, the remainder has the dividend's sign.
Quo(a, b) == LET q == Abs(a) \div Abs(b) IN IF (a < 0) = (b < 0) THEN q ELSE -q
Rem(a, b) == a - b * Quo(a, b)

\* Mutant: only the upper bound is looked at.
Fits_above(n) == n <= IntMax

Fits(n) == n >= IntMin /\ n <= IntMax

Checked(n) == IF Fits(n) THEN Int_(n) ELSE Err

\* checked_int_pow: square and multiply.  It gives up at the first factor out
\* of range, before it is used: it will be.
PowState == [result : Int, factor : Int, exp : Nat]

checked_int_pow(base, exponent) ==
  LET loop[s \in PowState] ==
        LET product == IF s.exp % 2 = 1 THEN s.result * s.factor ELSE s.result
            square == s.factor * s.factor
        IN IF s.exp = 0 THEN Int_(s.result)
           ELSE IF ~Fits(product) THEN Err
           ELSE IF s.exp = 1 THEN Int_(product)
           ELSE IF ~Fits(square) THEN Err
           ELSE loop[[result |-> product, factor |-> square, exp |-> s.exp \div 2]]
  IN loop[[result |-> 1, factor |-> base, exp |-> exponent]]

\* n to the power k.
Power(n, k) ==
  LET power[i \in Nat] == IF i = 0 THEN 1 ELSE n * power[i - 1]
  IN power[k]

IntOp(op, a, b) ==
  CASE op = "+" -> Checked(a + b)
    [] op = "-" -> Checked(a - b)
    [] op = "*" -> Checked(a * b)
    [] op = "/" -> IF b = 0 THEN Err ELSE Float(a, b)
    [] op = "%" -> IF b = 0 \/ (a = IntMin /\ b = -1) THEN Err ELSE Int_(Rem(a, b))

\* On doubles; the fmod of the last case is exact.
FloatOp(op, l, r) ==
  LET a == Num(l)
      b == Num(r)
  IN CASE op = "+" -> Float(a[1] * b[2] + b[1] * a[2], a[2] * b[2])
       [] op = "-" -> Float(a[1] * b[2] - b[1] * a[2], a[2] * b[2])
       [] op = "*" -> Float(a[1] * b[1], a[2] * b[2])
       [] op = "/" -> IF b[1] = 0 THEN Err ELSE Float(a[1] * b[2], a[2] * b[1])
       [] op = "%" -> IF b[1] = 0 THEN Err
                      ELSE Float(Rem(a[1] * b[2], b[1] * a[2]), a[2] * b[2])

\* Powers of an int: with a negative exponent a double; 0 has none.  Other
\* operands are not among the inputs of the model: powers of floats are seldom
\* fractions, and those of a bool or a string read the wrong member of the
\* union.
Pow(l, r) ==
  IF r[2] >= 0 THEN checked_int_pow(l[2], r[2])
  ELSE IF l[2] = 0 THEN Err ELSE Float(1, Power(l[2], -r[2]))

\* ++ and -- (evaluator.c) add to the int as C does, without the check of '+':
\* out of range the addition wraps around in the builds gcc makes.
Wrap(n) == IF n > IntMax THEN n - 2 * (IntMax + 1)
           ELSE IF n < IntMin THEN n + 2 * (IntMax + 1) ELSE n

Step(v, by) ==
  CASE TypeOf(v) = "int" -> Int_(Wrap(v[2] + by))
    [] TypeOf(v) = "float" -> Float(v[2] + by * v[3], v[3])
    [] OTHER -> Err

Compare(op, l, r) ==
  IF ~Numeric(l) \/ ~Numeric(r) THEN Err
  ELSE LET a == Num(l)[1] * Num(r)[2]
           b == Num(r)[1] * Num(l)[2]
       IN Bool(CASE op = "<" -> a < b [] op = ">" -> a > b
                 [] op = "<=" -> a <= b [] op = ">=" -> a >= b)

\* Only values of one type are equal, and no list or map equals any.
Equal(l, r) ==
  /\ TypeOf(l) = TypeOf(r)
  /\ TypeOf(l) \in {"null", "bool", "int", "float", "string"}
  /\ l = r

----------------------------------------------------------------------------
(* Slices.  mode: 0 [n], 1 [n:m], 2 [n*], 3 [*m], 4 [n**], 5 [**m], 6 [*].    *)

\* s without the positions lo..hi, in one pass over it.
Drop(s, lo, hi) ==
  LET kept[i \in 0..Len(s)] ==
        IF i = 0 THEN <<>>
        ELSE IF i >= lo /\ i <= hi THEN kept[i - 1] ELSE Append(kept[i - 1], s[i])
  IN kept[Len(s)]

\* The bound a slice is checked against.
SliceRefused(mode, start, end, len) ==
  \/ mode \in {0, 1, 2, 4} /\ (start < 1 \/ start > len)
  \/ mode \in {3, 5} /\ (end < 1 \/ end > len)

Lesser(a, b) == IF a < b THEN a ELSE b
Greater(a, b) == IF a > b THEN a ELSE b

eval_slice(mode, start, end, s) ==
  LET len == Len(s) IN
  IF len = 0 THEN List(<<>>)
  ELSE IF SliceRefused(mode, start, end, len) THEN Err
  ELSE List(CASE mode = 0 -> <<s[start]>>
              [] mode = 1 -> SubSeq(s, start, Lesser(end, len))
              [] mode = 2 -> SubSeq(s, start + 1, len)
              [] mode = 3 -> SubSeq(s, 1, end - 1)
              [] mode = 4 -> SubSeq(s, start, len)
              [] mode = 5 -> SubSeq(s, 1, end)
              [] mode = 6 -> s)

remove_slice(mode, start, end, s) ==
  LET len == Len(s) IN
  IF len = 0 THEN List(<<>>)
  ELSE IF SliceRefused(mode, start, end, len) THEN Err
  ELSE List(CASE mode = 0 -> Drop(s, start, start)
              [] mode = 1 -> Drop(s, start, Lesser(end, len))
              [] mode = 2 -> SubSeq(s, 1, start)
              [] mode = 3 -> SubSeq(s, end, len)
              [] mode = 4 -> SubSeq(s, 1, start - 1)
              [] mode = 5 -> SubSeq(s, end + 1, len)
              [] mode = 6 -> <<>>)

\* The same removals on a string: the range is computed first and cut to the
\* string, where a list would refuse it.

\* Mutant: [n*] begins with n.
SliceLow_inclusive(mode, start) == IF mode \in {0, 1, 2, 4} THEN start ELSE 1

SliceLow(mode, start) ==
  CASE mode \in {0, 1, 4} -> start [] mode = 2 -> start + 1 [] OTHER -> 1

SliceHigh(mode, start, end, total) ==
  CASE mode = 0 -> start
    [] mode \in {1, 5} -> end
    [] mode = 3 -> end - 1
    [] OTHER -> total

utf8_remove_range(s, lo, hi) ==
  LET from == Greater(lo, 1)
      to == Lesser(hi, Len(s))
  IN IF from > to \/ from > Len(s) THEN Str(s)
     ELSE Str(SubSeq(s, 1, from - 1) \o SubSeq(s, to + 1, Len(s)))

RemoveFromString(mode, start, end, s) ==
  utf8_remove_range(s, SliceLow(mode, start), SliceHigh(mode, start, end, Len(s)))

----------------------------------------------------------------------------
(* Lists and strings under + and -.                                           *)

\* An index is a whole number that is not negative, as an int or as a float.
Position(idx) ==
  IF TypeOf(idx) = "int" \/ Integral(idx) THEN Greater(idx[2], 0) ELSE 0

\* - [i]: -1 stands for "no index"; positions the list does not have remove
\* nothing.
RemoveIndex(s, i) ==
  IF i = -1 THEN Err
  ELSE IF TypeOf(s) = "list" THEN List(Drop(s[2], i, i))
  ELSE utf8_remove_range(s[2], i, i)

\* + x[i]: positions past the end are the end.
InsertInList(s, x, idx) ==
  IF Position(idx) < 1 THEN Err
  ELSE List(InsertAt(s, Lesser(Position(idx), Len(s) + 1), x))

utf8_insert_at(s, c, pos) == Str(InsertAt(s, Lesser(pos, Len(s) + 1), c))

InsertInString(s, x, idx) ==
  IF TypeOf(x) # "string" \/ Len(x[2]) # 1 \/ Position(idx) < 1 THEN Err
  ELSE utf8_insert_at(s, x[2][1], Position(idx))

Digits[n \in Nat] ==
  IF n < 10 THEN <<ToString(n)>> ELSE Append(Digits[n \div 10], ToString(n % 10))

\* The fraction r/d < 1, at most so many places.
Decimals(r, d, places) ==
  LET rest[i \in 0..places] == IF i = 0 THEN r ELSE (10 * rest[i - 1]) % d
      text[i \in 0..places] ==
        IF i = 0 THEN <<>>
        ELSE IF rest[i - 1] = 0 THEN text[i - 1]
        ELSE Append(text[i - 1], ToString((10 * rest[i - 1]) \div d))
  IN text[places]

\* %d and %.15g of n/d.
NumberText(n, d) ==
  (IF n < 0 THEN <<"-">> ELSE <<>>) \o Digits[Abs(n) \div d]
    \o (IF d = 1 THEN <<>> ELSE <<".">> \o Decimals(Abs(n) % d, d, 15))

\* The text of a value in a string.
Shown(v) ==
  CASE TypeOf(v) = "string" -> v[2]
    [] TypeOf(v) = "int" -> NumberText(v[2], 1)
    [] TypeOf(v) = "float" -> NumberText(v[2], v[3])
    [] TypeOf(v) = "bool" -> IF v[2] THEN <<"t", "r", "u", "e">> ELSE <<"f", "a", "l", "s", "e">>
    [] OTHER -> <<"n", "u", "l", "l">>

Concatenation(l, r) ==
  IF {TypeOf(l), TypeOf(r)} \cap {"list", "map"} # {} THEN Err
  ELSE Str(Shown(l) \o Shown(r))

\* What - [x] removes: a whole number, or a list of one.
RemovedIndex(r) ==
  CASE TypeOf(r) = "int" -> r[2]
    [] TypeOf(r) = "list" /\ Len(r[2]) = 1 /\ TypeOf(r[2][1]) = "int" -> r[2][1][2]
    [] OTHER -> -1

\* eval_binop on evaluated operands, in the order of its cases.  Whatever the
\* operator is, a string makes it a concatenation.
BinOp(op, l, r) ==
  CASE op = "+" /\ TypeOf(l) = "list" -> List(Append(l[2], r))
    [] op = "-" /\ TypeOf(l) \in {"list", "string"} ->
         RemoveIndex(l, RemovedIndex(r))
    [] TypeOf(l) = "list" /\ op \notin {"+", "-"} -> Err
    [] op \in {"and", "or"} ->
         IF TypeOf(l) # "bool" THEN Err
         ELSE IF l[2] = (op = "or") THEN l
         ELSE IF TypeOf(r) # "bool" THEN Err ELSE r
    [] op = "==" /\ TypeOf(l) # "list" -> Bool(Equal(l, r))
    [] op = "!=" /\ TypeOf(l) # "list" -> Bool(~Equal(l, r))
    [] op \in {"<", ">", "<=", ">="} /\ TypeOf(l) # "list" -> Compare(op, l, r)
    [] op = "**" /\ TypeOf(l) # "list" -> Pow(l, r)
    [] OTHER -> IF "string" \in {TypeOf(l), TypeOf(r)} THEN Concatenation(l, r)
                ELSE IF TypeOf(l) = "int" /\ TypeOf(r) = "int" THEN IntOp(op, l[2], r[2])
                ELSE FloatOp(op, l, r)
----------------------------------------------------------------------------
(* try_convert_value: what a declaration with another type makes of a value.  *)

DigitValue == [c \in {ToString(n) : n \in 0..9} |-> CHOOSE n \in 0..9 : ToString(n) = c]

\* Without the blanks before it.
Trimmed(s) ==
  LET first == SelectInSeq(s, LAMBDA c : c # " ")
  IN IF first = 0 THEN <<>> ELSE SubSeq(s, first, Len(s))

\* strtol and strtod on the whole text: blanks, a sign, digits, one of points.
TextNumber(s, points) ==
  LET t == Trimmed(s)
      u == IF t # <<>> /\ Head(t) \in {"+", "-"} THEN Tail(t) ELSE t
      at == {i \in DOMAIN u : u[i] \in points}
      places == IF at = {} THEN 0 ELSE Len(u) - CHOOSE i \in at : TRUE
      number[i \in 0..Len(u)] ==
        IF i = 0 THEN 0
        ELSE IF i \in at THEN number[i - 1] ELSE 10 * number[i - 1] + DigitValue[u[i]]
  IN IF \/ \E i \in DOMAIN u : i \notin at /\ u[i] \notin DOMAIN DigitValue
        \/ Cardinality(at) > 1
        \/ Len(u) = Cardinality(at)
       THEN Err
       ELSE Float(IF Head(t) = "-" THEN -number[Len(u)] ELSE number[Len(u)], Power(10, places))

\* A list becomes the texts of its items, those of lists and maps as null.
Joined(s) ==
  LET text[i \in 0..Len(s)] ==
        IF i = 0 THEN <<>>
        ELSE text[i - 1] \o (IF i > 1 THEN <<" ">> ELSE <<>>) \o Shown(s[i])
  IN text[Len(s)]

Convert(v, type) ==
  CASE TypeOf(v) = type -> v
    [] TypeOf(v) = "string" /\ type = "int" ->
         LET x == TextNumber(v[2], {}) IN
         IF x = Err THEN Err ELSE Checked(x[2])
    [] TypeOf(v) = "string" /\ type = "float" -> TextNumber(v[2], {".", ","})
    [] TypeOf(v) = "string" /\ type = "bool" ->
         IF v[2] \in {Shown(Bool(TRUE)), <<"1">>} THEN Bool(TRUE)
         ELSE IF v[2] \in {Shown(Bool(FALSE)), <<"0">>} THEN Bool(FALSE) ELSE Err
    [] TypeOf(v) = "list" /\ type = "string" -> Str(Joined(v[2]))
    [] TypeOf(v) = "int" /\ type = "float" -> Float(v[2], 1)
    [] TypeOf(v) = "float" /\ type = "int" -> Int_(Quo(v[2], v[3]))
    [] v = List(<<>>) /\ type = "map" -> MapOf(<<>>)
    [] v = MapOf(<<>>) /\ type = "list" -> List(<<>>)
    [] OTHER -> Err
=============================================================================
