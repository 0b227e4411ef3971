------------------------------- MODULE Decimal -------------------------------
(***************************************************************************)
(* The engine's exact decimals (decimal.rs): what is held, what is refused *)
(* and where a quotient is rounded.  A decimal is a coefficient m, below   *)
(* Limit in size, and a scale s of at most MaxScale: the number m / 10^s.  *)
(* The constants are those of the code, for TLC scaled down together.      *)
(*                                                                         *)
(* Exact integers of the code (I512, U1024) are integers here.  Number     *)
(* text is its digits as a number, its decimal places and its exponent.    *)
(***************************************************************************)
EXTENDS Integers, Sequences, SequencesExt

CONSTANTS
    Limit,          \* coefficients are below it: 2^96
    Word,           \* the range of the narrow paths' integers: 2^127
    MaxScale,       \* 28
    PayoutScale,    \* 13
    MaxPlaces,      \* decimal places an authored value may have: 10
    Envelope,       \* authored values are below it: 10^15
    MaxExponent,    \* the range of a parsed exponent: 2^63 - 1
    Far,            \* digits of a whole number that is not even built: 60
    Long,           \* digits of a text that is not even parsed: 150
    Decs,           \* the operands of a calculation
    Terms,          \*   of a sum, and its bound
    Factors,        \*   of a quotient of products, and its divisor
    Texts           \* the number texts to read

DecimalAssumption ==
    /\ {Limit, Word, Envelope, MaxExponent} \subseteq Nat \ {0}
    /\ {MaxScale, PayoutScale, MaxPlaces, Far, Long} \subseteq Nat
    /\ Limit <= Word /\ PayoutScale < MaxScale /\ MaxPlaces < MaxScale
    /\ Envelope * 10^MaxPlaces <= Limit
    /\ 10^(Far - 1) >= Limit /\ 10^(Long - MaxScale) >= Limit
ASSUME DecimalAssumption

Abs(x) == IF x < 0 THEN -x ELSE x
Sign(x) == IF x < 0 THEN -1 ELSE 1
Larger(a, b) == IF a >= b THEN a ELSE b

(* Division as integers divide in Rust, toward zero. *)
Trunc(n, d) == Sign(n) * Sign(d) * (Abs(n) \div Abs(d))

Dec(m, s) == [kind |-> "held", m |-> m, s |-> s]
Failed(kind) == [kind |-> kind]
IsHeld(a) == a.kind = "held"

Fits(m) == Abs(m) < Limit

(* fit: zeros are dropped from the end while that can help.  What does not *)
(* fit is an overflow if its whole part does not.                          *)
Fit(m, s) ==
    LET rest(k) == Trunc(m, 10^k)
        stops(k) == \/ s - k = 0 \/ (s - k <= MaxScale /\ Fits(rest(k)))
                    \/ rest(k) % 10 # 0
        k == CHOOSE i \in 0 .. s : stops(i) /\ \A j \in 0 .. i - 1 : ~stops(j)
    IN  IF s - k <= MaxScale /\ Fits(rest(k)) THEN Dec(rest(k), s - k)
        ELSE IF Fits(Trunc(m, 10^s)) THEN Failed("precision") ELSE Failed("overflow")

(* Decimal::normalize. *)
Normal(d) ==
    IF d.m = 0 THEN Dec(0, 0)
    ELSE LET k == CHOOSE i \in 0 .. d.s :
                      /\ d.m % 10^i = 0
                      /\ i < d.s => d.m % 10^(i + 1) # 0
         IN  Dec(Trunc(d.m, 10^k), d.s - k)

-----------------------------------------------------------------------------
(* Sums and products: a narrow path, and a wide one for what it refuses. *)

At(d, s) == d.m * 10^(s - d.s)

Narrow(x) == Abs(x) < Word

FastAdd(a, b, s) ==
    /\ Narrow(At(a, s)) /\ Narrow(At(b, s)) /\ Narrow(At(a, s) + At(b, s))
    /\ Fits(At(a, s) + At(b, s))

TryAdd(a, b) ==
    LET s == Larger(a.s, b.s)
    IN  IF FastAdd(a, b, s) THEN Dec(At(a, s) + At(b, s), s) ELSE Fit(At(a, s) + At(b, s), s)

Negate(d) == Dec(-d.m, d.s)
TrySub(a, b) == TryAdd(a, Negate(b))

FastMul(a, b) == Narrow(a.m * b.m) /\ Fits(a.m * b.m) /\ a.s + b.s <= MaxScale

TryMul(a, b) ==
    IF FastMul(a, b) THEN Dec(a.m * b.m, a.s + b.s) ELSE Fit(a.m * b.m, a.s + b.s)

(* The first failure ends a sum. *)
Sum(values) == FoldLeft(LAMBDA sum, v : IF IsHeld(sum) THEN TryAdd(sum, v) ELSE sum, Dec(0, 0), values)

SumExceeds(values, bound) ==
    LET common == FoldLeft(LAMBDA s, v : Larger(s, v.s), bound.s, values)
    IN  FoldLeft(LAMBDA sum, v : sum + At(v, common), 0, values) > At(bound, common)

-----------------------------------------------------------------------------
(* Quotients. *)

Zero(d) == d.m = 0

(* n / d of magnitudes, to the nearest integer, ties to even. *)
HalfEven(n, d) ==
    LET q == n \div d
    IN  IF 2 * (n % d) > d \/ (2 * (n % d) = d /\ q % 2 = 1) THEN q + 1 ELSE q

(* n / d rounded at the largest scale, of at most max, that can hold it. *)
HoldableScales(n, d, max) == {s \in 0 .. max : HalfEven(n * 10^s, d) < Limit}

(* rust_decimal's checked_div, as the engine relies on it: a quotient that *)
(* keeps more than PayoutScale places is within one unit of its last       *)
(* place, any other is the nearest.  No answer is an overflow.             *)
CheckedDivs(p, c) ==
    LET n == Abs(p.m) * 10^c.s
        d == Abs(c.m) * 10^p.s
        scales == HoldableScales(n, d, MaxScale)
        s == CHOOSE x \in scales : \A y \in scales : y <= x
        near == {q \in {(n * 10^s) \div d, HalfEven(n * 10^s, d), (n * 10^s) \div d + 1} :
                    q < Limit /\ Abs(q * d - n * 10^s) < d}
        exact == {HalfEven(n * 10^s, d)}
    IN  IF scales = {} THEN {}
        ELSE {Normal(Dec(Sign(p.m) * Sign(c.m) * q, s)) :
                 q \in IF s > PayoutScale /\ (n * 10^s) % d # 0 THEN near ELSE exact}

(* With every quotient taken for decided. *)
NeverMidpoint(q) == FALSE

(* round_held_quotient: undecided at a midpoint. *)
Midpoint(q) ==
    /\ q.s > PayoutScale
    /\ 2 * (Abs(q.m) % 10^(q.s - PayoutScale)) = 10^(q.s - PayoutScale)

RoundHeld(q) ==
    IF q.s <= PayoutScale THEN q
    ELSE Dec(Sign(q.m) * HalfEven(Abs(q.m), 10^(q.s - PayoutScale)), PayoutScale)

(* round_quotient: one division at the largest scale, then as few places   *)
(* dropped as make the coefficient fit, the remainder of the division kept *)
(* in the rounding.                                                        *)
RoundQuotient(sign, n, d, max) ==
    LET quotient == (n * 10^max) \div d
        remainder == (n * 10^max) % d
        kept(drop) ==
            LET unit == 10^drop
                twice == 2 * ((quotient % unit) * d + remainder)
                floor == quotient \div unit
            IN  IF twice > unit * d \/ (twice = unit * d /\ floor % 2 = 1) THEN floor + 1 ELSE floor
        tried == {drop \in 0 .. max : (quotient \div 10^drop) \div 10 < Limit /\ kept(drop) < Limit}
        drop == CHOOSE x \in tried : \A y \in tried : x <= y
    IN  IF tried = {} THEN Failed("overflow") ELSE Dec(sign * kept(drop), max - drop)

(* mul_div_ratio: a * b * c * d / e.  The answers it may give are those of *)
(* the quotients checked_div may give.                                     *)
WideMulDivRatio(factors, e) ==
    LET n == FoldLeft(LAMBDA x, f : x * Abs(f.m), 10^e.s, factors)
        d == FoldLeft(LAMBDA x, f : x * 10^f.s, Abs(e.m), factors)
        sign == FoldLeft(LAMBDA x, f : x * Sign(f.m), Sign(e.m), factors)
    IN  RoundQuotient(sign, n, d, PayoutScale)

Normalized(a) == IF IsHeld(a) THEN Normal(a) ELSE a

MulDivRatio(a, b, c, d, e) ==
    LET held == FoldLeft(LAMBDA p, f : IF IsHeld(p) THEN TryMul(p, f) ELSE p, a, <<b, c, d>>)
        wide == WideMulDivRatio(<<a, b, c, d>>, e)
        quotients == IF IsHeld(held) THEN CheckedDivs(held, e) ELSE {}
    IN  IF Zero(e) THEN {Failed("division_by_zero")}
        ELSE IF quotients = {} THEN {Normalized(wide)}
        ELSE {Normalized(IF Midpoint(q) THEN wide ELSE RoundHeld(q)) : q \in quotients}

(* mul_div_trunc *)
MulDivTrunc(a, b, c, scale) ==
    LET shift == c.s + scale - a.s - b.s
        n == a.m * b.m * 10^Larger(shift, 0)
        d == c.m * 10^Larger(-shift, 0)
    IN  IF Zero(c) THEN Failed("division_by_zero")
        ELSE IF scale > MaxScale THEN Failed("precision")
        ELSE Fit(Trunc(n, d), scale)

(* floor_div: truncated, and one less if that went up. *)
FloorDiv(a, b) ==
    LET n == a.m * 10^Larger(b.s - a.s, 0)
        d == b.m * 10^Larger(a.s - b.s, 0)
        q == Trunc(n, d)
    IN  IF Zero(b) THEN Failed("division_by_zero")
        ELSE Fit(IF q * d # n /\ (n < 0) # (d < 0) THEN q - 1 ELSE q, 0)

-----------------------------------------------------------------------------
(***************************************************************************)
(* Number text: digits (whole part and fraction together), places of them  *)
(* after the point, an exponent, a sign; json is FALSE for text that is    *)
(* not a JSON number.  An exponent beyond MaxExponent does not parse.      *)
(***************************************************************************)
DigitCount(n) == CHOOSE k \in 0 .. n : n < 10^k /\ (k > 0 => n >= 10^(k - 1))

WrittenScale(t) ==
    IF Abs(t.exponent) <= MaxExponent
    THEN Larger(0, IF t.places - t.exponent > MaxExponent THEN MaxExponent ELSE t.places - t.exponent)
    ELSE IF t.exponent < 0 THEN MaxExponent ELSE 0

(* Trailing zeros past MaxScale are not needed. *)
DropZeros(n, s) ==
    LET stops(k) == s - k <= MaxScale \/ (n \div 10^k) % 10 # 0
        k == CHOOSE i \in 0 .. s : stops(i) /\ \A j \in 0 .. i - 1 : ~stops(j)
    IN  [digits |-> n \div 10^k, s |-> s - k]

(* parse_exact *)
ParseExact(t) ==
    LET scale == t.places - t.exponent
        whole == scale < 0
        short == DropZeros(IF whole THEN t.digits * 10^(-scale) ELSE t.digits, Larger(0, scale))
    IN  IF ~t.json THEN Failed("refused")
        ELSE IF t.digits = 0 THEN Dec(0, 0)
        ELSE IF \/ Abs(t.exponent) > MaxExponent \/ scale > MaxExponent
                \/ scale < -Far \/ (whole /\ DigitCount(t.digits) - scale > Far)
        THEN Failed("unrepresentable")
        ELSE IF short.s > MaxScale \/ DigitCount(short.digits) > Long THEN Failed("unrepresentable")
        ELSE LET value == Fit(IF t.negative THEN -short.digits ELSE short.digits, short.s)
             IN  IF IsHeld(value) THEN value ELSE Failed("unrepresentable")

(* AuthoredDec: held to the envelope as it was written. *)
ParseAuthored(t) ==
    LET value == ParseExact(t)
    IN  IF ~IsHeld(value) THEN value
        ELSE IF WrittenScale(t) > MaxPlaces \/ Abs(value.m) >= Envelope * 10^value.s
        THEN Failed("refused") ELSE value

-----------------------------------------------------------------------------
(***************************************************************************)
(* A calculation asks for one result at a time.                            *)
(***************************************************************************)
VARIABLES
    asked,      \* the operation and its operands
    given       \* its answer

decimalVars == <<asked, given>>

NoQuestion == [op |-> "none"]

DecimalInit == asked = NoQuestion /\ given = Failed("none")

Asks(op, args) == asked' = [op |-> op, args |-> args]
Idle == asked = NoQuestion

Add == Idle /\ \E a, b \in Decs : Asks("add", <<a, b>>) /\ given' = TryAdd(a, b)
Subtract == Idle /\ \E a, b \in Decs : Asks("sub", <<a, b>>) /\ given' = TrySub(a, b)
Multiply == Idle /\ \E a, b \in Decs : Asks("mul", <<a, b>>) /\ given' = TryMul(a, b)
FloorDivide == Idle /\ \E a, b \in Decs : Asks("floor", <<a, b>>) /\ given' = FloorDiv(a, b)
SumUp == Idle /\ \E a, b, c \in Terms : Asks("sum", <<a, b, c>>) /\ given' = Sum(<<a, b, c>>)
Compare ==
    /\ Idle
    /\ \E a, b, bound \in Terms : Asks("exceeds", <<a, b, bound>>) /\ given' = SumExceeds(<<a, b>>, bound)
Ratio ==
    /\ Idle
    /\ \E a, b, c, d, e \in Factors :
          Asks("ratio", <<a, b, c, d, e>>) /\ given' \in MulDivRatio(a, b, c, d, e)
Truncate ==
    /\ Idle
    /\ \E a, b \in Factors, c \in Terms, scale \in 0 .. MaxScale + 1 :
          Asks("trunc", <<a, b, c, scale>>) /\ given' = MulDivTrunc(a, b, c, scale)
Read == Idle /\ \E t \in Texts : Asks("read", <<t>>) /\ given' = ParseExact(t)
ReadAuthored == Idle /\ \E t \in Texts : Asks("authored", <<t>>) /\ given' = ParseAuthored(t)

Use == asked # NoQuestion /\ asked' = NoQuestion /\ given' = Failed("none")

DecimalNext ==
    \/ Add \/ Subtract \/ Multiply \/ FloorDivide \/ SumUp \/ Compare
    \/ Ratio \/ Truncate \/ Read \/ ReadAuthored \/ Use

-----------------------------------------------------------------------------
(* An exact number x is a coefficient of any size at any scale. *)
Holdable(x) ==
    \E drop \in 0 .. x.s : /\ x.s - drop <= MaxScale
                           /\ x.m % 10^drop = 0 /\ Fits(Trunc(x.m, 10^drop))

SameNumber(x, y) == LET s == Larger(x.s, y.s) IN At(x, s) = At(y, s)

HeldExactly(x, a) ==
    IF IsHeld(a) THEN SameNumber(x, a) /\ Fits(a.m) /\ a.s <= MaxScale
    ELSE ~Holdable(x) /\ (a.kind = "overflow" <=> ~Fits(Trunc(x.m, 10^x.s)))

Exactly(a, b) == LET s == Larger(a.s, b.s) IN Dec(At(a, s) + At(b, s), s)

TextBelow(t, bound) ==
    LET scale == t.places - t.exponent
    IN  IF scale >= 0 THEN t.digits \div 10^scale < bound
        ELSE t.digits = 0 \/ (/\ DigitCount(t.digits) - scale <= DigitCount(bound)
                              /\ t.digits * 10^(-scale) < bound)

TextHoldable(t) ==
    LET scale == t.places - t.exponent
    IN  TextBelow(t, Limit) /\ (t.digits = 0 \/ scale <= 0 \/ Holdable(Dec(t.digits, scale)))

(* For every sum, product, comparison and text. *)
NumbersAreExact ==
    LET x == asked.args
    IN  CASE asked.op = "add" -> HeldExactly(Exactly(x[1], x[2]), given)
          [] asked.op = "sub" -> HeldExactly(Exactly(x[1], Negate(x[2])), given)
          [] asked.op = "mul" -> HeldExactly(Dec(x[1].m * x[2].m, x[1].s + x[2].s), given)
          [] asked.op = "sum" ->
                LET partial == Exactly(x[1], x[2])
                IN  IF Holdable(partial) THEN HeldExactly(Exactly(partial, x[3]), given)
                    ELSE ~IsHeld(given)
          [] asked.op = "exceeds" -> given = (Exactly(Exactly(x[1], x[2]), Negate(x[3])).m > 0)
          [] asked.op = "read" ->
                LET t == x[1]
                    scale == t.places - t.exponent
                IN  IF IsHeld(given) /\ t.digits # 0
                    THEN /\ t.json /\ (given.m < 0) = t.negative
                         /\ Abs(given.m) * 10^Larger(0, scale) = t.digits * 10^(given.s + Larger(0, -scale))
                    ELSE IsHeld(given) = (t.json /\ TextHoldable(t))
          [] asked.op = "authored" ->
                LET t == x[1]
                IN  IsHeld(given) = (t.json /\ WrittenScale(t) <= MaxPlaces /\ TextBelow(t, Envelope))
          [] OTHER -> TRUE

(* For every quotient. *)
QuotientsRoundOnce ==
    LET x == asked.args
    IN  CASE asked.op = "ratio" /\ ~Zero(x[5]) ->
                LET n == Abs(x[1].m * x[2].m * x[3].m * x[4].m) * 10^x[5].s
                    d == Abs(x[5].m) * 10^(x[1].s + x[2].s + x[3].s + x[4].s)
                    sign == Sign(x[1].m) * Sign(x[2].m) * Sign(x[3].m) * Sign(x[4].m) * Sign(x[5].m)
                    scales == HoldableScales(n, d, PayoutScale)
                IN  IF scales = {} THEN given.kind = "overflow"
                    ELSE given = Normal(Dec(sign * HalfEven(n * 10^Max(scales), d), Max(scales)))
          [] asked.op = "trunc" /\ ~Zero(x[3]) /\ x[4] <= MaxScale ->
                LET n == Abs(x[1].m * x[2].m) * 10^(x[3].s + x[4])
                    d == Abs(x[3].m) * 10^(x[1].s + x[2].s)
                    cut == Abs(given.m) * 10^(x[4] - given.s)
                IN  IF IsHeld(given)
                    THEN /\ cut * d <= n /\ n < (cut + 1) * d
                         /\ cut # 0 => Sign(given.m) = Sign(x[1].m) * Sign(x[2].m) * Sign(x[3].m)
                    ELSE ~Holdable(Dec(n \div d, x[4]))
          [] asked.op = "floor" /\ ~Zero(x[2]) ->
                LET floor == (Sign(x[2].m) * x[1].m * 10^x[2].s) \div (Abs(x[2].m) * 10^x[1].s)
                IN  given = IF Fits(floor) THEN Dec(floor, 0) ELSE Failed("overflow")
          [] asked.op \in {"ratio", "trunc", "floor"} -> ~IsHeld(given)
          [] OTHER -> TRUE

(* Nothing is rounded where a sum, a product or a number's text is held:   *)
(* the answer is the exact number, refused only when no coefficient below  *)
(* the limit holds it at any scale, as an overflow only when its whole     *)
(* part is too large; a sum is compared even where it is refused; every    *)
(* authored value within the envelope is held.  And a quotient is rounded  *)
(* once: whichever path decides a ratio of volumes, and whatever           *)
(* checked_div did in its last place, the answer is the exact ratio to the *)
(* nearest even at the payout scale, or at the largest smaller one that    *)
(* holds it; a truncated one is cut toward zero, a floored one toward the  *)
(* lower integer.                                                          *)
DecimalsAreExact == NumbersAreExact /\ QuotientsRoundOnce

=============================================================================
