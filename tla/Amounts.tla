------------------------------- MODULE Amounts -------------------------------
(***************************************************************************)
(* units: amounts of satoshis, their text in a denomination, the sums that *)
(* are made of them, and the fees between amounts, weights and fee rates.  *)
(* A denomination is the number of its decimals.  A thousand is KILO, so   *)
(* that a fee rate is counted in satoshis for KILO^2 virtual bytes.        *)
(***************************************************************************)
EXTENDS Integers, Sequences, SequencesExt

CONSTANTS
  MAX_MONEY, I64_MAX, U64_MAX,   \* in the order of their sizes
  KILO,
  Denominations,                 \* sets of numbers of decimals
  Rates, Weights,                \* that fees are computed from
  Operands,                      \* of a sum
  Symbols, MaxText,              \* bound: texts
  MaxSum                         \* bound: operations of a sum

VARIABLES
  text,       \* what is parsed, a digit or one of the symbols below
  total,      \* the NumOpResult of a sum of SignedAmounts
  steps       \* what was done to it
amountVars == <<text, total, steps>>

UNDERSCORE == 10
DOT == 11
MINUS == 12
LETTER == 13
Digits == 0 .. 9

Valid(value) == <<"valid", value>>
Error == <<"error">>
Check(value, ok) == IF ok THEN Valid(value) ELSE Error

(************************************** Text **************************************)

\* is_too_precise for satoshis, which have no decimals: a dot needs a number before it and
\* nothing but zeros after it.
dot(s) == IF Contains(s, DOT) THEN SelectInSeq(s, LAMBDA c : c = DOT) ELSE 0
is_too_precise(s) ==
  dot(s) # 0 /\ (dot(s) = 1 \/ \E k \in dot(s) + 1 .. Len(s) : s[k] # 0)

\* One character of the loop of parse_signed_to_satoshi; decimals is -1 before the dot.
character(acc, c, max_decimals) ==
  CASE c \in Digits ->
         [value |-> 10 * acc.value + c,
          ok |-> 10 * acc.value + c <= I64_MAX /\ acc.decimals < max_decimals,
          decimals |-> IF acc.decimals = -1 THEN -1 ELSE acc.decimals + 1,
          underscore |-> FALSE, start |-> FALSE]
    [] c = UNDERSCORE ->
         [acc EXCEPT !.ok = ~acc.start /\ ~acc.underscore, !.underscore = TRUE]
    [] c = DOT ->
         [acc EXCEPT !.ok = acc.decimals = -1, !.decimals = 0, !.underscore = FALSE,
                     !.start = FALSE]
    [] OTHER -> [acc EXCEPT !.ok = FALSE]

\* parse_signed_to_satoshi.
parse_signed_to_satoshi(s, max_decimals) ==
  LET is_negative == s # <<>> /\ s[1] = MINUS
      body == IF is_negative THEN Tail(s) ELSE s
      number == IF max_decimals = 0 /\ dot(body) # 0 THEN SubSeq(body, 1, dot(body) - 1) ELSE body
      read == FoldLeft(LAMBDA acc, c : IF acc.ok THEN character(acc, c, max_decimals) ELSE acc,
                       [value |-> 0, ok |-> TRUE, decimals |-> -1, underscore |-> FALSE,
                        start |-> TRUE], number)
      value == read.value * 10 ^ (max_decimals - (IF read.decimals = -1 THEN 0 ELSE read.decimals))
  IN  IF body = <<>> \/ (max_decimals = 0 /\ is_too_precise(body)) \/ ~read.ok THEN Error
      ELSE Check(IF is_negative THEN -value ELSE value, value <= MAX_MONEY)

\* Amount::from_str_in: a minus is an error, before a zero too.
from_str_in(s, denom) ==
  IF s # <<>> /\ s[1] = MINUS THEN Error ELSE parse_signed_to_satoshi(s, denom)

\* fmt_satoshi_in: to the decimals that are asked for, half up, or -1 for all there are; the
\* zeros that were not asked for are left out.
Decimal(n) ==
  LET Write[m \in 0 .. n] == IF m < 10 THEN <<m>> ELSE Append(Write[m \div 10], m % 10)
  IN  Write[n]
fmt_satoshi_in(sats, precision, asked) ==
  LET divisor == IF asked \in 0 .. precision THEN 10 ^ (precision - asked) ELSE 1
      rounded == IF asked \notin 0 .. precision - 1 THEN sats
                 ELSE sats - (sats % divisor)
                        + (IF (sats % divisor) \div (divisor \div 10) >= 5 THEN divisor ELSE 0)
      before == rounded \div 10 ^ precision
      after == [k \in 1 .. precision |-> (rounded \div 10 ^ (precision - k)) % 10]
      kept == {k \in 1 .. precision : after[k] # 0} \cup {asked, 0}
      decimals == CHOOSE k \in kept : \A other \in kept : other <= k
      Digit(k) == IF k \in DOMAIN after THEN after[k] ELSE 0
  IN  Decimal(before)
        \o (IF decimals = 0 THEN <<>> ELSE <<DOT>> \o [k \in 1 .. decimals |-> Digit(k)])

(********************************* Sums and fees **********************************)

\* SignedAmount::from_sat, the checked operations, and the operators of NumOpResult: an
\* operation on an error, or by an error, is an error.
from_sat(n) == Check(n, n \in -MAX_MONEY .. MAX_MONEY)
truncated(n, m) ==
  LET Abs(x) == IF x < 0 THEN -x ELSE x
      quotient == Abs(n) \div Abs(m)
  IN  IF (n < 0) = (m < 0) THEN quotient ELSE -quotient
apply(op, n, m) ==
  CASE op = "add" -> from_sat(n + m)
    [] op = "sub" -> from_sat(n - m)
    [] op = "mul" -> IF n * m \in -I64_MAX .. I64_MAX THEN from_sat(n * m) ELSE Error
    [] op = "div" -> IF m = 0 THEN Error ELSE from_sat(truncated(n, m))
    [] OTHER -> IF m = 0 THEN Error ELSE from_sat(n - m * truncated(n, m))
and_then(result, op, m) == IF result = Error THEN Error ELSE apply(op, result[2], m)

div_ceil(n, m) == (n + m - 1) \div m
per_kwu == 4 * KILO

\* FeeRate::from_per_kwu, to_sat_per_kwu_ceil and to_sat_per_kwu_floor.
from_per_kwu(amount) ==
  Check(amount * per_kwu, amount * per_kwu <= MAX_MONEY)
to_sat_per_kwu_ceil(rate) == div_ceil(rate, per_kwu)
to_sat_per_kwu_floor(rate) == rate \div per_kwu

\* FeeRate::mul_by_weight and to_fee.
mul_by_weight(rate, wu) ==
  LET fee_kwu == to_sat_per_kwu_ceil(rate) * wu
      fee == div_ceil(fee_kwu, KILO)
  IN  Check(fee, fee_kwu <= U64_MAX /\ fee <= MAX_MONEY)
to_fee(rate, wu) ==
  IF mul_by_weight(rate, wu) = Error THEN MAX_MONEY ELSE mul_by_weight(rate, wu)[2]

\* Amount::div_by_weight_floor, div_by_weight_ceil, div_by_fee_rate_floor, div_by_fee_rate_ceil.
div_by_weight_floor(sats, wu) ==
  IF wu = 0 \/ (sats * KILO) \div wu > MAX_MONEY THEN Error
  ELSE from_per_kwu((sats * KILO) \div wu)
div_by_weight_ceil(sats, wu) ==
  IF wu = 0 \/ div_ceil(sats * KILO, wu) > MAX_MONEY THEN Error
  ELSE from_per_kwu(div_ceil(sats * KILO, wu))
div_by_fee_rate_floor(sats, rate) ==
  IF to_sat_per_kwu_ceil(rate) = 0 THEN Error
  ELSE Valid((sats * KILO) \div to_sat_per_kwu_ceil(rate))
div_by_fee_rate_ceil(sats, rate) ==
  IF to_sat_per_kwu_ceil(rate) = 0 THEN Error
  ELSE Valid(div_ceil(sats * KILO, to_sat_per_kwu_ceil(rate)))

\* bitcoin: effective_value, what an input is worth after its own fee.
effective_value(rate, wu, value) == apply("sub", value, to_fee(rate, wu))

(************************************ Behaviour ***********************************)

AmountInit == text = <<>> /\ total = Valid(0) /\ steps = <<>>

Type(c) == Len(text) < MaxText /\ text' = Append(text, c) /\ UNCHANGED <<total, steps>>
Compute(op, m) ==
  /\ text = <<>> /\ Len(steps) < MaxSum
  /\ total' = and_then(total, op, m) /\ steps' = Append(steps, <<op, m>>)
  /\ UNCHANGED text

AmountNext ==
  \/ steps = <<>> /\ \E c \in Symbols : Type(c)
  \/ \E op \in {"add", "sub", "mul", "div", "rem"}, m \in Operands : Compute(op, m)

(************************************ Properties **********************************)

\* The texts of amounts: a number with underscores inside it, single ones and none at the
\* start, and at most one dot, with no more decimals than the denomination has; satoshis may
\* have a dot after the number, with zeros and nothing else behind it.
Body(s) == IF s # <<>> /\ s[1] = MINUS THEN Tail(s) ELSE s
Before(s) == IF dot(s) = 0 THEN s ELSE SubSeq(s, 1, dot(s) - 1)
After(s) == IF dot(s) = 0 THEN <<>> ELSE SubSeq(s, dot(s) + 1, Len(s))
OnlyDigits(s) == SelectSeq(s, LAMBDA c : c \in Digits)
IsAmount(s, decimals) ==
  LET b == Body(s)
      parts == Before(b) \o After(b)
  IN  /\ b # <<>> /\ \A k \in DOMAIN parts : parts[k] \in Digits \cup {UNDERSCORE}
      /\ b[1] # UNDERSCORE
      /\ \A k \in 2 .. Len(b) : ~(b[k] = UNDERSCORE /\ b[k - 1] = UNDERSCORE)
      /\ IF decimals > 0 THEN Len(OnlyDigits(After(b))) <= decimals
         ELSE dot(b) # 1 /\ \A k \in DOMAIN After(b) : After(b)[k] = 0
ValueOf(s, decimals) ==
  LET b == Body(s)
      digits == OnlyDigits(Before(b))
                  \o (IF decimals = 0 THEN <<>> ELSE OnlyDigits(After(b)))
      shift == IF decimals = 0 THEN 0 ELSE decimals - Len(OnlyDigits(After(b)))
  IN  10 ^ shift * FoldLeft(LAMBDA n, c : 10 * n + c, 0, digits)

\* A text is accepted exactly if it is an amount that there can be, and is that amount; an
\* amount is read back from its text, and a text with fewer decimals is the nearest amount.
TextsAreAmounts ==
  /\ \A d \in Denominations :
       LET value == ValueOf(text, d)
           negative == text # <<>> /\ text[1] = MINUS
           good == IsAmount(text, d) /\ value <= MAX_MONEY
       IN  /\ parse_signed_to_satoshi(text, d) = Check(IF negative THEN -value ELSE value, good)
           /\ from_str_in(text, d) = Check(value, good /\ ~negative)
  /\ text = <<>> /\ steps = <<>> =>
       \A d \in Denominations, n \in 0 .. MAX_MONEY :
         /\ from_str_in(fmt_satoshi_in(n, d, -1), d) = Valid(n)
         /\ \A asked \in 0 .. d :
              LET shown == ValueOf(fmt_satoshi_in(n, d, asked), d)
              IN  /\ shown % 10 ^ (d - asked) = 0
                  /\ 2 * (shown - n) <= 10 ^ (d - asked) /\ 2 * (n - shown) < 10 ^ (d - asked)

\* A sum is exact, or it is an error from the first step on that leaves the range.
Exact(n, step) ==
  CASE step[1] = "add" -> n + step[2] [] step[1] = "sub" -> n - step[2]
    [] step[1] = "mul" -> n * step[2]
    [] step[1] = "div" -> CHOOSE q \in -MAX_MONEY .. MAX_MONEY :
         LET rest == n - q * step[2] IN
           /\ rest * n >= 0 /\ rest * rest < step[2] * step[2]
    [] OTHER -> CHOOSE rest \in -MAX_MONEY .. MAX_MONEY :
         /\ rest * n >= 0 /\ rest * rest < step[2] * step[2]
         /\ \E q \in -MAX_MONEY .. MAX_MONEY : n = q * step[2] + rest
Possible(n, step) ==
  /\ step[1] \in {"div", "rem"} => step[2] # 0
  /\ Exact(n, step) \in -MAX_MONEY .. MAX_MONEY
SumsAreExact ==
  total = FoldLeft(LAMBDA r, step :
                     IF r = Error \/ ~Possible(r[2], step) THEN Error
                     ELSE Valid(Exact(r[2], step)), Valid(0), steps)

\* A fee pays the rate for the weight, and less than two satoshis more than the rate of whole
\* satoshis does; the rate that is derived from a fee pays it, or does not exceed it; the
\* weight that is derived from a fee is the largest that it pays for, or one that costs it.
FeesPayTheRate ==
  \A rate \in Rates, wu \in Weights :
    LET fee == mul_by_weight(rate, wu)
    IN  /\ fee # Error =>
             /\ fee[2] * per_kwu * KILO >= rate * wu
             /\ (fee[2] - 1) * KILO < (to_sat_per_kwu_floor(rate) + 1) * wu \/ fee[2] = 0
        /\ \A sats \in Operands \cap 0 .. MAX_MONEY :
             LET floor == div_by_weight_floor(sats, wu)
                 ceil == div_by_weight_ceil(sats, wu)
                 most == div_by_fee_rate_floor(sats, rate)
                 enough == div_by_fee_rate_ceil(sats, rate)
             IN  /\ floor # Error => to_fee(floor[2], wu) <= sats
                 /\ ceil # Error => to_fee(ceil[2], wu) >= sats
                 /\ most # Error => /\ to_fee(rate, most[2]) <= sats
                                    /\ sats < MAX_MONEY => to_fee(rate, most[2] + 1) > sats
                 /\ enough # Error => to_fee(rate, enough[2]) >= sats
                 /\ effective_value(rate, wu, sats) # Error

\* What is computed from amounts is right: their texts, their sums, and their fees.
AmountsAreExact ==
  /\ steps = <<>> => TextsAreAmounts
  /\ SumsAreExact
  /\ text = <<>> /\ steps = <<>> => FeesPayTheRate

=============================================================================
