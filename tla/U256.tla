-------------------------------- MODULE U256 --------------------------------
(***************************************************************************)
(* The 256-bit integer of include/u256.rs, two 128-bit words, over words   *)
(* of 2 * Bits bits: what its loops over words and bits compute, against   *)
(* the arithmetic of numbers.  Bits stands for 64, a U256 has 4 * Bits.    *)
(***************************************************************************)
EXTENDS Integers, SequencesExt

CONSTANT Bits

U256Assumption == Bits \in Nat \ {0}

U64 == 2 ^ Bits
Word == 2 * Bits
U128 == 2 ^ Word
Width == 2 * Word
AllU256 == 2 ^ Width

\* A number and its two words, the high one first.
Split(x) == <<x \div U128, x % U128>>
Value(u) == u[1] * U128 + u[2]
U256s == (0 .. U128 - 1) \X (0 .. U128 - 1)

ZERO == <<0, 0>>
ONE == <<0, 1>>
MAX == <<U128 - 1, U128 - 1>>

Less(a, b) == a[1] < b[1] \/ (a[1] = b[1] /\ a[2] < b[2])

\* Bits up to the highest one that is set.
WordBits(w) == CHOOSE b \in 0 .. Word : w < 2 ^ b /\ (b = 0 \/ w >= 2 ^ (b - 1))
bits(u) == IF u[1] > 0 THEN Word + WordBits(u[1]) ELSE WordBits(u[2])

bit_not(u) == <<U128 - 1 - u[1], U128 - 1 - u[2]>>

\* The sum, and whether it overflowed.
overflowing_add(a, b) ==
  LET high == a[1] + b[1]
      low == a[2] + b[2]
      carried == (high % U128) + 1
  IN  IF low < U128 THEN <<<<high % U128, low>>, high >= U128>>
      ELSE <<<<carried % U128, low % U128>>, high >= U128 \/ carried >= U128>>

wrapping_add(a, b) == overflowing_add(a, b)[1]

overflowing_sub(a, b) == <<wrapping_add(wrapping_add(a, bit_not(b)), ONE), Less(a, b)>>
wrapping_sub(a, b) == overflowing_sub(a, b)[1]

wrapping_inc(u) ==
  LET low == (u[2] + 1) % U128
  IN  <<IF low = 0 THEN (u[1] + 1) % U128 ELSE u[1], low>>

wrapping_shl(u, n) ==
  LET shift == n % Width
      bit_shift == shift % Word
      Up(w) == (w * 2 ^ bit_shift) % U128
  IN  IF shift >= Word THEN <<Up(u[2]), 0>>
      ELSE <<Up(u[1]) + (IF bit_shift > 0 THEN u[2] \div 2 ^ (Word - bit_shift) ELSE 0), Up(u[2])>>

wrapping_shr(u, n) ==
  LET shift == n % Width
      bit_shift == shift % Word
      Down(w) == w \div 2 ^ bit_shift
  IN  IF shift >= Word THEN <<0, Down(u[1])>>
      ELSE <<Down(u[1]),
             Down(u[2]) + (IF bit_shift > 0 THEN (u[1] * 2 ^ (Word - bit_shift)) % U128 ELSE 0)>>

\* The four 64-bit words, low one first, each multiplied with the carry of the one below.
mul_u64(u, n) ==
  LET Limbs == <<u[2] % U64, u[2] \div U64, u[1] % U64, u[1] \div U64>>
      Step(limb, acc) ==
        LET m == acc.carry + n * limb
        IN  [words |-> Append(acc.words, m % U64), carry |-> m \div U64]
      r == FoldLeft(LAMBDA acc, limb : Step(limb, acc), [words |-> <<>>, carry |-> 0], Limbs)
      w == r.words
  IN  <<<<w[3] + w[4] * U64, w[1] + w[2] * U64>>, r.carry # 0>>

overflowing_mul(a, b) ==
  LET Step(acc, i) ==
        LET m == mul_u64(a, wrapping_shr(b, Bits * i)[2] % U64)
            shifted_out == i > 0 /\ wrapping_shr(m[1], Width - Bits * i) # ZERO
            sum == overflowing_add(acc[1], wrapping_shl(m[1], Bits * i))
        IN  <<sum[1], acc[2] \/ m[2] \/ shifted_out \/ sum[2]>>
  IN  FoldLeft(Step, <<ZERO, FALSE>>, <<0, 1, 2, 3>>)

\* Long division, a bit of the quotient after the other; b # ZERO.
div_rem(a, b) ==
  LET shift == bits(a) - bits(b)
      Step(acc, i) ==
        LET place == shift - i
            d == wrapping_shr(wrapping_shl(b, shift), i)
        IN  IF Less(acc[2], d) THEN acc
            ELSE <<wrapping_add(acc[1], wrapping_shl(ONE, place)), wrapping_sub(acc[2], d)>>
  IN  IF shift < 0 THEN <<ZERO, a>>
      ELSE FoldLeft(Step, <<ZERO, a>>, [i \in 1 .. shift + 1 |-> i - 1])

inverse(u) ==
  IF u = ZERO \/ u = ONE THEN MAX
  ELSE IF u = MAX THEN ONE
  ELSE wrapping_inc(div_rem(bit_not(u), wrapping_inc(u))[1])

-----------------------------------------------------------------------------
\* Every operation on two words is the operation on numbers, and each says when the
\* number does not fit: sums, differences, products, quotients with rest, shifts.
ArithmeticIsExact(a, b) ==
  LET x == Value(a)
      y == Value(b)
      Is(r, n, overflow) == Value(r[1]) = (n % AllU256) /\ r[2] = overflow
  IN  /\ Is(overflowing_add(a, b), x + y, x + y >= AllU256)
      /\ Is(overflowing_sub(a, b), x - y, x < y)
      /\ Is(overflowing_mul(a, b), x * y, x * y >= AllU256)
      /\ Is(mul_u64(a, b[2] % U64), x * (b[2] % U64), x * (b[2] % U64) >= AllU256)
      /\ b # ZERO => div_rem(a, b) = <<Split(x \div y), Split(x % y)>>
      /\ \A n \in 0 .. Width - 1 :
           /\ Value(wrapping_shl(a, n)) = (x * 2 ^ n) % AllU256
           /\ Value(wrapping_shr(a, n)) = x \div 2 ^ n

\* Work is 2^256 / (target + 1), rounded down, save for the targets 0 and 1 which are as
\* much work as there can be; so a smaller target is never less work.
InverseIsWork(a, b) ==
  /\ a \notin {ZERO, ONE} => Value(inverse(a)) = AllU256 \div (Value(a) + 1)
  /\ Less(a, b) => ~Less(inverse(a), inverse(b))

=============================================================================
