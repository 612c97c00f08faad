----------------------------- MODULE LockTimes ------------------------------
(***************************************************************************)
(* Absolute lock times, relative lock times and sequence numbers of        *)
(* units/src, asked about a transaction while the chain it waits for       *)
(* grows.  A block has a timestamp above the median of the window before   *)
(* it (that is consensus, and external); heights and times are unscaled in *)
(* relation to each other, the constants below are small.                  *)
(***************************************************************************)
EXTENDS Integers, Sequences, FiniteSets, SequencesExt

CONSTANTS
  LOCK_TIME_THRESHOLD,  \* lock times below are heights
  WINDOW,               \* timestamps in a median: 11
  INTERVAL,             \* seconds in an interval of a relative lock: 512
  LOW,                  \* values of the low bits of a sequence: 2^16
  LOCK_TYPE_MASK, LOCK_TIME_DISABLE_FLAG_MASK,
  U32,                  \* values of a u32
  LockValues,           \* bound: lock times of the transaction
  SequenceValues,       \* bound: sequences of its inputs
  Genesis,              \* bound: chains to start from
  MaxHeight,            \* bound: height of the chain
  MaxStep               \* bound: seconds of a timestamp above the median

LockTimesAssumption ==
  /\ {INTERVAL, LOW, LOCK_TYPE_MASK, LOCK_TIME_DISABLE_FLAG_MASK, MaxStep, MaxHeight,
      LOCK_TIME_THRESHOLD} \subseteq Nat \ {0}
  /\ WINDOW \in Nat /\ WINDOW % 2 = 1
  /\ LOW <= LOCK_TYPE_MASK /\ LOCK_TYPE_MASK % LOW = 0
  /\ 2 * LOCK_TYPE_MASK <= LOCK_TIME_DISABLE_FLAG_MASK
  /\ U32 = 2 * LOCK_TIME_DISABLE_FLAG_MASK
  /\ LockValues \cup SequenceValues \subseteq 0 .. U32 - 1
  /\ \A c \in Genesis : c \in Seq(Nat) /\ Len(c) > WINDOW

VARIABLES
  chain,        \* timestamps of the blocks, genesis first
  coins,        \* heights at which the outputs spent were mined
  tx            \* lock_time and the sequences of its inputs

lockVars == <<chain, coins, tx>>

-----------------------------------------------------------------------------
(* Medians.                                                                 *)

\* Mutant: the timestamps are taken as they come.
BlockMtp_Unsorted(timestamps) == timestamps[WINDOW \div 2 + 1]

\* Where an element goes when the sequence is sorted.
Rank(s, i) == Cardinality({j \in DOMAIN s : s[j] < s[i] \/ (s[j] = s[i] /\ j <= i)})
Sorted(s) == [k \in DOMAIN s |-> s[CHOOSE i \in DOMAIN s : Rank(s, i) = k]]

BlockMtp(timestamps) == Sorted(timestamps)[WINDOW \div 2 + 1]

height == Len(chain) - 1

\* The median time past of the block at height h, h at least WINDOW - 1.
MtpAt(h) == BlockMtp(SubSeq(chain, h + 2 - WINDOW, h + 1))
tip == MtpAt(height)

-----------------------------------------------------------------------------
(* Absolute lock times.                                                     *)

is_block_height(n) == n < LOCK_TIME_THRESHOLD

Lock(unit, value) == [unit |-> unit, value |-> value]

from_consensus(n) == Lock(IF is_block_height(n) THEN "Blocks" ELSE "Seconds", n)

is_same_unit(a, b) == a.unit = b.unit

HeightSatisfied(lock, tip_height) == lock <= tip_height + 1

MtpSatisfied(lock, mtp) == lock < mtp

is_satisfied_by(lock, tip_height, mtp) ==
  IF lock.unit = "Blocks" THEN HeightSatisfied(lock.value, tip_height)
                          ELSE MtpSatisfied(lock.value, mtp)

is_implied_by(lock, other) == is_same_unit(lock, other) /\ lock.value <= other.value

-----------------------------------------------------------------------------
(* Sequences, and relative lock times.                                      *)

BitIsSet(n, mask) == (n \div mask) % 2 = 1

enables_absolute_lock_time(s) == s # U32 - 1

is_relative_lock_time(s) == ~BitIsSet(s, LOCK_TIME_DISABLE_FLAG_MASK)
is_time_locked(s) == is_relative_lock_time(s) /\ BitIsSet(s, LOCK_TYPE_MASK)
low_u16(s) == s % LOW

\* The Option as a set; LockTime::from_consensus and from_sequence are the same.
to_relative_lock_time(s) ==
  IF is_relative_lock_time(s)
  THEN {Lock(IF is_time_locked(s) THEN "Time" ELSE "Blocks", low_u16(s))} ELSE {}

to_sequence(lock) == lock.value + (IF lock.unit = "Time" THEN LOCK_TYPE_MASK ELSE 0)

is_implied_by_sequence(lock, s) ==
  \E other \in to_relative_lock_time(s) : is_implied_by(lock, other)

to_seconds(intervals) == intervals * INTERVAL

from_seconds_floor(seconds) == {i \in {seconds \div INTERVAL} : i < LOW}

from_seconds_ceil(seconds) ==
  IF seconds <= (LOW - 1) * INTERVAL
  THEN {(seconds + INTERVAL - 1) \div INTERVAL} ELSE {}

\* Mutant: counted from the tip itself and not from the block after it.
BlocksSatisfied_AtTip(n, chain_tip, utxo_mined_at) ==
  chain_tip >= utxo_mined_at /\ n <= chain_tip - utxo_mined_at

BlocksSatisfied(n, chain_tip, utxo_mined_at) ==
  /\ chain_tip >= utxo_mined_at            \* or InvalidHeightError
  /\ \/ chain_tip - utxo_mined_at = U32 - 1
     \/ n <= chain_tip - utxo_mined_at + 1

TimeSatisfied(intervals, chain_tip, utxo_mined_at) ==
  /\ chain_tip >= utxo_mined_at            \* or InvalidTimeError
  /\ to_seconds(intervals) <= chain_tip - utxo_mined_at

relative_is_satisfied_by(lock, tip_height, tip_mtp, mined_height, mined_mtp) ==
  IF lock.unit = "Blocks" THEN BlocksSatisfied(lock.value, tip_height, mined_height)
                          ELSE TimeSatisfied(lock.value, tip_mtp, mined_mtp)

-----------------------------------------------------------------------------
(* The transaction.                                                         *)

is_lock_time_enabled(t) == \E i \in DOMAIN t.sequences : enables_absolute_lock_time(t.sequences[i])

is_absolute_timelock_satisfied(t, tip_height, mtp) ==
  is_lock_time_enabled(t) => is_satisfied_by(from_consensus(t.lock_time), tip_height, mtp)

\* What a wallet asks of an input before it broadcasts.  The coin's time is the median
\* its own block had to exceed, as in BIP 68.
InputSatisfied(i) ==
  \A lock \in to_relative_lock_time(tx.sequences[i]) :
    relative_is_satisfied_by(lock, height, tip, coins[i], MtpAt(coins[i] - 1))

LockInit ==
  /\ chain \in Genesis
  /\ tx \in [lock_time : LockValues, sequences : [1 .. 2 -> SequenceValues]]
  /\ coins \in [1 .. 2 -> WINDOW .. height]

MineBlock ==
  /\ height < MaxHeight
  /\ \E t \in tip + 1 .. tip + MaxStep : chain' = Append(chain, t)
  /\ UNCHANGED <<coins, tx>>

BoundReached == height = MaxHeight /\ UNCHANGED lockVars

LockNext == MineBlock \/ BoundReached
LockSpec == LockInit /\ [][LockNext]_lockVars

-----------------------------------------------------------------------------
(* Properties.                                                              *)

\* What consensus makes of the raw numbers: IsFinalTx with BIP 113, and BIP 68.
IsFinal ==
  \/ \A i \in DOMAIN tx.sequences : tx.sequences[i] = U32 - 1
  \/ tx.lock_time < (IF tx.lock_time < LOCK_TIME_THRESHOLD THEN height + 1 ELSE tip)

SequenceLockPassed(i) ==
  LET s == tx.sequences[i]
      n == s % LOW
  IN  \/ BitIsSet(s, LOCK_TIME_DISABLE_FLAG_MASK)
      \/ IF BitIsSet(s, LOCK_TYPE_MASK)
           THEN MtpAt(coins[i] - 1) + n * INTERVAL - 1 < tip
           ELSE coins[i] + n - 1 < height + 1

\* A relative lock or a lock by time is satisfied exactly if consensus admits the
\* transaction to the next block, whatever the bits of the sequence that have no meaning;
\* and no transaction that consensus admits is held back, by a lock by height either.
SatisfiedIsMineable ==
  /\ \A i \in DOMAIN coins : InputSatisfied(i) <=> SequenceLockPassed(i)
  /\ IsFinal => is_absolute_timelock_satisfied(tx, height, tip)
  /\ ~is_block_height(tx.lock_time) =>
       (is_absolute_timelock_satisfied(tx, height, tip) => IsFinal)

\* A lock by height h allows block h + 1 and later ones, as the note on from_height says:
\* a transaction that is_absolute_timelock_satisfied passes can go into the next block.
HeightLockIsMineable ==
  is_block_height(tx.lock_time) =>
    (is_absolute_timelock_satisfied(tx, height, tip) => IsFinal)

\* A lock that another one implies is satisfied when that one is: the argument of
\* OP_CHECKLOCKTIMEVERIFY by the lock time, that of OP_CHECKSEQUENCEVERIFY by the sequence.
ImpliedIsSatisfied ==
  /\ \A n \in LockValues :
       LET lock == from_consensus(n)
           other == from_consensus(tx.lock_time)
       IN  is_implied_by(lock, other) /\ is_satisfied_by(other, height, tip) =>
             is_satisfied_by(lock, height, tip)
  /\ \A i \in DOMAIN coins : \A n \in SequenceValues :
       \A lock \in to_relative_lock_time(n) :
         is_implied_by_sequence(lock, tx.sequences[i]) /\ InputSatisfied(i) =>
           relative_is_satisfied_by(lock, height, tip, coins[i], MtpAt(coins[i] - 1))

\* Seconds rounded up to intervals are seconds that have passed when the lock opens,
\* rounded down the lock is open once they have; an error means no interval would do; and
\* a lock comes back from its sequence.
SecondsAreWaited ==
  LET Mined == {MtpAt(coins[i] - 1) : i \in DOMAIN coins}
  IN  /\ \A seconds \in 0 .. U32 - 1 :
           /\ \A n \in from_seconds_ceil(seconds), m \in Mined :
                TimeSatisfied(n, tip, m) => tip - m >= seconds
           /\ \A n \in from_seconds_floor(seconds), m \in Mined :
                tip - m >= seconds => TimeSatisfied(n, tip, m)
           /\ from_seconds_ceil(seconds) = {} <=> to_seconds(LOW - 1) < seconds
           /\ from_seconds_floor(seconds) = {} <=> to_seconds(LOW) <= seconds
      /\ \A unit \in {"Blocks", "Time"}, n \in 0 .. LOW - 1 :
           to_relative_lock_time(to_sequence(Lock(unit, n))) = {Lock(unit, n)}

\* What was satisfied stays satisfied while the chain grows: a timestamp may be lower than
\* the one before, a median never is.
StaysSatisfied ==
  /\ is_absolute_timelock_satisfied(tx, height, tip) =>
       is_absolute_timelock_satisfied(tx, height, tip)'
  /\ \A i \in DOMAIN coins : InputSatisfied(i) => InputSatisfied(i)'
SatisfiedStays == [][StaysSatisfied]_lockVars

=============================================================================
