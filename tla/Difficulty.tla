----------------------------- MODULE Difficulty -----------------------------
(***************************************************************************)
(* Targets of units/src/pow.rs in full and in compact form, and            *)
(* next_target_after of bitcoin/src/pow.rs, which a chain of headers grows *)
(* by.  A byte has the values 0 .. Base - 1, a target Digits of them, the  *)
(* mantissa of a compact target three, and its highest bit is the sign.    *)
(* The arithmetic of U256 is that of numbers modulo AllTargets, as the     *)
(* module U256 shows.                                                      *)
(***************************************************************************)
EXTENDS Integers, SequencesExt

CONSTANTS
  Base,             \* values of a byte: 256
  Digits,           \* bytes of a target: 32
  Nets,             \* the consensus parameters of the networks
  StartBits,        \* bound: compact targets of the first header
  MaxBlocks,        \* bound: headers
  Times             \* bound: seconds from one header to the next, negative ones too

\* The retarget interval is more than one block, and no network both retargets and has
\* a limit which the arithmetic of a retarget would overflow.
DifficultyAssumption ==
  /\ Base \in Nat /\ Base % 2 = 0 /\ Digits \in Nat /\ Digits > 3
  /\ \A net \in Nets :
       /\ net.pow_target_timespan > net.pow_target_spacing /\ net.pow_target_timespan % 4 = 0
       /\ net.max_attainable_target \in 1 .. Base ^ Digits - 1
       /\ net.no_pow_retargeting \/
            net.max_attainable_target * 4 * net.pow_target_timespan < Base ^ Digits

VARIABLES
  net,              \* the Params of the chain
  headers           \* time and bits of each

difficultyVars == <<net, headers>>

AllTargets == Base ^ Digits
Mantissas == Base ^ 3
SignBit == Mantissas \div 2

Lesser(a, b) == IF a <= b THEN a ELSE b
Greater(a, b) == IF a >= b THEN a ELSE b

Compact(expt, mant) == [expt |-> expt, mant |-> mant]

from_compact(c) ==
  LET mant == IF c.expt <= 3 THEN c.mant \div Base ^ (3 - c.expt) ELSE c.mant
      overflow == \/ c.expt > Digits + 2
                  \/ mant > Base - 1 /\ c.expt > Digits + 1
                  \/ mant > Base ^ 2 - 1 /\ c.expt > Digits
  IN  IF mant >= SignBit \/ (mant # 0 /\ overflow) THEN 0
      ELSE mant * Base ^ Greater(c.expt - 3, 0)

Bytes(t) == CHOOSE k \in 0 .. Digits : t < Base ^ k /\ (k = 0 \/ t >= Base ^ (k - 1))

to_compact_lossy(t) ==
  LET size == Bytes(t)
      mant == IF size <= 3 THEN t * Base ^ (3 - size) ELSE t \div Base ^ (size - 3)
  IN  IF mant >= SignBit THEN Compact(size + 1, mant \div Base) ELSE Compact(size, mant)

-----------------------------------------------------------------------------
(* The next target.                                                         *)

difficulty_adjustment_interval(p) == p.pow_target_timespan \div p.pow_target_spacing
is_retarget_height(h, p) == h % difficulty_adjustment_interval(p) = 0

max_transition_threshold(target, p) ==
  Lesser((target * 4) % AllTargets, p.max_attainable_target)

from_next_work_required(last, timespan, p) ==
  LET actual == Lesser(Greater(timespan, p.pow_target_timespan \div 4), p.pow_target_timespan * 4)
      prev == from_compact(last)
      retarget == ((prev * actual) % AllTargets) \div p.pow_target_timespan
      maximum == max_transition_threshold(prev, p)
  IN  IF p.no_pow_retargeting THEN last ELSE to_compact_lossy(Lesser(retarget, maximum))

from_header_difficulty_adjustment(first, current, p) ==
  from_next_work_required(IF p.enforce_bip94 THEN first.bits ELSE current.bits,
                          current.time - first.time, p)

pow_limit(p) == to_compact_lossy(p.max_attainable_target)

\* Mutant: the walk goes on into the epoch before.
LastRealBits_AnyEpoch(chain, p) ==
  LET walk[h \in 0 .. Len(chain) - 1] ==
        IF h > 0 /\ chain[h + 1].bits = pow_limit(p) THEN walk[h - 1] ELSE chain[h + 1].bits
  IN  walk[Len(chain) - 1]

\* The walk back over the blocks of this epoch that were mined at the limit.
LastRealBits(chain, p) ==
  LET walk[h \in 0 .. Len(chain) - 1] ==
        IF h > 0 /\ ~is_retarget_height(h, p) /\ chain[h + 1].bits = pow_limit(p)
        THEN walk[h - 1] ELSE chain[h + 1].bits
  IN  walk[Len(chain) - 1]

IsLate(time, current, p) == time > current.time + 2 * p.pow_target_spacing

\* chain holds the headers up to the current one, of height Len(chain) - 1.
next_target_after(chain, time, p) ==
  LET current == Last(chain)
      height == Len(chain) - 1
      first == chain[Len(chain) - Lesser(difficulty_adjustment_interval(p) - 1, height)]
  IN  IF is_retarget_height(height + 1, p)
        THEN from_header_difficulty_adjustment(first, current, p)
      ELSE IF ~p.allow_min_difficulty_blocks THEN current.bits
      ELSE IF IsLate(time, current, p) THEN pow_limit(p)
      ELSE LastRealBits(chain, p)

-----------------------------------------------------------------------------
DifficultyInit ==
  /\ net \in Nets
  /\ \E bits \in StartBits \cup {pow_limit(net)} :
       /\ from_compact(bits) <= net.max_attainable_target
       /\ headers = <<[time |-> 0, bits |-> bits]>>

ExtendChain ==
  /\ Len(headers) < MaxBlocks
  /\ \E t \in Times :
       LET time == Last(headers).time + t
       IN  headers' = Append(headers, [time |-> time,
                                       bits |-> next_target_after(headers, time, net)])
  /\ UNCHANGED net

ChainBound == Len(headers) = MaxBlocks /\ UNCHANGED difficultyVars

DifficultyNext == ExtendChain \/ ChainBound
DifficultySpec == DifficultyInit /\ [][DifficultyNext]_difficultyVars

-----------------------------------------------------------------------------
TargetAt(h) == from_compact(headers[h + 1].bits)
EpochStart(h) == h - (h % difficulty_adjustment_interval(net))
Heights == 0 .. Len(headers) - 1

\* Inside an epoch the target stays what the epoch began with, but for the blocks that a
\* test network allows at the limit because they were late; a run of such blocks never
\* hides the epoch's own target from the blocks after it, nor lets it leak out of it.
EpochKeepsItsTarget ==
  \A h \in Heights \ {0} :
    \/ headers[h + 1].bits = headers[EpochStart(h) + 1].bits
    \/ /\ net.allow_min_difficulty_blocks
       /\ IsLate(headers[h + 1].time, headers[h], net)
       /\ headers[h + 1].bits = pow_limit(net)

\* A new epoch moves the target by a factor of four at most and never past the limit of
\* the network, however the clocks of the miners ran; with BIP 94 what it starts from is
\* the target of the epoch before, whatever its last block was allowed.  The compact form
\* loses what its mantissa does not hold, and rounds down.
RetargetIsBounded ==
  /\ \A h \in Heights : TargetAt(h) <= net.max_attainable_target
  /\ \A h \in Heights \ {0} :
       h = EpochStart(h) =>
         LET base == IF net.enforce_bip94 THEN TargetAt(EpochStart(h - 1)) ELSE TargetAt(h - 1)
             timespan == headers[h].time - headers[EpochStart(h - 1) + 1].time
         IN  IF net.no_pow_retargeting THEN TargetAt(h) = TargetAt(h - 1)
             ELSE /\ TargetAt(h) <= 4 * base
                  /\ from_compact(to_compact_lossy(base \div 4)) <= TargetAt(h)
                  /\ timespan <= net.pow_target_timespan => TargetAt(h) <= base

\* A compact target is read as the number it stands for or, if that is negative or does
\* not fit, as zero; writing rounds down by less than one unit of the mantissa and is
\* exact for what was read.  Asked of the headers a chain may start with and of every
\* other target and compact target.
CompactIsFloor ==
  Len(headers) = 1 =>
    /\ \A t \in 0 .. AllTargets - 1 :
         LET unit == Base ^ Greater(to_compact_lossy(t).expt - 3, 0)
         IN  from_compact(to_compact_lossy(t)) = t - (t % unit)
    /\ \A expt \in 0 .. Digits + 3, mant \in 0 .. Mantissas - 1 :
         LET exact == mant * Base ^ expt           \* times Base^3
             n == exact \div Mantissas
             negative == (IF expt <= 3 THEN n ELSE mant) >= SignBit
             read == from_compact(Compact(expt, mant))
         IN  /\ read = IF negative \/ n >= AllTargets THEN 0 ELSE n
             /\ from_compact(to_compact_lossy(read)) = read

=============================================================================
