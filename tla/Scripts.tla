------------------------------ MODULE Scripts ------------------------------
\* bitcoin::script: scripts are built instruction by instruction (ScriptBuf, Builder), and
\* read back by iterators, with or without the rule that pushes are as short as they can be,
\* to count signature operations, to find the redeem script and to recognise a multisig.
\*
\* Bytes are numbers below BYTE; the opcodes are those the code tells apart, in the order of
\* their values, with MAX_DIRECT for the longest direct push (75) and MAX_NUM for 16.
EXTENDS Integers, Sequences, SequencesExt

CONSTANTS
  BYTE, MAX_DIRECT, MAX_NUM,
  OP_VERIFY, OP_CHECKSIG,
  RawScripts,      \* scripts whose bytes come from outside
  Slices,          \* data that a builder pushes
  Ints,            \* integers that a builder pushes
  MaxPushes        \* bound: steps of a builder

VARIABLES
  script,     \* the bytes
  built       \* the instructions they stand for, or "unknown" for bytes from outside

scriptVars == <<script, built>>

SIGN == BYTE \div 2
NEG_ONE == SIGN + 1                      \* 0x81
OP_PUSHDATA1 == MAX_DIRECT + 1
OP_PUSHDATA2 == MAX_DIRECT + 2
OP_PUSHDATA4 == MAX_DIRECT + 3
OP_1NEGATE == MAX_DIRECT + 4
OP_RESERVED == MAX_DIRECT + 5
OP_1 == MAX_DIRECT + 6
OP_16 == OP_1 + MAX_NUM - 1
OP_CHECKSIGVERIFY == OP_CHECKSIG + 1
OP_CHECKMULTISIG == OP_CHECKSIG + 2
OP_CHECKMULTISIGVERIFY == OP_CHECKSIG + 3
Opcodes == OP_1NEGATE .. BYTE - 1

Op(n) == <<"op", n>>
PushBytes(data) == <<"push", data>>
Failed(name) == <<"err", name>>
IsPush(i) == i[1] = "push"
IsError(i) == i[1] = "err"

(************************************* Building ***********************************)

\* The length of a push, in one, two or four bytes, low ones first.
LittleEndian(n, width) == [k \in 1 .. width |-> (n \div BYTE ^ (k - 1)) % BYTE]

\* push_slice_no_opt: the shortest length prefix that fits.
push_slice_no_opt(data) ==
  LET n == Len(data)
  IN  (IF n < OP_PUSHDATA1 THEN <<n>>
       ELSE IF n < BYTE THEN <<OP_PUSHDATA1, n>>
       ELSE IF n < BYTE ^ 2 THEN <<OP_PUSHDATA2>> \o LittleEndian(n, 2)
       ELSE <<OP_PUSHDATA4>> \o LittleEndian(n, 4)) \o data

\* ScriptBuf::push_slice: one byte that an opcode can push is left to the opcode.
\* Mutant: the sixteen small numbers are pushed as data.
push_slice_NoNumbers(data) ==
  IF data = <<NEG_ONE>> THEN <<OP_1NEGATE>> ELSE push_slice_no_opt(data)
push_slice(data) ==
  IF data = <<NEG_ONE>> THEN <<OP_1NEGATE>>
  ELSE IF Len(data) = 1 /\ data[1] \in 1 .. MAX_NUM THEN <<OP_1 + data[1] - 1>>
  ELSE push_slice_no_opt(data)

\* write_scriptint: low bytes first, the sign in the top bit of the last one.
abs(n) == IF n < 0 THEN -n ELSE n
write_scriptint(n) ==
  LET Bytes[m \in 0 .. abs(n)] ==
        IF m >= BYTE THEN <<m % BYTE>> \o Bytes[m \div BYTE]
        ELSE IF m >= SIGN THEN <<m, IF n < 0 THEN SIGN ELSE 0>>
        ELSE <<IF n < 0 THEN m + SIGN ELSE m>>
  IN  IF n = 0 THEN <<>> ELSE Bytes[abs(n)]

\* ScriptBufExt::push_int_unchecked.
push_int_unchecked(n) ==
  CASE n = -1 -> <<OP_1NEGATE>>
    [] n = 0 -> <<0>>
    [] n \in 1 .. MAX_NUM -> <<OP_1 + n - 1>>
    [] OTHER -> push_slice_no_opt(write_scriptint(n))

\* push_instruction, push_instruction_no_opt, and Extend for ScriptBuf: an iterator that says
\* it yields fewer than six instructions is written the second way.
push_instruction(i) == IF IsPush(i) THEN push_slice(i[2]) ELSE <<i[2]>>
push_instruction_no_opt(i) == IF IsPush(i) THEN push_slice_no_opt(i[2]) ELSE <<i[2]>>
WriteAll(Write(_), instructions) ==
  FoldLeft(LAMBDA bytes, i : bytes \o Write(i), <<>>, instructions)
extend(instructions, upper_bound) ==
  IF upper_bound < 6 THEN WriteAll(push_instruction_no_opt, instructions)
  ELSE WriteAll(push_instruction, instructions)

(************************************* Reading ************************************)

\* Instructions::take_slice_or_kill: an error is the last item.
Take(s, from, n) ==
  IF Len(s) - from + 1 >= n
    THEN [item |-> PushBytes(SubSeq(s, from, from + n - 1)), then |-> from + n]
    ELSE [item |-> Failed("EarlyEndOfScript"), then |-> Len(s) + 1]

NonMinimal(s) == [item |-> Failed("NonMinimalPush"), then |-> Len(s) + 1]

\* internals::script::read_push_data_len.
read_push_data_len(s, from, width) ==
  s[from] + (IF width > 1 THEN s[from + 1] * BYTE ELSE 0)
    + (IF width > 2 THEN s[from + 2] * BYTE ^ 2 + s[from + 3] * BYTE ^ 3 ELSE 0)

\* Instructions::next_push_data_len.
next_push_data_len(s, from, width, min_push_len, enforce_minimal) ==
  LET cut == Len(s) - from + 1 < width
      n == IF cut THEN width ELSE read_push_data_len(s, from, width)
  IN  IF ~cut /\ enforce_minimal /\ n < min_push_len THEN NonMinimal(s)
      ELSE Take(s, IF cut THEN from ELSE from + width, n)

\* Instructions::next.
next(s, pos, enforce_minimal) ==
  LET byte == s[pos]
      kind == byte - MAX_DIRECT
      one_byte == byte = 1 /\ pos < Len(s) /\ s[pos + 1] \in {NEG_ONE} \cup 1 .. MAX_NUM
  IN  IF enforce_minimal /\ one_byte THEN NonMinimal(s)
      ELSE IF byte <= MAX_DIRECT THEN Take(s, pos + 1, byte)
      ELSE IF byte <= OP_PUSHDATA4
        THEN next_push_data_len(s, pos + 1, <<1, 2, 4>>[kind],
                                <<OP_PUSHDATA1, BYTE, BYTE ^ 2>>[kind], enforce_minimal)
      ELSE [item |-> Op(byte), then |-> pos + 1]

\* InstructionIndices: every instruction with its position.
instruction_indices(s, enforce_minimal) ==
  LET From[pos \in 1 .. Len(s) + 1] ==
        IF pos > Len(s) THEN <<>>
        ELSE LET one == next(s, pos, enforce_minimal)
             IN  <<[at |-> pos, item |-> one.item]>> \o From[one.then]
  IN  From[1]
ItemsOf(all) == [k \in DOMAIN all |-> all[k].item]
instructions(s, enforce_minimal) == ItemsOf(instruction_indices(s, enforce_minimal))

\* Whether the last of them is an error.
Broken(items) == items # <<>> /\ IsError(Last(items))

\* Opcode::decode_pushnum, 0 for an opcode that pushes no number.
decode_pushnum(n) == IF n \in OP_1 .. OP_16 THEN n - OP_1 + 1 ELSE 0

\* ScriptExtPriv::count_sigops_internal.
count_sigops_internal(s, accurate) ==
  LET Count(acc, i) ==
        IF IsError(i) THEN acc
        ELSE IF IsPush(i) THEN [acc EXCEPT !.pushnum = 0]
        ELSE IF i[2] \in {OP_CHECKSIG, OP_CHECKSIGVERIFY} THEN [n |-> acc.n + 1, pushnum |-> 0]
        ELSE IF i[2] \in {OP_CHECKMULTISIG, OP_CHECKMULTISIGVERIFY}
          THEN [n |-> acc.n + (IF accurate /\ acc.pushnum > 0 THEN acc.pushnum ELSE 20),
                pushnum |-> 0]
        ELSE [acc EXCEPT !.pushnum = decode_pushnum(i[2])]
  IN  FoldLeft(Count, [n |-> 0, pushnum |-> 0], instructions(s, FALSE)).n

\* ScriptExtPriv::last_opcode and opcode_to_verify.  Of the four operations that have a form
\* that verifies, OP_EQUAL and OP_NUMEQUAL are left out: they have no place in a narrow byte.
last_opcode(s) ==
  LET items == instructions(s, FALSE)
  IN  IF items # <<>> /\ Last(items)[1] = "op" THEN Last(items)[2] ELSE OP_RESERVED
opcode_to_verify(n) ==
  CASE n = OP_CHECKSIG -> OP_CHECKSIGVERIFY
    [] n = OP_CHECKMULTISIG -> OP_CHECKMULTISIGVERIFY
    [] OTHER -> OP_VERIFY

\* ScriptExt::is_push_only and ScriptSigExt::redeem_script.
is_push_only(s) ==
  \A i \in Range(instructions(s, FALSE)) : ~IsError(i) /\ (IsPush(i) \/ i[2] <= OP_16)
redeem_script(s) ==
  LET items == instructions(s, FALSE)
  IN  IF items = <<>> \/ \E k \in DOMAIN items : ~IsPush(items[k]) THEN <<"none">>
      ELSE <<"some", Last(items)[2]>>

\* ScriptPubKeyExt::is_multisig: a number, keys up to a number of their count, the operation.
is_multisig(s) ==
  LET items == instructions(s, FALSE)
      Number(k) == IF k \in DOMAIN items /\ items[k][1] = "op"
                     THEN decode_pushnum(items[k][2]) ELSE 0
      stop == {k \in 2 .. Len(items) : ~IsPush(items[k])}
      end == CHOOSE k \in stop : \A other \in stop : k <= other
  IN  /\ Number(1) > 0 /\ stop # {}
      /\ Number(end) = end - 2 /\ Number(1) <= Number(end)
      /\ Len(items) = end + 1 /\ items[end + 1] = Op(OP_CHECKMULTISIG)

\* scriptint_parse, read_scriptint_internal and read_scriptint_non_minimal.
scriptint_parse(v) ==
  LET sum == FoldLeft(LAMBDA n, k : n + v[k] * BYTE ^ (k - 1), 0, [k \in DOMAIN v |-> k])
      sign == SIGN * BYTE ^ (Len(v) - 1)
  IN  IF Last(v) >= SIGN THEN -(sum % sign) ELSE sum
read_scriptint_internal(v, max_size) ==
  IF v = <<>> THEN <<"ok", 0>>
  ELSE IF Len(v) > max_size THEN Failed("NumericOverflow")
  ELSE IF Last(v) % SIGN = 0 /\ (Len(v) = 1 \/ v[Len(v) - 1] < SIGN) THEN Failed("NonMinimal")
  ELSE <<"ok", scriptint_parse(v)>>
read_scriptint_non_minimal(v) ==
  IF v = <<>> THEN <<"ok", 0>>
  ELSE IF Len(v) > 4 THEN Failed("NumericOverflow") ELSE <<"ok", scriptint_parse(v)>>
read_scriptbool(v) == v # <<>> /\ ~(Last(v) % SIGN = 0 /\ \A k \in 1 .. Len(v) - 1 : v[k] = 0)

\* Instruction::script_num and read_int: a number an opcode or a push stands for.
OpNumber(n) ==
  CASE n \in OP_1 .. OP_16 -> <<"ok", n - OP_1 + 1>>
    [] n = OP_1NEGATE -> <<"ok", -1>>
    [] OTHER -> Failed("NotANumber")
script_num(i) == IF IsPush(i) THEN read_scriptint_non_minimal(i[2]) ELSE OpNumber(i[2])
read_int(i) == IF IsPush(i) THEN read_scriptint_internal(i[2], 5) ELSE OpNumber(i[2])

\* The errors of reading a push and of reading a number, as errors of the height.
to_bip34_error(error) ==
  Failed(IF error[2] \in {"NonMinimalPush", "NonMinimal"} THEN "NonMinimalPush" ELSE "NotPresent")

\* Block::bip34_block_height, of a block's version and the script of its coinbase.
bip34_block_height(version, script_sig) ==
  LET first == next(script_sig, 1, TRUE).item
      num == script_num(first)
      read == read_scriptint_internal(first[2], 4)
  IN  CASE version < 2 -> Failed("Unsupported")
        [] version >= 2 /\ script_sig = <<>> -> Failed("NotPresent")
        [] OTHER ->
             IF IsError(first) THEN to_bip34_error(first)
             ELSE IF IsPush(first) /\ IsError(read) THEN to_bip34_error(read)
             ELSE IF IsError(num) THEN Failed("NotPresent")
             ELSE IF num[2] < 0 THEN Failed("NegativeHeight") ELSE num

(************************************* Behaviour **********************************)

ScriptInit == \/ script = <<>> /\ built = <<>>
              \/ script \in RawScripts /\ built = <<"unknown">>

Building == built # <<"unknown">> /\ Len(built) < MaxPushes

\* What a minimal push of the data is for a reader.
Shortest(data) ==
  IF data = <<NEG_ONE>> THEN Op(OP_1NEGATE)
  ELSE IF Len(data) = 1 /\ data[1] \in 1 .. MAX_NUM THEN Op(OP_1 + data[1] - 1)
  ELSE PushBytes(data)

\* Builder::push_slice, push_slice_non_minimal and push_opcode.
PushSlice(data) ==
  Building /\ script' = script \o push_slice(data) /\ built' = Append(built, Shortest(data))
PushSliceNonMinimal(data) ==
  /\ Building
  /\ script' = script \o push_slice_no_opt(data)
  /\ built' = Append(built, PushBytes(data))
PushOpcode(n) ==
  Building /\ script' = Append(script, n) /\ built' = Append(built, Op(n))

\* BuilderExt::push_int, push_lock_time and push_relative_lock_time.
PushInt(n) ==
  /\ Building
  /\ script' = script \o push_int_unchecked(n)
  /\ built' = Append(built, IF n = 0 THEN PushBytes(<<>>)
                            ELSE IF n \in -1 .. MAX_NUM THEN Shortest(write_scriptint(n))
                            ELSE PushBytes(write_scriptint(n)))

\* BuilderExt::push_verify: an operation that can verify itself is replaced.
PushVerify ==
  LET verify == opcode_to_verify(last_opcode(script))
      replaced == verify # OP_VERIFY
  IN  /\ Building
      /\ script' = Append(IF replaced THEN Front(script) ELSE script, verify)
      /\ built' = Append(IF replaced THEN Front(built) ELSE built, Op(verify))

ScriptNext ==
  \/ \E data \in Slices : PushSlice(data) \/ PushSliceNonMinimal(data)
  \/ \E n \in Opcodes : PushOpcode(n)
  \/ \E n \in Ints : PushInt(n)
  \/ PushVerify

(************************************ Properties **********************************)

\* Positions and instructions that cut the script into its bytes without a gap.
CutsTheScript(s) ==
  LET all == instruction_indices(s, FALSE)
  IN  /\ s # <<>> => all[1].at = 1
      /\ \A k \in DOMAIN all :
           /\ IsError(all[k].item) => k = Len(all)
           /\ k > 1 => all[k].at = next(s, all[k - 1].at, FALSE).then

\* The strict reader sees what the other one sees, up to the first push that a shorter one
\* could replace, and accepts a script exactly if writing its instructions back gives it.
StrictIsCanonical(s) ==
  LET strict == instructions(s, TRUE)
      lax == instructions(s, FALSE)
  IN  /\ \A k \in DOMAIN strict : ~IsError(strict[k]) => strict[k] = lax[k]
      /\ ~Broken(strict) <=> ~Broken(lax) /\ WriteAll(push_instruction, lax) = s

\* Signature operations as Bitcoin Core counts them: by the operation and the one before it.
SigopsAsInCore(s) ==
  LET items == SelectSeq(instructions(s, FALSE), LAMBDA i : ~IsError(i))
      Keys(k) == IF k > 1 /\ ~IsPush(items[k - 1]) THEN decode_pushnum(items[k - 1][2]) ELSE 0
      Cost(k, accurate) ==
        CASE items[k] \in {Op(OP_CHECKSIG), Op(OP_CHECKSIGVERIFY)} -> 1
          [] items[k] \in {Op(OP_CHECKMULTISIG), Op(OP_CHECKMULTISIGVERIFY)} ->
               IF accurate /\ Keys(k) > 0 THEN Keys(k) ELSE 20
          [] OTHER -> 0
  IN  \A accurate \in BOOLEAN :
        count_sigops_internal(s, accurate)
          = FoldLeft(LAMBDA n, k : n + Cost(k, accurate), 0, [k \in DOMAIN items |-> k])

\* A multisig has more keys than it asks signatures for, and no other script is taken for one.
MultisigIsMultisig(s) ==
  is_multisig(s) <=>
    \E m, n \in 1 .. MAX_NUM :
      /\ m <= n
      /\ LET items == instructions(s, FALSE)
         IN  /\ Len(items) = n + 3 /\ \A k \in 2 .. n + 1 : IsPush(items[k])
             /\ items[1] = Op(OP_1 + m - 1) /\ items[n + 2] = Op(OP_1 + n - 1)
             /\ items[n + 3] = Op(OP_CHECKMULTISIG)

\* An integer is read back, one that is accepted is the one written, and the lax readers agree.
IntegersRoundTrip(ints) ==
  /\ \A n \in ints :
       LET v == write_scriptint(n)
       IN  IF Len(v) <= 4
             THEN read_scriptint_internal(v, 4) = <<"ok", n>>
                    /\ read_scriptint_non_minimal(v) = <<"ok", n>>
             ELSE read_scriptint_internal(v, 4) = Failed("NumericOverflow")
  /\ \A v \in UNION {[1 .. len -> 0 .. BYTE - 1] : len \in 0 .. 2} :
       LET read == read_scriptint_internal(v, 4)
       IN  /\ read[1] = "ok" <=> \E n \in -BYTE ^ 2 .. BYTE ^ 2 : write_scriptint(n) = v
           /\ read[1] = "ok" => write_scriptint(read[2]) = v
           /\ read_scriptbool(v) = (read_scriptint_non_minimal(v)[2] # 0)

\* Extend writes the same instructions, whichever way its iterator makes it write them: a
\* short one keeps every push as it is, a long one makes it as short as it can be.
ExtendKeepsTheInstructions(s) ==
  LET items == instructions(s, FALSE)
      Canonical(i) == IF IsPush(i) THEN Shortest(i[2]) ELSE i
  IN  ~Broken(items) =>
        /\ instructions(extend(items, 5), FALSE) = items
        /\ instructions(extend(items, 6), TRUE)
             = [k \in DOMAIN items |-> Canonical(items[k])]

\* A coinbase commits to one height, in one way (BIP-0034): the height that is read is the
\* one whose push the script begins with, and a script that begins with none has no height.
\* What a lock time check reads is that number as well.
HeightIsItsPush(s) ==
  LET height == bip34_block_height(2, s)
      Heights == {n \in Ints : n >= 0 /\ Len(write_scriptint(n)) <= 4}
  IN  /\ \A n \in Heights : IsPrefix(push_int_unchecked(n), s) => height = <<"ok", n>>
      /\ ~IsError(height) => /\ height[2] >= 0
                            /\ IsPrefix(push_int_unchecked(height[2]), s)
                            /\ read_int(instructions(s, FALSE)[1]) = height

\* What a builder put in is what the iterators give out, whatever the bytes of the data are;
\* scripts from outside are cut without a gap, with one error at most, at the end; the strict
\* reader accepts the canonical scripts and no other; Extend copies the instructions; and what
\* is derived from them (signature operations, the redeem script, a multisig, the height of
\* a coinbase) says what it should.
ScriptsReadBack ==
  /\ script = <<>> => IntegersRoundTrip(Ints)
  /\ built # <<"unknown">> => instructions(script, FALSE) = built
  /\ CutsTheScript(script) /\ StrictIsCanonical(script) /\ ExtendKeepsTheInstructions(script)
  /\ SigopsAsInCore(script) /\ MultisigIsMultisig(script)
  /\ HeightIsItsPush(script)
  /\ redeem_script(script)[1] = "some" => is_push_only(script)

=============================================================================
