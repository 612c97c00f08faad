----------------------------- MODULE IoAdapters -----------------------------
(***************************************************************************)
(* Reading through the adapters of io: Take around a reader                *)
(* that gives what it likes, read_exact, read_to_end and hash_reader over  *)
(* it.                                                                     *)
(*                                                                         *)
(* The reader's bytes are 1, 2, ..., the reader gives any number of them   *)
(* up to what is asked for, is interrupted or fails; one step is one call. *)
(***************************************************************************)
EXTENDS Integers, Sequences, SequencesExt

CONSTANTS
  SourceLength, Limits, Wanted,   \* bytes there are, of Take, of read_exact
  CHUNK                           \* of read_to_end: 64

VARIABLES
  given,      \* bytes the reader has given away
  limit, remaining,
  delivered,  \* bytes that came out of the adapter, in their order
  call        \* the call that runs: its name, what it has, whether it is done and how

ioVars == <<given, limit, remaining, delivered, call>>

IoAssumption == {SourceLength, CHUNK} \subseteq Nat

AtMost(a, b) == IF a <= b THEN a ELSE b
Bytes(from, n) == [i \in 1 .. n |-> from + i]

Idle == [name |-> "none", got |-> <<>>, want |-> 0, outcome |-> "none"]
Running(name) == call.name = name /\ call.outcome = "running"

\* A call on the inner reader for at most n bytes: how many it may give.  0 is its end, or
\* a request of none.
Gives(n) == IF AtMost(n, SourceLength - given) = 0 THEN {0}
            ELSE 1 .. AtMost(n, SourceLength - given)

Begin ==
  /\ call.outcome # "running"
  /\ \E name \in {"read_exact", "read_to_end", "hash_reader"}, want \in Wanted :
       call' = [name |-> name, got |-> <<>>, outcome |-> "running",
                want |-> IF name = "read_exact" THEN want ELSE 0]
  /\ UNCHANGED <<given, limit, remaining, delivered>>

\* Take::read with a buffer of n bytes: `got' more of the running call.
TakeRead(n, count) ==
  /\ count \in Gives(AtMost(n, remaining))
  /\ given' = given + count
  /\ remaining' = remaining - count
  /\ delivered' = delivered \o Bytes(given, count)

ReadExact ==
  /\ Running("read_exact")
  /\ LET left == call.want - Len(call.got)
     IN IF left = 0
        THEN call' = [call EXCEPT !.outcome = "ok"] /\ UNCHANGED <<given, remaining, delivered>>
        ELSE \E count \in 0 .. left :
               /\ TakeRead(left, count)
               /\ call' = IF count = 0 THEN [call EXCEPT !.outcome = "eof"]
                          ELSE [call EXCEPT !.got = @ \o Bytes(given, count)]
  /\ UNCHANGED limit

ReadToEnd ==
  /\ Running("read_to_end")
  /\ \E count \in 0 .. CHUNK :
       /\ TakeRead(CHUNK, count)
       /\ call' = IF count = 0 THEN [call EXCEPT !.outcome = "ok"]
                  ELSE [call EXCEPT !.got = @ \o Bytes(given, count)]
  /\ UNCHANGED limit

\* Take::fill_buf and consume, with a reader that shows any number of its bytes.
\* Mutant: all the reader shows is taken, the limit notwithstanding.
Shown_Unlimited(count) == {IF remaining = 0 THEN 0 ELSE count}

Shown(count) == {AtMost(count, remaining)}

HashReader ==
  /\ Running("hash_reader")
  /\ \E count \in Gives(SourceLength) : \E read \in Shown(count) :
       /\ given' = given + read
       /\ remaining' = remaining - read
       /\ delivered' = delivered \o Bytes(given, read)
       /\ call' = IF read = 0 THEN [call EXCEPT !.outcome = "ok"]
                  ELSE [call EXCEPT !.got = @ \o Bytes(given, read)]
  /\ UNCHANGED limit

\* ErrorKind::Interrupted: read_exact and read_to_end ask again, hash_reader gives up.
InterruptedRead ==
  /\ call.outcome = "running"
  /\ call' = IF call.name = "hash_reader" THEN [call EXCEPT !.outcome = "error"] ELSE call
  /\ UNCHANGED <<given, limit, remaining, delivered>>

ReaderFails ==
  /\ call.outcome = "running"
  /\ call' = [call EXCEPT !.outcome = "error"]
  /\ UNCHANGED <<given, limit, remaining, delivered>>

IoInit ==
  /\ given = 0 /\ limit \in Limits /\ remaining = limit
  /\ delivered = <<>> /\ call = Idle

IoNext == Begin \/ ReadExact \/ ReadToEnd \/ HashReader \/ InterruptedRead \/ ReaderFails

-----------------------------------------------------------------------------
\* Whatever calls are made on a Take, in whatever order, with short reads, interruptions
\* and errors between: what comes out is the reader's bytes, each once and in order, no
\* more than the limit; the inner reader stands behind the last of them; and a call that
\* succeeds has what it is for: read_exact as many as it wanted, read_to_end and
\* hash_reader everything up to the limit or the end.
TakeIsAPrefix ==
  /\ delivered = Bytes(0, given)
  /\ given <= limit /\ remaining = limit - given
  /\ call.got = Bytes(given - Len(call.got), Len(call.got))
  /\ call.outcome = "ok" =>
       IF call.name = "read_exact" THEN Len(call.got) = call.want
       ELSE given = AtMost(limit, SourceLength)
  /\ call.outcome = "eof" => given = AtMost(limit, SourceLength)

=============================================================================
