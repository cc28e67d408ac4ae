---------------------------- MODULE OutboxBackoff ----------------------------
(***************************************************************************)
(* outboxBackoff of internal/outbox: the doubling loop that computes the   *)
(* delay of a reschedule, on machine integers whose largest value is       *)
(* MaxInt (2^63 - 1 for time.Duration).  The arguments are those that      *)
(* validatePublishNextOutboxConfig lets through, with any attempt.         *)
(***************************************************************************)
EXTENDS Integers

CONSTANTS MaxInt, MaxAttempt

ASSUME BackoffAssumption == MaxInt \in Nat \ {0} /\ MaxAttempt \in Nat

\* Two's complement: what is too large for the word comes out negative.
Wrap(n) == IF n > MaxInt THEN n - 2 * (MaxInt + 1) ELSE n

\* Mutant of OneRound: no look ahead at max/2.
OneRoundUnguarded(delay, max) == IF delay >= max THEN max ELSE Wrap(delay * 2)

\* One round of the loop.  max stands for the two early returns: the rounds
\* after it, which the code no longer makes, leave it as it is.
OneRound(delay, max) ==
    IF delay >= max \/ delay > max \div 2 THEN max ELSE Wrap(delay * 2)

\* The delay after that many rounds.
Looped(base, max, rounds) ==
    LET delay[n \in Nat] == IF n = 0 THEN base ELSE OneRound(delay[n - 1], max)
    IN  delay[rounds]

outboxBackoff(base, max, attempt) ==
    IF attempt <= 1 THEN base
    ELSE LET delay == Looped(base, max, attempt - 1)
         IN  IF delay > max THEN max ELSE delay

-----------------------------------------------------------------------------
\* 2^n for the reference; by its definition for all n.
Power2[n \in Nat] == IF n = 0 THEN 1 ELSE 2 * Power2[n - 1]

\* outboxBackoff returns base * 2^(attempt - 1), cut off at max: the early
\* return at max/2 loses nothing, and no doubling leaves the machine word,
\* even where max is its largest value.
DelaysAreCapped ==
    \A base, max \in 1..MaxInt, attempt \in 0..MaxAttempt :
        base <= max =>
            LET exact == IF attempt <= 1 THEN base ELSE base * Power2[attempt - 1]
            IN  outboxBackoff(base, max, attempt) = IF exact > max THEN max ELSE exact
=============================================================================
