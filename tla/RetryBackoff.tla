---------------------------- MODULE RetryBackoff ----------------------------
(***************************************************************************)
(* backoffDelay of internal/deliveryworker, on 64-bit words.  A word is a  *)
(* sequence of four 16-bit limbs, the least significant first, since the   *)
(* numbers are nanoseconds and exceed what TLC can count.                  *)
(***************************************************************************)
EXTENDS Integers, Sequences

CONSTANTS Bases,       \* BASE_BACKOFF_MS settings, as time.Durations
          RetryLimit   \* MAX_RETRIES

Limb == 65536
Word == [1..4 -> 0..Limb - 1]

ASSUME RetryBackoffAssumption == Bases \subseteq Word /\ RetryLimit \in Nat

Zero == <<0, 0, 0, 0>>
TenSeconds == <<58368, 21515, 2, 0>>     \* 10^10 = 2*2^32 + 21515*2^16 + 58368

Negative(x) == x[4] >= Limb \div 2

\* x > y for signed words, y not negative.
Greater(x, y) ==
    /\ ~Negative(x)
    /\ \E k \in 1..4 : x[k] > y[k] /\ \A m \in k + 1..4 : x[m] = y[m]

\* One more shift of the multiplier doubles the product, modulo 2^64.
Carry(limb) == limb \div (Limb \div 2)
Shift(x) == <<(2 * x[1]) % Limb, (2 * x[2] + Carry(x[1])) % Limb,
              (2 * x[3] + Carry(x[2])) % Limb, (2 * x[4] + Carry(x[3])) % Limb>>

\* time.Duration(1 << (retry - 1)) * base
Product(base, retry) ==
    LET shifted[n \in Nat] == IF n = 0 THEN base ELSE Shift(shifted[n - 1])
    IN  shifted[retry - 1]

\* Mutant of backoffDelay: no cap.
backoffUncapped(base, retry) == Product(base, retry)

backoffDelay(base, retry) ==
    LET product == Product(base, retry)
    IN  IF Greater(product, TenSeconds) THEN TenSeconds ELSE product

-----------------------------------------------------------------------------
\* base * 2^(retry - 1) is positive and below 2^63: no doubling on the way to
\* it started at 2^62 or above.
Fits(base, retry) ==
    /\ Greater(base, Zero)
    /\ \A k \in 1..retry - 1 : Product(base, k)[4] < Limb \div 4

\* backoffDelay never returns more than ten seconds.  And as long as the exact
\* product fits into a time.Duration it is the delay its comment promises: it
\* is positive, longer than the one before it, and ten seconds from the retry
\* on at which the exponential passes them.  (Past that point the product has
\* wrapped around, and the comparison with the cap comes too late for it.)
DelaysGrow ==
    \A base \in Bases, retry \in 1..RetryLimit :
        LET delay == backoffDelay(base, retry) IN
        /\ ~Greater(delay, TenSeconds)
        /\ Fits(base, retry) =>
            /\ Greater(delay, Zero)
            /\ retry > 1 =>
                LET before == backoffDelay(base, retry - 1) IN
                \/ before = TenSeconds /\ delay = TenSeconds
                \/ Greater(delay, before)
=============================================================================
