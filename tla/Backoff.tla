------------------------------- MODULE Backoff -------------------------------
(***************************************************************************)
(* The exponential ramp every retry loop of the bot shares (package        *)
(* backoff).  A growth factor is a number of tenths.  NaN and the          *)
(* infinities, which no reader and no constructor lets through, are not    *)
(* represented.                                                            *)
(***************************************************************************)
EXTENDS Integers

DefaultFactor == 20

ValidFactor(factor) == factor > 10

Power(x, n) ==
  LET power[i \in 0..n] == IF i = 0 THEN 1 ELSE x * power[i - 1]
  IN  power[n]

\* Mutant of Exponential: the ceiling bounds the base only.
ExponentialUnclamped(attempt, base, ceiling, factor) ==
  LET least == IF base < ceiling THEN base ELSE ceiling
  IN  (least * Power(factor, attempt)) \div Power(10, attempt)

\* min(base * factor^attempt, ceiling); a base or a ceiling that is not positive
\* is answered as it is, and a factor below one counts as one.
Exponential(attempt, base, ceiling, factor) ==
  LET n      == IF attempt < 0 THEN 0 ELSE attempt
      tenths == IF factor <= 10 THEN 10 ELSE factor
      d      == (base * Power(tenths, n)) \div Power(10, n)
  IN  IF base <= 0 THEN base
      ELSE IF ceiling <= 0 \/ d >= ceiling THEN ceiling
      ELSE d

\* Half the ramp's delay, and a draw of less than that half again.
EqualJitter(attempt, base, ceiling, factor) ==
  LET half == Exponential(attempt, base, ceiling, factor) \div 2
  IN  IF half <= 0 THEN {half} ELSE half..(2 * half - 1)
=============================================================================
