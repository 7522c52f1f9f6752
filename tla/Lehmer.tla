------------------------------- MODULE Lehmer -------------------------------
(***************************************************************************)
(* The random numbers of the lottery scheduler, custom_random() in         *)
(* kernel/proc.c.  The constants of the generator are parameters; the code *)
(* has A = 7^5, Q = 127773, R = 2836.                                      *)
(***************************************************************************)
EXTENDS Integers

CONSTANTS A, Q, R    \* the multiplier, and the modulus as A * Q + R

ASSUME LehmerAssumption ==
  /\ A \in Nat \ {0} /\ Q \in Nat \ {0} /\ R \in Nat
  /\ R < Q /\ A * Q + R > 3

Modulus == A * Q + R        \* 2^31 - 1

\* x = (7^5 * x) mod (2^31 - 1), in 31 bits.
custom_random(ctx) ==
  LET x0 == (ctx % (Modulus - 1)) + 1
      hi == x0 \div Q
      lo == x0 % Q
      x == A * lo - R * hi
  IN (IF x < 0 THEN x + Modulus ELSE x) - 1

\* What the comment of custom_random() says it computes.
Reference(ctx) == ((A * ((ctx % (Modulus - 1)) + 1)) % Modulus) - 1
=============================================================================
