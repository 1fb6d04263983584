---------------------------- MODULE SafeIntegers ----------------------------
(* Instants and fencing tokens are JavaScript numbers: integers the code    *)
(* checks with Number.isSafeInteger.                                       *)
EXTENDS Naturals

CONSTANT MaxSafeInteger    \* Number.MAX_SAFE_INTEGER

ASSUME MaxSafeIntegerIsPositive == MaxSafeInteger \in Nat \ {0}

Instant == 0 .. MaxSafeInteger
Token   == 1 .. MaxSafeInteger
=============================================================================
