------------------------- MODULE SnowballParameters -------------------------
(* Parameters (snow/consensus/snowball/parameters.go), as far as consensus  *)
(* depends on them.                                                         *)
EXTENDS Integers

CONSTANTS K,              \* number of validators a poll asks
          Alpha,          \* votes for a successful poll
          BetaVirtuous,   \* successes in a row to decide without a conflict
          BetaRogue       \* and with one

\* What Verify accepts (alpha <= k/2 is refused with the division of integers).
Verify ==
    /\ K \div 2 < Alpha /\ Alpha <= K
    /\ 0 < BetaVirtuous /\ BetaVirtuous <= BetaRogue

ASSUME ParameterAssumption ==
    /\ K \in Nat \ {0} /\ Alpha \in Nat
    /\ BetaVirtuous \in Nat \ {0} /\ BetaRogue \in Nat
    /\ Verify
=============================================================================
