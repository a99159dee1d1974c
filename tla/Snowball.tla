------------------------------ MODULE Snowball ------------------------------
(***************************************************************************)
(* The snowball instances of snow/consensus/snowball, as operators on       *)
(* records: unary (one choice), binary (choices 0 and 1) and n-nary.  Each  *)
(* wraps snowflake, which wraps slush; the fields of the three structs are  *)
(* the fields of one record:                                                *)
(*   slush       preference of slush: the choice of the last success        *)
(*   confidence  successes in a row for that choice                         *)
(*   finalized   beta successes in a row were seen                          *)
(*   preference  preference of snowball: the choice with most successes     *)
(*   num         numSuccessfulPolls, per choice                             *)
(* beta is a parameter of the operators, as it never changes in a struct.   *)
(***************************************************************************)
EXTENDS Integers

-----------------------------------------------------------------------------
(* unary_snowball.go, unary_snowflake.go *)

NewUnary == [confidence |-> 0, finalized |-> FALSE, num |-> 0]

\* Mutant: the decision is taken anew after every success.
UnarySuccessAnew(sb, beta) ==
    [confidence |-> sb.confidence + 1,
     finalized  |-> sb.confidence + 1 >= beta,
     num        |-> sb.num + 1]

UnarySuccess(sb, beta) ==
    [confidence |-> sb.confidence + 1,
     finalized  |-> sb.finalized \/ sb.confidence + 1 >= beta,
     num        |-> sb.num + 1]

\* RecordUnsuccessfulPoll of every kind of instance.
Unsuccessful(sb) == [sb EXCEPT !.confidence = 0]

\* Extend: a second choice appeared.
Extend(sb, bit) ==
    [slush |-> bit, preference |-> bit, confidence |-> sb.confidence,
     finalized |-> sb.finalized,
     num |-> [b \in {0, 1} |-> IF b = bit THEN sb.num ELSE 0]]

-----------------------------------------------------------------------------
(* The snowflake step of the binary and the n-nary instance: sb has taken   *)
(* the snowball part of a success for choice; a confidence that reaches one *)
(* of betas finalizes.                                                      *)

\* Mutant: the early return of a finalized instance is dropped.
FlakeSuccessAlways(sb, choice, betas) ==
    LET c == IF sb.slush = choice THEN sb.confidence + 1 ELSE 1
    IN  [sb EXCEPT !.confidence = c, !.finalized = \E beta \in betas : c >= beta, !.slush = choice]

FlakeSuccess(sb, choice, betas) ==
    IF sb.finalized THEN sb
    ELSE LET c == IF sb.slush = choice THEN sb.confidence + 1 ELSE 1
         IN  [sb EXCEPT !.confidence = c, !.finalized = \E beta \in betas : c >= beta, !.slush = choice]

\* The preference that consensus follows.
InstancePreference(sb) == IF sb.finalized THEN sb.slush ELSE sb.preference

(* binary_snowball.go, binary_snowflake.go, binary_slush.go *)

BinarySuccess(sb, bit, beta) ==
    LET n  == [sb.num EXCEPT ![bit] = @ + 1]
        s1 == [sb EXCEPT !.num = n,
                         !.preference = IF n[bit] > n[1 - bit] THEN bit ELSE @]
    IN  FlakeSuccess(s1, bit, {beta})

(* nnary_snowball.go, nnary_snowflake.go, nnary_slush.go *)

NewNnary(choice, Choices) ==
    [slush |-> choice, preference |-> choice, confidence |-> 0, finalized |-> FALSE,
     rogue |-> FALSE, max |-> 0, num |-> [c \in Choices |-> 0]]

\* Mutant: a new choice becomes the preference.
NnaryAddPrefers(sb, choice) ==
    [sb EXCEPT !.rogue = @ \/ choice # sb.slush, !.preference = choice]

\* Mutant: adding the preference again withdraws the conflict.
NnaryAddForgets(sb, choice) == [sb EXCEPT !.rogue = choice # sb.slush]

NnaryAdd(sb, choice) == [sb EXCEPT !.rogue = @ \/ choice # sb.slush]

\* Mutant: the largest number of successes is not kept up to date.
NnarySuccessStaleMax(sb, choice, betaVirtuous, betaRogue) ==
    LET n  == sb.num[choice] + 1
        s1 == [sb EXCEPT !.num[choice] = n,
                         !.preference = IF n > sb.max THEN choice ELSE @]
    IN  FlakeSuccess(s1, choice, IF sb.rogue THEN {betaRogue} ELSE {betaVirtuous, betaRogue})

NnarySuccess(sb, choice, betaVirtuous, betaRogue) ==
    LET n  == sb.num[choice] + 1
        s1 == [sb EXCEPT !.num[choice] = n,
                         !.preference = IF n > sb.max THEN choice ELSE @,
                         !.max = IF n > @ THEN n ELSE @]
    IN  FlakeSuccess(s1, choice, IF sb.rogue THEN {betaRogue} ELSE {betaVirtuous, betaRogue})
=============================================================================
