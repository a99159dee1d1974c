------------------------ MODULE TopologicalContract -------------------------
(***************************************************************************)
(* What Topological needs of the snowball instances: the contract of the    *)
(* Consensus interface (SnowballContract), for instances as values.         *)
(***************************************************************************)
EXTENDS Topological

CONSTANTS
    SbStates,        \* the states of an instance
    SbChoices(_),    \* the choices added to it
    SbSame(_, _)     \* no sequence of calls tells the two states apart

ASSUME SnowballAssumption ==
    /\ NoSb \notin SbStates
    /\ \A c \in Blocks : SbNew(c) \in SbStates /\ SbChoices(SbNew(c)) = {c}
    /\ \A s \in SbStates :
          /\ SbPreference(s) \in SbChoices(s)
          /\ \A c \in Blocks :
                /\ SbAdd(s, c) \in SbStates
                /\ SbChoices(SbAdd(s, c)) = SbChoices(s) \cup {c}
                /\ SbPreference(SbAdd(s, c)) = SbPreference(s)
          /\ SbFalter(s) \in SbStates
          /\ SbChoices(SbFalter(s)) = SbChoices(s)

\* A poll adds no choice.
ASSUME SnowballPollAssumption ==
    \A s \in SbStates : \A v \in [SbChoices(s) -> 0..K] : \A t \in SbPolls(s, v) :
        t \in SbStates /\ SbChoices(t) = SbChoices(s)

\* SbSame is an equivalence that every method keeps.
ASSUME SameAssumption ==
    \A s \in SbStates :
        /\ SbSame(s, s)
        /\ \A t \in SbStates : SbSame(s, t) =>
              /\ SbSame(t, s) /\ \A u \in SbStates : SbSame(t, u) => SbSame(s, u)
              /\ SbChoices(s) = SbChoices(t)
              /\ SbPreference(s) = SbPreference(t) /\ SbFinalized(s) = SbFinalized(t)
              /\ \A c \in Blocks : SbSame(SbAdd(s, c), SbAdd(t, c))
              /\ SbSame(SbFalter(s), SbFalter(t))
              /\ \A v \in [SbChoices(s) -> 0..K] : \A x \in SbPolls(s, v) :
                    \E y \in SbPolls(t, v) : SbSame(x, y)

\* An unsuccessful poll only ends a run of successful ones: a new instance has
\* none, a second one in a row finds none, and choices can be added before or after.
ASSUME FalterAssumption ==
    /\ \A c \in Blocks : SbSame(SbFalter(SbNew(c)), SbNew(c))
    /\ \A s \in SbStates :
          /\ SbPreference(SbFalter(s)) = SbPreference(s)
          /\ SbFinalized(SbFalter(s)) = SbFinalized(s)
          /\ SbSame(SbFalter(SbFalter(s)), SbFalter(s))
          /\ \A c \in Blocks : SbSame(SbFalter(SbAdd(s, c)), SbAdd(SbFalter(s), c))
=============================================================================
