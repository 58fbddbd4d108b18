------------------------------- MODULE Rules --------------------------------
(***************************************************************************)
(* The pure functions of the rules engine (game/rules.py, game/death.py)   *)
(* that the tool handlers and character generation call.  Rolls are sets   *)
(* of possible totals: the engine is given its randomness.                 *)
(***************************************************************************)
EXTENDS Integers, FiniteSets

Larger(a, b) == IF a >= b THEN a ELSE b
Smaller(a, b) == IF a <= b THEN a ELSE b

\* ability_modifier: the table of 3..18 and its linear continuation.
AbilityModifier(score) ==
    CASE score < 3            -> -3 + (score - 3) \div 2
      [] score > 18           -> 3 + (score - 17) \div 2
      [] score = 3            -> -3
      [] score \in 4..5       -> -2
      [] score \in 6..8       -> -1
      [] score \in 9..12      -> 0
      [] score \in 13..15     -> 1
      [] score \in 16..17     -> 2
      [] score = 18           -> 3

\* Level-1 hit points: the hit die's maximum and the Constitution modifier, at least 1.
StartingHp(die, con) == Larger(1, die + AbilityModifier(con))

\* Either method of roll_abilities gives six scores of this range.
Scores == [{"str", "int", "wis", "dex", "con", "cha"} -> 3..18]

\* The race's limits on the scores; one it does not name has none.
MeetsNeeds(race, scores) ==
    \A ability \in DOMAIN race.needs : scores[ability] \in race.needs[ability]

\* generate_character refuses what the race does not allow.
Accepted(race, applicant) ==
    /\ applicant.class \in race.classes
    /\ applicant.alignment \in race.alignments
    /\ MeetsNeeds(race, applicant.scores)

\* apply_damage: the arithmetic of a blow, which may go below zero.
Damage(hp, amount) ==
    [left |-> hp - amount, drops |-> hp - amount <= 0, below |-> Larger(0, amount - hp)]

\* heal: never past the maximum.
Healed(hp, max, amount) == Smaller(max, hp + amount)

TwoDice == 2..12

\* The row of the death and dismemberment table for a modified total.
DeathOutcome(total) ==
    CASE total <= 3  -> "knocked_out"
      [] total \in 4..6   -> "lingering_injury"
      [] total \in 7..9   -> "lasting_scar"
      [] total \in 10..12 -> "debilitating_wound"
      [] total \in 13..15 -> "crippled"
      [] total >= 16 -> "dead"

\* The hit points the row leaves; the dead are written down with none.
HpAfter(outcome) == IF outcome \in {"debilitating_wound", "crippled"} THEN 1 ELSE 0

\* The rows a blow that goes so far below zero can roll; no caller declares a critical.
DeathRolls(below) == {DeathOutcome(die + below) : die \in TwoDice}

=============================================================================
