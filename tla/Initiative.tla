----------------------------- MODULE Initiative -----------------------------
(***************************************************************************)
(* The turn order of an encounter: roll_initiative (game/rules.py) makes   *)
(* it when start_encounter runs, advance_turn and remove_participant       *)
(* (game/combat.py) step through it while participants fall.  Participants *)
(* are numbers, in the order of their ids, no id twice; the index counts   *)
(* from 1.  The tools offer no call of the last two yet: they are the      *)
(* library the turn order is to be driven by, checked as such.             *)
(***************************************************************************)
EXTENDS Integers, SequencesExt

CONSTANTS
    Participants,  \* monsters and the alive PCs
    Rolls,        \* what 1d6 and the Dex modifier can come to
    MaxRounds      \* bound: rounds fought

\* StartEncounter.monsters has min_length=1.
ASSUME ParticipantsAssumption ==
    Participants \subseteq Nat /\ Participants # {} /\ IsFiniteSet(Participants)
ASSUME RollsAssumption == Rolls \subseteq Int
ASSUME MaxRoundsAssumption == MaxRounds \in Nat

VARIABLES
    score,     \* initiative
    entries,   \* who is left, in order
    index,
    round,     \* round_number
    acted      \* history: who has been current_turn in this round

order == <<score, entries, index, round, acted>>

\* The sort key (-initiative, participant_id).
Before(p, q) == score[p] > score[q] \/ (score[p] = score[q] /\ p < q)

\* roll_initiative.
RollInitiative ==
    /\ score \in [Participants -> Rolls]
    /\ entries \in [1..Cardinality(Participants) -> Participants]
    /\ \A i, j \in DOMAIN entries : i < j => Before(entries[i], entries[j])
    /\ index = 1
    /\ round = 1
    /\ acted = {entries[1]}

Current == entries[index]

\* Mutant of AdvanceTurn: the round ends one entry early.
AdvanceEarly ==
    /\ entries # <<>>
    /\ IF index + 1 >= Len(entries)
       THEN /\ round < MaxRounds
            /\ index' = 1
            /\ round' = round + 1
            /\ acted' = {entries[1]}
       ELSE /\ index' = index + 1
            /\ acted' = acted \cup {entries[index + 1]}
            /\ UNCHANGED round
    /\ UNCHANGED <<score, entries>>

\* advance_turn; an empty order raises IndexError.
AdvanceTurn ==
    /\ entries # <<>>
    /\ IF index + 1 > Len(entries)
       THEN /\ round < MaxRounds
            /\ index' = 1
            /\ round' = round + 1
            /\ acted' = {entries[1]}
       ELSE /\ index' = index + 1
            /\ acted' = acted \cup {entries[index + 1]}
            /\ UNCHANGED round
    /\ UNCHANGED <<score, entries>>

\* Mutant of IndexAfter: the index is left alone.
IndexUnshifted(k, left) == IF index > left THEN left ELSE index

\* Mutant of IndexAfter: the index is not clamped.
IndexUnclamped(k, left) == IF k < index THEN index - 1 ELSE index

\* Mutant of IndexAfter: the comparison is the wrong way round.
IndexSwapped(k, left) ==
    IF k > index /\ index > 1 THEN index - 1
    ELSE IF index > left THEN left ELSE index

\* Where the index goes when entry k is taken out and `left' remain.
IndexAfter(k, left) ==
    IF k < index THEN index - 1
    ELSE IF k = index /\ index > left THEN left
    ELSE index

\* remove_participant; an order that is empty then keeps its round.  When the current
\* entry goes, current_turn is at once whoever has its place: the entry after it, which
\* the next advance_turn leaves behind, or the one before it if it was the last.
RemoveParticipant(k) ==
    /\ k \in DOMAIN entries
    /\ entries' = RemoveAt(entries, k)
    /\ index' = IF entries' = <<>> THEN 1 ELSE IndexAfter(k, Len(entries'))
    /\ acted' = acted \cup {entries'[i] : i \in {index'} \cap DOMAIN entries'}
    /\ UNCHANGED <<score, round>>

OrderNext == AdvanceTurn \/ \E k \in DOMAIN entries : RemoveParticipant(k)

OrderSpec == RollInitiative /\ [][OrderNext]_order

-----------------------------------------------------------------------------
(* Properties *)

\* The index always names an entry that is there, the first of an empty order
\* excepted: current_turn never raises on an encounter with somebody left.
TypeOK ==
    /\ score \in [Participants -> Rolls]
    /\ entries \in Seq(Participants)
    /\ index \in 1..(IF entries = <<>> THEN 1 ELSE Len(entries))
    /\ round \in Nat
    /\ acted \subseteq Participants

\* A round ends only when everybody who is still in it has been current_turn, however
\* many have fallen before, at or after the current entry: by an advance, or by the fall
\* of whoever had the turn.
NobodySkipped == [][round' # round => ToSet(entries) \subseteq acted]_order

\* advance_turn never comes back within a round to somebody who has been current_turn
\* in it.
NobodyTwice ==
    [][AdvanceTurn /\ round' = round => Current' \notin acted]_order

\* A participant's fall leaves the turn with whoever has it (remove_participant: "so the
\* same actor is still 'up'"), unless it was his: then the turn is with the entry after
\* him already, with no advance, or, if he was the last, back with the one before him.
FallKeepsActor ==
    [][entries' # entries /\ entries' # <<>> =>
          Current' = IF Current \in ToSet(entries') THEN Current
                     ELSE IF index < Len(entries) THEN entries[index + 1]
                     ELSE entries[index - 1]]_order

\* Not run: what NobodySkipped and NobodyTwice rest on.  Those up to the index have been
\* current_turn, those after it have not, and nobody is there twice.
ActedInv ==
    /\ \A i \in DOMAIN entries : i <= index <=> entries[i] \in acted
    /\ \A i, j \in DOMAIN entries : i # j => entries[i] # entries[j]

=============================================================================
