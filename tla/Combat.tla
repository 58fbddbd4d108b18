------------------------------- MODULE Combat -------------------------------
(***************************************************************************)
(* Hit points, status and encounters of one campaign, as the tool calls of *)
(* its open sessions change them, and the initiative gate the players'     *)
(* actions pass.                                                           *)
(*                                                                         *)
(* The turns of a session exclude one another, those of two sessions do    *)
(* not: a handler reads the row it needs, computes, and writes the changed *)
(* columns back, with SQLite's writer lock held from its flush to its      *)
(* commit only.                                                            *)
(***************************************************************************)
EXTENDS Rules, Lists

CONSTANTS
    Characters,     \* the campaign's characters
    Sessions,       \* its sessions
    Races,          \* what each race allows and needs
    HitDie,         \* the hit die of each class
    Applicants,     \* characters that players ask to be generated
    Amounts,        \* damage and healing the model asks for
    Effects,        \* status effects
    DyingEffects,   \* those a revival clears
    Monster,        \* a participant without a player
    Nobody,         \* no actor: no encounter is active
    MaxCalls,       \* bound: tool calls of a behaviour
    MaxFights,      \* bound: encounters of a behaviour
    MaxActions      \* bound: actions declared in a behaviour

ASSUME AmountsAssumption == Amounts \subseteq Nat \ {0}
ASSUME ApplicantsAssumption ==
    \A a \in Applicants :
        a.race \in DOMAIN Races /\ a.class \in DOMAIN HitDie /\ a.scores \in Scores
ASSUME HitDieAssumption == \A class \in DOMAIN HitDie : HitDie[class] \in {4, 6, 8}
ASSUME NamesAssumption ==
    Monster # Nobody /\ Monster \notin Characters /\ Nobody \notin Characters
ASSUME EffectsAssumption == DyingEffects \subseteq Effects

VARIABLES
    hpMax,     \* characters.hp_max
    hp,        \* characters.hp_current
    status,    \* characters.status
    effects,   \* characters.status_effects
    fights,    \* encounters, oldest first
    waiting,   \* each session's accepted actions, oldest first
    turn,      \* the action whose turn holds the session's lock
    call,      \* the tool call under way in that turn
    moved,     \* ghost: characters another session wrote since the call read
    used       \* calls and actions so far, for the bounds

sheet == <<hp, status, effects>>
vars == <<hpMax, sheet, fights, waiting, turn, call, moved, used>>

Row(c) == [hp |-> hp[c], status |-> status[c], effects |-> effects[c]]
NoCall == [phase |-> "none"]
NoTurn == [char |-> Nobody, fight |-> 0]

\* The hit points of the applicants that generation accepts.
Generated ==
    {StartingHp(HitDie[a.class], a.scores["con"]) :
        a \in {a \in Applicants : Accepted(Races[a.race], a)}}

Init ==
    /\ hpMax \in [Characters -> Generated]
    /\ hp = hpMax
    /\ status = [c \in Characters |-> "alive"]
    /\ effects = [c \in Characters |-> <<>>]
    /\ fights = <<>>
    /\ waiting = [s \in Sessions |-> <<>>]
    /\ turn = [s \in Sessions |-> NoTurn]
    /\ call = [s \in Sessions |-> NoCall]
    /\ moved = [s \in Sessions |-> {}]
    /\ used = [calls |-> 0, actions |-> 0]

-----------------------------------------------------------------------------
(* The initiative gate *)

ActiveFights(s) == {f \in DOMAIN fights : fights[f].session = s /\ fights[f].state = "active"}

\* The newest active encounter of the session, 0 if there is none.
CurrentFight(s) ==
    IF ActiveFights(s) = {} THEN 0
    ELSE CHOOSE f \in ActiveFights(s) : \A g \in ActiveFights(s) : g <= f

\* The entry at current_turn, which no tool moves from the first.
CurrentActor(s) == IF CurrentFight(s) = 0 THEN Nobody ELSE fights[CurrentFight(s)].first

\* Mutant of Declare: any player may act in a fight.
DeclareFreely(s, c) ==
    /\ used.actions < MaxActions
    /\ waiting' = [waiting EXCEPT ![s] = Append(@, [char |-> c, fight |-> CurrentFight(s)])]
    /\ used' = [used EXCEPT !.actions = @ + 1]
    /\ UNCHANGED <<sheet, fights, turn, call, moved>>

\* A player's action: talk passes, combat passes out of combat and for the actor.
Declare(s, c) ==
    /\ used.actions < MaxActions
    /\ \E kind \in {"combat", "talk"} :
         /\ kind = "combat" => CurrentActor(s) \in {Nobody, c}
         /\ waiting' = [waiting EXCEPT ![s] = Append(@,
              [char |-> c, fight |-> IF kind = "combat" THEN CurrentFight(s) ELSE 0])]
    /\ used' = [used EXCEPT !.actions = @ + 1]
    /\ UNCHANGED <<sheet, fights, turn, call, moved>>

\* The turn at the head of the queue takes the session lock.
BeginTurn(s) ==
    /\ turn[s] = NoTurn
    /\ waiting[s] # <<>>
    /\ turn' = [turn EXCEPT ![s] = Head(waiting[s])]
    /\ waiting' = [waiting EXCEPT ![s] = Tail(@)]
    /\ UNCHANGED <<sheet, fights, call, moved, used>>

EndTurn(s) ==
    /\ turn[s] # NoTurn
    /\ call[s] = NoCall
    /\ turn' = [turn EXCEPT ![s] = NoTurn]
    /\ UNCHANGED <<sheet, fights, waiting, call, moved, used>>

-----------------------------------------------------------------------------
(* A tool call: it reads, it writes under the writer lock, it commits *)

CanCall(s) == turn[s] # NoTurn /\ call[s] = NoCall /\ used.calls < MaxCalls

\* Mutant of Read: the model's idea of the hit points is trusted.
ReadClaimed(s, asked) ==
    /\ CanCall(s)
    /\ call' = [call EXCEPT ![s] = [phase |-> "read", asked |-> asked,
                                     seen |-> [Row(asked.on) EXCEPT !.hp = hpMax[asked.on]]]]
    /\ moved' = [moved EXCEPT ![s] = {}]
    /\ used' = [used EXCEPT !.calls = @ + 1]
    /\ UNCHANGED <<sheet, fights, waiting, turn>>

\* The handler has its row; asked is what the model asked of it.
Read(s, asked) ==
    /\ CanCall(s)
    /\ call' = [call EXCEPT ![s] = [phase |-> "read", asked |-> asked,
                                     seen |-> Row(asked.on)]]
    /\ moved' = [moved EXCEPT ![s] = {}]
    /\ used' = [used EXCEPT !.calls = @ + 1]
    /\ UNCHANGED <<sheet, fights, waiting, turn>>

ApplyDamage(s, c) ==
    \E n \in Amounts : Read(s, [tool |-> "apply_damage", on |-> c, amount |-> n])

\* Mutant of Heal: without the refusal.
HealAnyone(s, c) == \E n \in Amounts : Read(s, [tool |-> "heal", on |-> c, amount |-> n])

\* heal refuses a character at 0 HP.
Heal(s, c) ==
    /\ hp[c] > 0
    /\ \E n \in Amounts : Read(s, [tool |-> "heal", on |-> c, amount |-> n])

\* apply_revival refuses one above 0 HP.
ApplyRevival(s, c) ==
    /\ hp[c] <= 0
    /\ Read(s, [tool |-> "apply_revival", on |-> c])

ApplyStatusEffect(s, c) ==
    \E e \in Effects : Read(s, [tool |-> "apply_status_effect", on |-> c, effect |-> e])

ClearStatusEffect(s, c) ==
    \E e \in Effects : Read(s, [tool |-> "clear_status_effect", on |-> c, effect |-> e])

\* The roll is written down with whoever it is for; nothing on a sheet changes.
RequestDiceRoll(s, c) == Read(s, [tool |-> "request_dice_roll", on |-> c])

\* Mutant of Wounds: what a survivable blow leaves is not clamped.
WoundsBelow(seen, amount) == {[hp |-> Damage(seen.hp, amount).left]}

\* A survivable blow writes hit points alone; the table's last row also the status.
Wounds(seen, amount) ==
    LET blow == Damage(seen.hp, amount) IN
    IF ~blow.drops THEN {[hp |-> blow.left]}
    ELSE {IF row = "dead" THEN [hp |-> 0, status |-> "dead"] ELSE [hp |-> HpAfter(row)] :
            row \in DeathRolls(blow.below)}

Raised(seen) ==
    [hp |-> 1, status |-> "alive", effects |-> Without(seen.effects, DyingEffects)]

\* The columns the handler sets from the row it read.
Writes(asked, seen) ==
    CASE asked.tool = "apply_damage"  -> Wounds(seen, asked.amount)
      [] asked.tool = "heal"          -> {[hp |-> Healed(seen.hp, hpMax[asked.on], asked.amount)]}
      [] asked.tool = "apply_revival" -> {Raised(seen)}
      [] asked.tool = "apply_status_effect" ->
           {[effects |-> IF asked.effect \in Listed(seen.effects) THEN seen.effects
                         ELSE Append(seen.effects, asked.effect)]}
      [] asked.tool = "clear_status_effect" ->
           {[effects |-> Without(seen.effects, {asked.effect})]}
      [] asked.tool = "request_dice_roll" -> {<<>>}

\* An audit row is inserted: the writer lock is taken whatever the sheet says.
Inserts(asked) == asked.tool = "request_dice_roll"

\* SQLAlchemy leaves out of the UPDATE what has not changed since the read.
Changed(set, seen) ==
    LET differs == {k \in DOMAIN set : set[k] # seen[k]}
    IN  [k \in differs |-> set[k]]

WriterFree == \A s \in Sessions : call[s].phase # "flushed"

Flush(s) ==
    /\ call[s].phase = "read"
    /\ \E set \in Writes(call[s].asked, call[s].seen) :
         LET change == Changed(set, call[s].seen)
             writes == DOMAIN change # {} \/ Inserts(call[s].asked) IN
         /\ writes => WriterFree
         /\ call' = [call EXCEPT ![s] =
              [phase |-> IF writes THEN "flushed" ELSE "settled",
               asked |-> call[s].asked, seen |-> call[s].seen, change |-> change]]
    /\ UNCHANGED <<sheet, fights, waiting, turn, moved, used>>

Column(k, change, old) == IF k \in DOMAIN change THEN change[k] ELSE old

Commit(s) ==
    /\ call[s].phase \in {"flushed", "settled"}
    /\ LET c == call[s].asked.on
           change == call[s].change
       IN  /\ hp' = [hp EXCEPT ![c] = Column("hp", change, @)]
           /\ status' = [status EXCEPT ![c] = Column("status", change, @)]
           /\ effects' = [effects EXCEPT ![c] = Column("effects", change, @)]
           /\ moved' = [r \in Sessions |->
                IF r # s /\ DOMAIN change # {} THEN moved[r] \union {c} ELSE moved[r]]
    /\ call' = [call EXCEPT ![s] = NoCall]
    /\ UNCHANGED <<fights, waiting, turn, used>>

\* The writer lock did not come in time, or the handler raised: nothing is kept.
RollBack(s) ==
    /\ call[s].phase \in {"read", "flushed", "mustered"}
    /\ call' = [call EXCEPT ![s] = NoCall]
    /\ UNCHANGED <<sheet, fights, waiting, turn, moved, used>>

-----------------------------------------------------------------------------
(* Encounters *)

\* start_encounter reads who is alive, and rolls.
Muster(s) ==
    /\ CanCall(s)
    /\ Len(fights) < MaxFights
    /\ call' = [call EXCEPT ![s] = [phase |-> "mustered",
                                     living |-> {c \in Characters : status[c] = "alive"}]]
    /\ used' = [used EXCEPT !.calls = @ + 1]
    /\ UNCHANGED <<sheet, fights, waiting, turn, moved>>

\* It stores the order, of which the gate will look at the first entry only.
StartEncounter(s) ==
    /\ call[s].phase = "mustered"
    /\ WriterFree
    /\ \E first \in call[s].living \union {Monster} :
         fights' = Append(fights, [session |-> s, state |-> "active",
                                    first |-> first, enrolled |-> call[s].living])
    /\ call' = [call EXCEPT ![s] = NoCall]
    /\ UNCHANGED <<sheet, waiting, turn, moved, used>>

\* Any id may be asked for; one of another session, or one that is over, is refused.
EndEncounter(s, f) ==
    /\ CanCall(s)
    /\ WriterFree
    /\ fights[f].session = s
    /\ fights[f].state = "active"
    /\ \E outcome \in {"victory", "flee"} : fights' = [fights EXCEPT ![f].state = outcome]
    /\ used' = [used EXCEPT !.calls = @ + 1]
    /\ UNCHANGED <<sheet, waiting, turn, call, moved>>

-----------------------------------------------------------------------------
OnSheet(s, c) ==
    \/ ApplyDamage(s, c) \/ Heal(s, c) \/ ApplyRevival(s, c)
    \/ ApplyStatusEffect(s, c) \/ ClearStatusEffect(s, c)
    \/ RequestDiceRoll(s, c)

Tool(s) ==
    \/ \E c \in Characters : OnSheet(s, c)
    \/ Flush(s) \/ Commit(s) \/ RollBack(s)
    \/ Muster(s) \/ StartEncounter(s)
    \/ \E f \in DOMAIN fights : EndEncounter(s, f)

Next ==
    /\ \E s \in Sessions :
         \/ \E c \in Characters : Declare(s, c)
         \/ BeginTurn(s) \/ EndTurn(s)
         \/ Tool(s)
    /\ UNCHANGED hpMax

Spec == Init /\ [][Next]_vars

-----------------------------------------------------------------------------
(* Properties *)

\* Hit points never leave 0 to hp_max and no effect is listed twice, in the rows and in
\* what a handler has read of them, whatever the handlers of two sessions overwrite.
SheetOK(c, row) ==
    /\ row.hp \in 0..hpMax[c]
    /\ row.status \in {"alive", "dead"}
    /\ Listed(row.effects) \subseteq Effects
    /\ Len(row.effects) = Cardinality(Listed(row.effects))

SheetInv ==
    /\ \A c \in Characters : hpMax[c] \in Nat \ {0}
    /\ \A c \in Characters : SheetOK(c, Row(c))
    /\ \A s \in Sessions : call[s].phase \in {"read", "flushed", "settled"} => SheetOK(call[s].asked.on, call[s].seen)
    /\ Cardinality({s \in Sessions : call[s].phase = "flushed"}) <= 1
    /\ \A f \in DOMAIN fights :
         /\ fights[f].first \in fights[f].enrolled \union {Monster}
         /\ fights[f].state \in {"active", "victory", "flee"}

Commits(s) == call[s].phase = "flushed" /\ call'[s] = NoCall /\ sheet' # sheet
Overtaken(s) == call[s].asked.on \in moved[s]

\* The state_update a handler reports starts from the value it overwrites, and a column
\* somebody else has changed meanwhile is overwritten only when another session's
\* handler committed between this one's read and its flush.
LostByOverlapOnly ==
    [][\A s \in Sessions :
          Commits(s) =>
            \/ Overtaken(s)
            \/ \A k \in DOMAIN call[s].change : Row(call[s].asked.on)[k] = call[s].seen[k]]_vars

\* The ways up from 0 HP, back from the dead and to stand while marked dead are these: a
\* revival, a blow that lands on the fallen and rolls one of the table's rows that leave 1 HP,
\* and a handler that was overtaken.  Ordinary healing never raises the fallen; a revival is
\* not "the *only* tool authorised to bypass the 0-HP rule" (apply_revival.py).
UpOnlySo ==
    [][\A c \in Characters :
          /\ hp[c] = 0 /\ hp'[c] > 0 =>
               \E s \in Sessions :
                  /\ Commits(s) /\ call[s].asked.on = c
                  /\ \/ call[s].asked.tool = "apply_revival"
                     \/ call[s].asked.tool = "apply_damage" /\ hp'[c] = 1
                     \/ Overtaken(s)
          /\ status[c] = "dead" /\ status'[c] = "alive" =>
               \E s \in Sessions :
                  Commits(s) /\ call[s].asked.tool = "apply_revival" /\ call[s].seen.hp = 0
          /\ ~(status[c] = "dead" /\ hp[c] > 0) /\ status'[c] = "dead" /\ hp'[c] > 0 =>
               \E s \in Sessions :
                  /\ Commits(s) /\ call[s].asked.on = c
                  /\ \/ call[s].asked.tool = "apply_damage" /\ call[s].seen.status = "dead"
                     \/ Overtaken(s)]_vars

\* A combat action that waited for the lock runs for the actor of its encounter, unless
\* that encounter has ended or a newer one has begun in the meantime.
ActsForItsFight ==
    \A s \in Sessions : LET f == turn[s].fight IN
        \/ f = 0
        \/ fights[f].state # "active"
        \/ \E g \in DOMAIN fights : g > f /\ fights[g].session = s
        \/ fights[f].session = s /\ fights[f].first = turn[s].char
=============================================================================
