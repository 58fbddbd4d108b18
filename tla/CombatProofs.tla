---------------------------- MODULE CombatProofs ----------------------------
(***************************************************************************)
(* For any characters, sessions, amounts and effects: what the handlers of *)
(* concurrent sessions leave on a sheet stays within the rules, an update  *)
(* is lost only to an overlap, nobody gets up but by a revival or a blow,  *)
(* and a combat action acts for the encounter it was declared in.          *)
(* At the end, for any participants and rolls: the turn order leaves       *)
(* nobody out, and a fall leaves the turn where it was.                    *)
(***************************************************************************)
EXTENDS Combat, Initiative, SequenceLemmas

-----------------------------------------------------------------------------
(* The rules *)

\* Generation gives every accepted applicant at least one hit point.
LEMMA GeneratedPositive == Generated \subseteq Nat \ {0}
  <1> SUFFICES ASSUME NEW a \in Applicants
               PROVE  StartingHp(HitDie[a.class], a.scores["con"]) \in Nat \ {0}
    BY DEF Generated
  <1>1. HitDie[a.class] \in Int
    BY ApplicantsAssumption, HitDieAssumption
  <1>2. a.scores["con"] \in 3..18
    BY ApplicantsAssumption DEF Scores
  <1>3. AbilityModifier(a.scores["con"]) \in -3..3
    BY <1>2 DEF AbilityModifier
  <1> QED BY <1>1, <1>3 DEF StartingHp, Larger

\* The death table leaves the fallen at most one hit point.
LEMMA DeathTable ==
    ASSUME NEW below \in Nat, NEW row \in DeathRolls(below)
    PROVE  HpAfter(row) \in {0, 1}
  BY DEF HpAfter

-----------------------------------------------------------------------------
(* The invariant *)

Tools == {"apply_damage", "heal", "apply_revival", "apply_status_effect",
          "clear_status_effect", "request_dice_roll"}
Columns == {"hp", "status", "effects"}
Fights == [session : Sessions, state : {"active", "victory", "flee"},
           first : Characters \union {Monster}, enrolled : SUBSET Characters]
Actions == [char : Characters \union {Nobody}, fight : Nat]

RowOK(c, row) ==
    /\ row = [hp |-> row.hp, status |-> row.status, effects |-> row.effects]
    /\ row.hp \in 0..hpMax[c]
    /\ row.status \in {"alive", "dead"}
    /\ row.effects \in Seq(Effects) /\ OnceEach(row.effects)

\* What is asked for, and not refused by the row that was read.
AskedOK(asked, seen) ==
    /\ asked.on \in Characters /\ asked.tool \in Tools
    /\ asked.tool \in {"apply_damage", "heal"} => asked.amount \in Amounts
    /\ asked.tool \in {"apply_status_effect", "clear_status_effect"} => asked.effect \in Effects
    /\ asked.tool = "heal" => seen.hp > 0
    /\ asked.tool = "apply_revival" => seen.hp = 0

Working(s) == call[s].phase \in {"read", "flushed", "settled"}

CallOK(s) ==
    /\ call[s].phase \in {"none", "read", "flushed", "settled", "mustered"}
    /\ Working(s) =>
         /\ AskedOK(call[s].asked, call[s].seen)
         /\ RowOK(call[s].asked.on, call[s].seen)
         /\ Overtaken(s) \/ call[s].seen = Row(call[s].asked.on)
    /\ call[s].phase \in {"flushed", "settled"} =>
         \E set \in Writes(call[s].asked, call[s].seen) :
            call[s].change = Changed(set, call[s].seen)
    /\ call[s].phase = "settled" => DOMAIN call[s].change = {}
    /\ call[s].phase = "mustered" => call[s].living \subseteq Characters

\* The sheets and the calls on them.
SheetsTyped ==
    /\ hpMax \in [Characters -> Nat \ {0}]
    /\ hp \in [Characters -> Nat]
    /\ status \in [Characters -> {"alive", "dead"}]
    /\ effects \in [Characters -> Seq(Effects)]
    /\ call = [s \in Sessions |-> call[s]]
    /\ moved \in [Sessions -> SUBSET Characters]

OneWriter ==
    \A r, s \in Sessions : call[r].phase = "flushed" /\ call[s].phase = "flushed" => r = s

SheetsInv ==
    /\ SheetsTyped
    /\ \A c \in Characters : RowOK(c, Row(c))
    /\ \A s \in Sessions : CallOK(s)
    /\ OneWriter

\* The gate: whose an action of an encounter is.
ActsFor(s, action) ==
    \/ action.fight = 0
    \/ /\ action.fight \in DOMAIN fights
       /\ \/ fights[action.fight].state # "active"
          \/ \E g \in DOMAIN fights : g > action.fight /\ fights[g].session = s
          \/ fights[action.fight].session = s /\ fights[action.fight].first = action.char

GateInv ==
    /\ fights \in Seq(Fights)
    /\ \A f \in DOMAIN fights : fights[f].first \in fights[f].enrolled \union {Monster}
    /\ waiting \in [Sessions -> Seq(Actions)]
    /\ turn \in [Sessions -> Actions]
    /\ \A s \in Sessions : ActsFor(s, turn[s])
    /\ \A s \in Sessions : \A i \in DOMAIN waiting[s] : ActsFor(s, waiting[s][i])

Inv == SheetsInv /\ GateInv

\* The first state satisfies the invariant.
LEMMA InitInv == Init => Inv
  <1> SUFFICES ASSUME Init PROVE Inv
    OBVIOUS
  <1>1. SheetsTyped
    <2>1. hpMax \in [Characters -> Nat \ {0}] /\ hp = hpMax
      BY GeneratedPositive DEF Init
    <2>2. hp \in [Characters -> Nat]
      BY <2>1
    <2>3. /\ status \in [Characters -> {"alive", "dead"}]
          /\ effects \in [Characters -> Seq(Effects)]
          /\ moved \in [Sessions -> SUBSET Characters]
      BY DEF Init
    <2>4. call = [s \in Sessions |-> call[s]]
      BY DEF Init
    <2> QED BY <2>1, <2>2, <2>3, <2>4 DEF SheetsTyped
  <1>2. ASSUME NEW c \in Characters
        PROVE  RowOK(c, Row(c))
    BY <1>1 DEF Init, SheetsTyped, RowOK, Row, OnceEach
  <1>3. ASSUME NEW s \in Sessions
        PROVE  CallOK(s) /\ call[s].phase = "none"
    BY <1>3 DEF Init, CallOK, Working, NoCall
  <1>4. GateInv
    BY DEF Init, GateInv, NoTurn, Actions, ActsFor
  <1> QED BY <1>1, <1>2, <1>3, <1>4 DEF Inv, SheetsInv, OneWriter

-----------------------------------------------------------------------------
(* What a handler sets *)

\* The columns a handler sets are of the sheet and within its bounds; each tool sets its own.
LEMMA WritesFacts ==
    ASSUME SheetsTyped, NEW asked, NEW seen, AskedOK(asked, seen), RowOK(asked.on, seen),
           NEW set \in Writes(asked, seen)
    PROVE  /\ DOMAIN set \subseteq Columns
           /\ "hp" \in DOMAIN set => set["hp"] \in 0..hpMax[asked.on]
           /\ "status" \in DOMAIN set => set["status"] \in {"alive", "dead"}
           /\ "effects" \in DOMAIN set =>
                set["effects"] \in Seq(Effects) /\ OnceEach(set["effects"])
           /\ asked.tool = "apply_damage" =>
                /\ "status" \in DOMAIN set =>
                     set["status"] = "dead" /\ "hp" \in DOMAIN set /\ set["hp"] = 0
                /\ seen.hp = 0 => set["hp"] \in {0, 1}
           /\ asked.tool = "heal" => DOMAIN set = {"hp"}
           /\ asked.tool = "apply_revival" =>
                "status" \in DOMAIN set /\ set["status"] = "alive"
           /\ asked.tool \in {"apply_status_effect", "clear_status_effect", "request_dice_roll"} =>
                DOMAIN set \subseteq {"effects"}
  <1> DEFINE c == asked.on
  <1>1. /\ c \in Characters /\ hpMax[c] \in Nat \ {0} /\ asked.tool \in Tools
        /\ seen.hp \in 0..hpMax[c] /\ seen.effects \in Seq(Effects) /\ OnceEach(seen.effects)
    BY DEF SheetsTyped, AskedOK, RowOK
  <1>2. CASE asked.tool = "apply_damage"
    <2>1. asked.amount \in Nat \ {0}
      BY <1>2, AmountsAssumption DEF AskedOK
    <2> DEFINE blow == Damage(seen.hp, asked.amount)
    <2>2. /\ blow.left = seen.hp - asked.amount
          /\ blow.drops = (seen.hp - asked.amount <= 0)
          /\ blow.below \in Nat
      <3>1. /\ blow.left = seen.hp - asked.amount
            /\ blow.below = Larger(0, asked.amount - seen.hp)
        BY DEF Damage
      <3>2. blow.drops = (seen.hp - asked.amount <= 0)
        BY Zenon DEF Damage
      <3> QED BY <1>1, <2>1, <3>1, <3>2 DEF Larger
    <2>3. set \in Wounds(seen, asked.amount)
      BY <1>2 DEF Writes
    <2>4. CASE ~blow.drops
      <3>1. set = [hp |-> blow.left]
        BY <2>3, <2>4 DEF Wounds
      <3>2. ~(seen.hp - asked.amount <= 0)
        BY <2>2, <2>4
      <3>3. blow.left \in 0..hpMax[c] /\ seen.hp # 0
        BY <1>1, <2>1, <2>2, <3>2
      <3> HIDE DEF blow
      <3> QED BY <1>2, <3>1, <3>3 DEF Columns
    <2>5. CASE blow.drops
      <3>1. PICK row \in DeathRolls(blow.below) :
              set = IF row = "dead" THEN [hp |-> 0, status |-> "dead"] ELSE [hp |-> HpAfter(row)]
        BY <2>3, <2>5 DEF Wounds
      <3>2. HpAfter(row) \in {0, 1}
        BY <2>2, DeathTable
      <3> QED BY <1>1, <1>2, <3>1, <3>2 DEF Columns
    <2> QED BY <2>4, <2>5
  <1>3. CASE asked.tool = "heal"
    <2>1. asked.amount \in Nat /\ seen.hp > 0
      BY <1>3, AmountsAssumption DEF AskedOK
    <2>2. set = [hp |-> Healed(seen.hp, hpMax[c], asked.amount)]
      BY <1>3 DEF Writes
    <2>3. Healed(seen.hp, hpMax[c], asked.amount) \in 0..hpMax[c]
      BY <1>1, <2>1 DEF Healed, Smaller
    <2> QED BY <1>3, <2>2, <2>3 DEF Columns
  <1>4. CASE asked.tool = "apply_revival"
    <2> DEFINE left == Without(seen.effects, DyingEffects)
    <2>1. set = [hp |-> 1, status |-> "alive", effects |-> left]
      BY <1>4 DEF Writes, Raised
    <2>2. left \in Seq(Effects) /\ OnceEach(left)
      BY <1>1, WithoutWorks
    <2> HIDE DEF left
    <2> QED BY <1>1, <1>4, <2>1, <2>2 DEF Columns
  <1>5. CASE asked.tool = "apply_status_effect"
    <2> DEFINE list == IF asked.effect \in Listed(seen.effects) THEN seen.effects
                       ELSE Append(seen.effects, asked.effect)
    <2>1. set = [effects |-> list]
      BY <1>5 DEF Writes
    <2>2. asked.effect \in Effects
      BY <1>5 DEF AskedOK
    <2>3. list \in Seq(Effects)
      BY <1>1, <2>2
    <2>4. OnceEach(list)
      <3>1. CASE asked.effect \in Listed(seen.effects)
        BY <1>1, <3>1
      <3>2. CASE asked.effect \notin Listed(seen.effects)
        <4>1. /\ list = Append(seen.effects, asked.effect)
              /\ \A i \in DOMAIN seen.effects : seen.effects[i] # asked.effect
          BY <3>2 DEF Listed
        <4> HIDE DEF list
        <4>2. /\ Len(seen.effects) \in Nat
              /\ DOMAIN seen.effects = 1..Len(seen.effects)
              /\ DOMAIN list = 1..(Len(seen.effects) + 1)
              /\ \A i \in DOMAIN seen.effects : list[i] = seen.effects[i]
              /\ list[Len(seen.effects) + 1] = asked.effect
          BY <1>1, <2>2, <4>1, AppendElements
        <4>3. \A i \in DOMAIN list : i \in DOMAIN seen.effects \/ i = Len(seen.effects) + 1
          BY <4>2
        <4> QED BY <1>1, <4>1, <4>2, <4>3 DEF OnceEach
      <3> QED BY <3>1, <3>2
    <2> HIDE DEF list
    <2> QED BY <1>5, <2>1, <2>3, <2>4 DEF Columns
  <1>6. CASE asked.tool = "clear_status_effect"
    <2> DEFINE left == Without(seen.effects, {asked.effect})
    <2>1. set = [effects |-> left]
      BY <1>6 DEF Writes
    <2>2. left \in Seq(Effects) /\ OnceEach(left)
      BY <1>1, WithoutWorks
    <2> HIDE DEF left
    <2> QED BY <1>6, <2>1, <2>2 DEF Columns
  <1>7. CASE asked.tool = "request_dice_roll"
    <2>1. set = <<>>
      BY <1>7 DEF Writes
    <2> QED BY <1>7, <2>1
  <1> QED BY <1>1, <1>2, <1>3, <1>4, <1>5, <1>6, <1>7 DEF Tools

\* The change of a call that has settled its row is part of what the handler sets.
LEMMA ChangeFacts ==
    ASSUME NEW set, NEW seen, NEW k \in DOMAIN Changed(set, seen)
    PROVE  k \in DOMAIN set /\ Changed(set, seen)[k] = set[k] /\ set[k] # seen[k]
  BY DEF Changed

\* A column the handler does not change has the value it was read with.
LEMMA UnchangedFacts ==
    ASSUME NEW set, NEW seen, NEW k \in DOMAIN set, k \notin DOMAIN Changed(set, seen)
    PROVE  set[k] = seen[k]
  BY DEF Changed

-----------------------------------------------------------------------------
(* The calls keep the sheets *)

\* A step that touches one call, or none, and no sheet.
LEMMA CallStep ==
    ASSUME SheetsInv, NEW s \in Sessions, NEW now, call' = [call EXCEPT ![s] = now],
           UNCHANGED <<hpMax, sheet>>,
           moved' \in [Sessions -> SUBSET Characters],
           \A r \in Sessions \ {s} : moved'[r] = moved[r],
           CallOK(s)', now.phase = "flushed" => WriterFree
    PROVE  SheetsInv'
  <1> USE DEF SheetsInv
  <1>1. /\ hpMax' = hpMax /\ hp' = hp /\ status' = status /\ effects' = effects
        /\ call'[s] = now /\ call' = [r \in Sessions |-> call'[r]]
        /\ \A r \in Sessions \ {s} : call'[r] = call[r]
    BY DEF sheet, SheetsTyped
  <1>2. SheetsTyped'
    BY <1>1 DEF SheetsTyped
  <1>3. ASSUME NEW c \in Characters
        PROVE  RowOK(c, Row(c))'
    BY <1>1 DEF RowOK, Row
  <1>4. ASSUME NEW r \in Sessions \ {s}
        PROVE  CallOK(r)'
    <2>1. CallOK(r)
      OBVIOUS
    <2> QED BY <1>1, <2>1 DEF CallOK, Working, Overtaken, RowOK, Row, Writes
  <1>5. OneWriter'
    <2> SUFFICES ASSUME NEW q \in Sessions, NEW r \in Sessions,
                        call'[q].phase = "flushed", call'[r].phase = "flushed"
                 PROVE  q = r
      BY DEF OneWriter
    <2>1. call'[s].phase = "flushed" => \A t \in Sessions \ {s} : call'[t].phase # "flushed"
      BY <1>1 DEF WriterFree
    <2> QED BY <1>1, <2>1 DEF OneWriter
  <1> QED BY <1>2, <1>3, <1>4, <1>5

\* The handlers' first half: the row as it is.
LEMMA ReadKeepsSheets ==
    ASSUME SheetsInv, UNCHANGED hpMax, NEW s \in Sessions, NEW asked,
           AskedOK(asked, Row(asked.on)), Read(s, asked)
    PROVE  SheetsInv'
  <1> USE DEF SheetsInv
  <1> DEFINE now == [phase |-> "read", asked |-> asked, seen |-> Row(asked.on)]
  <1>1. /\ call' = [call EXCEPT ![s] = now] /\ moved' = [moved EXCEPT ![s] = {}]
        /\ UNCHANGED sheet
    BY DEF Read
  <1>2. call'[s] = now
    BY <1>1 DEF SheetsTyped
  <1>3. /\ moved' \in [Sessions -> SUBSET Characters]
        /\ \A r \in Sessions \ {s} : moved'[r] = moved[r]
    BY <1>1 DEF SheetsTyped
  <1>4. asked.on \in Characters /\ RowOK(asked.on, Row(asked.on))
    BY DEF AskedOK
  <1>5. /\ call'[s].phase = "read" /\ call'[s].asked = asked
        /\ call'[s].seen = Row(asked.on)
    BY <1>2
  <1>6. /\ Row(asked.on)' = Row(asked.on) /\ RowOK(asked.on, Row(asked.on))'
        /\ AskedOK(asked, Row(asked.on))'
    BY <1>1, <1>4 DEF RowOK, Row, sheet, AskedOK
  <1>7. CallOK(s)'
    BY <1>1, <1>4, <1>5, <1>6 DEF CallOK, Working, RowOK, AskedOK, Row, sheet
  <1> HIDE DEF now
  <1>8. now.phase # "flushed"
    BY DEF now
  <1> QED BY <1>1, <1>3, <1>7, <1>8, CallStep

\* A handler that reads sets out from a sheet in order to one in order.
LEMMA OnSheetKeepsSheets ==
    ASSUME SheetsInv, UNCHANGED hpMax, NEW s \in Sessions, NEW c \in Characters, OnSheet(s, c)
    PROVE  SheetsInv'
  <1>1. Row(c).hp = hp[c] /\ hp[c] \in Nat
    BY DEF Row, SheetsInv, SheetsTyped
  <1>2. CASE ApplyDamage(s, c)
    <2>1. PICK n \in Amounts : Read(s, [tool |-> "apply_damage", on |-> c, amount |-> n])
      BY <1>2 DEF ApplyDamage
    <2> DEFINE asked == [tool |-> "apply_damage", on |-> c, amount |-> n]
    <2>2. AskedOK(asked, Row(asked.on)) /\ Read(s, asked)
      BY <2>1 DEF AskedOK, Tools
    <2> HIDE DEF asked
    <2> QED BY <2>2, ReadKeepsSheets
  <1>3. CASE Heal(s, c)
    <2>1. PICK n \in Amounts : hp[c] > 0 /\ Read(s, [tool |-> "heal", on |-> c, amount |-> n])
      BY <1>3 DEF Heal
    <2> DEFINE asked == [tool |-> "heal", on |-> c, amount |-> n]
    <2>2. AskedOK(asked, Row(asked.on)) /\ Read(s, asked)
      BY <1>1, <2>1 DEF AskedOK, Tools
    <2> HIDE DEF asked
    <2> QED BY <2>2, ReadKeepsSheets
  <1>4. CASE ApplyRevival(s, c)
    <2> DEFINE asked == [tool |-> "apply_revival", on |-> c]
    <2>1. AskedOK(asked, Row(asked.on)) /\ Read(s, asked)
      BY <1>1, <1>4 DEF AskedOK, Tools, ApplyRevival
    <2> HIDE DEF asked
    <2> QED BY <2>1, ReadKeepsSheets
  <1>5. CASE ApplyStatusEffect(s, c)
    <2>1. PICK e \in Effects : Read(s, [tool |-> "apply_status_effect", on |-> c, effect |-> e])
      BY <1>5 DEF ApplyStatusEffect
    <2> DEFINE asked == [tool |-> "apply_status_effect", on |-> c, effect |-> e]
    <2>2. AskedOK(asked, Row(asked.on)) /\ Read(s, asked)
      BY <2>1 DEF AskedOK, Tools
    <2> HIDE DEF asked
    <2> QED BY <2>2, ReadKeepsSheets
  <1>6. CASE ClearStatusEffect(s, c)
    <2>1. PICK e \in Effects : Read(s, [tool |-> "clear_status_effect", on |-> c, effect |-> e])
      BY <1>6 DEF ClearStatusEffect
    <2> DEFINE asked == [tool |-> "clear_status_effect", on |-> c, effect |-> e]
    <2>2. AskedOK(asked, Row(asked.on)) /\ Read(s, asked)
      BY <2>1 DEF AskedOK, Tools
    <2> HIDE DEF asked
    <2> QED BY <2>2, ReadKeepsSheets
  <1>7. CASE RequestDiceRoll(s, c)
    <2> DEFINE asked == [tool |-> "request_dice_roll", on |-> c]
    <2>1. AskedOK(asked, Row(asked.on)) /\ Read(s, asked)
      BY <1>7 DEF AskedOK, Tools, RequestDiceRoll
    <2> HIDE DEF asked
    <2> QED BY <2>1, ReadKeepsSheets
  <1> QED BY <1>2, <1>3, <1>4, <1>5, <1>6, <1>7 DEF OnSheet

\* A flush is possible only while nobody else holds the writer lock.
LEMMA FlushKeepsSheets ==
    ASSUME SheetsInv, UNCHANGED hpMax, NEW s \in Sessions, Flush(s)
    PROVE  SheetsInv'
  <1> USE DEF SheetsInv
  <1>0. PICK asked, seen : asked = call[s].asked /\ seen = call[s].seen
    OBVIOUS
  <1>1. PICK set \in Writes(asked, seen), writes \in BOOLEAN :
          /\ writes = (DOMAIN Changed(set, seen) # {} \/ Inserts(asked))
          /\ writes => WriterFree
          /\ call' = [call EXCEPT ![s] =
               [phase |-> IF writes THEN "flushed" ELSE "settled",
                asked |-> asked, seen |-> seen, change |-> Changed(set, seen)]]
    BY <1>0 DEF Flush
  <1> DEFINE change == Changed(set, seen)
             now == [phase |-> IF writes THEN "flushed" ELSE "settled",
                     asked |-> asked, seen |-> seen, change |-> change]
  <1>2. /\ call[s].phase = "read" /\ UNCHANGED <<sheet, moved>>
        /\ hp' = hp /\ status' = status /\ effects' = effects
    BY DEF Flush, sheet
  <1>3. call' = [call EXCEPT ![s] = now] /\ call'[s] = now
    BY <1>1 DEF SheetsTyped
  <1>4. /\ AskedOK(asked, seen) /\ RowOK(asked.on, seen)
        /\ asked.on \in moved[s] \/ seen = Row(asked.on)
    BY <1>0, <1>2 DEF CallOK, Working, Overtaken
  <1>5. /\ call'[s].asked = asked /\ call'[s].seen = seen /\ call'[s].change = change
        /\ call'[s].phase = IF writes THEN "flushed" ELSE "settled"
    BY <1>3
  <1>6. ~writes => DOMAIN change = {}
    BY <1>1
  <1> HIDE DEF change, now
  <1>7. CallOK(s)'
    <2>1. RowOK(asked.on, seen)' /\ set \in Writes(asked, seen)' /\ Row(asked.on)' = Row(asked.on)
      BY <1>1, <1>2, <1>4 DEF RowOK, Writes, Row
    <2>2. /\ call'[s].phase \in {"flushed", "settled"}
          /\ call'[s].phase = "settled" => ~writes
      BY <1>5
    <2>3. Overtaken(s)' \/ call'[s].seen = Row(asked.on)'
      BY <1>2, <1>4, <1>5, <2>1 DEF Overtaken
    <2> QED BY <1>4, <1>5, <1>6, <2>1, <2>2, <2>3 DEF CallOK, Working, change
  <1>8. now.phase = "flushed" => WriterFree
    BY <1>1, <1>3, <1>5
  <1> QED BY <1>2, <1>3, <1>7, <1>8, CallStep DEF SheetsTyped

\* What a commit does: the columns of the change go to the row it is for.
Committed(s, c, asked, seen, set, change) ==
    /\ c \in Characters
    /\ asked = call[s].asked /\ seen = call[s].seen /\ c = asked.on
    /\ change = call[s].change /\ change = Changed(set, seen)
    /\ set \in Writes(asked, seen)
    /\ AskedOK(asked, seen) /\ RowOK(c, seen)
    /\ c \in moved[s] \/ seen = Row(c)
    /\ call[s].phase \in {"flushed", "settled"}
    /\ call[s].phase = "settled" => DOMAIN change = {}
    /\ call' = [call EXCEPT ![s] = NoCall]
    /\ hp'[c] = Column("hp", change, hp[c])
    /\ status'[c] = Column("status", change, status[c])
    /\ effects'[c] = Column("effects", change, effects[c])
    /\ \A d \in Characters \ {c} :
         hp'[d] = hp[d] /\ status'[d] = status[d] /\ effects'[d] = effects[d]
    /\ hp' = [d \in Characters |-> hp'[d]]
    /\ status' = [d \in Characters |-> status'[d]]
    /\ effects' = [d \in Characters |-> effects'[d]]
    /\ moved' = [r \in Sessions |->
         IF r # s /\ DOMAIN change # {} THEN moved[r] \union {c} ELSE moved[r]]

\* What a commit writes, in the terms of the call that was flushed.
LEMMA CommitFacts ==
    ASSUME SheetsInv, UNCHANGED hpMax, NEW s \in Sessions, Commit(s)
    PROVE  \E c, asked, seen, set, change : Committed(s, c, asked, seen, set, change)
  <1> USE DEF SheetsInv
  <1>1. PICK asked, seen, change :
          asked = call[s].asked /\ seen = call[s].seen /\ change = call[s].change
    OBVIOUS
  <1>2. call[s].phase \in {"flushed", "settled"}
    BY DEF Commit
  <1>3. PICK set \in Writes(asked, seen) : change = Changed(set, seen)
    BY <1>1, <1>2 DEF CallOK
  <1>4. /\ AskedOK(asked, seen) /\ RowOK(asked.on, seen)
        /\ asked.on \in moved[s] \/ seen = Row(asked.on)
        /\ call[s].phase = "settled" => DOMAIN change = {}
    BY <1>1, <1>2 DEF CallOK, Working, Overtaken
  <1>5. PICK c \in Characters : c = asked.on
    BY <1>4 DEF AskedOK
  <1>6. /\ hp' = [hp EXCEPT ![c] = Column("hp", change, @)]
        /\ status' = [status EXCEPT ![c] = Column("status", change, @)]
        /\ effects' = [effects EXCEPT ![c] = Column("effects", change, @)]
        /\ moved' = [r \in Sessions |->
             IF r # s /\ DOMAIN change # {} THEN moved[r] \union {c} ELSE moved[r]]
        /\ call' = [call EXCEPT ![s] = NoCall]
    BY <1>1, <1>5 DEF Commit
  <1>7. /\ hp'[c] = Column("hp", change, hp[c])
        /\ status'[c] = Column("status", change, status[c])
        /\ effects'[c] = Column("effects", change, effects[c])
        /\ \A d \in Characters \ {c} :
             hp'[d] = hp[d] /\ status'[d] = status[d] /\ effects'[d] = effects[d]
    BY <1>6 DEF SheetsTyped
  <1>8. /\ hp' = [d \in Characters |-> hp'[d]]
        /\ status' = [d \in Characters |-> status'[d]]
        /\ effects' = [d \in Characters |-> effects'[d]]
    BY <1>6 DEF SheetsTyped
  <1>9. Committed(s, c, asked, seen, set, change)
    BY <1>1, <1>2, <1>3, <1>4, <1>5, <1>6, <1>7, <1>8 DEF Committed
  <1> QED BY <1>9

\* It writes columns each in range, whatever the others have become.
LEMMA CommitKeepsSheets ==
    ASSUME SheetsInv, UNCHANGED hpMax, NEW s \in Sessions, Commit(s)
    PROVE  SheetsInv'
  <1> USE DEF SheetsInv
  <1>0. PICK c, asked, seen, set, change : Committed(s, c, asked, seen, set, change)
    BY CommitFacts
  <1>1. /\ c \in Characters
        /\ asked = call[s].asked /\ seen = call[s].seen /\ c = asked.on
        /\ change = call[s].change /\ change = Changed(set, seen)
        /\ set \in Writes(asked, seen)
        /\ AskedOK(asked, seen) /\ RowOK(c, seen)
        /\ c \in moved[s] \/ seen = Row(c)
        /\ call[s].phase \in {"flushed", "settled"}
        /\ call[s].phase = "settled" => DOMAIN change = {}
        /\ call' = [call EXCEPT ![s] = NoCall]
        /\ hp'[c] = Column("hp", change, hp[c])
        /\ status'[c] = Column("status", change, status[c])
        /\ effects'[c] = Column("effects", change, effects[c])
        /\ \A d \in Characters \ {c} :
             hp'[d] = hp[d] /\ status'[d] = status[d] /\ effects'[d] = effects[d]
        /\ hp' = [d \in Characters |-> hp'[d]]
        /\ status' = [d \in Characters |-> status'[d]]
        /\ effects' = [d \in Characters |-> effects'[d]]
        /\ moved' = [r \in Sessions |->
             IF r # s /\ DOMAIN change # {} THEN moved[r] \union {c} ELSE moved[r]]
    BY <1>0 DEF Committed
  <1>2. /\ "hp" \in DOMAIN change => change["hp"] \in 0..hpMax[c]
        /\ "status" \in DOMAIN change => change["status"] \in {"alive", "dead"}
        /\ "effects" \in DOMAIN change =>
             change["effects"] \in Seq(Effects) /\ OnceEach(change["effects"])
    BY <1>1, WritesFacts, ChangeFacts
  <1>3. /\ RowOK(c, Row(c)) /\ hp[c] \in 0..hpMax[c] /\ status[c] \in {"alive", "dead"}
        /\ effects[c] \in Seq(Effects) /\ OnceEach(effects[c])
    BY <1>1 DEF RowOK, Row
  <1>4. /\ hp'[c] \in 0..hpMax[c] /\ status'[c] \in {"alive", "dead"}
        /\ effects'[c] \in Seq(Effects) /\ OnceEach(effects'[c])
    BY <1>1, <1>2, <1>3 DEF Column
  <1>5. ASSUME NEW d \in Characters
        PROVE  RowOK(d, Row(d))'
    <2>1. CASE d = c
      BY <1>4, <2>1 DEF RowOK, Row
    <2>2. CASE d # c
      <3>1. RowOK(d, Row(d))
        OBVIOUS
      <3> QED BY <1>1, <2>2, <3>1 DEF RowOK, Row
    <2> QED BY <2>1, <2>2
  <1>6. SheetsTyped'
    <2>1. \A d \in Characters : /\ hp'[d] \in Nat /\ status'[d] \in {"alive", "dead"}
                                /\ effects'[d] \in Seq(Effects)
      <3> TAKE d \in Characters
      <3>1. hp'[d] \in 0..hpMax[d] /\ hpMax[d] \in Nat
        BY <1>5 DEF RowOK, Row, SheetsTyped
      <3> QED BY <1>5, <3>1 DEF RowOK, Row
    <2>2. moved' \in [Sessions -> SUBSET Characters]
      BY <1>1 DEF SheetsTyped
    <2>3. call' = [r \in Sessions |-> call'[r]]
      BY <1>1 DEF SheetsTyped
    <2>4. /\ hp' \in [Characters -> Nat] /\ status' \in [Characters -> {"alive", "dead"}]
          /\ effects' \in [Characters -> Seq(Effects)]
      BY <1>1, <2>1
    <2> QED BY <2>2, <2>3, <2>4 DEF SheetsTyped
  <1>7. /\ call'[s] = NoCall
        /\ \A r \in Sessions \ {s} : call'[r] = call[r]
    BY <1>1 DEF SheetsTyped
  <1>8. ASSUME NEW r \in Sessions
        PROVE  CallOK(r)'
    <2>1. CASE r = s
      BY <1>7, <2>1 DEF CallOK, Working, NoCall
    <2>2. CASE r # s
      <3>1. CallOK(r) /\ call'[r] = call[r]
        BY <1>7, <2>2
      <3>2. ASSUME Working(r)
            PROVE  call[r].asked.on \in moved'[r] \/ call[r].seen = Row(call[r].asked.on)'
        <4>1. \/ call[r].asked.on \in moved[r]
              \/ call[r].seen = Row(call[r].asked.on) /\ call[r].asked.on \in Characters
          BY <3>1, <3>2 DEF CallOK, Overtaken, AskedOK
        <4>2. moved[r] \subseteq moved'[r]
          BY <1>1
        <4>3. CASE DOMAIN change = {}
          <5>1. \A d \in Characters :
                  hp'[d] = hp[d] /\ status'[d] = status[d] /\ effects'[d] = effects[d]
            BY <1>1, <4>3 DEF Column
          <5> QED BY <3>1, <4>1, <4>2, <5>1 DEF Row
        <4>4. CASE DOMAIN change # {}
          <5>1. c \in moved'[r]
            BY <1>1, <2>2, <4>4
          <5> QED BY <1>1, <3>1, <4>1, <4>2, <5>1 DEF Row
        <4> QED BY <4>3, <4>4
      <3> QED BY <3>1, <3>2 DEF CallOK, Working, Overtaken, RowOK, Writes
    <2> QED BY <2>1, <2>2
  <1>9. OneWriter'
    BY <1>7 DEF OneWriter, NoCall
  <1> QED BY <1>5, <1>6, <1>8, <1>9

\* A call that ends without a write, and start_encounter.
LEMMA EndCallKeepsSheets ==
    ASSUME SheetsInv, UNCHANGED <<hpMax, sheet, moved>>, NEW s \in Sessions,
           call' = [call EXCEPT ![s] = NoCall]
    PROVE  SheetsInv'
  <1>1. call'[s] = NoCall
    BY DEF SheetsInv, SheetsTyped
  <1>2. CallOK(s)'
    BY <1>1 DEF CallOK, Working, NoCall
  <1>3. NoCall.phase # "flushed" /\ moved' \in [Sessions -> SUBSET Characters]
    BY DEF NoCall, SheetsInv, SheetsTyped
  <1> QED BY <1>2, <1>3, CallStep

\* An encounter is begun under the writer lock.
LEMMA MusterKeepsSheets ==
    ASSUME SheetsInv, UNCHANGED hpMax, NEW s \in Sessions, Muster(s)
    PROVE  SheetsInv'
  <1> DEFINE living == {c \in Characters : status[c] = "alive"}
             now == [phase |-> "mustered", living |-> living]
  <1>1. call' = [call EXCEPT ![s] = now] /\ UNCHANGED <<sheet, moved>>
    BY DEF Muster
  <1>2. call'[s] = now
    BY <1>1 DEF SheetsInv, SheetsTyped
  <1>3. CallOK(s)'
    BY <1>2 DEF CallOK, Working
  <1>4. now.phase # "flushed"
    OBVIOUS
  <1>5. moved' \in [Sessions -> SUBSET Characters]
    BY <1>1 DEF SheetsInv, SheetsTyped
  <1> HIDE DEF now
  <1> QED BY <1>1, <1>3, <1>4, <1>5, CallStep

\* Other steps touch no sheet.
LEMMA SameKeepsSheets ==
    ASSUME SheetsInv, UNCHANGED <<hpMax, sheet, call, moved>>
    PROVE  SheetsInv'
  <1> USE DEF SheetsInv
  <1>1. /\ hpMax' = hpMax /\ hp' = hp /\ status' = status /\ effects' = effects
        /\ call' = call /\ moved' = moved
    BY DEF sheet
  <1>2. SheetsTyped' /\ OneWriter'
    BY <1>1 DEF SheetsTyped, OneWriter
  <1>3. ASSUME NEW c \in Characters
        PROVE  RowOK(c, Row(c))'
    BY <1>1 DEF RowOK, Row
  <1>4. ASSUME NEW s \in Sessions
        PROVE  CallOK(s)'
    <2>1. CallOK(s)
      OBVIOUS
    <2> QED BY <1>1, <2>1 DEF CallOK, Working, Overtaken, RowOK, Row, Writes
  <1> QED BY <1>2, <1>3, <1>4

-----------------------------------------------------------------------------
(* The gate *)

\* The newest active encounter is one, if there is any.
LEMMA CurrentFightFacts ==
    ASSUME GateInv, NEW s \in Sessions
    PROVE  \/ CurrentFight(s) = 0 /\ CurrentActor(s) = Nobody
           \/ /\ CurrentFight(s) \in DOMAIN fights
              /\ fights[CurrentFight(s)].session = s
              /\ CurrentActor(s) = fights[CurrentFight(s)].first
              /\ CurrentActor(s) \in Characters \union {Monster}
  <1>1. Len(fights) \in Nat /\ DOMAIN fights = 1..Len(fights)
    BY DEF GateInv
  <1>2. ActiveFights(s) \subseteq 1..Len(fights)
    BY <1>1 DEF ActiveFights
  <1>3. CASE ActiveFights(s) = {}
    BY <1>3 DEF CurrentFight, CurrentActor
  <1>4. CASE ActiveFights(s) # {}
    <2>1. \E f \in ActiveFights(s) : \A g \in ActiveFights(s) : g <= f
      BY <1>1, <1>2, <1>4, Latest
    <2>2. CurrentFight(s) \in ActiveFights(s)
      BY <1>4, <2>1 DEF CurrentFight
    <2>3. CurrentFight(s) \in DOMAIN fights /\ fights[CurrentFight(s)].session = s
      BY <2>2 DEF ActiveFights
    <2>4. CurrentFight(s) # 0
      BY <1>1, <2>3
    <2>5. fights[CurrentFight(s)] \in Fights
      BY <1>1, <2>3 DEF GateInv
    <2> QED BY <2>3, <2>4, <2>5 DEF CurrentActor, Fights
  <1> QED BY <1>3, <1>4

\* Who declares a combat action has passed the gate.
LEMMA DeclareKeepsGate ==
    ASSUME GateInv, NEW s \in Sessions, NEW c \in Characters, Declare(s, c)
    PROVE  GateInv'
  <1> USE DEF GateInv
  <1>1. PICK kind \in {"combat", "talk"} :
          /\ kind = "combat" => CurrentActor(s) \in {Nobody, c}
          /\ waiting' = [waiting EXCEPT ![s] = Append(@,
               [char |-> c, fight |-> IF kind = "combat" THEN CurrentFight(s) ELSE 0])]
    BY DEF Declare
  <1>2. PICK action : action = [char |-> c, fight |-> IF kind = "combat" THEN CurrentFight(s) ELSE 0]
    OBVIOUS
  <1>3. /\ waiting' = [waiting EXCEPT ![s] = Append(@, action)]
        /\ UNCHANGED <<fights, turn>>
    BY <1>1, <1>2 DEF Declare
  <1>4. CurrentFight(s) \in Nat
    <2>1. Len(fights) \in Nat /\ DOMAIN fights = 1..Len(fights)
      OBVIOUS
    <2> QED BY <2>1, CurrentFightFacts
  <1>5. action \in Actions /\ ActsFor(s, action)
    <2>1. action.char = c /\ action \in Actions
      BY <1>2, <1>4 DEF Actions
    <2>2. CASE kind = "combat" /\ CurrentFight(s) # 0
      <3>1. /\ action.fight = CurrentFight(s) /\ CurrentFight(s) \in DOMAIN fights
            /\ fights[CurrentFight(s)].session = s
            /\ CurrentActor(s) = fights[CurrentFight(s)].first
            /\ CurrentActor(s) \in Characters \union {Monster}
        BY <1>2, <2>2, CurrentFightFacts
      <3>2. CurrentActor(s) = c
        BY <1>1, <2>2, <3>1, NamesAssumption
      <3> QED BY <2>1, <3>1, <3>2 DEF ActsFor
    <2>3. CASE ~(kind = "combat" /\ CurrentFight(s) # 0)
      BY <1>2, <2>1, <2>3 DEF ActsFor
    <2> QED BY <2>2, <2>3
  <1>6. /\ waiting'[s] = Append(waiting[s], action) /\ waiting[s] \in Seq(Actions)
        /\ \A r \in Sessions \ {s} : waiting'[r] = waiting[r]
    BY <1>3
  <1>7. ASSUME NEW i \in DOMAIN waiting'[s]
        PROVE  ActsFor(s, waiting'[s][i])
    <2>1. CASE i \in DOMAIN waiting[s]
      BY <1>5, <1>6, <2>1, AppendElements
    <2>2. CASE i \notin DOMAIN waiting[s]
      <3>1. waiting'[s][i] = action
        BY <1>5, <1>6, <2>2, AppendElements
      <3> QED BY <1>5, <3>1
    <2> QED BY <2>1, <2>2
  <1>8. waiting' \in [Sessions -> Seq(Actions)]
    BY <1>3, <1>5
  <1>9. \A r \in Sessions : \A i \in DOMAIN waiting'[r] : ActsFor(r, waiting'[r][i])
    BY <1>6, <1>7
  <1>10. ASSUME NEW r \in Sessions
         PROVE  /\ ActsFor(r, turn[r])'
                /\ \A i \in DOMAIN waiting'[r] : ActsFor(r, waiting[r][i])'
    BY <1>3, <1>9 DEF ActsFor
  <1> QED BY <1>3, <1>8, <1>10

\* A turn begins with the action that waited.
LEMMA BeginKeepsGate ==
    ASSUME GateInv, NEW s \in Sessions, BeginTurn(s)
    PROVE  GateInv'
  <1> USE DEF GateInv
  <1>1. /\ waiting[s] \in Seq(Actions) /\ waiting[s] # <<>>
        /\ turn' = [turn EXCEPT ![s] = Head(waiting[s])]
        /\ waiting' = [waiting EXCEPT ![s] = Tail(@)]
        /\ fights' = fights
    BY DEF BeginTurn
  <1>2. /\ Head(waiting[s]) = waiting[s][1] /\ 1 \in DOMAIN waiting[s]
        /\ Head(waiting[s]) \in Actions /\ Tail(waiting[s]) \in Seq(Actions)
        /\ \A i \in DOMAIN Tail(waiting[s]) :
             i + 1 \in DOMAIN waiting[s] /\ Tail(waiting[s])[i] = waiting[s][i + 1]
    BY <1>1
  <1>3. turn' \in [Sessions -> Actions] /\ waiting' \in [Sessions -> Seq(Actions)]
    BY <1>1, <1>2
  <1>4. ASSUME NEW r \in Sessions
        PROVE  /\ ActsFor(r, turn'[r])
               /\ \A i \in DOMAIN waiting'[r] : ActsFor(r, waiting'[r][i])
    <2>1. CASE r = s
      <3>1. turn'[r] = waiting[r][1] /\ waiting'[r] = Tail(waiting[r])
        BY <1>1, <1>2, <2>1
      <3> QED BY <1>2, <2>1, <3>1
    <2>2. CASE r # s
      BY <1>1, <2>2
    <2> QED BY <2>1, <2>2
  <1> QED BY <1>1, <1>3, <1>4 DEF ActsFor

\* A turn that is over acts for nobody.
LEMMA EndTurnKeepsGate ==
    ASSUME GateInv, NEW s \in Sessions, EndTurn(s)
    PROVE  GateInv'
  <1> USE DEF GateInv
  <1>1. turn' = [turn EXCEPT ![s] = NoTurn] /\ UNCHANGED <<fights, waiting>>
    BY DEF EndTurn
  <1>2. turn' \in [Sessions -> Actions]
    BY <1>1 DEF Actions, NoTurn
  <1>3. \A r \in Sessions : ActsFor(r, turn'[r])
    BY <1>1 DEF ActsFor, NoTurn
  <1> QED BY <1>1, <1>2, <1>3 DEF ActsFor

\* Encounters are added or ended; what the gate knows of the others stands.
LEMMA FightsKeepGate ==
    ASSUME GateInv, UNCHANGED <<waiting, turn>>,
           fights' \in Seq(Fights),
           \A f \in DOMAIN fights' : fights'[f].first \in fights'[f].enrolled \union {Monster},
           \A f \in DOMAIN fights :
             /\ f \in DOMAIN fights'
             /\ fights'[f].session = fights[f].session /\ fights'[f].first = fights[f].first
             /\ fights'[f].state = "active" => fights[f].state = "active"
    PROVE  GateInv'
  <1> USE DEF GateInv
  <1>1. ASSUME NEW s, NEW action, ActsFor(s, action)
        PROVE  ActsFor(s, action)'
    BY <1>1 DEF ActsFor
  <1> QED BY <1>1

\* A new encounter supersedes the one an action was declared in.
LEMMA StartKeepsGate ==
    ASSUME SheetsInv, GateInv, NEW s \in Sessions, StartEncounter(s)
    PROVE  GateInv'
  <1>1. call[s].living \subseteq Characters
    BY DEF StartEncounter, SheetsInv, CallOK
  <1>2. PICK first \in call[s].living \union {Monster} :
          fights' = Append(fights, [session |-> s, state |-> "active",
                                     first |-> first, enrolled |-> call[s].living])
    BY DEF StartEncounter
  <1>3. PICK new : new = [session |-> s, state |-> "active",
                          first |-> first, enrolled |-> call[s].living]
    OBVIOUS
  <1>4. new \in Fights /\ new.first \in new.enrolled \union {Monster}
    BY <1>1, <1>2, <1>3 DEF Fights
  <1>5. fights \in Seq(Fights) /\ fights' = Append(fights, new)
    BY <1>2, <1>3 DEF GateInv
  <1>6. /\ \A f \in DOMAIN fights : f \in DOMAIN fights' /\ fights'[f] = fights[f]
        /\ \A f \in DOMAIN fights' : f \in DOMAIN fights \/ fights'[f] = new
        /\ fights' \in Seq(Fights)
    BY <1>4, <1>5, AppendElements
  <1>7. \A f \in DOMAIN fights' : fights'[f].first \in fights'[f].enrolled \union {Monster}
    BY <1>4, <1>6 DEF GateInv
  <1> QED BY <1>6, <1>7, FightsKeepGate DEF StartEncounter

\* An encounter that has ended is not active.
LEMMA EndKeepsGate ==
    ASSUME GateInv, NEW s \in Sessions, NEW f \in DOMAIN fights, EndEncounter(s, f)
    PROVE  GateInv'
  <1>1. PICK outcome \in {"victory", "flee"} : fights' = [fights EXCEPT ![f].state = outcome]
    BY DEF EndEncounter
  <1>2. fights \in Seq(Fights) /\ fights[f] \in Fights
    BY DEF GateInv
  <1>3. /\ DOMAIN fights' = DOMAIN fights
        /\ fights'[f] = [fights[f] EXCEPT !.state = outcome]
        /\ \A g \in DOMAIN fights : g # f => fights'[g] = fights[g]
    BY <1>1, <1>2
  <1>4. /\ fights'[f] \in Fights /\ fights'[f].session = fights[f].session
        /\ fights'[f].first = fights[f].first /\ fights'[f].enrolled = fights[f].enrolled
        /\ fights'[f].state # "active"
    BY <1>2, <1>3 DEF Fights
  <1>5. fights' \in Seq(Fights)
    BY <1>1, <1>2, <1>3, <1>4
  <1>6. \A g \in DOMAIN fights' : fights'[g].first \in fights'[g].enrolled \union {Monster}
    BY <1>3, <1>4 DEF GateInv
  <1>7. \A g \in DOMAIN fights :
             /\ g \in DOMAIN fights'
             /\ fights'[g].session = fights[g].session /\ fights'[g].first = fights[g].first
             /\ fights'[g].state = "active" => fights[g].state = "active"
    BY <1>3, <1>4
  <1> QED BY <1>5, <1>6, <1>7, FightsKeepGate DEF EndEncounter

\* Other steps touch neither encounters nor turns.
LEMMA SameKeepsGate ==
    ASSUME GateInv, UNCHANGED <<fights, waiting, turn>>
    PROVE  GateInv'
  BY DEF GateInv, ActsFor

-----------------------------------------------------------------------------
\* Every step keeps it: one case for each action, with the lemma that treats it.
LEMMA NextInv == Inv /\ [Next]_vars => Inv'
  <1> SUFFICES ASSUME Inv, [Next]_vars PROVE Inv'
    OBVIOUS
  <1> USE DEF Inv
  <1>1. CASE UNCHANGED vars
    BY <1>1, SameKeepsSheets, SameKeepsGate DEF vars
  <1>2. CASE Next
    <2>0. UNCHANGED hpMax
      BY <1>2 DEF Next
    <2>1. PICK s \in Sessions :
            \/ \E c \in Characters : Declare(s, c)
            \/ BeginTurn(s) \/ EndTurn(s) \/ Tool(s)
      BY <1>2 DEF Next
    <2>2. ASSUME NEW c \in Characters, Declare(s, c)
          PROVE  Inv'
      <3>1. UNCHANGED <<sheet, call, moved>>
        BY <2>2 DEF Declare
      <3> QED BY <2>0, <2>2, <3>1, SameKeepsSheets, DeclareKeepsGate
    <2>3. CASE BeginTurn(s)
      BY <2>0, <2>3, SameKeepsSheets, BeginKeepsGate DEF BeginTurn
    <2>4. CASE EndTurn(s)
      BY <2>0, <2>4, SameKeepsSheets, EndTurnKeepsGate DEF EndTurn
    <2>5. ASSUME NEW c \in Characters, OnSheet(s, c)
          PROVE  Inv'
      <3>1. UNCHANGED <<fights, waiting, turn>>
        BY <2>5 DEF OnSheet, ApplyDamage, Heal, ApplyRevival, ApplyStatusEffect,
                    ClearStatusEffect, RequestDiceRoll, Read
      <3> QED BY <2>0, <2>5, <3>1, OnSheetKeepsSheets, SameKeepsGate
    <2>6. CASE Flush(s)
      BY <2>0, <2>6, FlushKeepsSheets, SameKeepsGate DEF Flush
    <2>7. CASE Commit(s)
      BY <2>0, <2>7, CommitKeepsSheets, SameKeepsGate DEF Commit
    <2>8. CASE RollBack(s)
      BY <2>0, <2>8, EndCallKeepsSheets, SameKeepsGate DEF RollBack
    <2>9. CASE Muster(s)
      BY <2>0, <2>9, MusterKeepsSheets, SameKeepsGate DEF Muster
    <2>10. CASE StartEncounter(s)
      BY <2>0, <2>10, EndCallKeepsSheets, StartKeepsGate DEF StartEncounter
    <2>11. ASSUME NEW f \in DOMAIN fights, EndEncounter(s, f)
           PROVE  Inv'
      <3>1. UNCHANGED <<sheet, call, moved>>
        BY <2>11 DEF EndEncounter
      <3> QED BY <2>0, <2>11, <3>1, SameKeepsSheets, EndKeepsGate
    <2> QED BY <2>1, <2>2, <2>3, <2>4, <2>5, <2>6, <2>7, <2>8, <2>9, <2>10, <2>11 DEF Tool
  <1> QED BY <1>1, <1>2

\* The inductive invariant: the sheets and what is read of them stay within the rules, a
\* handler's row is the one that is there or the handler was overtaken, and every action
\* that waits or runs is its encounter's actor's.
THEOREM CombatCorrect == Spec => []Inv
  BY InitInv, NextInv, PTL DEF Spec

\* The rows the invariant speaks of are the sheets the property speaks of.
LEMMA SheetIsOK ==
    ASSUME NEW c \in Characters, NEW row, RowOK(c, row)
    PROVE  SheetOK(c, row)
  <1>1. Listed(row.effects) \subseteq Effects
    BY DEF RowOK, Listed
  <1> QED BY <1>1, LengthOfOnceEach DEF RowOK, SheetOK

\* Hit points stay in 0..hp_max and no effect is listed twice, in the rows and in what the
\* handlers of any number of sessions have read of them (apply_damage, heal, apply_revival,
\* apply_status_effect, clear_status_effect).
THEOREM SheetsStay == Spec => []SheetInv
  <1>1. Inv => SheetInv
    <2> SUFFICES ASSUME Inv PROVE SheetInv
      OBVIOUS
    <2>1. \A c \in Characters : hpMax[c] \in Nat \ {0} /\ SheetOK(c, Row(c))
      BY SheetIsOK DEF Inv, SheetsInv, SheetsTyped
    <2>2. ASSUME NEW s \in Sessions, call[s].phase \in {"read", "flushed", "settled"}
          PROVE  SheetOK(call[s].asked.on, call[s].seen)
      <3>1. call[s].asked.on \in Characters /\ RowOK(call[s].asked.on, call[s].seen)
        BY <2>2 DEF Inv, SheetsInv, CallOK, Working, AskedOK
      <3> QED BY <3>1, SheetIsOK
    <2>3. Cardinality({s \in Sessions : call[s].phase = "flushed"}) <= 1
      <3> DEFINE W == {s \in Sessions : call[s].phase = "flushed"}
      <3>1. CASE W = {}
        BY <3>1, FS_EmptySet
      <3>2. CASE W # {}
        <4>1. PICK s \in W : TRUE
          BY <3>2
        <4>2. \A r \in W : r = s
          BY <4>1 DEF Inv, SheetsInv, OneWriter
        <4>3. W = {s}
          BY <4>1, <4>2
        <4>4. Cardinality(W) = 1
          BY <4>3, FS_Singleton
        <4>5. Cardinality(W) <= 1
          <5> HIDE DEF W
          <5> QED BY <4>4
        <4> QED BY <4>5
      <3> QED BY <3>1, <3>2
    <2>4. \A f \in DOMAIN fights :
            /\ fights[f].first \in fights[f].enrolled \union {Monster}
            /\ fights[f].state \in {"active", "victory", "flee"}
      <3>1. \A f \in DOMAIN fights : fights[f] \in Fights
        BY DEF Inv, GateInv
      <3> QED BY <3>1 DEF Inv, GateInv, Fights
    <2> QED BY <2>1, <2>2, <2>3, <2>4 DEF SheetInv
  <1> QED BY <1>1, CombatCorrect, PTL

\* A combat action that waited for the session lock runs for the actor of the encounter it
\* was declared in, or that encounter is over or superseded (ws.py, the initiative gate).
THEOREM ActorsAct == Spec => []ActsForItsFight
  <1>1. Inv => ActsForItsFight
    BY DEF Inv, GateInv, ActsFor, ActsForItsFight
  <1> QED BY <1>1, CombatCorrect, PTL

\* A handler overwrites a value it has not read only when another session's handler wrote
\* the row between its read and its commit.
THEOREM LostOnlyToOverlap == Spec => LostByOverlapOnly
  <1>1. Inv => \A s \in Sessions :
          Commits(s) =>
            \/ Overtaken(s)
            \/ \A k \in DOMAIN call[s].change : Row(call[s].asked.on)[k] = call[s].seen[k]
    BY DEF Inv, SheetsInv, CallOK, Commits, Working
  <1> QED BY <1>1, CombatCorrect, PTL DEF LostByOverlapOnly

\* A sheet changes only when a handler commits.
LEMMA OnlyCommitsWrite ==
    ASSUME [Next]_vars
    PROVE  UNCHANGED hpMax /\ (UNCHANGED sheet \/ \E s \in Sessions : Commit(s))
  <1>1. CASE UNCHANGED vars
    BY <1>1 DEF vars
  <1>2. CASE Next
    <2>1. PICK s \in Sessions :
            \/ \E c \in Characters : Declare(s, c)
            \/ BeginTurn(s) \/ EndTurn(s) \/ Tool(s)
      BY <1>2 DEF Next
    <2>2. UNCHANGED hpMax
      BY <1>2 DEF Next
    <2>3. UNCHANGED sheet \/ Commit(s)
      BY <2>1 DEF Declare, BeginTurn, EndTurn, Tool, OnSheet, ApplyDamage, Heal, ApplyRevival,
                  ApplyStatusEffect, ClearStatusEffect, RequestDiceRoll, Read, Flush, RollBack,
                  Muster, StartEncounter, EndEncounter
    <2> QED BY <2>2, <2>3
  <1> QED BY <1>1, <1>2

\* The three ways of UpOnlySo, for the commit that writes the row.
LEMMA CommitUp ==
    ASSUME Inv, UNCHANGED hpMax, NEW s \in Sessions, Commit(s), NEW c \in Characters,
           hp'[c] # hp[c] \/ status'[c] # status[c]
    PROVE  /\ Commits(s) /\ call[s].asked.on = c
           /\ hp[c] = 0 /\ hp'[c] > 0 =>
                \/ call[s].asked.tool = "apply_revival"
                \/ call[s].asked.tool = "apply_damage" /\ hp'[c] = 1
                \/ Overtaken(s)
           /\ status[c] = "dead" /\ status'[c] = "alive" =>
                call[s].asked.tool = "apply_revival" /\ call[s].seen.hp = 0
           /\ ~(status[c] = "dead" /\ hp[c] > 0) /\ status'[c] = "dead" /\ hp'[c] > 0 =>
                \/ call[s].asked.tool = "apply_damage" /\ call[s].seen.status = "dead"
                \/ Overtaken(s)
  <1> USE DEF Inv, SheetsInv
  <1>0. PICK d, asked, seen, set, change : Committed(s, d, asked, seen, set, change)
    BY CommitFacts
  <1>1. /\ d \in Characters
        /\ asked = call[s].asked /\ seen = call[s].seen /\ d = asked.on
        /\ change = Changed(set, seen) /\ set \in Writes(asked, seen)
        /\ AskedOK(asked, seen) /\ RowOK(d, seen)
        /\ d \in moved[s] \/ seen = Row(d)
        /\ call[s].phase \in {"flushed", "settled"}
        /\ call[s].phase = "settled" => DOMAIN change = {}
        /\ hp'[d] = Column("hp", change, hp[d])
        /\ status'[d] = Column("status", change, status[d])
        /\ \A e \in Characters \ {d} : hp'[e] = hp[e] /\ status'[e] = status[e]
        /\ call' = [call EXCEPT ![s] = NoCall]
    BY <1>0 DEF Committed
  <1>2. d = c
    BY <1>1
  <1>3. DOMAIN change # {}
    BY <1>1, <1>2 DEF Column
  <1>4. Commits(s) /\ call[s].asked.on = c
    <2>1. call[s].phase = "flushed" /\ call'[s] = NoCall
      BY <1>1, <1>3 DEF SheetsTyped
    <2>2. sheet' # sheet
      BY DEF sheet
    <2> QED BY <1>1, <1>2, <2>1, <2>2 DEF Commits
  <1>5. /\ "hp" \in DOMAIN change => "hp" \in DOMAIN set /\ hp'[c] = set["hp"]
        /\ "hp" \notin DOMAIN change => hp'[c] = hp[c]
        /\ "hp" \in DOMAIN set /\ "hp" \notin DOMAIN change => set["hp"] = seen["hp"]
        /\ "status" \in DOMAIN change => "status" \in DOMAIN set /\ status'[c] = set["status"]
        /\ "status" \notin DOMAIN change => status'[c] = status[c]
        /\ "status" \in DOMAIN set /\ "status" \notin DOMAIN change => set["status"] = seen["status"]
    BY <1>1, <1>2, ChangeFacts, UnchangedFacts DEF Column
  <1>6. /\ DOMAIN set \subseteq Columns
        /\ asked.tool \in Tools
        /\ asked.tool = "apply_damage" =>
             /\ "status" \in DOMAIN set =>
                  set["status"] = "dead" /\ "hp" \in DOMAIN set /\ set["hp"] = 0
             /\ seen.hp = 0 => set["hp"] \in {0, 1}
        /\ asked.tool = "heal" => DOMAIN set = {"hp"} /\ seen.hp > 0
        /\ asked.tool = "apply_revival" =>
             "status" \in DOMAIN set /\ set["status"] = "alive" /\ seen.hp = 0
        /\ asked.tool \in {"apply_status_effect", "clear_status_effect", "request_dice_roll"} =>
             DOMAIN set \subseteq {"effects"}
    BY <1>1, WritesFacts DEF AskedOK
  <1>7. /\ seen["hp"] = seen.hp /\ seen["status"] = seen.status
        /\ seen.hp \in Nat /\ hp[c] \in Nat
    BY <1>1 DEF RowOK, SheetsTyped
  <1>8. c \in moved[s] \/ (seen.hp = hp[c] /\ seen.status = status[c])
    BY <1>1, <1>2 DEF Row
  <1>9. Overtaken(s) <=> c \in moved[s]
    BY <1>1, <1>2 DEF Overtaken
  <1>10. ASSUME hp[c] = 0, hp'[c] > 0, c \notin moved[s]
         PROVE  asked.tool = "apply_revival" \/ (asked.tool = "apply_damage" /\ hp'[c] = 1)
    <2>1. "hp" \in DOMAIN set /\ hp'[c] = set["hp"] /\ seen.hp = 0
      BY <1>5, <1>8, <1>10
    <2> QED BY <1>6, <1>10, <2>1 DEF Tools
  <1>11. ASSUME status[c] = "dead", status'[c] = "alive"
         PROVE  asked.tool = "apply_revival" /\ seen.hp = 0
    <2>1. "status" \in DOMAIN set /\ set["status"] = "alive"
      BY <1>5, <1>11
    <2> QED BY <1>6, <2>1 DEF Tools
  <1>12. ASSUME ~(status[c] = "dead" /\ hp[c] > 0), status'[c] = "dead", hp'[c] > 0,
                c \notin moved[s]
         PROVE  asked.tool = "apply_damage" /\ seen.status = "dead"
    <2>1. seen.hp = hp[c] /\ seen.status = status[c]
      BY <1>8, <1>12
    <2>2. "status" \notin DOMAIN change
      <3> SUFFICES ASSUME "status" \in DOMAIN change PROVE FALSE
        OBVIOUS
      <3>1. "status" \in DOMAIN set /\ set["status"] = "dead"
        BY <1>5, <1>12
      <3>2. asked.tool = "apply_damage" /\ "hp" \in DOMAIN set /\ set["hp"] = 0
        BY <1>6, <3>1 DEF Tools
      <3> QED BY <1>5, <1>7, <1>12, <2>1, <3>2
    <2>3. status[c] = "dead" /\ ~(hp[c] > 0)
      BY <1>5, <1>12, <2>2
    <2>4. "hp" \in DOMAIN set
      BY <1>5, <1>12, <2>3
    <2>5. asked.tool # "apply_revival"
      BY <1>5, <1>6, <1>7, <2>1, <2>2, <2>3
    <2>6. asked.tool # "heal"
      BY <1>6, <2>1, <2>3
    <2> QED BY <1>6, <2>1, <2>3, <2>4, <2>5, <2>6 DEF Tools
  <1> QED BY <1>1, <1>4, <1>9, <1>10, <1>11, <1>12

\* The ways up from 0 HP, back from the dead and to stand while marked dead are a revival, a
\* blow on the fallen that leaves 1 HP, and a handler that was overtaken; ordinary healing
\* never raises the fallen (heal, apply_revival, apply_damage).
THEOREM OnlyTheRaisedRise == Spec => UpOnlySo
  <1>1. Inv /\ [Next]_vars =>
          \A c \in Characters :
          /\ hp[c] = 0 /\ hp'[c] > 0 =>
               \E s \in Sessions :
                  /\ Commits(s) /\ call[s].asked.on = c
                  /\ \/ call[s].asked.tool = "apply_revival"
                     \/ call[s].asked.tool = "apply_damage" /\ hp'[c] = 1
                     \/ Overtaken(s)
          /\ status[c] = "dead" /\ status'[c] = "alive" =>
               \E s \in Sessions :
                  Commits(s) /\ call[s].asked.tool = "apply_revival" /\ call[s].seen.hp = 0
          /\ ~(status[c] = "dead" /\ hp[c] > 0) /\ status'[c] = "dead" /\ hp'[c] > 0 =>
               \E s \in Sessions :
                  /\ Commits(s) /\ call[s].asked.on = c
                  /\ \/ call[s].asked.tool = "apply_damage" /\ call[s].seen.status = "dead"
                     \/ Overtaken(s)
    <2> SUFFICES
          ASSUME Inv, [Next]_vars, NEW c \in Characters
          PROVE  /\ hp[c] = 0 /\ hp'[c] > 0 =>
                      \E s \in Sessions :
                         /\ Commits(s) /\ call[s].asked.on = c
                         /\ \/ call[s].asked.tool = "apply_revival"
                            \/ call[s].asked.tool = "apply_damage" /\ hp'[c] = 1
                            \/ Overtaken(s)
                 /\ status[c] = "dead" /\ status'[c] = "alive" =>
                      \E s \in Sessions :
                         Commits(s) /\ call[s].asked.tool = "apply_revival" /\ call[s].seen.hp = 0
                 /\ ~(status[c] = "dead" /\ hp[c] > 0) /\ status'[c] = "dead" /\ hp'[c] > 0 =>
                      \E s \in Sessions :
                         /\ Commits(s) /\ call[s].asked.on = c
                         /\ \/ call[s].asked.tool = "apply_damage" /\ call[s].seen.status = "dead"
                            \/ Overtaken(s)
      OBVIOUS
    <2>1. CASE hp'[c] = hp[c] /\ status'[c] = status[c]
      BY <2>1 DEF Inv, SheetsInv, SheetsTyped
    <2>2. CASE hp'[c] # hp[c] \/ status'[c] # status[c]
      <3>1. PICK s \in Sessions : Commit(s)
        BY <2>2, OnlyCommitsWrite DEF sheet
      <3>2. UNCHANGED hpMax
        BY OnlyCommitsWrite
      <3> QED BY <2>2, <3>1, <3>2, CommitUp
    <2> QED BY <2>1, <2>2
  <1> QED BY <1>1, CombatCorrect, PTL DEF Spec, UpOnlySo

-----------------------------------------------------------------------------
(* The turn order of an encounter *)

\* Those up to the index have been current_turn in the round, those after it have not.
OrderInv == TypeOK /\ ActedInv

\* The order roll_initiative makes has everybody once; the first is up.
LEMMA InitOrder == RollInitiative => OrderInv
  <1> SUFFICES ASSUME RollInitiative PROVE OrderInv
    OBVIOUS
  <1> DEFINE n == Cardinality(Participants)
  <1>1. n \in Nat /\ n > 0
    BY ParticipantsAssumption, FS_CardinalityType, FS_EmptySet
  <1> HIDE DEF n
  <1>2. entries \in [1..n -> Participants]
    BY DEF RollInitiative, n
  <1>3. entries \in Seq(Participants) /\ Len(entries) = n /\ entries # <<>>
    BY <1>1, <1>2
  <1>4. TypeOK
    <2>1. /\ score \in [Participants -> Rolls]
          /\ index = 1 /\ round = 1 /\ acted = {entries[1]}
      BY DEF RollInitiative
    <2>2. entries[1] \in Participants
      BY <1>1, <1>2
    <2>3. index \in 1..(IF entries = <<>> THEN 1 ELSE Len(entries))
      BY <1>1, <1>3, <2>1
    <2> QED
      BY <1>3, <2>1, <2>2, <2>3 DEF TypeOK
  <1>5. ASSUME NEW i \in DOMAIN entries, NEW j \in DOMAIN entries, i # j
        PROVE  entries[i] # entries[j]
    <2>1. \A p \in Participants : ~Before(p, p)
      <3> TAKE p \in Participants
      <3>1. p \in Nat /\ score[p] \in Int
        BY ParticipantsAssumption, RollsAssumption DEF RollInitiative
      <3>2. ~(p < p) /\ ~(score[p] > score[p])
        BY <3>1
      <3> QED
        BY <3>2 DEF Before
    <2>2. i \in 1..n /\ j \in 1..n
      BY <1>2, <1>5
    <2>3. i < j \/ j < i
      BY <1>1, <1>5, <2>2
    <2>4. Before(entries[i], entries[j]) \/ Before(entries[j], entries[i])
      BY <1>5, <2>3 DEF RollInitiative
    <2> QED
      BY <1>2, <2>1, <2>2, <2>4
  <1>6. \A i \in DOMAIN entries : i <= index <=> entries[i] \in acted
    <2> TAKE i \in DOMAIN entries
    <2>1. i \in 1..n /\ 1 \in DOMAIN entries
      BY <1>1, <1>2
    <2>2. i <= index <=> i = 1
      BY <1>1, <2>1 DEF RollInitiative
    <2>3. entries[i] \in acted <=> i = 1
      BY <1>5, <2>1 DEF RollInitiative
    <2> QED
      BY <2>2, <2>3
  <1> QED
    BY <1>4, <1>5, <1>6 DEF OrderInv, ActedInv

\* advance_turn puts up the next one, who has not been up, or starts afresh.
LEMMA AdvanceKeeps == OrderInv /\ AdvanceTurn => OrderInv'
  <1> SUFFICES ASSUME OrderInv, AdvanceTurn PROVE OrderInv'
    OBVIOUS
  <1>1. /\ entries \in Seq(Participants)
        /\ entries # <<>>
        /\ Len(entries) \in Nat
        /\ DOMAIN entries = 1..Len(entries)
        /\ index \in 1..Len(entries)
        /\ \A i \in 1..Len(entries) : entries[i] \in Participants
    BY DEF OrderInv, TypeOK, AdvanceTurn
  <1>2. entries' = entries /\ score' = score
    BY DEF AdvanceTurn
  <1>3. CASE index + 1 > Len(entries)
    <2>1. index' = 1 /\ round' = round + 1 /\ acted' = {entries[1]}
      BY <1>3 DEF AdvanceTurn
    <2>2. TypeOK'
      BY <1>1, <1>2, <2>1 DEF OrderInv, TypeOK
    <2>3. ASSUME NEW i \in DOMAIN entries
          PROVE  i <= index' <=> entries[i] \in acted'
      <3>1. entries[i] = entries[1] <=> i = 1
        BY <1>1, <2>3 DEF OrderInv, ActedInv
      <3> QED
        BY <1>1, <2>1, <2>3, <3>1
    <2> QED
      BY <1>2, <2>2, <2>3 DEF OrderInv, ActedInv
  <1>4. CASE ~(index + 1 > Len(entries))
    <2>1. /\ index' = index + 1 /\ round' = round
          /\ acted' = acted \cup {entries[index + 1]}
      BY <1>4 DEF AdvanceTurn
    <2>2. TypeOK'
      <3>1. index + 1 \in 1..Len(entries)
        BY <1>1, <1>4
      <3> QED
        BY <1>1, <1>2, <2>1, <3>1 DEF OrderInv, TypeOK
    <2>3. ASSUME NEW i \in DOMAIN entries
          PROVE  i <= index' <=> entries[i] \in acted'
      <3>1. entries[i] = entries[index + 1] <=> i = index + 1
        BY <1>1, <1>4, <2>3 DEF OrderInv, ActedInv
      <3>2. i <= index <=> entries[i] \in acted
        BY <2>3 DEF OrderInv, ActedInv
      <3>3. i <= index + 1 <=> i <= index \/ i = index + 1
        BY <1>1, <2>3
      <3> QED
        BY <2>1, <3>1, <3>2, <3>3
    <2> QED
      BY <1>2, <2>2, <2>3 DEF OrderInv, ActedInv
  <1> QED
    BY <1>3, <1>4

\* What a fall does to the order and to the index.
LEMMA RemoveEffect ==
    ASSUME OrderInv, NEW k \in DOMAIN entries, RemoveParticipant(k)
    PROVE  /\ entries' \in Seq(Participants)
           /\ Len(entries') = Len(entries) - 1
           /\ Len(entries) \in Nat \ {0}
           /\ k \in 1..Len(entries)
           /\ index \in 1..Len(entries)
           /\ DOMAIN entries = 1..Len(entries)
           /\ DOMAIN entries' = 1..(Len(entries) - 1)
           /\ \A j \in 1..(Len(entries) - 1) :
                 entries'[j] = IF j < k THEN entries[j] ELSE entries[j + 1]
           /\ entries' # <<>> => index' = IndexAfter(k, Len(entries'))
  <1>1. entries \in Seq(Participants)
    BY DEF OrderInv, TypeOK
  <1>2. entries' = SubSeq(entries, 1, k - 1) \o SubSeq(entries, k + 1, Len(entries))
    BY DEF RemoveParticipant, RemoveAt
  <1>3. /\ entries' \in Seq(Participants)
        /\ Len(entries') = Len(entries) - 1
        /\ DOMAIN entries' = 1..(Len(entries) - 1)
        /\ \A j \in DOMAIN entries' :
              entries'[j] = IF j < k THEN entries[j] ELSE entries[j + 1]
    BY <1>1, <1>2, RemoveElements
  <1>4. k \in 1..Len(entries) /\ Len(entries) \in Nat \ {0} /\ entries # <<>>
    BY <1>1
  <1>5. index \in 1..Len(entries)
    BY <1>4 DEF OrderInv, TypeOK
  <1>6. entries' # <<>> => index' = IndexAfter(k, Len(entries'))
    BY DEF RemoveParticipant
  <1>7. DOMAIN entries = 1..Len(entries)
    BY <1>1
  <1>8. DOMAIN entries' = 1..(Len(entries) - 1)
    BY <1>3
  <1> QED
    BY <1>3, <1>4, <1>5, <1>6, <1>7, <1>8

\* remove_participant moves the index with the entries it stands between.
LEMMA RemoveKeeps ==
    ASSUME OrderInv, NEW k \in DOMAIN entries, RemoveParticipant(k)
    PROVE  OrderInv'
  <1> DEFINE n == Len(entries)
             Old(j) == IF j < k THEN j ELSE j + 1
  <1>1. /\ entries' \in Seq(Participants)
        /\ Len(entries') = n - 1
        /\ n \in Nat \ {0}
        /\ k \in 1..n
        /\ index \in 1..n
        /\ DOMAIN entries = 1..n
        /\ DOMAIN entries' = 1..(n - 1)
        /\ entries' # <<>> => index' = IndexAfter(k, n - 1)
    BY RemoveEffect
  <1>2. \A j \in 1..(n - 1) : entries'[j] = entries[Old(j)]
    BY RemoveEffect
  <1>3. acted' = acted \cup {entries'[i] : i \in {index'} \cap DOMAIN entries'}
    BY DEF RemoveParticipant
  <1>4. entries' = <<>> => index' = 1
    BY DEF RemoveParticipant
  <1>5. score' = score /\ round' = round
    BY DEF RemoveParticipant
  <1> HIDE DEF n
  <1>6. entries' # <<>> => n > 1
    BY <1>1
  <1>7. index' \in 1..(IF entries' = <<>> THEN 1 ELSE n - 1)
    BY <1>1, <1>4, <1>6 DEF IndexAfter
  <1>8. acted' \subseteq Participants
    BY <1>1, <1>3 DEF OrderInv, TypeOK
  <1>9. TypeOK'
    BY <1>1, <1>5, <1>7, <1>8 DEF OrderInv, TypeOK
  <1>10. \A j \in 1..(n - 1) : Old(j) \in DOMAIN entries
    BY <1>1
  <1>11. \A i, j \in 1..(n - 1) : i # j => Old(i) # Old(j)
    BY <1>1
  <1>12. \A i, j \in DOMAIN entries' : i # j => entries'[i] # entries'[j]
    <2> SUFFICES ASSUME NEW i \in 1..(n - 1), NEW j \in 1..(n - 1), i # j
                 PROVE  entries'[i] # entries'[j]
      BY <1>1
    <2>1. Old(i) \in DOMAIN entries /\ Old(j) \in DOMAIN entries /\ Old(i) # Old(j)
      BY <1>10, <1>11
    <2>2. entries[Old(i)] # entries[Old(j)]
      BY <2>1 DEF OrderInv, ActedInv
    <2> QED
      BY <1>2, <2>2
  <1>13. ASSUME NEW i \in 1..(n - 1)
         PROVE  i <= index' <=> entries'[i] \in acted'
    <2>1. entries' # <<>>
      BY <1>1, <1>13
    <2>2. index' \in DOMAIN entries' /\ index' = IndexAfter(k, n - 1)
      BY <1>1, <1>7, <2>1
    <2>3. acted' = acted \cup {entries'[index']}
      BY <1>3, <2>2
    <2>4. entries'[i] \in acted <=> Old(i) <= index
      BY <1>2, <1>10 DEF OrderInv, ActedInv
    <2>5. entries'[i] = entries'[index'] <=> i = index'
      BY <1>1, <1>12, <2>2
    <2>6. i <= index' <=> Old(i) <= index \/ i = index'
      BY <1>1, <1>6, <2>1, <2>2 DEF IndexAfter
    <2> QED
      BY <2>3, <2>4, <2>5, <2>6
  <1> QED
    BY <1>1, <1>9, <1>12, <1>13 DEF OrderInv, ActedInv

\* No step of the order breaks the invariant.
LEMMA NextOrder == OrderInv /\ [OrderNext]_order => OrderInv'
  <1> SUFFICES ASSUME OrderInv, [OrderNext]_order PROVE OrderInv'
    OBVIOUS
  <1>1. CASE AdvanceTurn
    BY <1>1, AdvanceKeeps
  <1>2. CASE \E k \in DOMAIN entries : RemoveParticipant(k)
    BY <1>2, RemoveKeeps
  <1>3. CASE UNCHANGED order
    BY <1>3 DEF OrderInv, TypeOK, ActedInv, order
  <1> QED
    BY <1>1, <1>2, <1>3 DEF OrderNext

\* Those up to the index, and they alone, have been current_turn in the round: by an
\* advance, or because the current entry was taken out from before or after them.
THEOREM OrderCorrect == OrderSpec => []OrderInv
  BY InitOrder, NextOrder, PTL DEF OrderSpec

\* The index always names an entry that is there, whoever falls and in
\* whatever order: current_turn finds the entry advance_turn and
\* remove_participant left it.
THEOREM OrderTyped == OrderSpec => []TypeOK
  <1>1. OrderInv => TypeOK
    BY DEF OrderInv
  <1> QED
    BY <1>1, OrderCorrect, PTL

\* advance_turn raises round_number only when everybody left in the order has been
\* current_turn in the round.
THEOREM NobodySkippedHolds == OrderSpec => NobodySkipped
  <1>1. OrderInv /\ [OrderNext]_order => [round' # round => ToSet(entries) \subseteq acted]_order
    <2> SUFFICES ASSUME OrderInv, OrderNext, round' # round
                 PROVE  ToSet(entries) \subseteq acted
      BY DEF order
    <2>1. AdvanceTurn /\ index + 1 > Len(entries)
      BY DEF OrderNext, AdvanceTurn, RemoveParticipant
    <2>2. /\ index \in Nat
          /\ Len(entries) \in Nat
          /\ DOMAIN entries = 1..Len(entries)
      BY DEF OrderInv, TypeOK
    <2>3. \A i \in DOMAIN entries : i <= index
      BY <2>1, <2>2
    <2> QED
      BY <2>3 DEF OrderInv, ActedInv, ToSet
  <1> QED
    BY <1>1, OrderCorrect, PTL DEF OrderSpec, NobodySkipped

\* Within a round advance_turn reaches somebody who has not been current_turn in it.
THEOREM NobodyTwiceHolds == OrderSpec => NobodyTwice
  <1>1. OrderInv /\ [OrderNext]_order
            => [AdvanceTurn /\ round' = round => Current' \notin acted]_order
    <2> SUFFICES ASSUME OrderInv, AdvanceTurn, round' = round
                 PROVE  Current' \notin acted
      BY DEF order
    <2>1. /\ index \in Nat
          /\ Len(entries) \in Nat
          /\ DOMAIN entries = 1..Len(entries)
          /\ index >= 1
          /\ round \in Nat
      BY DEF OrderInv, TypeOK
    <2>2. /\ ~(index + 1 > Len(entries))
          /\ index' = index + 1
          /\ entries' = entries
      BY <2>1 DEF AdvanceTurn
    <2>3. index + 1 \in DOMAIN entries /\ ~(index + 1 <= index)
      BY <2>1, <2>2
    <2> QED
      BY <2>2, <2>3 DEF OrderInv, ActedInv, Current
  <1> QED
    BY <1>1, OrderCorrect, PTL DEF OrderSpec, NobodyTwice

\* remove_participant leaves the turn with the actor who has it, unless it is he who
\* is taken out: then it passes to the entry after him at once, or back to the one
\* before him if he was the last.
THEOREM FallKeepsActorHolds == OrderSpec => FallKeepsActor
  <1> DEFINE Heir == IF Current \in ToSet(entries') THEN Current
                     ELSE IF index < Len(entries) THEN entries[index + 1]
                     ELSE entries[index - 1]
  <1>1. OrderInv /\ [OrderNext]_order
            => [entries' # entries /\ entries' # <<>> => Current' = Heir]_order
    <2> SUFFICES ASSUME OrderInv, OrderNext, entries' # entries, entries' # <<>>
                 PROVE  Current' = Heir
      BY DEF order
    <2>1. PICK k \in DOMAIN entries : RemoveParticipant(k)
      BY DEF OrderNext, AdvanceTurn
    <2> DEFINE n == Len(entries)
               Old(j) == IF j < k THEN j ELSE j + 1
    <2>2. /\ n \in Nat \ {0}
          /\ k \in 1..n
          /\ index \in 1..n
          /\ DOMAIN entries = 1..n
          /\ DOMAIN entries' = 1..(n - 1)
          /\ entries' \in Seq(Participants)
          /\ Len(entries') = n - 1
          /\ \A j \in 1..(n - 1) : entries'[j] = entries[Old(j)]
          /\ index' = IndexAfter(k, n - 1)
      BY <2>1, RemoveEffect
    <2>3. n > 1
      BY <2>2
    <2> HIDE DEF n
    <2>4. ToSet(entries') = {entries[Old(j)] : j \in 1..(n - 1)}
      BY <2>2 DEF ToSet
    <2>5. CASE index # k
      <3> DEFINE j == IF index < k THEN index ELSE index - 1
      <3>1. j \in 1..(n - 1) /\ Old(j) = index
        BY <2>2, <2>3, <2>5
      <3>2. Current \in ToSet(entries')
        BY <2>4, <3>1 DEF Current
      <3>3. index' = j
        BY <2>2, <2>3, <2>5 DEF IndexAfter
      <3>4. entries'[index'] = entries[index]
        BY <2>2, <3>1, <3>3
      <3> QED
        BY <3>2, <3>4 DEF Current
    <2>6. CASE index = k
      <3>1. \A j \in 1..(n - 1) : Old(j) \in 1..n /\ Old(j) # index
        BY <2>2, <2>6
      <3>2. Current \notin ToSet(entries')
        BY <2>2, <2>4, <3>1 DEF Current, OrderInv, ActedInv
      <3>3. CASE index < n
        <4>1. index' = index /\ index \in 1..(n - 1) /\ Old(index) = index + 1
          BY <2>2, <2>6, <3>3 DEF IndexAfter
        <4>2. entries'[index'] = entries[index + 1]
          BY <2>2, <4>1
        <4> QED
          BY <3>2, <3>3, <4>2 DEF Current, n
      <3>4. CASE index = n
        <4>1. index' = n - 1 /\ n - 1 \in 1..(n - 1) /\ Old(n - 1) = n - 1
          BY <2>2, <2>3, <2>6, <3>4 DEF IndexAfter
        <4>2. entries'[index'] = entries[n - 1]
          BY <2>2, <4>1
        <4>3. ~(index < n)
          BY <2>2, <3>4
        <4> QED
          BY <3>2, <3>4, <4>2, <4>3 DEF Current, n
      <3> QED
        BY <2>2, <3>3, <3>4
    <2> QED
      BY <2>5, <2>6
  <1> QED
    BY <1>1, OrderCorrect, PTL DEF OrderSpec, FallKeepsActor

=============================================================================
