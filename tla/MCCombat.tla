------------------------------ MODULE MCCombat ------------------------------
(* Combat with two sessions of one campaign. *)
EXTENDS Combat, TLC

CONSTANTS hero, mage, monday, friday, dying, blessed

Party == {hero, mage}
Tables == {monday, friday}
Blows == {1, 12}
Marks == {dying, blessed}
Ending == {dying}

\* Of races.yaml: a dwarf is no magic-user, and wants some Constitution.
Creeds == {"lawful", "neutral", "chaotic"}
Folk == [human |-> [classes |-> {"magic_user", "fighter"}, alignments |-> Creeds, needs |-> <<>>],
         dwarf |-> [classes |-> {"fighter"}, alignments |-> Creeds, needs |-> [con |-> 9..18]]]
Dice == [magic_user |-> 4, fighter |-> 8]
Asks(race, class, con) ==
    [race |-> race, class |-> class, alignment |-> "lawful",
     scores |-> [a \in {"str", "int", "wis", "dex", "con", "cha"} |->
                   IF a = "con" THEN con ELSE 10]]
\* A magic-user of Constitution 3 and one of 8: one hit point, and three.  The dwarf is
\* refused as a magic-user, and as a fighter for want of Constitution.
Frail == {Asks("human", "magic_user", 3), Asks("human", "magic_user", 8),
          Asks("dwarf", "magic_user", 12), Asks("dwarf", "fighter", 6)}
TablesSwap == Permutations(Tables) \union Permutations(Party)

=============================================================================
