-------------------------- MODULE CampaignsProofs ---------------------------
(***************************************************************************)
(* For any campaigns, users, codes, characters and requests: the rows stay *)
(* consistent whatever is deleted under an open request, and what a stale  *)
(* request may do is confined to what the model says of it.                *)
(***************************************************************************)
EXTENDS Campaigns, TLAPS

Opened ==
    [op : {"mint"}, campaign : Campaigns]
      \union [op : {"join"}, user : Users, invite : Invites, row : InviteRows]
      \union [op : {"edit"}, char : Characters, row : CharRows]

Typed ==
    /\ owner \in [Campaigns -> Users \union {Never, Gone}]
    /\ role \in [Campaigns -> [Users -> Roles]]
    /\ invites \in [Invites -> InviteRows \union {Never, Gone}]
    /\ chars \in [Characters -> CharRows \union {Never, Gone}]
    /\ derived \subseteq Campaigns \X Campaigns
    /\ onDelete \in {"CASCADE", "SET NULL"}
    /\ moved \in [Requests -> SUBSET (Invites \union Characters)]
    /\ req \in [Requests -> Opened \union {Closed}]

\* A code that was read has been written once, and the row of a redemption names the
\* campaign the code still names.
RedeemsForItsCampaign ==
    \A r \in Requests : req[r].op = "join" =>
        /\ invites[req[r].invite] # Never
        /\ There(invites[req[r].invite]) =>
             req[r].row.campaign = invites[req[r].invite].campaign

\* What a request has read of the codes is still so, or the change was told to it.
Informed ==
    \A r \in Requests :
        /\ req[r].op = "join" => Unused(req[r].invite) \/ req[r].invite \in moved[r]
        /\ req[r].op = "mint" =>
             \A i \in Codes(req[r].campaign) : Active(i) => i \in moved[r]

Inv == Typed /\ Consistent /\ RedeemsForItsCampaign /\ Informed

\* An open request is what its operation says.
LEMMA OfItsKind ==
    ASSUME Typed, NEW r \in Requests
    PROVE  /\ req[r].op = "mint" => req[r].campaign \in Campaigns
           /\ req[r].op = "join" =>
                req[r].user \in Users /\ req[r].invite \in Invites /\ req[r].row \in InviteRows
           /\ req[r].op = "edit" => req[r].char \in Characters /\ req[r].row \in CharRows
  <1>0. req[r] \in Opened \union {Closed}
    BY DEF Typed
  <1>1. CASE req[r] \in [op : {"mint"}, campaign : Campaigns]
    BY <1>1
  <1>2. CASE req[r] \in [op : {"join"}, user : Users, invite : Invites, row : InviteRows]
    BY <1>2
  <1>3. CASE req[r] \in [op : {"edit"}, char : Characters, row : CharRows]
    BY <1>3
  <1>4. CASE req[r] = Closed
    BY <1>4 DEF Closed
  <1> QED BY <1>0, <1>1, <1>2, <1>3, <1>4 DEF Opened

\* The first state satisfies the invariant.
LEMMA InitInv == Init => Inv
  <1> SUFFICES ASSUME Init PROVE Inv
    OBVIOUS
  <1>1. Typed
    BY DEF Init, Typed, Roles
  <1>2. OwnersAlone
    BY DEF Init, OwnersAlone, There
  <1>3. CodesOfMembers /\ CharactersAtHome /\ ScenesOfCampaigns
    BY DEF Init, CodesOfMembers, CharactersAtHome, ScenesOfCampaigns, There
  <1>4. RedeemsForItsCampaign /\ Informed
    BY DEF Init, RedeemsForItsCampaign, Informed, Closed
  <1> QED BY <1>1, <1>2, <1>3, <1>4 DEF Inv, Consistent

\* A campaign comes with its owner as a member and with one new code.
LEMMA CreateInv ==
    ASSUME Inv, NEW u \in Users, NEW g \in Campaigns, CreateCampaign(u, g)
    PROVE  Inv'
  <1> USE DEF Inv
  <1>1. /\ owner \in [Campaigns -> Users \union {Never, Gone}]
        /\ role \in [Campaigns -> [Users -> Roles]]
        /\ owner[g] = Never
        /\ owner' = [owner EXCEPT ![g] = u]
        /\ role' = [role EXCEPT ![g][u] = "owner"]
        /\ UNCHANGED <<invites, chars, derived, onDelete, jobs, req, moved>>
    BY DEF Typed, CreateCampaign
  <1>2. \A v \in Users : role[g][v] = "none"
    BY <1>1 DEF Consistent, OwnersAlone, There
  <1>3. /\ \A h \in Campaigns : There(owner[h]) => There(owner'[h])
        /\ \A h \in Campaigns, v \in Users : role[h][v] # "none" => role'[h][v] # "none"
    BY <1>1, NamesAssumption DEF There
  <1>4. Typed'
    BY <1>1 DEF Typed, Roles
  <1>5. OwnersAlone'
    <2> SUFFICES ASSUME NEW h \in Campaigns
                 PROVE  IF There(owner'[h])
                        THEN {v \in Users : role'[h][v] = "owner"} = {owner'[h]}
                        ELSE \A v \in Users : role'[h][v] = "none"
      BY DEF OwnersAlone
    <2>1. CASE h = g
      <3>1. There(owner'[h]) /\ owner'[h] = u
        BY <1>1, <2>1, NamesAssumption DEF There
      <3>2. \A v \in Users : role'[h][v] = "owner" <=> v = u
        BY <1>1, <1>2, <2>1
      <3> QED BY <3>1, <3>2
    <2>2. CASE h # g
      BY <1>1, <2>2 DEF Consistent, OwnersAlone
    <2> QED BY <2>1, <2>2
  <1>6. CodesOfMembers'
    BY <1>1, <1>3 DEF Consistent, CodesOfMembers, Typed, InviteRows, There
  <1>7. CharactersAtHome'
    BY <1>1, <1>3 DEF Consistent, CharactersAtHome, Typed, CharRows, There
  <1>8. ScenesOfCampaigns'
    BY <1>1, <1>3 DEF Consistent, ScenesOfCampaigns, Typed, There
  <1>9. RedeemsForItsCampaign' /\ Informed'
    BY <1>1 DEF RedeemsForItsCampaign, Informed, Unused, Active, Codes, There
  <1> QED BY <1>4, <1>5, <1>6, <1>7, <1>8, <1>9 DEF Consistent

\* A deletion is refused while a portrait or a derived image would be left behind; members,
\* codes, the images' own pairs and the characters' campaigns go with it.
LEMMA DeleteInv ==
    ASSUME Inv, NEW u \in Users, NEW g \in Campaigns, DeleteCampaign(u, g)
    PROVE  Inv'
  <1> USE DEF Inv
  <1>1. /\ owner \in [Campaigns -> Users \union {Never, Gone}]
        /\ role \in [Campaigns -> [Users -> Roles]]
        /\ invites \in [Invites -> InviteRows \union {Never, Gone}]
        /\ chars \in [Characters -> CharRows \union {Never, Gone}]
        /\ derived \subseteq Campaigns \X Campaigns
        /\ owner' = [owner EXCEPT ![g] = Gone]
        /\ role' = [role EXCEPT ![g] = [v \in Users |-> "none"]]
        /\ invites' = [i \in Invites |-> IF i \in Codes(g) THEN Gone ELSE invites[i]]
        /\ derived' = {pair \in derived : pair[1] # g}
        /\ Told(Codes(g) \union In(g))
        /\ UNCHANGED <<onDelete, jobs, req>>
    BY DEF Typed, DeleteCampaign
  <1>2. /\ \A h \in Campaigns \ {g} : owner'[h] = owner[h] /\ role'[h] = role[h]
        /\ ~There(owner'[g]) /\ \A v \in Users : role'[g][v] = "none"
    BY <1>1 DEF There
  <1>3. \A c \in Characters :
          IF c \notin In(g) THEN chars'[c] = chars[c]
          ELSE IF onDelete = "CASCADE" THEN chars'[c] = Gone
          ELSE chars'[c] = [chars[c] EXCEPT !.at = Roster]
    BY DEF DeleteCampaign
  <1>4. \A c \in Characters : There(chars[c]) => chars[c] \in CharRows
    BY <1>1 DEF There
  <1>5. \A c \in Characters : There(chars'[c]) =>
          /\ There(chars[c]) /\ chars'[c] \in CharRows /\ chars'[c].at # g
          /\ chars'[c].player = chars[c].player
          /\ chars'[c].at \in {chars[c].at, Roster}
          /\ chars'[c].portrait = chars[c].portrait /\ chars'[c].portrait # g
    <2> SUFFICES ASSUME NEW c \in Characters, There(chars'[c])
                 PROVE  /\ There(chars[c]) /\ chars'[c] \in CharRows /\ chars'[c].at # g
                        /\ chars'[c].player = chars[c].player
                        /\ chars'[c].at \in {chars[c].at, Roster}
                        /\ chars'[c].portrait = chars[c].portrait /\ chars'[c].portrait # g
      OBVIOUS
    <2>0. Wearing(g) \ (IF onDelete = "CASCADE" THEN In(g) ELSE {}) = {}
      BY DEF DeleteCampaign, Referred
    <2>1. CASE c \notin In(g)
      <3>1. chars'[c] = chars[c] /\ There(chars[c]) /\ chars[c].at # g
        BY <1>3, <2>1 DEF In
      <3>2. c \notin Wearing(g)
        BY <2>0, <2>1
      <3> QED BY <1>4, <3>1, <3>2 DEF Wearing
    <2>2. CASE c \in In(g)
      <3>1. onDelete # "CASCADE" /\ chars'[c] = [chars[c] EXCEPT !.at = Roster]
        BY <1>3, <2>2 DEF There
      <3>2. There(chars[c]) /\ chars[c] \in CharRows /\ c \notin Wearing(g)
        BY <1>4, <2>0, <2>2, <3>1 DEF In
      <3> QED BY <3>1, <3>2, NamesAssumption DEF CharRows, Wearing
    <2> QED BY <2>1, <2>2
  <1>6. \A i \in Invites : There(invites'[i]) =>
          invites'[i] = invites[i] /\ invites[i] \in InviteRows /\ invites[i].campaign # g
    BY <1>1 DEF Codes, There
  <1>7. Typed'
    <2>1. chars' \in [Characters -> CharRows \union {Never, Gone}]
      <3>1. chars' = [c \in Characters |-> chars'[c]]
        BY DEF DeleteCampaign
      <3> QED BY <1>5, <3>1 DEF There
    <2>2. moved' \in [Requests -> SUBSET (Invites \union Characters)]
      BY <1>1 DEF Typed, Told, Codes, In
    <2>3. owner' \in [Campaigns -> Users \union {Never, Gone}]
      BY <1>1
    <2>4. role' \in [Campaigns -> [Users -> Roles]]
      BY <1>1 DEF Roles
    <2>5. invites' \in [Invites -> InviteRows \union {Never, Gone}]
      BY <1>1
    <2> QED BY <1>1, <2>1, <2>2, <2>3, <2>4, <2>5 DEF Typed
  <1>8. OwnersAlone'
    BY <1>2 DEF Consistent, OwnersAlone
  <1>9. CodesOfMembers'
    BY <1>2, <1>6 DEF Consistent, CodesOfMembers, InviteRows
  <1>10. CharactersAtHome'
    BY <1>2, <1>5 DEF Consistent, CharactersAtHome, CharRows
  <1>11. ScenesOfCampaigns'
    <2> SUFFICES ASSUME NEW pair \in derived'
                 PROVE  There(owner'[pair[1]]) /\ There(owner'[pair[2]])
      BY DEF ScenesOfCampaigns
    <2>1. pair \in derived /\ pair[1] \in Campaigns \ {g} /\ pair[2] \in Campaigns
      BY <1>1
    <2>2. pair = <<pair[1], pair[2]>>
      BY <1>1, <2>1
    <2>3. pair[2] # g
      BY <2>1, <2>2 DEF DeleteCampaign, Referred
    <2> QED BY <1>2, <2>1, <2>3 DEF Consistent, ScenesOfCampaigns
  <1>12. RedeemsForItsCampaign'
    <2> SUFFICES ASSUME NEW r \in Requests, req[r].op = "join"
                 PROVE  /\ invites'[req[r].invite] # Never
                        /\ There(invites'[req[r].invite]) =>
                             req[r].row.campaign = invites'[req[r].invite].campaign
      BY <1>1 DEF RedeemsForItsCampaign
    <2>1. req[r].invite \in Invites
      BY OfItsKind
    <2> QED BY <1>1, <1>6, <2>1, NamesAssumption DEF RedeemsForItsCampaign
  <1>13. Informed'
    <2>1. \A r \in Requests : moved'[r] = moved[r] \union Codes(g) \union In(g)
      BY <1>1 DEF Told
    <2>2. \A i \in Invites : invites'[i] # invites[i] => i \in Codes(g)
      BY <1>1
    <2>3. \A r \in Requests : req[r].op = "join" => req[r].invite \in Invites
      BY OfItsKind
    <2> QED BY <1>1, <1>6, <2>1, <2>2, <2>3 DEF Informed, Unused, Active, Codes
  <1> QED BY <1>7, <1>8, <1>9, <1>10, <1>11, <1>12, <1>13 DEF Consistent

-----------------------------------------------------------------------------
(* What the other requests are left with *)

\* A request stays as it was and is told of what changed, or it is closed.
Passes(changed) ==
    /\ req' \in [Requests -> Opened \union {Closed}]
    /\ moved' \in [Requests -> SUBSET (Invites \union Characters)]
    /\ \A r \in Requests :
         req'[r] = Closed \/ (req'[r] = req[r] /\ moved'[r] = moved[r] \union changed)

\* Codes outside changed say what they said, except that they may have expired; and a code
\* once written names its campaign or is deleted.
CodesKept(changed) ==
    \A i \in Invites :
        /\ invites[i] # Never =>
             /\ invites'[i] # Never
             /\ There(invites'[i]) =>
                  There(invites[i]) /\ invites'[i].campaign = invites[i].campaign
        /\ i \notin changed =>
             /\ Unused(i) => Unused(i)'
             /\ Active(i)' => There(invites[i]) /\ Active(i)
             /\ Active(i)' => invites'[i].campaign = invites[i].campaign

\* What open requests rely on holds on, if those that read what changed are told of it.
LEMMA RequestsKept ==
    ASSUME Inv, NEW changed \in SUBSET (Invites \union Characters),
           Passes(changed), CodesKept(changed)
    PROVE  RedeemsForItsCampaign' /\ Informed'
  <1> USE DEF Inv
  <1>1. ASSUME NEW r \in Requests, req'[r].op = "join"
        PROVE  /\ req'[r] = req[r] /\ moved'[r] = moved[r] \union changed
               /\ req[r].invite \in Invites
    BY <1>1, OfItsKind DEF Passes, Closed
  <1>2. ASSUME NEW r \in Requests, req'[r].op = "mint"
        PROVE  req'[r] = req[r] /\ moved'[r] = moved[r] \union changed
    BY <1>2 DEF Passes, Closed
  <1>3. RedeemsForItsCampaign'
    BY <1>1 DEF RedeemsForItsCampaign, CodesKept
  <1>4. ASSUME NEW r \in Requests, req'[r].op = "join"
        PROVE  (Unused(req[r].invite) \/ req[r].invite \in moved[r])'
    <2>1. Unused(req[r].invite) \/ req[r].invite \in moved[r]
      BY <1>1, <1>4 DEF Informed
    <2>2. req[r].invite \notin changed /\ Unused(req[r].invite) =>
            LET i == req[r].invite IN Unused(i)'
      BY <1>1, <1>4 DEF CodesKept
    <2> QED BY <1>1, <1>4, <2>1, <2>2 DEF Unused
  <1>5. ASSUME NEW r \in Requests, req'[r].op = "mint",
               NEW i \in Codes(req[r].campaign)', Active(i)'
        PROVE  i \in moved'[r]
    <2>1. i \in Invites /\ There(invites'[i]) /\ invites'[i].campaign = req[r].campaign
      BY <1>2, <1>5 DEF Codes
    <2>2. i \notin changed => i \in Codes(req[r].campaign) /\ Active(i)
      BY <1>5, <2>1 DEF CodesKept, Codes
    <2> QED BY <1>2, <1>5, <2>2 DEF Informed
  <1> QED BY <1>3, <1>4, <1>5 DEF Informed

\* Told and Tell are what Passes says.
LEMMA ToldPasses ==
    ASSUME Inv, NEW changed \in SUBSET (Invites \union Characters), Told(changed),
           UNCHANGED req
    PROVE  Passes(changed)
  BY DEF Inv, Typed, Told, Passes

\* A commit tells the other requests what it changed, and closes its own.
LEMMA TellPasses ==
    ASSUME Inv, NEW changed \in SUBSET (Invites \union Characters), NEW r \in Requests,
           Tell(r, changed), Close(r)
    PROVE  Passes(changed)
  BY DEF Inv, Typed, Tell, Close, Passes

\* Nothing is told when nothing has changed.
LEMMA QuietPasses ==
    ASSUME Inv, UNCHANGED <<req, moved>>
    PROVE  Passes({})
  BY DEF Inv, Typed, Passes

\* A step that leaves the codes alone keeps what was said of them.
LEMMA SameCodes ==
    ASSUME Inv, UNCHANGED invites, NEW changed
    PROVE  CodesKept(changed)
  BY DEF CodesKept, Unused, Active

\* A request that opens with what it has just read.
LEMMA OpenInv ==
    ASSUME Inv, NEW r \in Requests, NEW record \in Opened, Open(r, record),
           UNCHANGED <<rows, onDelete>>,
           record.op = "join" => Unused(record.invite) /\ record.row = invites[record.invite],
           record.op = "mint" => {i \in Codes(record.campaign) : Active(i)} = {}
    PROVE  Inv'
  <1> USE DEF Inv
  <1>1. /\ req' = [req EXCEPT ![r] = record] /\ moved' = [moved EXCEPT ![r] = {}]
        /\ UNCHANGED <<owner, role, invites, chars, derived, onDelete>>
    BY DEF Open, rows
  <1>2. Typed'
    BY <1>1 DEF Typed
  <1>3. Consistent'
    BY <1>1 DEF Consistent, OwnersAlone, CodesOfMembers, CharactersAtHome, ScenesOfCampaigns
  <1>4. \A q \in Requests : q # r => req'[q] = req[q] /\ moved'[q] = moved[q]
    BY <1>1 DEF Typed
  <1>5. req'[r] = record
    BY <1>1 DEF Typed
  <1>6. RedeemsForItsCampaign'
    BY <1>1, <1>4, <1>5 DEF RedeemsForItsCampaign, Unused, There
  <1>7. Informed'
    BY <1>1, <1>4, <1>5 DEF Informed, Unused, Active, Codes
  <1> QED BY <1>2, <1>3, <1>6, <1>7

\* A request that fails leaves every row as it was.
LEMMA FailInv ==
    ASSUME Inv, NEW r \in Requests, Fail(r)
    PROVE  Inv'
  <1> USE DEF Inv
  <1>1. /\ UNCHANGED <<owner, role, invites, chars, derived, onDelete>>
        /\ req' = [req EXCEPT ![r] = Closed] /\ moved' = [moved EXCEPT ![r] = {}]
    BY DEF Fail, rows, Close
  <1>2. Passes({})
    BY <1>1 DEF Typed, Passes
  <1>3. Typed'
    BY <1>1, <1>2 DEF Typed, Passes
  <1>4. Consistent'
    BY <1>1 DEF Consistent, OwnersAlone, CodesOfMembers, CharactersAtHome, ScenesOfCampaigns
  <1> QED BY <1>1, <1>2, <1>3, <1>4, SameCodes, RequestsKept

-----------------------------------------------------------------------------
(* Codes and members *)

\* Who is a member of a campaign is one of a campaign that is there.
LEMMA MembersOfCampaigns ==
    ASSUME Consistent, NEW g \in Campaigns, NEW u \in Users, role[g][u] # "none"
    PROVE  There(owner[g])
  BY DEF Consistent, OwnersAlone

\* A code is minted for a campaign that is there.
LEMMA MintedInv ==
    ASSUME Inv, NEW g \in Campaigns, There(owner[g]), NEW i \in Invites, invites[i] = Never,
           invites' = [invites EXCEPT ![i] = NewInvite(g)], Passes({i}),
           UNCHANGED <<owner, role, chars, derived, onDelete>>
    PROVE  Inv'
  <1> USE DEF Inv
  <1>1. /\ invites'[i] = NewInvite(g)
        /\ \A j \in Invites : j # i => invites'[j] = invites[j]
    BY DEF Typed
  <1>2. NewInvite(g) \in InviteRows
    BY DEF NewInvite, InviteRows
  <1>3. Typed'
    BY <1>2 DEF Typed, Passes
  <1>4. CodesOfMembers'
    BY <1>1 DEF Consistent, CodesOfMembers, NewInvite
  <1>5. OwnersAlone' /\ CharactersAtHome' /\ ScenesOfCampaigns'
    BY DEF Consistent, OwnersAlone, CharactersAtHome, ScenesOfCampaigns
  <1>6. CodesKept({i})
    BY <1>1 DEF CodesKept, Unused, Active
  <1> QED BY <1>3, <1>4, <1>5, <1>6, RequestsKept DEF Consistent

\* A minted code is a new one of an existing campaign.
LEMMA MintInv ==
    ASSUME Inv, NEW u \in Users, NEW g \in Campaigns, MintInvite(u, g)
    PROVE  Inv'
  <1> USE DEF Inv
  <1>1. There(owner[g])
    BY MembersOfCampaigns DEF MintInvite
  <1>2. PICK i \in Invites : /\ invites[i] = Never
                             /\ invites' = [invites EXCEPT ![i] = NewInvite(g)]
                             /\ Told({i})
    BY DEF MintInvite
  <1>3. Passes({i})
    BY <1>2, ToldPasses DEF MintInvite
  <1> QED BY <1>1, <1>2, <1>3, MintedInv DEF MintInvite

\* So is one minted after a look, which may by now be a second.
LEMMA MintFoundInv ==
    ASSUME Inv, NEW r \in Requests, MintFound(r)
    PROVE  Inv'
  <1> USE DEF Inv
  <1>1. req[r].campaign \in Campaigns /\ There(owner[req[r].campaign])
    BY OfItsKind DEF MintFound
  <1>2. PICK i \in Invites : /\ invites[i] = Never
                             /\ invites' = [invites EXCEPT ![i] = NewInvite(req[r].campaign)]
                             /\ Tell(r, {i})
    BY DEF MintFound
  <1>3. Passes({i})
    BY <1>2, TellPasses DEF MintFound
  <1> QED BY <1>1, <1>2, <1>3, MintedInv DEF MintFound

\* A look writes nothing.
LEMMA LookInv ==
    ASSUME Inv, NEW r \in Requests, NEW u \in Users, NEW g \in Campaigns,
           LookForInvite(r, u, g)
    PROVE  Inv'
  <1>1. [op |-> "mint", campaign |-> g] \in Opened
    BY DEF Opened
  <1> QED BY <1>1, OpenInv DEF LookForInvite

\* The checks of a redemption write nothing, and hold when they are made.
LEMMA JoinCheckInv ==
    ASSUME Inv, NEW r \in Requests, NEW u \in Users, NEW i \in Invites, JoinCheck(r, u, i)
    PROVE  Inv'
  <1> DEFINE record == [op |-> "join", user |-> u, invite |-> i, row |-> invites[i]]
  <1>1. invites[i] \in InviteRows /\ Unused(i)
    BY DEF Inv, Typed, JoinCheck, Active, Unused, There
  <1>2. record \in [op : {"join"}, user : Users, invite : Invites, row : InviteRows]
    BY <1>1
  <1>3. record \in Opened
    BY <1>2 DEF Opened
  <1>4. Open(r, record) /\ UNCHANGED <<rows, onDelete>>
    BY DEF JoinCheck
  <1> QED BY <1>1, <1>3, <1>4, OpenInv

\* A revocation tells the requests that have read the code.
LEMMA RevokeInv ==
    ASSUME Inv, NEW u \in Users, NEW i \in Invites, Revoke(u, i)
    PROVE  Inv'
  <1> USE DEF Inv
  <1>1. /\ invites[i] \in InviteRows
        /\ invites'[i] = [invites[i] EXCEPT !.revoked = TRUE]
        /\ \A j \in Invites : j # i => invites'[j] = invites[j]
        /\ UNCHANGED <<owner, role, chars, derived, onDelete>>
    BY DEF Typed, Revoke, There
  <1>2. /\ invites'[i] \in InviteRows /\ invites'[i].revoked
        /\ invites'[i].campaign = invites[i].campaign /\ invites'[i].usedBy = invites[i].usedBy
    BY <1>1 DEF InviteRows
  <1>3. Passes({i})
    BY ToldPasses DEF Revoke
  <1>4. Typed'
    BY <1>1, <1>2, <1>3 DEF Typed, Passes, Revoke
  <1>5. CodesOfMembers'
    BY <1>1, <1>2 DEF Consistent, CodesOfMembers, Revoke
  <1>6. OwnersAlone' /\ CharactersAtHome' /\ ScenesOfCampaigns'
    BY <1>1 DEF Consistent, OwnersAlone, CharactersAtHome, ScenesOfCampaigns
  <1>7. CodesKept({i})
    BY <1>1, <1>2, NamesAssumption DEF CodesKept, Unused, Active, There, Revoke
  <1> QED BY <1>3, <1>4, <1>5, <1>6, <1>7, RequestsKept DEF Consistent

\* A code that expires is as used and as revoked as before.
LEMMA ExpireInv ==
    ASSUME Inv, NEW i \in Invites, Expire(i)
    PROVE  Inv'
  <1> USE DEF Inv
  <1>1. /\ invites[i] \in InviteRows
        /\ invites'[i] = [invites[i] EXCEPT !.expired = TRUE]
        /\ \A j \in Invites : j # i => invites'[j] = invites[j]
        /\ UNCHANGED <<owner, role, chars, derived, onDelete>>
    BY DEF Typed, Expire, There
  <1>2. /\ invites'[i] \in InviteRows /\ invites'[i].expired
        /\ invites'[i].revoked = invites[i].revoked
        /\ invites'[i].campaign = invites[i].campaign /\ invites'[i].usedBy = invites[i].usedBy
    BY <1>1 DEF InviteRows
  <1>3. There(invites[i]) /\ There(invites'[i])
    BY <1>2, NamesAssumption DEF Expire, There
  <1>4. Passes({})
    BY QuietPasses DEF Expire
  <1>5. Typed'
    BY <1>1, <1>2, <1>4 DEF Typed, Passes, Expire
  <1>6. CodesOfMembers'
    <2>1. ASSUME NEW j \in Invites, There(invites'[j])
          PROVE  /\ There(invites[j]) /\ invites'[j].campaign = invites[j].campaign
                 /\ invites'[j].usedBy = invites[j].usedBy
      BY <1>1, <1>2, <1>3, <2>1
    <2> QED BY <1>1, <2>1 DEF Consistent, CodesOfMembers
  <1>7. OwnersAlone' /\ CharactersAtHome' /\ ScenesOfCampaigns'
    BY <1>1 DEF Consistent, OwnersAlone, CharactersAtHome, ScenesOfCampaigns
  <1>8. CodesKept({})
    BY <1>1, <1>2, <1>3 DEF CodesKept, Unused, Active, There
  <1> QED BY <1>4, <1>5, <1>6, <1>7, <1>8, RequestsKept DEF Consistent

\* A member is added where he was none; an owner stays the owner.
LEMMA EnrolledInv ==
    ASSUME Inv, NEW g \in Campaigns, NEW u \in Users, There(owner[g]),
           role' = [role EXCEPT ![g][u] = Enrolled(@)],
           UNCHANGED <<owner, chars, derived, onDelete>>
    PROVE  /\ role' \in [Campaigns -> [Users -> Roles]]
           /\ role'[g][u] # "none"
           /\ \A h \in Campaigns, v \in Users : role[h][v] # "none" => role'[h][v] # "none"
           /\ OwnersAlone' /\ CharactersAtHome' /\ ScenesOfCampaigns'
  <1> USE DEF Inv
  <1>1. /\ role \in [Campaigns -> [Users -> Roles]]
        /\ owner \in [Campaigns -> Users \union {Never, Gone}]
        /\ chars \in [Characters -> CharRows \union {Never, Gone}]
    BY DEF Typed
  <1>2. /\ role'[g][u] = Enrolled(role[g][u])
        /\ \A h \in Campaigns, v \in Users : h # g \/ v # u => role'[h][v] = role[h][v]
    BY <1>1
  <1>3. /\ role'[g][u] \in Roles \ {"none"}
        /\ role'[g][u] = "owner" <=> role[g][u] = "owner"
    BY <1>1, <1>2 DEF Enrolled, Roles
  <1>4. \A h \in Campaigns, v \in Users :
          /\ role[h][v] # "none" => role'[h][v] # "none"
          /\ role'[h][v] = "owner" <=> role[h][v] = "owner"
    BY <1>2, <1>3
  <1>5. role' \in [Campaigns -> [Users -> Roles]]
    BY <1>1, <1>3
  <1>6. OwnersAlone'
    <2>1. ASSUME NEW h \in Campaigns, There(owner[h])
          PROVE  {v \in Users : role'[h][v] = "owner"} = {owner[h]}
      BY <1>4, <2>1 DEF Consistent, OwnersAlone
    <2>2. ASSUME NEW h \in Campaigns, ~There(owner[h]), NEW v \in Users
          PROVE  role'[h][v] = "none"
      BY <1>2, <2>2 DEF Consistent, OwnersAlone
    <2> QED BY <2>1, <2>2 DEF OwnersAlone
  <1>7. CharactersAtHome' /\ ScenesOfCampaigns'
    BY <1>1, <1>4 DEF Consistent, CharactersAtHome, ScenesOfCampaigns, CharRows, There
  <1> QED BY <1>3, <1>4, <1>5, <1>6, <1>7

\* A redemption makes its user a member of the code's campaign, an owner staying one.
LEMMA JoinInv ==
    ASSUME Inv, NEW r \in Requests, JoinCommit(r)
    PROVE  Inv'
  <1> USE DEF Inv
  <1> DEFINE i == req[r].invite
             u == req[r].user
  <1>1. /\ i \in Invites /\ u \in Users /\ There(invites[i]) /\ invites[i] \in InviteRows
        /\ req[r].row.campaign = invites[i].campaign
    <2>1. i \in Invites /\ u \in Users /\ There(invites[i])
      BY OfItsKind DEF JoinCommit
    <2>2. req[r].row.campaign = invites[i].campaign
      BY <2>1 DEF RedeemsForItsCampaign, JoinCommit
    <2> QED BY <2>1, <2>2 DEF Typed, There
  <1> DEFINE g == invites[i].campaign
  <1>2. /\ invites' = [invites EXCEPT ![i] = [invites[i] EXCEPT !.usedBy = u]]
        /\ role' = [role EXCEPT ![g][u] = Enrolled(@)]
        /\ UNCHANGED <<owner, chars, derived, onDelete>>
        /\ Tell(r, {i}) /\ Close(r)
    BY <1>1 DEF JoinCommit, MarkUsed
  <1> HIDE DEF i, u
  <1>3. g \in Campaigns /\ There(owner[g])
    BY <1>1 DEF Consistent, CodesOfMembers, InviteRows
  <1>4. /\ role' \in [Campaigns -> [Users -> Roles]]
        /\ role'[g][u] # "none"
        /\ \A h \in Campaigns, v \in Users : role[h][v] # "none" => role'[h][v] # "none"
        /\ OwnersAlone' /\ CharactersAtHome' /\ ScenesOfCampaigns'
    BY <1>1, <1>2, <1>3, EnrolledInv
  <1>5. /\ invites'[i] = [invites[i] EXCEPT !.usedBy = u]
        /\ \A j \in Invites : j # i => invites'[j] = invites[j]
    BY <1>1, <1>2 DEF Typed
  <1>6. /\ invites'[i] \in InviteRows /\ invites'[i].campaign = g /\ invites'[i].usedBy = u
        /\ There(invites'[i])
    BY <1>1, <1>5, NamesAssumption DEF InviteRows, There
  <1>7. Passes({i})
    BY <1>1, <1>2, TellPasses
  <1>8. Typed'
    BY <1>2, <1>4, <1>6, <1>7 DEF Typed, Passes
  <1>9. CodesOfMembers'
    <2> SUFFICES ASSUME NEW j \in Invites, There(invites'[j])
                 PROVE  /\ There(owner[invites'[j].campaign])
                        /\ invites'[j].usedBy # Nobody =>
                             role'[invites'[j].campaign][invites'[j].usedBy] # "none"
      BY <1>2 DEF CodesOfMembers
    <2>1. CASE j = i
      BY <1>3, <1>4, <1>6, <2>1
    <2>2. CASE j # i
      <3>1. invites'[j] = invites[j] /\ invites[j] \in InviteRows
        BY <1>5, <2>2 DEF Typed, There
      <3> QED BY <1>4, <3>1 DEF Consistent, CodesOfMembers, InviteRows
    <2> QED BY <2>1, <2>2
  <1>10. CodesKept({i})
    BY <1>1, <1>5, <1>6 DEF CodesKept, Unused, Active, There
  <1> QED BY <1>1, <1>4, <1>7, <1>8, <1>9, <1>10, RequestsKept DEF Consistent

\* So does a code of the first schema, which is not marked.
LEMMA OldCodeInv ==
    ASSUME Inv, NEW u \in Users, NEW g \in Campaigns, JoinByOldCode(u, g)
    PROVE  Inv'
  <1> USE DEF Inv
  <1>1. /\ role' = [role EXCEPT ![g][u] = Enrolled(@)]
        /\ There(owner[g])
        /\ UNCHANGED <<owner, invites, chars, derived, onDelete, req, moved>>
    BY DEF JoinByOldCode
  <1>2. /\ role' \in [Campaigns -> [Users -> Roles]]
        /\ \A h \in Campaigns, v \in Users : role[h][v] # "none" => role'[h][v] # "none"
        /\ OwnersAlone' /\ CharactersAtHome' /\ ScenesOfCampaigns'
    BY <1>1, EnrolledInv
  <1>3. Typed'
    BY <1>1, <1>2 DEF Typed
  <1>4. CodesOfMembers'
    BY <1>1, <1>2 DEF Consistent, CodesOfMembers, Typed, InviteRows, There
  <1>5. RedeemsForItsCampaign' /\ Informed'
    BY <1>1, QuietPasses, SameCodes, RequestsKept
  <1> QED BY <1>2, <1>3, <1>4, <1>5 DEF Consistent

-----------------------------------------------------------------------------
(* Characters and images *)

\* One character is written; it plays where its player is a member, and its portrait
\* is of a campaign that is there.
LEMMA CharacterInv ==
    ASSUME Inv, NEW c \in Characters, NEW row \in CharRows,
           row.at # Roster => role[row.at][row.player] # "none",
           row.portrait # NoPortrait => There(owner[row.portrait]),
           chars' = [chars EXCEPT ![c] = row],
           NEW changed \in SUBSET (Invites \union Characters), Passes(changed),
           UNCHANGED <<owner, role, invites, derived, onDelete>>
    PROVE  Inv'
  <1> USE DEF Inv
  <1>1. /\ chars'[c] = row
        /\ \A d \in Characters : d # c => chars'[d] = chars[d]
    BY DEF Typed
  <1>2. Typed'
    BY DEF Typed, Passes
  <1>3. CharactersAtHome'
    BY <1>1 DEF Consistent, CharactersAtHome
  <1>4. OwnersAlone' /\ CodesOfMembers' /\ ScenesOfCampaigns'
    BY DEF Consistent, OwnersAlone, CodesOfMembers, ScenesOfCampaigns
  <1> QED BY <1>2, <1>3, <1>4, SameCodes, RequestsKept DEF Consistent

\* What is known of a character that is there.
LEMMA CharacterThere ==
    ASSUME Inv, NEW c \in Characters, There(chars[c])
    PROVE  /\ chars[c] \in CharRows
           /\ chars[c].at # Roster => role[chars[c].at][chars[c].player] # "none"
           /\ chars[c].portrait # NoPortrait => There(owner[chars[c].portrait])
  BY DEF Inv, Typed, Consistent, CharactersAtHome, There

\* A character is rolled by a member, into the campaign.
LEMMA RollInv ==
    ASSUME Inv, NEW u \in Users, NEW g \in Campaigns, NEW c \in Characters,
           RollCharacter(u, g, c)
    PROVE  Inv'
  <1> DEFINE row == [player |-> u, at |-> g, portrait |-> NoPortrait, notes |-> "blank"]
  <1>1. row \in CharRows
    BY DEF CharRows
  <1>2. Passes({})
    BY QuietPasses DEF RollCharacter
  <1>3. /\ row.at # Roster => role[row.at][row.player] # "none"
        /\ row.portrait = NoPortrait
    BY DEF RollCharacter
  <1>4. /\ chars' = [chars EXCEPT ![c] = row]
        /\ UNCHANGED <<owner, role, invites, derived, onDelete>>
    BY DEF RollCharacter
  <1> HIDE DEF row
  <1> QED BY <1>1, <1>2, <1>3, <1>4, CharacterInv

\* It is taken into a campaign its player is a member of.
LEMMA EnrollInv ==
    ASSUME Inv, NEW u \in Users, NEW c \in Characters, NEW g \in Campaigns, Enroll(u, c, g)
    PROVE  Inv'
  <1> DEFINE row == [chars[c] EXCEPT !.at = g]
  <1>1. chars[c] \in CharRows /\ chars[c].player = u
    BY CharacterThere DEF Enroll, Mine
  <1>2. /\ row \in CharRows /\ row.at = g /\ row.player = u
        /\ row.portrait = chars[c].portrait
    BY <1>1 DEF CharRows
  <1>3. /\ row.at # Roster => role[row.at][row.player] # "none"
        /\ row.portrait # NoPortrait => There(owner[row.portrait])
    BY <1>2, CharacterThere DEF Enroll, Mine
  <1>4. /\ chars' = [chars EXCEPT ![c] = row]
        /\ UNCHANGED <<owner, role, invites, derived, onDelete>>
    BY DEF Enroll
  <1>5. Passes({c})
    BY ToldPasses DEF Enroll
  <1> HIDE DEF row
  <1> QED BY <1>2, <1>3, <1>4, <1>5, CharacterInv

\* It goes back to the roster.
LEMMA ReturnInv ==
    ASSUME Inv, NEW u \in Users, NEW c \in Characters, ReturnToRoster(u, c)
    PROVE  Inv'
  <1> DEFINE row == [chars[c] EXCEPT !.at = Roster]
  <1>1. chars[c] \in CharRows
    BY CharacterThere DEF ReturnToRoster, Mine
  <1>2. /\ row \in CharRows /\ row.at = Roster
        /\ row.portrait = chars[c].portrait
    BY <1>1 DEF CharRows
  <1>3. row.portrait # NoPortrait => There(owner[row.portrait])
    BY <1>2, CharacterThere DEF ReturnToRoster, Mine
  <1>4. /\ chars' = [chars EXCEPT ![c] = row]
        /\ UNCHANGED <<owner, role, invites, derived, onDelete>>
    BY DEF ReturnToRoster
  <1>5. Passes({c})
    BY ToldPasses DEF ReturnToRoster
  <1> HIDE DEF row
  <1> QED BY <1>2, <1>3, <1>4, <1>5, CharacterInv

\* The checks of an edit write nothing.
LEMMA EditInv ==
    ASSUME Inv, NEW r \in Requests, NEW u \in Users, NEW c \in Characters, EditSheet(r, u, c)
    PROVE  Inv'
  <1> DEFINE record == [op |-> "edit", char |-> c, row |-> chars[c]]
  <1>1. chars[c] \in CharRows
    BY CharacterThere DEF EditSheet, Mine
  <1>2. record \in [op : {"edit"}, char : Characters, row : CharRows]
    BY <1>1
  <1>3. record \in Opened
    BY <1>2 DEF Opened
  <1>4. Open(r, record) /\ UNCHANGED <<rows, onDelete>>
    BY DEF EditSheet
  <1> QED BY <1>3, <1>4, OpenInv

\* An edit writes the notes alone.
LEMMA SaveInv ==
    ASSUME Inv, NEW r \in Requests, SaveSheet(r)
    PROVE  Inv'
  <1> DEFINE c == req[r].char
             row == [chars[c] EXCEPT !.notes = "written"]
  <1>1. c \in Characters /\ There(chars[c])
    BY OfItsKind DEF SaveSheet, Inv
  <1>2. chars[c] \in CharRows
    BY <1>1, CharacterThere
  <1>3. /\ row \in CharRows /\ row.at = chars[c].at /\ row.player = chars[c].player
        /\ row.portrait = chars[c].portrait
    BY <1>2 DEF CharRows
  <1>4. /\ row.at # Roster => role[row.at][row.player] # "none"
        /\ row.portrait # NoPortrait => There(owner[row.portrait])
    BY <1>1, <1>3, CharacterThere
  <1>5. /\ chars' = [chars EXCEPT ![c] = row]
        /\ UNCHANGED <<owner, role, invites, derived, onDelete>>
        /\ Tell(r, {c}) /\ Close(r)
    BY DEF SaveSheet, Noted
  <1>6. Passes({c})
    BY <1>1, <1>5, TellPasses
  <1> HIDE DEF c, row
  <1> QED BY <1>1, <1>3, <1>4, <1>5, <1>6, CharacterInv

\* A portrait is linked while its campaign is there.
LEMMA LinkInv ==
    ASSUME Inv, NEW c \in Characters, NEW g \in Campaigns, LinkPortrait(c, g)
    PROVE  Inv'
  <1> DEFINE row == [chars[c] EXCEPT !.portrait = g]
  <1>1. chars[c] \in CharRows
    BY CharacterThere DEF LinkPortrait
  <1>2. /\ row \in CharRows /\ row.at = chars[c].at /\ row.player = chars[c].player
        /\ row.portrait = g
    BY <1>1 DEF CharRows
  <1>3. /\ row.at # Roster => role[row.at][row.player] # "none"
        /\ There(owner[row.portrait])
    BY <1>2, CharacterThere DEF LinkPortrait
  <1>4. /\ chars' = [chars EXCEPT ![c] = row]
        /\ UNCHANGED <<owner, role, invites, derived, onDelete>>
    BY DEF LinkPortrait
  <1>5. Passes({c})
    BY ToldPasses DEF LinkPortrait
  <1> HIDE DEF row
  <1> QED BY <1>2, <1>3, <1>4, <1>5, CharacterInv

\* A scene is stored for a campaign that is there.
LEMMA SceneInv ==
    ASSUME Inv, NEW h \in Campaigns, NEW g \in Campaigns, StoreScene(h, g)
    PROVE  Inv'
  <1> USE DEF Inv
  <1>1. /\ derived' = derived \union {<<g, h>>} /\ There(owner[g]) /\ There(owner[h])
        /\ UNCHANGED <<owner, role, invites, chars, onDelete, req, moved>>
    BY DEF StoreScene
  <1>2. Typed'
    <2>1. derived \subseteq Campaigns \X Campaigns /\ <<g, h>> \in Campaigns \X Campaigns
      BY DEF Typed
    <2>2. derived' \subseteq Campaigns \X Campaigns
      BY <1>1, <2>1
    <2> QED BY <1>1, <2>2, QuietPasses DEF Typed, Passes
  <1>3. ScenesOfCampaigns'
    BY <1>1 DEF Consistent, ScenesOfCampaigns
  <1>4. OwnersAlone' /\ CodesOfMembers' /\ CharactersAtHome'
    BY <1>1 DEF Consistent, OwnersAlone, CodesOfMembers, CharactersAtHome
  <1> QED BY <1>1, <1>2, <1>3, <1>4, QuietPasses, SameCodes, RequestsKept DEF Consistent

\* The rows and the requests are what they were: an order of an image, a stutter.
LEMMA SameInv ==
    ASSUME Inv, UNCHANGED <<rows, onDelete, req, moved>>
    PROVE  Inv'
  <1> USE DEF Inv
  <1>1. /\ owner' = owner /\ role' = role /\ invites' = invites /\ chars' = chars
        /\ derived' = derived /\ onDelete' = onDelete /\ req' = req /\ moved' = moved
    BY DEF rows
  <1>2. Typed'
    BY <1>1, QuietPasses DEF Typed, Passes
  <1>3. OwnersAlone' /\ CodesOfMembers' /\ CharactersAtHome' /\ ScenesOfCampaigns'
    BY <1>1 DEF Consistent, OwnersAlone, CodesOfMembers, CharactersAtHome, ScenesOfCampaigns
  <1> QED BY <1>1, <1>2, <1>3, QuietPasses, SameCodes, RequestsKept DEF Consistent

-----------------------------------------------------------------------------
\* Every step keeps it: one case for each action, with the lemma that treats it.
LEMMA NextInv == Inv /\ [Next]_vars => Inv'
  <1> SUFFICES ASSUME Inv, [Next]_vars PROVE Inv'
    OBVIOUS
  <1>1. ASSUME NEW u \in Users, NEW g \in Campaigns,
               \/ CreateCampaign(u, g) \/ DeleteCampaign(u, g)
               \/ MintInvite(u, g) \/ JoinByOldCode(u, g)
               \/ \E r \in Requests : LookForInvite(r, u, g)
               \/ \E c \in Characters : RollCharacter(u, g, c) \/ Enroll(u, c, g)
        PROVE  Inv'
    BY <1>1, CreateInv, DeleteInv, MintInv, OldCodeInv, LookInv, RollInv, EnrollInv
  <1>2. ASSUME NEW u \in Users, NEW i \in Invites,
               Revoke(u, i) \/ \E r \in Requests : JoinCheck(r, u, i)
        PROVE  Inv'
    BY <1>2, RevokeInv, JoinCheckInv
  <1>3. ASSUME NEW u \in Users, NEW c \in Characters,
               ReturnToRoster(u, c) \/ \E r \in Requests : EditSheet(r, u, c)
        PROVE  Inv'
    BY <1>3, ReturnInv, EditInv
  <1>4. ASSUME NEW i \in Invites, Expire(i)
        PROVE  Inv'
    BY <1>4, ExpireInv
  <1>5. ASSUME NEW c \in Characters,
               \/ RequestScene(c)
               \/ \E u \in Users : RequestPortrait(u, c)
               \/ \E g \in Campaigns : LinkPortrait(c, g)
        PROVE  Inv'
    BY <1>5, LinkInv, SameInv DEF RequestScene, RequestPortrait
  <1>6. ASSUME NEW g \in Campaigns, NEW h \in Campaigns, StoreScene(h, g)
        PROVE  Inv'
    BY <1>6, SceneInv
  <1>7. ASSUME NEW r \in Requests,
               MintFound(r) \/ JoinCommit(r) \/ SaveSheet(r) \/ Fail(r)
        PROVE  Inv'
    BY <1>7, MintFoundInv, JoinInv, SaveInv, FailInv
  <1>8. CASE UNCHANGED vars
    BY <1>8, SameInv DEF vars
  <1> QED BY <1>1, <1>2, <1>3, <1>4, <1>5, <1>6, <1>7, <1>8 DEF Next

\* The inductive invariant: the rows are typed and consistent, and what open requests have
\* read of the codes is still so or was told to them.
THEOREM CampaignsCorrect == Spec => []Inv
  BY InitInv, NextInv, PTL DEF Spec

\* A campaign has its owner as its one owner member; codes, members, characters and
\* portraits belong to campaigns that are there, whatever delete_campaign removes under an
\* open request (api/campaigns.py:delete_campaign, join_via_invite).
THEOREM RowsConsistent == Spec => []Consistent
  <1>1. Inv => Consistent
    BY DEF Inv
  <1> QED BY <1>1, CampaignsCorrect, PTL

\* Only a change during the request lets a used or revoked code in, or mints a second
\* open code (join_via_invite, get_or_mint_invite).
THEOREM StaleOnlyByOverlap == Spec => StaleByOverlapOnly
  <1>1. Inv => \A r \in Requests : req'[r] = Closed /\ invites' # invites =>
          /\ req[r].op = "join" => Unused(req[r].invite) \/ req[r].invite \in moved[r]
          /\ req[r].op = "mint" =>
               \A i \in Codes(req[r].campaign) : Active(i) => i \in moved[r]
    BY DEF Inv, Informed
  <1> QED BY <1>1, CampaignsCorrect, PTL DEF StaleByOverlapOnly

\* What a step may do to a code that is there before and after it.
LEMMA CodesStand ==
    ASSUME Inv, [Next]_vars, NEW i \in Invites, There(invites[i]), There(invites'[i])
    PROVE  /\ invites[i].revoked => invites'[i].revoked
           /\ invites[i].usedBy # Nobody => invites'[i].usedBy # Nobody
  <1> DEFINE Stands == /\ invites[i].revoked => invites'[i].revoked
                       /\ invites[i].usedBy # Nobody => invites'[i].usedBy # Nobody
  <1>0. invites \in [Invites -> InviteRows \union {Never, Gone}] /\ invites[i] \in InviteRows
    BY DEF Inv, Typed, There
  <1>1. CASE UNCHANGED invites
    BY <1>1
  <1>2. ASSUME NEW u \in Users, NEW g \in Campaigns, DeleteCampaign(u, g)
        PROVE  Stands
    BY <1>0, <1>2 DEF DeleteCampaign, There
  <1>3. ASSUME NEW g, NEW j \in Invites, invites[j] = Never,
               invites' = [invites EXCEPT ![j] = NewInvite(g)]
        PROVE  Stands
    BY <1>0, <1>3 DEF There
  <1>4. ASSUME NEW u \in Users, NEW j \in Invites, Revoke(u, j)
        PROVE  Stands
    BY <1>0, <1>4 DEF Revoke, InviteRows
  <1>5. ASSUME NEW j \in Invites, Expire(j)
        PROVE  Stands
    BY <1>0, <1>5 DEF Expire, InviteRows
  <1>6. ASSUME NEW r \in Requests, JoinCommit(r)
        PROVE  Stands
    <2>1. req[r].user \in Users /\ req[r].invite \in Invites
      BY <1>6, OfItsKind DEF JoinCommit, Inv
    <2>2. invites' = [invites EXCEPT ![req[r].invite] =
                        [invites[req[r].invite] EXCEPT !.usedBy = req[r].user]]
      BY <1>6 DEF JoinCommit, MarkUsed
    <2> QED BY <1>0, <2>1, <2>2, NamesAssumption DEF InviteRows
  <1>7. CASE \E u \in Users, g \in Campaigns : MintInvite(u, g)
    BY <1>3, <1>7 DEF MintInvite
  <1>8. CASE \E r \in Requests : MintFound(r)
    BY <1>3, <1>8 DEF MintFound
  <1>9. \/ UNCHANGED invites
        \/ \E u \in Users, g \in Campaigns : DeleteCampaign(u, g)
        \/ \E u \in Users, g \in Campaigns : MintInvite(u, g)
        \/ \E r \in Requests : MintFound(r)
        \/ \E u \in Users, j \in Invites : Revoke(u, j)
        \/ \E j \in Invites : Expire(j)
        \/ \E r \in Requests : JoinCommit(r)
    BY DEF Next, vars, rows, CreateCampaign, JoinByOldCode, LookForInvite, RollCharacter,
           Enroll, JoinCheck, ReturnToRoster, EditSheet, RequestScene, RequestPortrait,
           LinkPortrait, StoreScene, SaveSheet, Fail
  <1> QED BY <1>1, <1>2, <1>4, <1>5, <1>6, <1>7, <1>8, <1>9

\* An edit that is saved leaves the place and the portrait of its character as they are.
LEMMA EditsStand ==
    ASSUME Inv, [Next]_vars, NEW r \in Requests, req[r].op = "edit", chars' # chars,
           req'[r] = Closed
    PROVE  LET c == req[r].char IN
           chars'[c].at = chars[c].at /\ chars'[c].portrait = chars[c].portrait
  <1>0. req[r] # Closed
    BY DEF Closed
  <1>1. SaveSheet(r)
    <2>1. ASSUME NEW q \in Requests, SaveSheet(q)
          PROVE  q = r
      BY <1>0, <2>1 DEF SaveSheet, Close, Inv, Typed
    <2>2. \/ UNCHANGED chars
          \/ UNCHANGED req
          \/ \E q \in Requests : SaveSheet(q)
      BY DEF Next, vars, rows, CreateCampaign, DeleteCampaign, MintInvite, JoinByOldCode,
             LookForInvite, RollCharacter, Enroll, Revoke, JoinCheck, ReturnToRoster,
             EditSheet, Expire, RequestScene, RequestPortrait, LinkPortrait, StoreScene,
             MintFound, JoinCommit, Fail
    <2> QED BY <1>0, <2>1, <2>2
  <1>2. req[r].char \in Characters /\ chars[req[r].char] \in CharRows
    BY <1>1, OfItsKind, CharacterThere DEF SaveSheet, Inv
  <1>3. chars' = [chars EXCEPT ![req[r].char] =
                    [chars[req[r].char] EXCEPT !.notes = "written"]]
    BY <1>1 DEF SaveSheet, Noted
  <1> QED BY <1>2, <1>3 DEF CharRows, Inv, Typed

\* A redemption does not take back a revocation, a used code stays used, and an edit undoes
\* neither a move nor a portrait (join_via_invite, update_notes, update_appearance).
THEOREM NothingWrittenBack == Spec => RowsStand
  <1>1. Inv /\ [Next]_vars =>
          /\ \A i \in Invites : There(invites[i]) /\ There(invites'[i]) =>
               /\ invites[i].revoked => invites'[i].revoked
               /\ invites[i].usedBy # Nobody => invites'[i].usedBy # Nobody
          /\ \A r \in Requests : req[r].op = "edit" /\ chars' # chars /\ req'[r] = Closed =>
               LET c == req[r].char IN
               chars'[c].at = chars[c].at /\ chars'[c].portrait = chars[c].portrait
    BY CodesStand, EditsStand
  <1> QED BY <1>1, CampaignsCorrect, PTL DEF Spec, RowsStand
=============================================================================
