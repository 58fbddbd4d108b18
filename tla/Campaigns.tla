----------------------------- MODULE Campaigns -----------------------------
(***************************************************************************)
(* Campaigns, their members, invite codes and characters                   *)
(* (api/campaigns.py, api/characters.py), as requests of several users     *)
(* change them.  A request that decides by what it has read is two steps,  *)
(* its reads and its commit; the others are one, since the foreign keys    *)
(* refuse whatever a deletion in between has made impossible.              *)
(***************************************************************************)
EXTENDS FiniteSets, Naturals

CONSTANTS
    Campaigns,     \* campaign ids
    Invites,       \* invite ids; a code is the signed id of an invite
    Characters,    \* character ids
    Users,
    Requests,      \* requests that may be open at a time
    Grace,         \* the clock is before _LEGACY_GRACE_END
    Never,         \* a row not written yet
    Gone,          \* a row that is deleted
    Roster,        \* campaign_id NULL
    NoPortrait,    \* canonical_image_id NULL
    Nobody,        \* used_by NULL
    MaxAsked       \* bound: requests and other events of a behaviour

Roles == {"none", "player", "owner"}
InviteRows ==
    [campaign : Campaigns, usedBy : Users \union {Nobody}, revoked : BOOLEAN, expired : BOOLEAN]
CharRows ==
    [player : Users, at : Campaigns \union {Roster},
     portrait : Campaigns \union {NoPortrait}, notes : {"blank", "written"}]

ASSUME GraceAssumption == Grace \in BOOLEAN
ASSUME NamesAssumption ==
    /\ Never # Gone
    /\ Nobody \notin Users \union {Never, Gone}
    /\ {Never, Gone} \cap (Users \union InviteRows \union CharRows) = {}
    /\ Roster \notin Campaigns /\ NoPortrait \notin Campaigns
ASSUME BoundAssumption == MaxAsked \in Nat

VARIABLES
    owner,     \* campaigns.owner_id
    role,      \* campaign_members, "none" without a row
    invites,   \* campaign_invites
    chars,     \* characters; a portrait is the campaign its image belongs to
    derived,   \* <<g, h>>: an image of g has one of h as its source
    jobs,      \* image jobs in the queue or in the worker's hands
    onDelete,  \* the ON DELETE of characters.campaign_id in this database
    req,       \* the requests between their reads and their commit
    moved,     \* ghost: invites and characters changed since a request's reads
    asked

rows == <<owner, role, invites, chars, derived>>
vars == <<rows, jobs, onDelete, req, moved, asked>>

Closed == [op |-> "none"]
There(row) == row \notin {Never, Gone}

\* alembic keeps the CASCADE of phase 1 when it copies the table; the tests create
\* the tables from the models, which say SET NULL.
Init ==
    /\ owner = [g \in Campaigns |-> Never]
    /\ role = [g \in Campaigns |-> [u \in Users |-> "none"]]
    /\ invites = [i \in Invites |-> Never]
    /\ chars = [c \in Characters |-> Never]
    /\ derived = {}
    /\ jobs = {}
    /\ onDelete \in {"CASCADE", "SET NULL"}
    /\ req = [r \in Requests |-> Closed]
    /\ moved = [r \in Requests |-> {}]
    /\ asked = 0

Count == asked < MaxAsked /\ asked' = asked + 1

\* What a commit of r has changed is news to the other requests.
Tell(r, changed) ==
    moved' = [q \in Requests |-> IF q = r THEN {} ELSE moved[q] \union changed]

Told(changed) == moved' = [q \in Requests |-> moved[q] \union changed]

Open(r, record) ==
    /\ req[r] = Closed
    /\ req' = [req EXCEPT ![r] = record]
    /\ moved' = [moved EXCEPT ![r] = {}]
    /\ Count

Close(r) == req' = [req EXCEPT ![r] = Closed]

-----------------------------------------------------------------------------
(* Campaigns *)

CreateCampaign(u, g) ==
    /\ owner[g] = Never
    /\ Count
    /\ owner' = [owner EXCEPT ![g] = u]
    /\ role' = [role EXCEPT ![g][u] = "owner"]
    /\ UNCHANGED <<invites, chars, derived, onDelete, jobs, req, moved>>

In(g) == {c \in Characters : There(chars[c]) /\ chars[c].at = g}
Wearing(g) == {c \in Characters : There(chars[c]) /\ chars[c].portrait = g}
Codes(g) == {i \in Invites : There(invites[i]) /\ invites[i].campaign = g}

\* Foreign keys without an ON DELETE keep the images of g while a character that stays,
\* or an image of another campaign, refers to one.
Referred(g) ==
    \/ Wearing(g) \ (IF onDelete = "CASCADE" THEN In(g) ELSE {}) # {}
    \/ \E h \in Campaigns \ {g} : <<h, g>> \in derived

DeleteCampaign(u, g) ==
    /\ owner[g] = u
    /\ ~Referred(g)
    /\ Count
    /\ owner' = [owner EXCEPT ![g] = Gone]
    /\ role' = [role EXCEPT ![g] = [v \in Users |-> "none"]]
    /\ invites' = [i \in Invites |-> IF i \in Codes(g) THEN Gone ELSE invites[i]]
    /\ chars' = [c \in Characters |->
         IF c \notin In(g) THEN chars[c]
         ELSE IF onDelete = "CASCADE" THEN Gone ELSE [chars[c] EXCEPT !.at = Roster]]
    /\ derived' = {pair \in derived : pair[1] # g}
    /\ Told(Codes(g) \union In(g))
    /\ UNCHANGED <<onDelete, jobs, req>>

-----------------------------------------------------------------------------
(* Invites *)

NewInvite(g) == [campaign |-> g, usedBy |-> Nobody, revoked |-> FALSE, expired |-> FALSE]
Unused(i) == There(invites[i]) /\ ~invites[i].revoked /\ invites[i].usedBy = Nobody
Active(i) == Unused(i) /\ ~invites[i].expired

MintInvite(u, g) ==
    /\ role[g][u] = "owner"
    /\ Count
    /\ \E i \in Invites :
         /\ invites[i] = Never
         /\ invites' = [invites EXCEPT ![i] = NewInvite(g)]
         /\ Told({i})
    /\ UNCHANGED <<owner, role, chars, derived, onDelete, jobs, req>>

\* get_or_mint_invite returns an active invite if it finds one.
LookForInvite(r, u, g) ==
    /\ role[g][u] = "owner"
    /\ {i \in Codes(g) : Active(i)} = {}
    /\ Open(r, [op |-> "mint", campaign |-> g])
    /\ UNCHANGED <<rows, onDelete, jobs>>

MintFound(r) ==
    /\ req[r].op = "mint"
    /\ There(owner[req[r].campaign])
    /\ \E i \in Invites :
         /\ invites[i] = Never
         /\ invites' = [invites EXCEPT ![i] = NewInvite(req[r].campaign)]
         /\ Tell(r, {i})
    /\ Close(r)
    /\ UNCHANGED <<owner, role, chars, derived, onDelete, jobs, asked>>

Revoke(u, i) ==
    /\ There(invites[i])
    /\ role[invites[i].campaign][u] = "owner"
    /\ Count
    /\ invites' = [invites EXCEPT ![i].revoked = TRUE]
    /\ Told({i})
    /\ UNCHANGED <<owner, role, chars, derived, onDelete, jobs, req>>

\* Seven days have passed.
Expire(i) ==
    /\ There(invites[i]) /\ ~invites[i].expired
    /\ Count
    /\ invites' = [invites EXCEPT ![i].expired = TRUE]
    /\ UNCHANGED <<owner, role, chars, derived, onDelete, jobs, req, moved>>

\* Mutant of JoinCheck: used_at is not looked at.
JoinUsed(r, u, i) ==
    /\ There(invites[i]) /\ ~invites[i].revoked /\ ~invites[i].expired
    /\ Open(r, [op |-> "join", user |-> u, invite |-> i, row |-> invites[i]])
    /\ UNCHANGED <<rows, onDelete, jobs>>

\* join_via_invite has the row: not revoked, not expired, not used.
JoinCheck(r, u, i) ==
    /\ Active(i)
    /\ Open(r, [op |-> "join", user |-> u, invite |-> i, row |-> invites[i]])
    /\ UNCHANGED <<rows, onDelete, jobs>>

\* Mutant of MarkUsed: the whole row is written as it was read.
MarkAsRead(i, u, row) == [row EXCEPT !.usedBy = u]

\* The UPDATE names used_by and used_at alone.
MarkUsed(i, u, row) == [invites[i] EXCEPT !.usedBy = u]

\* Mutant of Enrolled: whoever redeems a code is a player.
EnrolledAnew(old) == "player"

\* Who is a member already keeps his role.
Enrolled(old) == IF old = "none" THEN "player" ELSE old

JoinCommit(r) ==
    /\ req[r].op = "join"
    /\ There(invites[req[r].invite])
    /\ LET i == req[r].invite
           u == req[r].user
       IN  /\ invites' = [invites EXCEPT ![i] = MarkUsed(i, u, req[r].row)]
           /\ role' = [role EXCEPT ![req[r].row.campaign][u] = Enrolled(@)]
           /\ Tell(r, {i})
    /\ Close(r)
    /\ UNCHANGED <<owner, chars, derived, onDelete, jobs, asked>>

\* A code of the time before invites had rows names a campaign.
JoinByOldCode(u, g) ==
    /\ Grace
    /\ There(owner[g])
    /\ Count
    /\ role' = [role EXCEPT ![g][u] = Enrolled(@)]
    /\ UNCHANGED <<owner, invites, chars, derived, onDelete, jobs, req, moved>>

-----------------------------------------------------------------------------
(* Characters *)

\* Character generation itself is Rules; here the row begins.
RollCharacter(u, g, c) ==
    /\ chars[c] = Never
    /\ role[g][u] # "none"
    /\ Count
    /\ chars' = [chars EXCEPT ![c] =
         [player |-> u, at |-> g, portrait |-> NoPortrait, notes |-> "blank"]]
    /\ UNCHANGED <<owner, role, invites, derived, onDelete, jobs, req, moved>>

Mine(u, c) == There(chars[c]) /\ chars[c].player = u

\* A character enrolled elsewhere is moved.
Enroll(u, c, g) ==
    /\ Mine(u, c)
    /\ role[g][u] # "none"
    /\ Count
    /\ chars' = [chars EXCEPT ![c].at = g]
    /\ Told({c})
    /\ UNCHANGED <<owner, role, invites, derived, onDelete, jobs, req>>

ReturnToRoster(u, c) ==
    /\ Mine(u, c)
    /\ Count
    /\ chars' = [chars EXCEPT ![c].at = Roster]
    /\ Told({c})
    /\ UNCHANGED <<owner, role, invites, derived, onDelete, jobs, req>>

\* Those of the roster are their player's, the others every member's to see.
Visible(u, c) ==
    /\ There(chars[c])
    /\ IF chars[c].at = Roster THEN chars[c].player = u ELSE role[chars[c].at][u] # "none"

\* update_notes and update_appearance: only the player may edit.
EditSheet(r, u, c) ==
    /\ Visible(u, c) /\ Mine(u, c)
    /\ Open(r, [op |-> "edit", char |-> c, row |-> chars[c]])
    /\ UNCHANGED <<rows, onDelete, jobs>>

\* The UPDATE names the sheet alone.
Noted(c, row) == [chars[c] EXCEPT !.notes = "written"]

SaveSheet(r) ==
    /\ req[r].op = "edit"
    /\ There(chars[req[r].char])
    /\ chars' = [chars EXCEPT ![req[r].char] = Noted(req[r].char, req[r].row)]
    /\ Tell(r, {req[r].char})
    /\ Close(r)
    /\ UNCHANGED <<owner, role, invites, derived, onDelete, jobs, asked>>

(* Images: the web process queues, the worker stores (module ImageWorker) *)

Portrait(c, g) == [kind |-> "portrait", of |-> c, campaign |-> g]
Scene(h, g) == [kind |-> "scene", of |-> h, campaign |-> g]

\* Any member of the campaign may order a portrait of a character in it.
RequestPortrait(u, c) ==
    /\ There(chars[c]) /\ chars[c].at # Roster
    /\ role[chars[c].at][u] # "none"
    /\ jobs' = jobs \union {Portrait(c, chars[c].at)}
    /\ UNCHANGED <<rows, onDelete, req, moved, asked>>

\* The DM of the campaign orders a scene edited from a portrait, here one that its
\* character brought along.
RequestScene(c) ==
    /\ There(chars[c]) /\ chars[c].at # Roster
    /\ chars[c].portrait \notin {NoPortrait, chars[c].at}
    /\ jobs' = jobs \union {Scene(chars[c].portrait, chars[c].at)}
    /\ UNCHANGED <<rows, onDelete, req, moved, asked>>

\* The row belongs to the campaign the job was ordered in and must find it; the character is
\* linked wherever it is by now.
LinkPortrait(c, g) ==
    /\ Portrait(c, g) \in jobs
    /\ There(owner[g]) /\ There(chars[c])
    /\ Count
    /\ chars' = [chars EXCEPT ![c].portrait = g]
    /\ jobs' = jobs \ {Portrait(c, g)}
    /\ Told({c})
    /\ UNCHANGED <<owner, role, invites, derived, onDelete, req>>

StoreScene(h, g) ==
    /\ Scene(h, g) \in jobs
    /\ There(owner[g]) /\ There(owner[h])
    /\ Count
    /\ derived' = derived \union {<<g, h>>}
    /\ jobs' = jobs \ {Scene(h, g)}
    /\ UNCHANGED <<owner, role, invites, chars, onDelete, req, moved>>

\* A constraint, the writer lock or the client ends a request: nothing is kept.
Fail(r) ==
    /\ req[r] # Closed
    /\ Close(r)
    /\ moved' = [moved EXCEPT ![r] = {}]
    /\ UNCHANGED <<rows, onDelete, jobs, asked>>

-----------------------------------------------------------------------------
Next ==
    \/ \E u \in Users, g \in Campaigns :
         \/ CreateCampaign(u, g) \/ DeleteCampaign(u, g)
         \/ MintInvite(u, g) \/ JoinByOldCode(u, g)
         \/ \E r \in Requests : LookForInvite(r, u, g)
         \/ \E c \in Characters : RollCharacter(u, g, c) \/ Enroll(u, c, g)
    \/ \E u \in Users, i \in Invites :
         Revoke(u, i) \/ \E r \in Requests : JoinCheck(r, u, i)
    \/ \E u \in Users, c \in Characters :
         ReturnToRoster(u, c) \/ \E r \in Requests : EditSheet(r, u, c)
    \/ \E i \in Invites : Expire(i)
    \/ \E c \in Characters :
         \/ RequestScene(c)
         \/ \E u \in Users : RequestPortrait(u, c)
         \/ \E g \in Campaigns : LinkPortrait(c, g)
    \/ \E g, h \in Campaigns : StoreScene(h, g)
    \/ \E r \in Requests : MintFound(r) \/ JoinCommit(r) \/ SaveSheet(r) \/ Fail(r)

Spec == Init /\ [][Next]_vars

-----------------------------------------------------------------------------
(* Properties *)

OwnersAlone ==
    \A g \in Campaigns :
        IF There(owner[g])
        THEN {u \in Users : role[g][u] = "owner"} = {owner[g]}
        ELSE \A u \in Users : role[g][u] = "none"

CodesOfMembers ==
    \A i \in Invites : There(invites[i]) =>
        /\ There(owner[invites[i].campaign])
        /\ invites[i].usedBy # Nobody => role[invites[i].campaign][invites[i].usedBy] # "none"

CharactersAtHome ==
    \A c \in Characters : There(chars[c]) =>
        /\ chars[c].at # Roster => role[chars[c].at][chars[c].player] # "none"
        /\ chars[c].portrait # NoPortrait => There(owner[chars[c].portrait])

ScenesOfCampaigns ==
    \A pair \in derived : There(owner[pair[1]]) /\ There(owner[pair[2]])

\* Whatever is deleted under an open request, every campaign has its owner as its one owner
\* member, and codes, members, characters and portraits belong to campaigns that are there:
\* a code is used by a member, a character plays where its player is a member.
Consistent == OwnersAlone /\ CodesOfMembers /\ CharactersAtHome /\ ScenesOfCampaigns

\* A code that is used or revoked lets somebody in, and a second open code is minted for
\* the page, only if the code was used, revoked or minted while the request was under way.
\* That much is left of the "Single-use" of models.py: redemptions that overlap all get in.
StaleByOverlapOnly ==
    [][\A r \in Requests : req'[r] = Closed /\ invites' # invites =>
          /\ req[r].op = "join" => Unused(req[r].invite) \/ req[r].invite \in moved[r]
          /\ req[r].op = "mint" =>
               \A i \in Codes(req[r].campaign) : Active(i) => i \in moved[r]]_vars

\* A request writes back no more than it is about: a redemption that overlaps a revocation does
\* not take it back, an edit that overlaps a move does not undo the move or the portrait, a
\* used code stays used.
RowsStand ==
    [][/\ \A i \in Invites : There(invites[i]) /\ There(invites'[i]) =>
            /\ invites[i].revoked => invites'[i].revoked
            /\ invites[i].usedBy # Nobody => invites'[i].usedBy # Nobody
       /\ \A r \in Requests : req[r].op = "edit" /\ chars' # chars /\ req'[r] = Closed =>
            LET c == req[r].char IN
            chars'[c].at = chars[c].at /\ chars'[c].portrait = chars[c].portrait]_vars

\* The migration's and delete_campaign's promise: deleting a campaign destroys no character.
CharactersReturn ==
    [][\A c \in Characters : There(chars[c]) => There(chars'[c])]_vars
=============================================================================
