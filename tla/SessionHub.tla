----------------------------- MODULE SessionHub -----------------------------
(***************************************************************************)
(* The table's WebSocket hub (api/ws.py): a connection joins the presence  *)
(* registry (realtime/presence.py), is sent a snapshot, subscribes to the  *)
(* session's channel (realtime/pubsub.py) and leaves again.  Beside it the *)
(* DM's turns store rows of session_messages and publish them one by one.  *)
(*                                                                         *)
(* A row is its index in session_messages.  A connection stands for one    *)
(* WebSocket; a client that reconnects is another one.  What a connection  *)
(* has no more use for is emptied, to keep the state small.                *)
(***************************************************************************)
EXTENDS Lists, Naturals

CONSTANTS
    Conns,       \* WebSockets
    Users,
    Chars,       \* characters of the campaign
    Owner,       \* the user who plays each character
    Limit,       \* _SNAPSHOT_MSG_LIMIT
    MaxRows      \* bound: messages stored

ASSUME OwnerAssumption == Owner \in [Chars -> Users]
ASSUME MaxRowsAssumption == MaxRows \in Nat /\ Limit \in Nat

Everyone == "everyone"      \* audience []
Dm == "dm"                  \* audience ["dm"]
\* The id of a character is a generated one, never the word "dm".
ASSUME CharsAssumption == Dm \notin Chars
Audiences == Chars \cup {Everyone, Dm}
Ids == 1..MaxRows

VARIABLES
    user,        \* who is behind each connection
    enrolled,    \* characters in the campaign
    rows,        \* session_messages: the audience of each
    due,         \* the row its turn has still to publish, or 0
    lost,        \* rows that are never published
    present,     \* the registry
    at,          \* where session_socket is
    sub,         \* its _subscriber_task
    visible,     \* visible_character_ids
    read,        \* rows there were when its snapshot was built
    roster,      \* roster in hand, to publish or to send
    inbox,       \* frames the channel holds for the subscriber
    gap,         \* ghost: rows published between its snapshot's query and its subscription
    behind,      \* ghost: connections whose last news of the roster was lost or overtaken
    log,         \* rows the client shows, in order
    shown        \* roster the client shows

world == <<user, enrolled>>
turn == <<rows, due, lost>>
view == <<log, shown>>
ghosts == <<gap, behind>>
vars == <<world, turn, present, at, sub, visible, read, roster, inbox, ghosts, view>>

\* session_socket, in order.  "leaving" starts the finally block; "gone" is the
\* end, and "vanished" the end without the finally block.
Places == {"off", "joining", "announced", "reading", "sending", "live", "leaving",
           "left", "gone", "vanished"}

UsersOf(cs) == {user[c] : c \in cs}
CharsOf(c) == {ch \in enrolled : Owner[ch] = user[c]}
MaySee(c, audience) == audience = Everyone \/ audience \in visible[c]

RowFrame(id) == [row |-> id]
RosterFrame(users) == [roster |-> users]
IsRow(frame) == "row" \in DOMAIN frame

Init ==
    /\ user \in [Conns -> Users]
    /\ enrolled \in SUBSET Chars
    /\ rows = <<>>
    /\ due = 0
    /\ lost = {}
    /\ present = {}
    /\ at = [c \in Conns |-> "off"]
    /\ sub = [c \in Conns |-> "off"]
    /\ visible = [c \in Conns |-> {}]
    /\ read = [c \in Conns |-> 0]
    /\ roster = [c \in Conns |-> {}]
    /\ inbox = [c \in Conns |-> <<>>]
    /\ gap = [c \in Conns |-> {}]
    /\ behind = {}
    /\ log = [c \in Conns |-> <<>>]
    /\ shown = [c \in Conns |-> {}]

Go(c, place) == at' = [at EXCEPT ![c] = place]

\* Pubsub.publish: the frame reaches whoever is subscribed now.
Publish(frame) ==
    inbox' = [c \in Conns |-> IF sub[c] = "on" THEN Append(inbox[c], frame) ELSE inbox[c]]

-----------------------------------------------------------------------------
(* Beside the hub: characters, and the turns of the session *)

\* roll_character, or enroll_character, while the table is open.
Enroll(ch) ==
    /\ ch \notin enrolled
    /\ enrolled' = enrolled \cup {ch}
    /\ UNCHANGED <<user, turn, present, at, sub, visible, read, roster, inbox, view, ghosts>>

\* A turn commits a row, and only then publishes what it has of it: a narration or
\* a whisper; the session lock keeps a second one away until it has.  The whisper
\* tool takes the id of any character.
StoreRow(audience) ==
    /\ due = 0
    /\ Len(rows) < MaxRows
    /\ audience # Dm
    /\ rows' = Append(rows, audience)
    /\ due' = Len(rows')
    /\ UNCHANGED <<world, lost, present, at, sub, visible, read, roster, inbox, view, ghosts>>

\* Read too late for the snapshot, published too early for the subscription.
Misses(c, id) ==
    \/ at[c] \in {"reading", "sending"} /\ read[c] < id
    \/ sub[c] = "starting" /\ id \notin {log[c][i] : i \in DOMAIN log[c]}

PublishRow ==
    /\ due # 0
    /\ Publish(RowFrame(due))
    /\ due' = 0
    /\ gap' = [c \in Conns |-> IF Misses(c, due) THEN gap[c] \cup {due} ELSE gap[c]]
    /\ UNCHANGED <<world, rows, lost, present, at, sub, visible, read, roster, view, behind>>

\* The publish fails, or the turn is cancelled first, or the row has no frame of
\* its own: a player's line is echoed before it is stored, and a change of place
\* is told as a change of state.
SilenceRow ==
    /\ due # 0
    /\ lost' = lost \cup {due}
    /\ due' = 0
    /\ UNCHANGED <<world, rows, present, at, sub, visible, read, roster, inbox, view, ghosts>>

\* whisper_to_dm is stored at once, outside the session lock, for the DM alone.
WhisperToDm(c) ==
    /\ at[c] = "live"
    /\ Len(rows) < MaxRows
    /\ rows' = Append(rows, Dm)
    /\ lost' = lost \cup {Len(rows')}
    /\ UNCHANGED <<world, due, present, at, sub, visible, read, roster, inbox, view, ghosts>>

-----------------------------------------------------------------------------
(* session_socket *)

\* Mutant of Connect: two tabs of a player share one entry, the first's.
ConnectOncePerUser(c) ==
    /\ at[c] = "off"
    /\ visible' = [visible EXCEPT ![c] = CharsOf(c)]
    /\ present' = IF user[c] \in UsersOf(present) THEN present ELSE present \cup {c}
    /\ roster' = [roster EXCEPT ![c] = UsersOf(present')]
    /\ Go(c, "joining")
    /\ UNCHANGED <<world, turn, sub, read, inbox, view, ghosts>>

\* The membership check found the user's characters; presence.connect.
Connect(c) ==
    /\ at[c] = "off"
    /\ visible' = [visible EXCEPT ![c] = CharsOf(c)]
    /\ present' = present \cup {c}
    /\ roster' = [roster EXCEPT ![c] = UsersOf(present')]
    /\ Go(c, "joining")
    /\ UNCHANGED <<world, turn, sub, read, inbox, view, ghosts>>

\* Whoever has been read a roster, or shows one, and hears of the next.
Informed == {c \in Conns : at[c] \in {"sending", "live"}}
Unsubscribed(c) == at[c] = "sending" \/ sub[c] = "starting"
InHand(c) == IF at[c] = "sending" THEN roster[c] ELSE shown[c]

\* Rosters are computed under the registry's lock and published outside it.
Announcing(c) == at[c] \in {"joining", "left"}
Newest(c) == Announcing(c) /\ roster[c] = UsersOf(present)

\* The announcement of c is published: those that do not subscribe yet miss it, and
\* those that do are left with it, be it the newest or one that a newer overtook.
Announce(c) ==
    /\ Publish(RosterFrame(roster[c]))
    /\ LET subscribed == {d \in Conns : sub[d] = "on"}
           missing == {d \in Informed : Unsubscribed(d) /\ InHand(d) # roster[c]}
       IN  behind' = IF Newest(c) THEN (behind \ subscribed) \cup missing
                     ELSE IF \E d \in Conns \ {c} : Newest(d) THEN behind
                     ELSE behind \cup subscribed

AnnounceJoin(c) ==
    /\ at[c] = "joining"
    /\ \/ /\ Announce(c)
          /\ Go(c, "announced")
          /\ UNCHANGED present
       \/ /\ present' = present \ {c}
          /\ Go(c, "gone")
          /\ behind' = behind \cup Informed
          /\ UNCHANGED inbox
    /\ roster' = [roster EXCEPT ![c] = {}]
    /\ UNCHANGED <<world, turn, sub, visible, read, view, gap>>

\* _build_snapshot: the rows as they are now.
ReadRows(c) ==
    /\ at[c] = "announced"
    /\ read' = [read EXCEPT ![c] = Len(rows)]
    /\ Go(c, "reading")
    /\ UNCHANGED <<world, turn, present, sub, visible, roster, inbox, view, ghosts>>

\* The newest Limit rows of those, and of them what the user may see.
InWindow(c, id) == id + Limit > read[c]
ReadableBy(c) == InOrder({id \in 1..read[c] : InWindow(c, id) /\ MaySee(c, rows[id])})

\* The roster is read last.
ReadRoster(c) ==
    /\ at[c] = "reading"
    /\ roster' = [roster EXCEPT ![c] = UsersOf(present)]
    /\ Go(c, "sending")
    /\ UNCHANGED <<world, turn, present, sub, visible, read, inbox, view, ghosts>>

\* Mutant of SendSnapshot: the history is sent as it is.
SendSnapshotWhole(c) ==
    /\ at[c] = "sending"
    /\ log' = [log EXCEPT ![c] = [id \in 1..read[c] |-> id]]
    /\ shown' = [shown EXCEPT ![c] = roster[c]]
    /\ roster' = [roster EXCEPT ![c] = {}]
    /\ sub' = [sub EXCEPT ![c] = "starting"]
    /\ Go(c, "live")
    /\ UNCHANGED <<world, turn, present, visible, read, inbox, ghosts>>

\* The database is closed and the snapshot sent, from which the client rebuilds its
\* log.  The subscriber task is started and the receive loop entered.
SendSnapshot(c) ==
    /\ at[c] = "sending"
    /\ log' = [log EXCEPT ![c] = ReadableBy(c)]
    /\ shown' = [shown EXCEPT ![c] = roster[c]]
    /\ roster' = [roster EXCEPT ![c] = {}]
    /\ sub' = [sub EXCEPT ![c] = "starting"]
    /\ Go(c, "live")
    /\ UNCHANGED <<world, turn, present, visible, read, inbox, ghosts>>

\* A query, the close or the send raised, the client having gone: the handler is left
\* before the try whose finally removes the presence entry.
SnapshotFails(c) ==
    /\ at[c] \in {"announced", "reading", "sending"}
    /\ Go(c, "vanished")
    /\ read' = [read EXCEPT ![c] = 0]
    /\ roster' = [roster EXCEPT ![c] = {}]
    /\ visible' = [visible EXCEPT ![c] = {}]
    /\ gap' = [gap EXCEPT ![c] = {}]
    /\ behind' = behind \ {c}
    /\ UNCHANGED <<world, turn, present, sub, inbox, view>>

\* Mutant of Subscribe: the connection subscribes before it reads the rows.
SubscribeFirst(c) ==
    /\ at[c] \in {"announced", "reading", "sending", "live"}
    /\ sub[c] \in {"off", "starting"}
    /\ \E outcome \in {"on", "dead"} : sub' = [sub EXCEPT ![c] = outcome]
    /\ UNCHANGED <<world, turn, present, at, visible, read, roster, inbox, view, ghosts>>

\* Pubsub.subscribe, or its DmPubsubError.
Subscribe(c) ==
    /\ sub[c] = "starting"
    /\ \E outcome \in {"on", "dead"} : sub' = [sub EXCEPT ![c] = outcome]
    /\ UNCHANGED <<world, turn, present, at, visible, read, roster, inbox, view, ghosts>>

\* The channel's connection is lost: the task ends, the socket stays open.
SubscriberDies(c) ==
    /\ sub[c] = "on"
    /\ sub' = [sub EXCEPT ![c] = "dead"]
    /\ inbox' = [inbox EXCEPT ![c] = <<>>]
    /\ UNCHANGED <<world, turn, present, at, visible, read, roster, view, ghosts>>

\* _subscriber_task forwards a frame, unless it is a whisper to someone else.
Forward(c) ==
    /\ sub[c] = "on"
    /\ inbox[c] # <<>>
    /\ LET frame == Head(inbox[c])
       IN  CASE IsRow(frame) /\ MaySee(c, rows[frame.row]) ->
                    log' = [log EXCEPT ![c] = Append(@, frame.row)] /\ UNCHANGED shown
             [] IsRow(frame) /\ ~MaySee(c, rows[frame.row]) -> UNCHANGED view
             [] ~IsRow(frame) ->
                    shown' = [shown EXCEPT ![c] = frame.roster] /\ UNCHANGED log
    /\ inbox' = [inbox EXCEPT ![c] = Tail(@)]
    /\ UNCHANGED <<world, turn, present, at, sub, visible, read, roster, ghosts>>

\* The client closes, or an inbound frame's publish raised: the finally block
\* cancels the subscriber.
Disconnect(c) ==
    /\ at[c] = "live"
    /\ Go(c, "leaving")
    /\ sub' = [sub EXCEPT ![c] = "off"]
    /\ inbox' = [inbox EXCEPT ![c] = <<>>]
    /\ log' = [log EXCEPT ![c] = <<>>]
    /\ shown' = [shown EXCEPT ![c] = {}]
    /\ visible' = [visible EXCEPT ![c] = {}]
    /\ read' = [read EXCEPT ![c] = 0]
    /\ gap' = [gap EXCEPT ![c] = {}]
    /\ behind' = behind \ {c}
    /\ UNCHANGED <<world, turn, present, roster>>

\* Mutant of Leave: the entry goes only once nothing is left to forward.
LeaveLater(c) ==
    /\ at[c] = "leaving"
    /\ \A d \in present \ {c} : inbox[d] = <<>> /\ sub[d] # "dead"
    /\ present' = present \ {c}
    /\ roster' = [roster EXCEPT ![c] = UsersOf(present')]
    /\ Go(c, "left")
    /\ UNCHANGED <<world, turn, sub, visible, read, inbox, view, ghosts>>

\* Mutant of Leave: the roster is rendered before the entry is taken out.
LeaveRendered(c) ==
    /\ at[c] = "leaving"
    /\ present' = present \ {c}
    /\ roster' = [roster EXCEPT ![c] = UsersOf(present)]
    /\ Go(c, "left")
    /\ UNCHANGED <<world, turn, sub, visible, read, inbox, view, ghosts>>

\* presence.disconnect.
Leave(c) ==
    /\ at[c] = "leaving"
    /\ present' = present \ {c}
    /\ roster' = [roster EXCEPT ![c] = UsersOf(present')]
    /\ Go(c, "left")
    /\ UNCHANGED <<world, turn, sub, visible, read, inbox, view, ghosts>>

\* A failed publish is logged.
AnnounceLeave(c) ==
    /\ at[c] = "left"
    /\ \/ Announce(c)
       \/ behind' = behind \cup Informed /\ UNCHANGED inbox
    /\ Go(c, "gone")
    /\ roster' = [roster EXCEPT ![c] = {}]
    /\ UNCHANGED <<world, turn, present, sub, visible, read, view, gap>>

-----------------------------------------------------------------------------
Serve(c) == \/ AnnounceJoin(c) \/ ReadRows(c) \/ ReadRoster(c) \/ SendSnapshot(c)
            \/ Subscribe(c) \/ Forward(c)
            \/ Leave(c) \/ AnnounceLeave(c)

Next == \/ \E ch \in Chars : Enroll(ch)
        \/ \E audience \in Audiences : StoreRow(audience)
        \/ PublishRow \/ SilenceRow
        \/ \E c \in Conns : \/ WhisperToDm(c) \/ Connect(c) \/ SnapshotFails(c)
                            \/ SubscriberDies(c) \/ Disconnect(c) \/ Serve(c)

Spec == Init /\ [][Next]_vars

\* The hub's own awaits return: publishing and reading fail or succeed.
FairSpec == Spec /\ \A c \in Conns : WF_vars(Serve(c))

-----------------------------------------------------------------------------
(* Properties *)

Frames == [row: Ids] \cup [roster: SUBSET Users]

TypeOK ==
    /\ user \in [Conns -> Users]
    /\ enrolled \subseteq Chars
    /\ rows \in Seq(Audiences) /\ Len(rows) <= MaxRows
    /\ due \in 0..Len(rows)
    /\ lost \subseteq Ids
    /\ present \subseteq Conns
    /\ at \in [Conns -> Places]
    /\ sub \in [Conns -> {"off", "starting", "on", "dead"}]
    /\ visible \in [Conns -> SUBSET Chars]
    /\ read \in [Conns -> 0..MaxRows]
    /\ roster \in [Conns -> SUBSET Users]
    /\ inbox \in [Conns -> Seq(Frames)]
    /\ log \in [Conns -> Seq(Ids)]
    /\ shown \in [Conns -> SUBSET Users]
    /\ gap \in [Conns -> SUBSET Ids]
    /\ behind \subseteq Conns

Elements(s) == {s[i] : i \in DOMAIN s}
Connected(c) == at[c] \notin {"off", "gone", "vanished", "left"}

\* A whisper is shown to nobody but the player of the character it is for, and
\* a whisper to the DM to nobody, by the snapshot and by the stream alike
\* (ws.py: "a client never sees a whisper not addressed to its user").
WhispersPrivate ==
    \A c \in Conns : \A id \in Elements(log[c]) :
        rows[id] = Everyone \/ (rows[id] \in Chars /\ Owner[rows[id]] = user[c])

\* The snapshot and the stream join in order: a client never shows a row after
\* a later one, and shows none more than twice (a row stored before the snapshot
\* and published after it comes again).
ShownInOrder ==
    \A c \in Conns : /\ \A i, j \in DOMAIN log[c] : i < j => log[c][i] <= log[c][j]
                     /\ \A i \in 1..Len(log[c]) - 2 : log[c][i] < log[c][i + 2]

\* A client whose subscription is up has, or is about to have, every row it may see, except
\* those that were older than its snapshot's window and those published between its
\* snapshot's query and its subscription: session_socket reads first and subscribes then.
MissedInGapOnly ==
    \A c \in Conns : at[c] = "live" /\ sub[c] = "on" =>
        \A id \in DOMAIN rows :
            MaySee(c, rows[id]) /\ InWindow(c, id) /\ id # due /\ id \notin lost \cup gap[c] =>
                \/ id \in Elements(log[c])
                \/ RowFrame(id) \in Elements(inbox[c])

\* Both together: from its snapshot's window on, the client's log is the session's but
\* for the gap.
LogTrue == ShownInOrder /\ MissedInGapOnly

\* The registry names the connections that are served (presence.py: "who is currently
\* connected to which session"), and beside them only the ghosts: connections whose
\* snapshot failed, which nothing removes until the process ends.
RegistryExact == present = {c \in Conns : Connected(c) \/ at[c] = "vanished"}

\* The registry is right, in a hub whose state is well formed.
RosterInv == TypeOK /\ RegistryExact

\* When its inbox is through, the client shows these users.
WillShow(c, users) ==
    \/ shown[c] = users /\ \A k \in DOMAIN inbox[c] : IsRow(inbox[c][k])
    \/ \E k \in DOMAIN inbox[c] :
          /\ inbox[c][k] = RosterFrame(users)
          /\ \A l \in DOMAIN inbox[c] : k < l => IsRow(inbox[c][l])

\* The table converges on the registry (presence.py: "so every connected client
\* converges on the same view of the table"): unless the announcement that tells it is
\* still to be published, a subscribed client shows, or is about to show, who is in the
\* registry.  Three kinds of client are left behind until the next announcement: the
\* announcement fell between its roster's reading and its subscription, or was
\* overtaken by the one of a later change, or failed.
RosterFollows ==
    \A c \in Conns : at[c] = "live" /\ sub[c] = "on" /\ c \notin behind =>
        WillShow(c, UsersOf(present)) \/ \E d \in Conns : Newest(d)

\* A connection that ends through session_socket's finally block gives up its
\* place in the registry; one whose snapshot fails ends outside it and does not.
LeaversGo == \A c \in Conns : at[c] = "leaving" ~> c \notin present

=============================================================================
