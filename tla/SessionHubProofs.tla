-------------------------- MODULE SessionHubProofs --------------------------
(***************************************************************************)
(* For any connections, players, characters and messages: whispers stay    *)
(* private, the registry is exact and the clients follow it, and snapshot  *)
(* and stream make one log.  The argument is per connection: its log, the  *)
(* frames it has still to forward and the row a turn has still to publish  *)
(* follow one another, and what it could not know of was published in its  *)
(* gap.                                                                    *)
(***************************************************************************)
EXTENDS SessionHub, SequenceLemmas

\* Where a connection is in its life says what it can hold.
Stages(c) ==
    /\ at[c] # "live" => sub[c] = "off" /\ log[c] = <<>>
    /\ sub[c] # "on" => inbox[c] = <<>>
    /\ read[c] <= Len(rows)
    /\ \A ch \in visible[c] : Owner[ch] = user[c]

Mine(c, audience) == audience = Everyone \/ (audience \in Chars /\ Owner[audience] = user[c])

SeenIsMine(c) ==
    \A i \in DOMAIN log[c] : log[c][i] \in DOMAIN rows /\ Mine(c, rows[log[c][i]])

\* The row could be shown now: it is none but perhaps the last one again.
Follows(c, id) ==
    \A i \in DOMAIN log[c] : log[c][i] <= id /\ (i < Len(log[c]) => log[c][i] < id)

LogOrdered(c) ==
    \A i, j \in DOMAIN log[c] :
        i < j => log[c][i] <= log[c][j] /\ (i + 1 < j => log[c][i] < log[c][j])

\* The rows in the stream follow the log and one another, and the due row them.
Streamed(c) ==
    \A k \in DOMAIN inbox[c] : IsRow(inbox[c][k]) =>
        /\ inbox[c][k].row \in DOMAIN rows
        /\ due # 0 => inbox[c][k].row < due
        /\ Follows(c, inbox[c][k].row)
        /\ \A l \in DOMAIN inbox[c] :
              k < l /\ IsRow(inbox[c][l]) => inbox[c][k].row < inbox[c][l].row

DueFollows(c) == due # 0 => Follows(c, due)

\* Behind the due row there are whispers to the DM alone, which nobody is shown.
DueLast == due # 0 => \A id \in DOMAIN rows : id > due => rows[id] = Dm

\* Between its query and its snapshot, a connection lacks only what it must.
Unread(c) ==
    at[c] \in {"reading", "sending"} =>
        \A id \in DOMAIN rows : id > read[c] /\ id # due => id \in lost \cup gap[c]

NothingMissed(c) ==
    at[c] = "live" /\ sub[c] \in {"starting", "on"} =>
        \A id \in DOMAIN rows :
            MaySee(c, rows[id]) /\ InWindow(c, id) /\ id # due /\ id \notin lost \cup gap[c] =>
                \/ id \in Elements(log[c])
                \/ RowFrame(id) \in Elements(inbox[c])

ConnInv(c) ==
    /\ Stages(c) /\ SeenIsMine(c) /\ LogOrdered(c) /\ Streamed(c)
    /\ DueFollows(c) /\ Unread(c) /\ NothingMissed(c)

Inv == TypeOK /\ RegistryExact /\ DueLast /\ \A c \in Conns : ConnInv(c)

-----------------------------------------------------------------------------
(* Types *)

\* What frames are made of.
LEMMA FrameFacts ==
    /\ \A id \in Ids : RowFrame(id) \in Frames /\ IsRow(RowFrame(id)) /\ RowFrame(id).row = id
    /\ \A users \in SUBSET Users :
          RosterFrame(users) \in Frames /\ ~IsRow(RosterFrame(users))
    /\ \A f \in Frames : IsRow(f) => f.row \in Ids /\ f = RowFrame(f.row)
    /\ \A f \in Frames : ~IsRow(f) => f.roster \in SUBSET Users
  <1>1. \A id \in Ids : RowFrame(id) \in [row : Ids] /\ IsRow(RowFrame(id)) /\ RowFrame(id).row = id
    BY DEF RowFrame, IsRow
  <1>2. \A users \in SUBSET Users :
          RosterFrame(users) \in [roster : SUBSET Users] /\ ~IsRow(RosterFrame(users))
    BY DEF RosterFrame, IsRow
  <1>3. \A f \in [row : Ids] : IsRow(f) /\ f.row \in Ids /\ f = RowFrame(f.row)
    BY DEF IsRow, RowFrame
  <1>4. \A f \in [roster : SUBSET Users] : ~IsRow(f) /\ f.roster \in SUBSET Users
    BY DEF IsRow
  <1>5. \A f \in Frames : f \in [row : Ids] \/ f \in [roster : SUBSET Users]
    BY DEF Frames
  <1>6. [row : Ids] \subseteq Frames /\ [roster : SUBSET Users] \subseteq Frames
    BY DEF Frames
  <1> QED BY <1>1, <1>2, <1>3, <1>4, <1>5, <1>6

\* The types, one by one, and the entries of the lists.
LEMMA Typed ==
    ASSUME Inv
    PROVE  /\ user \in [Conns -> Users] /\ enrolled \subseteq Chars
           /\ rows \in Seq(Audiences) /\ Len(rows) \in Nat /\ DOMAIN rows = 1..Len(rows)
           /\ MaxRows \in Nat /\ Len(rows) <= MaxRows /\ DOMAIN rows \subseteq Ids
           /\ Ids \subseteq Nat
           /\ due \in Nat /\ due <= Len(rows) /\ (due # 0 => due \in DOMAIN rows /\ due \in Ids)
           /\ lost \subseteq Ids /\ present \subseteq Conns
           /\ at \in [Conns -> Places]
           /\ sub \in [Conns -> {"off", "starting", "on", "dead"}]
           /\ visible \in [Conns -> SUBSET Chars]
           /\ read \in [Conns -> 0..MaxRows] /\ \A c \in Conns : read[c] \in Nat
           /\ roster \in [Conns -> SUBSET Users] /\ shown \in [Conns -> SUBSET Users]
           /\ inbox \in [Conns -> Seq(Frames)] /\ log \in [Conns -> Seq(Ids)]
           /\ gap \in [Conns -> SUBSET Ids] /\ behind \subseteq Conns /\ Limit \in Nat
           /\ \A c \in Conns :
                /\ inbox[c] \in Seq(Frames) /\ Len(inbox[c]) \in Nat
                /\ DOMAIN inbox[c] = 1..Len(inbox[c])
                /\ \A k \in DOMAIN inbox[c] : inbox[c][k] \in Frames
                /\ log[c] \in Seq(Ids) /\ Len(log[c]) \in Nat
                /\ DOMAIN log[c] = 1..Len(log[c])
                /\ \A i \in DOMAIN log[c] : log[c][i] \in Ids /\ log[c][i] \in Nat
  <1>1. TypeOK /\ MaxRows \in Nat /\ Limit \in Nat /\ Ids \subseteq Nat
    BY MaxRowsAssumption DEF Inv, Ids
  <1>2. /\ rows \in Seq(Audiences) /\ Len(rows) \in Nat /\ DOMAIN rows = 1..Len(rows)
        /\ Len(rows) <= MaxRows /\ DOMAIN rows \subseteq Ids
        /\ due \in Nat /\ due <= Len(rows) /\ (due # 0 => due \in DOMAIN rows /\ due \in Ids)
    BY <1>1 DEF TypeOK, Ids
  <1>3. /\ inbox \in [Conns -> Seq(Frames)] /\ log \in [Conns -> Seq(Ids)]
    BY <1>1 DEF TypeOK
  <1>4. \A c \in Conns :
                /\ inbox[c] \in Seq(Frames) /\ Len(inbox[c]) \in Nat
                /\ DOMAIN inbox[c] = 1..Len(inbox[c])
                /\ \A k \in DOMAIN inbox[c] : inbox[c][k] \in Frames
                /\ log[c] \in Seq(Ids) /\ Len(log[c]) \in Nat
                /\ DOMAIN log[c] = 1..Len(log[c])
                /\ \A i \in DOMAIN log[c] : log[c][i] \in Ids
    BY <1>3
  <1>5. \A c \in Conns : read[c] \in Nat
    BY <1>1 DEF TypeOK
  <1> QED BY <1>1, <1>2, <1>3, <1>4, <1>5 DEF TypeOK

\* The first state satisfies the invariant.
LEMMA InitInv == Init => Inv
  <1> SUFFICES ASSUME Init PROVE Inv
    OBVIOUS
  <1>1. TypeOK
    BY MaxRowsAssumption DEF Init, TypeOK, Places
  <1>2. RegistryExact /\ DueLast
    BY DEF Init, RegistryExact, Connected, DueLast
  <1>3. ASSUME NEW c \in Conns PROVE ConnInv(c)
    BY DEF Init, ConnInv, Stages, SeenIsMine, LogOrdered, Streamed, DueFollows, Unread, NothingMissed
  <1> QED BY <1>1, <1>2, <1>3 DEF Inv

-----------------------------------------------------------------------------
(* What one connection's invariant is left as by the others *)

\* At most a roster comes in, and the connection does not start or end a phase
\* that shows something.
LEMMA RosterComes ==
    ASSUME Inv, NEW d \in Conns, UNCHANGED <<user, rows, due, lost>>,
           sub'[d] = sub[d], visible'[d] = visible[d], read'[d] = read[d],
           gap'[d] = gap[d], log'[d] = log[d],
           \/ at'[d] = at[d]
           \/ at[d] \notin {"reading", "sending", "live"} /\ at'[d] \notin {"reading", "sending", "live"},
           \/ inbox'[d] = inbox[d]
           \/ /\ sub[d] = "on"
              /\ \E users \in SUBSET Users : inbox'[d] = Append(inbox[d], RosterFrame(users))
    PROVE  ConnInv(d)'
  <1>0. ConnInv(d) /\ user' = user /\ rows' = rows /\ due' = due /\ lost' = lost
    BY DEF Inv
  <1>1. Stages(d)'
    BY <1>0 DEF ConnInv, Stages
  <1>2. SeenIsMine(d)' /\ LogOrdered(d)' /\ DueFollows(d)' /\ Unread(d)'
    BY <1>0 DEF ConnInv, SeenIsMine, Mine, LogOrdered, DueFollows, Follows, Unread
  <1>3. /\ DOMAIN inbox[d] \subseteq DOMAIN inbox'[d]
        /\ \A k \in DOMAIN inbox[d] : inbox'[d][k] = inbox[d][k]
        /\ \A k \in DOMAIN inbox'[d] : k \in DOMAIN inbox[d] \/ ~IsRow(inbox'[d][k])
    <2>1. CASE inbox'[d] = inbox[d]
      BY <2>1
    <2>2. ASSUME NEW users \in SUBSET Users, inbox'[d] = Append(inbox[d], RosterFrame(users))
          PROVE  /\ DOMAIN inbox[d] \subseteq DOMAIN inbox'[d]
                 /\ \A k \in DOMAIN inbox[d] : inbox'[d][k] = inbox[d][k]
                 /\ \A k \in DOMAIN inbox'[d] : k \in DOMAIN inbox[d] \/ ~IsRow(inbox'[d][k])
      BY <2>2, Typed, FrameFacts, AppendElements
    <2> QED BY <2>1, <2>2
  <1>4. Streamed(d)'
    BY <1>0, <1>3 DEF ConnInv, Streamed, Follows
  <1>5. NothingMissed(d)'
    BY <1>0, <1>3 DEF ConnInv, NothingMissed, Elements, MaySee, InWindow
  <1> QED BY <1>1, <1>2, <1>4, <1>5 DEF ConnInv

\* A row is stored: it is due, or lost from the start.
LEMMA RowStored ==
    ASSUME Inv, NEW audience \in Audiences, Len(rows) < MaxRows,
           rows' = Append(rows, audience),
           \/ due = 0 /\ due' = Len(rows) + 1 /\ lost' = lost /\ audience # Dm
           \/ due' = due /\ lost' = lost \cup {Len(rows) + 1} /\ audience = Dm,
           UNCHANGED <<world, present, at, sub, visible, read, roster, inbox, view, ghosts>>
    PROVE  Inv'
  <1>0. /\ user' = user /\ enrolled' = enrolled /\ present' = present /\ at' = at /\ sub' = sub
        /\ visible' = visible /\ read' = read /\ roster' = roster /\ inbox' = inbox
        /\ log' = log /\ shown' = shown /\ gap' = gap /\ behind' = behind
    BY DEF world, view, ghosts
  <1>1. /\ Len(rows) \in Nat /\ DOMAIN rows = 1..Len(rows)
        /\ rows' \in Seq(Audiences) /\ Len(rows') = Len(rows) + 1
        /\ DOMAIN rows' = 1..(Len(rows) + 1)
        /\ \A id \in DOMAIN rows : rows'[id] = rows[id]
        /\ rows'[Len(rows) + 1] = audience
        /\ Len(rows) + 1 \in Ids
    BY Typed, AppendElements DEF Ids
  <1>2. TypeOK'
    BY <1>0, <1>1, Typed DEF Inv, TypeOK
  <1>3. RegistryExact'
    BY <1>0 DEF Inv, RegistryExact, Connected
  <1>4. DueLast'
    <2>1. CASE due = 0 /\ due' = Len(rows) + 1
      BY <1>1, <2>1 DEF DueLast
    <2>2. CASE due' = due /\ audience = Dm
      <3>1. \A id \in DOMAIN rows' : id \in DOMAIN rows \/ id = Len(rows) + 1
        BY <1>1
      <3> QED BY <1>1, <2>2, <3>1 DEF Inv, DueLast
    <2> QED BY <2>1, <2>2
  <1>5. ASSUME NEW c \in Conns PROVE ConnInv(c)'
    <2>0. /\ ConnInv(c)
          /\ read[c] \in Nat /\ DOMAIN log[c] = 1..Len(log[c]) /\ Len(log[c]) \in Nat
          /\ \A i \in DOMAIN log[c] : log[c][i] \in Nat
      BY Typed DEF Inv
    <2>1. Stages(c)'
      BY <1>0, <1>1, <2>0 DEF ConnInv, Stages
    <2>2. SeenIsMine(c)'
      BY <1>0, <1>1, <2>0 DEF ConnInv, SeenIsMine, Mine
    <2>3. LogOrdered(c)'
      BY <1>0, <2>0 DEF ConnInv, LogOrdered
    <2>4. DueFollows(c)'
      <3>1. \A i \in DOMAIN log[c] : log[c][i] <= Len(rows)
        BY <1>1, <2>0 DEF ConnInv, SeenIsMine
      <3> QED BY <1>0, <1>1, <2>0, <3>1 DEF ConnInv, DueFollows, Follows
    <2>5. Streamed(c)'
      <3>1. \A k \in DOMAIN inbox[c] : IsRow(inbox[c][k]) =>
               /\ inbox[c][k].row \in DOMAIN rows
               /\ due # 0 => inbox[c][k].row < due
               /\ Follows(c, inbox[c][k].row)
               /\ \A l \in DOMAIN inbox[c] :
                     k < l /\ IsRow(inbox[c][l]) => inbox[c][k].row < inbox[c][l].row
        BY <2>0 DEF ConnInv, Streamed
      <3>2. \A k \in DOMAIN inbox[c] : IsRow(inbox[c][k]) =>
               inbox[c][k].row \in DOMAIN rows' /\ (due' # 0 => inbox[c][k].row < due')
        BY <1>1, <3>1
      <3> QED BY <1>0, <3>1, <3>2 DEF Streamed, Follows
    <2>6. \A id \in DOMAIN rows' :
             /\ id \in DOMAIN rows \/ id = Len(rows) + 1
             /\ id \in DOMAIN rows => id # Len(rows) + 1
      BY <1>1
    <2>7. \A id \in DOMAIN rows' : id # due' /\ id \notin lost' =>
             id \in DOMAIN rows /\ id # due /\ id \notin lost
      BY <1>1, <2>6
    <2>8. Unread(c)'
      BY <1>0, <2>0, <2>7 DEF ConnInv, Unread
    <2>9. NothingMissed(c)'
      BY <1>0, <1>1, <2>0, <2>7 DEF ConnInv, NothingMissed, Elements, MaySee, InWindow
    <2> QED BY <2>1, <2>2, <2>3, <2>4, <2>5, <2>8, <2>9 DEF ConnInv
  <1> QED BY <1>2, <1>3, <1>4, <1>5 DEF Inv

\* The due row is published: who is subscribed gets it, who is between query and
\* subscription has a gap.
LEMMA PublishRowInv ==
    ASSUME Inv, PublishRow
    PROVE  Inv'
  <1>0. /\ user' = user /\ enrolled' = enrolled /\ rows' = rows /\ lost' = lost
        /\ present' = present /\ at' = at /\ sub' = sub
        /\ visible' = visible /\ read' = read /\ roster' = roster
        /\ log' = log /\ shown' = shown /\ due # 0 /\ due' = 0 /\ behind' = behind
    BY DEF PublishRow, world, view
  <1> DEFINE frame == RowFrame(due)
  <1>1. /\ due \in Ids /\ due \in DOMAIN rows /\ due \in Nat
        /\ frame \in Frames /\ IsRow(frame) /\ frame.row = due
    BY <1>0, Typed, FrameFacts
  <1>2. /\ inbox' = [c \in Conns |-> IF sub[c] = "on" THEN Append(inbox[c], frame) ELSE inbox[c]]
        /\ gap' = [c \in Conns |-> IF Misses(c, due) THEN gap[c] \cup {due} ELSE gap[c]]
    BY DEF PublishRow, Publish
  <1> HIDE DEF frame
  <1>3. TypeOK'
    <2>1. \A c \in Conns : Append(inbox[c], frame) \in Seq(Frames) /\ inbox[c] \in Seq(Frames)
      BY <1>1, Typed
    <2>2. inbox' \in [Conns -> Seq(Frames)]
      BY <1>2, <2>1
    <2>3. gap' \in [Conns -> SUBSET Ids]
      BY <1>1, <1>2, Typed
    <2> QED BY <1>0, <2>2, <2>3, Typed DEF Inv, TypeOK
  <1>4. RegistryExact' /\ DueLast'
    BY <1>0 DEF Inv, RegistryExact, Connected, DueLast
  <1>5. ASSUME NEW c \in Conns PROVE ConnInv(c)'
    <2>0. /\ ConnInv(c)
          /\ inbox[c] \in Seq(Frames) /\ DOMAIN inbox[c] = 1..Len(inbox[c]) /\ Len(inbox[c]) \in Nat
          /\ \A k \in DOMAIN inbox[c] : inbox[c][k] \in Frames
      BY Typed DEF Inv
    <2>1. /\ DOMAIN inbox[c] \subseteq DOMAIN inbox'[c]
          /\ \A k \in DOMAIN inbox[c] : inbox'[c][k] = inbox[c][k]
          /\ \A k \in DOMAIN inbox'[c] :
               k \in DOMAIN inbox[c] \/ (k = Len(inbox[c]) + 1 /\ inbox'[c][k] = frame)
      BY <1>1, <1>2, <2>0, AppendElements
    <2>2. Stages(c)'
      BY <1>0, <1>2, <2>0 DEF ConnInv, Stages
    <2>3. SeenIsMine(c)' /\ LogOrdered(c)' /\ DueFollows(c)'
      BY <1>0, <2>0 DEF ConnInv, SeenIsMine, Mine, LogOrdered, DueFollows
    <2>4. Follows(c, due)
      BY <1>0, <2>0 DEF ConnInv, DueFollows
    <2>5. Streamed(c)'
      <3>1. ASSUME NEW k \in DOMAIN inbox'[c], IsRow(inbox'[c][k])
            PROVE  /\ inbox'[c][k].row \in DOMAIN rows
                   /\ Follows(c, inbox'[c][k].row)
                   /\ \A l \in DOMAIN inbox'[c] :
                         k < l /\ IsRow(inbox'[c][l]) => inbox'[c][k].row < inbox'[c][l].row
        <4>1. CASE k \in DOMAIN inbox[c]
          BY <1>0, <1>1, <2>0, <2>1, <3>1, <4>1 DEF ConnInv, Streamed
        <4>2. CASE k = Len(inbox[c]) + 1 /\ inbox'[c][k] = frame
          BY <1>1, <2>0, <2>1, <2>4, <4>2
        <4> QED BY <2>1, <4>1, <4>2
      <3> QED BY <1>0, <3>1 DEF Streamed, Follows
    <2>6. gap[c] \subseteq gap'[c] /\ (Misses(c, due) => due \in gap'[c])
      BY <1>2
    <2>7. Unread(c)'
      <3> SUFFICES ASSUME at[c] \in {"reading", "sending"}, NEW id \in DOMAIN rows, id > read[c]
                   PROVE  id \in lost \cup gap'[c]
        BY <1>0 DEF Unread
      <3>1. CASE id = due
        BY <2>6, <3>1, <1>1, Typed DEF Misses
      <3>2. CASE id # due
        BY <2>0, <2>6, <3>2 DEF ConnInv, Unread
      <3> QED BY <3>1, <3>2
    <2>8. NothingMissed(c)'
      <3> SUFFICES ASSUME at[c] = "live", sub[c] \in {"starting", "on"}, NEW id \in DOMAIN rows,
                          MaySee(c, rows[id]), InWindow(c, id), id \notin lost \cup gap'[c]
                   PROVE  id \in Elements(log[c]) \/ RowFrame(id) \in Elements(inbox'[c])
        BY <1>0 DEF NothingMissed, MaySee, InWindow
      <3>1. CASE id # due
        BY <2>0, <2>1, <2>6, <3>1 DEF ConnInv, NothingMissed, Elements
      <3>2. CASE id = due /\ sub[c] = "starting"
        BY <2>6, <3>2 DEF Misses, Elements
      <3>3. CASE id = due /\ sub[c] = "on"
        <4>1. inbox'[c] = Append(inbox[c], frame)
          BY <1>2, <3>3
        <4>2. /\ Len(inbox[c]) + 1 \in DOMAIN inbox'[c]
              /\ inbox'[c][Len(inbox[c]) + 1] = frame
          BY <1>1, <2>0, <4>1, AppendElements
        <4> QED BY <3>3, <4>2 DEF Elements, frame
      <3> QED BY <3>1, <3>2, <3>3
    <2> QED BY <2>2, <2>3, <2>5, <2>7, <2>8 DEF ConnInv
  <1> QED BY <1>3, <1>4, <1>5 DEF Inv

\* The due row is never published.
LEMMA SilenceRowInv ==
    ASSUME Inv, SilenceRow
    PROVE  Inv'
  <1>0. /\ user' = user /\ enrolled' = enrolled /\ rows' = rows /\ lost' = lost \cup {due}
        /\ present' = present /\ at' = at /\ sub' = sub /\ inbox' = inbox /\ gap' = gap
        /\ visible' = visible /\ read' = read /\ roster' = roster
        /\ log' = log /\ shown' = shown /\ due # 0 /\ due' = 0 /\ behind' = behind
    BY DEF SilenceRow, world, view, ghosts
  <1>1. TypeOK'
    BY <1>0, Typed DEF Inv, TypeOK
  <1>2. RegistryExact' /\ DueLast'
    BY <1>0 DEF Inv, RegistryExact, Connected, DueLast
  <1>3. ASSUME NEW c \in Conns PROVE ConnInv(c)'
    <2>0. ConnInv(c)
      BY DEF Inv
    <2>1. Stages(c)' /\ SeenIsMine(c)' /\ LogOrdered(c)' /\ DueFollows(c)'
      BY <1>0, <2>0 DEF ConnInv, Stages, SeenIsMine, Mine, LogOrdered, DueFollows
    <2>2. Streamed(c)'
      BY <1>0, <2>0 DEF ConnInv, Streamed, Follows
    <2>3. Unread(c)' /\ NothingMissed(c)'
      BY <1>0, <2>0 DEF ConnInv, Unread, NothingMissed, Elements, MaySee, InWindow
    <2> QED BY <2>1, <2>2, <2>3 DEF ConnInv
  <1> QED BY <1>1, <1>2, <1>3 DEF Inv

-----------------------------------------------------------------------------
(* The phases of a connection *)

\* The snapshot is the readable rows, once each and in their order.
LEMMA ReadableRows ==
    ASSUME Inv, NEW c \in Conns
    PROVE  LET list == ReadableBy(c) IN
           /\ list \in Seq(Ids) /\ Len(list) \in Nat /\ DOMAIN list = 1..Len(list)
           /\ \A i \in DOMAIN list : /\ list[i] \in 1..read[c] /\ list[i] \in DOMAIN rows
                                     /\ MaySee(c, rows[list[i]])
           /\ \A i, j \in DOMAIN list : i < j => list[i] < list[j]
           /\ \A id \in 1..read[c] : InWindow(c, id) /\ MaySee(c, rows[id]) => id \in Elements(list)
  <1>1. /\ read[c] \in Nat /\ read[c] <= Len(rows) /\ Len(rows) \in Nat
        /\ DOMAIN rows = 1..Len(rows) /\ DOMAIN rows \subseteq Ids
    BY Typed DEF Inv, ConnInv, Stages
  <1>2. PICK P : P = {id \in 1..read[c] : InWindow(c, id) /\ MaySee(c, rows[id])}
    OBVIOUS
  <1> DEFINE n == Cardinality(P)
             list == InOrder(P)
  <1>3. P \subseteq 1..read[c] /\ list = ReadableBy(c)
    BY <1>2 DEF ReadableBy
  <1>4. /\ n \in Nat /\ list \in [1..n -> P]
        /\ \A i, j \in 1..n : i < j => list[i] < list[j]
        /\ \A id \in P : \E i \in 1..n : list[i] = id
    BY <1>1, <1>3, InOrderWorks
  <1> HIDE DEF list, n
  <1>5. DOMAIN list = 1..n /\ \A i \in 1..n : list[i] \in P
    BY <1>4
  <1>6. \A id \in P : id \in 1..read[c] /\ id \in DOMAIN rows /\ id \in Ids /\ MaySee(c, rows[id])
    BY <1>1, <1>2
  <1>7. list \in Seq(Ids) /\ Len(list) = n
    BY <1>4, <1>5, <1>6
  <1>8. \A id \in 1..read[c] : InWindow(c, id) /\ MaySee(c, rows[id]) => id \in Elements(list)
    BY <1>2, <1>4, <1>5 DEF Elements
  <1> QED BY <1>3, <1>4, <1>5, <1>6, <1>7, <1>8

\* The snapshot is sent and the subscription begun.
LEMMA SendSnapshotConn ==
    ASSUME Inv, NEW c \in Conns, SendSnapshot(c)
    PROVE  ConnInv(c)' /\ log' \in [Conns -> Seq(Ids)]
  <1> DEFINE list == ReadableBy(c)
  <1>0. /\ user' = user /\ rows' = rows /\ due' = due /\ lost' = lost /\ visible' = visible
        /\ inbox' = inbox /\ gap' = gap /\ at[c] = "sending" /\ read' = read
        /\ at'[c] = "live" /\ sub'[c] = "starting" /\ log'[c] = list
        /\ log' = [log EXCEPT ![c] = list]
    BY Typed DEF SendSnapshot, world, turn, ghosts, Go
  <1>1. /\ ConnInv(c) /\ inbox[c] = <<>> /\ read[c] \in Nat /\ read[c] <= Len(rows)
        /\ Len(rows) \in Nat /\ DOMAIN rows = 1..Len(rows) /\ due \in Nat
        /\ visible[c] \subseteq Chars
    BY <1>0, Typed DEF Inv, ConnInv, Stages
  <1>2. /\ list \in Seq(Ids) /\ Len(list) \in Nat /\ DOMAIN list = 1..Len(list)
        /\ \A i \in DOMAIN list : /\ list[i] \in 1..read[c] /\ list[i] \in DOMAIN rows
                                  /\ MaySee(c, rows[list[i]])
        /\ \A i, j \in DOMAIN list : i < j => list[i] < list[j]
        /\ \A id \in 1..read[c] : InWindow(c, id) /\ MaySee(c, rows[id]) => id \in Elements(list)
    BY ReadableRows
  <1> HIDE DEF list
  <1>3. Stages(c)'
    BY <1>0, <1>1 DEF ConnInv, Stages
  <1>4. SeenIsMine(c)'
    BY <1>0, <1>1, <1>2 DEF ConnInv, Stages, SeenIsMine, Mine, MaySee
  <1>5. LogOrdered(c)' /\ Streamed(c)' /\ Unread(c)'
    BY <1>0, <1>1, <1>2 DEF LogOrdered, Streamed, Unread
  <1>6. DueFollows(c)'
    <2> SUFFICES ASSUME due # 0, NEW i \in DOMAIN list
                 PROVE  list[i] <= due /\ (i < Len(list) => list[i] < due)
      BY <1>0 DEF DueFollows, Follows
    <2>1. \A k \in DOMAIN list : list[k] <= due
      <3>1. \A k \in DOMAIN list : rows[list[k]] # Dm
        BY <1>1, <1>2, CharsAssumption DEF MaySee, Dm, Everyone
      <3>2. \A k \in DOMAIN list : list[k] \in Nat /\ ~(list[k] > due)
        BY <1>1, <1>2, <3>1 DEF Inv, DueLast
      <3> QED BY <1>1, <3>2
    <2>2. i < Len(list) => list[i] < list[Len(list)]
      BY <1>2
    <2> QED BY <1>1, <1>2, <2>1, <2>2
  <1>7. NothingMissed(c)'
    <2> SUFFICES ASSUME NEW id \in DOMAIN rows, MaySee(c, rows[id]), InWindow(c, id), id # due,
                        id \notin lost \cup gap[c]
                 PROVE  id \in Elements(list)
      BY <1>0 DEF NothingMissed, MaySee, InWindow
    <2>1. ~(id > read[c])
      BY <1>0, <1>1 DEF ConnInv, Unread
    <2> QED BY <1>1, <1>2, <2>1
  <1> QED BY <1>0, <1>2, <1>3, <1>4, <1>5, <1>6, <1>7, Typed DEF ConnInv

\* A frame is forwarded, or kept from a player it is not for.
LEMMA ForwardConn ==
    ASSUME Inv, NEW c \in Conns, Forward(c)
    PROVE  /\ ConnInv(c)' /\ log' \in [Conns -> Seq(Ids)] /\ inbox' \in [Conns -> Seq(Frames)]
           /\ shown' \in [Conns -> SUBSET Users]
           /\ \A d \in Conns \ {c} : log'[d] = log[d]
  <1> DEFINE frame == Head(inbox[c])
             id == frame.row
  <1>0. /\ user' = user /\ rows' = rows /\ due' = due /\ lost' = lost /\ visible' = visible
        /\ gap' = gap /\ at' = at /\ sub' = sub /\ read' = read
        /\ sub[c] = "on" /\ inbox[c] # <<>> /\ inbox' = [inbox EXCEPT ![c] = Tail(inbox[c])]
    BY DEF Forward, world, turn, ghosts
  <1>1. /\ ConnInv(c) /\ inbox \in [Conns -> Seq(Frames)] /\ log \in [Conns -> Seq(Ids)]
        /\ inbox[c] \in Seq(Frames) /\ log[c] \in Seq(Ids)
        /\ Len(log[c]) \in Nat /\ DOMAIN log[c] = 1..Len(log[c])
        /\ \A i \in DOMAIN log[c] : log[c][i] \in Nat
        /\ shown \in [Conns -> SUBSET Users] /\ visible[c] \subseteq Chars
    BY Typed DEF Inv
  <1>2. /\ Len(inbox[c]) \in Nat \ {0} /\ DOMAIN inbox[c] = 1..Len(inbox[c])
        /\ frame = inbox[c][1] /\ 1 \in DOMAIN inbox[c] /\ frame \in Frames
        /\ inbox'[c] = Tail(inbox[c]) /\ inbox'[c] \in Seq(Frames)
        /\ DOMAIN inbox'[c] = 1..(Len(inbox[c]) - 1)
        /\ \A k \in DOMAIN inbox'[c] : inbox'[c][k] = inbox[c][k + 1] /\ k + 1 \in DOMAIN inbox[c]
        /\ inbox' \in [Conns -> Seq(Frames)]
    BY <1>0, <1>1, TailElements
  <1>3. /\ \A k \in DOMAIN inbox[c] : IsRow(inbox[c][k]) =>
             /\ inbox[c][k].row \in DOMAIN rows /\ inbox[c][k].row \in Nat
             /\ due # 0 => inbox[c][k].row < due
             /\ Follows(c, inbox[c][k].row)
             /\ \A l \in DOMAIN inbox[c] :
                   k < l /\ IsRow(inbox[c][l]) => inbox[c][k].row < inbox[c][l].row
        /\ IsRow(frame) => id \in DOMAIN rows /\ id \in Ids /\ id \in Nat /\ frame = RowFrame(id)
        /\ ~IsRow(frame) => frame.roster \in SUBSET Users
    <2>1. DOMAIN rows \subseteq Nat
      BY Typed
    <2>2. /\ IsRow(frame) => id \in Ids /\ frame = RowFrame(id)
          /\ ~IsRow(frame) => frame.roster \in SUBSET Users
      BY <1>2, FrameFacts
    <2> HIDE DEF frame
    <2> QED BY <1>1, <1>2, <2>1, <2>2 DEF ConnInv, Streamed
  <1>4. \/ /\ IsRow(frame) /\ MaySee(c, rows[id])
           /\ log' = [log EXCEPT ![c] = Append(log[c], id)] /\ shown' = shown
        \/ /\ IsRow(frame) /\ ~MaySee(c, rows[id])
           /\ log' = log /\ shown' = shown
        \/ /\ ~IsRow(frame)
           /\ shown' = [shown EXCEPT ![c] = frame.roster] /\ log' = log
    BY DEF Forward, view
  <1> HIDE DEF frame, id
  <1>5. /\ log' \in [Conns -> Seq(Ids)] /\ shown' \in [Conns -> SUBSET Users]
        /\ \A d \in Conns \ {c} : log'[d] = log[d]
    <2>1. CASE IsRow(frame) /\ log' = [log EXCEPT ![c] = Append(log[c], id)] /\ shown' = shown
      <3>1. Append(log[c], id) \in Seq(Ids)
        BY <1>1, <1>3, <2>1
      <3> QED BY <1>1, <2>1, <3>1
    <2>2. CASE log' = log /\ shown' = shown
      BY <1>1, <2>2
    <2>3. CASE ~IsRow(frame) /\ shown' = [shown EXCEPT ![c] = frame.roster] /\ log' = log
      BY <1>1, <1>3, <2>3
    <2> QED BY <1>4, <2>1, <2>2, <2>3
  <1>6. \A k \in DOMAIN inbox'[c] : IsRow(inbox'[c][k]) =>
             /\ inbox'[c][k].row \in DOMAIN rows /\ inbox'[c][k].row \in Nat
             /\ due # 0 => inbox'[c][k].row < due
             /\ Follows(c, inbox'[c][k].row)
             /\ IsRow(frame) => id < inbox'[c][k].row
             /\ \A l \in DOMAIN inbox'[c] :
                   k < l /\ IsRow(inbox'[c][l]) => inbox'[c][k].row < inbox'[c][l].row
    <2> SUFFICES ASSUME NEW k \in DOMAIN inbox'[c], IsRow(inbox'[c][k])
                 PROVE  /\ inbox'[c][k].row \in DOMAIN rows /\ inbox'[c][k].row \in Nat
                        /\ due # 0 => inbox'[c][k].row < due
                        /\ Follows(c, inbox'[c][k].row)
                        /\ IsRow(frame) => id < inbox'[c][k].row
                        /\ \A l \in DOMAIN inbox'[c] :
                              k < l /\ IsRow(inbox'[c][l]) => inbox'[c][k].row < inbox'[c][l].row
      OBVIOUS
    <2>1. /\ inbox'[c][k] = inbox[c][k + 1] /\ k + 1 \in DOMAIN inbox[c] /\ 1 < k + 1
          /\ \A l \in DOMAIN inbox'[c] : /\ inbox'[c][l] = inbox[c][l + 1]
                                         /\ l + 1 \in DOMAIN inbox[c]
                                         /\ k < l => k + 1 < l + 1
      BY <1>2
    <2>2. IsRow(frame) => id < inbox[c][k + 1].row
      BY <1>2, <1>3, <2>1 DEF id
    <2> QED BY <1>3, <2>1, <2>2
  <1>7. Stages(c)'
    <2>1. at[c] = "live"
      BY <1>0, <1>1 DEF ConnInv, Stages
    <2> QED BY <1>0, <1>1, <2>1 DEF ConnInv, Stages
  <1>8. Unread(c)'
    BY <1>0, <1>1 DEF ConnInv, Unread
  <1>9. CASE log' = log
    <2>1. SeenIsMine(c)' /\ LogOrdered(c)' /\ DueFollows(c)'
      BY <1>0, <1>1, <1>9 DEF ConnInv, SeenIsMine, Mine, LogOrdered, DueFollows, Follows
    <2>2. Streamed(c)'
      BY <1>0, <1>6, <1>9 DEF Streamed, Follows
    <2>3. NothingMissed(c)'
      <3> SUFFICES ASSUME at[c] = "live", NEW n \in DOMAIN rows, MaySee(c, rows[n]), InWindow(c, n), n # due,
                          n \notin lost \cup gap[c]
                   PROVE  n \in Elements(log[c]) \/ RowFrame(n) \in Elements(inbox'[c])
        BY <1>0, <1>9 DEF NothingMissed, MaySee, InWindow
      <3>1. n \in Elements(log[c]) \/ RowFrame(n) \in Elements(inbox[c])
        BY <1>0, <1>1 DEF ConnInv, NothingMissed
      <3>2. CASE RowFrame(n) \in Elements(inbox[c])
        <4>1. PICK k \in DOMAIN inbox[c] : inbox[c][k] = RowFrame(n)
          BY <3>2 DEF Elements
        <4>2. CASE k = 1
          <5>1. n \in Ids
            BY Typed
          <5>2. IsRow(frame) /\ id = n
            BY <1>2, <4>1, <4>2, <5>1, FrameFacts DEF id
          <5>3. IsRow(frame) => ~MaySee(c, rows[id])
            <6>1. SUFFICES ASSUME IsRow(frame), log' = [log EXCEPT ![c] = Append(log[c], id)]
                           PROVE  FALSE
              BY <1>4
            <6>2. log[c] = Append(log[c], id)
              BY <1>1, <1>9, <6>1
            <6>3. DOMAIN Append(log[c], id) = 1..(Len(log[c]) + 1)
              BY <1>1, <1>3, <6>1, AppendElements
            <6>4. Len(log[c]) + 1 \in DOMAIN log[c]
              BY <1>1, <6>2, <6>3
            <6> QED BY <1>1, <6>4
          <5> QED BY <5>2, <5>3
        <4>3. CASE k # 1
          <5>1. k - 1 \in DOMAIN inbox'[c] /\ (k - 1) + 1 = k
            BY <1>2, <4>3
          <5>2. inbox'[c][k - 1] = RowFrame(n)
            BY <1>2, <4>1, <5>1
          <5> QED BY <5>1, <5>2 DEF Elements
        <4> QED BY <4>2, <4>3
      <3> QED BY <3>1, <3>2
    <2> QED BY <1>2, <1>5, <1>7, <1>8, <2>1, <2>2, <2>3 DEF ConnInv
  <1>10. CASE IsRow(frame) /\ MaySee(c, rows[id]) /\ log' = [log EXCEPT ![c] = Append(log[c], id)]
    <2>1. /\ log'[c] = Append(log[c], id) /\ DOMAIN log'[c] = 1..(Len(log[c]) + 1)
          /\ Len(log'[c]) = Len(log[c]) + 1
          /\ \A i \in DOMAIN log[c] : log'[c][i] = log[c][i]
          /\ log'[c][Len(log[c]) + 1] = id
      BY <1>1, <1>3, <1>10, AppendElements
    <2>2. \A i \in DOMAIN log'[c] :
            \/ i \in DOMAIN log[c] /\ log'[c][i] = log[c][i] /\ i <= Len(log[c])
            \/ i = Len(log[c]) + 1 /\ log'[c][i] = id
      BY <1>1, <2>1
    <2>3. id \in Nat /\ Follows(c, id) /\ (due # 0 => id < due)
      BY <1>2, <1>3, <1>10 DEF id
    <2>4. SeenIsMine(c)'
      <3>1. Mine(c, rows[id])
        BY <1>1, <1>10 DEF ConnInv, Stages, MaySee, Mine
      <3> QED BY <1>0, <1>1, <1>3, <1>10, <2>2, <3>1 DEF ConnInv, SeenIsMine, Mine
    <2>5. LogOrdered(c)'
      <3> SUFFICES ASSUME NEW i \in DOMAIN log'[c], NEW j \in DOMAIN log'[c], i < j
                   PROVE  log'[c][i] <= log'[c][j] /\ (i + 1 < j => log'[c][i] < log'[c][j])
        BY DEF LogOrdered
      <3>1. i \in DOMAIN log[c] /\ log'[c][i] = log[c][i]
        BY <1>1, <2>1, <2>2
      <3>2. CASE j \in DOMAIN log[c]
        BY <1>1, <2>1, <3>1, <3>2 DEF ConnInv, LogOrdered
      <3>3. CASE j = Len(log[c]) + 1 /\ log'[c][j] = id
        BY <1>1, <2>3, <3>1, <3>3 DEF Follows
      <3> QED BY <2>2, <3>2, <3>3
    <2>6. ASSUME NEW n \in Nat, id < n
          PROVE  \A i \in DOMAIN log'[c] :
                    log'[c][i] <= n /\ (i < Len(log'[c]) => log'[c][i] < n)
      BY <1>1, <2>1, <2>2, <2>3, <2>6 DEF Follows
    <2>7. DueFollows(c)'
      <3>1. due \in Nat
        BY Typed
      <3> QED BY <1>0, <2>3, <2>6, <3>1 DEF DueFollows, Follows
    <2>8. Streamed(c)'
      BY <1>0, <1>6, <1>10, <2>6 DEF Streamed, Follows
    <2>9. NothingMissed(c)'
      <3> SUFFICES ASSUME at[c] = "live", NEW n \in DOMAIN rows, MaySee(c, rows[n]), InWindow(c, n), n # due,
                          n \notin lost \cup gap[c]
                   PROVE  n \in Elements(log'[c]) \/ RowFrame(n) \in Elements(inbox'[c])
        BY <1>0 DEF NothingMissed, MaySee, InWindow
      <3>0. \A i \in DOMAIN log[c] : i \in DOMAIN log'[c]
        BY <1>1, <2>1
      <3>1. n \in Elements(log[c]) \/ RowFrame(n) \in Elements(inbox[c])
        BY <1>0, <1>1 DEF ConnInv, NothingMissed
      <3>2. CASE RowFrame(n) \in Elements(inbox[c])
        <4>1. PICK k \in DOMAIN inbox[c] : inbox[c][k] = RowFrame(n)
          BY <3>2 DEF Elements
        <4>2. CASE k = 1
          <5>1. n \in Ids
            BY Typed
          <5>2. id = n
            BY <1>2, <4>1, <4>2, <5>1, FrameFacts DEF id
          <5>3. Len(log[c]) + 1 \in DOMAIN log'[c]
            BY <1>1, <2>1
          <5> QED BY <2>1, <5>2, <5>3 DEF Elements
        <4>3. CASE k # 1
          <5>1. k - 1 \in DOMAIN inbox'[c] /\ (k - 1) + 1 = k
            BY <1>2, <4>3
          <5>2. inbox'[c][k - 1] = RowFrame(n)
            BY <1>2, <4>1, <5>1
          <5> QED BY <5>1, <5>2 DEF Elements
        <4> QED BY <4>2, <4>3
      <3>3. CASE n \in Elements(log[c])
        BY <2>1, <3>0, <3>3 DEF Elements
      <3> QED BY <3>1, <3>2, <3>3
    <2> QED BY <1>2, <1>5, <1>7, <1>8, <2>4, <2>5, <2>7, <2>8, <2>9 DEF ConnInv
  <1> QED BY <1>4, <1>9, <1>10

\* A connection that shows nothing has nothing to get wrong.
LEMMA NothingShown ==
    ASSUME Inv, NEW c \in Conns, UNCHANGED <<user, rows, due, lost>>,
           at'[c] \notin {"sending", "live"}, at'[c] = "reading" => read'[c] = Len(rows),
           sub'[c] = "off", inbox'[c] = <<>>, log'[c] = <<>>, read'[c] <= Len(rows),
           \A ch \in visible'[c] : Owner[ch] = user[c]
    PROVE  ConnInv(c)'
  <1>0. /\ user' = user /\ rows' = rows /\ due' = due /\ lost' = lost
        /\ Len(rows) \in Nat /\ DOMAIN rows = 1..Len(rows)
    BY Typed
  <1>1. Stages(c)' /\ SeenIsMine(c)' /\ LogOrdered(c)' /\ Streamed(c)' /\ DueFollows(c)'
    BY <1>0 DEF Stages, SeenIsMine, LogOrdered, Streamed, DueFollows, Follows
  <1>2. Unread(c)' /\ NothingMissed(c)'
    BY <1>0 DEF Unread, NothingMissed
  <1> QED BY <1>1, <1>2 DEF ConnInv

\* A step of one connection, as the others see it.
LEMMA OneConn ==
    ASSUME Inv, NEW c \in Conns, UNCHANGED <<user, rows, due, lost>>,
           TypeOK', RegistryExact', ConnInv(c)',
           \A d \in Conns \ {c} :
              /\ at'[d] = at[d] /\ sub'[d] = sub[d] /\ visible'[d] = visible[d]
              /\ read'[d] = read[d] /\ gap'[d] = gap[d] /\ log'[d] = log[d]
              /\ inbox'[d] = inbox[d]
    PROVE  Inv'
  <1>1. ASSUME NEW d \in Conns PROVE ConnInv(d)'
    <2>1. CASE d = c
      BY <2>1
    <2>2. CASE d # c
      BY <2>2, RosterComes
    <2> QED BY <2>1, <2>2
  <1>2. DueLast'
    BY DEF Inv, DueLast
  <1> QED BY <1>1, <1>2 DEF Inv

\* A connection is registered before it reads its snapshot.
LEMMA ConnectInv ==
    ASSUME Inv, NEW c \in Conns, Connect(c)
    PROVE  Inv'
  <1>0. /\ user' = user /\ enrolled' = enrolled /\ rows' = rows /\ due' = due /\ lost' = lost
        /\ present' = present \cup {c} /\ sub' = sub /\ read' = read /\ inbox' = inbox
        /\ log' = log /\ shown' = shown /\ gap' = gap /\ behind' = behind /\ at[c] = "off"
        /\ at' = [at EXCEPT ![c] = "joining"] /\ visible' = [visible EXCEPT ![c] = CharsOf(c)]
        /\ roster' = [roster EXCEPT ![c] = UsersOf(present')]
    BY DEF Connect, world, turn, view, ghosts, Go
  <1>1. ConnInv(c)
    BY DEF Inv
  <1>2. /\ CharsOf(c) \in SUBSET Chars /\ UsersOf(present') \in SUBSET Users
        /\ \A ch \in CharsOf(c) : Owner[ch] = user[c]
    BY <1>0, Typed DEF CharsOf, UsersOf
  <1>3. /\ at' \in [Conns -> Places] /\ at'[c] = "joining"
        /\ visible' \in [Conns -> SUBSET Chars] /\ visible'[c] = CharsOf(c)
        /\ roster' \in [Conns -> SUBSET Users] /\ present' \subseteq Conns
        /\ \A d \in Conns \ {c} : at'[d] = at[d] /\ visible'[d] = visible[d]
    BY <1>0, <1>2, Typed DEF Places
  <1>4. TypeOK'
    BY <1>0, <1>3, Typed DEF Inv, TypeOK
  <1>5. RegistryExact'
    BY <1>0, <1>3 DEF Inv, RegistryExact, Connected
  <1>6. ConnInv(c)'
    BY <1>0, <1>1, <1>2, <1>3, NothingShown DEF ConnInv, Stages
  <1> QED BY <1>0, <1>3, <1>4, <1>5, <1>6, OneConn

\* Nothing but a roster goes out, to whoever is subscribed.
LEMMA RosterOut ==
    ASSUME Inv, UNCHANGED <<world, turn, sub, visible, read, view, gap>>,
           \/ inbox' = inbox
           \/ \E users \in SUBSET Users : Publish(RosterFrame(users)),
           present' \subseteq Conns, behind' \subseteq Conns, at' \in [Conns -> Places],
           roster' \in [Conns -> SUBSET Users],
           \A d \in Conns : \/ at'[d] = at[d]
                            \/ at[d] \notin {"reading", "sending", "live"} /\ at'[d] \notin {"reading", "sending", "live"},
           RegistryExact'
    PROVE  Inv'
  <1>0. /\ user' = user /\ enrolled' = enrolled /\ rows' = rows /\ due' = due /\ lost' = lost
        /\ sub' = sub /\ visible' = visible /\ read' = read /\ log' = log /\ shown' = shown
        /\ gap' = gap
    BY DEF world, turn, view
  <1>1. /\ inbox' \in [Conns -> Seq(Frames)]
        /\ \A d \in Conns :
             \/ inbox'[d] = inbox[d]
             \/ /\ sub[d] = "on"
                /\ \E users \in SUBSET Users : inbox'[d] = Append(inbox[d], RosterFrame(users))
    <2>1. CASE inbox' = inbox
      BY <2>1, Typed
    <2>2. ASSUME NEW users \in SUBSET Users, Publish(RosterFrame(users))
          PROVE  /\ inbox' \in [Conns -> Seq(Frames)]
                 /\ \A d \in Conns :
                      \/ inbox'[d] = inbox[d]
                      \/ sub[d] = "on" /\ inbox'[d] = Append(inbox[d], RosterFrame(users))
      <3>1. PICK f : f = RosterFrame(users) /\ f \in Frames
        BY FrameFacts
      <3>2. inbox' = [d \in Conns |-> IF sub[d] = "on" THEN Append(inbox[d], f) ELSE inbox[d]]
        BY <2>2, <3>1 DEF Publish
      <3>3. \A d \in Conns : inbox[d] \in Seq(Frames) /\ Append(inbox[d], f) \in Seq(Frames)
        BY <3>1, Typed
      <3> QED BY <3>1, <3>2, <3>3
    <2> QED BY <2>1, <2>2
  <1>2. TypeOK'
    BY <1>0, <1>1, Typed DEF Inv, TypeOK
  <1>3. DueLast'
    BY <1>0 DEF Inv, DueLast
  <1>4. ASSUME NEW d \in Conns PROVE ConnInv(d)'
    BY <1>0, <1>1, RosterComes
  <1> QED BY <1>2, <1>3, <1>4 DEF Inv

\* A roster in the stream changes no log.
LEMMA AnnounceInv ==
    ASSUME Inv, NEW c \in Conns, AnnounceJoin(c) \/ AnnounceLeave(c)
    PROVE  Inv'
  <1>0. /\ UNCHANGED <<world, turn, sub, visible, read, view, gap>> /\ user' = user
        /\ roster' = [roster EXCEPT ![c] = {}]
        /\ at[c] \in {"joining", "left"}
        /\ inbox' = inbox \/ Publish(RosterFrame(roster[c]))
        /\ behind' \subseteq Conns
    BY Typed DEF AnnounceJoin, AnnounceLeave, Announce, Informed, world
  <1>1. \/ at' = [at EXCEPT ![c] = "announced"] /\ present' = present /\ at[c] = "joining"
        \/ at' = [at EXCEPT ![c] = "gone"] /\ present' = present \ {c}
    BY Typed DEF AnnounceJoin, AnnounceLeave, Go, Inv, RegistryExact, Connected
  <1>2. /\ at' \in [Conns -> Places] /\ at'[c] \in {"announced", "gone"}
        /\ \A d \in Conns \ {c} : at'[d] = at[d]
        /\ present' \subseteq Conns /\ roster' \in [Conns -> SUBSET Users]
        /\ roster[c] \in SUBSET Users
    BY <1>0, <1>1, Typed DEF Places
  <1>3. RegistryExact'
    BY <1>1, <1>2, Typed DEF Inv, RegistryExact, Connected
  <1>4. \A d \in Conns : \/ at'[d] = at[d]
                         \/ at[d] \notin {"reading", "sending", "live"} /\ at'[d] \notin {"reading", "sending", "live"}
    BY <1>0, <1>2
  <1>5. \/ inbox' = inbox
        \/ \E users \in SUBSET Users : Publish(RosterFrame(users))
    BY <1>0, <1>2
  <1> QED BY <1>0, <1>2, <1>3, <1>4, <1>5, RosterOut

\* A further character changes no row, no stream and no log.
LEMMA EnrollInv ==
    ASSUME Inv, NEW ch \in Chars, Enroll(ch)
    PROVE  Inv'
  <1>0. /\ user' = user /\ enrolled' = enrolled \cup {ch} /\ rows' = rows /\ due' = due
        /\ lost' = lost /\ present' = present /\ at' = at /\ sub' = sub
        /\ visible' = visible /\ read' = read /\ roster' = roster /\ inbox' = inbox
        /\ log' = log /\ shown' = shown /\ gap' = gap /\ behind' = behind
    BY DEF Enroll, turn, view, ghosts
  <1>1. TypeOK' /\ RegistryExact' /\ DueLast'
    BY <1>0, Typed DEF Inv, TypeOK, RegistryExact, Connected, DueLast
  <1>2. ASSUME NEW d \in Conns PROVE ConnInv(d)'
    BY <1>0, RosterComes
  <1> QED BY <1>1, <1>2 DEF Inv

\* The query and what may happen instead of the snapshot.
LEMMA BeforeSnapshotInv ==
    ASSUME Inv, NEW c \in Conns, ReadRows(c) \/ SnapshotFails(c)
    PROVE  Inv'
  <1>0. /\ user' = user /\ enrolled' = enrolled /\ rows' = rows /\ due' = due /\ lost' = lost
        /\ present' = present /\ sub' = sub /\ inbox' = inbox
        /\ roster' \in [Conns -> SUBSET Users] /\ behind' \subseteq Conns
        /\ log' = log /\ shown' = shown
    BY Typed DEF ReadRows, SnapshotFails, world, turn, view, ghosts
  <1>1. \/ /\ at[c] = "announced" /\ at' = [at EXCEPT ![c] = "reading"]
           /\ read' = [read EXCEPT ![c] = Len(rows)] /\ visible' = visible /\ gap' = gap
        \/ /\ at[c] \in {"announced", "reading", "sending"} /\ at' = [at EXCEPT ![c] = "vanished"]
           /\ read' = [read EXCEPT ![c] = 0] /\ visible' = [visible EXCEPT ![c] = {}]
           /\ gap' = [gap EXCEPT ![c] = {}]
    BY DEF ReadRows, SnapshotFails, ghosts, Go
  <1>2. ConnInv(c) /\ 0 \in 0..MaxRows /\ Len(rows) \in 0..MaxRows /\ Len(rows) \in Nat
    BY Typed DEF Inv
  <1>3. /\ at' \in [Conns -> Places] /\ at'[c] \in {"reading", "vanished"}
        /\ read' \in [Conns -> 0..MaxRows] /\ read'[c] \in {0, Len(rows)}
        /\ at'[c] = "reading" => read'[c] = Len(rows)
        /\ visible' \in [Conns -> SUBSET Chars] /\ visible'[c] \in {visible[c], {}}
        /\ gap' \in [Conns -> SUBSET Ids]
        /\ \A d \in Conns \ {c} : /\ at'[d] = at[d] /\ read'[d] = read[d]
                                  /\ visible'[d] = visible[d] /\ gap'[d] = gap[d]
    <2>1. CASE at[c] = "announced" /\ at' = [at EXCEPT ![c] = "reading"]
               /\ read' = [read EXCEPT ![c] = Len(rows)] /\ visible' = visible /\ gap' = gap
      BY <1>2, <2>1, Typed DEF Places
    <2>2. CASE at' = [at EXCEPT ![c] = "vanished"]
               /\ read' = [read EXCEPT ![c] = 0] /\ visible' = [visible EXCEPT ![c] = {}]
               /\ gap' = [gap EXCEPT ![c] = {}]
      BY <1>2, <2>2, Typed DEF Places
    <2> QED BY <1>1, <2>1, <2>2
  <1>4. TypeOK'
    BY <1>0, <1>3, Typed DEF Inv, TypeOK
  <1>5. RegistryExact'
    BY <1>0, <1>1, <1>3 DEF Inv, RegistryExact, Connected
  <1>6. ConnInv(c)'
    <2>1. /\ sub'[c] = "off" /\ inbox'[c] = <<>> /\ log'[c] = <<>> /\ read'[c] <= Len(rows)
          /\ \A ch \in visible'[c] : Owner[ch] = user[c]
      BY <1>0, <1>1, <1>2, <1>3 DEF ConnInv, Stages
    <2> QED BY <1>0, <1>3, <2>1, NothingShown
  <1> QED BY <1>0, <1>3, <1>4, <1>5, <1>6, OneConn

\* The roster is read between the rows and the snapshot.
LEMMA ReadRosterInv ==
    ASSUME Inv, NEW c \in Conns, ReadRoster(c)
    PROVE  Inv'
  <1>0. /\ user' = user /\ enrolled' = enrolled /\ rows' = rows /\ due' = due /\ lost' = lost
        /\ present' = present /\ sub' = sub /\ visible' = visible /\ read' = read
        /\ inbox' = inbox /\ log' = log /\ shown' = shown /\ gap' = gap /\ behind' = behind
        /\ at[c] = "reading" /\ at' = [at EXCEPT ![c] = "sending"]
        /\ roster' = [roster EXCEPT ![c] = UsersOf(present)]
    BY DEF ReadRoster, world, turn, view, ghosts, Go
  <1>1. UsersOf(present) \in SUBSET Users
    BY Typed DEF UsersOf
  <1>2. /\ at' \in [Conns -> Places] /\ at'[c] = "sending"
        /\ roster' \in [Conns -> SUBSET Users]
        /\ \A d \in Conns \ {c} : at'[d] = at[d]
    BY <1>0, <1>1, Typed DEF Places
  <1>3. TypeOK'
    BY <1>0, <1>2, Typed DEF Inv, TypeOK
  <1>4. RegistryExact'
    BY <1>0, <1>2 DEF Inv, RegistryExact, Connected
  <1>5. ConnInv(c)'
    <2>1. ConnInv(c)
      BY DEF Inv
    <2>2. Stages(c)' /\ SeenIsMine(c)' /\ LogOrdered(c)' /\ Streamed(c)' /\ DueFollows(c)'
      BY <1>0, <1>2, <2>1
         DEF ConnInv, Stages, SeenIsMine, Mine, LogOrdered, Streamed, DueFollows, Follows
    <2>3. Unread(c)' /\ NothingMissed(c)'
      BY <1>0, <1>2, <2>1 DEF ConnInv, Unread, NothingMissed
    <2> QED BY <2>2, <2>3 DEF ConnInv
  <1> QED BY <1>0, <1>2, <1>3, <1>4, <1>5, OneConn

\* The snapshot shows the rows that were read; those stored since are the client's gap.
LEMMA SnapshotInv ==
    ASSUME Inv, NEW c \in Conns, SendSnapshot(c)
    PROVE  Inv'
  <1>0. /\ user' = user /\ enrolled' = enrolled /\ rows' = rows /\ due' = due /\ lost' = lost
        /\ present' = present /\ inbox' = inbox /\ roster' = [roster EXCEPT ![c] = {}]
        /\ visible' = visible /\ behind' = behind /\ read' = read
        /\ gap' = gap /\ at[c] = "sending" /\ at' = [at EXCEPT ![c] = "live"]
        /\ log' = [log EXCEPT ![c] = ReadableBy(c)] /\ sub' = [sub EXCEPT ![c] = "starting"]
        /\ shown' = [shown EXCEPT ![c] = roster[c]]
    BY DEF SendSnapshot, world, turn, ghosts, Go
  <1>1. roster[c] \in SUBSET Users
    BY Typed
  <1>2. /\ at' \in [Conns -> Places] /\ sub' \in [Conns -> {"off", "starting", "on", "dead"}]
        /\ roster' \in [Conns -> SUBSET Users] /\ shown' \in [Conns -> SUBSET Users]
        /\ at'[c] = "live"
        /\ \A d \in Conns \ {c} : /\ at'[d] = at[d] /\ sub'[d] = sub[d] /\ log'[d] = log[d]
    BY <1>0, <1>1, Typed DEF Places
  <1>3. ConnInv(c)' /\ log' \in [Conns -> Seq(Ids)]
    BY SendSnapshotConn
  <1>4. TypeOK'
    BY <1>0, <1>2, <1>3, Typed DEF Inv, TypeOK
  <1>5. RegistryExact'
    BY <1>0, <1>2 DEF Inv, RegistryExact, Connected
  <1> QED BY <1>0, <1>2, <1>3, <1>4, <1>5, OneConn

\* The subscription comes up, or it does not, or is lost again.
LEMMA SubscriptionInv ==
    ASSUME Inv, NEW c \in Conns, Subscribe(c) \/ SubscriberDies(c)
    PROVE  Inv'
  <1>0. /\ user' = user /\ enrolled' = enrolled /\ rows' = rows /\ due' = due /\ lost' = lost
        /\ present' = present /\ at' = at /\ visible' = visible /\ read' = read
        /\ roster' = roster /\ log' = log /\ shown' = shown /\ gap' = gap /\ behind' = behind
    BY DEF Subscribe, SubscriberDies, world, turn, view, ghosts
  <1>1. \/ /\ sub[c] = "starting" /\ inbox' = inbox
           /\ \E outcome \in {"on", "dead"} : sub' = [sub EXCEPT ![c] = outcome]
        \/ /\ sub[c] = "on" /\ inbox' = [inbox EXCEPT ![c] = <<>>]
           /\ sub' = [sub EXCEPT ![c] = "dead"]
    BY DEF Subscribe, SubscriberDies
  <1>2. ConnInv(c) /\ <<>> \in Seq(Frames)
    BY DEF Inv
  <1>3. /\ sub' \in [Conns -> {"off", "starting", "on", "dead"}] /\ sub'[c] \in {"on", "dead"}
        /\ sub'[c] = "on" => sub[c] = "starting" /\ inbox'[c] = inbox[c]
        /\ inbox' \in [Conns -> Seq(Frames)]
        /\ inbox'[c] = <<>>
        /\ \A d \in Conns \ {c} : sub'[d] = sub[d] /\ inbox'[d] = inbox[d]
    <2>1. CASE sub[c] = "starting"
      BY <1>1, <1>2, <2>1, Typed DEF ConnInv, Stages
    <2>2. CASE sub[c] = "on"
      BY <1>1, <1>2, <2>2, Typed
    <2> QED BY <1>1, <2>1, <2>2
  <1>4. TypeOK'
    BY <1>0, <1>3, Typed DEF Inv, TypeOK
  <1>5. RegistryExact'
    BY <1>0 DEF Inv, RegistryExact, Connected
  <1>6. ConnInv(c)'
    <2>1. at[c] = "live"
      BY <1>1, <1>2 DEF ConnInv, Stages
    <2>2. Stages(c)' /\ SeenIsMine(c)' /\ LogOrdered(c)' /\ DueFollows(c)' /\ Unread(c)'
      BY <1>0, <1>2, <1>3, <2>1
         DEF ConnInv, Stages, SeenIsMine, Mine, LogOrdered, DueFollows, Follows, Unread
    <2>3. Streamed(c)'
      BY <1>3 DEF Streamed
    <2>4. NothingMissed(c)'
      <3> SUFFICES ASSUME sub'[c] = "on", NEW id \in DOMAIN rows, MaySee(c, rows[id]), InWindow(c, id), id # due,
                          id \notin lost \cup gap[c]
                   PROVE  id \in Elements(log[c]) \/ RowFrame(id) \in Elements(inbox'[c])
        BY <1>0, <1>3 DEF NothingMissed, MaySee, InWindow
      <3>1. at[c] = "live" /\ sub[c] = "starting" /\ inbox'[c] = inbox[c]
        BY <1>3, <2>1
      <3> QED BY <1>2, <3>1 DEF ConnInv, NothingMissed
    <2> QED BY <2>2, <2>3, <2>4 DEF ConnInv
  <1> QED BY <1>0, <1>3, <1>4, <1>5, <1>6, OneConn

\* A frame from the stream is shown once and in its place.
LEMMA ForwardInv ==
    ASSUME Inv, NEW c \in Conns, Forward(c)
    PROVE  Inv'
  <1>0. /\ user' = user /\ enrolled' = enrolled /\ rows' = rows /\ due' = due /\ lost' = lost
        /\ present' = present /\ at' = at /\ sub' = sub /\ visible' = visible /\ read' = read
        /\ roster' = roster /\ gap' = gap /\ inbox' = [inbox EXCEPT ![c] = Tail(inbox[c])]
        /\ behind' = behind
    BY DEF Forward, world, turn, ghosts
  <1>1. /\ ConnInv(c)' /\ log' \in [Conns -> Seq(Ids)] /\ inbox' \in [Conns -> Seq(Frames)]
        /\ shown' \in [Conns -> SUBSET Users]
        /\ \A d \in Conns \ {c} : log'[d] = log[d]
    BY ForwardConn
  <1>2. \A d \in Conns \ {c} : inbox'[d] = inbox[d]
    BY <1>0, Typed
  <1>3. TypeOK'
    BY <1>0, <1>1, Typed DEF Inv, TypeOK
  <1>4. RegistryExact'
    BY <1>0 DEF Inv, RegistryExact, Connected
  <1> QED BY <1>0, <1>1, <1>2, <1>3, <1>4, OneConn

\* A client that goes is still registered.
LEMMA DisconnectInv ==
    ASSUME Inv, NEW c \in Conns, Disconnect(c)
    PROVE  Inv'
  <1>0. /\ user' = user /\ enrolled' = enrolled /\ rows' = rows /\ due' = due /\ lost' = lost
        /\ present' = present /\ read' = [read EXCEPT ![c] = 0] /\ roster' = roster
        /\ behind' = behind \ {c} /\ at[c] = "live" /\ at' = [at EXCEPT ![c] = "leaving"]
        /\ sub' = [sub EXCEPT ![c] = "off"] /\ inbox' = [inbox EXCEPT ![c] = <<>>]
        /\ log' = [log EXCEPT ![c] = <<>>] /\ shown' = [shown EXCEPT ![c] = {}]
        /\ visible' = [visible EXCEPT ![c] = {}] /\ gap' = [gap EXCEPT ![c] = {}]
    BY DEF Disconnect, world, turn, Go
  <1>1. ConnInv(c) /\ <<>> \in Seq(Frames) /\ <<>> \in Seq(Ids) /\ 0 \in 0..MaxRows /\ 0 <= Len(rows)
    BY Typed DEF Inv
  <1>2. /\ at' \in [Conns -> Places] /\ sub' \in [Conns -> {"off", "starting", "on", "dead"}]
        /\ inbox' \in [Conns -> Seq(Frames)] /\ log' \in [Conns -> Seq(Ids)]
        /\ shown' \in [Conns -> SUBSET Users] /\ visible' \in [Conns -> SUBSET Chars]
        /\ gap' \in [Conns -> SUBSET Ids]
        /\ at'[c] = "leaving" /\ sub'[c] = "off" /\ inbox'[c] = <<>> /\ log'[c] = <<>>
        /\ visible'[c] = {} /\ read' \in [Conns -> 0..MaxRows] /\ read'[c] = 0
        /\ \A d \in Conns \ {c} :
              /\ at'[d] = at[d] /\ read'[d] = read[d] /\ sub'[d] = sub[d] /\ visible'[d] = visible[d]
              /\ gap'[d] = gap[d] /\ log'[d] = log[d] /\ inbox'[d] = inbox[d]
    BY <1>0, <1>1, Typed DEF Places
  <1>3. TypeOK'
    BY <1>0, <1>2, Typed DEF Inv, TypeOK
  <1>4. RegistryExact'
    BY <1>0, <1>2 DEF Inv, RegistryExact, Connected
  <1>5. ConnInv(c)'
    BY <1>0, <1>1, <1>2, NothingShown DEF ConnInv, Stages
  <1> QED BY <1>0, <1>2, <1>3, <1>4, <1>5, OneConn

\* The finally block takes it out.
LEMMA LeaveInv ==
    ASSUME Inv, NEW c \in Conns, Leave(c)
    PROVE  Inv'
  <1>0. /\ user' = user /\ enrolled' = enrolled /\ rows' = rows /\ due' = due /\ lost' = lost
        /\ present' = present \ {c} /\ sub' = sub /\ read' = read /\ inbox' = inbox
        /\ log' = log /\ shown' = shown /\ gap' = gap /\ behind' = behind /\ visible' = visible
        /\ at[c] = "leaving" /\ at' = [at EXCEPT ![c] = "left"]
        /\ roster' = [roster EXCEPT ![c] = UsersOf(present')]
    BY DEF Leave, world, turn, view, ghosts, Go
  <1>1. UsersOf(present') \in SUBSET Users
    BY <1>0, Typed DEF UsersOf
  <1>2. /\ at' \in [Conns -> Places] /\ at'[c] = "left"
        /\ roster' \in [Conns -> SUBSET Users] /\ present' \subseteq Conns
        /\ \A d \in Conns \ {c} : at'[d] = at[d]
    BY <1>0, <1>1, Typed DEF Places
  <1>3. RegistryExact'
    BY <1>0, <1>2 DEF Inv, RegistryExact, Connected
  <1>4. \A d \in Conns : \/ at'[d] = at[d]
                         \/ at[d] \notin {"reading", "sending", "live"} /\ at'[d] \notin {"reading", "sending", "live"}
    BY <1>0, <1>2
  <1>5. behind' \subseteq Conns
    BY <1>0, Typed
  <1> QED BY <1>0, <1>2, <1>3, <1>4, <1>5, RosterOut DEF world, turn, view

\* Every step keeps it: one case for each action, with the lemma that treats it.
LEMMA NextInv == Inv /\ [Next]_vars => Inv'
  <1> SUFFICES ASSUME Inv, [Next]_vars PROVE Inv'
    OBVIOUS
  <1>1. CASE UNCHANGED vars
    <2>1. /\ user' = user /\ enrolled' = enrolled /\ rows' = rows /\ due' = due /\ lost' = lost
          /\ present' = present /\ at' = at /\ sub' = sub /\ visible' = visible /\ read' = read
          /\ roster' = roster /\ inbox' = inbox /\ gap' = gap /\ log' = log /\ shown' = shown
          /\ behind' = behind
      BY <1>1 DEF vars, world, turn, view, ghosts
    <2>2. TypeOK' /\ RegistryExact' /\ DueLast'
      BY <2>1 DEF Inv, TypeOK, RegistryExact, Connected, DueLast
    <2>3. ASSUME NEW d \in Conns PROVE ConnInv(d)'
      BY <2>1, RosterComes
    <2> QED BY <2>2, <2>3 DEF Inv
  <1>2. CASE \E ch \in Chars : Enroll(ch)
    BY <1>2, EnrollInv
  <1>3. ASSUME NEW audience \in Audiences, StoreRow(audience)
        PROVE  Inv'
    <2>1. /\ due = 0 /\ Len(rows) < MaxRows /\ audience # Dm /\ rows' = Append(rows, audience)
          /\ due' = Len(rows')
          /\ UNCHANGED <<world, lost, present, at, sub, visible, read, roster, inbox, view, ghosts>>
      BY <1>3 DEF StoreRow
    <2>2. due' = Len(rows) + 1
      BY <2>1, Typed
    <2> QED BY <2>1, <2>2, RowStored
  <1>4. CASE PublishRow
    BY <1>4, PublishRowInv
  <1>5. CASE SilenceRow
    BY <1>5, SilenceRowInv
  <1>6. ASSUME NEW c \in Conns, WhisperToDm(c)
        PROVE  Inv'
    <2>1. /\ Len(rows) < MaxRows /\ rows' = Append(rows, Dm) /\ lost' = lost \cup {Len(rows')}
          /\ UNCHANGED <<world, due, present, at, sub, visible, read, roster, inbox, view, ghosts>>
      BY <1>6 DEF WhisperToDm
    <2>2. Dm \in Audiences
      BY DEF Audiences
    <2>3. lost' = lost \cup {Len(rows) + 1}
      BY <2>1, <2>2, Typed
    <2> QED BY <2>1, <2>2, <2>3, RowStored
  <1>7. ASSUME NEW c \in Conns,
               Connect(c) \/ SnapshotFails(c) \/ SubscriberDies(c) \/ Disconnect(c) \/ Serve(c)
        PROVE  Inv'
    BY <1>7, ConnectInv, BeforeSnapshotInv, ReadRosterInv, SubscriptionInv, DisconnectInv, AnnounceInv,
       SnapshotInv, ForwardInv, LeaveInv DEF Serve
  <1> QED BY <1>1, <1>2, <1>3, <1>4, <1>5, <1>6, <1>7 DEF Next

-----------------------------------------------------------------------------
(* Theorems *)

\* The whole invariant: from its snapshot's window on, every connection's log, stream
\* and gap account for the session's rows, in order.
THEOREM HubCorrect == Spec => []Inv
  BY InitInv, NextInv, PTL DEF Spec

\* Nobody is shown a whisper that is not theirs: what a client shows has passed
\* the filter of the snapshot or of the subscriber, and both hold its characters.
THEOREM NoWhisperLeaks == Spec => []WhispersPrivate
  <1>1. Inv => WhispersPrivate
    BY DEF Inv, ConnInv, SeenIsMine, Mine, WhispersPrivate, Elements
  <1> QED BY <1>1, HubCorrect, PTL

\* In the registry are the connections that are served and those whose snapshot failed,
\* and no other.
THEOREM RegistryRight == Spec => []RosterInv
  <1>1. Inv => RosterInv
    BY DEF Inv, RosterInv
  <1> QED BY <1>1, HubCorrect, PTL

\* A client's log is the session's in its order, at most one row twice in a row, and what
\* it lacks is older than its snapshot's window or was published between its query and
\* its subscription.
THEOREM LogsTrue == Spec => []LogTrue
  <1>1. Inv => LogTrue
    <2> SUFFICES ASSUME Inv PROVE LogTrue
      OBVIOUS
    <2>1. ShownInOrder
      <3> SUFFICES ASSUME NEW c \in Conns
                   PROVE  /\ \A i, j \in DOMAIN log[c] : i < j => log[c][i] <= log[c][j]
                          /\ \A i \in 1..Len(log[c]) - 2 : log[c][i] < log[c][i + 2]
        BY DEF ShownInOrder
      <3>1. LogOrdered(c) /\ DOMAIN log[c] = 1..Len(log[c]) /\ Len(log[c]) \in Nat
        BY Typed DEF Inv, ConnInv
      <3>2. \A i \in 1..Len(log[c]) - 2 :
              i \in DOMAIN log[c] /\ i + 2 \in DOMAIN log[c] /\ i < i + 2 /\ i + 1 < i + 2
        BY <3>1
      <3> QED BY <3>1, <3>2 DEF LogOrdered
    <2>2. MissedInGapOnly
      BY DEF Inv, ConnInv, NothingMissed, MissedInGapOnly
    <2> QED BY <2>1, <2>2 DEF LogTrue
  <1> QED BY <1>1, HubCorrect, PTL

-----------------------------------------------------------------------------
(* The roster that a client shows *)

\* Somebody is about to announce the registry as it is.
OnItsWay == \E d \in Conns : Newest(d)

\* A connection that has been read a roster and hears, or will hear, of the next.
Listening(c) == at[c] = "sending" \/ (at[c] = "live" /\ sub[c] \in {"starting", "on"})
HasNewest(c) == IF at[c] = "sending" THEN roster[c] = UsersOf(present)
                                      ELSE WillShow(c, UsersOf(present))

Follower(c) == Listening(c) /\ c \notin behind => HasNewest(c) \/ OnItsWay
FollowInv == \A c \in Conns : Follower(c)

\* Rows in the stream do not change what roster a client ends up with.
LEMMA RowsAside ==
    ASSUME Inv, NEW c \in Conns, NEW users \in SUBSET Users, WillShow(c, users),
           shown'[c] = shown[c],
           inbox'[c] = inbox[c] \/ \E id \in Ids : inbox'[c] = Append(inbox[c], RowFrame(id))
    PROVE  WillShow(c, users)'
  <1>1. CASE inbox'[c] = inbox[c]
    BY <1>1 DEF WillShow
  <1>2. ASSUME NEW id \in Ids, inbox'[c] = Append(inbox[c], RowFrame(id))
        PROVE  WillShow(c, users)'
    <2>1. PICK f : f = RowFrame(id) /\ f \in Frames /\ IsRow(f)
      BY FrameFacts
    <2>2. /\ \A k \in DOMAIN inbox[c] : k \in DOMAIN inbox'[c] /\ inbox'[c][k] = inbox[c][k]
          /\ \A k \in DOMAIN inbox'[c] : k \in DOMAIN inbox[c] \/ inbox'[c][k] = f
      <3>1. inbox[c] \in Seq(Frames) /\ Len(inbox[c]) \in Nat /\ DOMAIN inbox[c] = 1..Len(inbox[c])
        BY Typed
      <3>2. inbox'[c] = Append(inbox[c], f)
        BY <1>2, <2>1
      <3> QED BY <2>1, <3>1, <3>2, AppendElements
    <2>3. CASE shown[c] = users /\ \A k \in DOMAIN inbox[c] : IsRow(inbox[c][k])
      <3>1. \A k \in DOMAIN inbox'[c] : IsRow(inbox'[c][k])
        BY <2>1, <2>2, <2>3
      <3> QED BY <2>3, <3>1 DEF WillShow
    <2>4. ASSUME NEW k \in DOMAIN inbox[c], inbox[c][k] = RosterFrame(users),
                 \A l \in DOMAIN inbox[c] : k < l => IsRow(inbox[c][l])
          PROVE  WillShow(c, users)'
      <3>1. k \in DOMAIN inbox'[c] /\ inbox'[c][k] = RosterFrame(users)
        BY <2>2, <2>4
      <3>2. \A l \in DOMAIN inbox'[c] : k < l => IsRow(inbox'[c][l])
        BY <2>1, <2>2, <2>4
      <3> QED BY <3>1, <3>2 DEF WillShow
    <2> QED BY <2>3, <2>4 DEF WillShow
  <1> QED BY <1>1, <1>2

\* A step that leaves the registry, the announcers and the rosters alone.
LEMMA FollowQuiet ==
    ASSUME Inv, FollowInv, UNCHANGED <<user, present, at, sub, roster, shown, behind>>,
           \A c \in Conns : \/ inbox'[c] = inbox[c]
                            \/ \E id \in Ids : inbox'[c] = Append(inbox[c], RowFrame(id))
    PROVE  FollowInv'
  <1>1. UsersOf(present)' = UsersOf(present) /\ UsersOf(present) \in SUBSET Users
    BY Typed DEF UsersOf
  <1>2. OnItsWay' <=> OnItsWay
    BY <1>1 DEF OnItsWay, Newest, Announcing
  <1>3. ASSUME NEW c \in Conns PROVE Follower(c)'
    <2>1. Follower(c)
      BY DEF FollowInv
    <2>2. WillShow(c, UsersOf(present)) => WillShow(c, UsersOf(present))'
      <3>1. PICK users \in SUBSET Users : users = UsersOf(present) /\ users = UsersOf(present)'
        BY <1>1
      <3>2. WillShow(c, users) => WillShow(c, users)'
        BY RowsAside
      <3> QED BY <3>1, <3>2 DEF WillShow
    <2>3. HasNewest(c) => HasNewest(c)'
      BY <1>1, <2>2 DEF HasNewest
    <2> QED BY <1>2, <2>1, <2>3 DEF Follower, Listening
  <1> QED BY <1>3 DEF FollowInv

\* A step of one connection that announces nothing.
LEMMA FollowOne ==
    ASSUME Inv, FollowInv, NEW c \in Conns, UNCHANGED <<user, present>>,
           ~Announcing(c), ~Announcing(c)', Follower(c)',
           \A d \in Conns \ {c} :
              /\ at'[d] = at[d] /\ sub'[d] = sub[d] /\ roster'[d] = roster[d]
              /\ shown'[d] = shown[d] /\ inbox'[d] = inbox[d]
              /\ d \in behind' <=> d \in behind
    PROVE  FollowInv'
  <1>1. UsersOf(present)' = UsersOf(present)
    BY DEF UsersOf
  <1>2. OnItsWay' <=> OnItsWay
    BY <1>1 DEF OnItsWay, Newest, Announcing
  <1>3. ASSUME NEW d \in Conns \ {c} PROVE Follower(d)'
    BY <1>1, <1>2 DEF FollowInv, Follower, Listening, HasNewest, WillShow
  <1> QED BY <1>3 DEF FollowInv

\* Who joins or leaves has the newest roster to announce.
LEMMA FollowChange ==
    ASSUME Inv, NEW c \in Conns, Connect(c) \/ Leave(c)
    PROVE  FollowInv'
  <1>1. at'[c] \in {"joining", "left"} /\ roster'[c] = UsersOf(present')
    BY Typed DEF Connect, Leave, Go
  <1>2. UsersOf(present') = UsersOf(present)'
    BY DEF UsersOf, Connect, Leave, world
  <1>3. OnItsWay'
    BY <1>1, <1>2 DEF OnItsWay, Newest, Announcing
  <1> QED BY <1>3 DEF FollowInv, Follower

\* The snapshot is built, sent or not, and the subscription comes up and goes.
LEMMA FollowSnapshot ==
    ASSUME Inv, FollowInv, NEW c \in Conns,
           \/ ReadRows(c) \/ ReadRoster(c) \/ SendSnapshot(c) \/ SnapshotFails(c)
           \/ Subscribe(c) \/ SubscriberDies(c) \/ Disconnect(c)
    PROVE  FollowInv'
  <1>0. /\ ConnInv(c) /\ Follower(c) /\ DOMAIN inbox[c] = 1..Len(inbox[c])
        /\ UsersOf(present) \in SUBSET Users
    BY Typed DEF Inv, FollowInv, UsersOf
  <1>1. UNCHANGED <<user, present>> /\ UsersOf(present)' = UsersOf(present)
    BY DEF ReadRows, ReadRoster, SendSnapshot, SnapshotFails, Subscribe, SubscriberDies,
           Disconnect, world, UsersOf
  <1>2. \A d \in Conns \ {c} :
              /\ at'[d] = at[d] /\ sub'[d] = sub[d] /\ roster'[d] = roster[d]
              /\ shown'[d] = shown[d] /\ inbox'[d] = inbox[d]
              /\ d \in behind' <=> d \in behind
    BY Typed DEF ReadRows, ReadRoster, SendSnapshot, SnapshotFails, Subscribe, SubscriberDies,
                 Disconnect, view, ghosts, Go
  <1>3. ~Announcing(c) /\ ~Announcing(c)'
    BY <1>0, Typed DEF ReadRows, ReadRoster, SendSnapshot, SnapshotFails, Subscribe, SubscriberDies,
                 Disconnect, Go, Announcing, ConnInv, Stages
  <1>4. OnItsWay' <=> OnItsWay
    BY <1>1, <1>2, <1>3 DEF OnItsWay, Newest, Announcing
  <1>5. Follower(c)'
    <2>1. CASE ReadRows(c) \/ SnapshotFails(c) \/ Disconnect(c)
      <3>1. at'[c] \in {"reading", "vanished", "leaving"}
        BY <2>1, Typed DEF ReadRows, SnapshotFails, Disconnect, Go
      <3> QED BY <3>1 DEF Follower, Listening
    <2>2. CASE ReadRoster(c)
      <3>1. at'[c] = "sending" /\ roster'[c] = UsersOf(present)
        BY <2>2, Typed DEF ReadRoster, Go
      <3> QED BY <1>1, <3>1 DEF Follower, HasNewest
    <2>3. CASE SendSnapshot(c)
      <3>1. /\ at[c] = "sending" /\ at'[c] = "live" /\ shown'[c] = roster[c]
            /\ inbox' = inbox /\ behind' = behind
        BY <2>3, Typed DEF SendSnapshot, ghosts, Go
      <3>2. DOMAIN inbox'[c] = {}
        BY <1>0, <3>1 DEF ConnInv, Stages
      <3> QED BY <1>0, <1>1, <1>4, <3>1, <3>2 DEF Follower, Listening, HasNewest, WillShow
    <2>4. CASE Subscribe(c)
      <3>1. /\ at' = at /\ shown' = shown /\ inbox' = inbox /\ behind' = behind
            /\ sub[c] = "starting" /\ at[c] = "live"
        BY <1>0, <2>4 DEF Subscribe, view, ghosts, ConnInv, Stages
      <3> QED BY <1>0, <1>1, <1>4, <3>1 DEF Follower, Listening, HasNewest, WillShow
    <2>5. CASE SubscriberDies(c)
      <3>1. sub'[c] = "dead" /\ at'[c] = "live"
        BY <1>0, <2>5, Typed DEF SubscriberDies, ConnInv, Stages
      <3> QED BY <3>1 DEF Follower, Listening
    <2> QED BY <2>1, <2>2, <2>3, <2>4, <2>5
  <1> QED BY <1>1, <1>2, <1>3, <1>5, FollowOne

\* What a client will show does not change when it shows the next frame.
LEMMA FollowForward ==
    ASSUME Inv, FollowInv, NEW c \in Conns, Forward(c)
    PROVE  FollowInv'
  <1> DEFINE frame == Head(inbox[c])
  <1>0. /\ ConnInv(c) /\ Follower(c) /\ inbox[c] \in Seq(Frames) /\ inbox[c] # <<>>
        /\ UNCHANGED <<user, present, at, sub, roster, behind>> /\ sub[c] = "on"
        /\ inbox' = [inbox EXCEPT ![c] = Tail(inbox[c])]
    BY Typed DEF Inv, FollowInv, Forward, world, ghosts
  <1>1. /\ Len(inbox[c]) \in Nat \ {0} /\ DOMAIN inbox[c] = 1..Len(inbox[c])
        /\ frame = inbox[c][1] /\ frame \in Frames
        /\ DOMAIN inbox'[c] = 1..(Len(inbox[c]) - 1)
        /\ \A k \in DOMAIN inbox'[c] : inbox'[c][k] = inbox[c][k + 1]
    BY <1>0, Typed, TailElements
  <1>2. /\ \A d \in Conns \ {c} : shown'[d] = shown[d] /\ inbox'[d] = inbox[d]
        /\ IsRow(frame) => shown'[c] = shown[c]
        /\ ~IsRow(frame) => shown'[c] = frame.roster
    BY <1>0, Typed DEF Forward, view
  <1>3. at[c] = "live" /\ at'[c] = "live" /\ ~Announcing(c) /\ ~Announcing(c)'
    BY <1>0 DEF ConnInv, Stages, Announcing
  <1> HIDE DEF frame
  <1>4. UsersOf(present)' = UsersOf(present) /\ UsersOf(present) \in SUBSET Users
    BY <1>0, Typed DEF UsersOf
  <1>5. OnItsWay' <=> OnItsWay
    BY <1>0, <1>4 DEF OnItsWay, Newest, Announcing
  <1>6. ASSUME NEW users \in SUBSET Users, WillShow(c, users)
        PROVE  WillShow(c, users)'
    <2>1. RosterFrame(users) \in Frames /\ ~IsRow(RosterFrame(users))
      BY FrameFacts
    <2>2. RosterFrame(users).roster = users
      BY DEF RosterFrame
    <2>3. CASE shown[c] = users /\ \A k \in DOMAIN inbox[c] : IsRow(inbox[c][k])
      <3>1. \A k \in DOMAIN inbox'[c] : k + 1 \in DOMAIN inbox[c]
        BY <1>1
      <3> QED BY <1>1, <1>2, <2>3, <3>1 DEF WillShow
    <2>4. ASSUME NEW k \in DOMAIN inbox[c], inbox[c][k] = RosterFrame(users),
                 \A l \in DOMAIN inbox[c] : k < l => IsRow(inbox[c][l])
          PROVE  WillShow(c, users)'
      <3>1. \A l \in DOMAIN inbox'[c] : l + 1 \in DOMAIN inbox[c] /\ (k - 1 < l => k < l + 1)
        BY <1>1
      <3>2. CASE k = 1
        <4>1. shown'[c] = users
          BY <1>1, <1>2, <2>1, <2>2, <2>4, <3>2
        <4>2. \A l \in DOMAIN inbox'[c] : IsRow(inbox'[c][l])
          BY <1>1, <2>4, <3>1, <3>2
        <4> QED BY <4>1, <4>2 DEF WillShow
      <3>3. CASE k # 1
        <4>1. k - 1 \in DOMAIN inbox'[c] /\ (k - 1) + 1 = k
          BY <1>1, <3>3
        <4>2. inbox'[c][k - 1] = RosterFrame(users)
          BY <1>1, <2>4, <4>1
        <4>3. \A l \in DOMAIN inbox'[c] : k - 1 < l => IsRow(inbox'[c][l])
          BY <1>1, <2>4, <3>1
        <4> QED BY <4>1, <4>2, <4>3 DEF WillShow
      <3> QED BY <3>2, <3>3
    <2> QED BY <1>6, <2>3, <2>4 DEF WillShow
  <1>7. Follower(c)'
    <2>1. WillShow(c, UsersOf(present)) => WillShow(c, UsersOf(present))'
      <3>1. PICK users \in SUBSET Users : users = UsersOf(present) /\ users = UsersOf(present)'
        BY <1>4
      <3> QED BY <1>6, <3>1 DEF WillShow
    <2> QED BY <1>0, <1>3, <1>5, <2>1 DEF Follower, Listening, HasNewest
  <1> QED BY <1>0, <1>2, <1>3, <1>7, FollowOne

\* An announcement goes out or fails.
LEMMA FollowAnnounce ==
    ASSUME Inv, FollowInv, NEW c \in Conns, AnnounceJoin(c) \/ AnnounceLeave(c)
    PROVE  FollowInv'
  <1>0. /\ user' = user /\ sub' = sub /\ shown' = shown /\ roster' = [roster EXCEPT ![c] = {}]
        /\ Announcing(c) /\ roster[c] \in SUBSET Users
    BY Typed DEF AnnounceJoin, AnnounceLeave, world, view, Announcing
  <1>1. /\ at'[c] \in {"announced", "gone"}
        /\ \A d \in Conns \ {c} : at'[d] = at[d] /\ roster'[d] = roster[d]
    BY <1>0, Typed DEF AnnounceJoin, AnnounceLeave, Go
  <1>2. (Announce(c) /\ present' = present) \/ behind' = behind \cup Informed
    BY DEF AnnounceJoin, AnnounceLeave
  <1>3. CASE behind' = behind \cup Informed
    <2>1. \A d \in Conns : Listening(d)' => d \in behind'
      BY <1>0, <1>1, <1>3 DEF Listening, Informed
    <2> QED BY <2>1 DEF FollowInv, Follower
  <1>4. CASE Announce(c) /\ present' = present
    <2> DEFINE subscribed == {d \in Conns : sub[d] = "on"}
               missing == {d \in Informed : Unsubscribed(d) /\ InHand(d) # roster[c]}
    <2>1. behind' = IF Newest(c) THEN (behind \ subscribed) \cup missing
                    ELSE IF \E d \in Conns \ {c} : Newest(d) THEN behind
                    ELSE behind \cup subscribed
      BY <1>4 DEF Announce
    <2>2. PICK f : f = RosterFrame(roster[c]) /\ f \in Frames /\ ~IsRow(f)
      BY <1>0, FrameFacts
    <2>3. inbox' = [d \in Conns |-> IF sub[d] = "on" THEN Append(inbox[d], f) ELSE inbox[d]]
      BY <1>4, <2>2 DEF Announce, Publish
    <2>4. UsersOf(present)' = UsersOf(present)
      BY <1>0, <1>4 DEF UsersOf
    <2>5. \A d \in Conns \ {c} : Newest(d)' <=> Newest(d)
      BY <1>1, <2>4 DEF Newest, Announcing
    <2>6. \A d \in Conns : Listening(d)' => Listening(d) /\ d # c /\ d \in Informed
      BY <1>0, <1>1 DEF Listening, Informed
    <2>7. \A d \in Conns : Listening(d) /\ sub[d] # "on" =>
             Unsubscribed(d) /\ inbox'[d] = inbox[d] /\ inbox[d] = <<>>
      BY <2>3, Typed DEF Listening, Unsubscribed, Inv, ConnInv, Stages
    <2>8. ASSUME NEW d \in Conns, Listening(d)', d \notin behind'
          PROVE  HasNewest(d)' \/ OnItsWay'
      <3>0. Listening(d) /\ d # c /\ d \in Informed /\ Follower(d) /\ at'[d] = at[d]
        BY <1>1, <2>6, <2>8 DEF FollowInv
      <3>1. CASE Newest(c)
        <4>1. roster[c] = UsersOf(present)
          BY <3>1 DEF Newest
        <4>2. CASE sub[d] = "on"
          <5>1. inbox'[d] = Append(inbox[d], f) /\ at[d] = "live"
            BY <2>3, <4>2 DEF Inv, ConnInv, Stages
          <5>2. /\ Len(inbox[d]) + 1 \in DOMAIN inbox'[d] /\ inbox'[d][Len(inbox[d]) + 1] = f
                /\ \A l \in DOMAIN inbox'[d] : ~(Len(inbox[d]) + 1 < l)
            BY <2>2, <5>1, Typed, AppendElements
          <5>3. f = RosterFrame(UsersOf(present)')
            BY <2>2, <2>4, <4>1
          <5>4. WillShow(d, UsersOf(present))'
            BY <5>2, <5>3 DEF WillShow
          <5> QED BY <3>0, <5>1, <5>4 DEF HasNewest
        <4>3. CASE sub[d] # "on"
          <5>1. Unsubscribed(d) /\ inbox'[d] = <<>>
            BY <2>7, <3>0, <4>3
          <5>2. d \notin missing
            BY <2>1, <2>8, <3>1
          <5>3. InHand(d) = UsersOf(present)
            BY <3>0, <4>1, <5>1, <5>2
          <5>4. CASE at[d] = "sending"
            BY <1>1, <2>4, <3>0, <5>3, <5>4 DEF InHand, HasNewest
          <5>5. CASE at[d] # "sending"
            <6>1. shown'[d] = UsersOf(present)' /\ DOMAIN inbox'[d] = {}
              BY <1>0, <2>4, <5>1, <5>3, <5>5 DEF InHand
            <6> QED BY <3>0, <5>5, <6>1 DEF HasNewest, WillShow
          <5> QED BY <5>4, <5>5
        <4> QED BY <4>2, <4>3
      <3>2. CASE \E e \in Conns \ {c} : Newest(e)
        BY <2>5, <3>2 DEF OnItsWay
      <3>3. CASE ~Newest(c) /\ ~\E e \in Conns \ {c} : Newest(e)
        <4>1. sub[d] # "on" /\ d \notin behind
          BY <2>1, <2>8, <3>3
        <4>2. HasNewest(d)
          BY <3>0, <3>3, <4>1 DEF Follower, OnItsWay
        <4>3. inbox'[d] = inbox[d] /\ shown'[d] = shown[d] /\ roster'[d] = roster[d]
          BY <1>0, <1>1, <2>7, <3>0, <4>1
        <4> QED BY <2>4, <3>0, <4>2, <4>3 DEF HasNewest, WillShow
      <3> QED BY <3>1, <3>2, <3>3
    <2> QED BY <2>8 DEF FollowInv, Follower
  <1> QED BY <1>2, <1>3, <1>4

\* Every step keeps the table following the registry.
LEMMA NextFollows == Inv /\ FollowInv /\ [Next]_vars => FollowInv'
  <1> SUFFICES ASSUME Inv, FollowInv, [Next]_vars PROVE FollowInv'
    OBVIOUS
  <1>1. CASE UNCHANGED vars
    BY <1>1, FollowQuiet DEF vars, world, view, ghosts
  <1>2. CASE \/ \E ch \in Chars : Enroll(ch)
             \/ \E audience \in Audiences : StoreRow(audience)
             \/ SilenceRow
             \/ \E c \in Conns : WhisperToDm(c)
    <2>1. UNCHANGED <<user, present, at, sub, roster, shown, behind, inbox>>
      BY <1>2 DEF Enroll, StoreRow, SilenceRow, WhisperToDm, world, view, ghosts
    <2> QED BY <2>1, FollowQuiet
  <1>3. CASE PublishRow
    <2>1. /\ UNCHANGED <<user, present, at, sub, roster, shown, behind>> /\ due \in Ids
          /\ inbox' = [c \in Conns |-> IF sub[c] = "on" THEN Append(inbox[c], RowFrame(due))
                                                        ELSE inbox[c]]
      BY <1>3, Typed DEF PublishRow, Publish, world, view
    <2> QED BY <2>1, FollowQuiet
  <1>4. ASSUME NEW c \in Conns,
               Connect(c) \/ SnapshotFails(c) \/ SubscriberDies(c) \/ Disconnect(c) \/ Serve(c)
        PROVE  FollowInv'
    BY <1>4, FollowChange, FollowSnapshot, FollowForward, FollowAnnounce DEF Serve
  <1> QED BY <1>1, <1>2, <1>3, <1>4 DEF Next

\* A client whose subscription is up converges on the registry, but for those whose last
\* announcement was missed, overtaken or lost: whoever changes the registry announces it,
\* and an announcement that is overtaken by none is the registry as it is.
THEOREM RosterConverges == Spec => []RosterFollows
  <1>1. Init => FollowInv
    BY DEF Init, FollowInv, Follower, Listening
  <1>2. FollowInv => RosterFollows
    BY DEF FollowInv, Follower, Listening, HasNewest, OnItsWay, RosterFollows
  <1> QED BY <1>1, <1>2, HubCorrect, NextFollows, PTL DEF Spec

=============================================================================
