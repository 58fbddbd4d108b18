---------------------------- MODULE StoryProofs ----------------------------
(***************************************************************************)
(* For any sessions, requests, beats, secrets and places: a campaign's     *)
(* state stays a playthrough of its module, what has happened in the story *)
(* is forgotten to an overlap alone, and the campaign's summary never      *)
(* loses what it has taken in.                                             *)
(***************************************************************************)
EXTENDS Story, SequenceLemmas

-----------------------------------------------------------------------------
(* The invariant *)

States == [loaded : BOOLEAN, pending : SUBSET Beats, hit : SUBSET Beats, revealed : SUBSET Secrets]

Working == {"read", "flushed"}
StateCalls == [phase : Working, tool : {"mark_beat", "reveal_secret"}, state : States]
Moves == [phase : Working, tool : {"transition_location"}, to : Nat]
Foundings == [phase : Working, tool : {"transition_location"}, create : Names]
Calls == {NoCall} \union StateCalls \union Moves \union Foundings

Checked == [op : {"end"}, stage : {"checked"}, of : Sessions]
Waiting == [op : {"end"}, stage : {"waiting"}, of : Sessions, own : 0..MaxTold]
Summing == [op : {"end"}, stage : {"summing"}, of : Sessions, prior : Versions, sums : Versions]
Extracting == [op : {"extract"}, of : Sessions, attempt : 1..Retries]
Loading == [op : {"load"}]
Reqs == {Closed} \union Checked \union Waiting \union Summing \union Extracting \union Loading

Typed ==
    /\ session \in [Sessions -> {"none", "open", "ended"}]
    /\ at \in [Sessions -> {Nowhere} \union Nat]
    /\ told \in Versions /\ long \in Versions
    /\ module \in States
    /\ places \in Seq(Names)
    /\ call \in [Sessions -> Calls]
    /\ moved \in [Sessions -> BOOLEAN]
    /\ req \in [Requests -> Reqs]
    /\ queue \in Seq(Requests)
    /\ modules \subseteq Sessions

\* A playthrough, in the row and in what a tool call is about to write.
PlayInv ==
    /\ Playthrough(module)
    /\ \A s \in Sessions : call[s] \in StateCalls => Playthrough(call[s].state)

\* The party is where a row is, and places are never taken away.
PlacesInv ==
    /\ \A s \in Sessions : at[s] = Nowhere \/ at[s] \in DOMAIN places
    /\ \A s \in Sessions : call[s] \in Moves => call[s].to \in DOMAIN places

\* A call that nobody has overtaken adds to what is there.
AddsOn(s) ==
    /\ call[s] \in StateCalls =>
         module.hit \subseteq call[s].state.hit /\ module.revealed \subseteq call[s].state.revealed
    /\ call[s] \in Foundings => Matches(call[s].create) = {}
FreshInv == \A s \in Sessions : moved[s] \/ AddsOn(s)

\* The writer lock has one holder.
Flushed == {s \in Sessions : call[s].phase = "flushed"}
Loads == {r \in Requests : req[r].op = "load"}
WriterInv ==
    /\ \A s, q \in Flushed : s = q
    /\ \A q, r \in Loads : q = r
    /\ Flushed = {} \/ Loads = {}

\* The summary's queue; who sums is its head and works from the summary as it is.
QueueInv ==
    /\ OnceEach(queue)
    /\ Listed(queue) = Queued
    /\ \A r \in Requests : req[r] \in Summing =>
         /\ queue # <<>> /\ Head(queue) = r
         /\ req[r].prior = long

\* Nothing is claimed that was not told.
ToldInv ==
    /\ \A s \in Sessions : long[s] <= told[s]
    /\ \A r \in Requests : req[r] \in Waiting => req[r].own <= told[req[r].of]
    /\ \A r \in Requests : req[r] \in Summing => \A s \in Sessions : req[r].sums[s] <= told[s]

\* A module comes of a session that is over.
ModulesInv ==
    /\ \A s \in modules : session[s] = "ended"
    /\ \A r \in Requests : req[r] \in Extracting => session[req[r].of] = "ended"

Inv == Typed /\ PlayInv /\ PlacesInv /\ FreshInv /\ WriterInv /\ QueueInv /\ ToldInv /\ ModulesInv

-----------------------------------------------------------------------------
(* What a tool call or a request in hand is known by *)

\* A tool call in hand writes a state, moves the party or founds a place.
LEMMA CallKinds ==
    ASSUME NEW c \in Calls
    PROVE  /\ c = NoCall \/ c \in StateCalls \/ c \in Moves \/ c \in Foundings
           /\ c = NoCall <=> c.phase \notin Working
           /\ c = NoCall => c \notin StateCalls /\ c \notin Moves /\ c \notin Foundings
           /\ c = NoCall => "state" \notin DOMAIN c
           /\ c \in StateCalls =>
                /\ c \notin Moves /\ c \notin Foundings
                /\ c.tool \in {"mark_beat", "reveal_secret"} /\ c.state \in States
                /\ "create" \notin DOMAIN c
           /\ c \in Moves =>
                /\ c \notin Foundings
                /\ c.tool = "transition_location" /\ c.to \in Nat
                /\ "to" \in DOMAIN c /\ "create" \notin DOMAIN c /\ "state" \notin DOMAIN c
           /\ c \in Foundings =>
                /\ c.tool = "transition_location" /\ c.create \in Names
                /\ "to" \notin DOMAIN c /\ "create" \in DOMAIN c /\ "state" \notin DOMAIN c
  BY DEF Calls, NoCall, StateCalls, Moves, Foundings, Working

\* A request is known by its operation and its stage.
LEMMA ReqKinds ==
    ASSUME NEW x \in Reqs
    PROVE  /\ x.op = "none" <=> x = Closed
           /\ x.op = "load" <=> x \in Loading
           /\ x.op = "extract" <=> x \in Extracting
           /\ x.op = "end" <=> x \in Checked \union Waiting \union Summing
           /\ x.op = "end" => (x.stage = "checked" <=> x \in Checked)
           /\ x.op = "end" => (x.stage = "waiting" <=> x \in Waiting)
           /\ x.op = "end" => (x.stage = "summing" <=> x \in Summing)
  BY DEF Reqs, Closed, Checked, Waiting, Summing, Extracting, Loading

\* The kinds of requests have nothing in common.
LEMMA ReqApart ==
    /\ \A x \in Checked : x.op = "end" /\ x.of \in Sessions /\ x \notin Waiting /\ x \notin Summing
                          /\ x \notin Extracting /\ x \notin Loading /\ x # Closed
    /\ \A x \in Waiting : x.op = "end" /\ x.of \in Sessions /\ x \notin Summing
                          /\ x \notin Extracting /\ x \notin Loading /\ x # Closed
    /\ \A x \in Summing : x.op = "end" /\ x.of \in Sessions /\ x \notin Extracting
                          /\ x \notin Loading /\ x # Closed
    /\ \A x \in Extracting : x.op = "extract" /\ x.of \in Sessions /\ x \notin Loading /\ x # Closed
    /\ \A x \in Loading : x # Closed
    /\ Closed \notin Checked \union Waiting \union Summing \union Extracting \union Loading
  BY DEF Closed, Checked, Waiting, Summing, Extracting, Loading

\* Who is queued, by its record.
LEMMA QueuedIs ==
    ASSUME NEW x \in Reqs
    PROVE  (x.op = "end" /\ x.stage \in {"waiting", "summing"}) <=> (x \in Waiting \/ x \in Summing)
  BY ReqKinds, ReqApart

-----------------------------------------------------------------------------
(* The first state *)

\* The first state satisfies the invariant.
LEMMA InitInv == Init => Inv
  <1> SUFFICES ASSUME Init PROVE Inv
    OBVIOUS
  <1> USE DEF Init
  <1>1. Typed
    <2>1. told \in Versions /\ long \in Versions
      BY BoundsAssumption DEF Versions
    <2>2. module \in States /\ places \in Seq(Names)
      <3>1. Unplayed \in States /\ Bare \in States
        BY DEF States, Unplayed, Bare
      <3>2. <<>> \in Seq(Names)
        OBVIOUS
      <3> QED BY <3>1, <3>2, OpeningAssumption
    <2>3. call \in [Sessions -> Calls] /\ req \in [Requests -> Reqs]
      BY DEF Calls, Reqs
    <2> QED BY <2>1, <2>2, <2>3 DEF Typed
  <1>2. NoCall \notin StateCalls /\ NoCall \notin Moves /\ NoCall \notin Foundings
        /\ NoCall.phase = "none"
    BY CallKinds DEF Calls, NoCall
  <1>3. Closed.op = "none"
    BY DEF Closed
  <1>4. PlayInv
    BY <1>2 DEF PlayInv, Playthrough, Unplayed, Bare
  <1>5. PlacesInv /\ FreshInv
    BY <1>2 DEF PlacesInv, FreshInv, AddsOn
  <1>6. WriterInv
    BY <1>2, <1>3 DEF WriterInv, Flushed, Loads
  <1>7. QueueInv
    <2>1. Queued = {} /\ Listed(queue) = {}
      BY <1>3 DEF Queued, Listed
    <2> QED BY <2>1, ReqApart DEF QueueInv, OnceEach
  <1>8. ToldInv /\ ModulesInv
    BY ReqApart, <1>1 DEF ToldInv, ModulesInv
  <1> QED BY <1>1, <1>4, <1>5, <1>6, <1>7, <1>8 DEF Inv

-----------------------------------------------------------------------------
(* What a step leaves alone *)

\* A step that touches neither campaign nor calls keeps what is said of them.
LEMMA SameCalls ==
    ASSUME Inv, UNCHANGED <<module, places, at, call, moved>>
    PROVE  PlayInv' /\ PlacesInv' /\ FreshInv'
  BY DEF Inv, PlayInv, PlacesInv, FreshInv, AddsOn, Matches, Playthrough

\* A step that touches neither requests nor queue keeps what is said of them, if more is told.
LEMMA SameRequests ==
    ASSUME Inv, UNCHANGED <<long, queue, req>>, \A s \in Sessions : told[s] <= told'[s],
           told' \in Versions
    PROVE  QueueInv' /\ ToldInv'
  <1>1. QueueInv'
    BY DEF Inv, QueueInv, OnceEach, Listed, Queued
  <1>2. \A s \in Sessions : told[s] \in Nat /\ told'[s] \in Nat /\ long[s] \in Nat
    BY BoundsAssumption DEF Inv, Typed, Versions
  <1>3. \A r \in Requests : req[r] \in Waiting => req[r].own \in Nat /\ req[r].of \in Sessions
    BY BoundsAssumption DEF Waiting
  <1>4. \A r \in Requests : req[r] \in Summing => \A s \in Sessions : req[r].sums[s] \in Nat
    BY BoundsAssumption DEF Summing, Versions
  <1>5. ToldInv'
    BY <1>2, <1>3, <1>4 DEF Inv, ToldInv
  <1> QED BY <1>1, <1>5

\* The writer lock changes hands by calls and requests alone.
LEMMA SameWriter ==
    ASSUME Inv, UNCHANGED <<call, req>>
    PROVE  WriterInv'
  BY DEF Inv, WriterInv, Flushed, Loads

-----------------------------------------------------------------------------
(* Sessions *)

\* A session that opens was not there before.
LEMMA CreateInv ==
    ASSUME Inv, NEW s \in Sessions, CreateSession(s)
    PROVE  Inv'
  <1> USE DEF CreateSession, table, campaign, calls
  <1>1. Typed'
    BY DEF Inv, Typed
  <1>2. PlayInv' /\ PlacesInv' /\ FreshInv' /\ WriterInv'
    BY SameCalls, SameWriter
  <1>3. QueueInv' /\ ToldInv'
    <2>1. \A q \in Sessions : told[q] <= told'[q]
      BY BoundsAssumption DEF Inv, Typed, Versions
    <2> QED BY <1>1, <2>1, SameRequests DEF Typed
  <1>4. ModulesInv'
    BY DEF Inv, Typed, ModulesInv, Extracting
  <1> QED BY <1>1, <1>2, <1>3, <1>4 DEF Inv

\* Renewing a session's summary tells more.
LEMMA RenewInv ==
    ASSUME Inv, NEW s \in Sessions, Renew(s)
    PROVE  Inv'
  <1> USE DEF Renew, table, campaign, calls
  <1>0. told' \in Versions /\ \A q \in Sessions : told[q] <= told'[q]
    BY BoundsAssumption DEF Inv, Typed, Versions
  <1>1. Typed'
    BY <1>0 DEF Inv, Typed
  <1>2. PlayInv' /\ PlacesInv' /\ FreshInv' /\ WriterInv'
    BY SameCalls, SameWriter
  <1>3. QueueInv' /\ ToldInv'
    BY <1>0, SameRequests
  <1>4. ModulesInv'
    BY DEF Inv, Typed, ModulesInv, Extracting
  <1> QED BY <1>1, <1>2, <1>3, <1>4 DEF Inv

-----------------------------------------------------------------------------
(* Tool calls *)

\* What reads alone leaves alone.
LEMMA ReadInv ==
    ASSUME Inv, NEW s \in Sessions, NEW c \in Calls, Read(s, c),
           c.phase = "read",
           c \in StateCalls => /\ Playthrough(c.state)
                               /\ module.hit \subseteq c.state.hit
                               /\ module.revealed \subseteq c.state.revealed,
           c \in Moves => c.to \in DOMAIN places,
           c \in Foundings => Matches(c.create) = {}
    PROVE  Inv'
  <1> USE DEF Read, CanCall, table, campaign
  <1>0. /\ \A q \in Sessions : call'[q] = IF q = s THEN c ELSE call[q]
        /\ \A q \in Sessions : moved'[q] = IF q = s THEN FALSE ELSE moved[q]
        /\ call' \in [Sessions -> Calls] /\ moved' \in [Sessions -> BOOLEAN]
    BY DEF Inv, Typed
  <1>1. Typed'
    BY <1>0 DEF Inv, Typed
  <1>2. PlayInv'
    BY <1>0 DEF Inv, PlayInv, Playthrough
  <1>3. PlacesInv'
    BY <1>0 DEF Inv, PlacesInv
  <1>4. FreshInv'
    BY <1>0 DEF Inv, FreshInv, AddsOn, Matches
  <1>5. WriterInv'
    <2>1. Flushed' \subseteq Flushed /\ Loads' = Loads
      BY <1>0 DEF Flushed, Loads
    <2> QED BY <2>1 DEF Inv, WriterInv
  <1>6. QueueInv' /\ ToldInv'
    <2>1. \A q \in Sessions : told[q] <= told'[q]
      BY BoundsAssumption DEF Inv, Typed, Versions
    <2> QED BY <1>1, <2>1, SameRequests DEF Typed
  <1>7. ModulesInv'
    BY DEF Inv, ModulesInv
  <1> QED BY <1>1, <1>2, <1>3, <1>4, <1>5, <1>6, <1>7 DEF Inv

\* A beat that is marked goes from pending to hit.
LEMMA MarkBeatInv ==
    ASSUME Inv, NEW s \in Sessions, NEW b \in Beats, MarkBeat(s, b)
    PROVE  Inv'
  <1> DEFINE c == [phase |-> "read", tool |-> "mark_beat", state |-> Hit(module, b)]
  <1>1. module \in States /\ Playthrough(module) /\ module.loaded /\ b \in module.pending
    BY DEF Inv, Typed, PlayInv, MarkBeat
  <1>2. /\ Hit(module, b) \in States /\ Playthrough(Hit(module, b))
        /\ module.hit \subseteq Hit(module, b).hit /\ module.revealed \subseteq Hit(module, b).revealed
    BY <1>1 DEF Hit, States, Playthrough
  <1>3. c \in StateCalls /\ c \in Calls /\ c.phase = "read" /\ c.state = Hit(module, b)
    BY <1>2 DEF StateCalls, Calls, Working
  <1>4. c \notin Moves /\ c \notin Foundings
    BY <1>3, CallKinds
  <1>5. Read(s, c)
    BY DEF MarkBeat
  <1> HIDE DEF c
  <1> QED BY <1>2, <1>3, <1>4, <1>5, ReadInv

\* A secret is added to those revealed.
LEMMA RevealInv ==
    ASSUME Inv, NEW s \in Sessions, NEW x \in Secrets, RevealSecret(s, x)
    PROVE  Inv'
  <1> DEFINE next == [module EXCEPT !.revealed = @ \union {x}]
             c == [phase |-> "read", tool |-> "reveal_secret", state |-> next]
  <1>1. module \in States /\ Playthrough(module)
    BY DEF Inv, Typed, PlayInv
  <1>2. /\ next \in States /\ Playthrough(next)
        /\ module.hit \subseteq next.hit /\ module.revealed \subseteq next.revealed
    BY <1>1 DEF States, Playthrough
  <1>3. c \in StateCalls /\ c \in Calls /\ c.phase = "read" /\ c.state = next
    BY <1>2 DEF StateCalls, Calls, Working
  <1>4. c \notin Moves /\ c \notin Foundings
    BY <1>3, CallKinds
  <1>5. Read(s, c)
    BY DEF RevealSecret
  <1> HIDE DEF c, next
  <1> QED BY <1>2, <1>3, <1>4, <1>5, ReadInv

\* The party moves to a place that is there.
LEMMA MoveInv ==
    ASSUME Inv, NEW s \in Sessions, NEW l \in DOMAIN places, MoveById(s, l)
    PROVE  Inv'
  <1> DEFINE c == [phase |-> "read", tool |-> "transition_location", to |-> l]
  <1>1. l \in Nat
    BY DEF Inv, Typed
  <1>2. c \in Moves /\ c \in Calls /\ c.phase = "read" /\ c.to = l
    BY <1>1 DEF Moves, Calls, Working
  <1>3. c \notin StateCalls /\ c \notin Foundings
    BY <1>2, CallKinds
  <1>4. Read(s, c)
    BY DEF MoveById
  <1> HIDE DEF c
  <1> QED BY <1>2, <1>3, <1>4, ReadInv

\* A name that fits no place founds one.
LEMMA FoundInv ==
    ASSUME Inv, NEW s \in Sessions, NEW n \in Names, MoveByName(s, n)
    PROVE  Inv'
  <1>1. CASE Matches(n) # {}
    <2>1. PICK l \in Matches(n) : MoveById(s, l)
      BY <1>1 DEF MoveByName
    <2>2. l \in DOMAIN places
      BY DEF Matches
    <2> QED BY <2>1, <2>2, MoveInv
  <1>2. CASE Matches(n) = {}
    <2> DEFINE c == [phase |-> "read", tool |-> "transition_location", create |-> n]
    <2>1. c \in Foundings /\ c \in Calls /\ c.phase = "read" /\ c.create = n
      BY DEF Foundings, Calls, Working
    <2>2. c \notin StateCalls /\ c \notin Moves
      BY <2>1, CallKinds
    <2>3. Read(s, c)
      BY <1>2 DEF MoveByName
    <2> HIDE DEF c
    <2> QED BY <1>2, <2>1, <2>2, <2>3, ReadInv
  <1> QED BY <1>1, <1>2

\* A flush takes the writer lock and writes what the call has read and changed.
LEMMA FlushInv ==
    ASSUME Inv, NEW s \in Sessions, Flush(s)
    PROVE  Inv'
  <1> USE DEF Flush, table, campaign
  <1> DEFINE c == [call[s] EXCEPT !.phase = "flushed"]
  <1>0. /\ \A q \in Sessions : call'[q] = IF q = s THEN c ELSE call[q]
        /\ call[s] \in Calls /\ call[s] # NoCall
    BY CallKinds DEF Inv, Typed, Working
  <1>1. /\ c \in Calls
        /\ c \in StateCalls => call[s] \in StateCalls /\ c.state = call[s].state
        /\ c \in Moves => call[s] \in Moves /\ c.to = call[s].to
        /\ c \in Foundings => call[s] \in Foundings /\ c.create = call[s].create
    <2>1. CASE call[s] \in StateCalls
      <3>1. c \in StateCalls /\ c \in Calls /\ c.state = call[s].state
        BY <2>1 DEF StateCalls, Calls, Working
      <3> HIDE DEF c
      <3> QED BY <2>1, <3>1, CallKinds
    <2>2. CASE call[s] \in Moves
      <3>1. c \in Moves /\ c \in Calls /\ c.to = call[s].to
        BY <2>2 DEF Moves, Calls, Working
      <3> HIDE DEF c
      <3> QED BY <2>2, <3>1, CallKinds
    <2>3. CASE call[s] \in Foundings
      <3>1. c \in Foundings /\ c \in Calls /\ c.create = call[s].create
        BY <2>3 DEF Foundings, Calls, Working
      <3> HIDE DEF c
      <3> QED BY <2>3, <3>1, CallKinds
    <2> QED BY <1>0, <2>1, <2>2, <2>3 DEF Calls
  <1> HIDE DEF c
  <1>2. call' \in [Sessions -> Calls]
    BY <1>0, <1>1 DEF Inv, Typed
  <1>3. Typed'
    BY <1>2 DEF Inv, Typed
  <1>4. PlayInv'
    BY <1>0, <1>1 DEF Inv, PlayInv, Playthrough
  <1>5. PlacesInv'
    BY <1>0, <1>1 DEF Inv, PlacesInv
  <1>6. FreshInv'
    BY <1>0, <1>1 DEF Inv, FreshInv, AddsOn, Matches
  <1>7. WriterInv'
    <2>1. Flushed' \subseteq {s} /\ Loads' = {}
      BY <1>0 DEF Flushed, Loads, WriterFree
    <2> QED BY <2>1 DEF WriterInv
  <1>8. QueueInv' /\ ToldInv'
    <2>1. \A q \in Sessions : told[q] <= told'[q]
      BY BoundsAssumption DEF Inv, Typed, Versions
    <2> QED BY <1>3, <2>1, SameRequests DEF Typed
  <1>9. ModulesInv'
    BY DEF Inv, ModulesInv
  <1> QED BY <1>3, <1>4, <1>5, <1>6, <1>7, <1>8, <1>9 DEF Inv

\* What a commit writes, by the kind of the call.
LEMMA CommitWrites ==
    ASSUME Typed, NEW s \in Sessions, Commit(s)
    PROVE  /\ call[s] \in Calls /\ call[s] # NoCall
           /\ call[s] \in StateCalls =>
                module' = call[s].state /\ places' = places /\ at' = at
           /\ call[s] \in Moves =>
                module' = module /\ places' = places /\ at' = [at EXCEPT ![s] = call[s].to]
           /\ call[s] \in Foundings =>
                module' = module /\ places' = Append(places, call[s].create)
                /\ at' = [at EXCEPT ![s] = Len(places')]
  <1>1. call[s] \in Calls /\ call[s] # NoCall
    BY CallKinds DEF Typed, Commit, Working
  <1> DEFINE c == call[s]
  <1>2. /\ module' = IF c.tool \in {"mark_beat", "reveal_secret"} THEN c.state ELSE module
        /\ places' = IF "create" \in DOMAIN c THEN Append(places, c.create) ELSE places
        /\ at' = IF c.tool # "transition_location" THEN at
                 ELSE [at EXCEPT ![s] = IF "to" \in DOMAIN c THEN c.to ELSE Len(places')]
    BY DEF Commit
  <1>3. CASE c \in StateCalls
    BY <1>1, <1>2, <1>3, CallKinds
  <1>4. CASE c \in Moves
    BY <1>1, <1>2, <1>4, CallKinds
  <1>5. CASE c \in Foundings
    BY <1>1, <1>2, <1>5, CallKinds
  <1> QED BY <1>1, <1>3, <1>4, <1>5

\* A commit overtakes every call that has read what it changes.
LEMMA CommitInv ==
    ASSUME Inv, NEW s \in Sessions, Commit(s)
    PROVE  Inv'
  <1> DEFINE c == call[s]
  <1>0. /\ \A q \in Sessions : call'[q] = IF q = s THEN NoCall ELSE call[q]
        /\ \A q \in Sessions : moved'[q] =
             (q # s /\ (moved[q] \/ <<module', places'>> # <<module, places>>))
        /\ call' \in [Sessions -> Calls] /\ moved' \in [Sessions -> BOOLEAN]
        /\ UNCHANGED <<session, told, long, req, queue, modules>>
    BY DEF Inv, Typed, Commit, Calls
  <1>1. /\ c \in Calls /\ c # NoCall
        /\ c \in StateCalls => module' = c.state /\ places' = places /\ at' = at
        /\ c \in Moves =>
             module' = module /\ places' = places /\ at' = [at EXCEPT ![s] = c.to]
        /\ c \in Foundings =>
             module' = module /\ places' = Append(places, c.create) /\ at' = [at EXCEPT ![s] = Len(places')]
    BY CommitWrites DEF Inv
  <1>2. c \in StateCalls \/ c \in Moves \/ c \in Foundings
    BY <1>1, CallKinds
  <1>3. NoCall \notin StateCalls /\ NoCall \notin Moves /\ NoCall \notin Foundings
        /\ NoCall.phase = "none"
    BY CallKinds DEF Calls, NoCall
  <1>4. /\ module' \in States /\ Playthrough(module')
        /\ places' \in Seq(Names) /\ DOMAIN places \subseteq DOMAIN places'
        /\ at' \in [Sessions -> {Nowhere} \union Nat]
        /\ \A q \in Sessions : at'[q] = Nowhere \/ at'[q] \in DOMAIN places'
    <2>0. /\ module \in States /\ Playthrough(module) /\ places \in Seq(Names)
          /\ at \in [Sessions -> {Nowhere} \union Nat]
          /\ \A q \in Sessions : at[q] = Nowhere \/ at[q] \in DOMAIN places
          /\ DOMAIN places = 1..Len(places) /\ Len(places) \in Nat
      BY DEF Inv, Typed, PlayInv, PlacesInv
    <2>1. CASE c \in StateCalls
      <3>1. c.state \in States /\ Playthrough(c.state)
        BY <1>1, <2>1, CallKinds DEF Inv, PlayInv
      <3> QED BY <1>1, <2>0, <2>1, <3>1
    <2>2. CASE c \in Moves
      <3>1. c.to \in Nat /\ c.to \in DOMAIN places
        BY <1>1, <2>2, CallKinds DEF Inv, PlacesInv
      <3> QED BY <1>1, <2>0, <2>2, <3>1
    <2>3. CASE c \in Foundings
      <3>1. c.create \in Names
        BY <1>1, <2>3, CallKinds
      <3>2. /\ places' \in Seq(Names) /\ Len(places') = Len(places) + 1
            /\ DOMAIN places' = 1..(Len(places) + 1)
        BY <1>1, <2>0, <2>3, <3>1
      <3>3. Len(places') \in Nat /\ Len(places') \in DOMAIN places' /\ DOMAIN places \subseteq DOMAIN places'
        BY <2>0, <3>2
      <3> QED BY <1>1, <2>0, <2>3, <3>2, <3>3
    <2> QED BY <1>2, <2>1, <2>2, <2>3
  <1> HIDE DEF c
  <1>5. Typed'
    BY <1>0, <1>4 DEF Inv, Typed
  <1>6. PlayInv'
    BY <1>0, <1>3, <1>4 DEF Inv, PlayInv, Playthrough
  <1>7. PlacesInv'
    BY <1>0, <1>3, <1>4 DEF Inv, PlacesInv
  <1>8. FreshInv'
    <2> SUFFICES ASSUME NEW q \in Sessions, ~moved'[q]
                 PROVE  AddsOn(q)'
      BY DEF FreshInv
    <2>1. CASE q = s
      BY <1>0, <1>3, <2>1 DEF AddsOn
    <2>2. CASE q # s
      <3>1. ~moved[q] /\ module' = module /\ places' = places /\ call'[q] = call[q]
        BY <1>0, <2>2
      <3> QED BY <3>1 DEF Inv, FreshInv, AddsOn, Matches
    <2> QED BY <2>1, <2>2
  <1>9. WriterInv'
    <2>1. Flushed' \subseteq Flushed /\ Loads' = Loads
      BY <1>0, <1>3 DEF Flushed, Loads
    <2> QED BY <2>1 DEF Inv, WriterInv
  <1>10. QueueInv' /\ ToldInv'
    <2>1. \A q \in Sessions : told[q] <= told'[q]
      BY <1>0, BoundsAssumption DEF Inv, Typed, Versions
    <2> QED BY <1>0, <1>5, <2>1, SameRequests DEF Typed
  <1>11. ModulesInv'
    BY <1>0 DEF Inv, ModulesInv
  <1> QED BY <1>5, <1>6, <1>7, <1>8, <1>9, <1>10, <1>11 DEF Inv

\* A call that is given up writes nothing.
LEMMA RollBackInv ==
    ASSUME Inv, NEW s \in Sessions, RollBack(s)
    PROVE  Inv'
  <1> USE DEF RollBack, table, campaign
  <1>0. /\ \A q \in Sessions : call'[q] = IF q = s THEN NoCall ELSE call[q]
        /\ \A q \in Sessions : moved'[q] = IF q = s THEN FALSE ELSE moved[q]
        /\ call' \in [Sessions -> Calls] /\ moved' \in [Sessions -> BOOLEAN]
    BY DEF Inv, Typed, Calls
  <1>1. NoCall \notin StateCalls /\ NoCall \notin Moves /\ NoCall \notin Foundings
        /\ NoCall.phase = "none"
    BY CallKinds DEF Calls, NoCall
  <1>2. Typed'
    BY <1>0 DEF Inv, Typed
  <1>3. PlayInv'
    BY <1>0, <1>1 DEF Inv, PlayInv, Playthrough
  <1>4. PlacesInv'
    BY <1>0, <1>1 DEF Inv, PlacesInv
  <1>5. FreshInv'
    BY <1>0, <1>1 DEF Inv, FreshInv, AddsOn, Matches
  <1>6. WriterInv'
    <2>1. Flushed' \subseteq Flushed /\ Loads' = Loads
      BY <1>0, <1>1 DEF Flushed, Loads
    <2> QED BY <2>1 DEF Inv, WriterInv
  <1>7. QueueInv' /\ ToldInv'
    <2>1. \A q \in Sessions : told[q] <= told'[q]
      BY BoundsAssumption DEF Inv, Typed, Versions
    <2> QED BY <1>2, <2>1, SameRequests DEF Typed
  <1>8. ModulesInv'
    BY DEF Inv, ModulesInv
  <1> QED BY <1>2, <1>3, <1>4, <1>5, <1>6, <1>7, <1>8 DEF Inv

-----------------------------------------------------------------------------
(* Requests *)

\* A request's step that touches neither the queue nor what is told.
LEMMA ReqStepInv ==
    ASSUME Inv, NEW r \in Requests, NEW x \in Reqs,
           \A q \in Requests : req'[q] = IF q = r THEN x ELSE req[q],
           req' \in [Requests -> Reqs],
           UNCHANGED <<table, campaign, calls, queue>>,
           modules' \subseteq Sessions,
           \A s \in modules' : session[s] = "ended",
           req[r] \notin Waiting, req[r] \notin Summing, x \notin Waiting, x \notin Summing,
           x \in Extracting => session[x.of] = "ended",
           x \in Loading => Flushed = {} /\ Loads = {}
    PROVE  Inv'
  <1> USE DEF table, campaign, calls
  <1>1. Typed'
    BY DEF Inv, Typed
  <1>2. PlayInv' /\ PlacesInv' /\ FreshInv'
    BY SameCalls
  <1>3. WriterInv'
    <2>1. Flushed' = Flushed
      BY DEF Flushed
    <2>2. CASE x \in Loading
      <3>1. Loads' \subseteq {r}
        BY <2>2 DEF Loads
      <3> QED BY <2>1, <2>2, <3>1 DEF WriterInv
    <2>3. CASE x \notin Loading
      <3>1. x.op # "load"
        BY <2>3, ReqKinds
      <3>2. Loads' \subseteq Loads
        BY <3>1 DEF Loads
      <3> QED BY <2>1, <3>2 DEF Inv, WriterInv
    <2> QED BY <2>2, <2>3
  <1>4. QueueInv'
    <2>1. \A q \in Requests : req'[q] \in Reqs /\ req[q] \in Reqs
      BY DEF Inv, Typed
    <2>2. Queued' = Queued
      BY <2>1, QueuedIs DEF Queued
    <2>3. \A q \in Requests : req'[q] \in Summing => q # r /\ req'[q] = req[q]
      OBVIOUS
    <2> QED BY <2>2, <2>3 DEF Inv, QueueInv, Listed, OnceEach
  <1>5. ToldInv'
    BY DEF Inv, ToldInv
  <1>6. ModulesInv'
    BY DEF Inv, ModulesInv
  <1> QED BY <1>1, <1>2, <1>3, <1>4, <1>5, <1>6 DEF Inv

\* The check of end_session writes nothing.
LEMMA EndCheckInv ==
    ASSUME Inv, NEW r \in Requests, NEW s \in Sessions, EndCheck(r, s)
    PROVE  Inv'
  <1> DEFINE x == [op |-> "end", stage |-> "checked", of |-> s]
  <1>1. x \in Checked /\ x \in Reqs
    BY DEF Checked, Reqs
  <1>2. req[r] = Closed /\ req' = [req EXCEPT ![r] = x]
        /\ UNCHANGED <<table, campaign, calls, queue, modules>>
    BY DEF EndCheck, Ask
  <1> HIDE DEF x
  <1>3. /\ \A q \in Requests : req'[q] = IF q = r THEN x ELSE req[q]
        /\ req' \in [Requests -> Reqs]
    BY <1>1, <1>2 DEF Inv, Typed
  <1>4. /\ x \notin Waiting /\ x \notin Summing /\ x \notin Extracting /\ x \notin Loading
        /\ Closed \notin Waiting /\ Closed \notin Summing
    BY <1>1, ReqApart
  <1>5. modules' \subseteq Sessions /\ \A q \in modules' : session[q] = "ended"
    BY <1>2 DEF Inv, Typed, ModulesInv
  <1> QED BY <1>1, <1>2, <1>3, <1>4, <1>5, ReqStepInv

\* Only a session that is over is made a module of.
LEMMA ExtractCheckInv ==
    ASSUME Inv, NEW r \in Requests, NEW s \in Sessions, ExtractCheck(r, s)
    PROVE  Inv'
  <1> DEFINE x == [op |-> "extract", of |-> s, attempt |-> 1]
  <1>1. x \in Extracting /\ x \in Reqs /\ x.of = s
    BY RetriesAssumption DEF Extracting, Reqs
  <1>2. session[s] = "ended" /\ req[r] = Closed /\ req' = [req EXCEPT ![r] = x]
        /\ UNCHANGED <<table, campaign, calls, queue, modules>>
    BY DEF ExtractCheck, Ask
  <1> HIDE DEF x
  <1>3. /\ \A q \in Requests : req'[q] = IF q = r THEN x ELSE req[q]
        /\ req' \in [Requests -> Reqs]
    BY <1>1, <1>2 DEF Inv, Typed
  <1>4. /\ x \notin Waiting /\ x \notin Summing /\ x \notin Loading
        /\ Closed \notin Waiting /\ Closed \notin Summing
    BY <1>1, ReqApart
  <1>5. modules' \subseteq Sessions /\ \A q \in modules' : session[q] = "ended"
    BY <1>2 DEF Inv, Typed, ModulesInv
  <1> QED BY <1>1, <1>2, <1>3, <1>4, <1>5, ReqStepInv

\* A further attempt is within the bound.
LEMMA AskAgainInv ==
    ASSUME Inv, NEW r \in Requests, AskAgain(r)
    PROVE  Inv'
  <1> DEFINE x == IF req[r].attempt < Retries THEN [req[r] EXCEPT !.attempt = @ + 1] ELSE Closed
  <1>1. req[r] \in Extracting /\ session[req[r].of] = "ended"
    BY ReqKinds DEF AskAgain, Inv, Typed, ModulesInv
  <1>2. x \in Reqs /\ (x = Closed \/ (x \in Extracting /\ x.of = req[r].of))
    <2>1. CASE req[r].attempt < Retries
      <3>1. [req[r] EXCEPT !.attempt = @ + 1] \in Extracting
            /\ [req[r] EXCEPT !.attempt = @ + 1].of = req[r].of
        BY <1>1, <2>1, RetriesAssumption DEF Extracting
      <3> QED BY <2>1, <3>1 DEF Reqs
    <2>2. CASE ~(req[r].attempt < Retries)
      BY <2>2 DEF Reqs
    <2> QED BY <2>1, <2>2
  <1>3. req' = [req EXCEPT ![r] = x]
        /\ UNCHANGED <<table, campaign, calls, queue, modules>>
    BY DEF AskAgain, Goto, Close
  <1> HIDE DEF x
  <1>4. /\ \A q \in Requests : req'[q] = IF q = r THEN x ELSE req[q]
        /\ req' \in [Requests -> Reqs]
    BY <1>2, <1>3 DEF Inv, Typed
  <1>5. /\ x \notin Waiting /\ x \notin Summing /\ x \notin Loading
        /\ req[r] \notin Waiting /\ req[r] \notin Summing
        /\ (x \in Extracting => session[x.of] = "ended")
    BY <1>1, <1>2, ReqApart
  <1>6. modules' \subseteq Sessions /\ \A q \in modules' : session[q] = "ended"
    BY <1>3 DEF Inv, Typed, ModulesInv
  <1> QED BY <1>2, <1>3, <1>4, <1>5, <1>6, ReqStepInv

\* The session a module was made of is still over when it is stored.
LEMMA InsertInv ==
    ASSUME Inv, NEW r \in Requests, InsertModule(r)
    PROVE  Inv'
  <1>1. req[r] \in Extracting /\ session[req[r].of] = "ended" /\ req[r].of \in Sessions
    BY ReqKinds, ReqApart DEF InsertModule, Inv, Typed, ModulesInv
  <1>2. req' = [req EXCEPT ![r] = Closed] /\ Closed \in Reqs
        /\ modules' = modules \union {req[r].of}
        /\ UNCHANGED <<table, campaign, calls, queue>>
    BY DEF InsertModule, Goto, Close, Reqs
  <1>3. /\ \A q \in Requests : req'[q] = IF q = r THEN Closed ELSE req[q]
        /\ req' \in [Requests -> Reqs]
    BY <1>2 DEF Inv, Typed
  <1>4. modules' \subseteq Sessions /\ \A q \in modules' : session[q] = "ended"
    BY <1>1, <1>2 DEF Inv, Typed, ModulesInv
  <1>5. /\ Closed \notin Waiting /\ Closed \notin Summing /\ Closed \notin Extracting
        /\ Closed \notin Loading /\ req[r] \notin Waiting /\ req[r] \notin Summing
    BY <1>1, ReqApart
  <1> QED BY <1>2, <1>3, <1>4, <1>5, ReqStepInv

\* A load takes the writer lock.
LEMMA LoadFlushInv ==
    ASSUME Inv, NEW r \in Requests, LoadFlush(r)
    PROVE  Inv'
  <1> DEFINE x == [op |-> "load"]
  <1>1. x \in Loading /\ x \in Reqs
    BY DEF Loading, Reqs
  <1>2. req[r] = Closed /\ req' = [req EXCEPT ![r] = x] /\ Flushed = {} /\ Loads = {}
        /\ UNCHANGED <<table, campaign, calls, queue, modules>>
    BY DEF LoadFlush, Ask, WriterFree, Flushed, Loads
  <1> HIDE DEF x
  <1>3. /\ \A q \in Requests : req'[q] = IF q = r THEN x ELSE req[q]
        /\ req' \in [Requests -> Reqs]
    BY <1>1, <1>2 DEF Inv, Typed
  <1>4. /\ x \notin Waiting /\ x \notin Summing /\ x \notin Extracting
        /\ Closed \notin Waiting /\ Closed \notin Summing
    BY <1>1, ReqApart
  <1>5. modules' \subseteq Sessions /\ \A q \in modules' : session[q] = "ended"
    BY <1>2 DEF Inv, Typed, ModulesInv
  <1> QED BY <1>1, <1>2, <1>3, <1>4, <1>5, ReqStepInv

\* And gives it up.
LEMMA LoadCommitInv ==
    ASSUME Inv, NEW r \in Requests, LoadCommit(r)
    PROVE  Inv'
  <1>1. req[r] \in Loading
    BY ReqKinds DEF LoadCommit, Inv, Typed
  <1>2. req' = [req EXCEPT ![r] = Closed] /\ Closed \in Reqs
        /\ UNCHANGED <<table, campaign, calls, queue, modules>>
    BY DEF LoadCommit, Goto, Close, Reqs
  <1>3. /\ \A q \in Requests : req'[q] = IF q = r THEN Closed ELSE req[q]
        /\ req' \in [Requests -> Reqs]
    BY <1>2 DEF Inv, Typed
  <1>4. modules' \subseteq Sessions /\ \A q \in modules' : session[q] = "ended"
    BY <1>2 DEF Inv, Typed, ModulesInv
  <1>5. /\ Closed \notin Waiting /\ Closed \notin Summing /\ Closed \notin Extracting
        /\ Closed \notin Loading /\ req[r] \notin Waiting /\ req[r] \notin Summing
    BY <1>1, ReqApart
  <1> QED BY <1>2, <1>3, <1>4, <1>5, ReqStepInv

-----------------------------------------------------------------------------
(* The end of a session, through the summary's queue *)

\* A request that has ended its session queues for the summary with what it has been told.
LEMMA EndCommitInv ==
    ASSUME Inv, NEW r \in Requests, EndCommit(r)
    PROVE  Inv'
  <1> DEFINE s == req[r].of
             x == [op |-> "end", stage |-> "waiting", of |-> s, own |-> told[s]]
  <1>1. req[r] \in Checked /\ s \in Sessions /\ req[r] \notin Waiting /\ req[r] \notin Summing
    BY ReqKinds, ReqApart DEF EndCommit, Inv, Typed
  <1>2. told[s] \in 0..MaxTold
    BY <1>1 DEF Inv, Typed, Versions
  <1>3. x \in Waiting /\ x \in Reqs /\ x.of = s /\ x.own = told[s]
    BY <1>1, <1>2 DEF Waiting, Reqs
  <1>4. /\ session' = [session EXCEPT ![s] = "ended"] /\ req' = [req EXCEPT ![r] = x]
        /\ queue' = Append(queue, r)
        /\ UNCHANGED <<at, told, long, module, places, call, moved, modules>>
    BY DEF EndCommit, Goto, campaign, calls
  <1> HIDE DEF x
  <1>5. /\ \A q \in Requests : req'[q] = IF q = r THEN x ELSE req[q]
        /\ req' \in [Requests -> Reqs]
    BY <1>3, <1>4 DEF Inv, Typed
  <1>6. x \notin Summing /\ x \notin Extracting /\ x \notin Loading /\ x.op = "end"
    BY <1>3, ReqApart
  <1>7. Typed'
    <2>1. queue' \in Seq(Requests)
      BY <1>4 DEF Inv, Typed
    <2>2. session' \in [Sessions -> {"none", "open", "ended"}]
      BY <1>1, <1>4 DEF Inv, Typed
    <2> QED BY <1>4, <1>5, <2>1, <2>2 DEF Inv, Typed
  <1>8. PlayInv' /\ PlacesInv' /\ FreshInv'
    BY <1>4, SameCalls
  <1>9. WriterInv'
    <2>1. Flushed' = Flushed /\ Loads' \subseteq Loads
      BY <1>4, <1>5, <1>6 DEF Flushed, Loads
    <2> QED BY <2>1 DEF Inv, WriterInv
  <1>10. QueueInv'
    <2>0. \A q \in Requests : req'[q] \in Reqs /\ req[q] \in Reqs
      BY <1>5 DEF Inv, Typed
    <2>1. r \notin Queued /\ Queued' = Queued \union {r}
      BY <1>1, <1>3, <1>5, <2>0, QueuedIs DEF Queued
    <2>2. queue \in Seq(Requests) /\ OnceEach(queue) /\ Listed(queue) = Queued
      BY DEF Inv, Typed, QueueInv
    <2>3. /\ Len(queue) \in Nat /\ DOMAIN queue = 1..Len(queue)
          /\ DOMAIN queue' = 1..(Len(queue) + 1)
          /\ \A i \in DOMAIN queue : queue'[i] = queue[i]
          /\ queue'[Len(queue) + 1] = r
      BY <1>4, <2>2, AppendElements
    <2>4. \A i \in DOMAIN queue : queue[i] # r
      BY <2>1, <2>2 DEF Listed
    <2>5. OnceEach(queue')
      BY <2>2, <2>3, <2>4 DEF OnceEach
    <2>6. Listed(queue') = Listed(queue) \union {r}
      BY <2>3 DEF Listed
    <2>7. ASSUME NEW q \in Requests, req'[q] \in Summing
          PROVE  queue' # <<>> /\ Head(queue') = q /\ req'[q].prior = long'
      <3>1. q # r /\ req'[q] = req[q]
        BY <1>5, <1>6, <2>7
      <3>2. queue # <<>> /\ Head(queue) = q /\ req[q].prior = long
        BY <2>7, <3>1 DEF Inv, QueueInv
      <3>3. queue' # <<>> /\ Head(queue') = Head(queue)
        BY <1>4, <2>2, <3>2
      <3> QED BY <1>4, <3>1, <3>2, <3>3
    <2> QED BY <2>1, <2>2, <2>5, <2>6, <2>7 DEF QueueInv
  <1>11. ToldInv'
    <2>1. told[s] <= told[s]
      BY <1>2
    <2> QED BY <1>3, <1>4, <1>5, <1>6, <2>1 DEF Inv, ToldInv
  <1>12. ModulesInv'
    <2>1. \A q \in Sessions : session[q] = "ended" => session'[q] = "ended"
      BY <1>4 DEF Inv, Typed
    <2>2. \A q \in Requests : req[q] \in Extracting => req[q].of \in Sessions
      BY ReqApart
    <2> QED BY <1>4, <1>5, <1>6, <2>1, <2>2 DEF Inv, Typed, ModulesInv
  <1> QED BY <1>7, <1>8, <1>9, <1>10, <1>11, <1>12 DEF Inv

\* A request that is over leaves the queue; who sums stays its head, and the summary it
\* works from stays as it was unless the summer itself wrote it.
LEMMA LeaveQueue ==
    ASSUME Inv, NEW r \in Requests,
           \A q \in Requests : req'[q] = IF q = r THEN Closed ELSE req[q],
           queue' = Without(queue, {r}),
           \A q \in Requests : q # r /\ req[q] \in Summing => long' = long
    PROVE  QueueInv' /\ queue' \in Seq(Requests)
  <1>0. \A q \in Requests : req'[q] \in Reqs /\ req[q] \in Reqs
    BY DEF Inv, Typed, Reqs
  <1>1. Queued' = Queued \ {r}
    BY <1>0, QueuedIs, ReqApart DEF Queued
  <1>2. queue \in Seq(Requests) /\ OnceEach(queue) /\ Listed(queue) = Queued
    BY DEF Inv, Typed, QueueInv
  <1>3. queue' \in Seq(Requests) /\ Listed(queue') = Listed(queue) \ {r} /\ OnceEach(queue')
    <2> DEFINE left == Without(queue, {r})
    <2>1. left \in Seq(Requests) /\ Listed(left) = Listed(queue) \ {r} /\ OnceEach(left)
      BY <1>2, WithoutWorks
    <2> QED BY <2>1
  <1>4. ASSUME NEW q \in Requests, req'[q] \in Summing
        PROVE  queue' # <<>> /\ Head(queue') = q /\ req'[q].prior = long'
    <2>1. q # r /\ req'[q] = req[q] /\ req[q] \in Summing
      BY <1>4, ReqApart
    <2>2. queue # <<>> /\ Head(queue) = q /\ req[q].prior = long /\ long' = long
      BY <2>1 DEF Inv, QueueInv
    <2>3. Head(queue) \notin {r}
      BY <2>1, <2>2
    <2>4. Without(queue, {r}) # <<>> /\ Head(Without(queue, {r})) = Head(queue)
      BY <1>2, <2>2, <2>3, WithoutOthers
    <2> QED BY <2>1, <2>2, <2>4
  <1> QED BY <1>1, <1>2, <1>3, <1>4 DEF QueueInv

\* A request that is over without a word to the table.
LEMMA LeaveInv ==
    ASSUME Inv, NEW r \in Requests,
           req' = [req EXCEPT ![r] = Closed],
           queue' = Without(queue, {r}),
           UNCHANGED <<table, module, places, calls, modules>>,
           long' \in Versions,
           \A q \in Requests : q # r /\ req[q] \in Summing => long' = long,
           \A s \in Sessions : long'[s] <= told[s]
    PROVE  Inv'
  <1> USE DEF table, calls
  <1>0. /\ \A q \in Requests : req'[q] = IF q = r THEN Closed ELSE req[q]
        /\ req' \in [Requests -> Reqs]
    BY DEF Inv, Typed, Reqs
  <1>1. QueueInv' /\ queue' \in Seq(Requests)
    BY <1>0, LeaveQueue
  <1>2. Typed'
    BY <1>0, <1>1 DEF Inv, Typed
  <1>3. PlayInv' /\ PlacesInv' /\ FreshInv'
    BY SameCalls
  <1>4. WriterInv'
    <2>1. Closed.op = "none"
      BY DEF Closed
    <2>2. Flushed' = Flushed /\ Loads' \subseteq Loads
      BY <1>0, <2>1 DEF Flushed, Loads
    <2> QED BY <2>2 DEF Inv, WriterInv
  <1>5. ToldInv'
    BY <1>0, ReqApart DEF Inv, ToldInv
  <1>6. ModulesInv'
    BY <1>0, ReqApart DEF Inv, ModulesInv
  <1> QED BY <1>1, <1>2, <1>3, <1>4, <1>5, <1>6 DEF Inv

\* A request that fails leaves the queue, wherever it stood.
LEMMA FailInv ==
    ASSUME Inv, NEW r \in Requests, Fail(r)
    PROVE  Inv'
  <1>1. /\ req' = [req EXCEPT ![r] = Closed] /\ queue' = Without(queue, {r}) /\ long' = long
        /\ UNCHANGED <<table, module, places, calls, modules>>
    BY DEF Fail, Close, Goto, Unlock, campaign
  <1>2. long' \in Versions /\ \A s \in Sessions : long'[s] <= told[s]
    BY <1>1 DEF Inv, Typed, ToldInv
  <1> QED BY <1>1, <1>2, LeaveInv

\* The head of the queue is the one request that sums.
LEMMA Summer ==
    ASSUME Inv, NEW r \in Requests, req[r].op = "end", req[r].stage = "summing"
    PROVE  /\ req[r] \in Summing
           /\ req[r].prior = long
           /\ req[r].sums \in Versions
           /\ \A s \in Sessions : req[r].sums[s] <= told[s]
           /\ \A q \in Requests : req[q] \in Summing => q = r
  <1>1. req[r] \in Summing
    BY ReqKinds DEF Inv, Typed
  <1>2. req[r].sums \in Versions
    BY <1>1 DEF Summing
  <1> QED BY <1>1, <1>2 DEF Inv, QueueInv, ToldInv

\* A merged summary loses nothing and adds only what the sessions tell.
LEMMA MergedIs ==
    ASSUME NEW prior \in Versions, NEW sums \in Versions
    PROVE  /\ Merged(prior, sums) \in Versions
           /\ \A s \in Sessions : /\ prior[s] \in Nat /\ sums[s] \in Nat
                                  /\ prior[s] <= Merged(prior, sums)[s]
                                  /\ Merged(prior, sums)[s] \in {prior[s], sums[s]}
  BY BoundsAssumption DEF Versions, Merged

\* The summary written is merged with the one in the row, since no other request sums.
LEMMA WriteLongInv ==
    ASSUME Inv, NEW r \in Requests, WriteLong(r)
    PROVE  Inv'
  <1>1. /\ req' = [req EXCEPT ![r] = Closed] /\ queue' = Without(queue, {r})
        /\ long' = Merged(req[r].prior, req[r].sums)
        /\ UNCHANGED <<table, module, places, calls, modules>>
        /\ req[r].op = "end" /\ req[r].stage = "summing"
    BY DEF WriteLong, Close, Goto, Unlock
  <1>2. /\ req[r].prior = long /\ req[r].sums \in Versions
        /\ \A s \in Sessions : req[r].sums[s] <= told[s]
        /\ \A q \in Requests : req[q] \in Summing => q = r
    BY <1>1, Summer
  <1>3. long \in Versions /\ \A s \in Sessions : long[s] <= told[s]
    BY DEF Inv, Typed, ToldInv
  <1>4. long' \in Versions /\ \A s \in Sessions : long'[s] \in {long[s], req[r].sums[s]}
    BY <1>1, <1>2, <1>3, MergedIs
  <1>5. \A s \in Sessions : long'[s] <= told[s]
    BY <1>2, <1>3, <1>4
  <1> QED BY <1>1, <1>2, <1>4, <1>5, LeaveInv

\* The head of the queue reads the summary that stands.
LEMMA ReadSummariesInv ==
    ASSUME Inv, NEW r \in Requests, ReadSummaries(r)
    PROVE  Inv'
  <1> DEFINE sums == [told EXCEPT ![req[r].of] = req[r].own]
             x == [op |-> "end", stage |-> "summing", of |-> req[r].of, prior |-> long, sums |-> sums]
  <1>1. req[r] \in Waiting /\ req[r].of \in Sessions /\ req[r].own \in 0..MaxTold
        /\ req[r].own <= told[req[r].of] /\ Head(queue) = r
        /\ UNCHANGED <<table, module, places, long, calls, modules>>
    <2>1. req[r] \in Waiting
      BY ReqKinds DEF ReadSummaries, Inv, Typed
    <2>2. req[r].of \in Sessions /\ req[r].own \in 0..MaxTold
      BY <2>1 DEF Waiting
    <2> QED BY <2>1, <2>2 DEF ReadSummaries, MayRead, Inv, ToldInv, campaign
  <1>2. CASE req' = [req EXCEPT ![r] = Closed] /\ queue' = Without(queue, {r})
    <2>1. long' \in Versions /\ \A s \in Sessions : long'[s] <= told[s]
      BY <1>1 DEF Inv, Typed, ToldInv
    <2> QED BY <1>1, <1>2, <2>1, LeaveInv
  <1>3. CASE req' = [req EXCEPT ![r] = x] /\ queue' = queue
    <2>0. told \in Versions /\ long \in Versions /\ \A s \in Sessions : told[s] \in Nat
      BY BoundsAssumption DEF Inv, Typed, Versions
    <2>1. /\ sums \in Versions
          /\ \A s \in Sessions : sums[s] <= told[s]
      BY <1>1, <2>0, BoundsAssumption DEF Versions
    <2>2. x \in Summing /\ x \in Reqs /\ x.prior = long /\ x.sums = sums /\ x.op = "end"
      BY <1>1, <2>0, <2>1 DEF Summing, Reqs
    <2> HIDE DEF x, sums
    <2>3. x \notin Waiting /\ x \notin Extracting /\ x \notin Loading
      BY <2>2, ReqApart
    <2>4. /\ \A q \in Requests : req'[q] = IF q = r THEN x ELSE req[q]
          /\ req' \in [Requests -> Reqs]
      BY <1>3, <2>2 DEF Inv, Typed
    <2>5. UNCHANGED <<session, at, told, long, module, places, call, moved, modules, queue>>
      BY <1>1, <1>3 DEF table, calls
    <2>6. Typed'
      BY <2>4, <2>5 DEF Inv, Typed
    <2>7. PlayInv' /\ PlacesInv' /\ FreshInv'
      BY <2>5, SameCalls
    <2>8. WriterInv'
      <3>1. Flushed' = Flushed /\ Loads' \subseteq Loads
        BY <2>2, <2>4, <2>5 DEF Flushed, Loads
      <3> QED BY <3>1 DEF Inv, WriterInv
    <2>9. QueueInv'
      <3>0. \A q \in Requests : req'[q] \in Reqs /\ req[q] \in Reqs
        BY <2>4 DEF Inv, Typed
      <3>1. Queued' = Queued
        BY <1>1, <2>2, <2>4, <3>0, QueuedIs DEF Queued
      <3>2. r \in Queued
        BY <1>1, <3>0, QueuedIs DEF Queued
      <3>3. queue # <<>>
        BY <3>2 DEF Inv, QueueInv, Listed
      <3>4. \A q \in Requests : req[q] \in Summing => q = r
        BY <1>1 DEF Inv, QueueInv
      <3>5. OnceEach(queue') /\ Listed(queue') = Queued'
        BY <2>5, <3>1 DEF Inv, QueueInv
      <3>6. \A q \in Requests : req'[q] \in Summing => q = r
        BY <2>4, <3>4
      <3> QED BY <1>1, <2>2, <2>4, <2>5, <3>3, <3>5, <3>6 DEF QueueInv
    <2>10. ToldInv'
      BY <2>1, <2>2, <2>3, <2>4, <2>5 DEF Inv, ToldInv
    <2>11. ModulesInv'
      BY <2>3, <2>4, <2>5 DEF Inv, ModulesInv
    <2> QED BY <2>6, <2>7, <2>8, <2>9, <2>10, <2>11 DEF Inv
  <1> QED BY <1>2, <1>3 DEF ReadSummaries, Close, Goto, Unlock

\* A restart leaves the rows, and nobody in the queue.
LEMMA RestartInv ==
    ASSUME Inv, Restart
    PROVE  Inv'
  <1>0. /\ \A s \in Sessions : call'[s] = NoCall /\ moved'[s] = FALSE
        /\ \A r \in Requests : req'[r] = Closed
        /\ call' \in [Sessions -> Calls] /\ moved' \in [Sessions -> BOOLEAN]
        /\ req' \in [Requests -> Reqs] /\ queue' = <<>>
        /\ UNCHANGED <<session, at, told, long, module, places, modules>>
    BY DEF Restart, Calls, Reqs, table, campaign
  <1>1. NoCall \notin StateCalls /\ NoCall \notin Moves /\ NoCall \notin Foundings
        /\ NoCall.phase = "none" /\ Closed.op = "none"
    BY CallKinds DEF Calls, NoCall, Closed
  <1>2. Typed'
    BY <1>0 DEF Inv, Typed
  <1>3. PlayInv'
    BY <1>0, <1>1 DEF Inv, PlayInv, Playthrough
  <1>4. PlacesInv' /\ FreshInv'
    BY <1>0, <1>1 DEF Inv, PlacesInv, FreshInv, AddsOn
  <1>5. WriterInv'
    BY <1>0, <1>1 DEF WriterInv, Flushed, Loads
  <1>6. QueueInv'
    <2>1. Queued' = {} /\ Listed(queue') = {} /\ OnceEach(queue')
      BY <1>0, <1>1 DEF Queued, Listed, OnceEach
    <2> QED BY <1>0, <2>1, ReqApart DEF QueueInv
  <1>7. ToldInv' /\ ModulesInv'
    BY <1>0, ReqApart DEF Inv, ToldInv, ModulesInv
  <1> QED BY <1>2, <1>3, <1>4, <1>5, <1>6, <1>7 DEF Inv

-----------------------------------------------------------------------------
(* The invariant *)

\* Every step keeps it: one case for each action, with the lemma that treats it.
LEMMA NextInv == Inv /\ [Next]_vars => Inv'
  <1> SUFFICES ASSUME Inv, [Next]_vars PROVE Inv'
    OBVIOUS
  <1>1. ASSUME NEW s \in Sessions, CreateSession(s) PROVE Inv'
    BY <1>1, CreateInv
  <1>2. ASSUME NEW s \in Sessions, Renew(s) PROVE Inv'
    BY <1>2, RenewInv
  <1>3. ASSUME NEW s \in Sessions, Tool(s) PROVE Inv'
    BY <1>3, MarkBeatInv, RevealInv, MoveInv, FoundInv, FlushInv, CommitInv, RollBackInv DEF Tool
  <1>4. ASSUME NEW r \in Requests, Request(r) PROVE Inv'
    <2>1. ASSUME NEW s \in Sessions, EndCheck(r, s) \/ ExtractCheck(r, s) PROVE Inv'
      BY <2>1, EndCheckInv, ExtractCheckInv
    <2>2. CASE EndCommit(r) \/ ReadSummaries(r) \/ WriteLong(r)
      BY <2>2, EndCommitInv, ReadSummariesInv, WriteLongInv
    <2>3. CASE AskAgain(r) \/ InsertModule(r) \/ LoadFlush(r) \/ LoadCommit(r) \/ Fail(r)
      BY <2>3, AskAgainInv, InsertInv, LoadFlushInv, LoadCommitInv, FailInv
    <2> QED BY <1>4, <2>1, <2>2, <2>3 DEF Request
  <1>5. CASE Restart
    BY <1>5, RestartInv
  <1>6. CASE UNCHANGED vars
    <2>1. UNCHANGED <<session, at, told, long, module, places, call, moved, req, queue, modules>>
      BY <1>6 DEF vars, table, campaign, calls
    <2>2. Typed'
      BY <2>1 DEF Inv, Typed
    <2>3. PlayInv' /\ PlacesInv' /\ FreshInv' /\ WriterInv'
      BY <2>1, SameCalls, SameWriter
    <2>4. QueueInv' /\ ToldInv'
      <3>1. \A q \in Sessions : told[q] <= told'[q]
        BY <2>1, BoundsAssumption DEF Inv, Typed, Versions
      <3> QED BY <2>1, <2>2, <3>1, SameRequests DEF Typed
    <2>5. ModulesInv'
      BY <2>1 DEF Inv, ModulesInv
    <2> QED BY <2>2, <2>3, <2>4, <2>5 DEF Inv
  <1> QED BY <1>1, <1>2, <1>3, <1>4, <1>5, <1>6 DEF Next

\* A campaign is in order through all its sessions, their tool calls, the requests that end
\* them and extract modules from them, failures and restarts.
THEOREM StoryCorrect == Spec => []Inv
  BY InitInv, NextInv, PTL DEF Spec

\* A set whose members are all the same has one at most.
LEMMA OneAtMost ==
    ASSUME NEW S, \A x, y \in S : x = y
    PROVE  Cardinality(S) \in {0, 1} /\ (S = {} => Cardinality(S) = 0)
  <1>1. CASE S = {}
    BY <1>1, FS_EmptySet
  <1>2. CASE S # {}
    <2>1. PICK x \in S : TRUE
      BY <1>2
    <2>2. S = {x}
      BY <2>1
    <2>3. Cardinality(S) = 1
      BY <2>2, FS_Singleton
    <2> QED BY <1>2, <2>3
  <1> QED BY <1>1, <1>2

\* The campaign's state is a playthrough of its module, in the row and in every copy a handler
\* is about to write; the party is at a place that has a row; one transaction holds the
\* writer lock; the summary's queue is who waits for it (mark_beat, reveal_secret,
\* transition_location, end_session, regenerate_campaign_summary, extract_module).
THEOREM StoryInOrder == Spec => []StoryInv
  <1>1. Inv => StoryInv
    <2> SUFFICES ASSUME Inv PROVE StoryInv
      OBVIOUS
    <2>1. /\ session \in [Sessions -> {"none", "open", "ended"}]
          /\ \A s \in Sessions : at[s] = Nowhere \/ at[s] \in DOMAIN places
          /\ told \in Versions /\ long \in Versions
          /\ Playthrough(module)
          /\ \A s \in modules : session[s] = "ended"
      BY DEF Inv, Typed, PlacesInv, PlayInv, ModulesInv
    <2>2. ASSUME NEW s \in Sessions, "state" \in DOMAIN call[s]
          PROVE  Playthrough(call[s].state)
      <3>1. call[s] \in StateCalls
        BY <2>2, CallKinds DEF Inv, Typed
      <3> QED BY <3>1 DEF Inv, PlayInv
    <2>3. Cardinality(Flushed) + Cardinality(Loads) <= 1
      <3>1. Cardinality(Flushed) \in {0, 1} /\ Cardinality(Loads) \in {0, 1}
        BY OneAtMost DEF Inv, WriterInv
      <3>2. Cardinality(Flushed) = 0 \/ Cardinality(Loads) = 0
        BY OneAtMost DEF Inv, WriterInv
      <3> HIDE DEF Flushed, Loads
      <3> QED BY <3>1, <3>2
    <2>4. Len(queue) = Cardinality(Queued) /\ {queue[i] : i \in DOMAIN queue} = Queued
      <3>1. queue \in Seq(Requests) /\ OnceEach(queue) /\ Listed(queue) = Queued
        BY DEF Inv, Typed, QueueInv
      <3>2. Len(queue) = Cardinality(Listed(queue))
        BY <3>1, LengthOfOnceEach
      <3> QED BY <3>1, <3>2 DEF Listed
    <2>5. \A r \in Requests : req[r].op = "extract" => req[r].attempt \in 1..Retries
      BY ReqKinds DEF Inv, Typed, Extracting
    <2> QED BY <2>1, <2>2, <2>3, <2>4, <2>5 DEF StoryInv, Flushed, Loads
  <1> QED BY <1>1, StoryCorrect, PTL

\* A commit is the only step that changes the campaign's state or its places.
LEMMA OnlyCommits ==
    ASSUME Next
    PROVE  (\E s \in Sessions : Commit(s)) \/ UNCHANGED <<module, places>>
  <1> USE DEF campaign
  <1>1. ASSUME NEW s \in Sessions, CreateSession(s) \/ Renew(s)
        PROVE  UNCHANGED <<module, places>>
    BY <1>1 DEF CreateSession, Renew
  <1>2. ASSUME NEW s \in Sessions, Tool(s)
        PROVE  Commit(s) \/ UNCHANGED <<module, places>>
    BY <1>2 DEF Tool, MarkBeat, RevealSecret, MoveById, MoveByName, Read, Flush, RollBack
  <1>3. ASSUME NEW r \in Requests, Request(r)
        PROVE  UNCHANGED <<module, places>>
    BY <1>3 DEF Request, EndCheck, ExtractCheck, EndCommit, ReadSummaries, WriteLong, AskAgain,
                InsertModule, LoadFlush, LoadCommit, Fail
  <1>4. CASE Restart
    BY <1>4 DEF Restart
  <1> QED BY <1>1, <1>2, <1>3, <1>4 DEF Next

\* What has happened in the story stays so, and a place is founded once, unless a handler
\* commits that another session's commit had overtaken (mark_beat, reveal_secret, transition_location).
THEOREM StoryStands == Spec => BeatsStand
  <1>1. Inv /\ [Next]_vars =>
          [\/ OvertakenCommit
           \/ /\ module.hit \subseteq module'.hit
              /\ module.revealed \subseteq module'.revealed
              /\ places' # places => Matches(places'[Len(places')]) = {}]_vars
    <2> SUFFICES ASSUME Inv, Next, ~OvertakenCommit
                 PROVE  /\ module.hit \subseteq module'.hit
                        /\ module.revealed \subseteq module'.revealed
                        /\ places' # places => Matches(places'[Len(places')]) = {}
      OBVIOUS
    <2>1. CASE UNCHANGED <<module, places>>
      BY <2>1
    <2>2. ASSUME NEW s \in Sessions, Commit(s)
          PROVE  /\ module.hit \subseteq module'.hit
                 /\ module.revealed \subseteq module'.revealed
                 /\ places' # places => Matches(places'[Len(places')]) = {}
      <3>1. ~moved[s] /\ AddsOn(s)
        BY <2>2 DEF Commit, OvertakenCommit, Inv, Typed, FreshInv
      <3> DEFINE c == call[s]
      <3>2. /\ c \in Calls /\ c # NoCall
            /\ c \in StateCalls => module' = c.state /\ places' = places
            /\ c \in Moves => module' = module /\ places' = places
            /\ c \in Foundings => module' = module /\ places' = Append(places, c.create)
        BY <2>2, CommitWrites DEF Inv
      <3>3. c \in StateCalls \/ c \in Moves \/ c \in Foundings
        BY <3>2, CallKinds
      <3>4. CASE c \in StateCalls
        BY <3>1, <3>2, <3>4 DEF AddsOn
      <3>5. CASE c \in Moves
        BY <3>2, <3>5
      <3>6. CASE c \in Foundings
        <4>1. c.create \in Names /\ places \in Seq(Names)
          BY <3>2, <3>6, CallKinds DEF Inv, Typed
        <4>2. places'[Len(places')] = c.create
          BY <3>2, <3>6, <4>1
        <4> QED BY <3>1, <3>2, <3>6, <4>2 DEF AddsOn
      <3> QED BY <3>3, <3>4, <3>5, <3>6
    <2> QED BY <2>1, <2>2, OnlyCommits
  <1> QED BY <1>1, StoryCorrect, PTL DEF Spec, BeatsStand

\* The end of a session is the only step that changes the campaign's summary.
LEMMA OnlyEndings ==
    ASSUME Next
    PROVE  (\E r \in Requests : WriteLong(r)) \/ long' = long
  <1> USE DEF campaign
  <1>1. ASSUME NEW s \in Sessions, CreateSession(s) \/ Renew(s)
        PROVE  long' = long
    BY <1>1 DEF CreateSession, Renew
  <1>2. ASSUME NEW s \in Sessions, Tool(s)
        PROVE  long' = long
    BY <1>2 DEF Tool, MarkBeat, RevealSecret, MoveById, MoveByName, Read, Flush, Commit, RollBack
  <1>3. ASSUME NEW r \in Requests, Request(r)
        PROVE  WriteLong(r) \/ long' = long
    BY <1>3 DEF Request, EndCheck, ExtractCheck, EndCommit, ReadSummaries, AskAgain,
                InsertModule, LoadFlush, LoadCommit, Fail
  <1>4. CASE Restart
    BY <1>4 DEF Restart
  <1> QED BY <1>1, <1>2, <1>3, <1>4 DEF Next

\* The campaign's summary never loses what it has taken in and never claims what was not
\* told, however many requests end sessions at once (regenerate_campaign_summary).
THEOREM SummaryGrows == Spec => LongGrows
  <1>1. Inv /\ [Next]_vars =>
          [\A s \in Sessions : long[s] <= long'[s] /\ long'[s] <= told[s]]_vars
    <2> SUFFICES ASSUME Inv, Next, NEW s \in Sessions
                 PROVE  long[s] <= long'[s] /\ long'[s] <= told[s]
      OBVIOUS
    <2>0. long \in Versions /\ long[s] \in Nat /\ told[s] \in Nat /\ long[s] <= told[s]
      BY BoundsAssumption DEF Inv, Typed, Versions, ToldInv
    <2>1. CASE long' = long
      BY <2>0, <2>1
    <2>2. ASSUME NEW r \in Requests, WriteLong(r)
          PROVE  long[s] <= long'[s] /\ long'[s] <= told[s]
      <3>1. /\ req[r].prior = long /\ req[r].sums \in Versions /\ req[r].sums[s] <= told[s]
            /\ long' = Merged(req[r].prior, req[r].sums)
        BY <2>2, Summer DEF WriteLong
      <3>2. long[s] <= long'[s] /\ long'[s] \in {long[s], req[r].sums[s]}
        BY <2>0, <3>1, MergedIs
      <3> QED BY <2>0, <3>1, <3>2
    <2> QED BY <2>1, <2>2, OnlyEndings
  <1> QED BY <1>1, StoryCorrect, PTL DEF Spec, LongGrows

=============================================================================
