------------------------------- MODULE Story -------------------------------
(***************************************************************************)
(* The course of one campaign: its sessions open and end, tool calls of    *)
(* their turns mark beats, reveal secrets and move the party, the end of a *)
(* session renews the campaign's summary, an ended session is turned into  *)
(* a module and a module into a further campaign (api/sessions.py,         *)
(* load_module, regenerate_campaign_summary, four tool handlers).          *)
(*                                                                         *)
(* Turns of one session exclude one another, those of two sessions do not, *)
(* and nothing stops the turns of a session that has ended.  A summary is  *)
(* known by how many renewals of each session's summary it has taken in.   *)
(***************************************************************************)
EXTENDS Lists, Naturals

CONSTANTS
    Sessions,
    Requests,      \* HTTP requests that may be open at a time
    Beats,         \* the module's plot beats
    Secrets,       \* and its secrets
    Names,         \* names of places; spellings the code finds close are one name
    Opening,       \* the places a module brings along
    Retries,       \* _EXTRACTION_MAX_RETRIES
    Nowhere,       \* current_location_id NULL
    MaxCalls,      \* bound: tool calls of a behaviour
    MaxAsked,      \* bound: requests of a behaviour
    MaxTold        \* bound: renewals of a session's summary

ASSUME OpeningAssumption == Opening \in Seq(Names)
ASSUME RetriesAssumption == Retries \in Nat \ {0}
ASSUME NowhereAssumption == Nowhere \notin Nat
ASSUME BoundsAssumption == MaxCalls \in Nat /\ MaxAsked \in Nat /\ MaxTold \in Nat

VARIABLES
    session,   \* sessions.ended_at: "none" without a row, "open", "ended"
    at,        \* sessions.current_location_id, an index of places
    told,      \* renewals sessions.summary has seen
    long,      \* renewals of each session campaigns.long_summary covers
    module,    \* campaigns.module_state; loaded is FALSE for a bare campaign
    places,    \* names of the campaign's locations rows
    call,      \* the tool call under way in the session's turn
    moved,     \* ghost: another session changed the campaign since the call read
    req,       \* the requests under way
    queue,     \* the campaign's summary lock: its holder, then those waiting
    modules,   \* sources of the modules extracted
    loads,     \* campaigns made from a module: whether with its facts
    used       \* calls and requests so far, for the bounds

table == <<session, at, told>>
campaign == <<long, module, places>>
calls == <<call, moved>>
vars == <<table, campaign, calls, req, queue, modules, loads, used>>

NoCall == [phase |-> "none"]
Closed == [op |-> "none"]

\* What load_module stores: every beat pending.
Unplayed == [loaded |-> TRUE, pending |-> Beats, hit |-> {}, revealed |-> {}]
Bare == [loaded |-> FALSE, pending |-> {}, hit |-> {}, revealed |-> {}]

Init ==
    /\ session = [s \in Sessions |-> "none"]
    /\ at = [s \in Sessions |-> Nowhere]
    /\ told = [s \in Sessions |-> 0]
    /\ long = [s \in Sessions |-> 0]
    /\ \/ module = Unplayed /\ places = Opening
       \/ module = Bare /\ places = <<>>
    /\ call = [s \in Sessions |-> NoCall]
    /\ moved = [s \in Sessions |-> FALSE]
    /\ req = [r \in Requests |-> Closed]
    /\ queue = <<>>
    /\ modules = {}
    /\ loads = <<>>
    /\ used = [calls |-> 0, asked |-> 0]

\* A transaction keeps the writer lock from its flush to its commit; a load keeps it
\* while the embedder works.
WriterFree ==
    /\ \A s \in Sessions : call[s].phase # "flushed"
    /\ \A r \in Requests : req[r].op # "load"

Ask(r, record) ==
    /\ req[r] = Closed
    /\ used.asked < MaxAsked
    /\ req' = [req EXCEPT ![r] = record]
    /\ used' = [used EXCEPT !.asked = @ + 1]

Goto(r, record) == req' = [req EXCEPT ![r] = record]
Close(r) == Goto(r, Closed)

-----------------------------------------------------------------------------
(* Sessions and the campaign summary *)

\* Nobody looks whether the campaign has an open session.
CreateSession(s) ==
    /\ session[s] = "none"
    /\ WriterFree
    /\ session' = [session EXCEPT ![s] = "open"]
    /\ UNCHANGED <<at, told, campaign, calls, req, queue, modules, loads, used>>

\* The summary task of the session's turns (module Memory).
Renew(s) ==
    /\ session[s] # "none"
    /\ told[s] < MaxTold
    /\ WriterFree
    /\ told' = [told EXCEPT ![s] = @ + 1]
    /\ UNCHANGED <<session, at, campaign, calls, req, queue, modules, loads, used>>

\* A session that has ended is left as it is.
EndCheck(r, s) ==
    /\ session[s] = "open"
    /\ Ask(r, [op |-> "end", stage |-> "checked", of |-> s])
    /\ UNCHANGED <<table, campaign, calls, queue, modules, loads>>

\* The refresh after the commit is the last time the request reads its own session's row.
EndCommit(r) ==
    /\ req[r].op = "end" /\ req[r].stage = "checked"
    /\ WriterFree
    /\ session' = [session EXCEPT ![req[r].of] = "ended"]
    /\ Goto(r, [op |-> "end", stage |-> "waiting", of |-> req[r].of, own |-> told[req[r].of]])
    /\ queue' = Append(queue, r)
    /\ UNCHANGED <<at, told, campaign, calls, modules, loads, used>>

\* Mutant of MayRead: the campaign's summary lock is not taken.
MayReadAnyway(r) == TRUE

MayRead(r) == Head(queue) = r

Unlock(r) == queue' = Without(queue, {r})

\* Under the lock: the prior summary, and the sessions' summaries as they are now, its own as of
\* the refresh.  With nothing to summarise the request is over.
ReadSummaries(r) ==
    /\ req[r].op = "end" /\ req[r].stage = "waiting"
    /\ MayRead(r)
    /\ LET sums == [told EXCEPT ![req[r].of] = req[r].own]
           nothing == \A s \in Sessions : sums[s] = 0 /\ long[s] = 0
       IN  IF nothing THEN Close(r) /\ Unlock(r)
           ELSE /\ Goto(r, [op |-> "end", stage |-> "summing", of |-> req[r].of,
                             prior |-> long, sums |-> sums])
                /\ UNCHANGED queue
    /\ UNCHANGED <<table, campaign, calls, modules, loads, used>>

\* The LLM folds the sessions' summaries into the prior one.
Merged(prior, sums) ==
    [s \in Sessions |-> IF sums[s] > prior[s] THEN sums[s] ELSE prior[s]]

WriteLong(r) ==
    /\ req[r].op = "end" /\ req[r].stage = "summing"
    /\ WriterFree
    /\ long' = Merged(req[r].prior, req[r].sums)
    /\ Close(r)
    /\ Unlock(r)
    /\ UNCHANGED <<table, module, places, calls, modules, loads, used>>

-----------------------------------------------------------------------------
(* A tool call of a turn: it reads, writes under the writer lock and commits *)

CanCall(s) == session[s] # "none" /\ call[s] = NoCall /\ used.calls < MaxCalls

Read(s, write) ==
    /\ CanCall(s)
    /\ call' = [call EXCEPT ![s] = write]
    /\ moved' = [moved EXCEPT ![s] = FALSE]
    /\ used' = [used EXCEPT !.calls = @ + 1]
    /\ UNCHANGED <<table, campaign, req, queue, modules, loads>>

\* Mutant of Hit: the beat stays pending.
HitTwice(state, b) == [state EXCEPT !.hit = @ \union {b}]

Hit(state, b) == [state EXCEPT !.pending = @ \ {b}, !.hit = @ \union {b}]

\* An unknown beat is refused, one already hit is left alone.
MarkBeat(s, b) ==
    /\ module.loaded
    /\ b \in module.pending
    /\ Read(s, [phase |-> "read", tool |-> "mark_beat", state |-> Hit(module, b)])

\* Mutant of RevealSecret: the other keys of the state are not carried over.
RevealAlone(s, x) ==
    /\ module.loaded
    /\ x \notin module.revealed
    /\ Read(s, [phase |-> "read", tool |-> "reveal_secret",
                state |-> [Unplayed EXCEPT !.revealed = module.revealed \union {x}]])

RevealSecret(s, x) ==
    /\ module.loaded
    /\ x \notin module.revealed
    /\ Read(s, [phase |-> "read", tool |-> "reveal_secret",
                state |-> [module EXCEPT !.revealed = @ \union {x}]])

Matches(n) == {l \in DOMAIN places : places[l] = n}

\* By id: one of this campaign's locations.
MoveById(s, l) == Read(s, [phase |-> "read", tool |-> "transition_location", to |-> l])

\* By name: a location the name fits, or a new one.
MoveByName(s, n) ==
    IF Matches(n) # {}
    THEN \E l \in Matches(n) : MoveById(s, l)
    ELSE Read(s, [phase |-> "read", tool |-> "transition_location", create |-> n])

Flush(s) ==
    /\ call[s].phase = "read"
    /\ WriterFree
    /\ call' = [call EXCEPT ![s].phase = "flushed"]
    /\ UNCHANGED <<table, campaign, moved, req, queue, modules, loads, used>>

\* The columns the call has written: the whole of module_state, or where the party is.
Commit(s) ==
    /\ call[s].phase = "flushed"
    /\ LET c == call[s] IN
       /\ module' = IF c.tool \in {"mark_beat", "reveal_secret"} THEN c.state ELSE module
       /\ places' = IF "create" \in DOMAIN c THEN Append(places, c.create) ELSE places
       /\ at' = IF c.tool # "transition_location" THEN at
                ELSE [at EXCEPT ![s] = IF "to" \in DOMAIN c THEN c.to ELSE Len(places')]
       /\ moved' = [q \in Sessions |->
             q # s /\ (moved[q] \/ <<module', places'>> # <<module, places>>)]
    /\ call' = [call EXCEPT ![s] = NoCall]
    /\ UNCHANGED <<session, told, long, req, queue, modules, loads, used>>

\* The writer lock did not come in time, or the handler raised.
RollBack(s) ==
    /\ call[s] # NoCall
    /\ call' = [call EXCEPT ![s] = NoCall]
    /\ moved' = [moved EXCEPT ![s] = FALSE]
    /\ UNCHANGED <<table, campaign, req, queue, modules, loads, used>>

-----------------------------------------------------------------------------
(* A session becomes a module, a module a campaign *)

ExtractCheck(r, s) ==
    /\ session[s] = "ended"
    /\ Ask(r, [op |-> "extract", of |-> s, attempt |-> 1])
    /\ UNCHANGED <<table, campaign, calls, queue, modules, loads>>

\* The answer is no valid module: ask again, up to three times in all.
AskAgain(r) ==
    /\ req[r].op = "extract"
    /\ IF req[r].attempt < Retries
       THEN Goto(r, [req[r] EXCEPT !.attempt = @ + 1])
       ELSE Close(r)
    /\ UNCHANGED <<table, campaign, calls, queue, modules, loads, used>>

InsertModule(r) ==
    /\ req[r].op = "extract"
    /\ WriterFree
    /\ modules' = modules \union {req[r].of}
    /\ Close(r)
    /\ UNCHANGED <<table, campaign, calls, queue, loads, used>>

\* The campaign, its locations and NPCs are flushed before the facts are embedded.
LoadFlush(r) ==
    /\ modules # {} \/ module.loaded
    /\ WriterFree
    /\ Ask(r, [op |-> "load"])
    /\ UNCHANGED <<table, campaign, calls, queue, modules, loads>>

\* An embedder that fails costs the facts alone; the rest is committed in one go.
LoadCommit(r) ==
    /\ req[r].op = "load"
    /\ \E facts \in BOOLEAN : loads' = Append(loads, facts)
    /\ Close(r)
    /\ UNCHANGED <<table, campaign, calls, queue, modules, used>>

\* The LLM or the database fails: end_session swallows it, the others answer an error.
Fail(r) ==
    /\ req[r] # Closed
    /\ Close(r)
    /\ Unlock(r)
    /\ UNCHANGED <<table, campaign, calls, modules, loads, used>>

\* The process dies: requests, turns and the lock go, rows stay.
Restart ==
    /\ req' = [r \in Requests |-> Closed]
    /\ call' = [s \in Sessions |-> NoCall]
    /\ moved' = [s \in Sessions |-> FALSE]
    /\ queue' = <<>>
    /\ UNCHANGED <<table, campaign, modules, loads, used>>

-----------------------------------------------------------------------------
Tool(s) ==
    \/ \E b \in Beats : MarkBeat(s, b)
    \/ \E x \in Secrets : RevealSecret(s, x)
    \/ \E l \in DOMAIN places : MoveById(s, l)
    \/ \E n \in Names : MoveByName(s, n)
    \/ Flush(s) \/ Commit(s) \/ RollBack(s)

Request(r) ==
    \/ \E s \in Sessions : EndCheck(r, s) \/ ExtractCheck(r, s)
    \/ EndCommit(r) \/ ReadSummaries(r) \/ WriteLong(r)
    \/ AskAgain(r) \/ InsertModule(r)
    \/ LoadFlush(r) \/ LoadCommit(r)
    \/ Fail(r)

Next ==
    \/ \E s \in Sessions : CreateSession(s) \/ Renew(s) \/ Tool(s)
    \/ \E r \in Requests : Request(r)
    \/ Restart

Spec == Init /\ [][Next]_vars

-----------------------------------------------------------------------------
(* Properties *)

Versions == [Sessions -> 0..MaxTold]

\* A module's state stays a playthrough of that module in the row and in every whole copy a
\* tool call is about to write: each beat is pending or hit and never both, in spite of
\* handlers that overwrite one another.  The party is at a place that has a row; one
\* transaction at most holds the writer lock; the summary's queue holds the requests that
\* wait for it, once each; and a module comes from a session that is over.
Playthrough(state) ==
    /\ state.pending \intersect state.hit = {}
    /\ state.pending \union state.hit = IF state.loaded THEN Beats ELSE {}
    /\ state.revealed \subseteq Secrets

Queued == {r \in Requests : req[r].op = "end" /\ req[r].stage \in {"waiting", "summing"}}

StoryInv ==
    /\ session \in [Sessions -> {"none", "open", "ended"}]
    /\ \A s \in Sessions : at[s] = Nowhere \/ at[s] \in DOMAIN places
    /\ told \in Versions /\ long \in Versions
    /\ Playthrough(module)
    /\ \A s \in Sessions : "state" \in DOMAIN call[s] => Playthrough(call[s].state)
    /\ Cardinality({s \in Sessions : call[s].phase = "flushed"})
         + Cardinality({r \in Requests : req[r].op = "load"}) <= 1
    /\ Len(queue) = Cardinality(Queued) /\ {queue[i] : i \in DOMAIN queue} = Queued
    /\ \A s \in modules : session[s] = "ended"
    /\ \A r \in Requests : req[r].op = "extract" => req[r].attempt \in 1..Retries

\* What has happened in the story stays so: a beat that was hit, or a secret that was revealed,
\* is forgotten, and a second row is made for a place that has one, only by a handler whose
\* read another session's commit had overtaken.
OvertakenCommit ==
    \E s \in Sessions : moved[s] /\ call[s].phase = "flushed" /\ call'[s] = NoCall

BeatsStand ==
    [][\/ OvertakenCommit
       \/ /\ module.hit \subseteq module'.hit
          /\ module.revealed \subseteq module'.revealed
          /\ places' # places => Matches(places'[Len(places')]) = {}]_vars

\* However many requests end sessions of the campaign at once, and whichever fail, nothing the
\* long summary has taken in is lost again, and it never claims more than was told.  The
\* second of two ends does not get the first's summary back "without re-invoking the LLM"
\* (memory.py): it folds everything in once more, and must then still lose nothing.
LongGrows ==
    [][\A s \in Sessions : long[s] <= long'[s] /\ long'[s] <= told[s]]_vars
=============================================================================
