# DungeonMaster in TLA+

DungeonMaster is an AI game master for tabletop sessions: players sit at a
browser table, act over a WebSocket, and a language model narrates, calls tools
that change the game state, and orders illustrations. One web process (FastAPI
on asyncio) serves the table, one worker process renders images, SQLite stores
everything, Redis carries the events and the image queue.

These modules specify the parts of it where the order of events matters, check
them with TLC on small instances, and prove the most important invariants with
TLAPS for instances of any size.

## The system

| Part | Code | State it keeps | Operations | Talks to | What is hard |
|---|---|---|---|---|---|
| DM turn | `orchestrator/dm.py`, `dispatch.py`, `context.py`, `llm/prompts.py` | session lock, locals of `take_turn`, `session_messages` | run a turn, greet, cancel | LLM client, tool handlers, pub/sub, memory | concurrent turns, cancellation at any await, malformed and empty completions, a transaction left open |
| Tool handlers | `orchestrator/handlers/*` | HP, status, encounters, NPCs, beats, location | one transaction per tool call | DM turn, image queue | handler raising half way, read-modify-write across sessions |
| Session hub | `api/ws.py`, `realtime/*` | presence registry, subscriptions, `visible_character_ids` | connect, snapshot, subscribe, forward, leave, whisper | DM turn, pub/sub, browser | snapshot against stream, whispers, half-failed connects |
| Image pipeline | `images/*`, `api/portraits.py` | queue, files, `generated_images`, canonical portraits | push, pop, dedup, render, store, link, announce | web process, FLUX service | worker dying between two steps, pushing before commit, dedup |
| FLUX watchdog | `images/worker.py` (`_watchdog`), `images/health.py` | status key in Redis | probe, degrade, recover | tool schema of the DM | stale status after a restart |
| Memory | `llm/memory.py` | summaries, `world_facts`, in-memory fact cache | summarise, extract, retrieve, invalidate | DM turn, LLM, embedder | cache filled after it was invalidated, counters passing a trigger |
| LLM client | `llm/client.py`, `embeddings.py`, `tools.py` | none | stream, complete, embed | DM turn, memory | runaway repetition, timeouts |
| Game rules | `game/*` | none (pure) | dice, damage, death table, initiative, character generation | handlers | boundaries at 0 HP, death of a downed character |
| Campaigns, invites | `api/campaigns.py` | campaigns, members, invites | create, mint, revoke, join, load a module, delete | characters, sessions | single-use invites under two requests |
| Sessions | `api/sessions.py`, `llm/modules.py` | sessions, `module_state` | create, end, extract a module | DM turn, memory | two ends, several active sessions |
| Characters | `api/characters.py`, `api/chargen.py` | characters, sheets, inventory | roll, enrol, return, edit | hub, campaigns | enrolment while the table is open |
| Auth and limits | `api/auth.py`, `security.py`, `deps.py`, `ratelimit.py` | users, counters | register, log in, limit | all endpoints | several windows per request |
| Images API, views, templates | `api/images.py`, `views/*`, `templates/*` | the browser's log | read | hub | log rebuilt from a snapshot |
| Database | `db/*`, `alembic/*` | SQLite | sessions, migrations | all | autocommitted SELECTs, one writer |
| Shell, deployment | `main.py`, `config.py`, `logging_config.py`, `metrics.py`, `middleware.py`, `deploy/*` | none of the above | start, log, back up | - | - |

What makes each part correct:

- **DM turn**: turns of a session run one at a time and in order; no transaction
  is open while a completion streams; every tool call the model is reminded of
  has its answer; what the table was told and what is stored agree, and the audit
  names the calls that were dispatched; every queued turn ends.
- **Session hub**: a whisper reaches its addressee alone; snapshot and stream
  together show the session's newest rows in order; the registry names who is there, and the
  clients follow it.
- **Image pipeline**: a row always has its file, an announced image its row, a
  canonical portrait is a stored portrait, and never replaced by one asked for earlier; what
  is stored is not rendered again; every job is done with.
- **Memory**: a retrieval that starts after facts were stored finds them, unless
  its load overlapped them; a summary costs one LLM call per trigger and never shrinks.
- **Combat**: HP stay in range, a reported change starts where the last one
  ended, the fallen get up by known ways only, a combat action belongs to its fight.
- **Campaigns**: rows name what is there; a used or revoked code admits somebody, and a
  sheet's edit undoes a move, never outside an overlap, or not at all.
- **Sessions**: what has happened in the story stays so, and the campaign's summary never
  loses what it has taken in.
- **FLUX watchdog**: the status key follows an outage and a recovery within known times.

## Modules

| Module | Models | Extends |
|---|---|---|
| `DmTurn` | `run_dm_turn` and `take_turn` with the session lock, the transaction, the transcript and the published events | - |
| `TurnSerial` | what they promise: turns served one at a time, first come first served, each writing its line first, then what its tools write, and at most one reply, which is its last row | - |
| `SessionHub` | WebSocket handler, registry, channel, the client's view, beside turns that store and publish rows | `Lists` |
| `ImageWorker` | enqueuers, queue, worker, files, rows, links | - |
| `Flux` | the image service in time: the watchdog's probes and status key beside the worker's renderings and retries | - |
| `Memory` | fact extraction, fact cache and session summaries of the turns of a session | `Lists` |
| `Rules` | the pure functions that handlers and character generation call | - |
| `Combat` | the handlers on hit points, status and encounters in the sessions of a campaign, and the initiative gate | `Rules`, `Lists` |
| `Initiative` | the turn order of an encounter and the falls of its participants | - |
| `Campaigns` | campaigns, members, invites, characters and their foreign keys under overlapping requests | - |
| `Story` | sessions opening and ending, beats, secrets and places, the campaign summary, modules extracted and loaded | `Lists` |
| `Lists` | lists by comprehension and the removal of a waiter, by positions instead of recursion, so that it can be reasoned about | - |
| `MC*` | model values, inputs and symmetry for the module named after MC | that module |
| `DmTurnProofs` | theorems about `DmTurn`, and that it implements `TurnSerial` | `DmTurn`, `SequenceLemmas` |
| `SessionHubProofs`, `MemoryProofs`, `StoryProofs`, `CampaignsProofs` | theorems about the module each is named after | that module, all but the last `SequenceLemmas` |
| `CombatProofs` | theorems about `Combat` and about `Initiative` | `Combat`, `Initiative`, `SequenceLemmas` |
| `ImageWorkerProofs` | theorems about `ImageWorker` and about `Flux` | `ImageWorker`, `Flux`, `SequenceLemmas` |
| `SequenceLemmas` | what the lists of the models look like after one is added, taken out or left out; least and last positions | `Lists`, TLAPS |

The component modules are meant to be read one at a time: `DmTurn` knows
of the table only what it publishes, `SessionHub` knows of a turn only that it
stores a row and then publishes it or fails to, `ImageWorker` knows of a tool
only when its transaction flushes and ends, `Memory` only that a turn begins with a row and
ends with two background tasks, `Combat` and `Story` that the turns of one session exclude
one another and those of two do not. Each abstracts the others to the
interface the code gives them.

### DmTurn

A step is the code between two awaits, so that whatever asyncio runs, cancels
or kills at an await happens between two steps. `pc[t]` is where the task of
turn `t` is: `new`, `queued` on the lock, one of `Running`, or one of `Ended`.

| Code | Actions |
|---|---|
| `create_task(run_dm_turn)`, `async with lock` | `Request`, `Acquire` |
| `take_turn` 1, 2 | `BeginLead`, `PersistLead`, `ReadPrompt`, `ClosePrompt` |
| loop head, `while ... else` | `OpenStream`, `ReachCap` |
| chunk loop, runaway and stream errors | `Chunk`, `BreakStream` |
| end of a completion, classification | `EndWithCalls`, `EndWithFence`, `EndWithProse`, `EndEmpty` |
| `_dispatch_one` | `BeginTool`, `CommitTool` (with `WriteAside`), `RaiseInTool`, `ReportTool`, `ReportRaise` |
| end of a batch, rejections | `FinishBatch`, `ReportReject` |
| reply, event, speaker, memory tasks | `BeginReply`, `PersistReply`, `Announce`, `LookUpSpeaker`, `ScheduleMemory` |
| error returns, `except` in `run_dm_turn` | `Abort`, `Crash`, `ReportCrash` |
| socket closed, process restarted | `Cancel`, `Restart` |

A tool call is its iteration, its index and whether it is honourable; the text
the model writes is absent. A row is its turn, kind and audited calls; an `aside` is a row
that a tool's transaction adds: `whisper` stores one as the DM's, `transition_location` one as the system's.
A line that a player whispers to the DM is no turn's (`WhisperToDm` of `SessionHub`). A
transaction is a flag, set where a block is begun or a SELECT begins one, and cleared where it is left. A publish that fails is a disjunct (`Mute`) of every
action that publishes, because `run_dm_turn` then returns and the suspended
generator is closed.

### ImageWorker

`Lookup`, `ReadReference`, `Render`, `WriteFile`, `Persist`, `Announce` are the
awaits of `_process_job` in order; each has its failure. `Crash` ends the worker
at any of them; the job it popped is lost, as `BLPOP` has it. `SpawnNpc` flushes
the row and pushes the job, `EndSpawn` commits or rolls back, `WriterBusy` is
SQLite's writer lock, for which the worker's own write has to wait.

### SessionHub

`at[c]` follows `session_socket` (`Connect`, `AnnounceJoin`, `ReadRows`, `ReadRoster`,
`SendSnapshot`, `Disconnect`, `Leave`, `AnnounceLeave`), `sub[c]` its subscriber
task (`Subscribe`, `Forward`, `SubscriberDies`). `log` and `shown` are what the
browser shows. Of a whisper only the audience counts. The snapshot is the newest `Limit`
rows that the query found, less what the user may not see (`InWindow`, `ReadableBy`), and the roster that is read
after them; others join, leave and publish between the query, the roster's reading, the sending
and the subscription. `SnapshotFails` leaves the handler before its `finally`, and the connection's
entry in the registry (`vanished`). Two ghosts: `gap`, the rows published between a connection's query and its subscription,
and `behind`, the clients whose last announcement of the roster was missed, overtaken or lost.

### Memory

A turn writes its row (`Begin`), retrieves (`LookUp`, then on a miss `Load` and
`Fill` with an await between them), and ends (`Finish`, which starts its two
tasks, or `Abandon`). The extractor is `StartExtraction` (the campaign's read),
`ReleaseExtraction` (its commit), `Extract` (the LLM and the embedder),
`StoreFacts` and `Invalidate`; the summariser is `Count`, `Lock`, `Recheck`,
`ReadLog`, `Summarise`, `WriteSummary`, with `EndRenewal` at every return.
`Whisper` is a line written without a turn, which can pass a trigger. `Restart` forgets cache, locks and tasks. Facts are the turns they come from,
a summary is the number of lines it covers.

### Initiative

`RollInitiative`, the first state, is any order `roll_initiative` can return, `AdvanceTurn` is
`advance_turn`, `RemoveParticipant` is `remove_participant` at an entry, with the
index counted from 1. The ghost `acted` has who has been `current_turn` in the round: whom
`advance_turn` reached, and who had the turn at once when the current entry was removed. The tools call only the first; the two helpers are checked as
the library they are, called in any sequence. Ids are distinct, which
`start_encounter` guarantees only if no two monster groups have the same name.

### Combat and Rules

A handler is three steps, because SQLite lets it be overtaken between them: `Read`
(the row, and the refusals that follow from it: `Heal`, `ApplyRevival`), `Flush` (the
UPDATE, which takes the writer lock) and `Commit`. `Writes` are the columns each handler sets from the row
it read, by way of `Rules` (`Damage`, `DeathRolls`, `Healed`); `Changed` leaves out those that keep their
value, as SQLAlchemy does, so that a heal at full HP writes nothing. `RollBack` is a handler
that raises or waits longer than `busy_timeout`. A dice roll only inserts its audit row. `Muster` and
`StartEncounter` are `start_encounter`'s read and write, `EndEncounter` is `end_encounter`.
`Declare` is `_check_initiative_gate` at the moment the message arrives; `BeginTurn` is when its turn
gets the session lock. Hit points come from `generate_character`'s rules (`Generated`): the race's classes,
alignments and score limits, the hit die and the Constitution modifier.

### Campaigns

A request that decides by what it has read is two steps: `JoinCheck`/`JoinCommit`
(`join_via_invite`), `LookForInvite`/`MintFound` (`get_or_mint_invite`), `EditSheet`/`SaveSheet` (notes and
appearance). The other requests are one step, `Fail` is a request that a foreign key, the
writer lock or its client ends. `DeleteCampaign` follows the foreign keys row by row: members,
invites and images go with the campaign, characters by `onDelete`, and `Referred` says when
the keys without an ON DELETE refuse the deletion. `onDelete` is a variable because the two ways to make a
database disagree: the migrations leave CASCADE, the models say SET NULL. `jobs` are the image
jobs ordered (`RequestPortrait`, `RequestScene`), each for the campaign its order was given in: `LinkPortrait` and
`StoreScene` may come after the character has moved on, and need the campaign to be there still. `moved` is a ghost:
what others have committed since a request's reads.

### Story

Tool calls as in `Combat`; `mark_beat` and `reveal_secret` carry the whole of `module_state`
from read to write. `EndCheck`, `EndCommit`, `ReadSummaries`, `WriteLong` are
`end_session` with `regenerate_campaign_summary`, under the campaign's lock (`queue`) from the
third on. `own` is the request's own session, which the identity map keeps as it was at the refresh. A
summary is known by how many renewals of each session's it has taken in; the LLM is assumed to
fold them in without loss (`Merged`). `ExtractCheck`, `AskAgain`, `InsertModule` are the
extraction with its retries, `LoadFlush` and `LoadCommit` are `load_module`, which holds the
writer lock while it embeds. Turns go on after the end of their session, because nothing checks it.

### Flux

The one timed module: `Tick` advances the clock when nothing is due. `Start`, `Wake`,
`ProbeAnswered`, `ProbeFailed` and `Die` are `_watchdog`; `FirstPost`, `Retry`, `JobDone`, `Refused`
and `JobFailed` are `FluxClient` with its backoff. FLUX is external: it takes one request at a time, in
order, so that a probe waits behind a rendering, also one whose client has gone
(`abandoned`), and a working FLUX can be reported degraded. `outage` and `calm` are ghosts
that measure how long it has been down, or up and free.

## Runs

| Run | Question | Instance |
|---|---|---|
| `dm_turn_deep` | Is one turn right whatever the model answers and wherever it is interrupted? | 1 turn, 3 iterations, 2 calls per completion, 1 tool row |
| `dm_turn_wide` | Do turns exclude and follow one another, implement `TurnSerial`, and end? | a player's turn and the greeting, 2 iterations, 1 call per completion (the player's turn alone), 2 tool rows, under fairness |
| `image_worker` | Do files, rows, links and announcements agree through a crash? Is nothing stored rendered again, every job done with? | 1 character, 1 NPC, 2 portrait prompts, 1 scene, 3 jobs, 1 crash |
| `hub` | Are whispers private, the log complete but for the gap and ordered, the registry exact and the clients with it? | 2 connections of one user or two, 1 character, 2 rows, a snapshot of 1 |
| `memory` | One LLM call per trigger, no shrinking summary, staleness by one race only, tasks that end? | 1 session, 2 turns, 4 lines, renewal every 2 |
| `memory_once` | Does a summary follow the session? (no) | the same with 4 turns |
| `initiative` | Is nobody left out of a round or reached twice, and who has the turn after a fall? | 4 participants with tied rolls, 3 rounds |
| `combat` | What can two sessions do to a sheet, and to a fight? | 2 sessions, 2 characters of 1 or 3 HP, blows of 1 and 12, 3 calls, 2 fights, 2 actions |
| `campaigns` | Do rows stay consistent, and what can overlapping requests do? | 2 campaigns, 2 codes, 1 character, 2 users, 2 requests, 7 events beside the orders of images |
| `campaigns_delete` | Do characters survive the deletion of their campaign? (no) | the same |
| `story` | What can two sessions and two requests do to the story and its summary? | 2 sessions, 2 beats, 1 secret, 2 places, 3 calls, 2 requests, 1 renewal each |
| `flux` | Are an outage and a recovery told in time? | the code's times in ticks of 5 s |

What the runs that pass show, where the answer is not a plain yes:

- `dm_turn_deep`: a turn that is cancelled or ends in an error leaves its line stored without a reply, and with it
  the rows its tools have written: a whisper may have been told by a turn that came to nothing.
- `hub`: a row is missed only if it is older than the snapshot's window or was published between its query and the
  subscription, and comes twice only if it was stored before the query and published after the subscription. A connection
  whose snapshot fails stays in the registry as a ghost. A client shows an older roster than the registry's, until
  the next announcement, when one was missed between roster and subscription, overtaken by a newer one, or failed;
  `presence.py` has every client converge.
- `image_worker`: a rendering that is lost before its row is committed is done again when it is asked for again.
- `initiative`: when the current entry is removed, the entry after it has the turn at once, and an advance passes
  it over, where the docstring has "the next advance will fall on the entry that was after them"; when it was the last,
  the one before it has the turn again.
- `memory`: a retrieval is stale only when its load overlapped an extractor's commit and filled
  the cache after the invalidation.
- `combat`: an update is lost only to another session's commit between the read and the flush. The
  fallen get up by a revival (by its docstring the only way), by a blow that rolls one of the table's rows that leave 1 HP (the table is
  rolled for who is down or dead already), or by an overtaken handler; a dead character can so have 1 HP
  and stay marked dead. A waiting combat action may run after its encounter has ended or a newer one has begun.
- `campaigns`: a code that is documented as single-use can admit two users, and a revoked one somebody, only when the
  requests overlap; no redemption takes a revocation back. With the models' schema the deletion of a campaign
  is refused while a character that moved away wears a portrait made in it.
- `story`: marked beats are forgotten, and a place gets two rows, only by overlapping turns
  of two sessions; two ends of a session cost two summaries (by its docstring the second should return the
  first's), and lose nothing.
- `flux`: the key says degraded at most 120 s, one sleep and one probe (210 s) after FLUX went down, under a
  watchdog that lives: neither after the 2 min nor at the third poll that `health.py` promises. A Redis error in a write ends the watchdog for good (`Die`), and the properties then
  say nothing.

**Bounds.** Three iterations are the least that has a tool iteration between two
empty completions and one more to reach the cap; two calls per completion are
the least that mixes an honourable call with a rejected or a raising one, and
has an order. The wide run has two turns, one of which nobody can cancel: a holder and a waiter, who may
go first; two iterations and one call are the least in which a turn writes its line, rows of its tools before
and after another completion, and a reply. What a longer queue adds, a waiter cancelled from its middle, is covered by the proofs of
`LockExclusive` and `SerialSpec`; liveness is checked for two.
Three jobs have a dedup hit, a newer portrait and an edit of the first. Two rows
have an order, and with a window of one the older is left out of a snapshot; two connections are two players or two tabs of one.
`hub` explores the executions in which the first connection is the
player's with the character (the constraint `FirstIsAnn`): the others exchange the connections, or have no player with a character.
Two turns are a load that overlaps another turn's insert; four lines pass a
trigger of two twice, so that the second meets a summary. Four participants
leave room before, at and after the current entry with one to spare.
In `combat` one and three HP with blows of 1 and 12 are survived, drop to zero exactly, and go far enough
below to reach every row of the table; three calls are two that overlap and one before or
after. Seven events make a campaign and a code, fill two requests, and have room for what
overtakes them, or move and deletion of a character with a portrait; `Grace` is true, which adds to the steps
of a later date and takes none away. In `story` two ends can overlap each other and three tool calls, and one renewal
more than what a summary has taken in is enough to see it lost. `flux` has the code's numbers;
`Answer` (30 s) is what `health.py` says a fresh request may take; it has to be below `ProbeTimeout`, since
a probe that were served and gave up all the same would let a recovery go unnoticed for longer.
`MaxIter` is a constant of the code (`_MAX_TOOL_ITERATIONS`), so are `Retries` and the times of
`Flux`; the other bounds are on what is unbounded. Deadlock is checked in `flux` alone, where time
must always go on; every other run may come to rest, when the bounded work is done.

**Fairness.** `DmTurn` has weak fairness of the steps of each turn's own task
(the LLM client and the handlers have timeouts, publishing fails or succeeds);
requests, cancellation and restarts have none. `ImageWorker` has weak fairness
of the worker's steps, since `BLPOP` and FLUX calls time out and a write waits at most
`busy_timeout`; the crash bound keeps the worker alive in the end. `SessionHub` has weak
fairness of each connection's own steps; turns and clients have none.
`Memory` has weak fairness of each turn's two background tasks, whose LLM calls
time out; turns and restarts have none. `Flux` needs none: its properties bound
times. The other modules have no liveness property: their requests and
handlers wait for the writer lock alone, which a timeout of five seconds ends.

**Disagreements.** Two runs show that the program does otherwise than a comment or a docstring of
the repository says: once there is a summary no trigger renews it
(`memory_once`), and in a migrated database the deletion of a campaign destroys its
characters (`campaigns_delete`). In six more a passing property states what the code
keeps of what a document says, and where it falls short of it: the roster's convergence (`RosterFollows`), the turn
after a removal (`FallKeepsActor`), the only way up from 0 HP (`UpOnlySo`), the single use of a code (`StaleByOverlapOnly`),
the time to degraded (`OutageNoticed`) and the second summary of a campaign (`LongGrows`). Each is a finding with the quoted line in
`PROJECT.json`.

## Proofs

TLAPS proves every invariant and every action property that the passing runs check, and the
refinement of `TurnSerial`, for all values of the constants. The runs show the same, and
liveness, on small instances. Nothing is assumed but the named `ASSUME`s of the modules, which
say that bounds are natural numbers, that names are distinct, and what a rule book or a timeout
guarantees (`HitDieAssumption`, `TimesAssumption`). `Initiative` and `Flux` name their
specifications apart (`OrderSpec`, `FluxSpec`), so that a proof module can extend them beside another.

Each proof has the same shape. `Inv`, the inductive invariant, is a conjunction of named parts;
`InitInv` and one lemma per action, with one step per part, lead to `NextInv`, and each
theorem follows from it. TLC has checked every invariant below on the component's run. What
takes the work is in the invariants:

**DmTurn.** From `TurnsAssumption` (the free lock is no turn) and `BoundsAssumption`:

- `TypeCorrect`. `iter[t]` is a valid index only because a completion under way has been
  counted, and `empties[t] <= 2` only because the second empty completion leaves the loop;
  `LoopInv` says both.
- `LockCorrect`: one turn of a session at a time. The steps are grouped by what they do to the
  lock (`StepShape`: stay inside, leave, or die), so that the dozens inside a turn are one case.
- `TxnCorrect`, and from it `StreamsOutsideTxn`: no completion streams inside a transaction. That alone is
  not inductive: nothing else may leave a transaction open on its way to the stream, so `TxnInv` names all the
  places where one can be open. It follows as well that no block is begun inside another.
- `RecordCorrect`, and from it `RowsNeverMix`, `AuditComplete`, `ToldTheTruth`: the rows of a
  turn are contiguous, the audit stored with a reply names exactly the calls that were dispatched (committed, or raised and
  rolled back), and what was announced is stored.
  `RecordInv` says for each place of a turn's task whether it has its leading row and its reply, which closing events and which
  audit, and that the rows of a running turn are the last ones, since only the holder of the lock adds to the transcript. (That the
  rows of its tools lie between the two is `TurnsAreSerial`.)
- `HistoryCorrect`, and from it `HistoryAccepted`: every call that the model is reminded of has one
  answer. `HistoryInv` knows a call by its completion and its place in it: those in the history were honourable, each is
  answered or still to be, and rejected calls have a note instead.
- `TurnsAreSerial`: `Spec => SerialSpec`. `Stages` and `Script` map the place of a task and the
  transcript to those of the serial server. One lemma per action of `DmTurn` shows a step of `TurnSerial` or a stutter;
  the step of a holder that dies is the one that takes `LockCorrect`.

**SessionHub** (`HubCorrect`). Per connection, four things together account for every
row stored since its snapshot's window: what the log has, what its stream has yet to bring, the row that is stored and still due
to be published, and the gap between snapshot and subscription. Without the account none of the properties is inductive: a log is
complete now because of what is on its way. From it `LogsTrue`, `NoWhisperLeaks` (with `CharsAssumption`:
the DM's audience is no character) and `RegistryRight`, which is exact: the connections served and the ghosts. `RosterConverges`
needs more: that whoever changes the registry has its roster in hand until it is published, that of those in hand the newest is the
registry as it is, and that a client which is not `behind` shows the last one published or has it in its stream.

**ImageWorker** (`ImageWorkerCorrect`). The argument is the order of the ids. The queue is sorted, behind the
job in hand, and whatever is stored or has failed is older than both (`InTurn`, `PastOnly`);
`Stage` says what the worker knows at each await. From it `StoreCoherent`,
`NeverRenderedTwice`, `StoredIsLinked` and `LatestWins`, through crashes at any await.

**Flux** (`WatchCorrect`, from `TimesAssumption`). `OutageInv` bounds, by the stage of the probe and the
ticks it has been there, how long an outage can have lasted that the key does not show;
`CalmInv` does so for a recovery. The delicate case is a probe that has waited behind a rendering: either it has been
served all the time, or the calm is no older than its own service. That a probe which is served is
answered before it gives up is needed for it: with `Answer = ProbeTimeout` TLC finds a recovery that is
noticed too late. From it `OutagesNoticed` and `RecoveriesNoticed`.

**Memory** (`MemoryCorrect`). The summary lock of a session has one holder, the head of its queue,
from the check to the write (`QueueInv`), so what he has read is still true when he writes
(`SummaryInv`); a task that holds a transaction is on its way to end it (`OpenInv`), and a turn under way has no tasks yet
(`TasksInv`). From it `TransactionsClosed`, `SummarisedOnce`, `SummaryNeverShrinks` and `StaleOneWay`. They are stated of
`Spec`, of which `FairSpec` is a part.

**Combat** (`CombatCorrect`). `SheetsInv` has every sheet within the rules, and every sheet a handler
has read or is about to write, with the writer lock held by one handler at most; `GateInv` has every waiting action belong
to the first actor of its encounter, as long as that one is active and no newer one has begun. `GeneratedPositive` and `DeathTable`
bound the rules. From it `SheetsStay`, `ActorsAct`, `LostOnlyToOverlap`, `OnlyTheRaisedRise`.

**Initiative** (`OrderCorrect`, from `ParticipantsAssumption` and `RollsAssumption`). Those up to the index, and they alone, have been `current_turn` in
the round, and nobody is there twice (the sort key is strict). An entry taken out renumbers those behind it, and the
index must follow (`RemoveKeeps`). From it `OrderTyped`, `NobodySkippedHolds`, `NobodyTwiceHolds`, `FallKeepsActorHolds`.

**Campaigns** (`CampaignsCorrect`). Rows name what is there, and `Informed`: what an open request
has read is still so, unless `moved` has it that somebody else has committed since. Every commit tells the others
(`TellPasses`). From it `RowsConsistent`, `StaleOnlyByOverlap`, `NothingWrittenBack`.

**Story** (`StoryCorrect`). A handler that has not been overtaken has read what is there
(`FreshInv`), so only the overtaken can forget a beat; who sums is the head of the lock's queue and
works from the summary as it is (`QueueInv`), and nothing is claimed that was not told (`ToldInv`).
From it `StoryInOrder`, `StoryStands`, `SummaryGrows`.

**Lists.** `Without` is defined by positions: the n-th entry that is left is the one of rank n.
`RankOrder` and `InOrderWorks` show that ranks enumerate the positions in their order, `WithoutWorks` and
`WithoutOthers` what follows for the lists of the models. In place of an induction they use that a set of
naturals has a least element (`Least`).

**Only model-checked.** The four liveness properties: `TurnEnds`, `JobsFinish`, `LeaversGo`, `TasksEnd`. The provers
have no rule for fairness and ENABLED that would reach them. The two violations are counterexamples, which
only TLC gives. No module declares a RECURSIVE operator.

## Plan

The components with an order of events worth checking are modelled, and their safety is proved. What is left:

1. Abstract specifications beside `TurnSerial`, with the refinement proved: the image queue as a store that holds
   each prompt's image once, the session's log as a prefix of the transcript.
2. Hazards without a property (see `PROJECT.json`), where the model can tell them apart.
3. Liveness in steps that can be proved: for each place of a task, that its own action is possible
   there and leads on, as far as that is said without ENABLED.

## Not modelled

- The text of prompts, narrations, sheets and images; the wire formats; the content of tokens, and
  with it the threshold of the runaway detector, which is one way for a stream to break.
- Registration, passwords, cookies; the rate-limit counters, kept by a library in Redis.
- Endpoints that only read (lists, details, messages, image files) and pages.
- Rules no handler calls: attacks, saving throws, ability checks, treasure, equipment, level-up.
- Jobs pushed by a request whose process dies before it answers; the order of the queue in
  `Campaigns`, which has any of its jobs end at any time (`ImageWorker` has the order).
- Migrations other than by the schema they leave, logging, metrics, scripts and units.

`PROJECT.json` lists each part with the reason.
