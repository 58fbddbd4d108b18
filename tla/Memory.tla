------------------------------- MODULE Memory -------------------------------
(***************************************************************************)
(* The long-term memory of one campaign (llm/memory.py).  A turn retrieves *)
(* facts through an in-memory cache while it builds its prompt; when it is *)
(* over, two background tasks of their own extract new facts from it and   *)
(* renew the session's summary at every EveryN-th player line.             *)
(*                                                                         *)
(* Facts are known by the turn they come from.  A summary is known by the  *)
(* number of player lines it covers.                                       *)
(***************************************************************************)
EXTENDS Lists, Naturals

CONSTANTS
    Sessions,    \* sessions of the campaign, all of them open
    EveryN,      \* every_n_turns
    MaxTurns,    \* bound: turns of a session
    MaxLines     \* bound: player lines of a session

ASSUME EveryNAssumption == EveryN \in Nat \ {0}
ASSUME BoundsAssumption == MaxTurns \in Nat /\ MaxLines \in Nat

TurnIds == Sessions \X (1..MaxTurns)

VARIABLES
    lines,     \* rows of session_messages whose sender is a player
    turns,     \* turns begun
    at,        \* where the session's current turn is
    loaded,    \* rows its load has read
    hits,      \* what topk returned to it
    facts,     \* world_facts
    cache,     \* the retriever's entry: <<>>, or <<the facts in it>>
    extract,   \* each turn's extractor task
    renew,     \* each turn's summary task
    trigger,   \* player_count it was triggered by
    upto,      \* lines its play log holds
    queue,     \* the summary lock: its holder, then those waiting for it
    summary,   \* lines sessions.summary covers, 0 for NULL
    blank,     \* sessions whose summary is the empty string
    open       \* tasks inside a transaction of their database session

turn == <<lines, turns, at, loaded, hits>>
store == <<facts, cache>>
renewal == <<renew, trigger, upto, queue, summary, blank>>
vars == <<turn, store, extract, renewal, open>>

Init ==
    /\ lines = [s \in Sessions |-> 0]
    /\ turns = [s \in Sessions |-> 0]
    /\ at = [s \in Sessions |-> "fresh"]
    /\ loaded = [s \in Sessions |-> {}]
    /\ hits = [s \in Sessions |-> {}]
    /\ facts = {}
    /\ cache = <<>>
    /\ extract = [t \in TurnIds |-> "none"]
    /\ renew = [t \in TurnIds |-> "none"]
    /\ trigger = [t \in TurnIds |-> 0]
    /\ upto = [t \in TurnIds |-> 0]
    /\ queue = [s \in Sessions |-> <<>>]
    /\ summary = [s \in Sessions |-> 0]
    /\ blank = {}
    /\ open = {}

-----------------------------------------------------------------------------
(* A turn, as far as memory is concerned *)

Now(s, place) == at' = [at EXCEPT ![s] = place]

\* The auto-greeting stores a system row, the players' turns a player row each.
Begin(s) ==
    /\ at[s] \in {"fresh", "idle"}
    /\ turns[s] < MaxTurns
    /\ turns' = [turns EXCEPT ![s] = @ + 1]
    /\ \/ at[s] = "fresh" /\ UNCHANGED lines
       \/ lines[s] < MaxLines /\ lines' = [lines EXCEPT ![s] = @ + 1]
    /\ hits' = [hits EXCEPT ![s] = {}]
    /\ Now(s, "looking")
    /\ UNCHANGED <<loaded, store, extract, renewal, open>>

\* whisper_to_dm is stored as a player's row too, outside any turn.
Whisper(s) ==
    /\ lines[s] < MaxLines
    /\ lines' = [lines EXCEPT ![s] = @ + 1]
    /\ UNCHANGED <<turns, at, loaded, hits, store, extract, renewal, open>>

\* build_dm_prompt retrieves nothing before a player has spoken.
LookUp(s) ==
    /\ at[s] = "looking"
    /\ \/ lines[s] = 0 /\ Now(s, "narrating") /\ UNCHANGED hits
       \/ /\ lines[s] # 0 /\ cache # <<>>
          /\ hits' = [hits EXCEPT ![s] = Head(cache)]
          /\ Now(s, "narrating")
       \/ lines[s] # 0 /\ cache = <<>> /\ Now(s, "loading") /\ UNCHANGED hits
    /\ UNCHANGED <<lines, turns, loaded, store, extract, renewal, open>>

\* _load's SELECT.
Load(s) ==
    /\ at[s] = "loading"
    /\ loaded' = [loaded EXCEPT ![s] = facts]
    /\ Now(s, "filling")
    /\ UNCHANGED <<lines, turns, hits, store, extract, renewal, open>>

Fill(s) ==
    /\ at[s] = "filling"
    /\ cache' = <<loaded[s]>>
    /\ hits' = [hits EXCEPT ![s] = loaded[s]]
    /\ loaded' = [loaded EXCEPT ![s] = {}]
    /\ Now(s, "narrating")
    /\ UNCHANGED <<lines, turns, facts, extract, renewal, open>>

\* The reply is stored and _schedule_post_turn_memory starts the two tasks.
Finish(s) ==
    /\ at[s] = "narrating"
    /\ extract' = [extract EXCEPT ![<<s, turns[s]>>] = "start"]
    /\ renew' = [renew EXCEPT ![<<s, turns[s]>>] = "count"]
    /\ Now(s, "idle")
    /\ UNCHANGED <<lines, turns, loaded, hits, store, trigger, upto, queue, summary, blank, open>>

\* An error or a cancellation anywhere in the turn: no memory work.
Abandon(s) ==
    /\ at[s] \notin {"fresh", "idle"}
    /\ loaded' = [loaded EXCEPT ![s] = {}]
    /\ Now(s, "idle")
    /\ UNCHANGED <<lines, turns, hits, store, extract, renewal, open>>

-----------------------------------------------------------------------------
(* extract_and_persist_facts *)

Extraction(t, place) == extract' = [extract EXCEPT ![t] = place]

\* The campaign is looked up, and the read transaction ended.
StartExtraction(t) ==
    /\ extract[t] = "start"
    /\ open' = open \cup {<<"extract", t>>}
    /\ Extraction(t, "release")
    /\ UNCHANGED <<turn, store, renewal>>

\* Mutant of ReleaseExtraction: the commit before the LLM call is missing.
ReleaseNothing(t) ==
    /\ extract[t] = "release"
    /\ Extraction(t, "llm")
    /\ UNCHANGED <<turn, store, renewal, open>>

ReleaseExtraction(t) ==
    /\ extract[t] = "release"
    /\ open' = open \ {<<"extract", t>>}
    /\ Extraction(t, "llm")
    /\ UNCHANGED <<turn, store, renewal>>

\* The LLM's answer is parsed and embedded; an error, or nothing to remember,
\* ends the task.
Extract(t) ==
    /\ extract[t] = "llm"
    /\ Extraction(t, "store") \/ Extraction(t, "done")
    /\ UNCHANGED <<turn, store, renewal, open>>

\* Mutant of StoreFacts: the cache is not invalidated.
StoreFactsOnly(t) ==
    /\ extract[t] = "store"
    /\ \/ facts' = facts \cup {t}
       \/ UNCHANGED facts
    /\ Extraction(t, "done")
    /\ UNCHANGED <<turn, cache, renewal, open>>

\* The rows are committed, or the database is busy for too long.
StoreFacts(t) ==
    /\ extract[t] = "store"
    /\ \/ facts' = facts \cup {t} /\ Extraction(t, "invalidate")
       \/ UNCHANGED facts /\ Extraction(t, "done")
    /\ UNCHANGED <<turn, cache, renewal, open>>

Invalidate(t) ==
    /\ extract[t] = "invalidate"
    /\ cache' = <<>>
    /\ Extraction(t, "done")
    /\ UNCHANGED <<turn, facts, renewal, open>>

-----------------------------------------------------------------------------
(* maybe_regenerate_session_summary *)

Renewal(t, place) == renew' = [renew EXCEPT ![t] = place]

\* Leaving the function, and the lock if it is held.
EndRenewal(t) ==
    /\ Renewal(t, "done")
    /\ queue' = [queue EXCEPT ![t[1]] = Without(@, {t})]
    /\ trigger' = [trigger EXCEPT ![t] = 0]
    /\ upto' = [upto EXCEPT ![t] = 0]
    /\ open' = open \ {<<"renew", t>>}

\* The count is read; the transaction that opens stays open at the lock.
Count(t) ==
    /\ renew[t] = "count"
    /\ LET count == lines[t[1]] IN
       IF count = 0 \/ count % EveryN # 0
       THEN EndRenewal(t)
       ELSE /\ trigger' = [trigger EXCEPT ![t] = count]
            /\ queue' = [queue EXCEPT ![t[1]] = Append(@, t)]
            /\ open' = open \cup {<<"renew", t>>}
            /\ Renewal(t, "lock")
            /\ UNCHANGED upto
    /\ UNCHANGED <<turn, store, extract, summary, blank>>

\* Mutant of Lock: the lock is not awaited.
LockFree(t) ==
    /\ renew[t] = "lock"
    /\ Renewal(t, "recheck")
    /\ UNCHANGED <<turn, store, extract, trigger, upto, queue, summary, blank, open>>

Lock(t) ==
    /\ renew[t] = "lock"
    /\ t = Head(queue[t[1]])
    /\ Renewal(t, "recheck")
    /\ UNCHANGED <<turn, store, extract, trigger, upto, queue, summary, blank, open>>

\* Whether the summary on disk will do, at the count read now.
Existing(t) ==
    LET s == t[1] IN
    /\ summary[s] # 0
    /\ (lines[s] > trigger[t] /\ s \notin blank) \/ lines[s] = trigger[t]

\* Mutant of Recheck: nothing is checked again.
RecheckNothing(t) ==
    /\ renew[t] = "recheck"
    /\ Renewal(t, "read")
    /\ UNCHANGED <<turn, store, extract, trigger, upto, queue, summary, blank, open>>

Recheck(t) ==
    /\ renew[t] = "recheck"
    /\ IF Existing(t)
       THEN EndRenewal(t)
       ELSE Renewal(t, "read") /\ UNCHANGED <<trigger, upto, queue, open>>
    /\ UNCHANGED <<turn, store, extract, summary, blank>>

\* The play log is read, and the transaction ended.
ReadLog(t) ==
    /\ renew[t] = "read"
    /\ upto' = [upto EXCEPT ![t] = lines[t[1]]]
    /\ open' = open \ {<<"renew", t>>}
    /\ Renewal(t, "llm")
    /\ UNCHANGED <<turn, store, extract, trigger, queue, summary, blank>>

\* Mutant of Summarise: an LLM error leaves the lock taken.
SummariseStuck(t) ==
    /\ renew[t] = "llm"
    /\ Renewal(t, "write") \/ Renewal(t, "done")
    /\ UNCHANGED <<turn, store, extract, trigger, upto, queue, summary, blank, open>>

Summarise(t) ==
    /\ renew[t] = "llm"
    /\ \/ Renewal(t, "write") /\ UNCHANGED <<trigger, upto, queue, open>>
       \/ EndRenewal(t)
    /\ UNCHANGED <<turn, store, extract, summary, blank>>

\* The model's text, which may be empty, is stored, or the database is busy.
WriteSummary(t) ==
    /\ renew[t] = "write"
    /\ \/ /\ summary' = [summary EXCEPT ![t[1]] = upto[t]]
          /\ \E empty \in SUBSET {t[1]} : blank' = (blank \ {t[1]}) \cup empty
       \/ UNCHANGED <<summary, blank>>
    /\ EndRenewal(t)
    /\ UNCHANGED <<turn, store, extract>>

-----------------------------------------------------------------------------
\* The web process restarts: tasks, locks and the cache are gone.
Restart ==
    /\ at' = [s \in Sessions |-> "idle"]
    /\ loaded' = [s \in Sessions |-> {}]
    /\ cache' = <<>>
    /\ extract' = [t \in TurnIds |-> "none"]
    /\ renew' = [t \in TurnIds |-> "none"]
    /\ trigger' = [t \in TurnIds |-> 0]
    /\ upto' = [t \in TurnIds |-> 0]
    /\ queue' = [s \in Sessions |-> <<>>]
    /\ open' = {}
    /\ UNCHANGED <<lines, turns, hits, facts, summary, blank>>

Retrieve(s) == LookUp(s) \/ Load(s) \/ Fill(s)
ExtractStep(t) == \/ StartExtraction(t) \/ ReleaseExtraction(t) \/ Extract(t)
                  \/ StoreFacts(t) \/ Invalidate(t)
RenewStep(t) == \/ Count(t) \/ Lock(t) \/ Recheck(t) \/ ReadLog(t)
                \/ Summarise(t) \/ WriteSummary(t)

Next == \/ \E s \in Sessions : \/ Begin(s) \/ Whisper(s) \/ Retrieve(s)
                               \/ Finish(s) \/ Abandon(s)
        \/ \E t \in TurnIds : ExtractStep(t) \/ RenewStep(t)
        \/ Restart

Spec == Init /\ [][Next]_vars

\* The tasks' own awaits return: the LLM client and the database time out.
FairSpec == Spec /\ \A t \in TurnIds : WF_vars(ExtractStep(t)) /\ WF_vars(RenewStep(t))

-----------------------------------------------------------------------------
(* Properties *)

TypeOK ==
    /\ lines \in [Sessions -> 0..MaxLines]
    /\ turns \in [Sessions -> 0..MaxTurns]
    /\ at \in [Sessions -> {"fresh", "idle", "looking", "loading", "filling", "narrating"}]
    /\ loaded \in [Sessions -> SUBSET TurnIds]
    /\ hits \in [Sessions -> SUBSET TurnIds]
    /\ facts \subseteq TurnIds
    /\ cache \in {<<>>} \cup {<<known>> : known \in SUBSET TurnIds}
    /\ extract \in [TurnIds -> {"none", "start", "release", "llm", "store", "invalidate", "done"}]
    /\ renew \in [TurnIds -> {"none", "count", "lock", "recheck", "read", "llm", "write", "done"}]
    /\ trigger \in [TurnIds -> 0..MaxLines]
    /\ upto \in [TurnIds -> 0..MaxLines]
    /\ queue \in [Sessions -> Seq(TurnIds)]
    /\ summary \in [Sessions -> 0..MaxLines]
    /\ blank \subseteq Sessions
    /\ open \subseteq {"extract", "renew"} \X TurnIds

\* Neither task waits for the LLM inside a transaction (memory.py: "We do NOT
\* hold one across the LLM call").
NoTxnDuringLlm ==
    \A t \in TurnIds : /\ extract[t] = "llm" => <<"extract", t>> \notin open
                       /\ renew[t] = "llm" => <<"renew", t>> \notin open

\* Both together: what the tasks hold while they wait is typed and closed.
MemoryInv == TypeOK /\ NoTxnDuringLlm

\* The cache goes stale in one way only: a load that read before an insert is
\* put into it after that insert's invalidation.
Fresh == cache = <<>> \/ cache = <<facts>> \/ \E t \in TurnIds : extract[t] = "invalidate"
LateFill == \E s \in Sessions : at[s] = "filling" /\ at'[s] = "narrating" /\ loaded[s] # facts
StaleByLateFillOnly == [][Fresh => Fresh' \/ LateFill]_vars

\* Tasks that race for one trigger call the LLM once: nobody summarises what is
\* summarised (memory.py: "the second caller ... returns that summary without
\* firing another LLM round-trip").
OneCallPerTrigger ==
    \A t \in TurnIds : renew[t] = "llm" /\ t[1] \notin blank => summary[t[1]] < trigger[t]

\* A summary is never replaced by one of a shorter log (memory.py: without the
\* lock "last-writer-wins the persisted row").
SummaryGrows == [][\A s \in Sessions : summary'[s] >= summary[s]]_vars

\* The background tasks come to an end, whatever fails on their way.
TasksEnd ==
    \A t \in TurnIds : /\ extract[t] = "start" ~> extract[t] \in {"none", "done"}
                       /\ renew[t] = "count" ~> renew[t] \in {"none", "done"}

\* A task is content with the summary on disk only if that is up to date with
\* the lines the task was triggered by (memory.py: "finding the summary already
\* up-to-date").
ContentWhenCurrent ==
    [][\A t \in TurnIds : renew[t] = "recheck" /\ renew'[t] = "done" =>
          summary[t[1]] >= trigger[t]]_vars

=============================================================================
