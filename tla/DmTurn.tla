------------------------------- MODULE DmTurn -------------------------------
(***************************************************************************)
(* One play session's DM turns: run_dm_turn (orchestrator/dispatch.py)     *)
(* around take_turn (orchestrator/dm.py).  A turn waits for the session's  *)
(* asyncio.Lock, persists the player's line, builds the prompt, and loops: *)
(* it streams a completion, dispatches the tool calls the model asked for, *)
(* each in a transaction of its own, and streams again, until the model    *)
(* narrates, an error ends the turn, or the loop reaches its cap.          *)
(*                                                                         *)
(* A step of the model is the code between two awaits, so whatever asyncio *)
(* may run, cancel or kill at an await happens between two steps.          *)
(***************************************************************************)
EXTENDS Naturals, Sequences, FiniteSets

CONSTANTS
    Turns,       \* the turn tasks of the session
    Background,  \* the auto-greetings: no websocket connection owns them
    NoTurn,      \* the lock is free
    MaxIter,     \* _MAX_TOOL_ITERATIONS
    Callers,     \* bound: the turns whose model asks for tools
    MaxCalls,    \* bound: tool calls the model asks for in one completion
    MaxAsides    \* bound: rows the tools of one turn write

ASSUME TurnsAssumption == Background \subseteq Turns /\ NoTurn \notin Turns
ASSUME BoundsAssumption == MaxIter \in Nat \ {0} /\ MaxCalls \in Nat

VARIABLES
    pc,       \* where each turn task is
    holder,   \* the turn that holds the session lock
    waiters,  \* the lock's FIFO queue
    \* locals of take_turn
    iter,     \* iteration
    empties,  \* empty_completion_count
    calls,    \* every call asked for in this turn: accumulated_tool_calls
    todo,     \* honourable calls of this iteration not yet dispatched
    rejects,  \* rejection_events of this iteration not yet published
    history,  \* messages, from the end of the built prompt on
    audit,    \* final_tool_calls_audit
    \* outside the task
    txn,      \* the turn's database session is inside a transaction
    log,      \* session_messages, as far as turns write it
    effects,  \* tool calls whose transaction committed
    failed,   \* history variable: tool calls that raised and were rolled back
    told,     \* what each turn published on the session's channel
    jobs      \* turns whose post-turn memory tasks are scheduled

locals == <<iter, empties, calls, todo, rejects, history, audit>>
lock == <<holder, waiters>>
vars == <<pc, lock, locals, txn, log, effects, failed, told, jobs>>

-----------------------------------------------------------------------------
TerminalErrors == {"stream_failed", "runaway_token", "stream_error",
                   "empty_completion", "iteration_cap"}

Streaming == {"stream", "spoke"}
Running == Streaming \cup TerminalErrors \cup
           {"lead", "leading", "prompt", "reading", "loop", "tools", "handler",
            "handled", "raised", "rejecting", "persist", "replying", "announce",
            "memory", "speaking", "orchestrator_crash"}
Ended == {"done", "muted", "cancelled", "lost"}

\* The WS messages of realtime/bridge.py, by what a listener can tell apart:
\* "update" stands for dice_roll, state_update, whisper and npc_introduced,
\* "rejected" for the four reasons _classify_tool_call gives.
Events == TerminalErrors \cup {"chunk", "update", "handler_error", "rejected",
                               "complete", "orchestrator_crash"}

Idx == 1..MaxCalls
CallIds == (1..MaxIter) \X Idx
Calls == [iter: 1..MaxIter, idx: Idx, ok: BOOLEAN]
Messages == [role: {"assistant", "tool", "note"}, ids: SUBSET CallIds]

\* The leading row of a turn is of kind "system" or "player", the stored narration
\* that answers it of kind "dm"; an "aside" is a row a tool writes: whisper (stored
\* as the DM's, to one character) and transition_location (as the system's).
Kinds == {"system", "player", "aside", "dm"}
Rows == [turn: Turns, kind: Kinds, calls: SUBSET CallIds]

Id(t, i) == <<iter[t], i>>
\* sorted(honourable_calls.values(), key=index): the next one to dispatch.
NextCalls(t) == {i \in todo[t] : \A j \in todo[t] : i <= j}

-----------------------------------------------------------------------------
Init ==
    /\ pc = [t \in Turns |-> "new"]
    /\ holder = NoTurn
    /\ waiters = <<>>
    /\ iter = [t \in Turns |-> 0]
    /\ empties = [t \in Turns |-> 0]
    /\ calls = [t \in Turns |-> {}]
    /\ todo = [t \in Turns |-> {}]
    /\ rejects = [t \in Turns |-> {}]
    /\ history = [t \in Turns |-> <<>>]
    /\ audit = [t \in Turns |-> {}]
    /\ txn = [t \in Turns |-> FALSE]
    /\ log = <<>>
    /\ effects = {}
    /\ failed = {}
    /\ told = [t \in Turns |-> <<>>]
    /\ jobs = {}

Goto(t, label) == pc' = [pc EXCEPT ![t] = label]

\* Leaving "async with lock, SessionLocal() as db": the lock is released, an
\* open transaction is rolled back and take_turn's frame goes away.
Leave(t, how) ==
    /\ Goto(t, how)
    /\ holder' = NoTurn
    /\ txn' = [txn EXCEPT ![t] = FALSE]
    /\ iter' = [iter EXCEPT ![t] = 0]
    /\ empties' = [empties EXCEPT ![t] = 0]
    /\ calls' = [calls EXCEPT ![t] = {}]
    /\ todo' = [todo EXCEPT ![t] = {}]
    /\ rejects' = [rejects EXCEPT ![t] = {}]
    /\ history' = [history EXCEPT ![t] = <<>>]
    /\ audit' = [audit EXCEPT ![t] = {}]
    /\ UNCHANGED waiters

Publish(t, kind) == told' = [told EXCEPT ![t] = Append(@, kind)]

\* pubsub.publish raised DmPubsubError: run_dm_turn returns, and the suspended
\* take_turn generator is closed without running another statement.
Mute(t) ==
    /\ Leave(t, "muted")
    /\ UNCHANGED <<log, effects, failed, told, jobs>>

-----------------------------------------------------------------------------
(* The session lock *)

\* Mutant of Request: the player's line is stored before the lock is held.
RequestStoring(t) ==
    /\ pc[t] = "new"
    /\ Goto(t, "queued")
    /\ waiters' = Append(waiters, t)
    /\ log' = Append(log, [turn |-> t, kind |-> "player", calls |-> {}])
    /\ UNCHANGED <<holder, locals, txn, effects, failed, told, jobs>>

\* A task for run_dm_turn is created: by a pc_action on a websocket, or by
\* create_session for the opening narration.
Request(t) ==
    /\ pc[t] = "new"
    /\ Goto(t, "queued")
    /\ waiters' = Append(waiters, t)
    /\ UNCHANGED <<holder, locals, txn, log, effects, failed, told, jobs>>

\* Mutant of Acquire: the lock is not awaited.
AcquireUnlocked(t) ==
    /\ pc[t] = "queued"
    /\ waiters # <<>>
    /\ Head(waiters) = t
    /\ Goto(t, "lead")
    /\ holder' = t
    /\ waiters' = Tail(waiters)
    /\ UNCHANGED <<locals, txn, log, effects, failed, told, jobs>>

Acquire(t) ==
    /\ pc[t] = "queued"
    /\ holder = NoTurn
    /\ waiters # <<>>
    /\ Head(waiters) = t
    /\ Goto(t, "lead")
    /\ holder' = t
    /\ waiters' = Tail(waiters)
    /\ UNCHANGED <<locals, txn, log, effects, failed, told, jobs>>

-----------------------------------------------------------------------------
(* The leading message and the prompt *)

\* Entering "async with db.begin()": from one place to the next, in a transaction.
Begin(t, from, to) ==
    /\ pc[t] = from
    /\ txn' = [txn EXCEPT ![t] = TRUE]
    /\ Goto(t, to)
    /\ UNCHANGED <<lock, locals, log, effects, failed, told, jobs>>

BeginLead(t) == Begin(t, "lead", "leading")

\* The block is left: the row is there once the commit is.
PersistLead(t) ==
    /\ pc[t] = "leading"
    /\ txn' = [txn EXCEPT ![t] = FALSE]
    /\ log' = Append(log, [turn |-> t,
                           kind |-> IF t \in Background THEN "system" ELSE "player",
                           calls |-> {}])
    /\ Goto(t, "prompt")
    /\ UNCHANGED <<lock, locals, effects, failed, told, jobs>>

\* The first SELECT of build_dm_prompt autobegins a transaction.
ReadPrompt(t) == Begin(t, "prompt", "reading")

\* Mutant of ClosePrompt: the commit before the stream is missing.
ClosePromptOpen(t) ==
    /\ pc[t] = "reading"
    /\ Goto(t, "loop")
    /\ UNCHANGED <<lock, locals, txn, log, effects, failed, told, jobs>>

ClosePrompt(t) ==
    /\ pc[t] = "reading"
    /\ txn' = [txn EXCEPT ![t] = FALSE]
    /\ Goto(t, "loop")
    /\ UNCHANGED <<lock, locals, log, effects, failed, told, jobs>>

-----------------------------------------------------------------------------
(* The tool-call loop: one completion *)

\* stream_dm() was called; it may raise before the first chunk.
OpenStream(t) ==
    /\ pc[t] = "loop"
    /\ iter[t] < MaxIter
    /\ iter' = [iter EXCEPT ![t] = @ + 1]
    /\ \/ Goto(t, "stream")
       \/ Goto(t, "stream_failed")
    /\ UNCHANGED <<lock, empties, calls, todo, rejects, history, audit,
                   txn, log, effects, failed, told, jobs>>

\* while ... else: the loop condition failed.
ReachCap(t) ==
    /\ pc[t] = "loop"
    /\ ~(iter[t] < MaxIter)
    /\ Goto(t, "iteration_cap")
    /\ UNCHANGED <<lock, locals, txn, log, effects, failed, told, jobs>>

\* A fragment of content arrives and is published.  Later fragments of the
\* same completion change nothing but may fail to be published.
Chunk(t) ==
    \/ /\ pc[t] = "stream"
       /\ Publish(t, "chunk")
       /\ Goto(t, "spoke")
       /\ UNCHANGED <<lock, locals, txn, log, effects, failed, jobs>>
    \/ /\ pc[t] \in Streaming
       /\ Mute(t)

\* The stream raised.  The runaway detector only counts content fragments.
BreakStream(t) ==
    /\ \/ pc[t] \in Streaming /\ Goto(t, "stream_error")
       \/ pc[t] = "spoke" /\ Goto(t, "runaway_token")
    /\ UNCHANGED <<lock, locals, txn, log, effects, failed, told, jobs>>

Asked(t, S, ok) == {[iter |-> iter[t], idx |-> i, ok |-> i \in ok] : i \in S}

\* What the assistant message of this iteration carries: the honourable calls
\* only.  Calls that _classify_tool_call rejects never reach the history.
Honourable(S, ok) == ok

\* The stream ended with tool calls S, of which ok passed _classify_tool_call;
\* text says whether there is prose beside them.
TakeCalls(t, S, ok, text) ==
    /\ calls' = [calls EXCEPT ![t] = @ \cup Asked(t, S, ok)]
    /\ todo' = [todo EXCEPT ![t] = ok]
    /\ rejects' = [rejects EXCEPT ![t] = S \ ok]
    /\ history' = IF ok # {} \/ text
                  THEN [history EXCEPT ![t] = Append(@,
                          [role |-> "assistant",
                           ids |-> {Id(t, i) : i \in Honourable(S, ok)}])]
                  ELSE history
    /\ Goto(t, "tools")
    /\ UNCHANGED <<lock, iter, empties, audit, txn, log, effects, failed, told, jobs>>

\* Native tool calls.
EndWithCalls(t) ==
    /\ pc[t] \in Streaming
    /\ t \in Callers
    /\ \E S \in (SUBSET Idx) \ {{}}, text \in BOOLEAN :
         /\ text => pc[t] = "spoke"
         /\ \E ok \in SUBSET S : TakeCalls(t, S, ok, text)

\* No native call, but the prose holds a fenced json block that parses as one:
\* _extract_fallback_tool_call.  The block is cut out of the prose.
EndWithFence(t) ==
    /\ pc[t] = "spoke"
    /\ t \in Callers
    /\ 1 \in Idx
    /\ \E ok \in SUBSET {1}, text \in BOOLEAN : TakeCalls(t, {1}, ok, text)

EndWithProse(t) ==
    /\ pc[t] = "spoke"
    /\ empties' = [empties EXCEPT ![t] = 0]
    /\ Goto(t, "persist")
    /\ UNCHANGED <<lock, iter, calls, todo, rejects, history, audit,
                   txn, log, effects, failed, told, jobs>>

\* Mutant of EndEmpty: an empty completion is always tried again.
EndEmptyForever(t) ==
    /\ pc[t] \in Streaming
    /\ empties' = [empties EXCEPT ![t] = @ + 1]
    /\ Goto(t, "loop")
    /\ UNCHANGED <<lock, iter, calls, todo, rejects, history, audit,
                   txn, log, effects, failed, told, jobs>>

\* Neither calls nor prose (white space may have been streamed).
EndEmpty(t) ==
    /\ pc[t] \in Streaming
    /\ empties' = [empties EXCEPT ![t] = @ + 1]
    /\ IF empties[t] + 1 < 2 THEN Goto(t, "loop") ELSE Goto(t, "empty_completion")
    /\ UNCHANGED <<lock, iter, calls, todo, rejects, history, audit,
                   txn, log, effects, failed, told, jobs>>

-----------------------------------------------------------------------------
(* The tool-call loop: dispatch *)

\* db.begin() for the next call, in index order.
BeginTool(t) == todo[t] # {} /\ Begin(t, "tools", "handler")

Asides(t) == {n \in DOMAIN log : log[n].turn = t /\ log[n].kind = "aside"}

\* What whisper and transition_location add to session_messages, in the tool's
\* own transaction; no other handler writes there.
WriteAside(t) ==
    /\ Cardinality(Asides(t)) < MaxAsides
    /\ log' = Append(log, [turn |-> t, kind |-> "aside", calls |-> {}])

CommitTool(t) ==
    /\ pc[t] = "handler"
    /\ txn' = [txn EXCEPT ![t] = FALSE]
    /\ \E i \in NextCalls(t) : effects' = effects \cup {<<t, Id(t, i)>>}
    /\ WriteAside(t) \/ UNCHANGED log
    /\ Goto(t, "handled")
    /\ UNCHANGED <<lock, locals, failed, told, jobs>>

\* The handler, or the commit, raised: the transaction is rolled back.
RaiseInTool(t) ==
    /\ pc[t] = "handler"
    /\ txn' = [txn EXCEPT ![t] = FALSE]
    /\ \E i \in NextCalls(t) : failed' = failed \cup {<<t, Id(t, i)>>}
    /\ Goto(t, "raised")
    /\ UNCHANGED <<lock, locals, log, effects, told, jobs>>

\* Mutant of Answer: the audit keeps the last call only.
AnswerLast(t) ==
    \E i \in NextCalls(t) :
      /\ history' = [history EXCEPT ![t] =
                       Append(@, [role |-> "tool", ids |-> {Id(t, i)}])]
      /\ audit' = [audit EXCEPT ![t] = {Id(t, i)}]
      /\ todo' = [todo EXCEPT ![t] = @ \ {i}]
      /\ Goto(t, "tools")
      /\ UNCHANGED <<lock, iter, empties, calls, rejects, txn, log, effects, failed, jobs>>

\* The tool message goes back into the prompt and the call into the audit.
Answer(t) ==
    \E i \in NextCalls(t) :
      /\ history' = [history EXCEPT ![t] =
                       Append(@, [role |-> "tool", ids |-> {Id(t, i)}])]
      /\ audit' = [audit EXCEPT ![t] = @ \cup {Id(t, i)}]
      /\ todo' = [todo EXCEPT ![t] = @ \ {i}]
      /\ Goto(t, "tools")
      /\ UNCHANGED <<lock, iter, empties, calls, rejects, txn, log, effects, failed, jobs>>

\* The committed result: some tools surface an event, ToolDispatched does not.
ReportTool(t) ==
    /\ pc[t] = "handled"
    /\ \/ (Publish(t, "update") \/ UNCHANGED told) /\ Answer(t)
       \/ Mute(t)

\* Mutant of ReportRaise: no tool message for a handler that raised.
ReportRaiseOnly(t) ==
    /\ pc[t] = "raised"
    /\ Publish(t, "handler_error")
    /\ todo' = [todo EXCEPT ![t] = @ \ NextCalls(t)]
    /\ Goto(t, "tools")
    /\ UNCHANGED <<lock, iter, empties, calls, rejects, history, audit,
                   txn, log, effects, failed, jobs>>

ReportRaise(t) ==
    /\ pc[t] = "raised"
    /\ \/ Publish(t, "handler_error") /\ Answer(t)
       \/ Mute(t)

FinishBatch(t) ==
    /\ pc[t] = "tools"
    /\ todo[t] = {}
    /\ Goto(t, IF rejects[t] = {} THEN "loop" ELSE "rejecting")
    /\ UNCHANGED <<lock, locals, txn, log, effects, failed, told, jobs>>

\* One DmError per rejected call, then one recovery note for the model.
ReportReject(t) ==
    /\ pc[t] = "rejecting"
    /\ \/ \E i \in rejects[t] :
            /\ Publish(t, "rejected")
            /\ rejects' = [rejects EXCEPT ![t] = @ \ {i}]
            /\ IF rejects[t] = {i}
               THEN /\ history' = [history EXCEPT ![t] =
                                     Append(@, [role |-> "note", ids |-> {}])]
                    /\ Goto(t, "loop")
               ELSE UNCHANGED <<history, pc>>
            /\ UNCHANGED <<lock, iter, empties, calls, todo, audit,
                           txn, log, effects, failed, jobs>>
       \/ Mute(t)

-----------------------------------------------------------------------------
(* The end of the turn *)

BeginReply(t) == Begin(t, "persist", "replying")

PersistReply(t) ==
    /\ pc[t] = "replying"
    /\ txn' = [txn EXCEPT ![t] = FALSE]
    /\ log' = Append(log, [turn |-> t, kind |-> "dm", calls |-> audit[t]])
    /\ Goto(t, "announce")
    /\ UNCHANGED <<lock, locals, effects, failed, told, jobs>>

\* Mutant of Announce: a failed publish stores the reply again.
AnnounceRetry(t) ==
    /\ pc[t] = "announce"
    /\ \/ Publish(t, "complete") /\ Goto(t, "memory")
       \/ Goto(t, "persist") /\ UNCHANGED told
    /\ UNCHANGED <<lock, locals, txn, log, effects, failed, jobs>>

Announce(t) ==
    /\ pc[t] = "announce"
    /\ \/ /\ Publish(t, "complete")
          /\ Goto(t, "memory")
          /\ UNCHANGED <<lock, locals, txn, log, effects, failed, jobs>>
       \/ Mute(t)

\* A player's turn that names its character looks the speaker up: a SELECT that
\* begins a transaction of its own, unless the session still holds the row.
LookUpSpeaker(t) ==
    /\ pc[t] = "memory"
    /\ t \notin Background
    /\ \E selects \in BOOLEAN : txn' = [txn EXCEPT ![t] = selects]
    /\ Goto(t, "speaking")
    /\ UNCHANGED <<lock, locals, log, effects, failed, told, jobs>>

\* _schedule_post_turn_memory: the extractor and the summariser.
ScheduleMemory(t) ==
    /\ pc[t] \in {"memory", "speaking"}
    /\ jobs' = jobs \cup {t}
    /\ Leave(t, "done")
    /\ UNCHANGED <<log, effects, failed, told>>

\* Mutant of Abort: the return after an error is missing.
AbortPersisting(t) ==
    /\ pc[t] \in TerminalErrors
    /\ Publish(t, pc[t])
    /\ Goto(t, "persist")
    /\ UNCHANGED <<lock, locals, txn, log, effects, failed, jobs>>

\* A terminal DmError is published and take_turn returns.
Abort(t) ==
    /\ pc[t] \in TerminalErrors
    /\ \/ /\ Publish(t, pc[t])
          /\ Leave(t, "done")
          /\ UNCHANGED <<log, effects, failed, jobs>>
       \/ Mute(t)

\* The awaits of the database outside the guarded handler.
Unguarded == {"lead", "leading", "prompt", "reading", "persist", "replying", "speaking"}

\* One of them raised out of take_turn.
Crash(t) ==
    /\ pc[t] \in Unguarded
    /\ Goto(t, "orchestrator_crash")
    /\ UNCHANGED <<lock, locals, txn, log, effects, failed, told, jobs>>

ReportCrash(t) ==
    /\ pc[t] = "orchestrator_crash"
    /\ \/ /\ Publish(t, "orchestrator_crash")
          /\ Leave(t, "done")
          /\ UNCHANGED <<log, effects, failed, jobs>>
       \/ Mute(t)

-----------------------------------------------------------------------------
(* Cancellation and restart *)

\* Mutant of Cancel: a cancelled waiter keeps its place in the lock's queue.
CancelInPlace(t) ==
    /\ t \notin Background
    /\ \/ /\ pc[t] = "queued"
          /\ Goto(t, "cancelled")
          /\ UNCHANGED <<lock, locals, txn>>
       \/ /\ pc[t] \in Running
          /\ Leave(t, "cancelled")
    /\ UNCHANGED <<log, effects, failed, told, jobs>>

\* The connection that asked for the turn went away: ws.py cancels its tasks.
Cancel(t) ==
    /\ t \notin Background
    /\ \/ /\ pc[t] = "queued"
          /\ \E i \in DOMAIN waiters :
               /\ waiters[i] = t
               /\ waiters' = SubSeq(waiters, 1, i - 1)
                               \o SubSeq(waiters, i + 1, Len(waiters))
          /\ Goto(t, "cancelled")
          /\ UNCHANGED <<holder, locals, txn>>
       \/ /\ pc[t] \in Running
          /\ Leave(t, "cancelled")
    /\ UNCHANGED <<log, effects, failed, told, jobs>>

\* The process dies and starts again: tasks, locks and background tasks are
\* gone, the database is not.
Restart ==
    /\ \E t \in Turns : pc[t] \in Running \cup {"queued"}
    /\ pc' = [t \in Turns |-> IF pc[t] \in Running \cup {"queued"} THEN "lost" ELSE pc[t]]
    /\ holder' = NoTurn
    /\ waiters' = <<>>
    /\ txn' = [t \in Turns |-> FALSE]
    /\ iter' = [t \in Turns |-> 0]
    /\ empties' = [t \in Turns |-> 0]
    /\ calls' = [t \in Turns |-> {}]
    /\ todo' = [t \in Turns |-> {}]
    /\ rejects' = [t \in Turns |-> {}]
    /\ history' = [t \in Turns |-> <<>>]
    /\ audit' = [t \in Turns |-> {}]
    /\ jobs' = {}
    /\ UNCHANGED <<log, effects, failed, told>>

-----------------------------------------------------------------------------
\* One step of turn t's own task.
Completion(t) == OpenStream(t) \/ ReachCap(t) \/ Chunk(t) \/ BreakStream(t)
                 \/ EndWithCalls(t) \/ EndWithFence(t) \/ EndWithProse(t) \/ EndEmpty(t)
Dispatch(t) == BeginTool(t) \/ CommitTool(t) \/ RaiseInTool(t) \/ ReportTool(t)
               \/ ReportRaise(t) \/ FinishBatch(t) \/ ReportReject(t)
Finish(t) == BeginReply(t) \/ PersistReply(t) \/ Announce(t) \/ LookUpSpeaker(t)
             \/ ScheduleMemory(t) \/ Abort(t)
             \/ Crash(t) \/ ReportCrash(t)
Step(t) == Acquire(t) \/ BeginLead(t) \/ PersistLead(t) \/ ReadPrompt(t) \/ ClosePrompt(t)
           \/ Completion(t) \/ Dispatch(t) \/ Finish(t)

Next == \/ \E t \in Turns : Request(t) \/ Step(t) \/ Cancel(t)
        \/ Restart

Spec == Init /\ [][Next]_vars

\* Every await of a running turn returns: database calls and publishes finish,
\* and the LLM client has connect and read timeouts and a token budget.
Fairness == \A t \in Turns : WF_vars(Step(t))
FairSpec == Spec /\ Fairness

-----------------------------------------------------------------------------
(* Properties *)

TypeOK ==
    /\ pc \in [Turns -> {"new", "queued"} \cup Running \cup Ended]
    /\ holder \in Turns \cup {NoTurn}
    /\ waiters \in Seq(Turns)
    /\ iter \in [Turns -> 0..MaxIter]
    /\ empties \in [Turns -> 0..2]
    /\ calls \in [Turns -> SUBSET Calls]
    /\ todo \in [Turns -> SUBSET Idx]
    /\ rejects \in [Turns -> SUBSET Idx]
    /\ history \in [Turns -> Seq(Messages)]
    /\ audit \in [Turns -> SUBSET CallIds]
    /\ txn \in [Turns -> BOOLEAN]
    /\ log \in Seq(Rows)
    /\ effects \subseteq Turns \X CallIds
    /\ failed \subseteq Turns \X CallIds
    /\ told \in [Turns -> Seq(Events)]
    /\ jobs \subseteq Turns

\* The completion under way has been counted, and the second empty one in a row
\* of retries leaves the loop.
LoopInv ==
    \A t \in Turns :
        /\ pc[t] \in Streaming \cup {"tools", "handler", "handled", "raised", "rejecting"}
             => iter[t] # 0
        /\ empties[t] = 2 => pc[t] = "empty_completion"

\* Exactly the turn that holds the session lock is between acquiring and
\* releasing it, and the waiting line holds exactly the tasks that wait, once
\* each (dispatch.py: "concurrent turn requests on the same session serialise").
LockExclusive ==
    /\ \A t \in Turns : pc[t] \in Running <=> holder = t
    /\ \A t \in Turns : pc[t] = "queued" <=> \E i \in DOMAIN waiters : waiters[i] = t
    /\ \A i, j \in DOMAIN waiters : waiters[i] = waiters[j] => i = j

\* The rows two turns write, their tools' included, never mix: a turn builds its
\* prompt when all its predecessors will ever write is written (dispatch.py: "turn
\* N+1 waits for turn N to finish before building its prompt").
TranscriptContiguous ==
    \A i, j, k \in DOMAIN log :
        i < j /\ j < k /\ log[i].turn = log[k].turn => log[j].turn = log[i].turn

\* No transaction is open while a completion streams (dm.py, step 2: "NO
\* transaction held while streaming").
NoTxnWhileStreaming == \A t \in Turns : pc[t] \in Streaming => ~txn[t]

\* Where a transaction can be open at all: inside the three db.begin() blocks, while
\* the prompt or the speaker is read, and until a crash in one of them is reported.
\* So no block is ever begun inside another transaction, which SQLAlchemy refuses.
InTxn == {"leading", "reading", "handler", "replying", "speaking", "orchestrator_crash"}
TxnInv == \A t \in Turns : txn[t] => pc[t] \in InTxn

\* The inductive invariant behind TypeOK, LockExclusive and NoTxnWhileStreaming.
TurnInv == TypeOK /\ LoopInv /\ LockExclusive /\ TxnInv

\* At the top of the loop, which is when messages is sent to the model, every
\* tool call in it is answered by one tool message that follows the assistant
\* message carrying it with only tool messages in between, and no tool message
\* answers a call that was not made (dm.py, _assistant_message_for_audit).
AnswersIn(h, a, b) == h[b].role = "tool" /\ \A k \in (a + 1)..b : h[k].role = "tool"
HistoryAnswered ==
    \A t \in Turns : pc[t] = "loop" =>
        LET h == history[t] IN
        \A a \in DOMAIN h :
            /\ h[a].role = "assistant" =>
                 \A id \in h[a].ids :
                    Cardinality({b \in (a + 1)..Len(h) : h[b].ids = {id} /\ AnswersIn(h, a, b)}) = 1
            /\ h[a].role = "tool" =>
                 \E b \in 1..(a - 1) : /\ h[b].role = "assistant"
                                      /\ h[a].ids \subseteq h[b].ids
                                      /\ AnswersIn(h, b, a)

\* A rejected call never enters the history the model is sent (the comment on
\* _TOOL_REJECTION_RECOVERY_NOTE: it "MUST NOT be appended").
NoRejectedInHistory ==
    \A t \in Turns : \A i \in DOMAIN history[t] : \A c \in calls[t] :
        <<c.iter, c.idx>> \in history[t][i].ids => c.ok

\* When the loop comes round, the table has been told of every call that was
\* rejected so far, and the model has one recovery note for every completion
\* that held such a call.
RejectionsReported ==
    \A t \in Turns : pc[t] \in {"loop", "persist"} =>
        LET bad == {c \in calls[t] : ~c.ok} IN
        /\ Cardinality({i \in DOMAIN told[t] : told[t][i] = "rejected"}) = Cardinality(bad)
        /\ Cardinality({i \in DOMAIN history[t] : history[t][i].role = "note"})
             = Cardinality({c.iter : c \in bad})

\* The audit stored with a reply names exactly the tool calls of the turn that were
\* dispatched: every one that changed the database, every one that was rolled back
\* when its handler raised, and no other (dm.py, _tool_call_audit_record).
Dispatched(t) == {e[2] : e \in {d \in effects \cup failed : d[1] = t}}
AuditExact ==
    \A t \in Turns : \A i \in DOMAIN log :
        log[i].turn = t /\ log[i].kind = "dm" => log[i].calls = Dispatched(t)

\* A narration is announced only when its row is in the transcript, where a turn has
\* at most one, and a turn that ended in an error left no narration there (its tools
\* may have left rows of their own, whatever became of it).
CompleteIsPersisted ==
    \A t \in Turns :
        LET replies == {i \in DOMAIN log : log[i].turn = t /\ log[i].kind = "dm"} IN
        /\ Cardinality(replies) <= 1
        /\ \A i \in DOMAIN told[t] :
             /\ told[t][i] = "complete" => replies # {}
             /\ told[t][i] \in TerminalErrors => replies = {}

\* A turn that ran to its end closed with exactly one terminal event and
\* published nothing after it, except that a failed database read after
\* narration_complete is still reported as a crash.
TerminalEvents == TerminalErrors \cup {"complete", "orchestrator_crash"}
OneTerminalEvent ==
    \A t \in Turns :
        LET out == told[t] IN
        /\ \A i, j \in DOMAIN out :
             i < j /\ out[i] \in TerminalEvents
                => out[i] = "complete" /\ out[j] = "orchestrator_crash"
        /\ pc[t] = "done" => out # <<>> /\ out[Len(out)] \in TerminalEvents

\* The prompt history is one the model's server accepts, and holds what the model must
\* know: every honoured call answered, no rejected one, and a note for each rejection.
HistoryWellFormed == HistoryAnswered /\ NoRejectedInHistory /\ RejectionsReported

\* What the table is told of a turn is true and complete: a narration only when it is
\* stored, an error only when none is, and one terminal event to close it.
EventsTrue == CompleteIsPersisted /\ OneTerminalEvent

\* Every turn that is asked for is over some day: the lock is always passed on.
TurnEnds == \A t \in Turns : pc[t] = "queued" ~> pc[t] \in Ended

\* The session implements the serial turns it promises: this is how a turn's place and
\* the rows of session_messages look from there.
Stages == [t \in Turns |-> CASE pc[t] = "new" -> "idle"
                             [] pc[t] = "queued" -> "waiting"
                             [] pc[t] \in Running -> "serving"
                             [] OTHER -> "over"]
As(kind) == CASE kind = "dm" -> "reply" [] kind = "aside" -> "aside" [] OTHER -> "line"
Script == [i \in DOMAIN log |-> <<log[i].turn, As(log[i].kind)>>]
Serial == INSTANCE TurnSerial WITH stage <- Stages, line <- waiters, script <- Script
SerialSpec == Serial!Spec

=============================================================================
