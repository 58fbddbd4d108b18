---------------------------- MODULE DmTurnProofs ----------------------------
(***************************************************************************)
(* Theorems about DmTurn, for every set of turns and every bound.          *)
(***************************************************************************)
EXTENDS DmTurn, SequenceLemmas, TLAPS

USE DEF Goto, Begin, locals, lock, Id

Typed == TypeOK /\ LoopInv

\* Ending a turn puts every local back to a value of its type.
LEMMA LeaveTyped ==
    ASSUME Typed, NEW t \in Turns, NEW how \in Ended, Leave(t, how),
           log' \in Seq(Rows), effects' \subseteq Turns \X CallIds,
           failed' \subseteq Turns \X CallIds, told' \in [Turns -> Seq(Events)], jobs' \subseteq Turns
    PROVE  Typed'
  <1>1. TypeOK'
    <2>1. pc' \in [Turns -> {"new", "queued"} \cup Running \cup Ended]
      BY DEF Leave, Typed, TypeOK
    <2>2. /\ holder' \in Turns \cup {NoTurn}
          /\ waiters' \in Seq(Turns)
          /\ txn' \in [Turns -> BOOLEAN]
      BY DEF Leave, Typed, TypeOK
    <2>3. /\ iter' \in [Turns -> 0..MaxIter]
          /\ empties' \in [Turns -> 0..2]
      BY BoundsAssumption DEF Leave, Typed, TypeOK
    <2>4. /\ calls' \in [Turns -> SUBSET Calls]
          /\ todo' \in [Turns -> SUBSET Idx]
          /\ rejects' \in [Turns -> SUBSET Idx]
          /\ history' \in [Turns -> Seq(Messages)]
          /\ audit' \in [Turns -> SUBSET CallIds]
      BY DEF Leave, Typed, TypeOK
    <2> QED
      BY <2>1, <2>2, <2>3, <2>4 DEF TypeOK
  <1>2. LoopInv'
    BY DEF Leave, Typed, TypeOK, LoopInv, Ended, Streaming
  <1> QED
    BY <1>1, <1>2 DEF Typed

\* Publishing appends one event of the feed's alphabet.
LEMMA PublishTyped ==
    ASSUME TypeOK, NEW t \in Turns, NEW kind \in Events, Publish(t, kind)
    PROVE  told' \in [Turns -> Seq(Events)]
  BY DEF Publish, TypeOK

\* Taking an element out of a sequence leaves a sequence of the same elements.
LEMMA RemoveTyped ==
    ASSUME NEW S, NEW s \in Seq(S), NEW i \in DOMAIN s
    PROVE  SubSeq(s, 1, i - 1) \o SubSeq(s, i + 1, Len(s)) \in Seq(S)
  <1>1. /\ i \in 1..Len(s)
        /\ Len(s) \in Nat
    OBVIOUS
  <1>2. SubSeq(s, 1, i - 1) \in Seq(S)
    BY <1>1
  <1>3. SubSeq(s, i + 1, Len(s)) \in Seq(S)
    BY <1>1
  <1> QED
    BY <1>2, <1>3

\* A turn whose announcement fails leaves every variable in its type.
LEMMA MuteTyped ==
    ASSUME Typed, NEW t \in Turns, Mute(t)
    PROVE  Typed'
  BY LeaveTyped DEF Mute, Ended, Typed, TypeOK

\* The calls of one completion are calls of the current iteration.
LEMMA AskedTyped ==
    ASSUME NEW t \in Turns, NEW S \in SUBSET Idx, NEW ok, iter[t] \in 1..MaxIter
    PROVE  Asked(t, S, ok) \subseteq Calls
  <1> SUFFICES ASSUME NEW i \in S
               PROVE  [iter |-> iter[t], idx |-> i, ok |-> i \in ok] \in Calls
    BY Zenon DEF Asked
  <1>1. (i \in ok) \in BOOLEAN
    OBVIOUS
  <1> QED
    BY <1>1, Zenon DEF Calls

\* The end of a completion that asked for calls, whichever way they came.
LEMMA TakeCallsTyped ==
    ASSUME Typed, NEW t \in Turns, NEW S \in SUBSET Idx, NEW ok \in SUBSET S, NEW text,
           iter[t] \in 1..MaxIter, pc[t] # "empty_completion", TakeCalls(t, S, ok, text)
    PROVE  Typed'
  <1> TypeOK /\ LoopInv
    BY DEF Typed
  <1>1. calls' \in [Turns -> SUBSET Calls]
    <2>1. calls[t] \cup Asked(t, S, ok) \in SUBSET Calls
      BY AskedTyped DEF TypeOK
    <2>2. calls' = [calls EXCEPT ![t] = calls[t] \cup Asked(t, S, ok)]
      BY DEF TakeCalls
    <2> QED
      BY <2>1, <2>2, Zenon DEF TypeOK
  <1>2. /\ todo' \in [Turns -> SUBSET Idx]
        /\ rejects' \in [Turns -> SUBSET Idx]
    BY DEF TakeCalls, TypeOK
  <1>3. [role |-> "assistant", ids |-> {Id(t, i) : i \in Honourable(S, ok)}] \in Messages
    BY DEF Messages, CallIds, Honourable
  <1>4. history' \in [Turns -> Seq(Messages)]
    BY <1>3 DEF TakeCalls, TypeOK
  <1>5. pc' \in [Turns -> {"new", "queued"} \cup Running \cup Ended]
    BY DEF TakeCalls, TypeOK, Running
  <1>6. TypeOK'
    BY <1>1, <1>2, <1>4, <1>5 DEF TakeCalls, TypeOK
  <1>7. LoopInv'
    BY DEF TakeCalls, TypeOK, LoopInv, Streaming
  <1> QED
    BY <1>6, <1>7 DEF Typed

\* The tool message and the audit entry of the call being dispatched.
LEMMA AnswerTyped ==
    ASSUME Typed, NEW t \in Turns, Answer(t), pc[t] \in {"handled", "raised"},
           told' \in [Turns -> Seq(Events)]
    PROVE  Typed'
  <1> TypeOK /\ LoopInv
    BY DEF Typed
  <1>1. PICK i \in NextCalls(t) :
          /\ history' = [history EXCEPT ![t] =
                           Append(@, [role |-> "tool", ids |-> {Id(t, i)}])]
          /\ audit' = [audit EXCEPT ![t] = @ \cup {Id(t, i)}]
          /\ todo' = [todo EXCEPT ![t] = @ \ {i}]
    BY DEF Answer
  <1>2. Id(t, i) \in CallIds
    BY DEF NextCalls, TypeOK, LoopInv, CallIds
  <1>3. [role |-> "tool", ids |-> {Id(t, i)}] \in Messages
    BY <1>2 DEF Messages
  <1>4. history' \in [Turns -> Seq(Messages)]
    BY <1>1, <1>3 DEF TypeOK
  <1>5. /\ audit' \in [Turns -> SUBSET CallIds]
        /\ todo' \in [Turns -> SUBSET Idx]
    BY <1>1, <1>2 DEF TypeOK
  <1>6. pc' \in [Turns -> {"new", "queued"} \cup Running \cup Ended]
    BY DEF Answer, TypeOK, Running
  <1>7. TypeOK'
    BY <1>4, <1>5, <1>6 DEF Answer, TypeOK
  <1>8. LoopInv'
    BY DEF Answer, TypeOK, LoopInv, Streaming
  <1> QED
    BY <1>7, <1>8 DEF Typed

\* Every step of a turn keeps the types.
LEMMA StepTyped ==
    ASSUME Typed, NEW t \in Turns, Request(t) \/ Step(t) \/ Cancel(t)
    PROVE  Typed'
  <1> TypeOK /\ LoopInv
    BY DEF Typed
  <1>1. CASE Request(t)
    <2>1. TypeOK'
      BY <1>1 DEF Request, TypeOK, Running
    <2>2. LoopInv'
      BY <1>1 DEF Request, TypeOK, LoopInv, Running, Streaming, TerminalErrors
    <2> QED
      BY <2>1, <2>2 DEF Typed
  <1>2. CASE Acquire(t)
    <2>1. TypeOK'
      BY <1>2 DEF Acquire, TypeOK, Running
    <2>2. LoopInv'
      BY <1>2 DEF Acquire, TypeOK, LoopInv, Running, Streaming, TerminalErrors
    <2> QED
      BY <2>1, <2>2 DEF Typed
  <1>3. CASE PersistLead(t)
    <2>1. TypeOK'
      BY <1>3 DEF PersistLead, TypeOK, Running, Rows, Kinds
    <2>2. LoopInv'
      BY <1>3 DEF PersistLead, TypeOK, LoopInv, Running, Streaming, TerminalErrors
    <2> QED
      BY <2>1, <2>2 DEF Typed
  <1>4. CASE ReadPrompt(t)
    <2>1. TypeOK'
      BY <1>4 DEF ReadPrompt, TypeOK, Running
    <2>2. LoopInv'
      BY <1>4 DEF ReadPrompt, TypeOK, LoopInv, Running, Streaming, TerminalErrors
    <2> QED
      BY <2>1, <2>2 DEF Typed
  <1>5. CASE ClosePrompt(t)
    <2>1. TypeOK'
      BY <1>5 DEF ClosePrompt, TypeOK, Running
    <2>2. LoopInv'
      BY <1>5 DEF ClosePrompt, TypeOK, LoopInv, Running, Streaming, TerminalErrors
    <2> QED
      BY <2>1, <2>2 DEF Typed
  <1>6. CASE OpenStream(t)
    <2>1. pc' \in [Turns -> {"new", "queued"} \cup Running \cup Ended]
      BY <1>6 DEF OpenStream, TypeOK, Running, Streaming, TerminalErrors
    <2>2. iter' \in [Turns -> 0..MaxIter]
      BY <1>6, BoundsAssumption DEF OpenStream, TypeOK
    <2>8. TypeOK'
      BY <1>6, <2>1, <2>2 DEF OpenStream, TypeOK
    <2>9. LoopInv'
      BY <1>6 DEF OpenStream, TypeOK, LoopInv, Running, Streaming, TerminalErrors
    <2> QED
      BY <2>8, <2>9 DEF Typed
  <1>7. CASE ReachCap(t)
    <2>1. TypeOK'
      BY <1>7 DEF ReachCap, TypeOK, Running, TerminalErrors
    <2>2. LoopInv'
      BY <1>7 DEF ReachCap, TypeOK, LoopInv, Running, Streaming, TerminalErrors
    <2> QED
      BY <2>1, <2>2 DEF Typed
  <1>8. CASE Chunk(t)
    <2> SUFFICES ASSUME ~Mute(t) PROVE Typed'
      BY MuteTyped
    <2>1. told' \in [Turns -> Seq(Events)]
      BY <1>8, PublishTyped DEF Chunk, Events
    <2>2. pc' \in [Turns -> {"new", "queued"} \cup Running \cup Ended]
      BY <1>8 DEF Chunk, TypeOK, Running, Streaming
    <2>8. TypeOK'
      BY <1>8, <2>1, <2>2 DEF Chunk, TypeOK
    <2>9. LoopInv'
      BY <1>8 DEF Chunk, TypeOK, LoopInv, Running, Streaming, TerminalErrors
    <2> QED
      BY <2>8, <2>9 DEF Typed
  <1>9. CASE BreakStream(t)
    <2>1. TypeOK'
      BY <1>9 DEF BreakStream, TypeOK, Running, Streaming, TerminalErrors
    <2>2. LoopInv'
      BY <1>9 DEF BreakStream, TypeOK, LoopInv, Running, Streaming, TerminalErrors
    <2> QED
      BY <2>1, <2>2 DEF Typed
  <1>10. CASE EndWithCalls(t)
    <2>1. PICK S \in SUBSET Idx, ok \in SUBSET Idx, text \in BOOLEAN :
            ok \subseteq S /\ TakeCalls(t, S, ok, text)
      BY <1>10 DEF EndWithCalls
    <2>2. iter[t] \in 1..MaxIter /\ pc[t] # "empty_completion"
      BY <1>10 DEF EndWithCalls, TypeOK, LoopInv, Streaming
    <2> QED
      BY <2>1, <2>2, TakeCallsTyped
  <1>11. CASE EndWithFence(t)
    <2>1. PICK S \in SUBSET Idx, ok \in SUBSET Idx, text \in BOOLEAN :
            ok \subseteq S /\ TakeCalls(t, S, ok, text)
      BY <1>11 DEF EndWithFence
    <2>2. iter[t] \in 1..MaxIter /\ pc[t] # "empty_completion"
      BY <1>11 DEF EndWithFence, TypeOK, LoopInv, Streaming
    <2> QED
      BY <2>1, <2>2, TakeCallsTyped
  <1>12. CASE EndWithProse(t)
    <2>1. TypeOK'
      BY <1>12 DEF EndWithProse, TypeOK, Running
    <2>2. LoopInv'
      BY <1>12 DEF EndWithProse, TypeOK, LoopInv, Running, Streaming, TerminalErrors
    <2> QED
      BY <2>1, <2>2 DEF Typed
  <1>13. CASE EndEmpty(t)
    <2>0. empties[t] + 1 \in 0..2
      <3>1. empties[t] \in 0..2 /\ empties[t] # 2
        BY <1>13 DEF EndEmpty, TypeOK, LoopInv, Streaming
      <3> QED
        BY <3>1
    <2>1. empties' \in [Turns -> 0..2]
      BY <1>13, <2>0 DEF EndEmpty, TypeOK
    <2>2. pc' \in [Turns -> {"new", "queued"} \cup Running \cup Ended]
      BY <1>13 DEF EndEmpty, TypeOK, Running, TerminalErrors
    <2>8. TypeOK'
      BY <1>13, <2>1, <2>2 DEF EndEmpty, TypeOK
    <2>9. LoopInv'
      BY <1>13 DEF EndEmpty, TypeOK, LoopInv, Running, Streaming, TerminalErrors
    <2> QED
      BY <2>8, <2>9 DEF Typed
  <1>14. CASE BeginTool(t)
    <2>1. TypeOK'
      BY <1>14 DEF BeginTool, TypeOK, Running
    <2>2. LoopInv'
      BY <1>14 DEF BeginTool, TypeOK, LoopInv, Running, Streaming, TerminalErrors
    <2> QED
      BY <2>1, <2>2 DEF Typed
  <1>15. CASE CommitTool(t)
    <2>3. log' \in Seq(Rows)
      <3>1. [turn |-> t, kind |-> "aside", calls |-> {}] \in Rows
        BY DEF Rows, Kinds
      <3>2. log' = log \/ log' = Append(log, [turn |-> t, kind |-> "aside", calls |-> {}])
        BY <1>15 DEF CommitTool, WriteAside
      <3>3. log \in Seq(Rows)
        BY DEF TypeOK
      <3> QED
        BY <3>1, <3>2, <3>3
    <2>1. TypeOK'
      BY <1>15, <2>3 DEF CommitTool, NextCalls, TypeOK, LoopInv, Running, Streaming, CallIds
    <2>2. LoopInv'
      BY <1>15 DEF CommitTool, NextCalls, TypeOK, LoopInv, Running, Streaming, TerminalErrors
    <2> QED
      BY <2>1, <2>2 DEF Typed
  <1>16. CASE RaiseInTool(t)
    <2>1. TypeOK'
      BY <1>16 DEF RaiseInTool, NextCalls, TypeOK, LoopInv, Running, Streaming, CallIds
    <2>2. LoopInv'
      BY <1>16 DEF RaiseInTool, NextCalls, TypeOK, LoopInv, Running, Streaming, TerminalErrors
    <2> QED
      BY <2>1, <2>2 DEF Typed
  <1>17. CASE ReportTool(t)
    <2> SUFFICES ASSUME ~Mute(t) PROVE Typed'
      BY MuteTyped
    <2>1. told' \in [Turns -> Seq(Events)]
      BY <1>17, PublishTyped DEF ReportTool, Events, TypeOK
    <2> QED
      BY <1>17, <2>1, AnswerTyped DEF ReportTool
  <1>18. CASE ReportRaise(t)
    <2> SUFFICES ASSUME ~Mute(t) PROVE Typed'
      BY MuteTyped
    <2>1. told' \in [Turns -> Seq(Events)]
      BY <1>18, PublishTyped DEF ReportRaise, Events, TypeOK
    <2> QED
      BY <1>18, <2>1, AnswerTyped DEF ReportRaise
  <1>19. CASE FinishBatch(t)
    <2>1. TypeOK'
      BY <1>19 DEF FinishBatch, TypeOK, Running
    <2>2. LoopInv'
      BY <1>19 DEF FinishBatch, TypeOK, LoopInv, Running, Streaming, TerminalErrors
    <2> QED
      BY <2>1, <2>2 DEF Typed
  <1>20. CASE ReportReject(t)
    <2> SUFFICES ASSUME ~Mute(t) PROVE Typed'
      BY MuteTyped
    <2>1. told' \in [Turns -> Seq(Events)]
      BY <1>20, PublishTyped DEF ReportReject, Events
    <2>2. PICK i \in rejects[t] :
            /\ rejects' = [rejects EXCEPT ![t] = @ \ {i}]
            /\ \/ /\ history' = [history EXCEPT ![t] =
                                   Append(@, [role |-> "note", ids |-> {}])]
                  /\ Goto(t, "loop")
               \/ UNCHANGED <<history, pc>>
      BY <1>20 DEF ReportReject
    <2>3. [role |-> "note", ids |-> {}] \in Messages
      BY DEF Messages
    <2>4. history' \in [Turns -> Seq(Messages)]
      <3>1. CASE history' = [history EXCEPT ![t] =
                               Append(@, [role |-> "note", ids |-> {}])]
        BY <3>1, <2>3 DEF TypeOK
      <3>2. CASE history' = history
        BY <3>2 DEF TypeOK
      <3> QED
        BY <2>2, <3>1, <3>2
    <2>5. rejects' \in [Turns -> SUBSET Idx]
      BY <2>2 DEF TypeOK
    <2>6. pc' \in [Turns -> {"new", "queued"} \cup Running \cup Ended]
      BY <2>2 DEF TypeOK, Running
    <2>7. UNCHANGED <<lock, iter, empties, calls, todo, audit, txn, log, effects, failed, jobs>>
      BY <1>20 DEF ReportReject
    <2>8. TypeOK'
      BY <2>1, <2>4, <2>5, <2>6, <2>7 DEF TypeOK
    <2>9. LoopInv'
      BY <2>2, <2>7, <1>20 DEF ReportReject, TypeOK, LoopInv, Streaming
    <2> QED
      BY <2>8, <2>9 DEF Typed
  <1>21. CASE PersistReply(t)
    <2>1. TypeOK'
      BY <1>21 DEF PersistReply, TypeOK, Running, Rows, Kinds
    <2>2. LoopInv'
      BY <1>21 DEF PersistReply, TypeOK, LoopInv, Running, Streaming, TerminalErrors
    <2> QED
      BY <2>1, <2>2 DEF Typed
  <1>22. CASE Announce(t)
    <2> SUFFICES ASSUME ~Mute(t) PROVE Typed'
      BY MuteTyped
    <2>1. told' \in [Turns -> Seq(Events)]
      BY <1>22, PublishTyped DEF Announce, Events
    <2>2. pc' \in [Turns -> {"new", "queued"} \cup Running \cup Ended]
      BY <1>22 DEF Announce, TypeOK, Running
    <2>8. TypeOK'
      BY <1>22, <2>1, <2>2 DEF Announce, TypeOK
    <2>9. LoopInv'
      BY <1>22 DEF Announce, TypeOK, LoopInv, Running, Streaming, TerminalErrors
    <2> QED
      BY <2>8, <2>9 DEF Typed
  <1>23. CASE ScheduleMemory(t)
    BY <1>23, LeaveTyped DEF ScheduleMemory, TypeOK, Typed, Ended, Events, TerminalErrors
  <1>24. CASE Abort(t)
    <2> SUFFICES ASSUME ~Mute(t) PROVE Typed'
      BY MuteTyped
    <2>1. Publish(t, pc[t]) /\ pc[t] \in Events /\ Leave(t, "done")
      BY <1>24 DEF Abort, Events
    <2>2. told' \in [Turns -> Seq(Events)]
      BY <2>1, PublishTyped
    <2>3. log' \in Seq(Rows) /\ effects' \subseteq Turns \X CallIds
          /\ failed' \subseteq Turns \X CallIds /\ jobs' \subseteq Turns
      BY <1>24 DEF Abort, TypeOK, Mute
    <2> QED
      BY <2>1, <2>2, <2>3, LeaveTyped DEF Ended
  <1>25. CASE Crash(t)
    <2>1. TypeOK'
      BY <1>25 DEF Crash, Unguarded, TypeOK, Running
    <2>2. LoopInv'
      BY <1>25 DEF Crash, Unguarded, TypeOK, LoopInv, Running, Streaming, TerminalErrors
    <2> QED
      BY <2>1, <2>2 DEF Typed
  <1>26. CASE ReportCrash(t)
    <2> SUFFICES ASSUME ~Mute(t) PROVE Typed'
      BY MuteTyped
    <2>1. Publish(t, "orchestrator_crash") /\ "orchestrator_crash" \in Events /\ Leave(t, "done")
      BY <1>26 DEF ReportCrash, Events
    <2>2. told' \in [Turns -> Seq(Events)]
      BY <2>1, PublishTyped
    <2>3. log' \in Seq(Rows) /\ effects' \subseteq Turns \X CallIds
          /\ failed' \subseteq Turns \X CallIds /\ jobs' \subseteq Turns
      BY <1>26 DEF ReportCrash, TypeOK, Mute
    <2> QED
      BY <2>1, <2>2, <2>3, LeaveTyped DEF Ended
  <1>27. CASE Cancel(t)
    <2>1. /\ log' \in Seq(Rows)
          /\ effects' \subseteq Turns \X CallIds
          /\ failed' \subseteq Turns \X CallIds
          /\ told' \in [Turns -> Seq(Events)]
          /\ jobs' \subseteq Turns
      BY <1>27 DEF Cancel, TypeOK
    <2>2. CASE Leave(t, "cancelled")
      BY <2>1, <2>2, LeaveTyped DEF Ended
    <2>3. CASE ~Leave(t, "cancelled")
      <3>1. /\ pc[t] = "queued"
            /\ Goto(t, "cancelled")
            /\ UNCHANGED <<holder, locals, txn>>
        BY <1>27, <2>3 DEF Cancel
      <3>2. PICK i \in DOMAIN waiters :
              waiters' = SubSeq(waiters, 1, i - 1) \o SubSeq(waiters, i + 1, Len(waiters))
        BY <1>27, <2>3 DEF Cancel
      <3>5. waiters' \in Seq(Turns)
        BY <3>2, RemoveTyped DEF TypeOK
      <3>3. TypeOK'
        BY <2>1, <3>1, <3>5 DEF TypeOK, Ended
      <3>4. LoopInv'
        BY <3>1 DEF LoopInv, TypeOK, Streaming, Ended
      <3> QED
        BY <3>3, <3>4 DEF Typed
    <2> QED
      BY <2>2, <2>3
  <1>28. CASE BeginLead(t)
    <2>1. TypeOK'
      BY <1>28 DEF BeginLead, TypeOK, Running
    <2>2. LoopInv'
      BY <1>28 DEF BeginLead, TypeOK, LoopInv, Running, Streaming, TerminalErrors
    <2> QED
      BY <2>1, <2>2 DEF Typed
  <1>29. CASE BeginReply(t)
    <2>1. TypeOK'
      BY <1>29 DEF BeginReply, TypeOK, Running
    <2>2. LoopInv'
      BY <1>29 DEF BeginReply, TypeOK, LoopInv, Running, Streaming, TerminalErrors
    <2> QED
      BY <2>1, <2>2 DEF Typed
  <1>30. CASE LookUpSpeaker(t)
    <2>1. TypeOK'
      BY <1>30 DEF LookUpSpeaker, TypeOK, Running
    <2>2. LoopInv'
      BY <1>30 DEF LookUpSpeaker, TypeOK, LoopInv, Running, Streaming, TerminalErrors
    <2> QED
      BY <2>1, <2>2 DEF Typed
  <1> QED
    BY <1>1, <1>2, <1>3, <1>4, <1>5, <1>6, <1>7, <1>8, <1>9, <1>10, <1>11, <1>12, <1>13, <1>14,
       <1>15, <1>16, <1>17, <1>18, <1>19, <1>20, <1>21, <1>22, <1>23, <1>24, <1>25, <1>26,
       <1>27, <1>28, <1>29, <1>30 DEF Step, Completion, Dispatch, Finish

\* After a restart no task is left, waiting or running.
LEMMA RestartShape ==
    ASSUME Restart, NEW t \in Turns
    PROVE  /\ pc'[t] \notin Running
           /\ pc'[t] # "queued"
  <1>1. CASE pc[t] \in Running \cup {"queued"}
    <2>1. pc'[t] = "lost"
      BY <1>1 DEF Restart
    <2> QED
      BY <2>1 DEF Running, Streaming, TerminalErrors
  <1>2. CASE pc[t] \notin Running \cup {"queued"}
    <2>1. pc'[t] = pc[t]
      BY <1>2 DEF Restart
    <2> QED
      BY <1>2, <2>1
  <1> QED
    BY <1>1, <1>2

\* So does a restart of the program.
LEMMA RestartTyped ==
    ASSUME Typed, Restart
    PROVE  Typed'
  <1>1. /\ pc' \in [Turns -> {"new", "queued"} \cup Running \cup Ended]
        /\ holder' \in Turns \cup {NoTurn}
        /\ waiters' \in Seq(Turns)
        /\ txn' \in [Turns -> BOOLEAN]
    BY DEF Restart, Typed, TypeOK, Ended
  <1>2. /\ iter' \in [Turns -> 0..MaxIter]
        /\ empties' \in [Turns -> 0..2]
    BY BoundsAssumption DEF Restart
  <1>3. /\ calls' \in [Turns -> SUBSET Calls]
        /\ todo' \in [Turns -> SUBSET Idx]
        /\ rejects' \in [Turns -> SUBSET Idx]
        /\ history' \in [Turns -> Seq(Messages)]
        /\ audit' \in [Turns -> SUBSET CallIds]
        /\ jobs' \subseteq Turns
    BY DEF Restart
  <1>4. TypeOK'
    BY <1>1, <1>2, <1>3 DEF Restart, Typed, TypeOK
  <1>5. \A t \in Turns : pc'[t] \notin Running
    BY RestartShape
  <1>6. LoopInv'
    BY <1>5 DEF Restart, LoopInv, Running, Streaming
  <1> QED
    BY <1>4, <1>6 DEF Typed

\* The initial state is typed.
LEMMA InitTyped == Init => Typed
  <1> SUFFICES ASSUME Init PROVE Typed
    OBVIOUS
  <1>1. /\ iter \in [Turns -> 0..MaxIter]
        /\ empties \in [Turns -> 0..2]
    BY BoundsAssumption DEF Init
  <1>2. /\ calls \in [Turns -> SUBSET Calls]
        /\ todo \in [Turns -> SUBSET Idx]
        /\ rejects \in [Turns -> SUBSET Idx]
        /\ history \in [Turns -> Seq(Messages)]
        /\ audit \in [Turns -> SUBSET CallIds]
        /\ log \in Seq(Rows)
        /\ told \in [Turns -> Seq(Events)]
    BY DEF Init
  <1>3. TypeOK
    BY <1>1, <1>2 DEF Init, TypeOK
  <1>4. LoopInv
    BY DEF Init, LoopInv, Streaming
  <1> QED
    BY <1>3, <1>4 DEF Typed

\* A step of somebody else leaves every variable in its type.
LEMMA StutterTyped ==
    ASSUME Typed, UNCHANGED vars
    PROVE  Typed'
  BY DEF Typed, TypeOK, LoopInv, vars

\* Every variable keeps its type, for any number of turns and any bounds: in
\* particular the loop never counts past _MAX_TOOL_ITERATIONS and at most two
\* empty completions are counted (dm.py, take_turn).
THEOREM TypeCorrect == Spec => []TypeOK
  <1>1. Init => Typed
    BY InitTyped
  <1>2. Typed /\ [Next]_vars => Typed'
    BY StepTyped, RestartTyped, StutterTyped DEF Next
  <1>3. Typed => TypeOK
    BY DEF Typed
  <1> QED
    BY <1>1, <1>2, <1>3, PTL DEF Spec

-----------------------------------------------------------------------------
(* The session lock *)

\* A step of a running turn leaves the lock alone and stays inside the turn,
\* or ends the turn and releases the lock.
Advance(t) ==
    /\ \E label \in Running : Goto(t, label)
    /\ UNCHANGED lock

\* A step of the turn that holds the lock either keeps it or ends the turn.
LEMMA StepShape ==
    ASSUME TypeOK, NEW t \in Turns, Step(t), ~Acquire(t)
    PROVE  /\ pc[t] \in Running
           /\ Advance(t) \/ \E how \in Ended : Leave(t, how)
  <1>1. CASE PersistLead(t)
    BY <1>1 DEF PersistLead, Advance, Running
  <1>2. CASE ReadPrompt(t)
    BY <1>2 DEF ReadPrompt, Advance, Running
  <1>3. CASE ClosePrompt(t)
    BY <1>3 DEF ClosePrompt, Advance, Running
  <1>4. CASE OpenStream(t)
    BY <1>4 DEF OpenStream, Advance, Running, Streaming, TerminalErrors
  <1>5. CASE ReachCap(t)
    BY <1>5 DEF ReachCap, Advance, Running, TerminalErrors
  <1>6. CASE Chunk(t)
    BY <1>6 DEF Chunk, Advance, Running, Mute, Streaming, Ended
  <1>7. CASE BreakStream(t)
    BY <1>7 DEF BreakStream, Advance, Running, TerminalErrors, Streaming
  <1>8. CASE EndWithCalls(t)
    BY <1>8 DEF EndWithCalls, Advance, Running, TakeCalls, Streaming
  <1>9. CASE EndWithFence(t)
    BY <1>9 DEF EndWithFence, Advance, Running, TakeCalls, Streaming
  <1>10. CASE EndWithProse(t)
    BY <1>10 DEF EndWithProse, Advance, Running, Streaming
  <1>11. CASE EndEmpty(t)
    BY <1>11 DEF EndEmpty, Advance, Running, TerminalErrors, Streaming
  <1>12. CASE BeginTool(t)
    BY <1>12 DEF BeginTool, Advance, Running
  <1>13. CASE CommitTool(t)
    BY <1>13 DEF CommitTool, Advance, Running
  <1>14. CASE RaiseInTool(t)
    BY <1>14 DEF RaiseInTool, Advance, Running
  <1>15. CASE ReportTool(t)
    BY <1>15 DEF ReportTool, Advance, Running, Mute, Answer, Ended
  <1>16. CASE ReportRaise(t)
    BY <1>16 DEF ReportRaise, Advance, Running, Mute, Answer, Ended
  <1>17. CASE FinishBatch(t)
    BY <1>17 DEF FinishBatch, Advance, Running
  <1>18. CASE ReportReject(t)
    BY <1>18 DEF ReportReject, Advance, Running, Mute, Ended, TypeOK
  <1>19. CASE PersistReply(t)
    BY <1>19 DEF PersistReply, Advance, Running
  <1>20. CASE Announce(t)
    BY <1>20 DEF Announce, Advance, Running, Mute, Ended
  <1>21. CASE ScheduleMemory(t)
    BY <1>21 DEF ScheduleMemory, Advance, Running, Ended
  <1>22. CASE Abort(t)
    BY <1>22 DEF Abort, Advance, Running, Mute, Ended
  <1>23. CASE Crash(t)
    BY <1>23 DEF Crash, Unguarded, Advance, Running
  <1>24. CASE ReportCrash(t)
    BY <1>24 DEF ReportCrash, Advance, Running, Mute, Ended
  <1>25. CASE BeginLead(t)
    BY <1>25 DEF BeginLead, Advance, Running
  <1>26. CASE BeginReply(t)
    BY <1>26 DEF BeginReply, Advance, Running
  <1>27. CASE LookUpSpeaker(t)
    BY <1>27 DEF LookUpSpeaker, Advance, Running
  <1> QED
    BY <1>1, <1>2, <1>3, <1>4, <1>5, <1>6, <1>7, <1>8, <1>9, <1>10, <1>11, <1>12, <1>13, <1>14,
       <1>15, <1>16, <1>17, <1>18, <1>19, <1>20, <1>21, <1>22, <1>23, <1>24, <1>25, <1>26, <1>27
       DEF Step, Completion, Dispatch, Finish

\* A request, a step and a cancellation leave the lock with one turn.
LEMMA LockStep ==
    ASSUME TypeOK, LockExclusive, NEW t \in Turns, Request(t) \/ Step(t) \/ Cancel(t)
    PROVE  LockExclusive'
  <1>1. CASE Request(t)
    <2>1. /\ pc' = [pc EXCEPT ![t] = "queued"]
          /\ holder' = holder
          /\ pc[t] = "new"
          /\ waiters' = Append(waiters, t)
      BY <1>1 DEF Request
    <2>2. /\ DOMAIN waiters' = 1..(Len(waiters) + 1)
          /\ \A i \in DOMAIN waiters : waiters'[i] = waiters[i]
          /\ waiters'[Len(waiters) + 1] = t
          /\ DOMAIN waiters = 1..Len(waiters)
          /\ Len(waiters) \in Nat
      <3>1. waiters \in Seq(Turns)
        BY DEF TypeOK
      <3> QED
        BY <2>1, <3>1, AppendElements
    <2>3. \A u \in Turns : pc'[u] \in Running <=> holder' = u
      BY <2>1 DEF TypeOK, LockExclusive, Running, Streaming, TerminalErrors
    <2>6. \A i \in DOMAIN waiters : waiters[i] # t
      BY <2>1 DEF LockExclusive
    <2>7. DOMAIN waiters' = DOMAIN waiters \cup {Len(waiters) + 1}
      BY <2>2
    <2>4. \A u \in Turns : pc'[u] = "queued" <=> \E i \in DOMAIN waiters' : waiters'[i] = u
      <3> TAKE u \in Turns
      <3>1. CASE u = t
        BY <3>1, <2>1, <2>2, <2>7 DEF TypeOK
      <3>2. CASE u # t
        <4>1. pc'[u] = "queued" <=> \E i \in DOMAIN waiters : waiters[i] = u
          BY <3>2, <2>1 DEF TypeOK, LockExclusive
        <4> QED
          BY <3>2, <4>1, <2>2, <2>7
      <3> QED
        BY <3>1, <3>2
    <2>5. \A i, j \in DOMAIN waiters' : waiters'[i] = waiters'[j] => i = j
      BY <2>2, <2>6, <2>7 DEF LockExclusive
    <2> QED
      BY <2>3, <2>4, <2>5 DEF LockExclusive
  <1>2. CASE Acquire(t)
    <2>1. /\ pc' = [pc EXCEPT ![t] = "lead"]
          /\ holder = NoTurn
          /\ holder' = t
          /\ pc[t] = "queued"
          /\ waiters # <<>>
          /\ waiters[1] = t
          /\ waiters' = Tail(waiters)
      BY <1>2 DEF Acquire
    <2>2. /\ DOMAIN waiters' = 1..(Len(waiters) - 1)
          /\ \A i \in DOMAIN waiters' : waiters'[i] = waiters[i + 1]
          /\ DOMAIN waiters = 1..Len(waiters)
          /\ Len(waiters) \in Nat \ {0}
      <3>1. waiters \in Seq(Turns)
        BY DEF TypeOK
      <3> QED
        BY <2>1, <3>1, TailElements
    <2>3. \A u \in Turns : pc'[u] \in Running <=> holder' = u
      <3>1. \A u \in Turns : pc[u] \notin Running
        BY <2>1, TurnsAssumption DEF LockExclusive
      <3> QED
        BY <2>1, <3>1 DEF TypeOK, Running
    <2>4. \A u \in Turns : pc'[u] = "queued" <=> \E i \in DOMAIN waiters' : waiters'[i] = u
      <3> TAKE u \in Turns
      <3>1. CASE u = t
        <4>1. \A i \in DOMAIN waiters' : waiters'[i] # t
          BY <2>1, <2>2 DEF LockExclusive
        <4> QED
          BY <3>1, <2>1, <4>1 DEF TypeOK
      <3>2. CASE u # t
        <4>1. pc'[u] = "queued" <=> \E i \in DOMAIN waiters : waiters[i] = u
          BY <3>2, <2>1 DEF TypeOK, LockExclusive
        <4>2. ASSUME NEW i \in DOMAIN waiters, waiters[i] = u
              PROVE  i - 1 \in DOMAIN waiters' /\ waiters'[i - 1] = u
          <5>1. i # 1
            BY <3>2, <2>1, <4>2
          <5> QED
            BY <2>2, <4>2, <5>1
        <4>3. ASSUME NEW i \in DOMAIN waiters', waiters'[i] = u
              PROVE  i + 1 \in DOMAIN waiters /\ waiters[i + 1] = u
          BY <2>2, <4>3
        <4> QED
          BY <4>1, <4>2, <4>3
      <3> QED
        BY <3>1, <3>2
    <2>5. \A i, j \in DOMAIN waiters' : waiters'[i] = waiters'[j] => i = j
      <3> SUFFICES ASSUME NEW i \in DOMAIN waiters', NEW j \in DOMAIN waiters',
                          waiters'[i] = waiters'[j]
                   PROVE  i = j
        OBVIOUS
      <3>1. /\ i + 1 \in DOMAIN waiters
            /\ j + 1 \in DOMAIN waiters
            /\ waiters[i + 1] = waiters[j + 1]
        BY <2>2
      <3>2. i + 1 = j + 1
        BY <3>1 DEF LockExclusive
      <3> QED
        BY <2>2, <3>2
    <2> QED
      BY <2>3, <2>4, <2>5 DEF LockExclusive
  <1>3. CASE \E how \in Ended : pc[t] \in Running /\ Leave(t, how)
    <2>1. PICK how \in Ended : pc[t] \in Running /\ Leave(t, how)
      BY <1>3
    <2>2. /\ pc' = [pc EXCEPT ![t] = how]
          /\ holder = t
          /\ holder' = NoTurn
          /\ waiters' = waiters
          /\ how \notin Running /\ how # "queued"
          /\ pc[t] # "queued"
      BY <2>1 DEF Leave, LockExclusive, Ended, Running, Streaming, TerminalErrors
    <2>3. \A u \in Turns : pc'[u] \in Running <=> holder' = u
      BY <2>2, TurnsAssumption DEF TypeOK, LockExclusive
    <2>4. \A u \in Turns : pc'[u] = "queued" <=> pc[u] = "queued"
      BY <2>2 DEF TypeOK
    <2> QED
      BY <2>2, <2>3, <2>4 DEF LockExclusive
  <1>4. CASE pc[t] \in Running /\ Advance(t)
    <2>1. PICK label \in Running : pc' = [pc EXCEPT ![t] = label]
      BY <1>4 DEF Advance
    <2>2. label # "queued" /\ pc[t] # "queued"
      BY <1>4, <2>1 DEF Running, Streaming, TerminalErrors
    <2>3. \A u \in Turns : /\ pc'[u] \in Running <=> pc[u] \in Running
                          /\ pc'[u] = "queued" <=> pc[u] = "queued"
      BY <1>4, <2>1, <2>2 DEF TypeOK
    <2> QED
      BY <1>4, <2>3 DEF Advance, LockExclusive
  <1>5. CASE Cancel(t) /\ pc[t] = "queued"
    <2>1. /\ pc' = [pc EXCEPT ![t] = "cancelled"]
          /\ holder' = holder
      BY <1>5 DEF Cancel, Running, Streaming, TerminalErrors
    <2>2. PICK k \in DOMAIN waiters :
            /\ waiters[k] = t
            /\ waiters' = SubSeq(waiters, 1, k - 1) \o SubSeq(waiters, k + 1, Len(waiters))
      BY <1>5 DEF Cancel, Running, Streaming, TerminalErrors
    <2>8. waiters \in Seq(Turns)
      BY DEF TypeOK
    <2>3. /\ DOMAIN waiters' = 1..(Len(waiters) - 1)
          /\ \A j \in DOMAIN waiters' :
               waiters'[j] = IF j < k THEN waiters[j] ELSE waiters[j + 1]
      BY <2>8, <2>2, RemoveElements
    <2>4. DOMAIN waiters = 1..Len(waiters) /\ Len(waiters) \in Nat
      BY <2>8
    <2>5. \A u \in Turns : pc'[u] \in Running <=> holder' = u
      <3>1. pc[t] \notin Running /\ "cancelled" \notin Running
        BY <1>5 DEF Running, Streaming, TerminalErrors
      <3>2. \A u \in Turns : pc'[u] \in Running <=> pc[u] \in Running
        BY <2>1, <3>1 DEF TypeOK
      <3> QED
        BY <2>1, <3>2 DEF LockExclusive
    <2>6. \A u \in Turns : pc'[u] = "queued" <=> \E i \in DOMAIN waiters' : waiters'[i] = u
      <3> TAKE u \in Turns
      <3>1. CASE u = t
        <4>1. ASSUME NEW i \in DOMAIN waiters'
              PROVE  waiters'[i] # t
          <5>1. CASE i < k
            BY <2>2, <2>3, <2>4, <5>1 DEF LockExclusive
          <5>2. CASE ~(i < k)
            <6>1. i + 1 \in DOMAIN waiters /\ i + 1 # k /\ waiters'[i] = waiters[i + 1]
              BY <2>3, <2>4, <5>2
            <6> QED
              BY <2>2, <6>1 DEF LockExclusive
          <5> QED
            BY <5>1, <5>2
        <4> QED
          BY <3>1, <2>1, <4>1 DEF TypeOK
      <3>2. CASE u # t
        <4>1. pc'[u] = "queued" <=> \E i \in DOMAIN waiters : waiters[i] = u
          BY <3>2, <2>1 DEF TypeOK, LockExclusive
        <4>2. ASSUME NEW i \in DOMAIN waiters, waiters[i] = u
              PROVE  \E j \in DOMAIN waiters' : waiters'[j] = u
          <5>1. i # k
            BY <3>2, <2>2, <4>2
          <5>2. CASE i < k
            BY <2>3, <2>4, <4>2, <5>2
          <5>3. CASE i > k
            <6>1. i - 1 \in DOMAIN waiters' /\ waiters'[i - 1] = u
              BY <2>3, <2>4, <4>2, <5>3
            <6> QED
              BY <6>1
          <5> QED
            BY <2>4, <5>1, <5>2, <5>3
        <4>3. ASSUME NEW i \in DOMAIN waiters', waiters'[i] = u
              PROVE  \E j \in DOMAIN waiters : waiters[j] = u
          <5>1. i \in DOMAIN waiters /\ i + 1 \in DOMAIN waiters
            BY <2>3, <2>4
          <5> QED
            BY <2>3, <4>3, <5>1
        <4> QED
          BY <4>1, <4>2, <4>3
      <3> QED
        BY <3>1, <3>2
    <2>7. \A i, j \in DOMAIN waiters' : waiters'[i] = waiters'[j] => i = j
      <3> SUFFICES ASSUME NEW i \in DOMAIN waiters', NEW j \in DOMAIN waiters',
                          waiters'[i] = waiters'[j]
                   PROVE  i = j
        OBVIOUS
      <3> DEFINE at(n) == IF n < k THEN n ELSE n + 1
      <3>1. /\ at(i) \in DOMAIN waiters /\ waiters[at(i)] = waiters'[i]
            /\ at(j) \in DOMAIN waiters /\ waiters[at(j)] = waiters'[j]
        BY <2>3, <2>4
      <3>2. at(i) = at(j)
        BY <3>1 DEF LockExclusive
      <3> QED
        BY <2>3, <2>4, <3>2
    <2> QED
      BY <2>5, <2>6, <2>7 DEF LockExclusive
  <1>6. Cancel(t) => pc[t] = "queued" \/ (pc[t] \in Running /\ Leave(t, "cancelled"))
    BY DEF Cancel
  <1> QED
    BY <1>1, <1>2, <1>3, <1>4, <1>5, <1>6, StepShape DEF Ended

\* A restart frees the lock and its queue.
LEMMA LockRestart ==
    ASSUME Restart
    PROVE  LockExclusive'
  <1>1. holder' = NoTurn /\ waiters' = <<>>
    BY DEF Restart
  <1>2. \A t \in Turns : pc'[t] \notin Running /\ pc'[t] # "queued"
    BY RestartShape
  <1> QED
    BY <1>1, <1>2, TurnsAssumption DEF LockExclusive

\* At most one turn of a session runs at a time, it is the one that holds the
\* session lock, and the lock's queue holds exactly the waiting tasks, once
\* each, through cancellations, crashes and restarts (dispatch.py, session_lock).
THEOREM LockCorrect == Spec => []LockExclusive
  <1>1. Init => LockExclusive
    BY TurnsAssumption DEF Init, LockExclusive, Running, Streaming, TerminalErrors
  <1>2. TypeOK /\ LockExclusive /\ [Next]_vars => LockExclusive'
    <2>1. TypeOK /\ LockExclusive /\ Next => LockExclusive'
      BY LockStep, LockRestart DEF Next
    <2>2. LockExclusive /\ UNCHANGED vars => LockExclusive'
      BY DEF LockExclusive, vars
    <2> QED
      BY <2>1, <2>2
  <1> QED
    BY <1>1, <1>2, TypeCorrect, PTL DEF Spec

-----------------------------------------------------------------------------
(* Transactions *)

\* Ending a turn closes its transaction, and answering a call leaves it alone.
LEMMA LeaveTxn ==
    ASSUME TypeOK, NEW t \in Turns, NEW how, Leave(t, how) \/ (Mute(t) /\ how = "muted")
    PROVE  /\ pc' = [pc EXCEPT ![t] = pc'[t]]
           /\ txn' = [txn EXCEPT ![t] = txn'[t]]
           /\ ~txn'[t]
  BY DEF Leave, Mute, TypeOK

\* Answering a call keeps the turn in its batch and opens no transaction.
LEMMA AnswerTxn ==
    ASSUME TypeOK, NEW t \in Turns, Answer(t)
    PROVE  /\ pc' = [pc EXCEPT ![t] = pc'[t]]
           /\ pc'[t] = "tools"
           /\ txn' = txn
  BY DEF Answer, TypeOK

\* Only a turn's own step moves it or touches its transaction, and it leaves
\* one open only at the places of InTxn.
LEMMA TxnShape ==
    ASSUME TypeOK, TxnInv, NEW t \in Turns, Request(t) \/ Step(t) \/ Cancel(t)
    PROVE  /\ pc' = [pc EXCEPT ![t] = pc'[t]]
           /\ txn' = [txn EXCEPT ![t] = txn'[t]]
           /\ txn'[t] => pc'[t] \in InTxn
  <1> USE DEF InTxn
  <1>1. CASE Request(t)
    BY <1>1 DEF Request, TypeOK, TxnInv
  <1>2. CASE Acquire(t)
    BY <1>2 DEF Acquire, TypeOK, TxnInv
  <1>3. CASE PersistLead(t)
    BY <1>3 DEF PersistLead, TypeOK, TxnInv
  <1>4. CASE ReadPrompt(t)
    BY <1>4 DEF ReadPrompt, TypeOK, TxnInv
  <1>5. CASE ClosePrompt(t)
    BY <1>5 DEF ClosePrompt, TypeOK, TxnInv
  <1>6. CASE OpenStream(t)
    BY <1>6 DEF OpenStream, TypeOK, TxnInv
  <1>7. CASE ReachCap(t)
    BY <1>7 DEF ReachCap, TypeOK, TxnInv
  <1>8. CASE Chunk(t)
    BY <1>8 DEF Chunk, TypeOK, TxnInv, Mute, Leave, Streaming
  <1>9. CASE BreakStream(t)
    BY <1>9 DEF BreakStream, TypeOK, TxnInv, Streaming
  <1>10. CASE EndWithCalls(t)
    <2>1. pc[t] \in Streaming /\ \E S, ok, text : TakeCalls(t, S, ok, text)
      BY <1>10 DEF EndWithCalls, Streaming
    <2>2. pc' = [pc EXCEPT ![t] = "tools"] /\ txn' = txn
      BY <2>1 DEF TakeCalls
    <2>3. ~txn[t]
      BY <2>1 DEF TxnInv, Streaming
    <2> QED
      BY <2>2, <2>3 DEF TypeOK
  <1>11. CASE EndWithFence(t)
    <2>1. pc[t] \in Streaming /\ \E S, ok, text : TakeCalls(t, S, ok, text)
      BY <1>11 DEF EndWithFence, Streaming
    <2>2. pc' = [pc EXCEPT ![t] = "tools"] /\ txn' = txn
      BY <2>1 DEF TakeCalls
    <2>3. ~txn[t]
      BY <2>1 DEF TxnInv, Streaming
    <2> QED
      BY <2>2, <2>3 DEF TypeOK
  <1>12. CASE EndWithProse(t)
    BY <1>12 DEF EndWithProse, TypeOK, TxnInv
  <1>13. CASE EndEmpty(t)
    BY <1>13 DEF EndEmpty, TypeOK, TxnInv, Streaming
  <1>14. CASE BeginTool(t)
    BY <1>14 DEF BeginTool, TypeOK, TxnInv
  <1>15. CASE CommitTool(t)
    BY <1>15 DEF CommitTool, TypeOK, TxnInv
  <1>16. CASE RaiseInTool(t)
    BY <1>16 DEF RaiseInTool, TypeOK, TxnInv
  <1>17. CASE ReportTool(t)
    <2>1. CASE Answer(t)
      <3>1. ~txn[t]
        BY <1>17 DEF ReportTool, TxnInv
      <3> QED
        BY <2>1, <3>1, AnswerTxn DEF TypeOK
    <2>2. CASE Mute(t)
      BY <2>2, LeaveTxn
    <2> QED
      BY <1>17, <2>1, <2>2 DEF ReportTool
  <1>18. CASE ReportRaise(t)
    <2>1. CASE Answer(t)
      <3>1. ~txn[t]
        BY <1>18 DEF ReportRaise, TxnInv
      <3> QED
        BY <2>1, <3>1, AnswerTxn DEF TypeOK
    <2>2. CASE Mute(t)
      BY <2>2, LeaveTxn
    <2> QED
      BY <1>18, <2>1, <2>2 DEF ReportRaise
  <1>19. CASE FinishBatch(t)
    BY <1>19 DEF FinishBatch, TypeOK, TxnInv
  <1>20. CASE ReportReject(t)
    BY <1>20 DEF ReportReject, TypeOK, TxnInv, Mute, Leave
  <1>21. CASE PersistReply(t)
    BY <1>21 DEF PersistReply, TypeOK, TxnInv
  <1>22. CASE Announce(t)
    BY <1>22 DEF Announce, TypeOK, TxnInv, Mute, Leave
  <1>23. CASE ScheduleMemory(t)
    BY <1>23 DEF ScheduleMemory, TypeOK, TxnInv, Leave
  <1>24. CASE Abort(t)
    BY <1>24 DEF Abort, TypeOK, TxnInv, Mute, Leave
  <1>25. CASE Crash(t)
    BY <1>25 DEF Crash, Unguarded, TypeOK, TxnInv
  <1>26. CASE ReportCrash(t)
    BY <1>26 DEF ReportCrash, TypeOK, TxnInv, Mute, Leave
  <1>27. CASE Cancel(t)
    BY <1>27 DEF Cancel, TypeOK, TxnInv, Leave
  <1>28. CASE BeginLead(t)
    BY <1>28 DEF BeginLead, TypeOK, TxnInv
  <1>29. CASE BeginReply(t)
    BY <1>29 DEF BeginReply, TypeOK, TxnInv
  <1>30. CASE LookUpSpeaker(t)
    BY <1>30 DEF LookUpSpeaker, TypeOK, TxnInv
  <1> QED
    BY <1>1, <1>2, <1>3, <1>4, <1>5, <1>6, <1>7, <1>8, <1>9, <1>10, <1>11, <1>12, <1>13, <1>14,
       <1>15, <1>16, <1>17, <1>18, <1>19, <1>20, <1>21, <1>22, <1>23, <1>24, <1>25, <1>26, <1>27,
       <1>28, <1>29, <1>30 DEF Step, Completion, Dispatch, Finish

\* A transaction is open only inside the blocks around the leading row, a tool and
\* the reply, while the prompt or the speaker is read, or until a crash there is
\* reported; so no block is begun while another transaction is open (dm.py, take_turn
\* and _dispatch_one).
THEOREM TxnCorrect == Spec => []TxnInv
  <1>1. Init => TxnInv
    BY DEF Init, TxnInv
  <1>2. TypeOK /\ TxnInv /\ [Next]_vars => TxnInv'
    <2> SUFFICES ASSUME TypeOK, TxnInv, [Next]_vars PROVE TxnInv'
      OBVIOUS
    <2>1. CASE \E t \in Turns : Request(t) \/ Step(t) \/ Cancel(t)
      BY <2>1, TxnShape DEF TypeOK, TxnInv
    <2>2. CASE Restart
      BY <2>2 DEF Restart, TxnInv
    <2>3. CASE UNCHANGED vars
      BY <2>3 DEF TxnInv, vars
    <2> QED
      BY <2>1, <2>2, <2>3 DEF Next
  <1> QED
    BY <1>1, <1>2, TypeCorrect, PTL DEF Spec

\* No transaction is open while a completion streams, whatever happened before
\* in the turn: the database is not held during LLM latency (dm.py, take_turn).
THEOREM StreamsOutsideTxn == Spec => []NoTxnWhileStreaming
  <1>1. TxnInv => NoTxnWhileStreaming
    BY DEF TxnInv, InTxn, NoTxnWhileStreaming, Streaming
  <1> QED
    BY <1>1, TxnCorrect, PTL

-----------------------------------------------------------------------------
(* The record: the rows, the effects and the events of the turns *)

Before == {"new", "queued", "lead", "leading"}
Looping == {"prompt", "reading", "loop", "stream", "spoke", "tools", "handler", "handled",
            "raised", "rejecting"}
Due == {"persist", "replying"}
After == {"memory", "speaking"}

Wrote(t) == \E i \in DOMAIN log : log[i].turn = t
Replied(t) == \E i \in DOMAIN log : log[i].turn = t /\ log[i].kind = "dm"
Lined(t) == \E i \in DOMAIN log : log[i].turn = t /\ log[i].kind \in {"system", "player"}

\* Where a turn is says which rows it has, and its rows are the last ones.
RowsInv(t) ==
    /\ pc[t] \in Before => ~Wrote(t)
    /\ pc[t] \in Looping \cup Due => Lined(t)
    /\ pc[t] \in Looping \cup TerminalErrors \cup Due => ~Replied(t)
    /\ pc[t] \in After \cup {"announce"} => Replied(t)
    /\ pc[t] \in Running =>
         \A i, j \in DOMAIN log : i < j /\ log[i].turn = t => log[j].turn = t
    /\ \A i, j \in DOMAIN log :
         log[i].turn = t /\ log[i].kind = "dm" /\ log[j].turn = t /\ log[j].kind = "dm" => i = j

\* And which terminal events it has published.
Closed(t) == \E i \in DOMAIN told[t] : told[t][i] \in TerminalEvents
EventsInv(t) ==
    /\ pc[t] \in Before \cup Looping \cup TerminalErrors \cup Due \cup {"announce"} => ~Closed(t)
    /\ pc[t] \in After \cup {"orchestrator_crash"} =>
         \A i \in DOMAIN told[t] : told[t][i] \in TerminalEvents =>
             told[t][i] = "complete" /\ i = Len(told[t])
    /\ pc[t] \in After => Closed(t)
    /\ pc[t] = "done" => told[t] # <<>> /\ told[t][Len(told[t])] \in TerminalEvents
    /\ \A i, j \in DOMAIN told[t] : i < j /\ told[t][i] \in TerminalEvents =>
         told[t][i] = "complete" /\ told[t][j] = "orchestrator_crash"
    /\ \A i \in DOMAIN told[t] : /\ told[t][i] = "complete" => Replied(t)
                                 /\ told[t][i] \in TerminalErrors => ~Replied(t)

\* The audit of a running turn and the call in hand are what it has dispatched.
InHand(t) == IF pc[t] \in {"handled", "raised"} THEN {Id(t, i) : i \in NextCalls(t)} ELSE {}
AuditInv(t) ==
    /\ pc[t] \in Before => Dispatched(t) = {} /\ audit[t] = {}
    /\ pc[t] \in Looping \cup Due => Dispatched(t) = audit[t] \cup InHand(t)

RecordInv ==
    /\ TranscriptContiguous /\ AuditExact
    /\ \A t \in Turns : RowsInv(t) /\ EventsInv(t) /\ AuditInv(t)

\* What one step of a turn does to the record.
QuietMove(t) ==
    \/ pc[t] = "new" /\ pc'[t] = "queued" /\ audit'[t] = audit[t]
    \/ pc[t] = "queued" /\ pc'[t] \in {"lead", "cancelled"} /\ audit'[t] = audit[t]
    \/ pc[t] = "lead" /\ pc'[t] = "leading" /\ audit'[t] = audit[t]
    \/ pc[t] \in Running /\ pc'[t] \in {"muted", "cancelled"}
    \/ pc[t] = "persist" /\ pc'[t] = "replying" /\ audit'[t] = audit[t]
    \/ pc[t] = "memory" /\ pc'[t] = "speaking"
    \/ pc[t] \in After /\ pc'[t] = "done"
    \/ pc[t] \in Unguarded /\ pc'[t] = "orchestrator_crash"
    \/ /\ pc[t] \in Looping \ {"handled", "raised"}
       /\ pc'[t] \in (Looping \ {"handled", "raised"}) \cup TerminalErrors \cup {"persist"}
       /\ audit'[t] = audit[t]

\* The events inside the loop end nothing; an answered call is in the audit.
TellingMove(t) ==
    /\ pc[t] \in Looping /\ pc'[t] \in Looping \ {"handled", "raised"}
    /\ \/ told' = told
       \/ \E kind \in Events \ TerminalEvents : Publish(t, kind)
    /\ IF pc[t] \in {"handled", "raised"}
       THEN \E i \in NextCalls(t) : audit'[t] = audit[t] \cup {Id(t, i)}
       ELSE audit'[t] = audit[t]
    /\ UNCHANGED <<log, effects, failed>>

ClosingMove(t) ==
    /\ \E kind \in TerminalEvents :
         /\ Publish(t, kind)
         /\ \/ kind = "complete" /\ pc[t] = "announce" /\ pc'[t] = "memory"
            \/ kind \in TerminalErrors \cup {"orchestrator_crash"} /\ pc[t] = kind /\ pc'[t] = "done"
    /\ UNCHANGED <<log, effects, failed>>

Writing(t, kind, ids) == log' = Append(log, [turn |-> t, kind |-> kind, calls |-> ids])

WritingMove(t) ==
    /\ \/ /\ pc[t] = "leading" /\ pc'[t] = "prompt"
          /\ \E kind \in {"system", "player"} : Writing(t, kind, {})
       \/ pc[t] = "replying" /\ pc'[t] = "announce" /\ Writing(t, "dm", audit[t])
    /\ UNCHANGED <<effects, failed, told, audit>>

\* The call in hand is committed, perhaps with a row of its own, or rolled back.
CommitMove(t) ==
    /\ pc[t] = "handler" /\ pc'[t] = "handled"
    /\ \E i \in NextCalls(t) : effects' = effects \cup {<<t, Id(t, i)>>}
    /\ log' = log \/ Writing(t, "aside", {})
    /\ UNCHANGED <<failed, told, audit, todo, iter>>

RaiseMove(t) ==
    /\ pc[t] = "handler" /\ pc'[t] = "raised"
    /\ \E i \in NextCalls(t) : failed' = failed \cup {<<t, Id(t, i)>>}
    /\ UNCHANGED <<log, effects, told, audit, todo, iter>>

Deed(t) ==
    \/ QuietMove(t) /\ UNCHANGED <<log, effects, failed, told>>
    \/ TellingMove(t) \/ ClosingMove(t) \/ WritingMove(t) \/ CommitMove(t) \/ RaiseMove(t)

\* A row is written at three places only, each kind at its own.
Adds(t) == \E kind \in Kinds, ids \in SUBSET CallIds :
    /\ Writing(t, kind, ids)
    /\ \/ pc[t] = "leading" /\ pc'[t] = "prompt" /\ kind \in {"system", "player"}
       \/ pc[t] = "handler" /\ pc'[t] = "handled" /\ kind = "aside"
       \/ pc[t] = "replying" /\ pc'[t] = "announce" /\ kind = "dm" /\ ids = audit[t]

\* A step of a turn leaves the others' records alone.
Alone(t) ==
    /\ pc' = [pc EXCEPT ![t] = pc'[t]]
    /\ audit' = [audit EXCEPT ![t] = audit'[t]]
    /\ todo' = [todo EXCEPT ![t] = todo'[t]]
    /\ iter' = [iter EXCEPT ![t] = iter'[t]]

\* However a turn is left, the record is as it was.
LEMMA LeaveDeed ==
    ASSUME TypeOK, NEW t \in Turns, NEW how, Leave(t, how)
    PROVE  Alone(t) /\ pc'[t] = how
  BY DEF Leave, Alone, TypeOK

\* So it is when the turn can no longer be heard.
LEMMA MuteDeed ==
    ASSUME TypeOK, NEW t \in Turns, pc[t] \in Running, Mute(t)
    PROVE  Alone(t) /\ Deed(t)
  BY LeaveDeed DEF Mute, Deed, QuietMove

\* The answer to a call puts it into the audit.
LEMMA AnswerDeed ==
    ASSUME TypeOK, NEW t \in Turns, Answer(t), pc[t] \in {"handled", "raised"},
           told' = told \/ \E kind \in Events \ TerminalEvents : Publish(t, kind)
    PROVE  Alone(t) /\ Deed(t)
  <1>1. PICK i \in NextCalls(t) :
          /\ audit' = [audit EXCEPT ![t] = @ \cup {Id(t, i)}]
          /\ todo' = [todo EXCEPT ![t] = @ \ {i}]
          /\ pc' = [pc EXCEPT ![t] = "tools"]
          /\ UNCHANGED <<iter, log, effects, failed>>
    BY DEF Answer
  <1>2. pc'[t] = "tools" /\ audit'[t] = audit[t] \cup {Id(t, i)} /\ Alone(t)
    BY <1>1 DEF TypeOK, Alone
  <1>3. TellingMove(t)
    BY <1>1, <1>2 DEF TellingMove, Looping
  <1> QED BY <1>2, <1>3 DEF Deed

\* Every step does one of these, to its own turn only.
LEMMA StepDeed ==
    ASSUME TypeOK, NEW t \in Turns, Request(t) \/ Step(t) \/ Cancel(t)
    PROVE  Alone(t) /\ Deed(t)
  <1>1. CASE Request(t)
    BY <1>1 DEF Request, TypeOK, Alone, Deed, QuietMove
  <1>2. CASE Acquire(t)
    BY <1>2 DEF Acquire, TypeOK, Alone, Deed, QuietMove
  <1>3. CASE PersistLead(t)
    <2>1. Alone(t) /\ pc'[t] = "prompt" /\ pc[t] = "leading"
      BY <1>3 DEF PersistLead, TypeOK, Alone
    <2> QED BY <1>3, <2>1 DEF PersistLead, Deed, WritingMove, Writing
  <1>4. CASE ReadPrompt(t)
    BY <1>4 DEF ReadPrompt, TypeOK, Alone, Deed, QuietMove, Looping
  <1>5. CASE ClosePrompt(t)
    BY <1>5 DEF ClosePrompt, TypeOK, Alone, Deed, QuietMove, Looping
  <1>6. CASE OpenStream(t)
    <2>1. /\ pc[t] = "loop" /\ pc'[t] \in {"stream", "stream_failed"} /\ Alone(t)
          /\ UNCHANGED <<log, effects, failed, told, audit>>
      BY <1>6 DEF OpenStream, TypeOK, Alone
    <2> QED BY <2>1 DEF Deed, QuietMove, Looping, TerminalErrors
  <1>7. CASE ReachCap(t)
    BY <1>7 DEF ReachCap, TypeOK, Alone, Deed, QuietMove, Looping, TerminalErrors
  <1>8. CASE Chunk(t)
    <2>1. CASE Mute(t) /\ pc[t] \in Streaming
      BY <2>1, MuteDeed DEF Running
    <2>2. CASE pc[t] = "stream" /\ Publish(t, "chunk") /\ Goto(t, "spoke")
               /\ UNCHANGED <<lock, locals, txn, log, effects, failed, jobs>>
      <3>1. pc'[t] = "spoke" /\ Alone(t) /\ "chunk" \in Events \ TerminalEvents
        BY <2>2 DEF TypeOK, Alone, Events, TerminalEvents, TerminalErrors
      <3>2. TellingMove(t)
        BY <2>2, <3>1 DEF TellingMove, Looping
      <3> QED BY <3>1, <3>2 DEF Deed
    <2> QED BY <1>8, <2>1, <2>2 DEF Chunk
  <1>9. CASE BreakStream(t)
    <2>1. /\ pc[t] \in {"stream", "spoke"} /\ pc'[t] \in {"stream_error", "runaway_token"}
          /\ Alone(t) /\ UNCHANGED <<log, effects, failed, told, audit>>
      BY <1>9 DEF BreakStream, TypeOK, Alone, Streaming
    <2> QED BY <2>1 DEF Deed, QuietMove, Looping, TerminalErrors
  <1>10. CASE EndWithCalls(t) \/ EndWithFence(t)
    <2>1. pc[t] \in Streaming /\ \E S, ok, text : TakeCalls(t, S, ok, text)
      BY <1>10 DEF EndWithCalls, EndWithFence, Streaming
    <2>2. /\ pc'[t] = "tools" /\ pc[t] \in {"stream", "spoke"}
          /\ UNCHANGED <<log, effects, failed, told, audit>> /\ Alone(t)
      BY <2>1 DEF TakeCalls, TypeOK, Alone, Streaming
    <2> QED BY <2>2 DEF Deed, QuietMove, Looping
  <1>12. CASE EndWithProse(t)
    BY <1>12 DEF EndWithProse, TypeOK, Alone, Deed, QuietMove, Looping
  <1>13. CASE EndEmpty(t)
    <2>1. /\ pc[t] \in {"stream", "spoke"} /\ pc'[t] \in {"loop", "empty_completion"}
          /\ Alone(t) /\ UNCHANGED <<log, effects, failed, told, audit>>
      BY <1>13 DEF EndEmpty, TypeOK, Alone, Streaming
    <2> QED BY <2>1 DEF Deed, QuietMove, Looping, TerminalErrors
  <1>14. CASE BeginTool(t)
    BY <1>14 DEF BeginTool, TypeOK, Alone, Deed, QuietMove, Looping
  <1>15. CASE CommitTool(t)
    <2>1. /\ pc[t] = "handler" /\ pc'[t] = "handled" /\ Alone(t)
          /\ UNCHANGED <<failed, told, audit, todo, iter>>
      BY <1>15 DEF CommitTool, TypeOK, Alone
    <2>2. log' = log \/ Writing(t, "aside", {})
      BY <1>15 DEF CommitTool, WriteAside, Writing
    <2>3. CommitMove(t)
      BY <1>15, <2>1, <2>2 DEF CommitTool, CommitMove
    <2> QED BY <2>1, <2>3 DEF Deed
  <1>16. CASE RaiseInTool(t)
    <2>1. pc'[t] = "raised" /\ Alone(t)
      BY <1>16 DEF RaiseInTool, TypeOK, Alone
    <2>2. RaiseMove(t)
      BY <1>16, <2>1 DEF RaiseInTool, RaiseMove
    <2> QED BY <2>1, <2>2 DEF Deed
  <1>17. CASE ReportTool(t)
    <2>0. "update" \in Events \ TerminalEvents
      BY DEF Events, TerminalEvents, TerminalErrors
    <2> QED BY <1>17, <2>0, AnswerDeed, MuteDeed DEF ReportTool, Running
  <1>18. CASE ReportRaise(t)
    <2>0. "handler_error" \in Events \ TerminalEvents
      BY DEF Events, TerminalEvents, TerminalErrors
    <2> QED BY <1>18, <2>0, AnswerDeed, MuteDeed DEF ReportRaise, Running
  <1>19. CASE FinishBatch(t)
    <2>1. /\ pc[t] = "tools" /\ pc'[t] \in {"loop", "rejecting"}
          /\ Alone(t) /\ UNCHANGED <<log, effects, failed, told, audit>>
      BY <1>19 DEF FinishBatch, TypeOK, Alone
    <2> QED BY <2>1 DEF Deed, QuietMove, Looping
  <1>20. CASE ReportReject(t)
    <2>1. CASE Mute(t)
      BY <1>20, <2>1, MuteDeed DEF ReportReject, Running
    <2>2. CASE ~Mute(t)
      <3>1. /\ pc[t] = "rejecting" /\ Publish(t, "rejected")
            /\ UNCHANGED <<log, effects, failed, audit, todo, iter>>
            /\ pc' = [pc EXCEPT ![t] = "loop"] \/ pc' = pc
        BY <1>20, <2>2 DEF ReportReject
      <3>2. /\ pc'[t] \in {"loop", "rejecting"} /\ Alone(t)
            /\ "rejected" \in Events \ TerminalEvents
        BY <3>1 DEF TypeOK, Alone, Events, TerminalEvents, TerminalErrors
      <3>3. TellingMove(t)
        BY <3>1, <3>2 DEF TellingMove, Looping
      <3> QED BY <3>2, <3>3 DEF Deed
    <2> QED BY <2>1, <2>2
  <1>21. CASE PersistReply(t)
    <2>1. Alone(t) /\ pc'[t] = "announce" /\ pc[t] = "replying"
      BY <1>21 DEF PersistReply, TypeOK, Alone
    <2> QED BY <1>21, <2>1 DEF PersistReply, Deed, WritingMove, Writing
  <1>22. CASE Announce(t)
    <2>1. CASE Mute(t)
      BY <1>22, <2>1, MuteDeed DEF Announce, Running
    <2>2. CASE ~Mute(t)
      <3>1. /\ pc[t] = "announce" /\ Publish(t, "complete") /\ pc'[t] = "memory"
            /\ Alone(t) /\ UNCHANGED <<log, effects, failed>>
        BY <1>22, <2>2 DEF Announce, TypeOK, Alone
      <3> QED BY <3>1 DEF Deed, ClosingMove, TerminalEvents
    <2> QED BY <2>1, <2>2
  <1>23. CASE ScheduleMemory(t)
    BY <1>23, LeaveDeed DEF ScheduleMemory, Deed, QuietMove, After
  <1>24. CASE Abort(t)
    <2>0. pc[t] \in TerminalErrors /\ pc[t] \in Running /\ pc[t] \in TerminalEvents
      BY <1>24 DEF Abort, Running, TerminalEvents
    <2>1. CASE Mute(t)
      BY <2>0, <2>1, MuteDeed
    <2>2. CASE ~Mute(t)
      BY <1>24, <2>0, <2>2, LeaveDeed DEF Abort, Deed, ClosingMove
    <2> QED BY <2>1, <2>2
  <1>25. CASE Crash(t)
    BY <1>25 DEF Crash, TypeOK, Alone, Deed, QuietMove
  <1>26. CASE ReportCrash(t)
    <2>1. CASE Mute(t)
      BY <1>26, <2>1, MuteDeed DEF ReportCrash, Running
    <2>2. CASE ~Mute(t)
      BY <1>26, <2>2, LeaveDeed DEF ReportCrash, Deed, ClosingMove, TerminalEvents
    <2> QED BY <2>1, <2>2
  <1>27. CASE Cancel(t)
    <2>1. CASE pc[t] \in Running /\ Leave(t, "cancelled")
      BY <1>27, <2>1, LeaveDeed DEF Cancel, Deed, QuietMove
    <2>2. CASE pc[t] = "queued" /\ Goto(t, "cancelled") /\ UNCHANGED <<holder, locals, txn>>
      BY <1>27, <2>2 DEF Cancel, Deed, QuietMove, Alone, TypeOK
    <2> QED BY <1>27, <2>1, <2>2 DEF Cancel
  <1>28. CASE BeginLead(t)
    BY <1>28 DEF BeginLead, TypeOK, Alone, Deed, QuietMove
  <1>29. CASE BeginReply(t)
    BY <1>29 DEF BeginReply, TypeOK, Alone, Deed, QuietMove
  <1>30. CASE LookUpSpeaker(t)
    BY <1>30 DEF LookUpSpeaker, TypeOK, Alone, Deed, QuietMove
  <1> QED
    BY <1>1, <1>2, <1>3, <1>4, <1>5, <1>6, <1>7, <1>8, <1>9, <1>10, <1>12, <1>13, <1>14,
       <1>15, <1>16, <1>17, <1>18, <1>19, <1>20, <1>21, <1>22, <1>23, <1>24, <1>25, <1>26, <1>27,
       <1>28, <1>29, <1>30 DEF Step, Completion, Dispatch, Finish

\* Only the turn's own entries change, and where it goes is told by its move.
LEMMA DeedPlaces ==
    ASSUME TypeOK, NEW t \in Turns, Alone(t), Deed(t)
    PROVE  /\ \A u \in Turns \ {t} : /\ pc'[u] = pc[u] /\ told'[u] = told[u] /\ audit'[u] = audit[u]
                                    /\ todo'[u] = todo[u] /\ iter'[u] = iter[u]
           /\ pc'[t] \in Before => pc[t] \in Before /\ QuietMove(t) /\ UNCHANGED <<log, effects, failed, told>>
           /\ pc'[t] \in Looping => pc[t] \in Looping \/ (pc[t] = "leading" /\ WritingMove(t))
           /\ pc'[t] \in Due => pc[t] \in Looping \cup {"persist"} /\ QuietMove(t)
           /\ pc'[t] \in TerminalErrors => pc[t] \in Looping /\ QuietMove(t)
           /\ pc'[t] = "announce" => pc[t] = "replying" /\ WritingMove(t)
           /\ pc'[t] \in After => pc[t] \in After \cup {"announce"}
           /\ pc'[t] \in Running => pc[t] \in Running \/ pc[t] = "queued"
           /\ pc[t] = "queued" /\ pc'[t] \in Running => log' = log
  <1> USE DEF QuietMove, TellingMove, ClosingMove, WritingMove, CommitMove, RaiseMove, Before, Looping,
              Due, After, Unguarded, Running, Streaming, TerminalErrors
  <1>1. \A u \in Turns \ {t} : /\ pc'[u] = pc[u] /\ audit'[u] = audit[u]
                               /\ todo'[u] = todo[u] /\ iter'[u] = iter[u]
    BY DEF Alone, TypeOK
  <1>2. \A u \in Turns \ {t} : told'[u] = told[u]
    BY DEF Deed, Publish, TypeOK
  <1>3. CASE QuietMove(t) /\ UNCHANGED <<log, effects, failed, told>>
    BY <1>1, <1>2, <1>3
  <1>4. CASE TellingMove(t)
    BY <1>1, <1>2, <1>4
  <1>5. CASE ClosingMove(t)
    BY <1>1, <1>2, <1>5
  <1>6. CASE WritingMove(t)
    BY <1>1, <1>2, <1>6
  <1>7. CASE CommitMove(t) \/ RaiseMove(t)
    BY <1>1, <1>2, <1>7
  <1> QED BY <1>3, <1>4, <1>5, <1>6, <1>7 DEF Deed

\* A step adds a row at one of the three places, or none.
LEMMA DeedRows ==
    ASSUME TypeOK, NEW t \in Turns, Deed(t)
    PROVE  log' = log \/ Adds(t)
  <1>0. audit[t] \in SUBSET CallIds /\ {} \in SUBSET CallIds
        /\ {"system", "player", "aside", "dm"} = Kinds
    BY DEF TypeOK, Kinds
  <1>1. CASE WritingMove(t)
    BY <1>0, <1>1 DEF WritingMove, Adds
  <1>2. CASE CommitMove(t)
    BY <1>0, <1>2 DEF CommitMove, Adds
  <1> QED BY <1>1, <1>2 DEF Deed, TellingMove, ClosingMove, RaiseMove

\* The rows in the transcript after a turn has written one.
LEMMA WritingRows ==
    ASSUME TypeOK, NEW t \in Turns, NEW kind \in Kinds, NEW ids \in SUBSET CallIds,
           Writing(t, kind, ids)
    PROVE  /\ Len(log) \in Nat /\ DOMAIN log = 1..Len(log) /\ DOMAIN log' = 1..(Len(log) + 1)
           /\ \A i \in DOMAIN log : log'[i] = log[i]
           /\ \A i \in DOMAIN log' :
                i \in DOMAIN log \/ (i = Len(log) + 1 /\ \A j \in DOMAIN log : j < i)
           /\ log'[Len(log) + 1].turn = t /\ log'[Len(log) + 1].kind = kind
           /\ log'[Len(log) + 1].calls = ids
  <1>1. PICK row : row = [turn |-> t, kind |-> kind, calls |-> ids]
    OBVIOUS
  <1>2. row \in Rows /\ row.turn = t /\ row.kind = kind /\ row.calls = ids
    BY <1>1 DEF Rows
  <1>3. log \in Seq(Rows) /\ log' = Append(log, row)
    BY <1>1 DEF TypeOK, Writing
  <1>4. /\ Len(log) \in Nat /\ DOMAIN log = 1..Len(log) /\ DOMAIN log' = 1..(Len(log) + 1)
        /\ \A i \in DOMAIN log : log'[i] = log[i]
        /\ log'[Len(log) + 1] = row
    BY <1>2, <1>3, AppendElements
  <1> QED BY <1>2, <1>4

\* A step that writes no row keeps what is said of them.
LEMMA RowsQuiet ==
    ASSUME TypeOK, NEW t \in Turns, Alone(t), Deed(t), log' = log, ~WritingMove(t),
           NEW u \in Turns, RowsInv(u)
    PROVE  RowsInv(u)'
  <1>2. (Wrote(u)' <=> Wrote(u)) /\ (Replied(u)' <=> Replied(u)) /\ (Lined(u)' <=> Lined(u))
    BY DEF Wrote, Replied, Lined
  <1>3. CASE u # t
    <2>1. pc'[u] = pc[u]
      BY <1>3, DeedPlaces
    <2> QED BY <1>2, <2>1 DEF RowsInv
  <1>4. CASE u = t
    <2>1. /\ pc'[t] \in Before => pc[t] \in Before
          /\ pc'[t] \in Looping \cup Due => pc[t] \in Looping \cup Due
          /\ pc'[t] \in Looping \cup TerminalErrors \cup Due => pc[t] \in Looping \cup Due
          /\ pc'[t] \in After \cup {"announce"} => pc[t] \in After \cup {"announce"}
          /\ pc'[t] \in Running => pc[t] \in Running \/ pc[t] = "queued"
      BY DeedPlaces DEF Due
    <2>2. pc[t] = "queued" => ~Wrote(t)
      BY <1>4 DEF RowsInv, Before
    <2> QED BY <1>2, <1>4, <2>1, <2>2 DEF RowsInv, Wrote
  <1> QED BY <1>3, <1>4

\* The row a turn writes is the last, and no other turn is in its way.
LEMMA RowsWritten ==
    ASSUME TypeOK, LockExclusive, NEW t \in Turns, Alone(t), Deed(t), Adds(t),
           TranscriptContiguous, \A u \in Turns : RowsInv(u)
    PROVE  (\A u \in Turns : RowsInv(u)') /\ TranscriptContiguous'
  <1>1. pc[t] \in Running /\ \A u \in Turns \ {t} : pc[u] \notin Running
    BY DEF LockExclusive, Adds, Running
  <1>2. PICK kind \in Kinds, ids \in SUBSET CallIds :
          /\ Writing(t, kind, ids)
          /\ \/ pc[t] = "leading" /\ pc'[t] = "prompt" /\ kind \in {"system", "player"}
             \/ pc[t] = "handler" /\ pc'[t] = "handled" /\ kind = "aside"
             \/ pc[t] = "replying" /\ pc'[t] = "announce" /\ kind = "dm"
    BY DEF Adds
  <1> DEFINE new == Len(log) + 1
  <1>3. /\ DOMAIN log = 1..Len(log) /\ DOMAIN log' = 1..new /\ new \in DOMAIN log' /\ new \in Nat
        /\ Len(log) \in Nat
        /\ \A i \in DOMAIN log : log'[i] = log[i] /\ i \in DOMAIN log'
        /\ \A i \in DOMAIN log' : i \in DOMAIN log \/ (i = new /\ \A j \in DOMAIN log : j < i)
        /\ log'[new].turn = t /\ log'[new].kind = kind
    BY <1>2, WritingRows
  <1>4. new \notin DOMAIN log /\ \A i \in DOMAIN log' : ~(new < i)
    BY <1>3
  <1> HIDE DEF new
  <1>5. ASSUME NEW u \in Turns \ {t} PROVE RowsInv(u)'
    <2>1. RowsInv(u) /\ pc'[u] = pc[u] /\ pc[u] \notin Running
      BY <1>1, DeedPlaces
    <2>2. (Wrote(u)' <=> Wrote(u)) /\ (Replied(u)' <=> Replied(u)) /\ (Lined(u)' <=> Lined(u))
      BY <1>3 DEF Wrote, Replied, Lined
    <2>3. \A i \in DOMAIN log' : log'[i].turn = u => i \in DOMAIN log /\ log'[i] = log[i]
      BY <1>3
    <2> QED BY <2>1, <2>2, <2>3 DEF RowsInv
  <1>6. RowsInv(t)'
    <2>0. RowsInv(t)
      OBVIOUS
    <2>1. ~Replied(t)
      BY <1>2, <2>0 DEF RowsInv, Before, Looping, Due, Wrote, Replied
    <2>2. \A i, j \in DOMAIN log' : i < j /\ log'[i].turn = t => log'[j].turn = t
      BY <1>1, <1>3, <1>4, <2>0 DEF RowsInv
    <2>3. \A i, j \in DOMAIN log' : log'[i].turn = t /\ log'[i].kind = "dm"
              /\ log'[j].turn = t /\ log'[j].kind = "dm" => i = j
      BY <1>3, <2>1 DEF Replied
    <2>4. CASE pc'[t] \in {"prompt", "handled"} /\ kind # "dm"
      <3>1. Lined(t)'
        <4>1. CASE kind \in {"system", "player"}
          BY <1>3, <4>1 DEF Lined
        <4>2. CASE pc[t] = "handler"
          BY <1>3, <2>0, <4>2 DEF RowsInv, Looping, Lined
        <4> QED BY <1>2, <2>4, <4>1, <4>2
      <3>2. ~Replied(t)'
        BY <1>3, <2>1, <2>4 DEF Replied
      <3> QED BY <2>2, <2>3, <2>4, <3>1, <3>2 DEF RowsInv, Before, After
    <2>5. CASE pc'[t] = "announce" /\ kind = "dm"
      <3>1. Replied(t)'
        BY <1>3, <2>5 DEF Replied
      <3> QED BY <2>2, <2>3, <2>5, <3>1 DEF RowsInv, Before, Looping, Due, TerminalErrors
    <2> QED BY <1>2, <2>4, <2>5
  <1>7. TranscriptContiguous'
    <2> SUFFICES ASSUME NEW i \in DOMAIN log', NEW j \in DOMAIN log', NEW k \in DOMAIN log',
                        i < j, j < k, log'[i].turn = log'[k].turn
                 PROVE  log'[j].turn = log'[i].turn
      BY DEF TranscriptContiguous
    <2>1. i \in DOMAIN log /\ j \in DOMAIN log
      BY <1>3, <1>4
    <2>2. CASE k \in DOMAIN log
      BY <1>3, <2>1, <2>2 DEF TranscriptContiguous
    <2>3. CASE k = new
      BY <1>1, <1>3, <2>1, <2>3 DEF RowsInv
    <2> QED BY <1>3, <2>2, <2>3
  <1> QED BY <1>5, <1>6, <1>7

\* So the rows are right after every step of a turn.
LEMMA RowsStep ==
    ASSUME TypeOK, LockExclusive, NEW t \in Turns, Alone(t), Deed(t),
           TranscriptContiguous, \A u \in Turns : RowsInv(u)
    PROVE  (\A u \in Turns : RowsInv(u)') /\ TranscriptContiguous'
  <1>1. CASE Adds(t)
    BY <1>1, RowsWritten
  <1>2. CASE log' = log /\ ~WritingMove(t)
    <2>1. TranscriptContiguous'
      BY <1>2 DEF TranscriptContiguous
    <2> QED BY <1>2, <2>1, RowsQuiet
  <1>3. WritingMove(t) => Adds(t)
    <2>1. audit[t] \in SUBSET CallIds /\ {} \in SUBSET CallIds
          /\ {"system", "player", "aside", "dm"} = Kinds
      BY DEF TypeOK, Kinds
    <2> QED BY <2>1 DEF WritingMove, Adds
  <1> QED BY <1>1, <1>2, <1>3, DeedRows

\* The events of a turn after it has published one.
LEMMA TellingEvents ==
    ASSUME TypeOK, NEW t \in Turns, NEW kind \in Events, Publish(t, kind)
    PROVE  /\ Len(told[t]) \in Nat /\ DOMAIN told[t] = 1..Len(told[t])
           /\ DOMAIN told'[t] = 1..(Len(told[t]) + 1) /\ Len(told'[t]) = Len(told[t]) + 1
           /\ \A i \in DOMAIN told[t] : told'[t][i] = told[t][i]
           /\ told'[t][Len(told[t]) + 1] = kind
           /\ \A i \in DOMAIN told'[t] :
                i \in DOMAIN told[t] \/ (i = Len(told[t]) + 1 /\ told'[t][i] = kind)
           /\ \A i \in DOMAIN told[t] : i < Len(told[t]) + 1
           /\ told'[t] # <<>>
  <1>1. told[t] \in Seq(Events) /\ told'[t] = Append(told[t], kind)
    BY DEF TypeOK, Publish
  <1> QED BY <1>1, AppendElements


\* A turn that has published no terminal event says nothing false.
LEMMA Unclosed ==
    ASSUME NEW t \in Turns, ~Closed(t), pc[t] \notin After \cup {"done"}
    PROVE  EventsInv(t)
  BY DEF EventsInv, Closed, TerminalEvents

\* Another turn's step leaves a turn's events and reply as they were.
LEMMA EventsElsewhere ==
    ASSUME TypeOK, NEW t \in Turns, Alone(t), Deed(t), NEW u \in Turns \ {t}, EventsInv(u)
    PROVE  EventsInv(u)'
  <1>1. pc'[u] = pc[u] /\ told'[u] = told[u]
    BY DeedPlaces
  <1>2. Replied(u)' <=> Replied(u)
    <2>1. CASE log' = log
      BY <2>1 DEF Replied
    <2>2. CASE Adds(t)
      <3>1. PICK kind \in Kinds, ids \in SUBSET CallIds : Writing(t, kind, ids)
        BY <2>2 DEF Adds
      <3>2. /\ \A i \in DOMAIN log : log'[i] = log[i] /\ i \in DOMAIN log'
            /\ \A i \in DOMAIN log' : i \in DOMAIN log \/ log'[i].turn = t
        BY <3>1, WritingRows
      <3> QED BY <3>2 DEF Replied
    <2> QED BY <2>1, <2>2, DeedRows
  <1>3. Closed(u)' <=> Closed(u)
    BY <1>1 DEF Closed
  <1> QED BY <1>1, <1>2, <1>3 DEF EventsInv

\* A turn's own step keeps its events true.
LEMMA EventsOwn ==
    ASSUME TypeOK, NEW t \in Turns, Alone(t), Deed(t), RowsInv(t), EventsInv(t)
    PROVE  EventsInv(t)'
  <1> DEFINE open == Before \cup Looping \cup TerminalErrors \cup Due \cup {"announce"}
  <1>0. /\ pc[t] \in open => ~Closed(t)
        /\ "memory" \notin open /\ "speaking" \notin open /\ "done" \notin open
    BY DEF EventsInv, Before, Looping, Due, TerminalErrors
  <1>1. CASE QuietMove(t) /\ UNCHANGED <<log, effects, failed, told>>
    <2>1. (Closed(t)' <=> Closed(t)) /\ (Replied(t)' <=> Replied(t))
      BY <1>1 DEF Closed, Replied
    <2>2. CASE pc[t] \in After
      <3>1. pc'[t] \in {"muted", "cancelled", "speaking", "done", "orchestrator_crash"}
        BY <1>1, <2>2 DEF QuietMove, Looping, After
      <3>2. told[t] # <<>> /\ told[t][Len(told[t])] \in TerminalEvents
        BY <2>2 DEF EventsInv, Closed
      <3> QED BY <1>1, <2>1, <2>2, <3>1, <3>2 DEF EventsInv, Before, Looping, Due, After, TerminalErrors
    <2>3. CASE pc[t] \in open
      <3>1. pc'[t] \notin After \cup {"done"}
        BY <1>1, <2>3, <1>0 DEF QuietMove, Before, Looping, Due, After, TerminalErrors
      <3> QED BY <1>0, <2>1, <2>3, <3>1 DEF EventsInv, Closed, TerminalEvents
    <2>4. CASE pc[t] = "orchestrator_crash"
      <3>1. pc'[t] \in {"muted", "cancelled"}
        BY <1>1, <2>4 DEF QuietMove, Looping, After, Unguarded
      <3> QED BY <1>1, <2>1, <2>4, <3>1 DEF EventsInv, Before, Looping, Due, After, TerminalErrors
    <2>5. pc[t] \in open \cup After \cup {"orchestrator_crash"}
      BY <1>1 DEF QuietMove, Before, Looping, Due, After, Unguarded, TerminalErrors, Running, Streaming
    <2> QED BY <2>2, <2>3, <2>4, <2>5
  <1>2. CASE TellingMove(t)
    <2>1. ~Closed(t) /\ pc'[t] \notin After \cup {"done"}
      BY <1>0, <1>2 DEF TellingMove, Looping, After
    <2>2. ~Closed(t)'
      <3>1. CASE told' = told
        BY <2>1, <3>1 DEF Closed
      <3>2. CASE \E kind \in Events \ TerminalEvents : Publish(t, kind)
        <4>1. PICK kind \in Events \ TerminalEvents : Publish(t, kind)
          BY <3>2
        <4>2. \A i \in DOMAIN told'[t] : \/ i \in DOMAIN told[t] /\ told'[t][i] = told[t][i]
                                        \/ told'[t][i] = kind
          BY <4>1, TellingEvents
        <4> QED BY <2>1, <4>2 DEF Closed
      <3> QED BY <1>2, <3>1, <3>2 DEF TellingMove
    <2> QED BY <2>1, <2>2 DEF EventsInv, Closed, TerminalEvents
  <1>3. CASE ClosingMove(t)
    <2>1. PICK kind \in TerminalEvents :
            /\ Publish(t, kind)
            /\ \/ kind = "complete" /\ pc[t] = "announce" /\ pc'[t] = "memory"
               \/ kind \in TerminalErrors \cup {"orchestrator_crash"} /\ pc[t] = kind /\ pc'[t] = "done"
      BY <1>3 DEF ClosingMove
    <2>2. Replied(t)' <=> Replied(t)
      BY <1>3 DEF ClosingMove, Replied
    <2>3. kind \in Events
      BY DEF TerminalEvents, Events
    <2> DEFINE new == Len(told[t]) + 1
    <2>4. /\ Len(told'[t]) = new /\ new \in DOMAIN told'[t] /\ told'[t][new] = kind
          /\ \A i \in DOMAIN told[t] : told'[t][i] = told[t][i] /\ i < new /\ i \in DOMAIN told'[t]
          /\ \A i \in DOMAIN told'[t] : i \in DOMAIN told[t] \/ i = new
          /\ told'[t] # <<>> /\ ~(new < new) /\ (\A i \in DOMAIN told[t] : ~(new < i))
      BY <2>1, <2>3, TellingEvents
    <2> HIDE DEF new
    <2>5. CASE kind = "complete" /\ pc[t] = "announce" /\ pc'[t] = "memory"
      <3>1. ~Closed(t) /\ Replied(t)
        BY <1>0, <2>5 DEF RowsInv
      <3>2. Closed(t)'
        BY <2>4 DEF Closed
      <3>3. \A i \in DOMAIN told'[t] : told'[t][i] \in TerminalEvents => i = new /\ told'[t][i] = "complete"
        BY <2>4, <2>5, <3>1 DEF Closed
      <3>4. "complete" \notin TerminalErrors /\ TerminalErrors \subseteq TerminalEvents
        BY DEF TerminalErrors, TerminalEvents
      <3> QED BY <1>0, <2>2, <2>4, <2>5, <3>1, <3>2, <3>3, <3>4 DEF EventsInv, Before, Looping, Due, After, TerminalErrors
    <2>6. CASE kind \in TerminalErrors /\ pc[t] = kind /\ pc'[t] = "done"
      <3>1. ~Closed(t) /\ ~Replied(t)
        BY <1>0, <2>6 DEF RowsInv
      <3>2. \A i \in DOMAIN told'[t] : told'[t][i] \in TerminalEvents => i = new
        BY <2>4, <3>1 DEF Closed
      <3>3. "complete" \notin TerminalErrors /\ "complete" \in TerminalEvents
        BY DEF TerminalErrors, TerminalEvents
      <3> QED BY <1>0, <2>2, <2>4, <2>6, <3>1, <3>2, <3>3 DEF EventsInv, Before, Looping, Due, After, TerminalErrors
    <2>7. CASE kind = "orchestrator_crash" /\ pc[t] = kind /\ pc'[t] = "done"
      <3>1. \A i \in DOMAIN told[t] : told[t][i] \in TerminalEvents => told[t][i] = "complete"
        BY <2>7 DEF EventsInv
      <3>2. kind # "complete" /\ kind \notin TerminalErrors
        BY <2>7 DEF TerminalErrors
      <3>3. \A i \in DOMAIN told'[t] : told'[t][i] \in TerminalEvents =>
                \/ i = new
                \/ i \in DOMAIN told[t] /\ told'[t][i] = "complete"
        BY <2>4, <3>1
      <3>4. \A i, j \in DOMAIN told'[t] : i < j /\ told'[t][i] \in TerminalEvents =>
              told'[t][i] = "complete" /\ told'[t][j] = "orchestrator_crash"
        <4> SUFFICES ASSUME NEW i \in DOMAIN told'[t], NEW j \in DOMAIN told'[t], i < j,
                            told'[t][i] \in TerminalEvents
                     PROVE  told'[t][i] = "complete" /\ told'[t][j] = "orchestrator_crash"
          OBVIOUS
        <4>1. i \in DOMAIN told[t] /\ told'[t][i] = told[t][i]
          BY <2>4
        <4>2. told[t][i] = "complete" /\ i = Len(told[t])
          BY <2>7, <4>1 DEF EventsInv
        <4>3. j = new
          <5>1. \A k \in DOMAIN told[t] : ~(Len(told[t]) < k)
            BY DEF TypeOK
          <5> QED BY <2>4, <4>2, <5>1
        <4> QED BY <2>4, <2>7, <4>1, <4>2, <4>3
      <3>5. \A i \in DOMAIN told'[t] : /\ told'[t][i] = "complete" => Replied(t)
                                      /\ told'[t][i] \in TerminalErrors => ~Replied(t)
        BY <2>4, <3>2 DEF EventsInv
      <3> QED BY <1>0, <2>1, <2>2, <2>4, <2>7, <3>4, <3>5 DEF EventsInv, Before, Looping, Due, After, TerminalErrors
    <2> QED BY <2>1, <2>5, <2>6, <2>7
  <1>4. CASE WritingMove(t) \/ CommitMove(t) \/ RaiseMove(t)
    <2>1. pc[t] \in open /\ pc'[t] \notin After \cup {"done"} /\ told' = told
      BY <1>4 DEF WritingMove, CommitMove, RaiseMove, Before, Looping, Due, After
    <2>2. ~Closed(t)'
      BY <1>0, <2>1 DEF Closed
    <2> QED BY <2>1, <2>2 DEF EventsInv, Closed, TerminalEvents
  <1> QED BY <1>1, <1>2, <1>3, <1>4 DEF Deed

\* The call in hand is one call.
LEMMA OneInHand ==
    ASSUME TypeOK, NEW t \in Turns, NEW i \in NextCalls(t), NEW j \in NextCalls(t)
    PROVE  i = j
  <1>1. i \in Nat /\ j \in Nat /\ i <= j /\ j <= i
    BY DEF NextCalls, TypeOK, Idx
  <1> QED BY <1>1

\* One more call committed or rolled back is one more dispatched, for its turn only.
LEMMA DispatchedGrows ==
    ASSUME NEW t \in Turns, NEW id,
           \/ effects' = effects \cup {<<t, id>>} /\ failed' = failed
           \/ failed' = failed \cup {<<t, id>>} /\ effects' = effects
    PROVE  /\ Dispatched(t)' = Dispatched(t) \cup {id}
           /\ \A u \in Turns \ {t} : Dispatched(u)' = Dispatched(u)
  <1>1. effects' \cup failed' = (effects \cup failed) \cup {<<t, id>>}
    OBVIOUS
  <1>2. ASSUME NEW u \in Turns, NEW x
        PROVE  x \in Dispatched(u)' <=> x \in Dispatched(u) \/ (u = t /\ x = id)
    <2>1. x \in Dispatched(u)' <=> \E e \in effects' \cup failed' : e[1] = u /\ e[2] = x
      BY DEF Dispatched
    <2>2. x \in Dispatched(u) <=> \E e \in effects \cup failed : e[1] = u /\ e[2] = x
      BY DEF Dispatched
    <2>3. <<t, id>>[1] = t /\ <<t, id>>[2] = id
      OBVIOUS
    <2> QED BY <1>1, <2>1, <2>2, <2>3
  <1>3. \A u \in Turns \ {t} : Dispatched(u)' = Dispatched(u)
    BY <1>2
  <1>4. Dispatched(t)' = Dispatched(t) \cup {id}
    BY <1>2
  <1> QED BY <1>3, <1>4

\* A step that commits and rolls back nothing dispatches nothing.
LEMMA DispatchedStays ==
    ASSUME UNCHANGED <<effects, failed>>
    PROVE  \A u \in Turns : Dispatched(u)' = Dispatched(u)
  BY DEF Dispatched

\* The call a handler is run for is the call in hand when it is over.
LEMMA DispatchedOne ==
    ASSUME TypeOK, NEW t \in Turns, CommitMove(t) \/ RaiseMove(t)
    PROVE  /\ Dispatched(t)' = Dispatched(t) \cup InHand(t)'
           /\ \A u \in Turns \ {t} : Dispatched(u)' = Dispatched(u)
           /\ audit' = audit /\ pc[t] = "handler" /\ pc'[t] \in {"handled", "raised"}
  <1>1. PICK i \in NextCalls(t) :
          \/ effects' = effects \cup {<<t, Id(t, i)>>} /\ failed' = failed
          \/ failed' = failed \cup {<<t, Id(t, i)>>} /\ effects' = effects
    BY DEF CommitMove, RaiseMove
  <1>2. /\ pc[t] = "handler" /\ pc'[t] \in {"handled", "raised"}
        /\ audit' = audit /\ todo' = todo /\ iter' = iter
    BY DEF CommitMove, RaiseMove
  <1>3. NextCalls(t)' = NextCalls(t)
    BY <1>2 DEF NextCalls
  <1>4. InHand(t)' = {Id(t, i)}
    <2>1. InHand(t)' = {Id(t, j)' : j \in NextCalls(t)'}
      BY <1>2 DEF InHand
    <2>2. NextCalls(t) = {i}
      BY OneInHand
    <2> QED BY <1>2, <1>3, <2>1, <2>2
  <1> QED BY <1>1, <1>2, <1>4, DispatchedGrows

\* A step of a turn keeps the account of what each turn has dispatched.
LEMMA AuditStep ==
    ASSUME TypeOK, NEW t \in Turns, Alone(t), Deed(t), NEW u \in Turns, AuditInv(u)
    PROVE  AuditInv(u)'
  <1>0. CommitMove(t) \/ RaiseMove(t) \/ UNCHANGED <<effects, failed>>
    BY DEF Deed, TellingMove, ClosingMove, WritingMove
  <1>1. CASE u # t
    <2>1. /\ pc'[u] = pc[u] /\ audit'[u] = audit[u] /\ todo'[u] = todo[u] /\ iter'[u] = iter[u]
      BY <1>1, DeedPlaces
    <2>2. Dispatched(u)' = Dispatched(u)
      BY <1>0, <1>1, DispatchedOne, DispatchedStays
    <2>3. InHand(u)' = InHand(u)
      BY <2>1 DEF InHand, NextCalls
    <2> QED BY <2>1, <2>2, <2>3 DEF AuditInv
  <1>2. CASE u = t
    <2>1. CASE QuietMove(t) /\ UNCHANGED <<log, effects, failed, told>>
      <3>1. Dispatched(t)' = Dispatched(t)
        BY <2>1, DispatchedStays
      <3>2. CASE pc'[t] \in Before
        <4>1. pc[t] \in Before /\ audit'[t] = audit[t]
          BY <2>1, <3>2 DEF QuietMove, Before, Looping, TerminalErrors
        <4> QED BY <1>2, <3>1, <3>2, <4>1 DEF AuditInv, Before, Looping, Due
      <3>3. CASE pc'[t] \in Looping \cup Due
        <4>1. /\ pc[t] \in Looping \cup Due /\ audit'[t] = audit[t]
              /\ pc[t] \notin {"handled", "raised"} /\ pc'[t] \notin {"handled", "raised"}
          BY <2>1, <3>3 DEF QuietMove, Before, Looping, Due, TerminalErrors
        <4>2. InHand(t) = {} /\ InHand(t)' = {}
          BY <4>1 DEF InHand
        <4> QED BY <1>2, <3>1, <3>3, <4>1, <4>2 DEF AuditInv, Before, Looping, Due
      <3> QED BY <1>2, <3>2, <3>3 DEF AuditInv
    <2>2. CASE TellingMove(t)
      <3>1. Dispatched(t)' = Dispatched(t) /\ Dispatched(t) = audit[t] \cup InHand(t)
        BY <1>2, <2>2, DispatchedStays DEF TellingMove, AuditInv
      <3>2. audit'[t] = audit[t] \cup InHand(t)
        <4>1. CASE pc[t] \in {"handled", "raised"}
          <5>1. PICK i \in NextCalls(t) : audit'[t] = audit[t] \cup {Id(t, i)}
            BY <2>2, <4>1 DEF TellingMove
          <5>2. NextCalls(t) = {i}
            BY OneInHand
          <5> QED BY <4>1, <5>1, <5>2 DEF InHand
        <4>2. CASE pc[t] \notin {"handled", "raised"}
          BY <2>2, <4>2 DEF TellingMove, InHand
        <4> QED BY <4>1, <4>2
      <3>3. pc'[t] \notin Before /\ InHand(t)' = {}
        BY <2>2 DEF TellingMove, Looping, Before, InHand
      <3> QED BY <1>2, <3>1, <3>2, <3>3 DEF AuditInv
    <2>3. CASE ClosingMove(t)
      <3>1. pc'[t] \in {"memory", "done"}
        BY <2>3 DEF ClosingMove
      <3> QED BY <1>2, <3>1 DEF AuditInv, Before, Looping, Due
    <2>4. CASE WritingMove(t)
      <3>1. Dispatched(t)' = Dispatched(t) /\ audit' = audit
        BY <2>4, DispatchedStays DEF WritingMove
      <3>2. (pc[t] = "leading" /\ pc'[t] = "prompt") \/ pc'[t] = "announce"
        BY <2>4 DEF WritingMove
      <3>3. pc'[t] = "prompt" => InHand(t)' = {}
        BY DEF InHand
      <3> QED BY <1>2, <3>1, <3>2, <3>3 DEF AuditInv, Before, Looping, Due
    <2>5. CASE CommitMove(t) \/ RaiseMove(t)
      <3>1. /\ Dispatched(t)' = Dispatched(t) \cup InHand(t)' /\ audit' = audit
            /\ pc[t] = "handler" /\ pc'[t] \in {"handled", "raised"}
        BY <2>5, DispatchedOne
      <3>2. Dispatched(t) = audit[t]
        BY <1>2, <3>1 DEF AuditInv, Looping, InHand
      <3> QED BY <1>2, <3>1, <3>2 DEF AuditInv, Before
    <2> QED BY <2>1, <2>2, <2>3, <2>4, <2>5 DEF Deed
  <1> QED BY <1>1, <1>2

\* What is dispatched is dispatched before the reply, and the reply's row takes
\* the whole audit.
LEMMA ExactStep ==
    ASSUME TypeOK, NEW t \in Turns, Alone(t), Deed(t), AuditExact, RowsInv(t), AuditInv(t)
    PROVE  AuditExact'
  <1> SUFFICES ASSUME NEW u \in Turns, NEW i \in DOMAIN log',
                      log'[i].turn = u, log'[i].kind = "dm"
               PROVE  log'[i].calls = Dispatched(u)'
    BY DEF AuditExact
  <1>1. CASE i \in DOMAIN log /\ log'[i] = log[i]
    <2>1. Dispatched(u)' = Dispatched(u)
      <3>1. CASE UNCHANGED <<effects, failed>>
        BY <3>1, DispatchedStays
      <3>2. CASE CommitMove(t) \/ RaiseMove(t)
        <4>1. pc[t] = "handler" /\ \A v \in Turns \ {t} : Dispatched(v)' = Dispatched(v)
          BY <3>2, DispatchedOne
        <4>2. u # t
          BY <1>1, <4>1 DEF RowsInv, Looping, Replied
        <4> QED BY <4>1, <4>2
      <3> QED BY <3>1, <3>2 DEF Deed, TellingMove, ClosingMove, WritingMove
    <2>2. log[i].calls = Dispatched(u)
      BY <1>1 DEF AuditExact
    <2> QED BY <1>1, <2>1, <2>2
  <1>2. CASE ~(i \in DOMAIN log /\ log'[i] = log[i])
    <2>1. Adds(t)
      BY <1>2, DeedRows
    <2>2. PICK kind \in Kinds, ids \in SUBSET CallIds :
            /\ Writing(t, kind, ids)
            /\ kind = "dm" => pc[t] = "replying" /\ pc'[t] = "announce" /\ ids = audit[t]
      BY <2>1 DEF Adds
    <2>3. u = t /\ kind = "dm" /\ log'[i].calls = ids
      BY <1>2, <2>2, WritingRows
    <2>4. Dispatched(t) = audit[t]
      BY <2>2, <2>3 DEF AuditInv, Due, InHand
    <2>5. UNCHANGED <<effects, failed>>
      BY <2>2, <2>3 DEF Deed, TellingMove, ClosingMove, WritingMove, CommitMove, RaiseMove
    <2> QED BY <2>2, <2>3, <2>4, <2>5, DispatchedStays
  <1> QED BY <1>1, <1>2

\* So a step of a turn keeps the record.
LEMMA RecordStep ==
    ASSUME TypeOK, LockExclusive, RecordInv, NEW t \in Turns, Request(t) \/ Step(t) \/ Cancel(t)
    PROVE  RecordInv'
  <1>0. Alone(t) /\ Deed(t)
    BY StepDeed
  <1>1. (\A u \in Turns : RowsInv(u)') /\ TranscriptContiguous'
    BY <1>0, RowsStep DEF RecordInv
  <1>2. \A u \in Turns : EventsInv(u)'
    BY <1>0, EventsElsewhere, EventsOwn DEF RecordInv
  <1>3. \A u \in Turns : AuditInv(u)'
    BY <1>0, AuditStep DEF RecordInv
  <1>4. AuditExact'
    BY <1>0, ExactStep DEF RecordInv
  <1> QED BY <1>1, <1>2, <1>3, <1>4 DEF RecordInv

\* A restart ends turns and writes nothing.
LEMMA RecordRestart ==
    ASSUME RecordInv, Restart
    PROVE  RecordInv'
  <1>1. log' = log /\ told' = told /\ \A u \in Turns : Dispatched(u)' = Dispatched(u)
    BY DEF Restart, Dispatched
  <1>2. ASSUME NEW u \in Turns PROVE RowsInv(u)' /\ EventsInv(u)' /\ AuditInv(u)'
    <2>1. RowsInv(u) /\ EventsInv(u) /\ AuditInv(u)
      BY DEF RecordInv
    <2>2. pc'[u] = "lost" \/ (pc'[u] = pc[u] /\ pc[u] \notin Running \cup {"queued"})
      BY DEF Restart
    <2>3. "lost" \notin Before \cup Looping \cup TerminalErrors \cup Running \cup
            Due \cup After \cup {"announce", "orchestrator_crash", "done"}
      BY DEF Before, Looping, Due, After, TerminalErrors, Running, Streaming
    <2>4. (Wrote(u)' <=> Wrote(u)) /\ (Replied(u)' <=> Replied(u)) /\ (Lined(u)' <=> Lined(u))
          /\ (Closed(u)' <=> Closed(u))
      BY <1>1 DEF Wrote, Replied, Lined, Closed
    <2>5. RowsInv(u)'
      BY <1>1, <2>1, <2>2, <2>3, <2>4 DEF RowsInv
    <2>6. EventsInv(u)'
      BY <1>1, <2>1, <2>2, <2>3, <2>4 DEF EventsInv
    <2>7. AuditInv(u)'
      <3>1. pc'[u] \notin Looping \cup Due
        BY <2>2, <2>3 DEF Looping, Due, Running, Streaming
      <3>2. pc'[u] \in Before => pc[u] \in Before /\ audit'[u] = {}
        BY <2>2, <2>3 DEF Restart
      <3> QED BY <1>1, <2>1, <3>1, <3>2 DEF AuditInv
    <2> QED BY <2>5, <2>6, <2>7
  <1>3. TranscriptContiguous' /\ AuditExact'
    <2>1. AuditExact'
      BY <1>1 DEF RecordInv, AuditExact
    <2> QED BY <1>1, <2>1 DEF RecordInv, TranscriptContiguous
  <1> QED BY <1>2, <1>3 DEF RecordInv

\* Every reachable state keeps the record: where each turn is tells which rows,
\* events and effects it has left behind.
THEOREM RecordCorrect == Spec => []RecordInv
  <1>1. Init => RecordInv
    BY DEF Init, RecordInv, RowsInv, EventsInv, AuditInv, TranscriptContiguous, AuditExact, Dispatched,
           Wrote, Replied, Lined, Closed, Before, Looping, Due, After, TerminalErrors, Running, Streaming
  <1>2. TypeOK /\ LockExclusive /\ RecordInv /\ [Next]_vars => RecordInv'
    <2> SUFFICES ASSUME TypeOK, LockExclusive, RecordInv, [Next]_vars PROVE RecordInv'
      OBVIOUS
    <2>1. CASE \E t \in Turns : Request(t) \/ Step(t) \/ Cancel(t)
      BY <2>1, RecordStep
    <2>2. CASE Restart
      BY <2>2, RecordRestart
    <2>3. CASE UNCHANGED vars
      <3>1. /\ pc' = pc /\ log' = log /\ told' = told /\ audit' = audit
            /\ todo' = todo /\ iter' = iter /\ UNCHANGED <<effects, failed>>
        BY <2>3 DEF vars, locals, lock
      <3>2. ASSUME NEW u \in Turns PROVE Dispatched(u)' = Dispatched(u) /\ InHand(u)' = InHand(u)
        BY <3>1, DispatchedStays DEF InHand, NextCalls, Id
      <3>3. AuditExact' /\ \A u \in Turns : AuditInv(u)'
        BY <3>1, <3>2 DEF RecordInv, AuditExact, AuditInv
      <3>4. TranscriptContiguous' /\ \A u \in Turns : RowsInv(u)' /\ EventsInv(u)'
        BY <3>1 DEF RecordInv, RowsInv, EventsInv, TranscriptContiguous, Wrote, Replied, Lined, Closed
      <3> QED BY <3>3, <3>4 DEF RecordInv
    <2> QED BY <2>1, <2>2, <2>3 DEF Next
  <1> QED BY <1>1, <1>2, TypeCorrect, LockCorrect, PTL DEF Spec

\* The rows of two turns never mix, whatever is cancelled, crashes or restarts
\* (dispatch.py: turn N+1 waits for turn N before building its prompt).
THEOREM RowsNeverMix == Spec => []TranscriptContiguous
  <1>1. RecordInv => TranscriptContiguous
    BY DEF RecordInv
  <1> QED BY <1>1, RecordCorrect, PTL

\* The audit stored with a reply names exactly the calls of the turn that were
\* dispatched: those that changed the database and those that were rolled back
\* (dm.py, _tool_call_audit_record).
THEOREM AuditComplete == Spec => []AuditExact
  <1>1. RecordInv => AuditExact
    BY DEF RecordInv
  <1> QED BY <1>1, RecordCorrect, PTL

RepliesOf(t) == {i \in DOMAIN log : log[i].turn = t /\ log[i].kind = "dm"}

\* What the table is told of a turn is true and complete: a narration only when
\* its row is stored, an error only when no narration is, one terminal event to
\* close; the rows a turn's tools wrote stay whatever became of it.
THEOREM ToldTheTruth == Spec => []EventsTrue
  <1>1. TypeOK /\ RecordInv => EventsTrue
    <2> SUFFICES ASSUME TypeOK, RecordInv PROVE CompleteIsPersisted /\ OneTerminalEvent
      BY DEF EventsTrue
    <2>1. OneTerminalEvent
      BY DEF RecordInv, EventsInv, OneTerminalEvent
    <2>2. ASSUME NEW t \in Turns
          PROVE  /\ Cardinality(RepliesOf(t)) <= 1
                 /\ \A i \in DOMAIN told[t] :
                      /\ told[t][i] = "complete" => RepliesOf(t) # {}
                      /\ told[t][i] \in TerminalErrors => RepliesOf(t) = {}
      <3>1. RepliesOf(t) = {} \/ \E x : RepliesOf(t) = {x}
        <4>1. \A i, j \in RepliesOf(t) : i = j
          BY DEF RecordInv, RowsInv, RepliesOf
        <4> QED BY <4>1
      <3>2. Cardinality(RepliesOf(t)) <= 1
        <4>1. CASE RepliesOf(t) = {}
          BY <4>1, FS_EmptySet
        <4>2. CASE \E x : RepliesOf(t) = {x}
          <5>1. PICK x : RepliesOf(t) = {x}
            BY <4>2
          <5>2. Cardinality({x}) = 1
            BY FS_Singleton
          <5> QED BY <5>1, <5>2
        <4> QED BY <3>1, <4>1, <4>2
      <3>3. RepliesOf(t) # {} <=> Replied(t)
        BY DEF Replied, RepliesOf
      <3>4. \A i \in DOMAIN told[t] : /\ told[t][i] = "complete" => Replied(t)
                                      /\ told[t][i] \in TerminalErrors => ~Replied(t)
        BY DEF RecordInv, EventsInv
      <3> QED BY <3>2, <3>3, <3>4
    <2> QED BY <2>1, <2>2 DEF CompleteIsPersisted, RepliesOf
  <1> QED BY <1>1, TypeCorrect, RecordCorrect, PTL

-----------------------------------------------------------------------------
(* The refinement: the turns are serial *)

\* Where a turn is in the serial specification, and when that changes.
LEMMA StageOf ==
    ASSUME TypeOK
    PROVE  \A t \in Turns : /\ Stages[t] = "idle" <=> pc[t] = "new"
                            /\ Stages[t] = "waiting" <=> pc[t] = "queued"
                            /\ Stages[t] = "serving" <=> pc[t] \in Running
                            /\ Stages[t] = "over" <=> pc[t] \in Ended
                            /\ Stages[t] \in {"idle", "waiting", "serving", "over"}
  BY DEF Stages, TypeOK, Running, Ended, Streaming, TerminalErrors

\* A turn that moves moves there too.
LEMMA StageMoves ==
    ASSUME TypeOK, TypeOK', NEW t \in Turns, NEW label, pc' = [pc EXCEPT ![t] = label]
    PROVE  /\ label = "queued" => Stages' = [Stages EXCEPT ![t] = "waiting"]
           /\ label \in Running => Stages' = [Stages EXCEPT ![t] = "serving"]
           /\ label \in Ended => Stages' = [Stages EXCEPT ![t] = "over"]
  BY DEF Stages, TypeOK, Running, Ended, Streaming, TerminalErrors

\* The rows as the serial specification writes them.
LEMMA ScriptOf ==
    ASSUME TypeOK
    PROVE  /\ Script \in Seq(Turns \X {"line", "aside", "reply"})
           /\ DOMAIN Script = DOMAIN log /\ Len(Script) = Len(log)
           /\ \A t \in Turns : /\ Serial!Said(t, "reply") <=> Replied(t)
                               /\ Serial!Said(t, "line") <=> Lined(t)
  <1>1. DOMAIN log = 1..Len(log) /\ Len(log) \in Nat
    BY DEF TypeOK
  <1>2. \A i \in DOMAIN log : log[i].turn \in Turns /\ log[i].kind \in Kinds
    <2>1. PICK R : R = Rows /\ log \in Seq(R)
      BY DEF TypeOK
    <2>2. \A i \in DOMAIN log : log[i] \in R
      BY <2>1
    <2> QED BY <2>1, <2>2 DEF Rows
  <1>3. DOMAIN Script = 1..Len(log)
    BY <1>1 DEF Script
  <1>4. \A i \in 1..Len(log) : Script[i] \in Turns \X {"line", "aside", "reply"}
    BY <1>1, <1>2 DEF Script, As
  <1>5. Script = [i \in 1..Len(log) |-> Script[i]]
    BY <1>1 DEF Script
  <1>6. Script \in Seq(Turns \X {"line", "aside", "reply"}) /\ Len(Script) = Len(log)
    BY <1>1, <1>3, <1>4, <1>5
  <1>7. \A t \in Turns : /\ Serial!Said(t, "reply") <=> Replied(t)
                         /\ Serial!Said(t, "line") <=> Lined(t)
    BY <1>1, <1>2 DEF Serial!Said, Script, As, Kinds, Replied, Lined
  <1> QED BY <1>1, <1>3, <1>6, <1>7

\* A row of the transcript is a row of the script.
LEMMA ScriptGrows ==
    ASSUME TypeOK, TypeOK', NEW t \in Turns, NEW kind \in Kinds,
           NEW ids \in SUBSET CallIds, Writing(t, kind, ids)
    PROVE  Script' = Append(Script, <<t, As(kind)>>)
  <1> DEFINE what == As(kind)
             new == Len(log) + 1
  <1>1. /\ Len(log) \in Nat /\ DOMAIN log' = 1..new /\ DOMAIN log = 1..Len(log)
        /\ \A i \in 1..Len(log) : log'[i] = log[i]
        /\ log'[new].turn = t /\ log'[new].kind = kind
    BY WritingRows
  <1>2. PICK S : S = Turns \X {"line", "aside", "reply"} /\ Script \in Seq(S)
    BY ScriptOf
  <1>3. <<t, what>> \in S
    BY <1>2 DEF As, Kinds
  <1>4. Len(Script) = Len(log)
    BY ScriptOf
  <1>5. /\ DOMAIN Append(Script, <<t, what>>) = 1..new
        /\ \A i \in 1..Len(log) : Append(Script, <<t, what>>)[i] = Script[i]
        /\ Append(Script, <<t, what>>)[new] = <<t, what>>
    BY <1>2, <1>3, <1>4, AppendElements
  <1>6. Append(Script, <<t, what>>) \in Seq(S)
    BY <1>2, <1>3
  <1>7. DOMAIN Script' = 1..new /\ Script' = [i \in 1..new |-> Script'[i]]
    BY <1>1 DEF Script
  <1>8. Append(Script, <<t, what>>) = [i \in 1..new |-> Append(Script, <<t, what>>)[i]]
    BY <1>5, <1>6
  <1>9. \A i \in 1..Len(log) : Script'[i] = Script[i]
    BY <1>1 DEF Script
  <1>10. Script'[new] = <<t, what>>
    BY <1>1 DEF Script
  <1>11. \A i \in 1..new : i \in 1..Len(log) \/ i = new
    BY <1>1
  <1>12. \A i \in 1..new : Script'[i] = Append(Script, <<t, what>>)[i]
    BY <1>5, <1>9, <1>10, <1>11
  <1> QED BY <1>7, <1>8, <1>12

\* Nothing else changes what the serial specification sees of the transcript.
LEMMA ScriptStays ==
    ASSUME log' = log
    PROVE  Script' = Script
  BY DEF Script

\* Every step of a turn is a step of the serial specification, or none.
LEMMA SerialStep ==
    ASSUME TypeOK, TypeOK', LockExclusive, RecordInv, NEW t \in Turns,
           Request(t) \/ Step(t) \/ Cancel(t)
    PROVE  Serial!Next \/ UNCHANGED <<Stages, waiters, Script>>
  <1>0. Alone(t) /\ Deed(t)
    BY StepDeed
  <1>1. CASE Request(t)
    <2>1. pc[t] = "new" /\ pc' = [pc EXCEPT ![t] = "queued"] /\ waiters' = Append(waiters, t)
          /\ log' = log
      BY <1>1 DEF Request
    <2>2. Stages[t] = "idle" /\ Stages' = [Stages EXCEPT ![t] = "waiting"] /\ Script' = Script
      BY <2>1, StageOf, StageMoves DEF Script
    <2>3. Serial!Ask(t)
      BY <2>1, <2>2 DEF Serial!Ask
    <2> QED BY <2>3 DEF Serial!Next
  <1>2. CASE Acquire(t)
    <2>1. /\ pc[t] = "queued" /\ pc' = [pc EXCEPT ![t] = "lead"] /\ waiters' = Tail(waiters)
          /\ log' = log /\ waiters # <<>> /\ t = Head(waiters) /\ holder = NoTurn
      BY <1>2 DEF Acquire
    <2>2. \A u \in Turns : pc[u] \notin Running
      BY <2>1, TurnsAssumption DEF LockExclusive
    <2>3. \A u \in Turns : Stages[u] # "serving"
      BY <2>2, StageOf
    <2>4. "lead" \in Running
      BY DEF Running
    <2>5. Stages' = [Stages EXCEPT ![t] = "serving"] /\ Script' = Script
      BY <2>1, <2>4, StageMoves DEF Script
    <2>6. Serial!Serve(t)
      BY <2>1, <2>3, <2>5 DEF Serial!Serve
    <2> QED BY <2>6 DEF Serial!Next
  <1>3. ASSUME NEW how \in Ended, pc[t] \in Running, Leave(t, how)
        PROVE  Serial!Next
    <2>1. pc' = [pc EXCEPT ![t] = how] /\ pc'[t] = how /\ waiters' = waiters
      BY <1>3 DEF Leave, TypeOK
    <2>2. how \notin {"prompt", "handled", "announce"}
      BY DEF Ended
    <2>3. Script' = Script
      BY <1>0, <2>1, <2>2, DeedRows, ScriptStays DEF Adds
    <2>4. Stages[t] = "serving" /\ Stages' = [Stages EXCEPT ![t] = "over"]
      BY <1>3, <2>1, StageOf, StageMoves
    <2>5. Serial!Finish(t)
      BY <2>1, <2>3, <2>4 DEF Serial!Finish
    <2> QED BY <2>5 DEF Serial!Next
  <1>4. CASE pc[t] \in Running /\ Advance(t)
    <2>1. PICK label \in Running : pc' = [pc EXCEPT ![t] = label]
      BY <1>4 DEF Advance
    <2>2. Stages[t] = "serving" /\ Stages' = [Stages EXCEPT ![t] = "serving"]
      BY <1>4, <2>1, StageOf, StageMoves
    <2>3. Stages' = Stages /\ waiters' = waiters
      BY <1>4, <2>2 DEF Advance, Stages
    <2>4. CASE Adds(t)
      <3>1. PICK kind \in Kinds, ids \in SUBSET CallIds :
              /\ Writing(t, kind, ids)
              /\ \/ pc[t] = "leading" /\ As(kind) = "line"
                 \/ pc[t] = "handler" /\ As(kind) = "aside"
                 \/ pc[t] = "replying" /\ As(kind) = "reply"
        BY <2>4 DEF Adds, As
      <3>2. Script' = Append(Script, <<t, As(kind)>>)
        BY <3>1, ScriptGrows
      <3>3. /\ As(kind) = "line" <=> ~Lined(t)
            /\ ~Replied(t)
        BY <3>1 DEF RecordInv, RowsInv, Before, Looping, Due, Wrote, Lined, Replied
      <3>4. Serial!Write(t, As(kind))
        BY <2>2, <2>3, <3>2, <3>3, ScriptOf DEF Serial!Write
      <3> QED BY <3>1, <3>4 DEF Serial!Next
    <2>5. CASE log' = log
      BY <2>3, <2>5, ScriptStays
    <2> QED BY <1>0, <2>4, <2>5, DeedRows
  <1>5. CASE Cancel(t) /\ pc[t] = "queued"
    <2>1. /\ pc' = [pc EXCEPT ![t] = "cancelled"] /\ log' = log
          /\ \E i \in DOMAIN waiters :
               /\ waiters[i] = t
               /\ waiters' = SubSeq(waiters, 1, i - 1) \o SubSeq(waiters, i + 1, Len(waiters))
      BY <1>5 DEF Cancel, Running, Streaming, TerminalErrors
    <2>2. "cancelled" \in Ended
      BY DEF Ended
    <2>3. Stages[t] = "waiting" /\ Stages' = [Stages EXCEPT ![t] = "over"] /\ Script' = Script
      BY <1>5, <2>1, <2>2, StageOf, StageMoves DEF Script
    <2>4. Serial!GiveUp(t)
      BY <2>1, <2>3 DEF Serial!GiveUp
    <2> QED BY <2>4 DEF Serial!Next
  <1>6. Cancel(t) => pc[t] = "queued" \/ (pc[t] \in Running /\ Leave(t, "cancelled"))
    BY DEF Cancel
  <1> QED
    BY <1>1, <1>2, <1>3, <1>4, <1>5, <1>6, StepShape DEF Ended

\* A restart of the process is a reset.
LEMMA SerialRestart ==
    ASSUME TypeOK, TypeOK', Restart
    PROVE  Serial!Next
  <1>1. waiters' = <<>> /\ Script' = Script
    BY DEF Restart, Script
  <1>2. \A t \in Turns : Stages'[t] = IF Stages[t] = "idle" THEN "idle" ELSE "over"
    <2> TAKE t \in Turns
    <2>1. \/ pc[t] \in Running \cup {"queued"} /\ pc'[t] = "lost"
          \/ pc[t] \notin Running \cup {"queued"} /\ pc'[t] = pc[t]
      BY DEF Restart
    <2> QED BY <2>1 DEF Stages, Running, Streaming, TerminalErrors
  <1>3. Stages' = [t \in Turns |-> IF Stages[t] = "idle" THEN "idle" ELSE "over"]
    BY <1>2 DEF Stages
  <1> QED BY <1>1, <1>3 DEF Serial!Next, Serial!Reset

\* The session implements TurnSerial: turns are served one at a time in the
\* order they were asked for, only the one being served writes, its own line
\* first, then what its tools write, and at most one reply, which is its last
\* row, and none writes after its end (dispatch.py).
THEOREM TurnsAreSerial == Spec => SerialSpec
  <1>1. Init => Serial!Init
    <2> SUFFICES ASSUME Init PROVE Serial!Init
      OBVIOUS
    <2>1. Script = <<>>
      <3>1. TypeOK
        BY InitTyped DEF Typed
      <3>2. PICK S : Script \in Seq(S) /\ Len(Script) = Len(log)
        BY <3>1, ScriptOf
      <3> QED BY <3>2 DEF Init
    <2>2. Stages = [t \in Turns |-> "idle"]
      <3>1. TypeOK /\ \A t \in Turns : pc[t] = "new"
        BY InitTyped DEF Typed, Init
      <3>2. \A t \in Turns : Stages[t] = "idle"
        BY <3>1, StageOf
      <3>3. Stages = [t \in Turns |-> Stages[t]]
        BY DEF Stages
      <3> QED BY <3>2, <3>3
    <2> QED BY <2>1, <2>2 DEF Init, Serial!Init
  <1>2. TypeOK /\ TypeOK' /\ LockExclusive /\ RecordInv /\ [Next]_vars
          => [Serial!Next]_<<Stages, waiters, Script>>
    <2> SUFFICES ASSUME TypeOK, TypeOK', LockExclusive, RecordInv, [Next]_vars
                 PROVE  Serial!Next \/ UNCHANGED <<Stages, waiters, Script>>
      OBVIOUS
    <2>1. CASE \E t \in Turns : Request(t) \/ Step(t) \/ Cancel(t)
      BY <2>1, SerialStep
    <2>2. CASE Restart
      BY <2>2, SerialRestart
    <2>3. CASE UNCHANGED vars
      BY <2>3 DEF vars, Stages, Script
    <2> QED BY <2>1, <2>2, <2>3 DEF Next
  <1> QED
    BY <1>1, <1>2, TypeCorrect, LockCorrect, RecordCorrect, PTL
       DEF Spec, SerialSpec, Serial!Spec, Serial!svars

-----------------------------------------------------------------------------
(* The history: what the model's server is sent *)

Batch == {"tools", "handler", "handled", "raised"}
Live == Before \cup Looping \cup Due

\* The calls of the completion under way that are not answered yet.
Open(t, id) == pc[t] \in Batch /\ \E i \in todo[t] : id = Id(t, i)

\* The calls asked for are known by their completion and their place in it.
CallsInv(t) ==
    /\ IsFiniteSet(calls[t])
    /\ \A c \in calls[t] : c.iter <= iter[t] /\ (pc[t] \in Streaming => c.iter < iter[t])
    /\ \A c, d \in calls[t] : c.iter = d.iter /\ c.idx = d.idx => c = d

\* The history names honoured calls only.
Honoured(t) ==
    \A a \in DOMAIN history[t] : \A id \in history[t][a].ids :
        \E c \in calls[t] : id = <<c.iter, c.idx>> /\ c.ok

\* Every call in the history is answered once, or its answers are still coming
\* and nothing else has come since the message that carries it.
Trailing(h, a) == \A k \in (a + 1)..Len(h) : h[k].role = "tool"
Follows(h, a, id) == \E b \in (a + 1)..Len(h) : h[b].ids = {id} /\ AnswersIn(h, a, b)
AnsweredInv(t) ==
    LET h == history[t] IN
    /\ \A a \in DOMAIN h : h[a].role = "assistant" =>
         \A id \in h[a].ids : Follows(h, a, id) \/ (Open(t, id) /\ Trailing(h, a))
    /\ \A b \in DOMAIN h : h[b].role = "tool" =>
         \E a \in 1..(b - 1) : \E id \in h[a].ids :
             h[a].role = "assistant" /\ h[b].ids = {id} /\ AnswersIn(h, a, b)
    /\ \A b, c \in DOMAIN h :
         h[b].role = "tool" /\ h[c].role = "tool" /\ h[b].ids = h[c].ids => b = c
    /\ \A id \in CallIds : Open(t, id) =>
         /\ \E a \in DOMAIN h : h[a].role = "assistant" /\ id \in h[a].ids /\ Trailing(h, a)
         /\ \A b \in DOMAIN h : h[b].role = "tool" => h[b].ids # {id}

\* The rejected calls are told of or still to be told of, and the completions
\* that held one have their note or are the one under way.
Bad(t) == {c \in calls[t] : ~c.ok}
Spoiled(t) == {c.iter : c \in Bad(t)}
ToldOf(t) == {i \in DOMAIN told[t] : told[t][i] = "rejected"}
Notes(t) == {i \in DOMAIN history[t] : history[t][i].role = "note"}
RejectsInv(t) ==
    /\ pc[t] \notin Batch \cup {"rejecting"} => rejects[t] = {}
    /\ Cardinality(ToldOf(t)) + Cardinality(rejects[t]) = Cardinality(Bad(t))
    /\ Cardinality(Notes(t)) + (IF rejects[t] = {} THEN 0 ELSE 1) = Cardinality(Spoiled(t))

Fresh(t) == pc[t] = "new" => /\ iter[t] = 0 /\ calls[t] = {} /\ todo[t] = {} /\ rejects[t] = {}
                             /\ history[t] = <<>>

\* A refused call is in no message, whatever became of the turn.
Truthful(t) ==
    \A a \in DOMAIN history[t] : \A c \in calls[t] :
        <<c.iter, c.idx>> \in history[t][a].ids => c.ok

HistoryInv == \A t \in Turns :
    /\ Fresh(t) /\ Truthful(t)
    /\ pc[t] \in Live => CallsInv(t) /\ Honoured(t) /\ AnsweredInv(t) /\ RejectsInv(t)

\* What one step of a turn does to its history.
Own(t) == <<pc[t], iter[t], calls[t], todo[t], rejects[t], history[t], told[t]>>
GoneMove(t) ==
    /\ pc'[t] \notin Live
    /\ history'[t] = <<>> \/ (history'[t] = history[t] /\ calls'[t] = calls[t])
RestMove(t) ==
    /\ UNCHANGED <<iter, calls, todo, rejects, history>>
    /\ told' = told \/ \E kind \in Events \ {"rejected"} : Publish(t, kind)
    /\ pc[t] \in Live /\ pc'[t] \in Live
    /\ pc'[t] \in Streaming => pc[t] \in Streaming
    /\ pc[t] \in Batch <=> (pc'[t] \in Batch \/ (pc[t] = "tools" /\ todo[t] = {}))
    /\ pc'[t] \notin Batch \cup {"rejecting"} => pc[t] \notin Batch \cup {"rejecting"} \/ rejects[t] = {}
OpenMove(t) ==
    /\ UNCHANGED <<calls, todo, rejects, history, told>>
    /\ iter' = [iter EXCEPT ![t] = @ + 1] /\ pc[t] = "loop" /\ pc'[t] = "stream"
TakeMove(t) ==
    /\ pc[t] \in Streaming
    /\ \E S \in SUBSET Idx : \E ok \in SUBSET S, text \in BOOLEAN : TakeCalls(t, S, ok, text)
AnswerMove(t) ==
    /\ pc[t] \in {"handled", "raised"} /\ Answer(t)
    /\ told' = told \/ \E kind \in Events \ {"rejected"} : Publish(t, kind)
RejectMove(t) ==
    /\ pc[t] = "rejecting" /\ Publish(t, "rejected")
    /\ UNCHANGED <<iter, calls, todo>>
    /\ \E i \in rejects[t] :
         /\ rejects' = [rejects EXCEPT ![t] = @ \ {i}]
         /\ IF rejects[t] = {i}
            THEN /\ history' = [history EXCEPT ![t] = Append(@, [role |-> "note", ids |-> {}])]
                 /\ pc'[t] = "loop"
            ELSE history' = history /\ pc'[t] = "rejecting"
Telling(t) ==
    /\ pc'[t] # "new"
    /\ \/ GoneMove(t) \/ RestMove(t) \/ OpenMove(t) \/ TakeMove(t) \/ AnswerMove(t) \/ RejectMove(t)
Apart(t) == \A u \in Turns \ {t} : Own(u)' = Own(u)

\* An event of one turn is not among another's.
LEMMA PublishApart ==
    ASSUME TypeOK, NEW t \in Turns, NEW kind, told' = told \/ Publish(t, kind)
    PROVE  \A u \in Turns \ {t} : told'[u] = told[u]
  BY DEF Publish, TypeOK

\* A turn that ends takes its history with it.
LEMMA LeaveTelling ==
    ASSUME TypeOK, NEW t \in Turns, NEW how \in Ended, Leave(t, how),
           NEW kind, told' = told \/ Publish(t, kind)
    PROVE  Telling(t) /\ Apart(t)
  <1>1. pc'[t] = how /\ how \notin Live /\ how # "new"
    BY DEF Leave, TypeOK, Ended, Live, Before, Looping, Due
  <1>2. \A u \in Turns \ {t} : told'[u] = told[u]
    BY PublishApart
  <1>3. \A u \in Turns \ {t} : /\ pc'[u] = pc[u] /\ iter'[u] = iter[u] /\ calls'[u] = calls[u]
                              /\ todo'[u] = todo[u] /\ rejects'[u] = rejects[u]
                              /\ history'[u] = history[u]
    BY DEF Leave, TypeOK
  <1>4. history'[t] = <<>>
    BY DEF Leave, TypeOK
  <1> QED BY <1>1, <1>2, <1>3, <1>4 DEF Telling, GoneMove, Apart, Own

\* So does one that could not be heard.
LEMMA MuteTelling ==
    ASSUME TypeOK, NEW t \in Turns, Mute(t)
    PROVE  Telling(t) /\ Apart(t)
  BY LeaveTelling DEF Mute, Ended

\* A step that goes somewhere and says something, and touches no local of the history.
LEMMA PlainTelling ==
    ASSUME TypeOK, NEW t \in Turns, NEW label, Goto(t, label), label # "new",
           UNCHANGED <<iter, calls, todo, rejects, history>>,
           told' = told \/ \E kind \in Events \ {"rejected"} : Publish(t, kind),
           \/ label \notin Live
           \/ /\ pc[t] \in Live
              /\ label \in Streaming => pc[t] \in Streaming
              /\ pc[t] \in Batch <=> (label \in Batch \/ (pc[t] = "tools" /\ todo[t] = {}))
              /\ \/ label \in Batch \cup {"rejecting"} \/ pc[t] \notin Batch \cup {"rejecting"}
                 \/ rejects[t] = {}
    PROVE  Telling(t) /\ Apart(t)
  <1>1. pc'[t] = label /\ \A u \in Turns \ {t} : pc'[u] = pc[u]
    BY DEF TypeOK
  <1>2. \A u \in Turns \ {t} : told'[u] = told[u]
    BY PublishApart
  <1>3. Apart(t)
    BY <1>1, <1>2 DEF Apart, Own
  <1>4. CASE label \notin Live
    BY <1>1, <1>3, <1>4 DEF Telling, GoneMove
  <1>5. CASE label \in Live
    BY <1>1, <1>3, <1>5 DEF Telling, RestMove
  <1> QED BY <1>4, <1>5

\* Taking a completion's calls is a turn's own business.
LEMMA TakeTelling ==
    ASSUME TypeOK, NEW t \in Turns, TakeMove(t)
    PROVE  Telling(t) /\ Apart(t)
  <1>1. PICK S \in SUBSET Idx, ok \in SUBSET Idx, text \in BOOLEAN : TakeCalls(t, S, ok, text)
    BY DEF TakeMove
  <1>2. pc'[t] = "tools" /\ \A u \in Turns \ {t} : /\ pc'[u] = pc[u] /\ calls'[u] = calls[u]
                                                  /\ todo'[u] = todo[u] /\ rejects'[u] = rejects[u]
    BY <1>1 DEF TakeCalls, TypeOK
  <1>3. \A u \in Turns \ {t} : history'[u] = history[u] /\ iter'[u] = iter[u] /\ told'[u] = told[u]
    BY <1>1 DEF TakeCalls, TypeOK
  <1> QED BY <1>2, <1>3 DEF Telling, Apart, Own

\* So is answering one of them.
LEMMA AnswerTelling ==
    ASSUME TypeOK, NEW t \in Turns, AnswerMove(t)
    PROVE  Telling(t) /\ Apart(t)
  <1>1. pc'[t] = "tools" /\ \A u \in Turns \ {t} : /\ pc'[u] = pc[u] /\ calls'[u] = calls[u]
                                                  /\ todo'[u] = todo[u] /\ rejects'[u] = rejects[u]
                                                  /\ history'[u] = history[u] /\ iter'[u] = iter[u]
    BY DEF AnswerMove, Answer, TypeOK
  <1>2. \A u \in Turns \ {t} : told'[u] = told[u]
    BY PublishApart DEF AnswerMove
  <1> QED BY <1>1, <1>2 DEF Telling, Apart, Own

\* Every step of a turn does one of these, to its own history only.
LEMMA StepTelling ==
    ASSUME TypeOK, NEW t \in Turns, Request(t) \/ Step(t) \/ Cancel(t)
    PROVE  Telling(t) /\ Apart(t)
  <1> USE DEF Live, Before, Looping, Due, Batch, Streaming, TerminalErrors
  <1>1. CASE Request(t)
    BY <1>1, PlainTelling DEF Request
  <1>2. CASE Acquire(t)
    BY <1>2, PlainTelling DEF Acquire
  <1>3. CASE PersistLead(t)
    BY <1>3, PlainTelling DEF PersistLead
  <1>4. CASE ReadPrompt(t)
    BY <1>4, PlainTelling DEF ReadPrompt
  <1>5. CASE ClosePrompt(t)
    BY <1>5, PlainTelling DEF ClosePrompt
  <1>6. CASE OpenStream(t)
    <2>1. \A u \in Turns \ {t} : Own(u)' = Own(u)
      BY <1>6 DEF OpenStream, TypeOK, Own
    <2>2. pc'[t] = "stream" \/ pc'[t] = "stream_failed"
      BY <1>6 DEF OpenStream, TypeOK
    <2> QED BY <1>6, <2>1, <2>2 DEF OpenStream, Telling, OpenMove, GoneMove, Apart
  <1>7. CASE ReachCap(t)
    BY <1>7, PlainTelling DEF ReachCap
  <1>8. CASE Chunk(t)
    <2>1. "chunk" \in Events \ {"rejected"}
      BY DEF Events
    <2> QED BY <1>8, <2>1, MuteTelling, PlainTelling DEF Chunk
  <1>9. CASE BreakStream(t)
    BY <1>9, PlainTelling DEF BreakStream
  <1>10. CASE EndWithCalls(t)
    <2>1. TakeMove(t)
      BY <1>10 DEF EndWithCalls, TakeMove
    <2> QED BY <2>1, TakeTelling
  <1>11. CASE EndWithFence(t)
    <2>1. TakeMove(t)
      BY <1>11 DEF EndWithFence, TakeMove
    <2> QED BY <2>1, TakeTelling
  <1>12. CASE EndWithProse(t)
    BY <1>12, PlainTelling DEF EndWithProse
  <1>13. CASE EndEmpty(t)
    BY <1>13, PlainTelling DEF EndEmpty
  <1>14. CASE BeginTool(t)
    BY <1>14, PlainTelling DEF BeginTool
  <1>15. CASE CommitTool(t)
    BY <1>15, PlainTelling DEF CommitTool
  <1>16. CASE RaiseInTool(t)
    BY <1>16, PlainTelling DEF RaiseInTool
  <1>17. CASE ReportTool(t)
    <2>1. "update" \in Events \ {"rejected"}
      BY DEF Events
    <2> QED BY <1>17, <2>1, MuteTelling, AnswerTelling DEF ReportTool, AnswerMove
  <1>18. CASE ReportRaise(t)
    <2>1. "handler_error" \in Events \ {"rejected"}
      BY DEF Events
    <2> QED BY <1>18, <2>1, MuteTelling, AnswerTelling DEF ReportRaise, AnswerMove
  <1>19. CASE FinishBatch(t)
    BY <1>19, PlainTelling DEF FinishBatch
  <1>20. CASE ReportReject(t)
    <2>1. CASE Mute(t)
      BY <2>1, MuteTelling
    <2>2. CASE ~Mute(t)
      <3>1. PICK i \in rejects[t] :
              /\ Publish(t, "rejected")
              /\ rejects' = [rejects EXCEPT ![t] = @ \ {i}]
              /\ IF rejects[t] = {i}
                 THEN /\ history' = [history EXCEPT ![t] = Append(@, [role |-> "note", ids |-> {}])]
                      /\ pc' = [pc EXCEPT ![t] = "loop"]
                 ELSE history' = history /\ pc' = pc
              /\ UNCHANGED <<iter, calls, todo>>
        BY <1>20, <2>2 DEF ReportReject
      <3>2. pc[t] = "rejecting" /\ pc'[t] \in {"loop", "rejecting"}
            /\ (pc' = [pc EXCEPT ![t] = "loop"] => pc'[t] = "loop")
        BY <1>20, <3>1 DEF ReportReject, TypeOK
      <3>3. RejectMove(t)
        BY <3>1, <3>2 DEF RejectMove
      <3>4. \A u \in Turns \ {t} : pc'[u] = pc[u] /\ rejects'[u] = rejects[u]
                                   /\ history'[u] = history[u]
        BY <3>1 DEF TypeOK
      <3>5. \A u \in Turns \ {t} : told'[u] = told[u]
        BY <3>1, PublishApart
      <3> QED BY <3>1, <3>2, <3>3, <3>4, <3>5 DEF Telling, Apart, Own
    <2> QED BY <2>1, <2>2
  <1>21. CASE PersistReply(t)
    BY <1>21, PlainTelling DEF PersistReply
  <1>22. CASE Announce(t)
    <2>1. "complete" \in Events \ {"rejected"}
      BY DEF Events
    <2> QED BY <1>22, <2>1, MuteTelling, PlainTelling DEF Announce
  <1>23. CASE ScheduleMemory(t)
    BY <1>23, LeaveTelling DEF ScheduleMemory, Ended
  <1>24. CASE Abort(t)
    BY <1>24, LeaveTelling, MuteTelling DEF Abort, Ended
  <1>25. CASE Crash(t)
    BY <1>25, PlainTelling DEF Crash, Unguarded
  <1>26. CASE ReportCrash(t)
    BY <1>26, LeaveTelling, MuteTelling DEF ReportCrash, Ended
  <1>27. CASE Cancel(t)
    <2>1. CASE Leave(t, "cancelled")
      BY <1>27, <2>1, LeaveTelling DEF Cancel, Ended
    <2>2. CASE ~Leave(t, "cancelled")
      BY <1>27, <2>2, PlainTelling DEF Cancel
    <2> QED BY <2>1, <2>2
  <1>28. CASE BeginLead(t)
    BY <1>28, PlainTelling DEF BeginLead
  <1>29. CASE BeginReply(t)
    BY <1>29, PlainTelling DEF BeginReply
  <1>30. CASE LookUpSpeaker(t)
    BY <1>30, PlainTelling DEF LookUpSpeaker
  <1> QED
    BY <1>1, <1>2, <1>3, <1>4, <1>5, <1>6, <1>7, <1>8, <1>9, <1>10, <1>11, <1>12, <1>13, <1>14,
       <1>15, <1>16, <1>17, <1>18, <1>19, <1>20, <1>21, <1>22, <1>23, <1>24, <1>25, <1>26, <1>27,
       <1>28, <1>29, <1>30 DEF Step, Completion, Dispatch, Finish

\* The other turns' histories stay as they are.
LEMMA HistoryElsewhere ==
    ASSUME NEW u \in Turns, Own(u)' = Own(u)
    PROVE  /\ Fresh(u)' <=> Fresh(u)
           /\ pc'[u] \in Live <=> pc[u] \in Live
           /\ CallsInv(u)' <=> CallsInv(u)
           /\ Honoured(u)' <=> Honoured(u)
           /\ Truthful(u)' <=> Truthful(u)
           /\ AnsweredInv(u)' <=> AnsweredInv(u)
           /\ RejectsInv(u)' <=> RejectsInv(u)
  <1>1. /\ pc'[u] = pc[u] /\ iter'[u] = iter[u] /\ calls'[u] = calls[u] /\ todo'[u] = todo[u]
        /\ rejects'[u] = rejects[u] /\ history'[u] = history[u] /\ told'[u] = told[u]
    BY DEF Own
  <1>2. CallsInv(u)' <=> CallsInv(u)
    BY <1>1 DEF CallsInv
  <1>3. Honoured(u)' <=> Honoured(u)
    BY <1>1 DEF Honoured
  <1>4. \A id : Open(u, id)' <=> Open(u, id)
    BY <1>1 DEF Open
  <1>5. AnsweredInv(u)' <=> AnsweredInv(u)
    BY <1>1, <1>4 DEF AnsweredInv
  <1>6. RejectsInv(u)' <=> RejectsInv(u)
    BY <1>1 DEF RejectsInv, ToldOf, Notes, Bad, Spoiled
  <1>7. Truthful(u)' <=> Truthful(u)
    BY <1>1 DEF Truthful
  <1> QED BY <1>1, <1>2, <1>3, <1>5, <1>6, <1>7 DEF Fresh

\* The history after one more message.
LEMMA HistoryGrows ==
    ASSUME TypeOK, NEW t \in Turns, NEW role \in {"assistant", "tool", "note"},
           NEW ids \in SUBSET CallIds,
           history' = [history EXCEPT ![t] = Append(@, [role |-> role, ids |-> ids])]
    PROVE  /\ Len(history[t]) \in Nat /\ DOMAIN history[t] = 1..Len(history[t])
           /\ Len(history'[t]) = Len(history[t]) + 1
           /\ DOMAIN history'[t] = 1..(Len(history[t]) + 1)
           /\ \A i \in 1..Len(history[t]) : history'[t][i] = history[t][i]
           /\ history'[t][Len(history[t]) + 1].role = role
           /\ history'[t][Len(history[t]) + 1].ids = ids
  <1>1. PICK m : m = [role |-> role, ids |-> ids]
    OBVIOUS
  <1>2. PICK M : M = Messages
    OBVIOUS
  <1>3. m \in M /\ m.role = role /\ m.ids = ids
    BY <1>1, <1>2 DEF Messages
  <1>4. history[t] \in Seq(M) /\ history'[t] = Append(history[t], m)
    BY <1>1, <1>2 DEF TypeOK
  <1>5. Len(history'[t]) = Len(history[t]) + 1
    BY <1>3, <1>4
  <1> QED BY <1>3, <1>4, <1>5, AppendElements

\* What is said of a history stays so when a message is added, and the answer
\* that is added follows every message nothing but answers came after.
LEMMA AnswersGrow ==
    ASSUME NEW h, NEW g, NEW n \in Nat, Len(h) = n, Len(g) = n + 1, NEW a \in 1..n,
           \A i \in 1..n : g[i] = h[i]
    PROVE  /\ \A b \in 1..n : AnswersIn(g, a, b) <=> AnswersIn(h, a, b)
           /\ \A id : Follows(h, a, id) => Follows(g, a, id)
           /\ g[n + 1].role = "tool" /\ Trailing(h, a) =>
                /\ Trailing(g, a) /\ AnswersIn(g, a, n + 1)
                /\ \A id : g[n + 1].ids = {id} => Follows(g, a, id)
  <1>1. \A b \in 1..n : \A k \in (a + 1)..b : k \in 1..n
    OBVIOUS
  <1>2. \A b \in 1..n : AnswersIn(g, a, b) <=> AnswersIn(h, a, b)
    BY <1>1 DEF AnswersIn
  <1>3. \A id : Follows(h, a, id) => Follows(g, a, id)
    <2> SUFFICES ASSUME NEW id, Follows(h, a, id) PROVE Follows(g, a, id)
      OBVIOUS
    <2>1. PICK b \in (a + 1)..n : h[b].ids = {id} /\ AnswersIn(h, a, b)
      BY DEF Follows
    <2>2. b \in 1..n /\ b \in (a + 1)..(n + 1)
      OBVIOUS
    <2> QED BY <1>2, <2>1, <2>2 DEF Follows
  <1>4. ASSUME g[n + 1].role = "tool", Trailing(h, a)
        PROVE  /\ Trailing(g, a) /\ AnswersIn(g, a, n + 1)
               /\ \A id : g[n + 1].ids = {id} => Follows(g, a, id)
    <2>1. \A k \in (a + 1)..(n + 1) : (k \in (a + 1)..n /\ k \in 1..n) \/ k = n + 1
      OBVIOUS
    <2>2. \A k \in (a + 1)..(n + 1) : g[k].role = "tool"
      BY <1>4, <2>1 DEF Trailing
    <2>3. n + 1 \in (a + 1)..(n + 1)
      OBVIOUS
    <2> QED BY <1>4, <2>2, <2>3 DEF Trailing, AnswersIn, Follows
  <1> QED BY <1>2, <1>3, <1>4

\* A message that opens no call leaves the answered ones answered.
LEMMA AnsweredGrows ==
    ASSUME TypeOK, NEW t \in Turns, NEW role \in {"assistant", "note"},
           NEW ids \in SUBSET CallIds,
           history' = [history EXCEPT ![t] = Append(@, [role |-> role, ids |-> ids])],
           AnsweredInv(t), pc[t] \notin Batch,
           role = "assistant" => \A id \in ids : Open(t, id)',
           \A id \in CallIds : Open(t, id)' =>
               /\ role = "assistant" /\ id \in ids
               /\ \A b \in DOMAIN history[t] : history[t][b].role = "tool" => history[t][b].ids # {id}
    PROVE  AnsweredInv(t)'
  <1> DEFINE h == history[t]
             g == history'[t]
             n == Len(history[t])
  <1>1. /\ n \in Nat /\ DOMAIN h = 1..n /\ Len(g) = n + 1 /\ DOMAIN g = 1..(n + 1)
        /\ \A i \in 1..n : g[i] = h[i]
        /\ g[n + 1].role = role /\ g[n + 1].ids = ids
    BY HistoryGrows
  <1>2. \A a \in 1..n : /\ \A b \in 1..n : AnswersIn(g, a, b) <=> AnswersIn(h, a, b)
                       /\ \A id : Follows(h, a, id) => Follows(g, a, id)
    BY <1>1, AnswersGrow
  <1>3. \A id : ~Open(t, id)
    BY DEF Open
  <1>4. Trailing(g, n + 1)
    BY <1>1 DEF Trailing
  <1>5. \A a \in 1..(n + 1) : a \in 1..n \/ a = n + 1
    BY <1>1
  <1>6. n + 1 \in 1..(n + 1) /\ \A b \in 1..n : b \in 1..(n + 1)
    BY <1>1
  <1>7. \A a \in DOMAIN g : g[a].role = "assistant" =>
          \A id \in g[a].ids : Follows(g, a, id) \/ (Open(t, id)' /\ Trailing(g, a))
    <2> SUFFICES ASSUME NEW a \in DOMAIN g, g[a].role = "assistant", NEW id \in g[a].ids
                 PROVE  Follows(g, a, id) \/ (Open(t, id)' /\ Trailing(g, a))
      OBVIOUS
    <2>1. CASE a \in 1..n
      <3>1. Follows(h, a, id)
        BY <1>1, <1>3, <2>1 DEF AnsweredInv
      <3> QED BY <1>2, <2>1, <3>1
    <2>2. CASE a = n + 1
      BY <1>1, <1>4, <2>2
    <2> QED BY <1>1, <1>5, <2>1, <2>2
  <1>8. \A b \in DOMAIN g : g[b].role = "tool" => b \in 1..n /\ h[b].role = "tool" /\ g[b] = h[b]
    BY <1>1, <1>5
  <1>9. \A b \in DOMAIN g : g[b].role = "tool" =>
          \E a \in 1..(b - 1) : \E id \in g[a].ids :
             g[a].role = "assistant" /\ g[b].ids = {id} /\ AnswersIn(g, a, b)
    <2> SUFFICES ASSUME NEW b \in DOMAIN g, g[b].role = "tool"
                 PROVE  \E a \in 1..(b - 1) : \E id \in g[a].ids :
                          g[a].role = "assistant" /\ g[b].ids = {id} /\ AnswersIn(g, a, b)
      OBVIOUS
    <2>0. PICK a \in 1..(b - 1) : \E id \in h[a].ids :
            h[a].role = "assistant" /\ h[b].ids = {id} /\ AnswersIn(h, a, b)
      BY <1>1, <1>8 DEF AnsweredInv
    <2>1. PICK id \in h[a].ids :
            h[a].role = "assistant" /\ h[b].ids = {id} /\ AnswersIn(h, a, b)
      BY <2>0
    <2>2. a \in 1..n /\ g[a] = h[a]
      BY <1>1, <1>8
    <2> QED BY <1>2, <1>8, <2>1, <2>2
  <1>10. \A b, c \in DOMAIN g :
          g[b].role = "tool" /\ g[c].role = "tool" /\ g[b].ids = g[c].ids => b = c
    BY <1>1, <1>8 DEF AnsweredInv
  <1>11. \A id \in CallIds : Open(t, id)' =>
         /\ \E a \in DOMAIN g : g[a].role = "assistant" /\ id \in g[a].ids /\ Trailing(g, a)
         /\ \A b \in DOMAIN g : g[b].role = "tool" => g[b].ids # {id}
    <2> SUFFICES ASSUME NEW id \in CallIds, Open(t, id)'
                 PROVE  /\ \E a \in DOMAIN g : g[a].role = "assistant" /\ id \in g[a].ids /\ Trailing(g, a)
                        /\ \A b \in DOMAIN g : g[b].role = "tool" => g[b].ids # {id}
      OBVIOUS
    <2>1. role = "assistant" /\ id \in ids
      OBVIOUS
    <2>2. \A b \in DOMAIN g : g[b].role = "tool" => g[b].ids # {id}
      BY <1>1, <1>8
    <2> QED BY <1>1, <1>4, <1>6, <2>1, <2>2
  <1> QED BY <1>7, <1>9, <1>10, <1>11 DEF AnsweredInv

\* Nothing is said: the answered calls and the open ones are the same.
LEMMA AnsweredStays ==
    ASSUME NEW t \in Turns, history'[t] = history[t], AnsweredInv(t),
           \A id : Open(t, id)' <=> Open(t, id)
    PROVE  AnsweredInv(t)'
  BY DEF AnsweredInv

\* The answer to the call in hand closes that call and no other.
LEMMA AnsweredAnswer ==
    ASSUME TypeOK, NEW t \in Turns, AnswerMove(t), AnsweredInv(t), iter[t] \in 1..MaxIter
    PROVE  AnsweredInv(t)'
  <1> DEFINE h == history[t]
             g == history'[t]
             n == Len(history[t])
  <1>0. PICK i \in NextCalls(t) :
          /\ history' = [history EXCEPT ![t] = Append(@, [role |-> "tool", ids |-> {Id(t, i)}])]
          /\ todo' = [todo EXCEPT ![t] = @ \ {i}]
          /\ pc' = [pc EXCEPT ![t] = "tools"]
          /\ iter' = iter
    BY DEF AnswerMove, Answer
  <1> DEFINE now == Id(t, i)
  <1>1. i \in todo[t] /\ now \in CallIds /\ pc[t] \in Batch
    BY DEF NextCalls, TypeOK, CallIds, AnswerMove, Batch
  <1>2. Open(t, now)
    BY <1>1 DEF Open
  <1>3. \A id : Open(t, id)' <=> (Open(t, id) /\ id # now)
    BY <1>0, <1>1 DEF Open, TypeOK, Batch
  <1>4. {now} \in SUBSET CallIds
    BY <1>1
  <1>5. /\ n \in Nat /\ DOMAIN h = 1..n /\ Len(g) = n + 1 /\ DOMAIN g = 1..(n + 1)
        /\ \A k \in 1..n : g[k] = h[k]
        /\ g[n + 1].role = "tool" /\ g[n + 1].ids = {now}
    BY <1>0, <1>4, HistoryGrows
  <1>6. \A a \in 1..n :
          /\ \A b \in 1..n : AnswersIn(g, a, b) <=> AnswersIn(h, a, b)
          /\ \A id : Follows(h, a, id) => Follows(g, a, id)
          /\ Trailing(h, a) => /\ Trailing(g, a) /\ AnswersIn(g, a, n + 1)
                               /\ Follows(g, a, now)
    BY <1>5, AnswersGrow
  <1>7. \A a \in 1..(n + 1) : a \in 1..n \/ a = n + 1
    BY <1>5
  <1>8. n + 1 \in 1..(n + 1) /\ (\A b \in 1..n : b \in 1..(n + 1) /\ b \in 1..(n + 1 - 1))
    BY <1>5
  <1> HIDE DEF now, h, g, n
  <1>9. \A a \in DOMAIN g : g[a].role = "assistant" =>
          \A id \in g[a].ids : Follows(g, a, id) \/ (Open(t, id)' /\ Trailing(g, a))
    <2> SUFFICES ASSUME NEW a \in DOMAIN g, g[a].role = "assistant", NEW id \in g[a].ids
                 PROVE  Follows(g, a, id) \/ (Open(t, id)' /\ Trailing(g, a))
      OBVIOUS
    <2>1. a \in 1..n /\ g[a] = h[a]
      BY <1>5, <1>7
    <2>2. Follows(h, a, id) \/ (Open(t, id) /\ Trailing(h, a))
      BY <1>5, <2>1 DEF AnsweredInv, h
    <2>3. CASE Follows(h, a, id)
      BY <1>6, <2>1, <2>3
    <2>4. CASE Open(t, id) /\ Trailing(h, a)
      BY <1>3, <1>6, <2>1, <2>4
    <2> QED BY <2>2, <2>3, <2>4
  <1>10. \A b \in DOMAIN g : g[b].role = "tool" =>
          \E a \in 1..(b - 1) : \E id \in g[a].ids :
             g[a].role = "assistant" /\ g[b].ids = {id} /\ AnswersIn(g, a, b)
    <2> SUFFICES ASSUME NEW b \in DOMAIN g, g[b].role = "tool"
                 PROVE  \E a \in 1..(b - 1) : \E id \in g[a].ids :
                          g[a].role = "assistant" /\ g[b].ids = {id} /\ AnswersIn(g, a, b)
      OBVIOUS
    <2>1. CASE b \in 1..n
      <3>1. PICK a \in 1..(b - 1) : \E id \in h[a].ids :
              h[a].role = "assistant" /\ h[b].ids = {id} /\ AnswersIn(h, a, b)
        BY <1>5, <2>1 DEF AnsweredInv, h
      <3>2. a \in 1..n
        BY <1>5, <2>1
      <3> QED BY <1>5, <1>6, <2>1, <3>1, <3>2
    <2>2. CASE b = n + 1
      <3>1. PICK a \in DOMAIN h : h[a].role = "assistant" /\ now \in h[a].ids /\ Trailing(h, a)
        BY <1>1, <1>2 DEF AnsweredInv, now, h
      <3>2. a \in 1..n /\ g[a] = h[a] /\ a \in 1..(b - 1)
        BY <1>5, <1>8, <2>2, <3>1
      <3> QED BY <1>5, <1>6, <2>2, <3>1, <3>2
    <2> QED BY <1>5, <1>7, <2>1, <2>2
  <1>11. \A b \in 1..n : h[b].role = "tool" => h[b].ids # {now}
    BY <1>1, <1>2, <1>5 DEF AnsweredInv, now, h
  <1>12. \A b, c \in DOMAIN g :
          g[b].role = "tool" /\ g[c].role = "tool" /\ g[b].ids = g[c].ids => b = c
    <2> SUFFICES ASSUME NEW b \in DOMAIN g, NEW c \in DOMAIN g,
                        g[b].role = "tool", g[c].role = "tool", g[b].ids = g[c].ids
                 PROVE  b = c
      OBVIOUS
    <2>1. CASE b \in 1..n /\ c \in 1..n
      BY <1>5, <2>1 DEF AnsweredInv, h
    <2>2. CASE b = n + 1 \/ c = n + 1
      BY <1>5, <1>7, <1>11, <2>2
    <2> QED BY <1>5, <1>7, <2>1, <2>2
  <1>13. \A id \in CallIds : Open(t, id)' =>
         /\ \E a \in DOMAIN g : g[a].role = "assistant" /\ id \in g[a].ids /\ Trailing(g, a)
         /\ \A b \in DOMAIN g : g[b].role = "tool" => g[b].ids # {id}
    <2> SUFFICES ASSUME NEW id \in CallIds, Open(t, id)'
                 PROVE  /\ \E a \in DOMAIN g : g[a].role = "assistant" /\ id \in g[a].ids /\ Trailing(g, a)
                        /\ \A b \in DOMAIN g : g[b].role = "tool" => g[b].ids # {id}
      OBVIOUS
    <2>1. Open(t, id) /\ id # now
      BY <1>3
    <2>2. PICK a \in DOMAIN h : h[a].role = "assistant" /\ id \in h[a].ids /\ Trailing(h, a)
      BY <2>1 DEF AnsweredInv, h
    <2>3. a \in 1..n /\ g[a] = h[a] /\ a \in DOMAIN g
      BY <1>5, <1>8, <2>2
    <2>4. \A b \in DOMAIN h : h[b].role = "tool" => h[b].ids # {id}
      BY <2>1 DEF AnsweredInv, h
    <2>5. \A b \in DOMAIN g : g[b].role = "tool" => g[b].ids # {id}
      BY <1>5, <1>7, <2>1, <2>4
    <2> QED BY <1>6, <2>2, <2>3, <2>5
  <1> QED BY <1>9, <1>10, <1>12, <1>13 DEF AnsweredInv, g

\* A completion's calls are new: none of them has been answered.
LEMMA AnsweredTake ==
    ASSUME TypeOK, NEW t \in Turns, TakeMove(t), AnsweredInv(t), CallsInv(t), Honoured(t),
           iter[t] \in 1..MaxIter
    PROVE  AnsweredInv(t)'
  <1>1. PICK S \in SUBSET Idx, ok \in SUBSET Idx, text \in BOOLEAN : TakeCalls(t, S, ok, text)
    BY DEF TakeMove
  <1> DEFINE ids == {Id(t, i) : i \in ok}
  <1>2. todo'[t] = ok /\ pc'[t] = "tools" /\ iter'[t] = iter[t] /\ pc[t] \notin Batch /\ pc[t] \in Streaming
    BY <1>1 DEF TakeCalls, TakeMove, TypeOK, Streaming, Batch
  <1>3. \A id : Open(t, id)' <=> id \in ids
    BY <1>2 DEF Open, Batch
  <1>4. ids \in SUBSET CallIds
    BY DEF CallIds
  <1>5. CASE history' = [history EXCEPT ![t] = Append(@, [role |-> "assistant", ids |-> ids])]
    <2>1. ASSUME NEW id \in ids, NEW b \in DOMAIN history[t], history[t][b].ids = {id}
          PROVE  FALSE
      <3>1. PICK c \in calls[t] : id = <<c.iter, c.idx>>
        BY <2>1 DEF Honoured
      <3>2. c.iter < iter[t] /\ c.iter \in Nat
        BY <1>2 DEF CallsInv, TypeOK, Calls
      <3>3. PICK i \in ok : id = <<iter[t], i>>
        OBVIOUS
      <3> QED BY <3>1, <3>2, <3>3 DEF TypeOK
    <2> HIDE DEF ids
    <2> QED BY <1>2, <1>3, <1>4, <1>5, <2>1, AnsweredGrows
  <1>6. CASE history' = history /\ ok = {}
    <2>1. \A id : ~Open(t, id) /\ ~Open(t, id)'
      BY <1>2, <1>3, <1>6 DEF Open
    <2> QED BY <1>6, <2>1, AnsweredStays
  <1> QED BY <1>1, <1>5, <1>6 DEF TakeCalls, Honourable

\* So every step of a turn leaves its calls answered once or about to be.
LEMMA AnsweredStep ==
    ASSUME TypeOK, LoopInv, NEW t \in Turns, Telling(t), ~GoneMove(t),
           AnsweredInv(t), CallsInv(t), Honoured(t)
    PROVE  AnsweredInv(t)'
  <1>1. CASE RestMove(t)
    <2>1. history'[t] = history[t] /\ todo'[t] = todo[t] /\ iter'[t] = iter[t]
      BY <1>1 DEF RestMove
    <2>2. \A id : Open(t, id)' <=> Open(t, id)
      BY <1>1, <2>1 DEF RestMove, Open, Batch
    <2> QED BY <2>1, <2>2, AnsweredStays
  <1>2. CASE OpenMove(t)
    <2>1. \A id : ~Open(t, id)' /\ ~Open(t, id)
      BY <1>2 DEF OpenMove, Open, Batch
    <2> QED BY <1>2, <2>1, AnsweredStays DEF OpenMove
  <1>3. CASE TakeMove(t)
    <2>1. iter[t] \in 1..MaxIter
      BY <1>3 DEF TakeMove, LoopInv, TypeOK, Streaming
    <2> QED BY <1>3, <2>1, AnsweredTake
  <1>4. CASE AnswerMove(t)
    <2>1. iter[t] \in 1..MaxIter
      BY <1>4 DEF AnswerMove, LoopInv, TypeOK
    <2> QED BY <1>4, <2>1, AnsweredAnswer
  <1>5. CASE RejectMove(t)
    <2>1. \A id : ~Open(t, id)' /\ ~Open(t, id)
      BY <1>5 DEF RejectMove, Open, Batch
    <2>2. CASE history' = history
      BY <2>1, <2>2, AnsweredStays
    <2>3. CASE history' = [history EXCEPT ![t] = Append(@, [role |-> "note", ids |-> {}])]
      <3>1. pc[t] \notin Batch
        BY <1>5 DEF RejectMove, Batch
      <3>2. PICK none \in SUBSET CallIds : none = {}
        OBVIOUS
      <3>3. history' = [history EXCEPT ![t] = Append(@, [role |-> "note", ids |-> none])]
        BY <2>3, <3>2
      <3>4. PICK role \in {"assistant", "note"} : role = "note"
        OBVIOUS
      <3> QED BY <2>1, <3>1, <3>2, <3>3, <3>4, AnsweredGrows
    <2> QED BY <1>5, <2>2, <2>3 DEF RejectMove
  <1> QED BY <1>1, <1>2, <1>3, <1>4, <1>5 DEF Telling

\* The calls a completion asks for.
LEMMA AskedCalls ==
    ASSUME TypeOK, NEW t \in Turns, NEW S \in SUBSET Idx, NEW ok \in SUBSET S
    PROVE  /\ IsFiniteSet(S) /\ IsFiniteSet(S \ ok)
           /\ IsFiniteSet(Asked(t, S, ok))
           /\ \A c \in Asked(t, S, ok) : c.iter = iter[t] /\ c.idx \in S /\ (c.ok <=> c.idx \in ok)
           /\ \A c, d \in Asked(t, S, ok) : c.idx = d.idx => c = d
  <1>1. IsFiniteSet(S) /\ IsFiniteSet(S \ ok)
    <2>1. IsFiniteSet(Idx)
      BY BoundsAssumption, FS_Interval DEF Idx
    <2> QED BY <2>1, FS_Subset
  <1> DEFINE f == [i \in S |-> [iter |-> iter[t], idx |-> i, ok |-> i \in ok]]
  <1>2. f \in Surjection(S, Asked(t, S, ok))
    BY Zenon DEF Surjection, Asked
  <1>3. IsFiniteSet(Asked(t, S, ok))
    BY <1>1, <1>2, FS_Surjection
  <1>4. \A c \in Asked(t, S, ok) : \E i \in S : c = [iter |-> iter[t], idx |-> i, ok |-> i \in ok]
    BY Zenon DEF Asked
  <1>6. ASSUME NEW c \in Asked(t, S, ok)
        PROVE  c.iter = iter[t] /\ c.idx \in S /\ (c.ok <=> c.idx \in ok)
    <2>1. PICK i \in S : c = [iter |-> iter[t], idx |-> i, ok |-> i \in ok]
      BY <1>4
    <2>2. PICK b : b = (i \in ok)
      OBVIOUS
    <2>3. c = [iter |-> iter[t], idx |-> i, ok |-> b]
      BY <2>1, <2>2, Zenon
    <2>4. c.iter = iter[t] /\ c.idx = i /\ c.ok = b
      BY <2>3
    <2> QED BY <2>2, <2>4, Zenon
  <1>8. ASSUME NEW c \in Asked(t, S, ok), NEW d \in Asked(t, S, ok), c.idx = d.idx
        PROVE  c = d
    <2>1. PICK i \in S : c = [iter |-> iter[t], idx |-> i, ok |-> i \in ok]
      BY <1>4
    <2>2. PICK j \in S : d = [iter |-> iter[t], idx |-> j, ok |-> j \in ok]
      BY <1>4
    <2>3. c.idx = i
      BY <2>1, Zenon
    <2>4. d.idx = j
      BY <2>2, Zenon
    <2> QED BY <1>8, <2>1, <2>2, <2>3, <2>4, Zenon
  <1> QED BY <1>1, <1>3, <1>6, <1>8

\* Every honoured call is asked for as such.
LEMMA AskedHonoured ==
    ASSUME NEW t \in Turns, NEW S \in SUBSET Idx, NEW ok \in SUBSET S, NEW i \in ok
    PROVE  \E c \in Asked(t, S, ok) : c.iter = iter[t] /\ c.idx = i /\ c.ok
  <1>1. PICK c : c = [iter |-> iter[t], idx |-> i, ok |-> TRUE]
    OBVIOUS
  <1>2. c.iter = iter[t] /\ c.idx = i /\ c.ok = TRUE
    BY <1>1
  <1>3. i \in S /\ (i \in ok) = TRUE
    OBVIOUS
  <1>4. c = [iter |-> iter[t], idx |-> i, ok |-> i \in ok]
    BY <1>1, <1>3, Zenon
  <1>5. c \in Asked(t, S, ok)
    BY <1>3, <1>4, Zenon DEF Asked
  <1> QED BY <1>2, <1>5, Zenon

\* Calls keep being known by their completion and place.
LEMMA CallsStep ==
    ASSUME TypeOK, NEW t \in Turns, Telling(t), ~GoneMove(t), CallsInv(t)
    PROVE  CallsInv(t)'
  <1>0. /\ iter[t] \in Nat
        /\ \A c \in calls[t] : c.iter \in Nat
    BY DEF TypeOK, Calls
  <1>1. CASE RestMove(t)
    BY <1>1 DEF RestMove, CallsInv
  <1>2. CASE OpenMove(t)
    <2>1. iter'[t] = iter[t] + 1 /\ calls' = calls
      BY <1>2 DEF OpenMove, TypeOK
    <2>2. \A c \in calls[t] : c.iter <= iter[t] + 1 /\ c.iter < iter[t] + 1
      BY <1>0 DEF CallsInv
    <2> QED BY <2>1, <2>2 DEF CallsInv
  <1>3. CASE TakeMove(t)
    <2>1. PICK S \in SUBSET Idx : \E ok \in SUBSET S, text \in BOOLEAN : TakeCalls(t, S, ok, text)
      BY <1>3 DEF TakeMove
    <2>2. PICK ok \in SUBSET S, text \in BOOLEAN : TakeCalls(t, S, ok, text)
      BY <2>1
    <2>3. calls'[t] = calls[t] \cup Asked(t, S, ok) /\ iter' = iter /\ pc'[t] = "tools"
      BY <2>2 DEF TakeCalls, TypeOK
    <2>4. \A c \in calls[t] : c.iter < iter[t]
      BY <1>3 DEF TakeMove, CallsInv
    <2>5. /\ IsFiniteSet(Asked(t, S, ok))
          /\ \A c \in Asked(t, S, ok) : c.iter = iter[t]
          /\ \A c, d \in Asked(t, S, ok) : c.idx = d.idx => c = d
      BY AskedCalls
    <2>6. IsFiniteSet(calls'[t])
      <3>1. IsFiniteSet(calls[t])
        BY DEF CallsInv
      <3>2. IsFiniteSet(calls[t] \cup Asked(t, S, ok))
        BY <2>5, <3>1, FS_Union
      <3> QED BY <2>3, <3>2
    <2>7. "tools" \notin Streaming
      BY DEF Streaming
    <2>8. \A c \in calls'[t] : c.iter <= iter[t]
      BY <1>0, <2>3, <2>4, <2>5
    <2>9. \A c, d \in calls'[t] : c.iter = d.iter /\ c.idx = d.idx => c = d
      <3> SUFFICES ASSUME NEW c \in calls'[t], NEW d \in calls'[t], c.iter = d.iter, c.idx = d.idx
                   PROVE  c = d
        OBVIOUS
      <3>1. CASE c \in calls[t] /\ d \in calls[t]
        BY <3>1 DEF CallsInv
      <3>2. CASE c \in Asked(t, S, ok) /\ d \in Asked(t, S, ok)
        BY <2>5, <3>2
      <3>3. ~(iter[t] < iter[t])
        BY <1>0
      <3> QED BY <2>3, <2>4, <2>5, <3>1, <3>2, <3>3
    <2> QED BY <2>3, <2>6, <2>7, <2>8, <2>9 DEF CallsInv
  <1>4. CASE AnswerMove(t) \/ RejectMove(t)
    <2>1. iter' = iter /\ calls' = calls /\ pc'[t] \notin Streaming
      BY <1>4 DEF AnswerMove, Answer, RejectMove, TypeOK, Streaming
    <2> QED BY <2>1 DEF CallsInv
  <1> QED BY <1>1, <1>2, <1>3, <1>4 DEF Telling

\* The history keeps naming honoured calls only.
LEMMA HonouredStep ==
    ASSUME TypeOK, LoopInv, NEW t \in Turns, Telling(t), ~GoneMove(t), AnsweredInv(t), Honoured(t)
    PROVE  Honoured(t)'
  <1>1. CASE RestMove(t) \/ OpenMove(t)
    BY <1>1 DEF RestMove, OpenMove, Honoured
  <1>2. ASSUME NEW role \in {"assistant", "tool", "note"}, NEW ids \in SUBSET CallIds,
               history' = [history EXCEPT ![t] = Append(@, [role |-> role, ids |-> ids])],
               calls[t] \subseteq calls'[t],
               \A id \in ids : \E c \in calls'[t] : id = <<c.iter, c.idx>> /\ c.ok
        PROVE  Honoured(t)'
    <2> DEFINE n == Len(history[t])
    <2>1. /\ n \in Nat /\ DOMAIN history[t] = 1..n /\ DOMAIN history'[t] = 1..(n + 1)
          /\ \A i \in 1..n : history'[t][i] = history[t][i]
          /\ history'[t][n + 1].ids = ids
      BY <1>2, HistoryGrows
    <2>2. \A a \in 1..(n + 1) : a \in 1..n \/ a = n + 1
      BY <2>1
    <2> HIDE DEF n
    <2> QED BY <1>2, <2>1, <2>2 DEF Honoured
  <1>3. CASE TakeMove(t)
    <2>1. PICK S \in SUBSET Idx : \E ok \in SUBSET S, text \in BOOLEAN : TakeCalls(t, S, ok, text)
      BY <1>3 DEF TakeMove
    <2>2. PICK ok \in SUBSET S, text \in BOOLEAN : TakeCalls(t, S, ok, text)
      BY <2>1
    <2>3. calls'[t] = calls[t] \cup Asked(t, S, ok)
      BY <2>2 DEF TakeCalls, TypeOK
    <2>4. PICK ids \in SUBSET CallIds : ids = {Id(t, i) : i \in ok}
      <3>1. iter[t] \in 1..MaxIter
        BY <1>3 DEF TakeMove, LoopInv, TypeOK, Streaming
      <3>2. \A i \in ok : Id(t, i) \in CallIds
        BY <3>1 DEF CallIds
      <3>3. {Id(t, i) : i \in ok} \in SUBSET CallIds
        BY <3>2
      <3> QED BY <3>3
    <2>5. ASSUME NEW id \in ids
          PROVE  \E c \in calls'[t] : id = <<c.iter, c.idx>> /\ c.ok
      <3>1. PICK i \in ok : id = <<iter[t], i>>
        BY <2>4
      <3>0. i \in S
        OBVIOUS
      <3>2. \E c \in Asked(t, S, ok) : c.iter = iter[t] /\ c.idx = i /\ c.ok
        BY <3>0, AskedHonoured
      <3> QED BY <2>3, <3>1, <3>2
    <2>6. CASE history' = history
      BY <2>3, <2>6 DEF Honoured
    <2>7. CASE history' = [history EXCEPT ![t] = Append(@, [role |-> "assistant", ids |-> ids])]
      BY <1>2, <2>3, <2>5, <2>7
    <2> QED BY <2>2, <2>4, <2>6, <2>7 DEF TakeCalls, Honourable
  <1>4. CASE AnswerMove(t)
    <2>1. PICK i \in NextCalls(t) :
            history' = [history EXCEPT ![t] = Append(@, [role |-> "tool", ids |-> {Id(t, i)}])]
      BY <1>4 DEF AnswerMove, Answer
    <2>2. i \in todo[t] /\ Id(t, i) \in CallIds /\ calls' = calls /\ pc[t] \in Batch
      BY <1>4 DEF NextCalls, AnswerMove, Answer, LoopInv, TypeOK, CallIds, Batch
    <2>3. Open(t, Id(t, i))
      BY <2>2 DEF Open
    <2>4. \E a \in DOMAIN history[t] : Id(t, i) \in history[t][a].ids
      BY <2>2, <2>3 DEF AnsweredInv
    <2>5. \E c \in calls'[t] : Id(t, i) = <<c.iter, c.idx>> /\ c.ok
      BY <2>2, <2>4 DEF Honoured
    <2>6. PICK ids \in SUBSET CallIds : ids = {Id(t, i)}
      BY <2>2
    <2> QED BY <1>2, <2>1, <2>2, <2>5, <2>6
  <1>5. CASE RejectMove(t)
    <2>1. calls' = calls
      BY <1>5 DEF RejectMove
    <2>2. CASE history' = history
      BY <2>1, <2>2 DEF Honoured
    <2>3. CASE history' = [history EXCEPT ![t] = Append(@, [role |-> "note", ids |-> {}])]
      <3>1. PICK none \in SUBSET CallIds : none = {}
        OBVIOUS
      <3>2. PICK role \in {"assistant", "tool", "note"} : role = "note"
        OBVIOUS
      <3> QED BY <1>2, <2>1, <2>3, <3>1, <3>2
    <2> QED BY <1>5, <2>2, <2>3 DEF RejectMove
  <1> QED BY <1>1, <1>3, <1>4, <1>5 DEF Telling

\* And every rejected one.
LEMMA AskedRejected ==
    ASSUME NEW t \in Turns, NEW S \in SUBSET Idx, NEW ok \in SUBSET S, NEW i \in S \ ok
    PROVE  \E c \in Asked(t, S, ok) : c.iter = iter[t] /\ c.idx = i /\ ~c.ok
  <1>1. PICK c : c = [iter |-> iter[t], idx |-> i, ok |-> FALSE]
    OBVIOUS
  <1>2. c.iter = iter[t] /\ c.idx = i /\ c.ok = FALSE
    BY <1>1
  <1>3. i \in S /\ (i \in ok) = FALSE
    OBVIOUS
  <1>4. c = [iter |-> iter[t], idx |-> i, ok |-> i \in ok]
    BY <1>1, <1>3, Zenon
  <1>5. c \in Asked(t, S, ok)
    BY <1>3, <1>4, Zenon DEF Asked
  <1> QED BY <1>2, <1>5, Zenon

\* A mark that is added to the marked places of a sequence counts one more.
LEMMA OneMore ==
    ASSUME NEW n \in Nat, NEW A, A \subseteq 1..n
    PROVE  /\ IsFiniteSet(A) /\ Cardinality(A) \in Nat
           /\ Cardinality(A \cup {n + 1}) = Cardinality(A) + 1
  <1>1. IsFiniteSet(1..n) /\ A \in SUBSET (1..n) /\ n + 1 \notin A
    BY FS_Interval
  <1>2. IsFiniteSet(A)
    BY <1>1, FS_Subset
  <1> QED BY <1>1, <1>2, FS_CardinalityType, FS_AddElement

\* The rejections the table has been told of are counted.
LEMMA ToldCount ==
    ASSUME TypeOK, NEW t \in Turns
    PROVE  /\ Cardinality(ToldOf(t)) \in Nat
           /\ told' = told \/ (\E kind \in Events \ {"rejected"} : Publish(t, kind)) =>
                ToldOf(t)' = ToldOf(t)
           /\ Publish(t, "rejected") => Cardinality(ToldOf(t)') = Cardinality(ToldOf(t)) + 1
  <1>0. Len(told[t]) \in Nat /\ DOMAIN told[t] = 1..Len(told[t])
    BY DEF TypeOK
  <1>1. ToldOf(t) \subseteq 1..Len(told[t])
    BY <1>0 DEF ToldOf
  <1>2. Cardinality(ToldOf(t)) \in Nat
    BY <1>0, <1>1, OneMore
  <1>3. ASSUME NEW kind \in Events \ {"rejected"}, Publish(t, kind)
        PROVE  ToldOf(t)' = ToldOf(t)
    <2>1. /\ \A i \in DOMAIN told[t] : told'[t][i] = told[t][i] /\ i \in DOMAIN told'[t]
          /\ \A i \in DOMAIN told'[t] : i \in DOMAIN told[t] \/ told'[t][i] = kind
      BY <1>3, TellingEvents
    <2> QED BY <2>1 DEF ToldOf
  <1>4. ASSUME Publish(t, "rejected")
        PROVE  Cardinality(ToldOf(t)') = Cardinality(ToldOf(t)) + 1
    <2>0. "rejected" \in Events
      BY DEF Events
    <2>1. /\ \A i \in DOMAIN told[t] : told'[t][i] = told[t][i] /\ i \in DOMAIN told'[t]
          /\ \A i \in DOMAIN told'[t] : i \in DOMAIN told[t] \/ i = Len(told[t]) + 1
          /\ told'[t][Len(told[t]) + 1] = "rejected" /\ Len(told[t]) + 1 \in DOMAIN told'[t]
      BY <1>4, <2>0, TellingEvents
    <2>2. ToldOf(t)' = ToldOf(t) \cup {Len(told[t]) + 1}
      BY <2>1 DEF ToldOf
    <2> QED BY <1>0, <1>1, <2>2, OneMore
  <1>5. told' = told => ToldOf(t)' = ToldOf(t)
    BY DEF ToldOf
  <1> QED BY <1>2, <1>3, <1>4, <1>5

\* The notes in a history can be counted.
LEMMA NotesFinite ==
    ASSUME TypeOK, NEW t \in Turns
    PROVE  Cardinality(Notes(t)) \in Nat
  <1>1. Len(history[t]) \in Nat /\ DOMAIN history[t] = 1..Len(history[t])
    BY DEF TypeOK
  <1>2. Notes(t) \subseteq 1..Len(history[t])
    BY <1>1 DEF Notes
  <1> QED BY <1>1, <1>2, OneMore

\* A message adds a note when it is one.
LEMMA NoteCount ==
    ASSUME TypeOK, NEW t \in Turns, NEW role \in {"assistant", "tool", "note"},
           NEW ids \in SUBSET CallIds,
           history' = [history EXCEPT ![t] = Append(@, [role |-> role, ids |-> ids])]
    PROVE  /\ Cardinality(Notes(t)) \in Nat
           /\ Cardinality(Notes(t)') = IF role = "note" THEN Cardinality(Notes(t)) + 1
                                                        ELSE Cardinality(Notes(t))
  <1> DEFINE n == Len(history[t])
  <1>1. /\ n \in Nat /\ DOMAIN history[t] = 1..n /\ DOMAIN history'[t] = 1..(n + 1)
        /\ \A i \in 1..n : history'[t][i] = history[t][i]
        /\ history'[t][n + 1].role = role
    BY HistoryGrows
  <1>2. Notes(t) \subseteq 1..n
    BY <1>1 DEF Notes
  <1>3. 1..(n + 1) = 1..n \cup {n + 1}
    BY <1>1
  <1> HIDE DEF n
  <1>4. Notes(t)' = IF role = "note" THEN Notes(t) \cup {n + 1} ELSE Notes(t)
    BY <1>1, <1>3 DEF Notes
  <1> QED BY <1>1, <1>2, <1>4, OneMore

\* The completion under way adds its rejected calls, all under one number.
LEMMA BadTake ==
    ASSUME TypeOK, NEW t \in Turns, NEW S \in SUBSET Idx, NEW ok \in SUBSET S,
           pc[t] \in Streaming, CallsInv(t), calls'[t] = calls[t] \cup Asked(t, S, ok)
    PROVE  /\ Cardinality(Bad(t)) \in Nat /\ Cardinality(S \ ok) \in Nat
           /\ Cardinality(Bad(t)') = Cardinality(Bad(t)) + Cardinality(S \ ok)
           /\ Cardinality(Spoiled(t)) \in Nat
           /\ Cardinality(Spoiled(t)') = Cardinality(Spoiled(t)) + (IF S \ ok = {} THEN 0 ELSE 1)
  <1>0. PICK A : A = Asked(t, S, ok)
    OBVIOUS
  <1>1. /\ IsFiniteSet(S \ ok) /\ IsFiniteSet(A)
        /\ \A c \in A : c.iter = iter[t] /\ c.idx \in S /\ (c.ok <=> c.idx \in ok)
        /\ \A c, d \in A : c.idx = d.idx => c = d
    BY <1>0, AskedCalls
  <1>2. IsFiniteSet(calls[t]) /\ \A c \in calls[t] : c.iter < iter[t] /\ c.iter \in Nat
    BY DEF CallsInv, TypeOK, Calls
  <1>3. iter[t] \in Nat /\ ~(iter[t] < iter[t])
    BY DEF TypeOK
  <1> DEFINE B == {c \in A : ~c.ok}
             bad == Bad(t)
  <1>4. IsFiniteSet(B) /\ IsFiniteSet(bad)
    <2>1. B \in SUBSET A /\ bad \in SUBSET calls[t]
      BY DEF Bad
    <2> QED BY <1>1, <1>2, <2>1, FS_Subset
  <1>5. Cardinality(B) = Cardinality(S \ ok)
    <2> DEFINE f == [c \in B |-> c.idx]
    <2>1. f \in [B -> S \ ok]
      BY <1>1
    <2>2. \A c, d \in B : f[c] = f[d] => c = d
      BY <1>1
    <2>3. \A i \in S \ ok : \E c \in B : f[c] = i
      BY <1>0, AskedRejected
    <2> HIDE DEF f, B
    <2>5. f \in Injection(B, S \ ok)
      BY <2>1, <2>2 DEF Injection, IsInjective
    <2>6. f \in Surjection(B, S \ ok)
      BY <2>1, <2>3 DEF Surjection
    <2>4. f \in Bijection(B, S \ ok)
      BY <2>5, <2>6 DEF Bijection
    <2> QED BY <1>4, <2>4, FS_Bijection DEF ExistsBijection
  <1>6. Bad(t)' = bad \cup B
    BY <1>0 DEF Bad
  <1>7. bad \cap B = {}
    BY <1>1, <1>2, <1>3 DEF Bad
  <1>8. Cardinality(bad \cup B) = Cardinality(bad) + Cardinality(B)
    <2>1. Cardinality(bad \cup B) = Cardinality(bad) + Cardinality(B) - Cardinality(bad \cap B)
      BY <1>4, FS_Union
    <2>2. Cardinality(bad) \in Nat /\ Cardinality(B) \in Nat /\ Cardinality(bad \cap B) = 0
      BY <1>4, <1>7, FS_CardinalityType, FS_EmptySet
    <2> QED BY <2>1, <2>2
  <1>9. IsFiniteSet(Spoiled(t)) /\ iter[t] \notin Spoiled(t)
    <2> DEFINE g == [c \in bad |-> c.iter]
    <2>1. g \in Surjection(bad, Spoiled(t))
      BY DEF Surjection, Spoiled
    <2>2. IsFiniteSet(Spoiled(t))
      BY <1>4, <2>1, FS_Surjection
    <2>3. iter[t] \notin Spoiled(t)
      BY <1>2, <1>3 DEF Spoiled, Bad
    <2> QED BY <2>2, <2>3
  <1>10. Spoiled(t)' = IF S \ ok = {} THEN Spoiled(t) ELSE Spoiled(t) \cup {iter[t]}
    <2>0. Spoiled(t)' = {c.iter : c \in bad \cup B}
      BY <1>6 DEF Spoiled
    <2>1. CASE S \ ok = {}
      <3>1. B = {}
        BY <1>1, <2>1
      <3> QED BY <2>0, <2>1, <3>1 DEF Spoiled
    <2>2. CASE S \ ok # {}
      <3>1. PICK c \in B : c.iter = iter[t]
        <4>1. PICK i \in S \ ok : TRUE
          BY <2>2
        <4> QED BY <1>0, <4>1, AskedRejected
      <3> QED BY <1>1, <2>0, <2>2, <3>1 DEF Spoiled
    <2> QED BY <2>1, <2>2
  <1>11. Cardinality(Spoiled(t) \cup {iter[t]}) = Cardinality(Spoiled(t)) + 1
    BY <1>9, FS_AddElement
  <1>12. Cardinality(Spoiled(t)) \in Nat /\ Cardinality(bad) \in Nat /\ Cardinality(S \ ok) \in Nat
    BY <1>1, <1>4, <1>9, FS_CardinalityType
  <1> QED BY <1>5, <1>6, <1>8, <1>10, <1>11, <1>12

\* So the accounts of the rejected calls stay even.
LEMMA RejectsStep ==
    ASSUME TypeOK, LoopInv, NEW t \in Turns, Telling(t), ~GoneMove(t), CallsInv(t), RejectsInv(t)
    PROVE  RejectsInv(t)'
  <1>1. CASE RestMove(t)
    <2>1. ToldOf(t)' = ToldOf(t)
      BY <1>1, ToldCount DEF RestMove
    <2>2. Bad(t)' = Bad(t) /\ Spoiled(t)' = Spoiled(t) /\ Notes(t)' = Notes(t)
          /\ rejects'[t] = rejects[t]
      BY <1>1 DEF RestMove, Bad, Spoiled, Notes
    <2> QED BY <1>1, <2>1, <2>2 DEF RestMove, RejectsInv
  <1>2. CASE OpenMove(t)
    <2>1. /\ Bad(t)' = Bad(t) /\ Spoiled(t)' = Spoiled(t) /\ Notes(t)' = Notes(t)
          /\ ToldOf(t)' = ToldOf(t) /\ rejects'[t] = rejects[t]
      BY <1>2 DEF OpenMove, Bad, Spoiled, Notes, ToldOf
    <2> QED BY <1>2, <2>1 DEF OpenMove, RejectsInv, Batch
  <1>3. CASE TakeMove(t)
    <2>1. PICK S \in SUBSET Idx : \E ok \in SUBSET S, text \in BOOLEAN : TakeCalls(t, S, ok, text)
      BY <1>3 DEF TakeMove
    <2>2. PICK ok \in SUBSET S, text \in BOOLEAN : TakeCalls(t, S, ok, text)
      BY <2>1
    <2>3. /\ calls'[t] = calls[t] \cup Asked(t, S, ok) /\ rejects'[t] = S \ ok
          /\ pc'[t] = "tools" /\ told' = told /\ pc[t] \in Streaming
      BY <1>3, <2>2 DEF TakeMove, TakeCalls, TypeOK
    <2>4. /\ Cardinality(Bad(t)) \in Nat /\ Cardinality(S \ ok) \in Nat
          /\ Cardinality(Bad(t)') = Cardinality(Bad(t)) + Cardinality(S \ ok)
          /\ Cardinality(Spoiled(t)) \in Nat
          /\ Cardinality(Spoiled(t)') = Cardinality(Spoiled(t)) + (IF S \ ok = {} THEN 0 ELSE 1)
      BY <2>3, BadTake
    <2>5. Cardinality(Notes(t)') = Cardinality(Notes(t))
      <3>1. CASE history' = history
        BY <3>1 DEF Notes
      <3>2. CASE history' = [history EXCEPT ![t] = Append(@,
                               [role |-> "assistant", ids |-> {Id(t, i) : i \in ok}])]
        <4>1. PICK ids : ids = {Id(t, i) : i \in ok}
          OBVIOUS
        <4>2. ids \in SUBSET CallIds
          <5>1. iter[t] \in 1..MaxIter
            BY <2>3 DEF TypeOK, LoopInv
          <5>2. \A i \in ok : Id(t, i) \in CallIds
            BY <5>1 DEF CallIds
          <5> QED BY <4>1, <5>2
        <4>3. PICK role \in {"assistant", "tool", "note"} : role = "assistant"
          OBVIOUS
        <4> HIDE DEF Id
        <4> QED BY <3>2, <4>1, <4>2, <4>3, NoteCount
      <3> QED BY <2>2, <3>1, <3>2 DEF TakeCalls, Honourable
    <2>6. ToldOf(t)' = ToldOf(t) /\ Cardinality(ToldOf(t)) \in Nat
      BY <2>3, ToldCount
    <2>7. rejects[t] = {} /\ Cardinality(rejects[t]) = 0
      BY <2>3, FS_EmptySet DEF RejectsInv, Streaming, Batch
    <2>8. Cardinality(ToldOf(t)) = Cardinality(Bad(t)) /\ Cardinality(Notes(t)) = Cardinality(Spoiled(t))
      BY <2>4, <2>6, <2>7, NotesFinite DEF RejectsInv
    <2> QED BY <2>3, <2>4, <2>5, <2>6, <2>8 DEF RejectsInv, Batch
  <1>4. CASE AnswerMove(t)
    <2>1. PICK i \in NextCalls(t) :
            history' = [history EXCEPT ![t] = Append(@, [role |-> "tool", ids |-> {Id(t, i)}])]
      BY <1>4 DEF AnswerMove, Answer
    <2>2. calls' = calls /\ rejects' = rejects /\ pc'[t] = "tools"
      BY <1>4 DEF AnswerMove, Answer, TypeOK
    <2>3. ToldOf(t)' = ToldOf(t)
      BY <1>4, ToldCount DEF AnswerMove
    <2>4. Cardinality(Notes(t)') = Cardinality(Notes(t))
      <3>1. PICK ids : ids = {Id(t, i)}
        OBVIOUS
      <3>2. ids \in SUBSET CallIds
        <4>1. iter[t] \in 1..MaxIter /\ i \in Idx
          BY <1>4 DEF AnswerMove, TypeOK, LoopInv, NextCalls
        <4> QED BY <3>1, <4>1 DEF CallIds
      <3>3. PICK role \in {"assistant", "tool", "note"} : role = "tool"
        OBVIOUS
      <3> QED BY <2>1, <3>1, <3>2, <3>3, NoteCount
    <2> QED BY <2>2, <2>3, <2>4 DEF RejectsInv, Bad, Spoiled, Batch
  <1>5. CASE RejectMove(t)
    <2>1. PICK i \in rejects[t] :
            /\ rejects' = [rejects EXCEPT ![t] = @ \ {i}]
            /\ IF rejects[t] = {i}
               THEN /\ history' = [history EXCEPT ![t] = Append(@, [role |-> "note", ids |-> {}])]
                    /\ pc'[t] = "loop"
               ELSE history' = history /\ pc'[t] = "rejecting"
      BY <1>5 DEF RejectMove
    <2>2. rejects'[t] = rejects[t] \ {i} /\ calls' = calls
      BY <1>5, <2>1 DEF RejectMove, TypeOK
    <2>3. Cardinality(ToldOf(t)) \in Nat /\ Cardinality(ToldOf(t)') = Cardinality(ToldOf(t)) + 1
      BY <1>5, ToldCount DEF RejectMove
    <2>4. IsFiniteSet(rejects[t]) /\ Cardinality(rejects[t]) \in Nat
      <3>1. IsFiniteSet(Idx) /\ rejects[t] \in SUBSET Idx
        BY BoundsAssumption, FS_Interval DEF Idx, TypeOK
      <3> QED BY <3>1, FS_Subset, FS_CardinalityType
    <2>5. Cardinality(rejects[t] \ {i}) = Cardinality(rejects[t]) - 1
      BY <2>4, FS_RemoveElement
    <2>6. Bad(t)' = Bad(t) /\ Spoiled(t)' = Spoiled(t)
      BY <2>2 DEF Bad, Spoiled
    <2>7. Cardinality(ToldOf(t)') + Cardinality(rejects[t] \ {i}) = Cardinality(Bad(t))
      BY <2>3, <2>4, <2>5 DEF RejectsInv
    <2>8. CASE rejects[t] = {i}
      <3>1. rejects'[t] = {} /\ rejects[t] # {}
        BY <2>2, <2>8
      <3>2. Cardinality(Notes(t)') = Cardinality(Notes(t)) + 1
        <4>1. PICK none \in SUBSET CallIds : none = {}
          OBVIOUS
        <4>2. PICK role \in {"assistant", "tool", "note"} : role = "note"
          OBVIOUS
        <4> QED BY <2>1, <2>8, <4>1, <4>2, NoteCount
      <3>3. Cardinality(Notes(t)) + 1 = Cardinality(Spoiled(t)) /\ Cardinality(Notes(t)) \in Nat
        BY <3>1, NotesFinite DEF RejectsInv
      <3> QED BY <2>2, <2>6, <2>7, <3>1, <3>2, <3>3 DEF RejectsInv
    <2>9. CASE rejects[t] # {i}
      <3>1. rejects'[t] # {} /\ rejects[t] # {} /\ pc'[t] = "rejecting"
        BY <2>1, <2>2, <2>9
      <3>2. Notes(t)' = Notes(t)
        BY <2>1, <2>9 DEF Notes
      <3> QED BY <2>2, <2>6, <2>7, <3>1, <3>2 DEF RejectsInv
    <2> QED BY <2>8, <2>9
  <1> QED BY <1>1, <1>2, <1>3, <1>4, <1>5 DEF Telling

\* A step of a turn keeps every turn's history in order.
LEMMA HistoryStep ==
    ASSUME TypeOK, LoopInv, HistoryInv, NEW t \in Turns, Request(t) \/ Step(t) \/ Cancel(t)
    PROVE  HistoryInv'
  <1>0. Telling(t) /\ Apart(t)
    BY StepTelling
  <1>1. ASSUME NEW u \in Turns \ {t}
        PROVE  Fresh(u)' /\ Truthful(u)' /\ (pc'[u] \in Live =>
                 CallsInv(u)' /\ Honoured(u)' /\ AnsweredInv(u)' /\ RejectsInv(u)')
    BY <1>0, HistoryElsewhere DEF Apart, HistoryInv
  <1>2. Fresh(t)'
    BY <1>0 DEF Telling, Fresh
  <1>3. CASE GoneMove(t)
    <2>1. Truthful(t)'
      BY <1>3 DEF GoneMove, HistoryInv, Truthful
    <2> QED BY <1>1, <1>2, <1>3, <2>1 DEF GoneMove, HistoryInv
  <1>4. CASE ~GoneMove(t)
    <2>1. pc[t] \in Live
      BY <1>0, <1>4 DEF Telling, RestMove, OpenMove, TakeMove, AnswerMove, RejectMove, Live, Looping,
                        Streaming
    <2>2. CallsInv(t) /\ Honoured(t) /\ AnsweredInv(t) /\ RejectsInv(t)
      BY <2>1 DEF HistoryInv
    <2>3. CallsInv(t)' /\ Honoured(t)' /\ AnsweredInv(t)' /\ RejectsInv(t)'
      BY <1>0, <1>4, <2>2, CallsStep, HonouredStep, AnsweredStep, RejectsStep
    <2>4. Truthful(t)'
      BY <2>3 DEF Truthful, Honoured, CallsInv
    <2> QED BY <1>1, <1>2, <2>3, <2>4 DEF HistoryInv
  <1> QED BY <1>3, <1>4

\* A restart leaves the turns nobody asked for yet, and they know nothing.
LEMMA HistoryRestart ==
    ASSUME TypeOK, HistoryInv, Restart
    PROVE  HistoryInv'
  <1> SUFFICES ASSUME NEW t \in Turns
               PROVE  Fresh(t)' /\ Truthful(t)' /\ (pc'[t] \in Live =>
                        CallsInv(t)' /\ Honoured(t)' /\ AnsweredInv(t)' /\ RejectsInv(t)')
    BY DEF HistoryInv
  <1>1. Fresh(t)'
    BY DEF Fresh, Restart
  <1>2. ASSUME pc'[t] \in Live
        PROVE  CallsInv(t)' /\ Honoured(t)' /\ AnsweredInv(t)' /\ RejectsInv(t)'
    <2>1. pc'[t] = "new" /\ pc[t] = "new"
      BY <1>2 DEF Restart, Live, Before, Looping, Due, Running, Streaming, TypeOK, Ended
    <2>2. Own(t)' = Own(t)
      <3>1. /\ iter[t] = 0 /\ calls[t] = {} /\ todo[t] = {} /\ rejects[t] = {} /\ history[t] = <<>>
        BY <2>1 DEF HistoryInv, Fresh
      <3> QED BY <2>1, <3>1 DEF Restart, Own
    <2>3. pc[t] \in Live
      BY <2>1 DEF Live, Before
    <2> QED BY <2>2, <2>3, HistoryElsewhere DEF HistoryInv
  <1>3. Truthful(t)'
    BY DEF Truthful, Restart
  <1> QED BY <1>1, <1>2, <1>3

\* Every reachable state keeps the histories in order: which calls are asked
\* for, which are answered, which are still open, and which were refused.
THEOREM HistoryCorrect == Spec => []HistoryInv
  <1>1. Init => HistoryInv
    <2> SUFFICES ASSUME Init, NEW t \in Turns
                 PROVE  /\ Fresh(t) /\ Truthful(t) /\ CallsInv(t) /\ Honoured(t)
                        /\ AnsweredInv(t) /\ RejectsInv(t)
      BY DEF HistoryInv
    <2>1. /\ pc[t] = "new" /\ iter[t] = 0 /\ calls[t] = {} /\ todo[t] = {} /\ rejects[t] = {}
          /\ history[t] = <<>> /\ told[t] = <<>>
      BY DEF Init
    <2>2. Fresh(t) /\ Truthful(t) /\ CallsInv(t) /\ Honoured(t)
      BY <2>1, FS_EmptySet DEF Fresh, Truthful, CallsInv, Honoured
    <2>3. AnsweredInv(t)
      BY <2>1 DEF AnsweredInv, Open, Batch
    <2>4. ToldOf(t) = {} /\ Notes(t) = {} /\ Bad(t) = {} /\ Spoiled(t) = {}
      BY <2>1 DEF ToldOf, Notes, Bad, Spoiled
    <2>5. RejectsInv(t)
      BY <2>1, <2>4, FS_EmptySet DEF RejectsInv
    <2> QED BY <2>2, <2>3, <2>5
  <1>2. Typed /\ HistoryInv /\ [Next]_vars => HistoryInv'
    <2> SUFFICES ASSUME TypeOK, LoopInv, HistoryInv, [Next]_vars PROVE HistoryInv'
      BY DEF Typed
    <2>1. CASE \E t \in Turns : Request(t) \/ Step(t) \/ Cancel(t)
      BY <2>1, HistoryStep
    <2>2. CASE Restart
      BY <2>2, HistoryRestart
    <2>3. CASE UNCHANGED vars
      <3>1. \A u \in Turns : Own(u)' = Own(u)
        BY <2>3 DEF vars, Own
      <3> QED BY <3>1, HistoryElsewhere DEF HistoryInv
    <2> QED BY <2>1, <2>2, <2>3 DEF Next
  <1>3. Init => Typed
    BY InitTyped
  <1>4. Typed /\ [Next]_vars => Typed'
    BY StepTyped, RestartTyped, StutterTyped DEF Next
  <1> QED BY <1>1, <1>2, <1>3, <1>4, PTL DEF Spec

\* The history the model's server is sent is one it accepts and holds what the
\* model must know: every honoured call answered once and in its place, no
\* rejected call, a note for every completion that held one (dm.py, take_turn).
THEOREM HistoryAccepted == Spec => []HistoryWellFormed
  <1>1. HistoryInv => HistoryAnswered
    <2> SUFFICES ASSUME HistoryInv, NEW t \in Turns, pc[t] = "loop"
                 PROVE  LET h == history[t] IN
                        \A a \in DOMAIN h :
                          /\ h[a].role = "assistant" =>
                               \A id \in h[a].ids :
                                  Cardinality({b \in (a + 1)..Len(h) : h[b].ids = {id} /\ AnswersIn(h, a, b)}) = 1
                          /\ h[a].role = "tool" =>
                               \E b \in 1..(a - 1) : /\ h[b].role = "assistant"
                                                    /\ h[a].ids \subseteq h[b].ids
                                                    /\ AnswersIn(h, b, a)
      BY DEF HistoryAnswered
    <2>1. AnsweredInv(t) /\ \A id : ~Open(t, id)
      BY DEF HistoryInv, Live, Looping, Open, Batch
    <2>2. PICK h : h = history[t]
      OBVIOUS
    <2>3. ASSUME NEW a \in DOMAIN h, h[a].role = "assistant", NEW id \in h[a].ids
          PROVE  Cardinality({b \in (a + 1)..Len(h) : h[b].ids = {id} /\ AnswersIn(h, a, b)}) = 1
      <3>1. PICK b \in (a + 1)..Len(h) : h[b].ids = {id} /\ AnswersIn(h, a, b)
        BY <2>1, <2>2, <2>3 DEF AnsweredInv, Follows
      <3>2. \A c \in (a + 1)..Len(h) : h[c].ids = {id} /\ AnswersIn(h, a, c) => c = b
        <4> SUFFICES ASSUME NEW c \in (a + 1)..Len(h), h[c].ids = {id}, AnswersIn(h, a, c)
                     PROVE  c = b
          OBVIOUS
        <4>1. h[b].role = "tool" /\ h[c].role = "tool"
          BY <3>1 DEF AnswersIn
        <4>2. b \in DOMAIN h /\ c \in DOMAIN h
          BY <2>2, <3>1
        <4> QED BY <2>1, <2>2, <3>1, <4>1, <4>2 DEF AnsweredInv
      <3>3. {c \in (a + 1)..Len(h) : h[c].ids = {id} /\ AnswersIn(h, a, c)} = {b}
        BY <3>1, <3>2
      <3> QED BY <3>3, FS_Singleton
    <2>4. ASSUME NEW a \in DOMAIN h, h[a].role = "tool"
          PROVE  \E b \in 1..(a - 1) : /\ h[b].role = "assistant"
                                      /\ h[a].ids \subseteq h[b].ids
                                      /\ AnswersIn(h, b, a)
      BY <2>1, <2>2, <2>4 DEF AnsweredInv
    <2> QED BY <2>2, <2>3, <2>4
  <1>2. HistoryInv => NoRejectedInHistory
    BY DEF NoRejectedInHistory, HistoryInv, Truthful
  <1>3. TypeOK /\ HistoryInv => RejectionsReported
    <2> SUFFICES ASSUME TypeOK, HistoryInv, NEW t \in Turns, pc[t] \in {"loop", "persist"}
                 PROVE  /\ Cardinality(ToldOf(t)) = Cardinality(Bad(t))
                        /\ Cardinality(Notes(t)) = Cardinality(Spoiled(t))
      BY DEF RejectionsReported, ToldOf, Notes, Spoiled, Bad
    <2>1. RejectsInv(t) /\ rejects[t] = {}
      BY DEF HistoryInv, RejectsInv, Live, Looping, Due, Batch
    <2>2. Cardinality(rejects[t]) = 0
      BY <2>1, FS_EmptySet
    <2>3. Cardinality(ToldOf(t)) \in Nat /\ Cardinality(Notes(t)) \in Nat
      BY ToldCount, NotesFinite
    <2> QED BY <2>1, <2>2, <2>3 DEF RejectsInv
  <1> QED BY <1>1, <1>2, <1>3, HistoryCorrect, TypeCorrect, PTL DEF HistoryWellFormed

=============================================================================
