---------------------------- MODULE MemoryProofs ----------------------------
(***************************************************************************)
(* For any sessions, turns and lines: no task waits for the LLM inside a   *)
(* transaction, tasks that race for one trigger call the LLM once, a       *)
(* summary never shrinks, and the fact cache goes stale in one way only.   *)
(* What it takes is that the summary lock of a session has one holder, the *)
(* head of its queue, from the check of the summary to its write.          *)
(***************************************************************************)
EXTENDS Memory, SequenceLemmas

-----------------------------------------------------------------------------
(* The invariant *)

\* The turn under way, and those to come, have no tasks yet.
NoTasks(t) == extract[t] = "none" /\ renew[t] = "none"
TasksInv ==
    /\ \A s \in Sessions : at[s] \notin {"fresh", "idle"} => turns[s] # 0 /\ NoTasks(<<s, turns[s]>>)
    /\ \A s \in Sessions : \A n \in 1..MaxTurns : n > turns[s] => NoTasks(<<s, n>>)

\* Who is inside a transaction.
OpenInv ==
    \A t \in TurnIds : /\ <<"extract", t>> \in open => extract[t] = "release"
                       /\ <<"renew", t>> \in open => renew[t] \in {"lock", "recheck", "read"}

Holding == {"recheck", "read", "llm", "write"}
InLine == {"lock"} \cup Holding

\* The summary lock of a session is its queue's head's.
QueueInv ==
    /\ \A s \in Sessions : /\ OnceEach(queue[s])
                           /\ Listed(queue[s]) = {t \in TurnIds : t[1] = s /\ renew[t] \in InLine}
    /\ \A t \in TurnIds : renew[t] \in Holding => queue[t[1]] # <<>> /\ Head(queue[t[1]]) = t

\* What a task knows while it holds the lock, beside what the row says.
SummaryInv ==
    /\ \A s \in Sessions : summary[s] <= lines[s]
    /\ \A t \in TurnIds :
         /\ renew[t] \in InLine => trigger[t] # 0 /\ trigger[t] <= lines[t[1]]
         /\ renew[t] \in {"read", "llm"} => t[1] \in blank \/ summary[t[1]] < trigger[t]
         /\ renew[t] \in {"llm", "write"} => summary[t[1]] <= upto[t] /\ upto[t] <= lines[t[1]]

Inv == TypeOK /\ TasksInv /\ OpenInv /\ QueueInv /\ SummaryInv

\* A turn is its session and its number.
LEMMA TurnIs ==
    ASSUME NEW t \in TurnIds
    PROVE  t[1] \in Sessions /\ t[2] \in 1..MaxTurns /\ t = <<t[1], t[2]>>
  BY DEF TurnIds

-----------------------------------------------------------------------------
(* The first state *)

\* The first state satisfies the invariant.
LEMMA InitInv == Init => Inv
  <1> SUFFICES ASSUME Init PROVE Inv
    OBVIOUS
  <1> USE DEF Init
  <1>1. TypeOK
    BY BoundsAssumption DEF TypeOK
  <1>2. TasksInv
    <2>1. \A t \in TurnIds : NoTasks(t)
      BY DEF NoTasks
    <2>2. \A s \in Sessions : \A n \in 1..MaxTurns : NoTasks(<<s, n>>)
      BY <2>1 DEF TurnIds
    <2> QED BY <2>2 DEF TasksInv
  <1>3. OpenInv
    BY DEF OpenInv
  <1>4. QueueInv
    BY DEF QueueInv, OnceEach, Listed, InLine, Holding
  <1>5. SummaryInv
    BY DEF SummaryInv, InLine, Holding
  <1> QED BY <1>1, <1>2, <1>3, <1>4, <1>5 DEF Inv

-----------------------------------------------------------------------------
(* What a step leaves alone *)

\* A task that moves outside the line, or does not move.
Aside(t) == renew'[t] = renew[t] \/ (renew[t] \notin InLine /\ renew'[t] \notin InLine)

\* Steps outside the line leave the lock alone.
LEMMA SameQueue ==
    ASSUME Inv, UNCHANGED queue, \A t \in TurnIds : Aside(t)
    PROVE  QueueInv'
  BY DEF Inv, QueueInv, Aside, InLine, Holding, OnceEach, Listed

\* Steps outside the line leave what its tasks know alone, as lines are only added.
LEMMA SameSummary ==
    ASSUME Inv, UNCHANGED <<trigger, upto, summary, blank>>, \A t \in TurnIds : Aside(t),
           lines' \in [Sessions -> 0..MaxLines], \A s \in Sessions : lines[s] <= lines'[s]
    PROVE  SummaryInv'
  <1>1. \A s \in Sessions : /\ summary[s] \in Nat /\ lines[s] \in Nat /\ lines'[s] \in Nat
                            /\ lines[s] <= lines'[s]
    BY BoundsAssumption DEF Inv, TypeOK
  <1>2. \A t \in TurnIds : t[1] \in Sessions /\ trigger[t] \in Nat /\ upto[t] \in Nat
    BY BoundsAssumption, TurnIs DEF Inv, TypeOK
  <1>3. \A s \in Sessions : summary'[s] <= lines'[s]
    BY <1>1 DEF Inv, SummaryInv
  <1>4. ASSUME NEW t \in TurnIds
        PROVE  /\ renew'[t] \in InLine => trigger'[t] # 0 /\ trigger'[t] <= lines'[t[1]]
               /\ renew'[t] \in {"read", "llm"} => t[1] \in blank' \/ summary'[t[1]] < trigger'[t]
               /\ renew'[t] \in {"llm", "write"} => summary'[t[1]] <= upto'[t] /\ upto'[t] <= lines'[t[1]]
    BY <1>1, <1>2 DEF Inv, SummaryInv, Aside, InLine, Holding
  <1> QED BY <1>3, <1>4 DEF SummaryInv

\* The bookkeeping of turns and tasks.
LEMMA SameTasks ==
    ASSUME Inv, UNCHANGED turns, \A t \in TurnIds : NoTasks(t) => NoTasks(t)',
           \A s \in Sessions : at'[s] \notin {"fresh", "idle"} => at[s] \notin {"fresh", "idle"}
    PROVE  TasksInv'
  <1>1. \A s \in Sessions : \A n \in 1..MaxTurns : NoTasks(<<s, n>>) => NoTasks(<<s, n>>)'
    BY DEF TurnIds
  <1>2. \A s \in Sessions : turns[s] # 0 => turns[s] \in 1..MaxTurns
    BY BoundsAssumption DEF Inv, TypeOK
  <1> QED BY <1>1, <1>2 DEF Inv, TasksInv

-----------------------------------------------------------------------------
(* Turns *)

\* The steps of a turn touch neither the lock nor a transaction.
LEMMA TurnStep ==
    ASSUME Inv, UNCHANGED <<extract, renew, trigger, upto, queue, summary, blank, open>>,
           lines' \in [Sessions -> 0..MaxLines], \A s \in Sessions : lines[s] <= lines'[s]
    PROVE  OpenInv' /\ QueueInv' /\ SummaryInv'
  <1>1. \A t \in TurnIds : Aside(t)
    BY DEF Aside
  <1> QED BY <1>1, SameQueue, SameSummary DEF Inv, OpenInv

\* A turn begins with a number of its own.
LEMMA BeginInv ==
    ASSUME Inv, NEW s \in Sessions, Begin(s)
    PROVE  Inv'
  <1> USE DEF Begin, Now, store, renewal
  <1>0. /\ \A q \in Sessions : turns'[q] = IF q = s THEN turns[s] + 1 ELSE turns[q]
        /\ \A q \in Sessions : at'[q] = IF q = s THEN "looking" ELSE at[q]
        /\ turns[s] + 1 \in 1..MaxTurns /\ turns' \in [Sessions -> 0..MaxTurns]
        /\ \A q \in Sessions : turns[q] \in Nat
    BY BoundsAssumption DEF Inv, TypeOK
  <1>1. lines' \in [Sessions -> 0..MaxLines] /\ \A q \in Sessions : lines[q] <= lines'[q]
    <2>1. CASE UNCHANGED lines
      BY <2>1, BoundsAssumption DEF Inv, TypeOK
    <2>2. CASE lines[s] < MaxLines /\ lines' = [lines EXCEPT ![s] = @ + 1]
      BY <2>2, BoundsAssumption DEF Inv, TypeOK
    <2> QED BY <2>1, <2>2
  <1>2. TypeOK'
    BY <1>0, <1>1 DEF Inv, TypeOK
  <1>3. TasksInv'
    <2>1. NoTasks(<<s, turns[s] + 1>>)
      BY <1>0 DEF Inv, TasksInv
    <2> QED BY <1>0, <2>1 DEF Inv, TasksInv, NoTasks
  <1>4. OpenInv' /\ QueueInv' /\ SummaryInv'
    BY <1>1, TurnStep
  <1> QED BY <1>2, <1>3, <1>4 DEF Inv

\* A whisper adds a line.
LEMMA WhisperInv ==
    ASSUME Inv, NEW s \in Sessions, Whisper(s)
    PROVE  Inv'
  <1> USE DEF Whisper, store, renewal
  <1>1. lines' \in [Sessions -> 0..MaxLines] /\ \A q \in Sessions : lines[q] <= lines'[q]
    BY BoundsAssumption DEF Inv, TypeOK
  <1>2. TypeOK'
    BY <1>1 DEF Inv, TypeOK
  <1>3. TasksInv'
    BY SameTasks DEF NoTasks
  <1>4. OpenInv' /\ QueueInv' /\ SummaryInv'
    BY <1>1, TurnStep
  <1> QED BY <1>2, <1>3, <1>4 DEF Inv

\* Retrieval reads facts and fills the cache.
LEMMA RetrieveInv ==
    ASSUME Inv, NEW s \in Sessions, Retrieve(s)
    PROVE  Inv'
  <1> USE DEF Retrieve, LookUp, Load, Fill, Now, store, renewal
  <1>0. /\ lines' = lines /\ turns' = turns /\ facts' = facts
        /\ UNCHANGED <<extract, renew, trigger, upto, queue, summary, blank, open>>
    OBVIOUS
  <1>1. at[s] \in {"looking", "loading", "filling"}
        /\ \E place \in {"narrating", "loading", "filling"} : at' = [at EXCEPT ![s] = place]
    OBVIOUS
  <1>2. at' \in [Sessions -> {"fresh", "idle", "looking", "loading", "filling", "narrating"}]
    BY <1>1 DEF Inv, TypeOK
  <1>3. loaded' \in [Sessions -> SUBSET TurnIds]
    BY DEF Inv, TypeOK
  <1>4. hits' \in [Sessions -> SUBSET TurnIds] /\ cache' \in {<<>>} \cup {<<known>> : known \in SUBSET TurnIds}
    <2>1. loaded[s] \in SUBSET TurnIds
      BY DEF Inv, TypeOK
    <2>2. CASE LookUp(s)
      <3>1. cache # <<>> => Head(cache) \in SUBSET TurnIds
        BY DEF Inv, TypeOK
      <3> QED BY <2>2, <3>1 DEF Inv, TypeOK
    <2>3. CASE Load(s)
      BY <2>3 DEF Inv, TypeOK
    <2>4. CASE Fill(s)
      BY <2>1, <2>4 DEF Inv, TypeOK
    <2> QED BY <2>2, <2>3, <2>4 DEF Retrieve
  <1>5. TypeOK'
    BY <1>0, <1>2, <1>3, <1>4 DEF Inv, TypeOK
  <1>6. TasksInv'
    <2>1. \A q \in Sessions : at'[q] \notin {"fresh", "idle"} => at[q] \notin {"fresh", "idle"}
      BY <1>1 DEF Inv, TypeOK
    <2> QED BY <1>0, <2>1, SameTasks DEF NoTasks
  <1>7. OpenInv' /\ QueueInv' /\ SummaryInv'
    <2>1. lines' \in [Sessions -> 0..MaxLines] /\ \A q \in Sessions : lines[q] <= lines'[q]
      BY <1>0, BoundsAssumption DEF Inv, TypeOK
    <2> QED BY <1>0, <2>1, TurnStep
  <1> QED BY <1>5, <1>6, <1>7 DEF Inv

\* A turn that is over starts its two tasks, which it had not.
LEMMA FinishInv ==
    ASSUME Inv, NEW s \in Sessions, Finish(s)
    PROVE  Inv'
  <1> USE DEF Finish, Now, store, renewal
  <1> DEFINE t == <<s, turns[s]>>
  <1>1. t \in TurnIds /\ NoTasks(t) /\ turns[s] # 0
    <2>1. turns[s] # 0 /\ NoTasks(t) /\ turns[s] \in 0..MaxTurns
      BY DEF Inv, TypeOK, TasksInv
    <2>2. turns[s] \in 1..MaxTurns
      BY <2>1, BoundsAssumption
    <2> QED BY <2>1, <2>2 DEF TurnIds
  <1>2. /\ \A q \in TurnIds : extract'[q] = IF q = t THEN "start" ELSE extract[q]
        /\ \A q \in TurnIds : renew'[q] = IF q = t THEN "count" ELSE renew[q]
        /\ extract' \in [TurnIds -> {"none", "start", "release", "llm", "store", "invalidate", "done"}]
        /\ renew' \in [TurnIds -> {"none", "count", "lock", "recheck", "read", "llm", "write", "done"}]
        /\ \A q \in Sessions : at'[q] = IF q = s THEN "idle" ELSE at[q]
        /\ at' \in [Sessions -> {"fresh", "idle", "looking", "loading", "filling", "narrating"}]
    BY <1>1 DEF Inv, TypeOK
  <1>3. TypeOK'
    BY <1>2 DEF Inv, TypeOK
  <1>4. TasksInv'
    <2>1. \A q \in Sessions : turns[q] # 0 => turns[q] \in 1..MaxTurns
      BY BoundsAssumption DEF Inv, TypeOK
    <2>2. \A q \in Sessions : \A n \in 1..MaxTurns :
            <<q, n>> \in TurnIds /\ (<<q, n>> = t => q = s /\ n = turns[s])
      BY DEF TurnIds
    <2>3. \A q \in Sessions : \A n \in 1..MaxTurns :
            NoTasks(<<q, n>>) /\ (q # s \/ n # turns[s]) => NoTasks(<<q, n>>)'
      BY <1>2, <2>2 DEF NoTasks
    <2>4. \A q \in Sessions : at'[q] \notin {"fresh", "idle"} =>
            turns[q] # 0 /\ NoTasks(<<q, turns[q]>>)'
      BY <1>2, <2>1, <2>3 DEF Inv, TasksInv
    <2>5. \A q \in Sessions : \A n \in 1..MaxTurns : n > turns[q] => NoTasks(<<q, n>>)'
      <3>1. turns[s] \in Nat
        BY BoundsAssumption DEF Inv, TypeOK
      <3>2. \A n \in 1..MaxTurns : n > turns[s] => n # turns[s]
        BY <3>1
      <3> QED BY <2>3, <3>2 DEF Inv, TasksInv
    <2>6. turns' = turns
      OBVIOUS
    <2> QED BY <2>4, <2>5, <2>6 DEF TasksInv
  <1> HIDE DEF t
  <1>5. OpenInv'
    <2>1. <<"extract", t>> \notin open /\ <<"renew", t>> \notin open
      BY <1>1 DEF Inv, OpenInv, NoTasks
    <2>2. \A q \in TurnIds : q # t => extract'[q] = extract[q] /\ renew'[q] = renew[q]
      BY <1>2
    <2>3. open' = open
      OBVIOUS
    <2> QED BY <2>1, <2>2, <2>3 DEF Inv, OpenInv
  <1>6. \A q \in TurnIds : Aside(q)
    BY <1>1, <1>2 DEF Aside, NoTasks, InLine, Holding
  <1>7. QueueInv'
    BY <1>6, SameQueue
  <1>8. SummaryInv'
    <2>1. lines' \in [Sessions -> 0..MaxLines] /\ \A q \in Sessions : lines[q] <= lines'[q]
      BY BoundsAssumption DEF Inv, TypeOK
    <2> QED BY <1>6, <2>1, SameSummary
  <1> QED BY <1>3, <1>4, <1>5, <1>7, <1>8 DEF Inv

\* A turn that breaks off starts none.
LEMMA AbandonInv ==
    ASSUME Inv, NEW s \in Sessions, Abandon(s)
    PROVE  Inv'
  <1> USE DEF Abandon, Now, store, renewal
  <1>1. TypeOK'
    BY DEF Inv, TypeOK
  <1>2. TasksInv'
    <2>1. \A q \in Sessions : at'[q] \notin {"fresh", "idle"} => at[q] \notin {"fresh", "idle"}
      BY DEF Inv, TypeOK
    <2> QED BY <2>1, SameTasks DEF NoTasks
  <1>3. OpenInv' /\ QueueInv' /\ SummaryInv'
    <2>1. lines' \in [Sessions -> 0..MaxLines] /\ \A q \in Sessions : lines[q] <= lines'[q]
      BY BoundsAssumption DEF Inv, TypeOK
    <2> QED BY <2>1, TurnStep
  <1> QED BY <1>1, <1>2, <1>3 DEF Inv

-----------------------------------------------------------------------------
(* The extraction of facts *)

\* A step of an extractor: it has begun, and is inside a transaction only on its way to release it.
LEMMA ExtractStepInv ==
    ASSUME Inv, NEW t \in TurnIds, ExtractStep(t)
    PROVE  Inv'
  <1> USE DEF turn, renewal, Extraction
  <1>0. \E place \in {"release", "llm", "store", "invalidate", "done"} :
          /\ extract' = [extract EXCEPT ![t] = place]
          /\ extract[t] # "none"
          /\ open' \subseteq (IF place = "release" THEN open \cup {<<"extract", t>>} ELSE open)
          /\ extract[t] = "release" => <<"extract", t>> \notin open'
    BY DEF ExtractStep, StartExtraction, ReleaseExtraction, Extract, StoreFacts, Invalidate, store
  <1>1. PICK place \in {"release", "llm", "store", "invalidate", "done"} :
          /\ extract' = [extract EXCEPT ![t] = place]
          /\ extract[t] # "none"
          /\ open' \subseteq (IF place = "release" THEN open \cup {<<"extract", t>>} ELSE open)
          /\ extract[t] = "release" => <<"extract", t>> \notin open'
    BY <1>0
  <1>2. /\ facts' \subseteq TurnIds
        /\ cache' \in {<<>>} \cup {<<known>> : known \in SUBSET TurnIds}
    BY DEF ExtractStep, StartExtraction, ReleaseExtraction, Extract, StoreFacts, Invalidate, store, Inv, TypeOK
  <1>3. /\ \A q \in TurnIds : extract'[q] = IF q = t THEN place ELSE extract[q]
        /\ extract' \in [TurnIds -> {"none", "start", "release", "llm", "store", "invalidate", "done"}]
    BY <1>1 DEF Inv, TypeOK
  <1>4. UNCHANGED <<lines, turns, at, loaded, hits, renew, trigger, upto, queue, summary, blank>>
    BY DEF ExtractStep, StartExtraction, ReleaseExtraction, Extract, StoreFacts, Invalidate
  <1>5. open' \subseteq {"extract", "renew"} \X TurnIds
    BY <1>1 DEF Inv, TypeOK
  <1>6. TypeOK'
    BY <1>2, <1>3, <1>4, <1>5 DEF Inv, TypeOK
  <1>7. TasksInv'
    BY <1>1, <1>3, <1>4, SameTasks DEF NoTasks
  <1>8. OpenInv'
    <2>1. ASSUME NEW q \in TurnIds, <<"extract", q>> \in open'
          PROVE  extract'[q] = "release"
      <3>1. CASE q # t
        BY <1>1, <1>3, <2>1, <3>1 DEF Inv, OpenInv
      <3>2. CASE q = t /\ place # "release"
        BY <1>1, <2>1, <3>2 DEF Inv, OpenInv
      <3>3. CASE q = t /\ place = "release"
        BY <1>3, <3>3
      <3> QED BY <3>1, <3>2, <3>3
    <2>2. ASSUME NEW q \in TurnIds, <<"renew", q>> \in open'
          PROVE  renew'[q] \in {"lock", "recheck", "read"}
      BY <1>1, <1>4, <2>2 DEF Inv, OpenInv
    <2> QED BY <2>1, <2>2 DEF OpenInv
  <1>9. QueueInv' /\ SummaryInv'
    <2>1. \A q \in TurnIds : Aside(q)
      BY <1>4 DEF Aside
    <2>2. lines' \in [Sessions -> 0..MaxLines] /\ \A q \in Sessions : lines[q] <= lines'[q]
      BY <1>4, BoundsAssumption DEF Inv, TypeOK
    <2> QED BY <1>4, <2>1, <2>2, SameQueue, SameSummary
  <1> QED BY <1>6, <1>7, <1>8, <1>9 DEF Inv

-----------------------------------------------------------------------------
(* The renewal of summaries *)

\* A renewal's step leaves the turns and the facts alone, and the task has begun.
Renews(t, place) ==
    /\ renew[t] \in {"count"} \cup InLine
    /\ renew' = [renew EXCEPT ![t] = place]
    /\ UNCHANGED <<lines, turns, at, loaded, hits, facts, cache, extract>>

\* Where the tasks are after a step of a renewal; the turns still have theirs.
LEMMA RenewsIs ==
    ASSUME Inv, NEW t \in TurnIds, NEW place \in {"lock", "recheck", "read", "llm", "write", "done"},
           Renews(t, place)
    PROVE  /\ \A q \in TurnIds : renew'[q] = IF q = t THEN place ELSE renew[q]
           /\ renew' \in [TurnIds -> {"none", "count", "lock", "recheck", "read", "llm", "write", "done"}]
           /\ TasksInv'
  <1>1. /\ \A q \in TurnIds : renew'[q] = IF q = t THEN place ELSE renew[q]
        /\ renew' \in [TurnIds -> {"none", "count", "lock", "recheck", "read", "llm", "write", "done"}]
    BY DEF Renews, Inv, TypeOK
  <1>2. TasksInv'
    BY <1>1, SameTasks DEF Renews, NoTasks, InLine, Holding
  <1> QED BY <1>1, <1>2

\* The other tasks' transactions are their own.
LEMMA RenewOpen ==
    ASSUME Inv, NEW t \in TurnIds, NEW place \in {"lock", "recheck", "read", "llm", "write", "done"},
           Renews(t, place),
           open' = open \/ open' = open \cup {<<"renew", t>>} \/ open' = open \ {<<"renew", t>>},
           <<"renew", t>> \in open' => place \in {"lock", "recheck", "read"}
    PROVE  OpenInv' /\ open' \subseteq {"extract", "renew"} \X TurnIds
  <1>1. \A q \in TurnIds : renew'[q] = IF q = t THEN place ELSE renew[q]
    BY RenewsIs
  <1>2. \A q \in TurnIds : /\ <<"extract", q>> \in open' => <<"extract", q>> \in open
                           /\ q # t /\ <<"renew", q>> \in open' => <<"renew", q>> \in open
    OBVIOUS
  <1>3. OpenInv'
    BY <1>1, <1>2 DEF Inv, OpenInv, Renews
  <1> QED BY <1>3 DEF Inv, TypeOK

\* Nobody else of the session holds the lock.
LEMMA OneHolder ==
    ASSUME Inv, NEW t \in TurnIds, renew[t] \in Holding
    PROVE  /\ queue[t[1]] # <<>> /\ Head(queue[t[1]]) = t
           /\ \A q \in TurnIds : q[1] = t[1] /\ renew[q] \in Holding => q = t
  BY DEF Inv, QueueInv

\* A task that stays in the line, or moves up it.
LEMMA StaysInLine ==
    ASSUME Inv, NEW t \in TurnIds, NEW place \in Holding, Renews(t, place), UNCHANGED queue,
           renew[t] \in InLine, renew[t] = "lock" => Head(queue[t[1]]) = t
    PROVE  QueueInv'
  <1>1. \A q \in TurnIds : renew'[q] = IF q = t THEN place ELSE renew[q]
    BY RenewsIs DEF Holding
  <1>2. \A q \in TurnIds : renew'[q] \in InLine <=> renew[q] \in InLine
    BY <1>1 DEF InLine
  <1>3. queue[t[1]] # <<>> /\ Head(queue[t[1]]) = t
    <2>1. CASE renew[t] \in Holding
      BY <2>1, OneHolder
    <2>2. CASE renew[t] = "lock"
      <3>1. t[1] \in Sessions /\ t \in Listed(queue[t[1]])
        BY TurnIs DEF Inv, QueueInv
      <3> QED BY <2>2, <3>1 DEF Listed
    <2> QED BY <2>1, <2>2 DEF InLine
  <1>4. \A q \in TurnIds : renew'[q] \in Holding => queue[q[1]] # <<>> /\ Head(queue[q[1]]) = q
    BY <1>1, <1>3 DEF Inv, QueueInv
  <1> QED BY <1>2, <1>4 DEF Inv, QueueInv, OnceEach, Listed

\* What a task knows of the summary while nobody changes it.
LEMMA KnowsOn ==
    ASSUME Inv, NEW t \in TurnIds, NEW place \in {"lock", "recheck", "read", "llm", "write", "done"},
           Renews(t, place),
           UNCHANGED <<summary, blank>>,
           \A q \in TurnIds : q # t => trigger'[q] = trigger[q] /\ upto'[q] = upto[q],
           place \in InLine => trigger'[t] # 0 /\ trigger'[t] <= lines[t[1]],
           place \in {"read", "llm"} => t[1] \in blank \/ summary[t[1]] < trigger'[t],
           place \in {"llm", "write"} => summary[t[1]] <= upto'[t] /\ upto'[t] <= lines[t[1]]
    PROVE  SummaryInv'
  <1>1. \A q \in TurnIds : renew'[q] = IF q = t THEN place ELSE renew[q]
    BY RenewsIs
  <1> QED BY <1>1 DEF Inv, SummaryInv, Renews

\* Leaving the line.
LEMMA LeavesLine ==
    ASSUME Inv, NEW t \in TurnIds, Renews(t, "done"),
           queue' = [queue EXCEPT ![t[1]] = Without(@, {t})]
    PROVE  QueueInv' /\ queue' \in [Sessions -> Seq(TurnIds)]
  <1> DEFINE s == t[1]
             left == Without(queue[s], {t})
  <1>0. \A q \in TurnIds : renew'[q] = IF q = t THEN "done" ELSE renew[q]
    BY RenewsIs
  <1>1. s \in Sessions /\ queue \in [Sessions -> Seq(TurnIds)]
    BY TurnIs DEF Inv, TypeOK
  <1>2. /\ \A p \in Sessions : queue'[p] = IF p = s THEN left ELSE queue[p]
        /\ queue' = [p \in Sessions |-> IF p = s THEN left ELSE queue[p]]
        /\ \A p \in Sessions : /\ OnceEach(queue[p])
                               /\ Listed(queue[p]) = {q \in TurnIds : q[1] = p /\ renew[q] \in InLine}
    BY <1>1 DEF Inv, QueueInv
  <1>3. left \in Seq(TurnIds) /\ Listed(left) = Listed(queue[s]) \ {t} /\ OnceEach(left)
    <2>1. queue[s] \in Seq(TurnIds) /\ OnceEach(queue[s])
      BY <1>1, <1>2
    <2> QED BY <2>1, WithoutWorks
  <1>4. ASSUME NEW q \in TurnIds, renew'[q] \in Holding
        PROVE  queue'[q[1]] # <<>> /\ Head(queue'[q[1]]) = q
    <2>1. q # t /\ renew[q] \in Holding /\ q[1] \in Sessions
      BY <1>0, <1>4, TurnIs DEF Holding
    <2>2. queue[q[1]] # <<>> /\ Head(queue[q[1]]) = q
      BY <2>1, OneHolder
    <2>3. CASE q[1] = s
      <3>1. queue[s] \in Seq(TurnIds) /\ queue[s] # <<>> /\ Head(queue[s]) \notin {t}
        BY <1>1, <2>1, <2>2, <2>3
      <3>2. left # <<>> /\ Head(left) = Head(queue[s])
        BY <3>1, WithoutOthers
      <3> HIDE DEF left
      <3> QED BY <1>2, <2>1, <2>2, <2>3, <3>2
    <2>4. CASE q[1] # s
      BY <1>2, <2>1, <2>2, <2>4
    <2> QED BY <2>3, <2>4
  <1> HIDE DEF left
  <1>5. ASSUME NEW p \in Sessions
        PROVE  /\ OnceEach(queue'[p])
               /\ Listed(queue'[p]) = {q \in TurnIds : q[1] = p /\ renew'[q] \in InLine}
    <2>1. CASE p = s
      <3>1. queue'[p] = left
        BY <1>2, <2>1
      <3>2. \A q \in TurnIds : renew'[q] \in InLine <=> renew[q] \in InLine /\ q # t
        BY <1>0 DEF InLine, Holding
      <3> QED BY <1>2, <1>3, <2>1, <3>1, <3>2
    <2>2. CASE p # s
      <3>1. queue'[p] = queue[p]
        BY <1>2, <2>2
      <3>2. \A q \in TurnIds : q[1] = p => renew'[q] = renew[q]
        BY <1>0, <2>2
      <3>3. /\ OnceEach(queue[p])
            /\ Listed(queue[p]) = {q \in TurnIds : q[1] = p /\ renew[q] \in InLine}
        BY <1>2
      <3>4. {q \in TurnIds : q[1] = p /\ renew[q] \in InLine} = {q \in TurnIds : q[1] = p /\ renew'[q] \in InLine}
        BY <3>2
      <3> QED BY <3>1, <3>3, <3>4
    <2> QED BY <2>1, <2>2
  <1>6. (\A p \in Sessions : OnceEach(queue'[p])) => \A p \in Sessions : OnceEach(queue[p])'
    BY DEF OnceEach
  <1>7. \A p \in Sessions : Listed(queue[p])' = Listed(queue'[p])
    BY DEF Listed
  <1>8. QueueInv'
    BY <1>4, <1>5, <1>6, <1>7 DEF QueueInv
  <1>9. queue' \in [Sessions -> Seq(TurnIds)]
    BY <1>1, <1>2, <1>3
  <1> QED BY <1>8, <1>9

\* A renewal that is over holds nothing any more.
LEMMA EndKeeps ==
    ASSUME Inv, NEW t \in TurnIds, Renews(t, "done"), EndRenewal(t)
    PROVE  /\ TasksInv' /\ OpenInv' /\ QueueInv'
           /\ renew' \in [TurnIds -> {"none", "count", "lock", "recheck", "read", "llm", "write", "done"}]
           /\ trigger' \in [TurnIds -> 0..MaxLines] /\ upto' \in [TurnIds -> 0..MaxLines]
           /\ queue' \in [Sessions -> Seq(TurnIds)]
           /\ open' \subseteq {"extract", "renew"} \X TurnIds
           /\ \A q \in TurnIds : q # t => trigger'[q] = trigger[q] /\ upto'[q] = upto[q]
  <1>1. /\ renew' \in [TurnIds -> {"none", "count", "lock", "recheck", "read", "llm", "write", "done"}]
        /\ TasksInv'
    BY RenewsIs
  <1>2. OpenInv' /\ open' \subseteq {"extract", "renew"} \X TurnIds
    BY RenewOpen DEF EndRenewal
  <1>3. QueueInv' /\ queue' \in [Sessions -> Seq(TurnIds)]
    BY LeavesLine DEF EndRenewal
  <1>4. /\ trigger' \in [TurnIds -> 0..MaxLines] /\ upto' \in [TurnIds -> 0..MaxLines]
        /\ \A q \in TurnIds : q # t => trigger'[q] = trigger[q] /\ upto'[q] = upto[q]
    BY BoundsAssumption DEF EndRenewal, Inv, TypeOK
  <1> QED BY <1>1, <1>2, <1>3, <1>4

\* A renewal that ends without a summary.
LEMMA EndInv ==
    ASSUME Inv, NEW t \in TurnIds, Renews(t, "done"), EndRenewal(t), UNCHANGED <<summary, blank>>
    PROVE  Inv'
  <1>1. TypeOK'
    BY EndKeeps DEF Renews, Inv, TypeOK
  <1>2. SummaryInv'
    BY EndKeeps, KnowsOn DEF InLine, Holding
  <1> QED BY <1>1, <1>2, EndKeeps DEF Inv

\* A task that is triggered joins the line.
LEMMA CountInv ==
    ASSUME Inv, NEW t \in TurnIds, Count(t)
    PROVE  Inv'
  <1> USE DEF Count, turn, store
  <1> DEFINE s == t[1]
             count == lines[s]
  <1>1. /\ s \in Sessions /\ count \in 0..MaxLines /\ count \in Nat /\ renew[t] = "count"
        /\ queue[s] \in Seq(TurnIds)
    BY BoundsAssumption, TurnIs DEF Inv, TypeOK
  <1>2. CASE EndRenewal(t)
    <2>1. Renews(t, "done")
      BY <1>1, <1>2 DEF Renews, EndRenewal, Renewal
    <2> QED BY <1>2, <2>1, EndInv
  <1>3. CASE /\ count # 0
             /\ trigger' = [trigger EXCEPT ![t] = count]
             /\ queue' = [queue EXCEPT ![s] = Append(@, t)]
             /\ open' = open \cup {<<"renew", t>>}
             /\ Renewal(t, "lock")
             /\ UNCHANGED upto
    <2>1. Renews(t, "lock") /\ UNCHANGED <<summary, blank>>
      BY <1>1, <1>3 DEF Renews, Renewal
    <2>2. /\ \A q \in TurnIds : renew'[q] = IF q = t THEN "lock" ELSE renew[q]
          /\ renew' \in [TurnIds -> {"none", "count", "lock", "recheck", "read", "llm", "write", "done"}]
          /\ TasksInv'
      BY <2>1, RenewsIs
    <2>3. /\ \A q \in TurnIds : trigger'[q] = IF q = t THEN count ELSE trigger[q]
          /\ trigger' \in [TurnIds -> 0..MaxLines]
      BY <1>1, <1>3 DEF Inv, TypeOK
    <2>4. OpenInv' /\ open' \subseteq {"extract", "renew"} \X TurnIds
      BY <1>3, <2>1, RenewOpen
    <2>5. /\ queue' \in [Sessions -> Seq(TurnIds)]
          /\ \A p \in Sessions : queue'[p] = IF p = s THEN Append(queue[s], t) ELSE queue[p]
      BY <1>1, <1>3 DEF Inv, TypeOK
    <2>6. TypeOK'
      BY <1>3, <2>1, <2>2, <2>3, <2>4, <2>5 DEF Renews, Inv, TypeOK
    <2>7. SummaryInv'
      BY <1>1, <1>3, <2>1, <2>3, KnowsOn DEF InLine, Holding
    <2>8. ASSUME NEW p \in Sessions
          PROVE  /\ OnceEach(queue'[p])
                 /\ Listed(queue'[p]) = {q \in TurnIds : q[1] = p /\ renew'[q] \in InLine}
      <3>1. /\ OnceEach(queue[p])
            /\ Listed(queue[p]) = {q \in TurnIds : q[1] = p /\ renew[q] \in InLine}
        BY DEF Inv, QueueInv
      <3>2. CASE p = s
        <4>1. queue'[p] = Append(queue[s], t)
          BY <2>5, <3>2
        <4>2. t \notin Listed(queue[s])
          BY <1>1, <3>1, <3>2 DEF InLine, Holding
        <4>3. /\ OnceEach(Append(queue[s], t))
              /\ Listed(Append(queue[s], t)) = Listed(queue[s]) \cup {t}
          BY <1>1, <3>1, <3>2, <4>2, AppendListed
        <4>5. \A q \in TurnIds : renew'[q] \in InLine <=> renew[q] \in InLine \/ q = t
          BY <2>2 DEF InLine
        <4>6. t[1] = p
          BY <3>2
        <4> HIDE DEF s
        <4> QED BY <3>1, <3>2, <4>1, <4>3, <4>5, <4>6
      <3>3. CASE p # s
        <4>1. queue'[p] = queue[p]
          BY <2>5, <3>3
        <4>2. \A q \in TurnIds : q[1] = p => renew'[q] = renew[q]
          BY <2>2, <3>3
        <4> QED BY <3>1, <4>1, <4>2
      <3> QED BY <3>2, <3>3
    <2>9. ASSUME NEW q \in TurnIds, renew'[q] \in Holding
          PROVE  queue'[q[1]] # <<>> /\ Head(queue'[q[1]]) = q
      <3>1. q # t /\ renew[q] \in Holding /\ q[1] \in Sessions
        BY <2>2, <2>9, TurnIs DEF Holding
      <3>2. queue[q[1]] # <<>> /\ Head(queue[q[1]]) = q
        BY <3>1, OneHolder
      <3>3. CASE q[1] = s
        <4>1. Append(queue[s], t) # <<>> /\ Head(Append(queue[s], t)) = Head(queue[s])
          BY <1>1, <3>2, <3>3
        <4> QED BY <2>5, <3>1, <3>2, <3>3, <4>1
      <3>4. CASE q[1] # s
        BY <2>5, <3>1, <3>2, <3>4
      <3> QED BY <3>3, <3>4
    <2>10. QueueInv'
      <3>1. (\A p \in Sessions : OnceEach(queue'[p])) => \A p \in Sessions : OnceEach(queue[p])'
        BY DEF OnceEach
      <3>2. \A p \in Sessions : Listed(queue[p])' = Listed(queue'[p])
        BY DEF Listed
      <3> QED BY <2>8, <2>9, <3>1, <3>2 DEF QueueInv
    <2> QED BY <2>2, <2>4, <2>6, <2>7, <2>10 DEF Inv
  <1> QED BY <1>2, <1>3

\* The head of the queue takes the lock.
LEMMA LockInv ==
    ASSUME Inv, NEW t \in TurnIds, Lock(t)
    PROVE  Inv'
  <1> USE DEF Lock, turn, store, Renewal
  <1>1. Renews(t, "recheck") /\ renew[t] \in InLine
    BY DEF Renews, InLine
  <1>2. TasksInv' /\ renew' \in [TurnIds -> {"none", "count", "lock", "recheck", "read", "llm", "write", "done"}]
    BY <1>1, RenewsIs
  <1>3. OpenInv'
    BY <1>1, RenewOpen
  <1>4. QueueInv'
    BY <1>1, StaysInLine DEF Holding
  <1>5. SummaryInv'
    BY <1>1, KnowsOn DEF Inv, SummaryInv, InLine, Holding
  <1>6. TypeOK'
    BY <1>2 DEF Inv, TypeOK
  <1> QED BY <1>2, <1>3, <1>4, <1>5, <1>6 DEF Inv

\* Who goes on after the check has found no summary of as many lines as triggered it.
LEMMA RecheckInv ==
    ASSUME Inv, NEW t \in TurnIds, Recheck(t)
    PROVE  Inv'
  <1> USE DEF Recheck, turn, store
  <1>0. renew[t] = "recheck" /\ t[1] \in Sessions
    BY TurnIs
  <1>1. CASE Existing(t)
    <2>1. Renews(t, "done") /\ EndRenewal(t) /\ UNCHANGED <<summary, blank>>
      BY <1>0, <1>1 DEF Renews, EndRenewal, Renewal, InLine, Holding
    <2> QED BY <2>1, EndInv
  <1>2. CASE ~Existing(t)
    <2>1. Renews(t, "read") /\ UNCHANGED <<trigger, upto, queue, open, summary, blank>> /\ renew[t] \in InLine
      BY <1>0, <1>2 DEF Renews, Renewal, InLine, Holding
    <2>2. TasksInv' /\ renew' \in [TurnIds -> {"none", "count", "lock", "recheck", "read", "llm", "write", "done"}]
      BY <2>1, RenewsIs
    <2>3. OpenInv'
      BY <2>1, RenewOpen
    <2>4. QueueInv'
      BY <1>0, <2>1, StaysInLine DEF Holding
    <2>5. t[1] \in blank \/ summary[t[1]] < trigger[t]
      <3>1. /\ lines[t[1]] \in Nat /\ trigger[t] \in Nat /\ summary[t[1]] \in Nat
            /\ trigger[t] # 0 /\ trigger[t] <= lines[t[1]]
        BY <1>0, BoundsAssumption DEF Inv, TypeOK, SummaryInv, InLine, Holding
      <3> QED BY <1>2, <3>1 DEF Existing
    <2>6. SummaryInv'
      BY <1>0, <2>1, <2>5, KnowsOn DEF Inv, SummaryInv, InLine, Holding
    <2>7. TypeOK'
      BY <2>1, <2>2 DEF Renews, Inv, TypeOK
    <2> QED BY <2>2, <2>3, <2>4, <2>6, <2>7 DEF Inv
  <1> QED BY <1>1, <1>2

\* The log that is read holds every line there is.
LEMMA ReadLogInv ==
    ASSUME Inv, NEW t \in TurnIds, ReadLog(t)
    PROVE  Inv'
  <1> USE DEF ReadLog, turn, store
  <1>0. renew[t] = "read" /\ t[1] \in Sessions /\ lines[t[1]] \in 0..MaxLines
    BY TurnIs DEF Inv, TypeOK
  <1>1. Renews(t, "llm") /\ UNCHANGED <<trigger, queue, summary, blank>> /\ renew[t] \in InLine
    BY <1>0 DEF Renews, Renewal, InLine, Holding
  <1>2. TasksInv' /\ renew' \in [TurnIds -> {"none", "count", "lock", "recheck", "read", "llm", "write", "done"}]
    BY <1>1, RenewsIs
  <1>3. OpenInv' /\ open' \subseteq {"extract", "renew"} \X TurnIds
    BY <1>1, RenewOpen
  <1>4. QueueInv'
    BY <1>0, <1>1, StaysInLine DEF Holding
  <1>5. /\ \A q \in TurnIds : upto'[q] = IF q = t THEN lines[t[1]] ELSE upto[q]
        /\ upto' \in [TurnIds -> 0..MaxLines]
    BY <1>0 DEF Inv, TypeOK
  <1>6. SummaryInv'
    <2>1. lines[t[1]] <= lines[t[1]]
      BY <1>0
    <2> QED BY <1>0, <1>1, <1>5, <2>1, KnowsOn DEF Inv, SummaryInv, InLine, Holding
  <1>7. TypeOK'
    BY <1>1, <1>2, <1>3, <1>5 DEF Renews, Inv, TypeOK
  <1> QED BY <1>2, <1>3, <1>4, <1>6, <1>7 DEF Inv

\* The LLM answers or fails.
LEMMA SummariseInv ==
    ASSUME Inv, NEW t \in TurnIds, Summarise(t)
    PROVE  Inv'
  <1> USE DEF Summarise, turn, store
  <1>0. renew[t] = "llm" /\ t[1] \in Sessions
    BY TurnIs
  <1>1. CASE EndRenewal(t)
    <2>1. Renews(t, "done") /\ UNCHANGED <<summary, blank>>
      BY <1>0, <1>1 DEF Renews, EndRenewal, Renewal, InLine, Holding
    <2> QED BY <1>1, <2>1, EndInv
  <1>2. CASE Renewal(t, "write") /\ UNCHANGED <<trigger, upto, queue, open>>
    <2>1. Renews(t, "write") /\ UNCHANGED <<trigger, upto, queue, open, summary, blank>> /\ renew[t] \in InLine
      BY <1>0, <1>2 DEF Renews, Renewal, InLine, Holding
    <2>2. TasksInv' /\ renew' \in [TurnIds -> {"none", "count", "lock", "recheck", "read", "llm", "write", "done"}]
      BY <2>1, RenewsIs
    <2>3. OpenInv'
      BY <1>0, <2>1, RenewOpen DEF Inv, OpenInv
    <2>4. QueueInv'
      BY <1>0, <2>1, StaysInLine DEF Holding
    <2>5. SummaryInv'
      BY <1>0, <2>1, KnowsOn DEF Inv, SummaryInv, InLine, Holding
    <2>6. TypeOK'
      BY <2>1, <2>2 DEF Renews, Inv, TypeOK
    <2> QED BY <2>2, <2>3, <2>4, <2>5, <2>6 DEF Inv
  <1> QED BY <1>1, <1>2

\* The summary that is written is of a log at least as long as the one it replaces.
LEMMA WriteInv ==
    ASSUME Inv, NEW t \in TurnIds, WriteSummary(t)
    PROVE  /\ Inv'
           /\ \A s \in Sessions : summary[s] <= summary'[s]
  <1> USE DEF WriteSummary, turn, store
  <1> DEFINE s == t[1]
  <1>0. /\ renew[t] = "write" /\ s \in Sessions
        /\ upto[t] \in 0..MaxLines /\ upto[t] \in Nat /\ lines[s] \in Nat
        /\ summary[s] <= upto[t] /\ upto[t] <= lines[s]
        /\ \A p \in Sessions : summary[p] \in Nat
    BY TurnIs, BoundsAssumption DEF Inv, TypeOK, SummaryInv
  <1>1. Renews(t, "done") /\ EndRenewal(t)
    BY <1>0 DEF Renews, EndRenewal, Renewal, InLine, Holding
  <1>2. \A p \in Sessions : p # s => summary'[p] = summary[p] /\ (p \in blank' <=> p \in blank)
    <2>1. CASE UNCHANGED <<summary, blank>>
      BY <2>1
    <2>2. CASE /\ summary' = [summary EXCEPT ![s] = upto[t]]
               /\ \E empty \in SUBSET {s} : blank' = (blank \ {s}) \cup empty
      <3>1. PICK empty \in SUBSET {s} : blank' = (blank \ {s}) \cup empty
        BY <2>2
      <3>2. summary \in [Sessions -> 0..MaxLines]
        BY DEF Inv, TypeOK
      <3> QED BY <2>2, <3>1, <3>2
    <2> QED BY <2>1, <2>2
  <1>3. /\ summary' \in [Sessions -> 0..MaxLines] /\ blank' \subseteq Sessions
        /\ summary'[s] \in {upto[t], summary[s]}
    <2>1. CASE summary' = [summary EXCEPT ![s] = upto[t]]
      BY <1>0, <2>1 DEF Inv, TypeOK
    <2>2. CASE UNCHANGED <<summary, blank>>
      BY <1>0, <2>2 DEF Inv, TypeOK
    <2> QED BY <2>1, <2>2
  <1>4. TypeOK'
    BY <1>1, <1>3, EndKeeps DEF Renews, Inv, TypeOK
  <1>5. \A p \in Sessions : summary[p] <= summary'[p]
    BY <1>0, <1>2, <1>3
  <1>6. SummaryInv'
    <2>1. \A q \in TurnIds : renew'[q] = IF q = t THEN "done" ELSE renew[q]
      BY <1>1, RenewsIs
    <2>2. \A p \in Sessions : summary'[p] <= lines[p]
      BY <1>0, <1>2, <1>3 DEF Inv, SummaryInv
    <2>3. ASSUME NEW q \in TurnIds
          PROVE  /\ renew'[q] \in InLine => trigger'[q] # 0 /\ trigger'[q] <= lines[q[1]]
                 /\ renew'[q] \in {"read", "llm"} => q[1] \in blank' \/ summary'[q[1]] < trigger'[q]
                 /\ renew'[q] \in {"llm", "write"} => summary'[q[1]] <= upto'[q] /\ upto'[q] <= lines[q[1]]
      <3>1. CASE q = t
        BY <2>1, <3>1 DEF InLine, Holding
      <3>2. CASE q # t
        <4>1. renew'[q] = renew[q] /\ trigger'[q] = trigger[q] /\ upto'[q] = upto[q] /\ q[1] \in Sessions
          BY <1>1, <2>1, <3>2, EndKeeps, TurnIs
        <4>2. renew[q] \in Holding => q[1] # s
          BY <1>0, <3>2, OneHolder DEF Holding
        <4> QED BY <1>2, <4>1, <4>2 DEF Inv, SummaryInv, Holding
      <3> QED BY <3>1, <3>2
    <2>4. lines' = lines
      OBVIOUS
    <2> QED BY <2>2, <2>3, <2>4 DEF SummaryInv
  <1> QED BY <1>1, <1>4, <1>5, <1>6, EndKeeps DEF Inv

-----------------------------------------------------------------------------
(* All steps *)

\* A restart leaves no task and nobody in a line.
LEMMA RestartInv == Inv /\ Restart => Inv'
  <1> SUFFICES ASSUME Inv, Restart PROVE Inv'
    OBVIOUS
  <1> USE DEF Restart
  <1>1. TypeOK'
    BY BoundsAssumption DEF Inv, TypeOK
  <1>2. TasksInv'
    <2>1. \A t \in TurnIds : NoTasks(t)'
      BY DEF NoTasks
    <2>2. \A s \in Sessions : \A n \in 1..MaxTurns : NoTasks(<<s, n>>)'
      BY <2>1 DEF TurnIds
    <2> QED BY <2>2 DEF TasksInv
  <1>3. OpenInv'
    BY DEF OpenInv
  <1>4. QueueInv'
    <2>1. \A s \in Sessions : queue'[s] = <<>>
      OBVIOUS
    <2>2. \A t \in TurnIds : renew'[t] \notin InLine
      BY DEF InLine, Holding
    <2>3. \A s \in Sessions : OnceEach(queue[s])' /\ Listed(queue[s])' = {}
      BY <2>1 DEF OnceEach, Listed
    <2> QED BY <2>2, <2>3 DEF QueueInv, InLine
  <1>5. SummaryInv'
    BY DEF Inv, SummaryInv, InLine, Holding
  <1> QED BY <1>1, <1>2, <1>3, <1>4, <1>5 DEF Inv

\* Every step keeps the invariant.
LEMMA NextInv == Inv /\ [Next]_vars => Inv'
  <1> SUFFICES ASSUME Inv, [Next]_vars PROVE Inv'
    OBVIOUS
  <1>1. ASSUME NEW s \in Sessions, Begin(s) \/ Whisper(s) \/ Retrieve(s) \/ Finish(s) \/ Abandon(s)
        PROVE  Inv'
    BY <1>1, BeginInv, WhisperInv, RetrieveInv, FinishInv, AbandonInv
  <1>2. ASSUME NEW t \in TurnIds, ExtractStep(t)
        PROVE  Inv'
    BY <1>2, ExtractStepInv
  <1>3. ASSUME NEW t \in TurnIds, RenewStep(t)
        PROVE  Inv'
    BY <1>3, CountInv, LockInv, RecheckInv, ReadLogInv, SummariseInv, WriteInv DEF RenewStep
  <1>4. CASE Restart
    BY <1>4, RestartInv
  <1>5. CASE UNCHANGED vars
    BY <1>5 DEF vars, turn, store, renewal, Inv, TypeOK, TasksInv, NoTasks, OpenInv, QueueInv, OnceEach,
                Listed, SummaryInv
  <1> QED BY <1>1, <1>2, <1>3, <1>4, <1>5 DEF Next

\* Every behaviour keeps the invariant: what a task that holds the summary lock has read of the
\* summary is still true when it writes (memory.py's double check under the session's lock).
THEOREM MemoryCorrect == Spec => []Inv
  <1> QED BY InitInv, NextInv, PTL DEF Spec

\* Neither task of a turn waits for the LLM inside a transaction.
THEOREM TransactionsClosed == Spec => []MemoryInv
  <1>1. Inv => MemoryInv
    BY DEF Inv, OpenInv, MemoryInv, NoTxnDuringLlm
  <1> QED BY <1>1, MemoryCorrect, PTL

\* Tasks that race for one trigger call the LLM once: whoever asks it found no summary of as many
\* lines as triggered him, unless the one there is is empty.
THEOREM SummarisedOnce == Spec => []OneCallPerTrigger
  <1>1. Inv => OneCallPerTrigger
    BY DEF Inv, SummaryInv, OneCallPerTrigger
  <1> QED BY <1>1, MemoryCorrect, PTL

\* A summary is never replaced by one of a shorter log.
THEOREM SummaryNeverShrinks == Spec => SummaryGrows
  <1> DEFINE Grow == \A s \in Sessions : summary'[s] >= summary[s]
  <1>1. Inv /\ [Next]_vars => [Grow]_vars
    <2> SUFFICES ASSUME Inv, Next PROVE Grow
      OBVIOUS
    <2>1. \A s \in Sessions : summary[s] \in Nat
      BY BoundsAssumption DEF Inv, TypeOK
    <2>2. CASE \E t \in TurnIds : WriteSummary(t)
      <3>1. \A s \in Sessions : summary[s] <= summary'[s] /\ summary'[s] \in Nat
        BY <2>2, WriteInv, BoundsAssumption DEF Inv, TypeOK
      <3> QED BY <2>1, <3>1
    <2>3. CASE ~\E t \in TurnIds : WriteSummary(t)
      <3>1. summary' = summary
        BY <2>3 DEF Next, Begin, Whisper, Retrieve, LookUp, Load, Fill, Finish, Abandon, ExtractStep,
                    StartExtraction, ReleaseExtraction, Extract, StoreFacts, Invalidate, RenewStep, Count,
                    Lock, Recheck, ReadLog, Summarise, Restart, renewal
      <3> QED BY <2>1, <3>1
    <2> QED BY <2>2, <2>3
  <1> QED BY <1>1, MemoryCorrect, PTL DEF Spec, SummaryGrows

-----------------------------------------------------------------------------
(* The fact cache *)

\* A step that leaves facts and cache alone and takes no invalidation away.
LEMMA FreshOn ==
    ASSUME Fresh, UNCHANGED store,
           \A t \in TurnIds : extract[t] = "invalidate" => extract'[t] = "invalidate"
    PROVE  Fresh'
  BY DEF Fresh, store

\* The fact cache goes stale in one way only, by a load that overlaps an insert and its
\* invalidation and is put into the cache behind them.
THEOREM StaleOneWay == Spec => StaleByLateFillOnly
  <1>1. Inv /\ [Next]_vars => [Fresh => Fresh' \/ LateFill]_vars
    <2> SUFFICES ASSUME Inv, Next, Fresh PROVE Fresh' \/ LateFill
      OBVIOUS
    <2>1. ASSUME NEW s \in Sessions, Begin(s) \/ Whisper(s) \/ Abandon(s) \/ LookUp(s) \/ Load(s)
          PROVE  Fresh'
      <3>1. UNCHANGED store /\ UNCHANGED extract
        BY <2>1 DEF Begin, Whisper, Abandon, LookUp, Load, store
      <3> QED BY <3>1, FreshOn
    <2>2. ASSUME NEW s \in Sessions, Fill(s)
          PROVE  Fresh' \/ LateFill
      <3>1. CASE loaded[s] = facts
        BY <2>2, <3>1 DEF Fill, Fresh
      <3>2. CASE loaded[s] # facts
        BY <2>2, <3>2 DEF Fill, Now, LateFill, Inv, TypeOK
      <3> QED BY <3>1, <3>2
    <2>3. ASSUME NEW s \in Sessions, Finish(s)
          PROVE  Fresh'
      <3>1. extract[<<s, turns[s]>>] = "none"
        BY <2>3 DEF Finish, Inv, TasksInv, NoTasks
      <3>2. UNCHANGED store /\ extract' = [extract EXCEPT ![<<s, turns[s]>>] = "start"]
        BY <2>3 DEF Finish
      <3>3. \A t \in TurnIds : extract[t] = "invalidate" => extract'[t] = "invalidate"
        BY <3>1, <3>2 DEF Inv, TypeOK
      <3> QED BY <3>2, <3>3, FreshOn
    <2>4. ASSUME NEW t \in TurnIds, ExtractStep(t)
          PROVE  Fresh'
      <3>1. CASE StoreFacts(t) /\ extract' = [extract EXCEPT ![t] = "invalidate"]
        <4>1. extract'[t] = "invalidate"
          BY <3>1 DEF Inv, TypeOK
        <4> QED BY <4>1 DEF Fresh
      <3>2. CASE Invalidate(t)
        BY <3>2 DEF Invalidate, Fresh
      <3>3. CASE /\ UNCHANGED store /\ extract[t] # "invalidate"
                 /\ \E place : extract' = [extract EXCEPT ![t] = place]
        BY <3>3, FreshOn DEF Inv, TypeOK
      <3> QED BY <2>4, <3>1, <3>2, <3>3 DEF ExtractStep, StartExtraction, ReleaseExtraction, Extract,
                                            StoreFacts, Extraction, store
    <2>5. ASSUME NEW t \in TurnIds, RenewStep(t)
          PROVE  Fresh'
      <3>1. UNCHANGED store /\ UNCHANGED extract
        BY <2>5 DEF RenewStep, Count, Lock, Recheck, ReadLog, Summarise, WriteSummary
      <3> QED BY <3>1, FreshOn
    <2>6. CASE Restart
      BY <2>6 DEF Restart, Fresh
    <2> QED BY <2>1, <2>2, <2>3, <2>4, <2>5, <2>6 DEF Next, Retrieve
  <1> QED BY <1>1, MemoryCorrect, PTL DEF Spec, StaleByLateFillOnly

=============================================================================
