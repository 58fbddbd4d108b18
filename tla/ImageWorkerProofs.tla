-------------------------- MODULE ImageWorkerProofs --------------------------
(***************************************************************************)
(* For any characters, prompts, jobs and deaths of the worker: what is     *)
(* stored stays coherent, nothing is rendered twice, a stored portrait is  *)
(* linked, and it is the one asked for last.  The argument is the order of *)
(* the ids: what is stored or has failed is older than the job in hand,    *)
(* and that is older than what is queued.                                  *)
(* At the end, for any times: the watchdog notices outages and recoveries  *)
(* of the image service within the bounds of Flux.                         *)
(***************************************************************************)
EXTENDS ImageWorker, Flux, SequenceLemmas

\* A job with a subject is a portrait's, and its NPC has been there.
JobOK(j) ==
    /\ j \in Jobs
    /\ j.subject # NoSubject => j.hash.prompt \in Portraits
    /\ \A s \in j.subject \cap Npcs : npc[s] # "unborn"

JobsOK ==
    /\ \A k \in DOMAIN queue : JobOK(queue[k])
    /\ cur # <<>> => JobOK(job)

\* The queue is in the order of the ids, behind the job in hand.
InTurn ==
    /\ at = "idle" <=> cur = <<>>
    /\ \A k \in DOMAIN queue :
         /\ queue[k].id <= made
         /\ \A l \in DOMAIN queue : k < l => queue[k].id < queue[l].id
         /\ cur # <<>> => job.id < queue[k].id
    /\ cur # <<>> => job.id <= made

\* Done with before whatever is queued, and before the job in hand is.
Past(id) ==
    /\ id <= made
    /\ \A k \in DOMAIN queue : id < queue[k].id
    /\ at \notin {"idle", "announce"} => id < job.id

PastOnly ==
    /\ \A r \in rows : Past(r.id)
    /\ \A i \in DOMAIN told : told[i].kind = "failed" => Past(told[i].id)

\* What the worker knows at each of its steps.
Stage ==
    /\ at \in {"reference", "render", "write", "persist"} => Found = {}
    /\ at = "persist" => job.id \in files
    /\ at = "announce" => job.id \in RowIds

Inv ==
    /\ TypeOK /\ RowsHaveFiles /\ TellsTheTruth /\ CanonStored /\ PortraitLinked
    /\ JobsOK /\ InTurn /\ PastOnly /\ Stage

\* The first state satisfies the invariant.
LEMMA InitInv == Init => Inv
  <1> SUFFICES ASSUME Init PROVE Inv
    OBVIOUS
  <1>1. /\ made = 0 /\ queue = <<>> /\ rows = {} /\ files = {} /\ at = "idle" /\ cur = <<>>
        /\ told = <<>> /\ crashes = 0
        /\ npc = [s \in Npcs |-> "unborn"] /\ canon = [s \in Subjects |-> NoImage]
    BY DEF Init
  <1>2. TypeOK
    BY <1>1, BoundsAssumption DEF TypeOK, NoImage
  <1>3. RowsHaveFiles /\ TellsTheTruth /\ CanonStored /\ PortraitLinked
    BY <1>1 DEF RowsHaveFiles, RowIds, TellsTheTruth, CanonStored, PortraitLinked
  <1>4. JobsOK /\ InTurn /\ PastOnly /\ Stage
    BY <1>1 DEF JobsOK, InTurn, PastOnly, Stage
  <1> QED BY <1>2, <1>3, <1>4 DEF Inv

\* The types, one by one.
LEMMA Typed ==
    ASSUME Inv
    PROVE  /\ made \in Nat /\ MaxJobs \in Nat /\ made <= MaxJobs /\ Ids \subseteq Nat
           /\ queue \in Seq(Jobs) /\ Len(queue) \in Nat /\ DOMAIN queue = 1..Len(queue)
           /\ \A k \in DOMAIN queue : queue[k] \in Jobs /\ queue[k].id \in Nat
           /\ npc \in [Npcs -> {"unborn", "flushed", "born", "gone"}]
           /\ canon \in [Subjects -> 0..MaxJobs]
           /\ rows \subseteq [id : Ids, hash : Hashes]
           /\ \A r \in rows : r.id \in Nat
           /\ files \subseteq Ids
           /\ cur # <<>> => cur = <<job>> /\ job \in Jobs /\ job.id \in Nat /\ job.id \in Ids
           /\ told \in Seq([kind : {"ready", "failed"}, id : Ids])
           /\ DOMAIN told = 1..Len(told) /\ Len(told) \in Nat
           /\ \A i \in DOMAIN told : told[i].id \in Nat /\ told[i].kind \in {"ready", "failed"}
           /\ crashes \in 0..MaxCrashes
           /\ at \in {"idle", "lookup", "reference", "render", "write", "persist", "announce"}
  <1>1. TypeOK /\ made \in Nat /\ made <= MaxJobs /\ MaxJobs \in Nat /\ Ids \subseteq Nat
    BY BoundsAssumption DEF Inv, TypeOK, Ids
  <1>2. \A j \in Jobs : j.id \in Nat /\ j.id \in Ids
    BY <1>1 DEF Jobs
  <1>3. \A k \in DOMAIN queue : queue[k] \in Jobs
    BY <1>1 DEF TypeOK
  <1>4. cur # <<>> => cur = <<job>> /\ job \in Jobs
    BY <1>1 DEF TypeOK, job
  <1>5. \A r \in rows : r.id \in Nat
    BY <1>1 DEF TypeOK
  <1> DEFINE Said == [kind : {"ready", "failed"}, id : Ids]
  <1>6. \A i \in DOMAIN told : told[i].id \in Nat /\ told[i].kind \in {"ready", "failed"}
    <2>1. told \in Seq(Said)
      BY <1>1 DEF TypeOK
    <2>2. \A e \in Said : e.id \in Nat /\ e.kind \in {"ready", "failed"}
      BY <1>1
    <2> HIDE DEF Said
    <2>3. \A i \in DOMAIN told : told[i] \in Said
      BY <2>1
    <2> QED BY <2>2, <2>3
  <1> QED BY <1>1, <1>2, <1>3, <1>4, <1>5, <1>6 DEF TypeOK

\* What is past stays so.
LEMMA PastStays ==
    ASSUME Inv, rows' = rows, told' = told,
           \A id \in Nat : Past(id) =>
             /\ id <= made'
             /\ \A k \in DOMAIN queue' : id < queue'[k].id
             /\ at' \notin {"idle", "announce"} => id < job'.id
    PROVE  PastOnly'
  <1>1. /\ \A r \in rows : r.id \in Nat /\ Past(r.id)
        /\ \A i \in DOMAIN told : told[i].kind = "failed" => told[i].id \in Nat /\ Past(told[i].id)
    BY Typed DEF Inv, PastOnly
  <1> QED BY <1>1 DEF PastOnly, Past

-----------------------------------------------------------------------------
(* The web process *)

\* A job goes behind the others with the next id.
LEMMA PushInv ==
    ASSUME Inv, NEW prompt \in Portraits \cup Scenes, NEW ref \in 0..MaxJobs,
           NEW subject \in {{s} : s \in Subjects} \cup {NoSubject},
           Push(prompt, ref, subject),
           subject # NoSubject => prompt \in Portraits,
           npc' \in [Npcs -> {"unborn", "flushed", "born", "gone"}],
           \A s \in Npcs : npc[s] # "unborn" => npc'[s] # "unborn",
           \A s \in Npcs : npc[s] = "gone" => npc'[s] = "gone",
           \A s \in subject \cap Npcs : npc'[s] # "unborn",
           UNCHANGED <<canon, rows, files, worker, told>>
    PROVE  Inv'
  <1> USE DEF Inv
  <1>0. PICK new : new = [id |-> made + 1, subject |-> subject,
                          hash |-> [prompt |-> prompt, ref |-> ref]]
    OBVIOUS
  <1>1. /\ made < MaxJobs /\ made' = made + 1 /\ queue' = Append(queue, new)
        /\ canon' = canon /\ rows' = rows /\ files' = files /\ told' = told
        /\ at' = at /\ cur' = cur /\ crashes' = crashes
    BY <1>0 DEF Push, worker
  <1>2. /\ new \in Jobs /\ new.id = made + 1 /\ new.id \in Nat
        /\ new.subject = subject /\ new.hash.prompt = prompt
    BY <1>0, <1>1, Typed DEF Jobs, Hashes, Ids
  <1>3. /\ queue' \in Seq(Jobs)
        /\ DOMAIN queue' = 1..(Len(queue) + 1)
        /\ \A k \in DOMAIN queue : queue'[k] = queue[k]
        /\ \A k \in DOMAIN queue' : k \in DOMAIN queue \/ (k = Len(queue) + 1 /\ queue'[k] = new)
    BY <1>1, <1>2, Typed, AppendElements
  <1>4. TypeOK'
    BY <1>1, <1>3, Typed DEF TypeOK
  <1>5. RowsHaveFiles' /\ TellsTheTruth' /\ CanonStored' /\ PortraitLinked'
    BY <1>1 DEF RowsHaveFiles, RowIds, TellsTheTruth, CanonStored, PortraitLinked, job
  <1>6. JobsOK'
    <2>1. ASSUME NEW k \in DOMAIN queue'
          PROVE  /\ queue'[k] \in Jobs
                 /\ queue'[k].subject # NoSubject => queue'[k].hash.prompt \in Portraits
                 /\ \A s \in queue'[k].subject \cap Npcs : npc'[s] # "unborn"
      <3>1. CASE k \in DOMAIN queue
        BY <1>3, <3>1 DEF JobsOK, JobOK
      <3>2. CASE queue'[k] = new
        BY <1>2, <3>2
      <3> QED BY <1>3, <3>1, <3>2
    <2>2. cur # <<>> => /\ job \in Jobs
                        /\ job.subject # NoSubject => job.hash.prompt \in Portraits
                        /\ \A s \in job.subject \cap Npcs : npc'[s] # "unborn"
      BY DEF JobsOK, JobOK
    <2> QED BY <1>1, <2>1, <2>2 DEF JobsOK, JobOK, job
  <1>7. InTurn'
    <2>1. ASSUME NEW k \in DOMAIN queue'
          PROVE  /\ queue'[k].id <= made'
                 /\ \A l \in DOMAIN queue' : k < l => queue'[k].id < queue'[l].id
                 /\ cur # <<>> => job.id < queue'[k].id
      <3>1. /\ made \in Nat
            /\ DOMAIN queue = 1..Len(queue) /\ Len(queue) \in Nat
            /\ \A i \in DOMAIN queue : queue[i].id \in Nat
            /\ cur # <<>> => job.id \in Nat
        BY Typed
      <3>2. /\ \A i \in DOMAIN queue :
                 /\ queue[i].id <= made
                 /\ \A l \in DOMAIN queue : i < l => queue[i].id < queue[l].id
                 /\ cur # <<>> => job.id < queue[i].id
            /\ cur # <<>> => job.id <= made
        BY DEF InTurn
      <3>3. CASE k \in DOMAIN queue
        BY <1>1, <1>2, <1>3, <3>1, <3>2, <3>3
      <3>4. CASE k = Len(queue) + 1 /\ queue'[k] = new
        BY <1>1, <1>2, <1>3, <3>1, <3>2, <3>4
      <3> QED BY <1>3, <3>3, <3>4
    <2>2. /\ at' = "idle" <=> cur' = <<>>
          /\ cur # <<>> => job.id <= made'
      BY <1>1, Typed DEF InTurn
    <2> QED BY <1>1, <2>1, <2>2 DEF InTurn, job
  <1>8. PastOnly'
    <2>1. ASSUME NEW id \in Nat, Past(id)
          PROVE  /\ id <= made'
                 /\ \A k \in DOMAIN queue' : id < queue'[k].id
                 /\ at' \notin {"idle", "announce"} => id < job'.id
      <3>1. /\ id <= made'
            /\ \A k \in DOMAIN queue' : id < queue'[k].id
        BY <1>1, <1>2, <1>3, <2>1, Typed DEF Past
      <3>2. at' \notin {"idle", "announce"} => id < job'.id
        BY <1>1, <2>1 DEF Past, job
      <3> QED BY <3>1, <3>2
    <2> QED BY <1>1, <2>1, PastStays
  <1>9. Stage'
    BY <1>1 DEF Stage, Found, RowIds, job
  <1> QED BY <1>4, <1>5, <1>6, <1>7, <1>8, <1>9

\* The three that push, and the end of the tool's transaction.
LEMMA WebInv ==
    ASSUME Inv,
           \/ \E s \in Subjects, prompt \in Portraits : RequestPortrait(s, prompt)
           \/ \E s \in Subjects, prompt \in Scenes : RequestScene(s, prompt)
           \/ \E s \in Npcs : SpawnNpc(s) \/ EndSpawn(s)
    PROVE  Inv'
  <1> USE DEF Inv
  <1>0. /\ npc \in [Npcs -> {"unborn", "flushed", "born", "gone"}]
        /\ canon \in [Subjects -> 0..MaxJobs] /\ 0 \in 0..MaxJobs
        /\ Npcs \subseteq Subjects
    BY Typed DEF Subjects
  <1>1. ASSUME NEW s \in Subjects, NEW prompt \in Portraits, RequestPortrait(s, prompt)
        PROVE  Inv'
    <2>1. /\ s \in Subject /\ Push(prompt, NoImage, {s}) /\ npc' = npc
          /\ UNCHANGED <<canon, rows, files, worker, told>>
      BY <1>1 DEF RequestPortrait
    <2>2. \A t \in {s} \cap Npcs : npc'[t] # "unborn"
      BY <2>1, SubjectsAssumption DEF Subject
    <2> HIDE DEF Inv
    <2> QED BY <1>0, <2>1, <2>2, PushInv DEF NoImage
  <1>2. ASSUME NEW s \in Subjects, NEW prompt \in Scenes, RequestScene(s, prompt)
        PROVE  Inv'
    <2>1. /\ Push(prompt, canon[s], NoSubject) /\ npc' = npc
          /\ UNCHANGED <<canon, rows, files, worker, told>>
      BY <1>2 DEF RequestScene
    <2>2. canon[s] \in 0..MaxJobs
      BY <1>0
    <2> HIDE DEF Inv
    <2> QED BY <1>0, <2>1, <2>2, PushInv DEF NoSubject
  <1>3. ASSUME NEW s \in Npcs, npc[s] = "unborn", npc' = [npc EXCEPT ![s] = "flushed"]
        PROVE  /\ npc' \in [Npcs -> {"unborn", "flushed", "born", "gone"}]
               /\ \A t \in Npcs : npc[t] # "unborn" => npc'[t] # "unborn"
               /\ \A t \in Npcs : npc[t] = "gone" => npc'[t] = "gone"
               /\ npc'[s] # "unborn"
    BY <1>0, <1>3
  <1>4. ASSUME NEW s \in Npcs, EndSpawn(s)
        PROVE  /\ npc' \in [Npcs -> {"unborn", "flushed", "born", "gone"}]
               /\ \A t \in Npcs : npc[t] # "unborn" => npc'[t] # "unborn"
               /\ \A t \in Npcs : npc[t] = "gone" => npc'[t] = "gone"
    BY <1>0, <1>4 DEF EndSpawn
  <1>5. ASSUME UNCHANGED <<made, queue, canon, rows, files, worker, told>>,
               npc' \in [Npcs -> {"unborn", "flushed", "born", "gone"}],
               \A t \in Npcs : npc[t] # "unborn" => npc'[t] # "unborn",
               \A t \in Npcs : npc[t] = "gone" => npc'[t] = "gone"
        PROVE  Inv'
    <2>1. /\ made' = made /\ queue' = queue /\ canon' = canon /\ rows' = rows /\ files' = files
          /\ at' = at /\ cur' = cur /\ crashes' = crashes /\ told' = told
      BY <1>5 DEF worker
    <2>2. TypeOK' /\ RowsHaveFiles' /\ TellsTheTruth' /\ CanonStored'
      BY <1>5, <2>1 DEF TypeOK, RowsHaveFiles, RowIds, TellsTheTruth, CanonStored
    <2>3. PortraitLinked'
      BY <1>5, <2>1 DEF PortraitLinked, job
    <2>4. JobsOK'
      BY <1>5, <2>1 DEF JobsOK, JobOK, job
    <2>5. InTurn' /\ PastOnly' /\ Stage'
      BY <2>1 DEF InTurn, PastOnly, Past, Stage, Found, RowIds, job
    <2> QED BY <2>2, <2>3, <2>4, <2>5
  <1>6. ASSUME NEW s \in Npcs, SpawnNpc(s)
        PROVE  Inv'
    <2>1. /\ npc[s] = "unborn" /\ npc' = [npc EXCEPT ![s] = "flushed"]
          /\ UNCHANGED <<canon, rows, files, worker, told>>
      BY <1>6 DEF SpawnNpc
    <2>2. CASE UNCHANGED <<made, queue>>
      BY <1>3, <1>5, <2>1, <2>2
    <2>3. CASE \E prompt \in Portraits : Push(prompt, NoImage, {s})
      <3>1. PICK prompt \in Portraits : Push(prompt, NoImage, {s})
        BY <2>3
      <3>2. \A t \in {s} \cap Npcs : npc'[t] # "unborn"
        BY <1>3, <2>1
      <3> HIDE DEF Inv
      <3> QED BY <1>0, <1>3, <2>1, <3>1, <3>2, PushInv DEF NoImage
    <2> QED BY <1>6, <2>2, <2>3 DEF SpawnNpc
  <1>7. ASSUME NEW s \in Npcs, EndSpawn(s)
        PROVE  Inv'
    BY <1>4, <1>5, <1>7 DEF EndSpawn
  <1> QED BY <1>1, <1>2, <1>6, <1>7

-----------------------------------------------------------------------------
(* The worker *)

\* The job at the head of the queue goes into the worker's hands.
LEMMA PopInv ==
    ASSUME Inv, Pop
    PROVE  Inv'
  <1> USE DEF Inv
  <1>1. /\ at = "idle" /\ at' = "lookup" /\ queue # <<>> /\ queue' = Tail(queue)
        /\ cur' = <<Head(queue)>> /\ made' = made /\ npc' = npc /\ canon' = canon
        /\ rows' = rows /\ files' = files /\ told' = told /\ crashes' = crashes
    BY DEF Pop
  <1>2. /\ Len(queue) \in Nat \ {0} /\ DOMAIN queue = 1..Len(queue)
        /\ queue' \in Seq(Jobs)
        /\ DOMAIN queue' = 1..(Len(queue) - 1)
        /\ \A k \in DOMAIN queue' : queue'[k] = queue[k + 1] /\ k + 1 \in DOMAIN queue
        /\ job' = queue[1] /\ 1 \in DOMAIN queue /\ job' \in Jobs /\ cur' = <<job'>>
    BY <1>1, Typed, TailElements DEF job
  <1>3. TypeOK'
    BY <1>1, <1>2, Typed DEF TypeOK
  <1>4. RowsHaveFiles' /\ TellsTheTruth' /\ CanonStored' /\ PortraitLinked' /\ Stage'
    BY <1>1 DEF RowsHaveFiles, RowIds, TellsTheTruth, CanonStored, PortraitLinked, Stage
  <1>5. JobsOK'
    BY <1>1, <1>2 DEF JobsOK, JobOK
  <1>6. InTurn'
    <2>1. \A k, l \in DOMAIN queue : k < l => queue[k].id < queue[l].id
      BY DEF InTurn
    <2>2. \A k \in DOMAIN queue : queue[k].id <= made
      BY DEF InTurn
    <2>3. ASSUME NEW k \in DOMAIN queue'
          PROVE  /\ queue'[k].id <= made
                 /\ \A l \in DOMAIN queue' : k < l => queue'[k].id < queue'[l].id
                 /\ job'.id < queue'[k].id
      <3>1. 1 < k + 1 /\ \A l \in DOMAIN queue' : k < l => k + 1 < l + 1
        BY <1>2
      <3> QED BY <1>2, <2>1, <2>2, <3>1
    <2>4. job'.id <= made
      BY <1>2, <2>2
    <2> QED BY <1>1, <2>3, <2>4 DEF InTurn
  <1>7. PastOnly'
    <2>1. ASSUME NEW id \in Nat, Past(id)
          PROVE  /\ id <= made'
                 /\ \A k \in DOMAIN queue' : id < queue'[k].id
                 /\ at' \notin {"idle", "announce"} => id < job'.id
      BY <1>1, <1>2, <2>1 DEF Past
    <2> QED BY <1>1, <2>1, PastStays
  <1> QED BY <1>3, <1>4, <1>5, <1>6, <1>7

\* What may be told when the worker is done with a job.
Telling ==
    \/ told' = told
    \/ \E id \in RowIds : told' = Append(told, [kind |-> "ready", id |-> id])
    \/ at # "announce" /\ told' = Append(told, [kind |-> "failed", id |-> job.id])

\* However a job ends, what was stored stays, and what is said of it is true.
LEMMA RestInv ==
    ASSUME Inv, at # "idle", at' = "idle", cur' = <<>>, crashes' \in 0..MaxCrashes,
           UNCHANGED <<web, canon, rows>>, files \subseteq files', files' \subseteq Ids,
           Telling
    PROVE  Inv'
  <1> USE DEF Inv
  <1>0. PICK j : j = job
    OBVIOUS
  <1>1. made' = made /\ queue' = queue /\ npc' = npc /\ canon' = canon /\ rows' = rows
    BY DEF web
  <1>2. /\ cur # <<>> /\ cur = <<j>> /\ j \in Jobs /\ j.id \in Nat /\ j.id \in Ids
        /\ j.id <= made /\ \A k \in DOMAIN queue : j.id < queue[k].id
    BY <1>0, Typed DEF InTurn
  <1>3. at # "announce" => \A r \in rows : r.id < j.id
    BY <1>0 DEF PastOnly, Past
  <1>4. RowIds \subseteq Ids
    BY Typed DEF RowIds
  <1> DEFINE Said == [kind : {"ready", "failed"}, id : Ids]
             TrueSaid(e) == IF e.kind = "ready" THEN e.id \in RowIds ELSE e.id \notin RowIds
             Done(id) == id <= made /\ \A k \in DOMAIN queue : id < queue[k].id
  <1>5. /\ told \in Seq(Said)
        /\ \A i \in DOMAIN told : TrueSaid(told[i])
        /\ \A i \in DOMAIN told : told[i].kind = "failed" => Done(told[i].id)
    BY Typed DEF TellsTheTruth, PastOnly, Past
  <1>6. \/ told' = told
        \/ \E e \in Said : /\ told' = Append(told, e)
                           /\ TrueSaid(e)
                           /\ e.kind = "failed" => Done(e.id)
    <2>1. CASE told' = told
      BY <2>1
    <2>2. CASE \E id \in RowIds : told' = Append(told, [kind |-> "ready", id |-> id])
      BY <1>4, <2>2
    <2>3. CASE at # "announce" /\ told' = Append(told, [kind |-> "failed", id |-> job.id])
      <3>1. j.id \notin RowIds
        BY <1>2, <1>3, <2>3, Typed DEF RowIds
      <3> QED BY <1>0, <1>2, <2>3, <3>1
    <2> QED BY <2>1, <2>2, <2>3 DEF Telling
  <1>7. /\ told' \in Seq(Said)
        /\ \A i \in DOMAIN told' : TrueSaid(told'[i])
        /\ \A i \in DOMAIN told' : told'[i].kind = "failed" => Done(told'[i].id)
    <2>1. CASE told' = told
      BY <1>5, <2>1
    <2>2. ASSUME NEW e \in Said, told' = Append(told, e), TrueSaid(e), e.kind = "failed" => Done(e.id)
          PROVE  /\ told' \in Seq(Said)
                 /\ \A i \in DOMAIN told' : TrueSaid(told'[i])
                 /\ \A i \in DOMAIN told' : told'[i].kind = "failed" => Done(told'[i].id)
      <3> HIDE DEF Said, TrueSaid, Done
      <3>1. /\ Len(told) \in Nat /\ DOMAIN told = 1..Len(told)
            /\ told' \in Seq(Said)
            /\ DOMAIN told' = 1..(Len(told) + 1)
            /\ \A i \in DOMAIN told : told'[i] = told[i]
            /\ told'[Len(told) + 1] = e
        BY <1>5, <2>2, AppendElements
      <3>2. \A i \in DOMAIN told' : told'[i] = e \/ (i \in DOMAIN told /\ told'[i] = told[i])
        BY <3>1
      <3> QED BY <1>5, <2>2, <3>1, <3>2
    <2> HIDE DEF Said, TrueSaid, Done
    <2> QED BY <1>6, <2>1, <2>2
  <1>8. TypeOK'
    BY <1>1, <1>7 DEF TypeOK
  <1>9. RowsHaveFiles' /\ TellsTheTruth' /\ CanonStored' /\ PortraitLinked'
    BY <1>1, <1>7 DEF RowsHaveFiles, RowIds, TellsTheTruth, CanonStored, PortraitLinked
  <1>10. JobsOK' /\ Stage' /\ InTurn'
    BY <1>1 DEF JobsOK, JobOK, Stage, InTurn
  <1>11. PastOnly'
    <2>1. \A r \in rows : Done(r.id)
      BY DEF PastOnly, Past
    <2> QED BY <1>1, <1>7, <2>1 DEF PastOnly, Past
  <1> QED BY <1>8, <1>9, <1>10, <1>11

\* A step on with the job in hand.
LEMMA MoveInv ==
    ASSUME Inv, at \notin {"idle", "announce"},
           at' \in {"reference", "render", "write", "persist"},
           Found = {}, at' = "persist" => job.id \in files',
           UNCHANGED <<web, canon, rows, cur, told, crashes>>,
           files \subseteq files', files' \subseteq Ids
    PROVE  Inv'
  <1> USE DEF Inv
  <1>1. /\ made' = made /\ queue' = queue /\ npc' = npc /\ canon' = canon /\ rows' = rows
        /\ cur' = cur /\ told' = told /\ crashes' = crashes
    BY DEF web
  <1>2. TypeOK' /\ RowsHaveFiles' /\ TellsTheTruth' /\ CanonStored' /\ PortraitLinked'
    BY <1>1 DEF TypeOK, RowsHaveFiles, RowIds, TellsTheTruth, CanonStored, PortraitLinked
  <1>3. JobsOK' /\ InTurn' /\ Stage'
    BY <1>1 DEF JobsOK, JobOK, InTurn, Stage, Found, RowIds, job
  <1>4. PastOnly'
    BY <1>1, PastStays DEF Past, job
  <1> QED BY <1>2, <1>3, <1>4

\* The transaction that stores the image and links its subject.
LEMMA PersistInv ==
    ASSUME Inv, at = "persist", ~WriterBusy, Found = {},
           rows' = rows \cup {[id |-> job.id, hash |-> job.hash]},
           canon' = Link(job.subject), at' = "announce",
           UNCHANGED <<web, files, cur, told, crashes>>
    PROVE  Inv'
  <1> USE DEF Inv
  <1>0. PICK j, new : j = job /\ new = [id |-> j.id, hash |-> j.hash]
    OBVIOUS
  <1>1. /\ made' = made /\ queue' = queue /\ npc' = npc /\ files' = files
        /\ cur' = cur /\ told' = told /\ crashes' = crashes /\ rows' = rows \cup {new}
    BY <1>0 DEF web
  <1>2. /\ cur # <<>> /\ cur = <<j>> /\ j \in Jobs /\ j.id \in Nat /\ j.id \in Ids
        /\ j.id <= made /\ \A k \in DOMAIN queue : j.id < queue[k].id
        /\ j.id \in files /\ JobOK(j) /\ job' = j
    BY <1>0, <1>1, Typed DEF InTurn, Stage, JobsOK, job
  <1>3. /\ new \in [id : Ids, hash : Hashes] /\ new.id = j.id /\ new.hash = j.hash
        /\ j.subject \subseteq Subjects
    BY <1>0, <1>2 DEF Jobs, NoSubject
  <1>4. /\ canon' \in [Subjects -> 0..MaxJobs]
        /\ \A s \in Subjects : canon'[s] = IF s \in j.subject \cap Subject THEN j.id ELSE canon[s]
    BY <1>0, <1>2, Typed DEF Link, Ids
  <1>5. TypeOK'
    BY <1>1, <1>3, <1>4, Typed DEF TypeOK
  <1>6. RowIds' = RowIds \cup {j.id}
    BY <1>1, <1>3 DEF RowIds
  <1>7. RowsHaveFiles'
    BY <1>1, <1>2, <1>6 DEF RowsHaveFiles
  <1>8. TellsTheTruth'
    <2>1. \A i \in DOMAIN told : told[i].kind = "failed" => told[i].id < j.id
      BY <1>0 DEF PastOnly, Past
    <2>2. \A i \in DOMAIN told : told[i].kind \in {"ready", "failed"}
      BY Typed
    <2>3. \A i \in DOMAIN told : told[i].kind # "ready" => told[i].id # j.id
      BY <1>2, <2>1, <2>2, Typed
    <2> QED BY <1>1, <1>6, <2>3 DEF TellsTheTruth
  <1>9. CanonStored'
    <2> SUFFICES ASSUME NEW s \in Subjects, canon'[s] # NoImage
                 PROVE  \E r \in rows' : r.id = canon'[s] /\ r.hash.prompt \in Portraits
      BY DEF CanonStored
    <2>1. CASE s \in j.subject \cap Subject
      <3>1. j.hash.prompt \in Portraits
        BY <1>2, <2>1 DEF JobOK, NoSubject
      <3> QED BY <1>1, <1>3, <1>4, <2>1, <3>1
    <2>2. CASE s \notin j.subject \cap Subject
      BY <1>1, <1>4, <2>2 DEF CanonStored
    <2> QED BY <2>1, <2>2
  <1>10. PortraitLinked'
    <2> SUFFICES ASSUME NEW s \in j.subject
                 PROVE  canon'[s] = j.id \/ (s \in Npcs /\ npc[s] = "gone")
      BY <1>1, <1>2 DEF PortraitLinked
    <2>1. s \in Npcs => npc[s] \notin {"unborn", "flushed"}
      BY <1>2 DEF JobOK, WriterBusy
    <2>2. s \in Subject \/ (s \in Npcs /\ npc[s] = "gone")
      BY <1>3, <2>1, Typed DEF Subject, Subjects
    <2> QED BY <1>3, <1>4, <2>2
  <1>11. JobsOK' /\ InTurn' /\ Stage'
    BY <1>1, <1>2, <1>6 DEF JobsOK, JobOK, InTurn, Stage, job
  <1>12. PastOnly'
    <2>1. \A r \in rows : r.id <= made /\ \A k \in DOMAIN queue : r.id < queue[k].id
      BY DEF PastOnly, Past
    <2>2. \A i \in DOMAIN told : told[i].kind = "failed" =>
             told[i].id <= made /\ \A k \in DOMAIN queue : told[i].id < queue[k].id
      BY DEF PastOnly, Past
    <2> QED BY <1>1, <1>2, <1>3, <2>1, <2>2 DEF PastOnly, Past
  <1> QED BY <1>5, <1>7, <1>8, <1>9, <1>10, <1>11, <1>12

\* Whatever the worker does next keeps the invariant.
LEMMA WorkerInv ==
    ASSUME Inv, Work \/ Drop \/ Crash
    PROVE  Inv'
  <1>0. /\ crashes \in 0..MaxCrashes /\ MaxCrashes \in Nat /\ files \subseteq Ids
        /\ at # "idle" => job.id \in Ids
    BY Typed, BoundsAssumption DEF Inv, InTurn
  <1>1. ASSUME at # "idle", UNCHANGED <<web, canon, rows>>, Fail, at # "announce",
               files \subseteq files', files' \subseteq Ids
        PROVE  Inv'
    <2>1. Telling /\ at' = "idle" /\ cur' = <<>> /\ crashes' = crashes
      BY <1>1 DEF Fail, Tell, Rest, Telling
    <2> QED BY <1>0, <1>1, <2>1, RestInv
  <1>2. CASE Pop
    BY <1>2, PopInv
  <1>3. CASE Lookup
    <2>1. at = "lookup" /\ UNCHANGED <<web, canon, rows, files>>
      BY <1>3 DEF Lookup
    <2>2. CASE /\ Found = {}
               /\ at' = IF job.hash.ref = NoImage THEN "render" ELSE "reference"
               /\ UNCHANGED <<cur, told, crashes>>
      BY <1>0, <2>1, <2>2, MoveInv
    <2>3. CASE \E r \in Found : Tell("ready", r.id) /\ Rest
      <3>1. PICK r \in rows : Tell("ready", r.id) /\ Rest
        BY <2>3 DEF Found
      <3>2. Telling /\ at' = "idle" /\ cur' = <<>> /\ crashes' = crashes
        BY <3>1 DEF Tell, Rest, Telling, RowIds
      <3> QED BY <1>0, <2>1, <3>2, RestInv
    <2> QED BY <1>3, <2>2, <2>3 DEF Lookup
  <1>4. CASE ReadReference
    <2>1. at = "reference" /\ UNCHANGED <<web, canon, rows, files>>
      BY <1>4 DEF ReadReference
    <2>2. CASE at' = "render" /\ UNCHANGED <<cur, told, crashes>>
      BY <1>0, <2>1, <2>2, MoveInv DEF Inv, Stage
    <2>3. CASE Fail
      BY <1>0, <1>1, <2>1, <2>3
    <2> QED BY <1>4, <2>2, <2>3 DEF ReadReference
  <1>5. CASE Render
    <2>1. at = "render" /\ UNCHANGED <<web, canon, rows, files>>
      BY <1>5 DEF Render
    <2>2. CASE at' = "write" /\ UNCHANGED <<cur, told, crashes>>
      BY <1>0, <2>1, <2>2, MoveInv DEF Inv, Stage
    <2>3. CASE Fail
      BY <1>0, <1>1, <2>1, <2>3
    <2> QED BY <1>5, <2>2, <2>3 DEF Render
  <1>6. CASE WriteFile
    <2>1. at = "write" /\ UNCHANGED <<web, canon, rows>>
      BY <1>6 DEF WriteFile
    <2>2. CASE files' = files \cup {job.id} /\ at' = "persist" /\ UNCHANGED <<cur, told, crashes>>
      BY <1>0, <2>1, <2>2, MoveInv DEF Inv, Stage
    <2>3. CASE files' \in {files, files \cup {job.id}} /\ Fail
      BY <1>0, <1>1, <2>1, <2>3
    <2> QED BY <1>6, <2>2, <2>3 DEF WriteFile
  <1>7. CASE Persist
    <2>1. at = "persist" /\ UNCHANGED <<web, files>>
      BY <1>7 DEF Persist
    <2>2. CASE /\ ~WriterBusy
               /\ Found = {}
               /\ rows' = rows \cup {[id |-> job.id, hash |-> job.hash]}
               /\ canon' = Link(job.subject)
               /\ at' = "announce"
               /\ UNCHANGED <<cur, told, crashes>>
      BY <2>1, <2>2, PersistInv
    <2>3. CASE UNCHANGED <<rows, canon>> /\ Fail
      BY <1>0, <1>1, <2>1, <2>3
    <2> QED BY <1>7, <2>2, <2>3 DEF Persist
  <1>8. CASE Announce
    <2>1. at = "announce" /\ UNCHANGED <<web, canon, rows, files>> /\ Tell("ready", job.id) /\ Rest
      BY <1>8 DEF Announce
    <2>2. job.id \in RowIds
      BY <2>1 DEF Inv, Stage
    <2>3. Telling /\ at' = "idle" /\ cur' = <<>> /\ crashes' = crashes
      BY <2>1, <2>2 DEF Tell, Rest, Telling
    <2> QED BY <1>0, <2>1, <2>3, RestInv
  <1>9. CASE Drop
    <2>1. /\ at = "lookup" /\ UNCHANGED <<web, canon, rows, files, told>>
          /\ at' = "idle" /\ cur' = <<>> /\ crashes' = crashes
      BY <1>9 DEF Drop, Rest
    <2> QED BY <1>0, <2>1, RestInv DEF Telling
  <1>10. CASE Crash
    <2>1. /\ at # "idle" /\ UNCHANGED <<web, canon, rows, files, told>>
          /\ at' = "idle" /\ cur' = <<>> /\ crashes < MaxCrashes /\ crashes' = crashes + 1
      BY <1>10 DEF Crash
    <2>2. crashes' \in 0..MaxCrashes
      BY <1>0, <2>1
    <2> QED BY <1>0, <2>1, <2>2, RestInv DEF Telling
  <1> QED BY <1>2, <1>3, <1>4, <1>5, <1>6, <1>7, <1>8, <1>9, <1>10 DEF Work

\* Every step keeps it: one case for each action, with the lemma that treats it.
LEMMA NextInv == Inv /\ [Next]_vars => Inv'
  <1> SUFFICES ASSUME Inv, [Next]_vars PROVE Inv'
    OBVIOUS
  <1>1. CASE UNCHANGED vars
    <2>1. /\ made' = made /\ queue' = queue /\ npc' = npc /\ canon' = canon /\ rows' = rows
          /\ files' = files /\ at' = at /\ cur' = cur /\ crashes' = crashes /\ told' = told
      BY <1>1 DEF vars, web, worker
    <2>2. TypeOK' /\ RowsHaveFiles' /\ TellsTheTruth' /\ CanonStored' /\ PortraitLinked'
      BY <2>1 DEF Inv, TypeOK, RowsHaveFiles, RowIds, TellsTheTruth, CanonStored, PortraitLinked, job
    <2>3. JobsOK' /\ InTurn' /\ PastOnly' /\ Stage'
      BY <2>1 DEF Inv, JobsOK, JobOK, InTurn, PastOnly, Past, Stage, Found, RowIds, job
    <2> QED BY <2>2, <2>3 DEF Inv
  <1>2. CASE Next
    BY <1>2, WebInv, WorkerInv DEF Next
  <1> QED BY <1>1, <1>2

-----------------------------------------------------------------------------
(* Theorems *)

\* The whole invariant: the ids are in order, and every step of the worker is
\* where its checks have put it.
THEOREM ImageWorkerCorrect == Spec => []Inv
  BY InitInv, NextInv, PTL DEF Spec

\* Whatever is asked for and wherever the worker dies, rows have files,
\* announcements are true, and a canonical portrait is a stored portrait.
THEOREM StoreCoherent == Spec => []StoreInv
  <1>1. Inv => StoreInv
    BY DEF Inv, StoreInv
  <1> QED BY <1>1, ImageWorkerCorrect, PTL

\* What is stored is not rendered again: the one search at the job's start is enough until
\* its commit, since nobody else inserts.  A rendering that was never stored is not covered.
THEOREM NeverRenderedTwice == Spec => []RendersOnce
  <1>1. Inv => RendersOnce
    BY DEF Inv, Stage, RendersOnce
  <1> QED BY <1>1, ImageWorkerCorrect, PTL

\* A portrait that is stored is linked to its subject, if the subject is there:
\* an NPC whose transaction is open holds the writer, and the insert waits.
THEOREM StoredIsLinked == Spec => []PortraitLinked
  <1>1. Inv => PortraitLinked
    BY DEF Inv
  <1> QED BY <1>1, ImageWorkerCorrect, PTL

\* A canonical portrait is replaced only by one asked for later: the only step
\* that links has an id in hand that is above every stored one.
THEOREM LatestWins == Spec => LatestPortraitWins
  <1>1. Inv /\ [Next]_vars => [\A s \in Subjects : canon'[s] >= canon[s]]_vars
    <2> SUFFICES ASSUME Inv, Next, NEW s \in Subjects
                 PROVE  canon'[s] >= canon[s]
      OBVIOUS
    <2>1. canon[s] \in 0..MaxJobs /\ canon[s] \in Nat
      BY Typed
    <2>2. CASE canon' = canon
      BY <2>1, <2>2
    <2>3. CASE at = "persist" /\ canon' = Link(job.subject)
      <3>1. canon[s] # NoImage => canon[s] < job.id
        BY <2>3 DEF Inv, CanonStored, PastOnly, Past
      <3>2. job.id \in Nat
        BY <2>3, Typed DEF Inv, InTurn
      <3>3. canon'[s] \in {job.id, canon[s]}
        BY <2>3 DEF Link
      <3> QED BY <2>1, <3>1, <3>2, <3>3 DEF NoImage
    <2> QED
      BY <2>2, <2>3 DEF Next, RequestPortrait, RequestScene, SpawnNpc, EndSpawn, Work, Pop, Lookup,
           ReadReference, Render, WriteFile, Persist, Announce, Drop, Crash
  <1> QED BY <1>1, ImageWorkerCorrect, PTL DEF Spec, LatestPortraitWins

-----------------------------------------------------------------------------
(* The watchdog of the image service *)

WatchTyped ==
    /\ up \in BOOLEAN
    /\ serving \in {"nobody", "probe", "job", "abandoned"}
    /\ dog \in [stage : {"starting", "queued", "lost", "sleeping", "dead"}, t : Nat, served : Nat]
    /\ since \in Nat /\ outage \in Nat /\ calm \in Nat
    /\ said \in {"ok", "degraded"} /\ key \in {"ok", "degraded"}

\* A service that is up and has somebody in its line is at work; one that is down serves nobody.
LineInv ==
    /\ serving = "probe" => dog.stage = "queued"
    /\ dog.stage = "queued" => up /\ serving # "nobody"
    /\ ~up => serving = "nobody"

\* What the watchdog says is in the key, and no stage lasts longer than it may.
StageInv ==
    /\ dog.stage = "starting" => since = 0 /\ said = "ok"
    /\ dog.stage \notin {"starting", "dead"} => key = said
    /\ dog.stage \in {"starting", "dead"} => outage = 0 /\ calm = 0
    /\ dog.stage \in {"queued", "lost"} => dog.t <= ProbeTimeout
    /\ dog.stage = "sleeping" => dog.t <= Poll
    /\ dog.served <= Answer

\* An outage the key does not show is younger than the threshold and the stages it has lasted.
OutageInv ==
    /\ up => outage = 0
    /\ outage <= since \/ Threshold <= since
    /\ said = "ok" /\ dog.stage = "sleeping" => outage < Threshold + dog.t
    /\ said = "ok" /\ dog.stage = "lost" => outage < Threshold + Poll + dog.t

\* A recovery the key does not show is younger than one lost probe and the stages behind it; a
\* probe that waits while FLUX renders has the calm begin with its own service.
CalmInv ==
    /\ ~up => calm = 0
    /\ dog.stage = "lost" => calm <= dog.t
    /\ dog.stage = "queued" => dog.served = dog.t \/ calm <= dog.served
    /\ said = "degraded" /\ dog.stage = "sleeping" => calm <= ProbeTimeout + dog.t
    /\ said = "degraded" /\ dog.stage = "queued" => calm <= ProbeTimeout + Poll + dog.served

WatchInv == WatchTyped /\ LineInv /\ StageInv /\ OutageInv /\ CalmInv

\* The first state satisfies the invariant.
LEMMA WatchInit == FluxInit => WatchInv
  BY TimesAssumption DEF FluxInit, Starting, WatchInv, WatchTyped, LineInv, StageInv, OutageInv, CalmInv

\* The steps of renderings leave the watchdog alone.
LEMMA RenderingInv ==
    ASSUME WatchInv, UNCHANGED <<up, dog, since, said, key, outage>>, calm' \in {0, calm}, LineInv',
           serving' \in {"nobody", "probe", "job", "abandoned"}
    PROVE  WatchInv'
  <1>1. calm \in Nat /\ calm' \in Nat /\ calm' <= calm /\ (calm = 0 => calm' = 0)
    BY DEF WatchInv, WatchTyped
  <1>2. WatchTyped'
    BY <1>1 DEF WatchInv, WatchTyped
  <1>3. StageInv'
    BY <1>1 DEF WatchInv, StageInv
  <1>4. OutageInv'
    BY DEF WatchInv, OutageInv
  <1>5. CalmInv'
    BY <1>1, TimesAssumption DEF WatchInv, WatchTyped, CalmInv
  <1> QED BY <1>2, <1>3, <1>4, <1>5 DEF WatchInv

\* Whatever the worker does with its job, and FLUX with a rendering nobody waits for.
LEMMA JobStepInv ==
    ASSUME WatchInv,
           \/ Free \/ FirstPost \/ Retry \/ JobDone \/ Refused \/ JobFailed
    PROVE  WatchInv'
  <1> USE DEF service, watch, ghosts, Following, Left
  <1>1. CASE Free
    BY <1>1, RenderingInv DEF Free, WatchInv, WatchTyped, LineInv
  <1>2. ASSUME NEW n, Post(n) PROVE WatchInv'
    BY <1>2, RenderingInv DEF Post, Served, WatchInv, WatchTyped, LineInv
  <1>3. CASE JobDone
    BY <1>3, RenderingInv DEF JobDone, WatchInv, WatchTyped, LineInv
  <1>4. CASE Refused
    BY <1>4, RenderingInv DEF Refused, WatchInv, WatchTyped, LineInv
  <1>5. CASE JobFailed
    BY <1>5, RenderingInv DEF JobFailed, WatchInv, WatchTyped, LineInv
  <1> QED BY <1>1, <1>2, <1>3, <1>4, <1>5 DEF FirstPost, Retry

\* A probe goes into the line, or nowhere.
LEMMA ProbeInv ==
    ASSUME WatchInv, Start \/ Wake
    PROVE  WatchInv'
  <1>1. /\ dog' = [stage |-> IF up THEN "queued" ELSE "lost", t |-> 0, served |-> 0]
        /\ serving' = IF up /\ serving = "nobody" THEN "probe" ELSE serving
        /\ UNCHANGED <<up, since, said, outage, calm>>
    BY DEF Start, Wake, Probe, DogStage, Sent, Served, ghosts
  <1>2. \/ dog.stage = "starting" /\ key' = "ok"
        \/ dog.stage = "sleeping" /\ dog.t = Poll /\ key' = key
    BY DEF Start, Wake
  <1> QED BY <1>1, <1>2, TimesAssumption DEF WatchInv, WatchTyped, LineInv, StageInv, OutageInv, CalmInv

\* A probe that was answered.
LEMMA AnsweredInv ==
    ASSUME WatchInv, ProbeAnswered
    PROVE  WatchInv'
  <1>1. /\ serving = "probe" /\ dog' = [stage |-> "sleeping", t |-> 0, served |-> 0]
        /\ serving' \in {"job", "nobody"} /\ since' = 0 /\ said' = "ok"
        /\ key' = IF said = "ok" THEN key ELSE "ok"
        /\ UNCHANGED <<up, outage, calm>>
    BY DEF ProbeAnswered, DogStage, Following, Report, ghosts, WatchInv, WatchTyped
  <1> QED BY <1>1, TimesAssumption DEF WatchInv, WatchTyped, LineInv, StageInv, OutageInv, CalmInv

\* A probe that failed: calm for no longer than it was out, as one that was served has its answer.
LEMMA FailedInv ==
    ASSUME WatchInv, ProbeFailed
    PROVE  WatchInv'
  <1>1. /\ dog' = [stage |-> "sleeping", t |-> 0, served |-> 0]
        /\ since' = since
        /\ UNCHANGED <<up, outage, calm>>
        /\ \/ since >= Threshold /\ said' = "degraded" /\ key' = IF said = "degraded" THEN key ELSE "degraded"
           \/ ~(since >= Threshold) /\ UNCHANGED <<said, key>>
    BY DEF ProbeFailed, Judge, DogStage, Report, ghosts
  <1>2. \/ serving = "probe" /\ serving' \in {"abandoned", "job", "nobody"}
        \/ serving # "probe" /\ serving' = serving
    BY DEF ProbeFailed, Left, Following
  <1>3. dog.stage = "lost" \/ (dog.stage = "queued" /\ dog.t = ProbeTimeout)
    BY DEF ProbeFailed
  <1>4. calm <= ProbeTimeout
    BY <1>3, TimesAssumption DEF WatchInv, WatchTyped, StageInv, CalmInv
  <1>5. WatchTyped' /\ LineInv' /\ StageInv'
    BY <1>1, <1>2, <1>3, TimesAssumption DEF WatchInv, WatchTyped, LineInv, StageInv
  <1>6. OutageInv'
    BY <1>1, TimesAssumption DEF WatchInv, WatchTyped, OutageInv
  <1>7. CalmInv'
    BY <1>1, <1>4, TimesAssumption DEF WatchInv, WatchTyped, CalmInv
  <1> QED BY <1>5, <1>6, <1>7 DEF WatchInv

\* A watchdog that ends, or begins anew, has no account to keep.
LEMMA NoWatchInv ==
    ASSUME WatchInv, Die \/ Restart
    PROVE  WatchInv'
  <1>1. /\ outage' = 0 /\ calm' = 0 /\ up' = up /\ key' = key
        /\ \/ dog' = [stage |-> "dead", t |-> 0, served |-> 0] /\ UNCHANGED <<since, said>>
           \/ dog' = [stage |-> "starting", t |-> 0, served |-> 0] /\ since' = 0 /\ said' = "ok"
    BY DEF Die, Restart, DogStage, Starting
  <1>2. /\ serving' \in {"job", "nobody", "abandoned"}
        /\ serving = "nobody" => serving' = "nobody"
    BY DEF Die, Restart, Left, Following, WatchInv, WatchTyped
  <1> QED BY <1>1, <1>2, TimesAssumption DEF WatchInv, WatchTyped, LineInv, StageInv, OutageInv, CalmInv

\* FLUX goes down or comes up.
LEMMA ServiceInv ==
    ASSUME WatchInv, Down \/ Up
    PROVE  WatchInv'
  <1>1. CASE Down
    <2>1. /\ up /\ up' = FALSE /\ serving' = "nobody" /\ calm' = 0 /\ UNCHANGED <<since, said, key, outage>>
          /\ dog' = [dog EXCEPT !.stage = IF dog.stage = "queued" THEN "lost" ELSE dog.stage]
      BY <1>1 DEF Down
    <2>2. /\ dog' \in [stage : {"starting", "lost", "sleeping", "dead"}, t : Nat, served : Nat]
          /\ dog'.stage = IF dog.stage = "queued" THEN "lost" ELSE dog.stage
          /\ dog'.t = dog.t /\ dog'.served = dog.served
      BY <2>1 DEF WatchInv, WatchTyped
    <2>3. WatchTyped'
      BY <2>1, <2>2 DEF WatchInv, WatchTyped
    <2> QED BY <2>1, <2>2, <2>3, TimesAssumption DEF WatchInv, WatchTyped, LineInv, StageInv, OutageInv, CalmInv
  <1>2. CASE Up
    <2>1. ~up /\ up' = TRUE /\ outage' = 0 /\ UNCHANGED <<serving, dog, since, said, key, calm>>
      BY <1>2 DEF Up, watch
    <2>2. WatchTyped' /\ LineInv' /\ StageInv'
      BY <2>1 DEF WatchInv, WatchTyped, LineInv, StageInv
    <2>3. OutageInv'
      BY <2>1, TimesAssumption DEF WatchInv, WatchTyped, OutageInv
    <2>4. CalmInv'
      BY <2>1 DEF WatchInv, CalmInv
    <2> QED BY <2>2, <2>3, <2>4 DEF WatchInv
  <1> QED BY <1>1, <1>2

\* A tick is counted by the stage and by what it adds to the outage or the calm.
LEMMA TickInv ==
    ASSUME WatchInv, Tick
    PROVE  WatchInv'
  <1> USE DEF Smaller
  <1>1. /\ dog.stage # "starting"
        /\ dog.stage \in {"queued", "lost"} => dog.t < ProbeTimeout
        /\ dog.stage = "sleeping" => dog.t < Poll
        /\ dog.served < Answer
    BY DEF Tick, Quiet, Asking
  <1>2. /\ UNCHANGED <<up, serving, said, key>>
        /\ dog' = IF dog.stage = "dead" THEN dog
                  ELSE [dog EXCEPT !.t = dog.t + 1,
                                   !.served = IF serving = "probe" THEN dog.served + 1 ELSE dog.served]
    BY DEF Tick, service
  <1>3. /\ dog' \in [stage : {"starting", "queued", "lost", "sleeping", "dead"}, t : Nat, served : Nat]
        /\ dog'.stage = dog.stage
        /\ dog.stage # "dead" => /\ dog'.t = dog.t + 1
                                 /\ dog'.served = IF serving = "probe" THEN dog.served + 1 ELSE dog.served
        /\ dog.stage = "dead" => dog' = dog
    <2>1. dog \in [stage : {"starting", "queued", "lost", "sleeping", "dead"}, t : Nat, served : Nat]
      BY DEF WatchInv, WatchTyped
    <2>2. CASE dog.stage = "dead"
      BY <1>2, <2>1, <2>2
    <2>3. CASE dog.stage # "dead"
      <3> DEFINE served == IF serving = "probe" THEN dog.served + 1 ELSE dog.served
      <3>1. dog' = [dog EXCEPT !.t = dog.t + 1, !.served = served]
        BY <1>2, <2>3
      <3>2. dog.t + 1 \in Nat /\ served \in Nat
        BY <2>1
      <3> HIDE DEF served
      <3>3. /\ dog' \in [stage : {"starting", "queued", "lost", "sleeping", "dead"}, t : Nat, served : Nat]
            /\ dog'.stage = dog.stage /\ dog'.t = dog.t + 1 /\ dog'.served = served
        BY <2>1, <3>1, <3>2
      <3> QED BY <2>3, <3>3 DEF served
    <2> QED BY <2>2, <2>3
  <1>4. /\ since' \in Nat /\ outage' \in Nat /\ calm' \in Nat
        /\ since' = since + 1 \/ Threshold <= since'
        /\ outage' <= outage + 1 /\ (up \/ dog.stage = "dead" => outage' = 0)
        /\ calm' <= calm + 1
        /\ (~up \/ dog.stage = "dead" \/ serving \notin {"nobody", "probe"} => calm' = 0)
    <2>1. /\ {Threshold, Poll, ProbeTimeout, Answer} \subseteq Nat
          /\ since \in Nat /\ outage \in Nat /\ calm \in Nat
      BY TimesAssumption DEF WatchInv, WatchTyped
    <2>2. Noticed + 1 \in Nat /\ Recovered + 1 \in Nat
      BY <2>1 DEF Noticed, Recovered
    <2>3. since' \in Nat /\ (since' = since + 1 \/ Threshold <= since')
      BY <2>1 DEF Tick
    <2>4. outage' \in Nat /\ outage' <= outage + 1 /\ (up \/ dog.stage = "dead" => outage' = 0)
      BY <2>1, <2>2 DEF Tick
    <2>5. /\ calm' \in Nat /\ calm' <= calm + 1
          /\ (~up \/ dog.stage = "dead" \/ serving \notin {"nobody", "probe"} => calm' = 0)
      BY <2>1, <2>2 DEF Tick
    <2> QED BY <2>3, <2>4, <2>5
  <1>5. WatchTyped' /\ LineInv'
    BY <1>2, <1>3, <1>4 DEF WatchInv, WatchTyped, LineInv
  <1>6. StageInv'
    <2>1. /\ {Poll, ProbeTimeout, Answer} \subseteq Nat /\ dog.t \in Nat /\ dog.served \in Nat
          /\ dog.stage \in {"starting", "queued", "lost", "sleeping", "dead"}
      BY TimesAssumption DEF WatchInv, WatchTyped
    <2>2. dog.stage = "dead" => StageInv'
      BY <1>2, <1>3, <1>4 DEF WatchInv, StageInv
    <2>3. dog.stage # "dead" => dog'.t = dog.t + 1 /\ dog'.served <= Answer
      BY <1>1, <1>3, <2>1
    <2> QED BY <1>1, <1>2, <1>3, <2>1, <2>2, <2>3 DEF WatchInv, StageInv
  <1>7. OutageInv'
    <2>1. /\ Threshold \in Nat \ {0} /\ Poll \in Nat /\ dog.t \in Nat
          /\ since \in Nat /\ outage \in Nat
      BY TimesAssumption DEF WatchInv, WatchTyped
    <2>2. outage' <= since' \/ Threshold <= since'
      BY <1>4, <2>1 DEF WatchInv, OutageInv
    <2>3. said' = "ok" /\ dog'.stage = "sleeping" => outage' < Threshold + dog'.t
      BY <1>2, <1>3, <1>4, <2>1 DEF WatchInv, OutageInv
    <2>4. said' = "ok" /\ dog'.stage = "lost" => outage' < Threshold + Poll + dog'.t
      BY <1>2, <1>3, <1>4, <2>1 DEF WatchInv, OutageInv
    <2> QED BY <1>2, <1>4, <2>2, <2>3, <2>4 DEF OutageInv
  <1>8. CalmInv'
    <2>1. /\ ProbeTimeout \in Nat /\ Poll \in Nat /\ dog.t \in Nat /\ dog.served \in Nat
          /\ calm \in Nat
      BY TimesAssumption DEF WatchInv, WatchTyped
    <2>2. dog'.stage = "lost" => calm' <= dog'.t
      BY <1>3, <1>4, <2>1 DEF WatchInv, CalmInv
    <2>3. ASSUME dog.stage = "queued"
          PROVE  dog'.served = dog'.t \/ calm' <= dog'.served
      <3>1. CASE serving = "probe"
        BY <1>3, <1>4, <2>1, <2>3, <3>1 DEF WatchInv, CalmInv
      <3>2. CASE serving # "probe"
        BY <1>3, <1>4, <2>1, <2>3, <3>2 DEF WatchInv, LineInv
      <3> QED BY <3>1, <3>2
    <2>4. said' = "degraded" /\ dog'.stage = "sleeping" => calm' <= ProbeTimeout + dog'.t
      BY <1>2, <1>3, <1>4, <2>1 DEF WatchInv, CalmInv
    <2>5. ASSUME said = "degraded", dog.stage = "queued"
          PROVE  calm' <= ProbeTimeout + Poll + dog'.served
      <3>1. CASE serving = "probe"
        BY <1>3, <1>4, <2>1, <2>5, <3>1 DEF WatchInv, CalmInv
      <3>2. CASE serving # "probe"
        BY <1>3, <1>4, <2>1, <2>5, <3>2 DEF WatchInv, LineInv
      <3> QED BY <3>1, <3>2
    <2> QED BY <1>2, <1>3, <1>4, <2>2, <2>3, <2>4, <2>5 DEF CalmInv
  <1> QED BY <1>5, <1>6, <1>7, <1>8 DEF WatchInv

\* Every step keeps the invariant.
LEMMA WatchNext == WatchInv /\ [FluxNext]_flux => WatchInv'
  <1> SUFFICES ASSUME WatchInv, [FluxNext]_flux PROVE WatchInv'
    OBVIOUS
  <1>1. CASE UNCHANGED flux
    BY <1>1 DEF flux, service, watch, ghosts, WatchInv, WatchTyped, LineInv, StageInv,
                OutageInv, CalmInv
  <1>2. CASE FluxNext
    BY <1>2, JobStepInv, ProbeInv, AnsweredInv, FailedInv, NoWatchInv, ServiceInv, TickInv DEF FluxNext
  <1> QED BY <1>1, <1>2

\* For any times, however FLUX and the worker interleave: the account of a probe's stages, of
\* outages and of calm holds.
THEOREM WatchCorrect == FluxSpec => []WatchInv
  <1> QED BY WatchInit, WatchNext, PTL DEF FluxSpec

\* FLUX is never down for longer than the threshold, one sleep and one probe under a living
\* watchdog without the key saying so.
THEOREM OutagesNoticed == FluxSpec => []OutageNoticed
  <1>1. WatchInv => OutageNoticed
    <2> SUFFICES ASSUME WatchInv, outage > Noticed PROVE key = "degraded"
      BY DEF OutageNoticed
    <2>1. /\ outage > Threshold + Poll + ProbeTimeout
          /\ {Threshold, Poll, ProbeTimeout} \subseteq Nat /\ outage \in Nat /\ dog.t \in Nat
          /\ dog.stage \in {"starting", "queued", "lost", "sleeping", "dead"}
          /\ said \in {"ok", "degraded"}
      BY TimesAssumption DEF Noticed, WatchInv, WatchTyped
    <2>2. dog.stage \in {"lost", "sleeping"}
      BY <2>1 DEF WatchInv, LineInv, StageInv, OutageInv
    <2>3. said # "ok"
      BY <2>1, <2>2 DEF WatchInv, StageInv, OutageInv
    <2> QED BY <2>1, <2>2, <2>3 DEF WatchInv, StageInv
  <1> QED BY <1>1, WatchCorrect, PTL

\* Once FLUX is up and renders nothing, the key says ok after one lost probe, one sleep and one
\* answer, also the key that a worker's last life left.
THEOREM RecoveriesNoticed == FluxSpec => []RecoveryNoticed
  <1>1. WatchInv => RecoveryNoticed
    BY TimesAssumption DEF RecoveryNoticed, Recovered, WatchInv, WatchTyped, StageInv,
           CalmInv
  <1> QED BY <1>1, WatchCorrect, PTL

=============================================================================
