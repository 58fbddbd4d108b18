---------------------------- MODULE ImageWorker ----------------------------
(***************************************************************************)
(* The image pipeline: the web process pushes jobs onto images:queue       *)
(* (images/portrait.py, images/queue.py), from the portrait endpoints and  *)
(* from the spawn_npc and generate_scene_image tool handlers; the worker   *)
(* process (images/worker.py) pops them one at a time, renders, writes the *)
(* file, stores the row, links the subject and publishes the outcome.      *)
(*                                                                         *)
(* Image ids are 1, 2, ... in the order the enqueuers allocate them.       *)
(***************************************************************************)
EXTENDS Naturals, Sequences, FiniteSets

CONSTANTS
    Pcs,          \* characters: they exist from the start
    Npcs,         \* spawned during play
    Portraits,    \* what goes into a portrait's prompt_hash
    Scenes,       \* what goes into a scene's, the reference apart
    MaxJobs,      \* bound: jobs ever pushed
    MaxCrashes    \* bound: deaths of the worker process

ASSUME SubjectsAssumption == Pcs \cap Npcs = {} /\ Portraits \cap Scenes = {}
ASSUME BoundsAssumption == MaxJobs \in Nat /\ MaxCrashes \in Nat

Subjects == Pcs \cup Npcs
Ids == 1..MaxJobs
NoImage == 0
NoSubject == {}
Hashes == [prompt: Portraits \cup Scenes, ref: 0..MaxJobs]
Jobs == [id: Ids, hash: Hashes, subject: {{s} : s \in Subjects} \cup {NoSubject}]

VARIABLES
    made,      \* image ids allocated so far
    queue,     \* images:queue
    npc,       \* "unborn", "flushed" (its transaction is open), "born" or "gone"
    canon,     \* canonical_image_id of each character and NPC
    rows,      \* generated_images
    files,     \* <storage>/<id>.png
    at,        \* where the worker is in _process_job
    cur,       \* the job it works on: <<>> or <<job>>
    told,      \* image_ready and image_failed as they were published
    crashes

web == <<made, queue, npc>>
worker == <<at, cur, crashes>>
vars == <<web, canon, rows, files, worker, told>>

RowIds == {r.id : r \in rows}
\* Characters and NPCs a database session can see.
Subject == Pcs \cup {s \in Npcs : npc[s] = "born"}

Init ==
    /\ made = 0
    /\ queue = <<>>
    /\ npc = [s \in Npcs |-> "unborn"]
    /\ canon = [s \in Subjects |-> NoImage]
    /\ rows = {}
    /\ files = {}
    /\ at = "idle"
    /\ cur = <<>>
    /\ told = <<>>
    /\ crashes = 0

-----------------------------------------------------------------------------
(* The web process *)

Push(prompt, ref, subject) ==
    /\ made < MaxJobs
    /\ made' = made + 1
    /\ queue' = Append(queue, [id |-> made + 1, subject |-> subject,
                               hash |-> [prompt |-> prompt, ref |-> ref]])

\* POST .../portrait.  A failed push is a 503 and changes nothing.
RequestPortrait(s, prompt) ==
    /\ s \in Subject
    /\ Push(prompt, NoImage, {s})
    /\ UNCHANGED <<npc, canon, rows, files, worker, told>>

\* generate_scene_image: the reference is the portrait the subject has now.
RequestScene(s, prompt) ==
    /\ s \in Subject
    /\ Push(prompt, canon[s], NoSubject)
    /\ UNCHANGED <<npc, canon, rows, files, worker, told>>

\* spawn_npc: the row is flushed, then its portrait is pushed, and both happen
\* inside the tool's transaction.  A failed push is logged and the NPC stays.
SpawnNpc(s) ==
    /\ npc[s] = "unborn"
    /\ npc' = [npc EXCEPT ![s] = "flushed"]
    /\ \/ \E prompt \in Portraits : Push(prompt, NoImage, {s})
       \/ UNCHANGED <<made, queue>>
    /\ UNCHANGED <<canon, rows, files, worker, told>>

\* The tool's transaction commits, or is rolled back (the commit raised, the
\* turn was cancelled, the web process died).
EndSpawn(s) ==
    /\ npc[s] = "flushed"
    /\ \E end \in {"born", "gone"} : npc' = [npc EXCEPT ![s] = end]
    /\ UNCHANGED <<made, queue, canon, rows, files, worker, told>>

\* Mutant of WriterBusy: the portrait is pushed before the row is flushed.
WriterFree == FALSE

\* SQLite has one writer: the flush took the write lock until the commit.
WriterBusy == \E s \in Npcs : npc[s] = "flushed"

-----------------------------------------------------------------------------
(* The worker *)

job == cur[1]

Rest == at' = "idle" /\ cur' = <<>> /\ UNCHANGED crashes

\* _publish is best effort: without a session, or with a failing broker,
\* nobody hears of it and the worker goes on.
Tell(kind, id) == \/ told' = Append(told, [kind |-> kind, id |-> id])
                  \/ UNCHANGED told

\* Every except branch of _process_job: image_failed, and on to the next job.
Fail ==
    /\ Tell("failed", job.id)
    /\ Rest

\* Mutant of Pop: the newest job first.
PopNewest ==
    /\ at = "idle"
    /\ queue # <<>>
    /\ cur' = <<queue[Len(queue)]>>
    /\ queue' = SubSeq(queue, 1, Len(queue) - 1)
    /\ at' = "lookup"
    /\ UNCHANGED <<made, npc, canon, rows, files, told, crashes>>

\* BLPOP: the job leaves the queue for good.
Pop ==
    /\ at = "idle"
    /\ queue # <<>>
    /\ cur' = <<Head(queue)>>
    /\ queue' = Tail(queue)
    /\ at' = "lookup"
    /\ UNCHANGED <<made, npc, canon, rows, files, told, crashes>>

Found == {r \in rows : r.hash = job.hash}

\* Mutant of Lookup: the rows are not searched.
LookupSkipped ==
    /\ at = "lookup"
    /\ at' = IF job.hash.ref = NoImage THEN "render" ELSE "reference"
    /\ UNCHANGED <<web, canon, rows, files, cur, told, crashes>>

\* _find_existing_by_hash.
Lookup ==
    /\ at = "lookup"
    /\ \/ /\ Found = {}
          /\ at' = IF job.hash.ref = NoImage THEN "render" ELSE "reference"
          /\ UNCHANGED <<cur, told, crashes>>
       \/ \E r \in Found : Tell("ready", r.id) /\ Rest
    /\ UNCHANGED <<web, canon, rows, files>>

\* Mutant of Drop: the worker has no handler for an unexpected error.
DropDead ==
    /\ at = "lookup"
    /\ at' = "dead"
    /\ UNCHANGED <<web, canon, rows, files, cur, told, crashes>>

\* The style or the hash query raised: main logs it and pops the next job.
Drop ==
    /\ at = "lookup"
    /\ Rest
    /\ UNCHANGED <<web, canon, rows, files, told>>

\* _read_reference_png: the row, then its file.
ReadReference ==
    /\ at = "reference"
    /\ \/ /\ job.hash.ref \in RowIds \cap files
          /\ at' = "render"
          /\ UNCHANGED <<cur, told, crashes>>
       \/ Fail
    /\ UNCHANGED <<web, canon, rows, files>>

\* FLUX /generate or /edit, with the client's retries inside.
Render ==
    /\ at = "render"
    /\ \/ at' = "write" /\ UNCHANGED <<cur, told, crashes>>
       \/ Fail
    /\ UNCHANGED <<web, canon, rows, files>>

\* Mutant of WriteFile: a failed write is not noticed.
WriteFileBlind ==
    /\ at = "write"
    /\ files' \in {files, files \cup {job.id}}
    /\ at' = "persist"
    /\ UNCHANGED <<web, canon, rows, cur, told, crashes>>

\* A failed write may leave a file behind.
WriteFile ==
    /\ at = "write"
    /\ \/ /\ files' = files \cup {job.id}
          /\ at' = "persist"
          /\ UNCHANGED <<cur, told, crashes>>
       \/ /\ files' \in {files, files \cup {job.id}}
          /\ Fail
    /\ UNCHANGED <<web, canon, rows>>

Link(on) == [s \in Subjects |-> IF s \in on \cap Subject THEN job.id ELSE canon[s]]

\* _persist_and_link: row and link in one transaction, or neither.  prompt_hash
\* is unique, and the insert waits for the writer before the subject is read.
Persist ==
    /\ at = "persist"
    /\ \/ /\ ~WriterBusy
          /\ Found = {}
          /\ rows' = rows \cup {[id |-> job.id, hash |-> job.hash]}
          /\ canon' = Link(job.subject)
          /\ at' = "announce"
          /\ UNCHANGED <<cur, told, crashes>>
       \/ UNCHANGED <<rows, canon>> /\ Fail
    /\ UNCHANGED <<web, files>>

Announce ==
    /\ at = "announce"
    /\ Tell("ready", job.id)
    /\ Rest
    /\ UNCHANGED <<web, canon, rows, files>>

\* The process dies; systemd starts it again.  What it had popped is lost.
Crash ==
    /\ at # "idle"
    /\ crashes < MaxCrashes
    /\ crashes' = crashes + 1
    /\ at' = "idle"
    /\ cur' = <<>>
    /\ UNCHANGED <<web, canon, rows, files, told>>

-----------------------------------------------------------------------------
Work == Pop \/ Lookup \/ ReadReference \/ Render \/ WriteFile \/ Persist \/ Announce

Next == \/ \E s \in Subjects, prompt \in Portraits : RequestPortrait(s, prompt)
        \/ \E s \in Subjects, prompt \in Scenes : RequestScene(s, prompt)
        \/ \E s \in Npcs : SpawnNpc(s) \/ EndSpawn(s)
        \/ Work \/ Drop \/ Crash

Spec == Init /\ [][Next]_vars

\* The worker's awaits return: BLPOP and the FLUX client have timeouts, and a
\* write waits for the other writer at most busy_timeout.
FairSpec == Spec /\ WF_vars(Work)

-----------------------------------------------------------------------------
(* Properties *)

TypeOK ==
    /\ made \in 0..MaxJobs
    /\ queue \in Seq(Jobs)
    /\ npc \in [Npcs -> {"unborn", "flushed", "born", "gone"}]
    /\ canon \in [Subjects -> 0..MaxJobs]
    /\ rows \subseteq [id: Ids, hash: Hashes]
    /\ files \subseteq Ids
    /\ at \in {"idle", "lookup", "reference", "render", "write", "persist", "announce"}
    /\ cur \in {<<>>} \cup {<<j>> : j \in Jobs}
    /\ told \in Seq([kind: {"ready", "failed"}, id: Ids])
    /\ crashes \in 0..MaxCrashes

\* Every row of generated_images has its file, so that GET /api/images/<id> and
\* a later /edit find the bytes, wherever the worker died (worker.py,
\* _process_job: the file is written before the row).
RowsHaveFiles == RowIds \subseteq files

\* What image_ready announces can be fetched, and what image_failed announces
\* never turns up (worker.py, _persist_and_link: "Commits before the broadcast
\* so any subscriber who reads the DB on image_ready finds the row").
TellsTheTruth ==
    \A i \in DOMAIN told :
        IF told[i].kind = "ready" THEN told[i].id \in RowIds
                                  ELSE told[i].id \notin RowIds

\* A canonical portrait is a stored image, made by a portrait job: a scene
\* edit never starts from a missing reference, and never from a scene.
CanonStored ==
    \A s \in Subjects : canon[s] # NoImage =>
        \E r \in rows : r.id = canon[s] /\ r.hash.prompt \in Portraits

\* What is stored stays coherent wherever the worker dies: rows have files, announcements
\* are true, and a canonical portrait is a stored portrait.
StoreInv == TypeOK /\ RowsHaveFiles /\ TellsTheTruth /\ CanonStored

\* What is stored is not rendered again: from the lookup to the commit the worker is on a
\* hash that no row has (worker.py, _find_existing_by_hash: "repeat scenes cost 0 seconds").
\* A rendering that came to no row, because the file or the row failed or the worker died,
\* is done again when its prompt is asked for again: the table has no memory of it.
RendersOnce == at \in {"render", "write", "persist"} => Found = {}

\* A portrait that is stored is linked to its subject, even if the subject is
\* an NPC whose own transaction was still open when the job was pushed.
PortraitLinked ==
    at = "announce" => \A s \in job.subject : canon[s] = job.id \/ (s \in Npcs /\ npc[s] = "gone")

\* A canonical portrait is replaced only by one that was asked for later.
LatestPortraitWins == [][\A s \in Subjects : canon'[s] >= canon[s]]_vars

\* Every job that is pushed is done with some day, one way or another
\* (queue.py: "a single poison message must not wedge the queue").
InHand(i) == i \in {queue[k].id : k \in DOMAIN queue} \/ \E j \in Jobs : cur = <<j>> /\ j.id = i
JobsFinish == \A i \in Ids : InHand(i) ~> ~InHand(i)

=============================================================================
