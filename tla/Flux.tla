-------------------------------- MODULE Flux --------------------------------
(***************************************************************************)
(* The image service FLUX as the image worker sees it: the watchdog that   *)
(* probes it and keeps the key image:status (images/worker.py, health.py), *)
(* and the client that renders the worker's jobs and retries a 503         *)
(* (images/client.py).  Time passes in ticks; nothing that is due waits    *)
(* for the next one.                                                       *)
(*                                                                         *)
(* FLUX is not in the repository.  It takes one request at a time, in      *)
(* order, and an idle one answers a probe within Answer ticks.             *)
(***************************************************************************)
EXTENDS Naturals, Sequences

CONSTANTS
    Poll,           \* POLL_INTERVAL_S
    Threshold,      \* DEGRADED_THRESHOLD_S
    ProbeTimeout,   \* the probe's timeout
    ReadTimeout,    \* that of a rendering
    Backoff,        \* _RETRY_BACKOFF_SECONDS
    Answer          \* what an idle FLUX takes for a probe, at the most

\* A probe that is served at once is answered before it gives up.
ASSUME TimesAssumption ==
    /\ {Poll, Threshold, ProbeTimeout, ReadTimeout, Answer} \subseteq Nat \ {0}
    /\ Answer < ProbeTimeout
    /\ Backoff \in Seq(Nat \ {0})

VARIABLES
    up,        \* FLUX can render
    serving,   \* what it works on: "nobody", "probe", "job", or an "abandoned" job
    dog,       \* the watchdog: its stage, the ticks it has been there and been served
    since,     \* ticks since last_success, counted up to the threshold
    said,      \* current_status
    key,       \* image:status in Redis
    request,   \* the worker's request: stage, ticks, attempt
    outage,    \* ghost: ticks FLUX has been down under a living watchdog
    calm       \* ghost: ticks it has been up and not rendering under one

service == <<up, serving>>
watch == <<dog, since, said, key>>
ghosts == <<outage, calm>>
flux == <<service, watch, request, ghosts>>

\* A request in the service's line is "queued", one it will never answer "lost".
Asking == {"queued", "lost"}
Idle == [stage |-> "idle", t |-> 0, attempt |-> 0]
Starting == [stage |-> "starting", t |-> 0, served |-> 0]

Noticed == Threshold + Poll + ProbeTimeout
Recovered == ProbeTimeout + Poll + Answer

FluxInit ==
    /\ up \in BOOLEAN
    /\ serving = "nobody"
    /\ dog = Starting
    /\ since = 0
    /\ said = "ok"
    /\ key \in {"ok", "degraded"}   \* what the last worker left
    /\ request = Idle
    /\ outage = 0 /\ calm = 0

-----------------------------------------------------------------------------
(* The service *)

\* Whoever has been waiting is served next.
Following(probing, rendering) ==
    IF probing THEN "probe" ELSE IF rendering THEN "job" ELSE "nobody"

\* A request whose client has gone may be worked off for nobody.
Left(probing, rendering) == {"abandoned", Following(probing, rendering)}

Sent == IF up THEN "queued" ELSE "lost"
Served(who) == IF up /\ serving = "nobody" THEN who ELSE serving

Down ==
    /\ up
    /\ up' = FALSE
    /\ serving' = "nobody"
    /\ dog' = [dog EXCEPT !.stage = IF @ = "queued" THEN "lost" ELSE @]
    /\ request' = [request EXCEPT !.stage = IF @ = "queued" THEN "lost" ELSE @]
    /\ calm' = 0
    /\ UNCHANGED <<since, said, key, outage>>

Up ==
    /\ ~up
    /\ up' = TRUE
    /\ outage' = 0
    /\ UNCHANGED <<serving, watch, request, calm>>

\* A rendering whose client is gone comes to its end.
Free ==
    /\ serving = "abandoned"
    /\ serving' = Following(dog.stage = "queued", request.stage = "queued")
    /\ UNCHANGED <<up, watch, request, ghosts>>

-----------------------------------------------------------------------------
(* The watchdog *)

DogStage(place) == dog' = [stage |-> place, t |-> 0, served |-> 0]

Probe ==
    /\ DogStage(Sent)
    /\ serving' = Served("probe")

\* Mutant of Start: what the key says is left for the first transition.
StartQuietly ==
    /\ dog.stage = "starting"
    /\ Probe
    /\ UNCHANGED <<up, since, said, key, request, ghosts>>

\* The first write says ok whatever FLUX does.
Start ==
    /\ dog.stage = "starting"
    /\ key' = "ok"
    /\ Probe
    /\ UNCHANGED <<up, since, said, request, ghosts>>

Wake ==
    /\ dog.stage = "sleeping" /\ dog.t = Poll
    /\ Probe
    /\ UNCHANGED <<up, since, said, key, request, ghosts>>

\* current_status and the key change together.
Report(status) ==
    IF said = status THEN UNCHANGED <<said, key>>
    ELSE said' = status /\ key' = status

ProbeAnswered ==
    /\ serving = "probe"
    /\ since' = 0
    /\ Report("ok")
    /\ DogStage("sleeping")
    /\ serving' = Following(FALSE, request.stage = "queued")
    /\ UNCHANGED <<up, request, ghosts>>

\* Mutant of Judge: the time is taken from the last probe.
JudgeByProbe(elapsed) ==
    /\ since' = 0
    /\ IF elapsed >= Threshold THEN Report("degraded") ELSE UNCHANGED <<said, key>>

Judge(elapsed) ==
    /\ IF elapsed >= Threshold THEN Report("degraded") ELSE UNCHANGED <<said, key>>
    /\ UNCHANGED since

\* Refused, broken off or timed out; a probe that gives up leaves the line.
ProbeFailed ==
    /\ dog.stage = "lost" \/ (dog.stage = "queued" /\ dog.t = ProbeTimeout)
    /\ Judge(since)
    /\ DogStage("sleeping")
    /\ serving' \in IF serving = "probe" THEN Left(FALSE, request.stage = "queued") ELSE {serving}
    /\ UNCHANGED <<up, request, ghosts>>

\* A Redis error in a write is no FluxClientError: the task ends, and nobody looks.
Die ==
    /\ \/ dog.stage = "starting"
       \/ serving = "probe" /\ said # "ok"
       \/ /\ dog.stage = "lost" \/ (dog.stage = "queued" /\ dog.t = ProbeTimeout)
          /\ said = "ok" /\ since >= Threshold
    /\ DogStage("dead")
    /\ serving' = IF serving = "probe" THEN Following(FALSE, request.stage = "queued") ELSE serving
    /\ outage' = 0 /\ calm' = 0
    /\ UNCHANGED <<up, since, said, key, request>>

-----------------------------------------------------------------------------
(* A job of the worker *)

RequestStage(place, attempt) == request' = [stage |-> place, t |-> 0, attempt |-> attempt]

Post(attempt) ==
    /\ RequestStage(Sent, attempt)
    /\ serving' = Served("job")
    /\ calm' = IF serving' = "job" THEN 0 ELSE calm
    /\ UNCHANGED <<up, watch, outage>>

FirstPost == request = Idle /\ Post(1)

Retry ==
    /\ request.stage = "backoff" /\ request.t = Backoff[request.attempt]
    /\ Post(request.attempt + 1)

\* The picture, or an error that is not tried again.
JobDone ==
    /\ serving = "job"
    /\ request' = Idle
    /\ serving' = Following(dog.stage = "queued", FALSE)
    /\ UNCHANGED <<up, watch, ghosts>>

\* 503 before it is served: again after the backoff, after the last one no more.
Refused ==
    /\ request.stage = "queued" /\ serving # "job"
    /\ IF request.attempt <= Len(Backoff) THEN RequestStage("backoff", request.attempt) ELSE request' = Idle
    /\ UNCHANGED <<service, watch, ghosts>>

\* A transport error, or no answer in time; FLUX may go on rendering for nobody.
JobFailed ==
    /\ request.stage = "lost" \/ (request.stage = "queued" /\ request.t = ReadTimeout)
    /\ request' = Idle
    /\ serving' \in IF serving = "job" THEN Left(dog.stage = "queued", FALSE) ELSE {serving}
    /\ UNCHANGED <<up, watch, ghosts>>

\* The worker starts again: its key is still there, its job is not.
Restart ==
    /\ dog' = Starting
    /\ since' = 0 /\ said' = "ok"
    /\ request' = Idle
    /\ serving' \in IF serving = "nobody" THEN {"nobody"} ELSE Left(FALSE, FALSE)
    /\ outage' = 0 /\ calm' = 0
    /\ UNCHANGED <<up, key>>

-----------------------------------------------------------------------------
\* Nothing is due.
Quiet ==
    /\ dog.stage # "starting"
    /\ dog.stage \in Asking => dog.t < ProbeTimeout
    /\ dog.stage = "sleeping" => dog.t < Poll
    /\ dog.served < Answer
    /\ request.stage \in Asking => request.t < ReadTimeout
    /\ request.stage = "backoff" => request.t < Backoff[request.attempt]

Smaller(a, b) == IF a < b THEN a ELSE b

Tick ==
    /\ Quiet
    /\ dog' = IF dog.stage = "dead" THEN dog
              ELSE [dog EXCEPT !.t = @ + 1, !.served = IF serving = "probe" THEN @ + 1 ELSE @]
    /\ since' = Smaller(since + 1, Threshold)
    /\ request' = IF request = Idle THEN request ELSE [request EXCEPT !.t = @ + 1]
    /\ outage' = IF up \/ dog.stage = "dead" THEN 0 ELSE Smaller(outage + 1, Noticed + 1)
    /\ calm' = IF up /\ dog.stage # "dead" /\ serving \in {"nobody", "probe"}
               THEN Smaller(calm + 1, Recovered + 1) ELSE 0
    /\ UNCHANGED <<service, said, key>>

FluxNext ==
    \/ Down \/ Up \/ Free
    \/ Start \/ Wake \/ ProbeAnswered \/ ProbeFailed \/ Die
    \/ FirstPost \/ Retry \/ JobDone \/ Refused \/ JobFailed
    \/ Restart \/ Tick

FluxSpec == FluxInit /\ [][FluxNext]_flux

-----------------------------------------------------------------------------
(* Properties *)

\* FLUX cannot be down for longer than the threshold, one sleep and one probe under a living
\* watchdog without the key saying so, in whatever stage of a probe it went down and whatever
\* the worker is rendering.  That is what the code gives: 210 s, where health.py has "If
\* unreachable for >2 min" and "Three consecutive failed 30s polls", neither of which it keeps.
OutageNoticed == outage > Noticed => key = "degraded"

\* And once it is up and has nothing else to render, the key says ok after one more lost probe,
\* one sleep and one answer, also if a worker that was restarted has found degraded there.
RecoveryNoticed == calm > Recovered => key = "ok"
=============================================================================
