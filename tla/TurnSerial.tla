----------------------------- MODULE TurnSerial -----------------------------
(***************************************************************************)
(* What a session promises about its turns, whatever happens inside one:   *)
(* they are served one at a time in the order they were asked for, only    *)
(* the turn being served writes the transcript (its own line first, then   *)
(* what its tools write, at most one reply and nothing after that), and a  *)
(* turn that is over never writes again.                                   *)
(***************************************************************************)
EXTENDS Naturals, Sequences

CONSTANT Turns

VARIABLES
    stage,   \* "idle", "waiting", "serving" or "over"
    line,    \* waiting turns, first come first served
    script   \* transcript rows: a turn and "line", "aside" or "reply"

svars == <<stage, line, script>>

Init ==
    /\ stage = [t \in Turns |-> "idle"]
    /\ line = <<>>
    /\ script = <<>>

Said(t, what) == \E i \in DOMAIN script : script[i] = <<t, what>>

Ask(t) ==
    /\ stage[t] = "idle"
    /\ stage' = [stage EXCEPT ![t] = "waiting"]
    /\ line' = Append(line, t)
    /\ UNCHANGED script

Serve(t) ==
    /\ \A u \in Turns : stage[u] # "serving"
    /\ line # <<>>
    /\ t = Head(line)
    /\ stage' = [stage EXCEPT ![t] = "serving"]
    /\ line' = Tail(line)
    /\ UNCHANGED script

Write(t, what) ==
    /\ stage[t] = "serving"
    /\ what = "line" <=> ~Said(t, "line")
    /\ ~Said(t, "reply")
    /\ script' = Append(script, <<t, what>>)
    /\ UNCHANGED <<stage, line>>

GiveUp(t) ==
    /\ stage[t] = "waiting"
    /\ stage' = [stage EXCEPT ![t] = "over"]
    /\ \E i \in DOMAIN line :
         /\ line[i] = t
         /\ line' = SubSeq(line, 1, i - 1) \o SubSeq(line, i + 1, Len(line))
    /\ UNCHANGED script

Finish(t) ==
    /\ stage[t] = "serving"
    /\ stage' = [stage EXCEPT ![t] = "over"]
    /\ UNCHANGED <<line, script>>

\* The server restarts: whoever waits or is served is over, the script stays.
Reset ==
    /\ stage' = [t \in Turns |-> IF stage[t] = "idle" THEN "idle" ELSE "over"]
    /\ line' = <<>>
    /\ UNCHANGED script

Next == \/ \E t \in Turns : \/ Ask(t) \/ Serve(t) \/ GiveUp(t) \/ Finish(t)
                            \/ \E what \in {"line", "aside", "reply"} : Write(t, what)
        \/ Reset

Spec == Init /\ [][Next]_svars

=============================================================================
