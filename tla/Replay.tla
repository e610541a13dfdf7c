------------------------------- MODULE Replay -------------------------------
(***************************************************************************)
(* Replays of stored bars on the bus (backtest/replay.py, api/replay.py).  *)
(* One replayer serves all requests: each runs a replay of its own to the  *)
(* end, but whether to go on is one flag, which a start raises and which a *)
(* stop or the end of any replay lowers.                                   *)
(***************************************************************************)
EXTENDS Integers, FiniteSets

CONSTANTS Requests,  \* requests to start a replay
          Stocks,
          MaxBars    \* bound of the model: bars of a stock

ReplayAssumption == MaxBars \in Nat

VARIABLES running,  \* _running
          replay,   \* what each request replays, and how far it is
          progress, \* _progress: the replay each stock's progress belongs to
          shared,   \* history: requests during which another replay ran
          stopped   \* history: requests during which a stop was asked for

vars == <<running, replay, progress, shared, stopped>>

Idle == [pc |-> "idle", stock |-> CHOOSE s \in Stocks : TRUE, total |-> 0, processed |-> 0, errors |-> 0]

Init == /\ running = FALSE /\ replay = [r \in Requests |-> Idle]
        /\ progress = [s \in Stocks |-> {}] /\ shared = {} /\ stopped = {}

Busy == {r \in Requests : replay[r].pc = "emit"}

Raised == TRUE

\* replay, for bars within the dates and the number asked for; there may be none.
Start(r, s, total) ==
    /\ replay[r].pc = "idle"
    /\ running' = Raised
    /\ replay' = [replay EXCEPT ![r] = [Idle EXCEPT !.pc = "emit", !.stock = s, !.total = total]]
    /\ progress' = [progress EXCEPT ![s] = {r}]
    /\ shared' = shared \cup (IF Busy = {} THEN {} ELSE Busy \cup {r})
    /\ UNCHANGED stopped

\* One round of _replay_batch or _replay_realtime: a bar that cannot be published is counted
\* and passed over.
Emit(r, works) ==
    /\ replay[r].pc = "emit" /\ running
    /\ replay[r].processed + replay[r].errors < replay[r].total
    /\ replay' = [replay EXCEPT ![r].processed = IF works THEN @ + 1 ELSE @,
                                ![r].errors = IF works THEN @ ELSE @ + 1]
    /\ UNCHANGED <<running, progress, shared, stopped>>

\* The bars are through, or the flag is down.
Finish(r) ==
    /\ replay[r].pc = "emit"
    /\ ~running \/ replay[r].processed + replay[r].errors = replay[r].total
    /\ replay' = [replay EXCEPT ![r].pc = "done"]
    /\ running' = FALSE
    /\ UNCHANGED <<progress, shared, stopped>>

Stop ==
    /\ running' = FALSE
    /\ stopped' = stopped \cup Busy
    /\ UNCHANGED <<replay, progress, shared>>

Next == \/ \E r \in Requests : \/ \E s \in Stocks, n \in 0..MaxBars : Start(r, s, n)
                               \/ \E works \in BOOLEAN : Emit(r, works)
                               \/ Finish(r)
        \/ Stop

Spec == Init /\ [][Next]_vars

----------------------------------------------------------------------------
(* Properties *)

TypeOK == /\ running \in BOOLEAN /\ shared \cup stopped \subseteq Requests
          /\ \A r \in Requests : /\ replay[r].pc \in {"idle", "emit", "done"}
                                 /\ replay[r].processed + replay[r].errors <= replay[r].total
          /\ \A s \in Stocks : \A r \in progress[s] : replay[r].stock = s

\* A replay that had the replayer to itself has tried every bar.
LoneReplaysAreComplete ==
    \A r \in Requests \ (shared \cup stopped) :
        replay[r].pc = "done" => replay[r].processed + replay[r].errors = replay[r].total
=============================================================================
