----------------------------- MODULE Strategies -----------------------------
(***************************************************************************)
(* The health of a strategy (backtest/strategy_manager.py).  The daily     *)
(* schedule and every request for a backtest evaluate it: an evaluation    *)
(* reads the state in Redis and then changes it field by field, each time  *)
(* reading the whole state again and writing all of it back.               *)
(* Strategies are evaluated one after the other and have keys of their     *)
(* own, so one of them is modelled.  Its status is left out: nothing but a *)
(* test disables a strategy, whatever the number of its failures.          *)
(***************************************************************************)
EXTENDS Integers, Sequences, FiniteSets

CONSTANTS Evaluators,    \* the schedule, and requests for a backtest
          MaxEvaluations \* bound of the model: evaluations

StrategiesAssumption == MaxEvaluations \in Nat

VARIABLES strategy_losses, \* consecutive_losses in Redis; the default 0 when the key has expired
          evaluation,  \* where each evaluator stands
          evaluations, \* history: evaluations so far
          streak,      \* history: those that failed since the last that was healthy
          raced        \* history: evaluations overlapped since then, or one failed half way

vars == <<strategy_losses, evaluation, evaluations, streak, raced>>

\* pc: "judge" before the state is read; "read" and "write" of the first of the fields, which
\* are "count", a new count, and "note", a score or a time.
Idle == [pc |-> "idle", healthy |-> FALSE, fields |-> <<>>, count |-> 0, losses |-> 0]

Init == /\ strategy_losses = 0 /\ evaluation = [e \in Evaluators |-> Idle]
        /\ evaluations = 0 /\ streak = 0 /\ raced = FALSE

Busy == {e \in Evaluators : evaluation[e].pc # "idle"}

\* run_strategy_backtest is through; _aggregate has found enough trades, with the win rate and
\* the score that are asked for, or it has not, which is so when there is no result.
Evaluate(e, healthy) ==
    /\ evaluation[e].pc = "idle" /\ evaluations < MaxEvaluations
    /\ evaluations' = evaluations + 1
    /\ streak' = IF healthy THEN 0 ELSE streak + 1
    /\ raced' = IF Busy # {} THEN TRUE ELSE raced /\ ~healthy
    /\ evaluation' = [evaluation EXCEPT ![e] = [Idle EXCEPT !.pc = "judge", !.healthy = healthy]]
    /\ UNCHANGED strategy_losses

\* fault: a recovered strategy keeps its count
FaultyJudged(losses, healthy) ==
    IF healthy THEN [count |-> losses, fields |-> <<"note">>]
    ELSE [count |-> losses + 1, fields |-> <<"count", "note", "note">>]

Judged(losses, healthy) ==
    IF ~healthy THEN [count |-> losses + 1, fields |-> <<"count", "note", "note">>]
    ELSE IF losses > 0 THEN [count |-> 0, fields |-> <<"count", "note">>]
    ELSE [count |-> 0, fields |-> <<"note">>]

\* evaluate_health reads the state and decides what to write.
Judge(e) ==
    /\ evaluation[e].pc = "judge"
    /\ LET judged == Judged(strategy_losses, evaluation[e].healthy)
       IN  evaluation' = [evaluation EXCEPT ![e].pc = "read", ![e].count = judged.count, ![e].fields = judged.fields]
    /\ UNCHANGED <<strategy_losses, evaluations, streak, raced>>

\* _set_state reads the whole state ...
ReadState(e) ==
    /\ evaluation[e].pc = "read"
    /\ evaluation' = [evaluation EXCEPT ![e].pc = "write",
                          ![e].losses = IF Head(evaluation[e].fields) = "count" THEN evaluation[e].count
                                        ELSE strategy_losses]
    /\ UNCHANGED <<strategy_losses, evaluations, streak, raced>>

\* ... and writes it back with one field changed.
WriteState(e) ==
    /\ evaluation[e].pc = "write"
    /\ strategy_losses' = evaluation[e].losses
    /\ LET rest == Tail(evaluation[e].fields)
       IN  evaluation' = [evaluation EXCEPT ![e] = IF rest = <<>> THEN Idle
                                                   ELSE [@ EXCEPT !.pc = "read", !.fields = rest]]
    /\ UNCHANGED <<evaluations, streak, raced>>

\* Redis fails: the request answers with an error, the schedule waits for the next day.
EvaluationFails(e) ==
    /\ evaluation[e].pc # "idle"
    /\ evaluation' = [evaluation EXCEPT ![e] = Idle]
    /\ raced' = TRUE
    /\ UNCHANGED <<strategy_losses, evaluations, streak>>

\* enable_strategy starts from zero; so does a key that has expired after 30 days.
Enable ==
    /\ strategy_losses' = 0
    /\ streak' = 0
    /\ raced' = (Busy # {})
    /\ UNCHANGED <<evaluation, evaluations>>

Next == \/ \E e \in Evaluators : \/ \E healthy \in BOOLEAN : Evaluate(e, healthy)
                                 \/ Judge(e) \/ ReadState(e) \/ WriteState(e) \/ EvaluationFails(e)
        \/ Enable

Spec == Init /\ [][Next]_vars

----------------------------------------------------------------------------
(* Properties *)

TypeOK == /\ strategy_losses \in 0..MaxEvaluations
          /\ \A e \in Evaluators : evaluation[e].pc \in {"idle", "judge", "read", "write"}

\* Evaluations that ran one at a time leave the number of failures in a row; overlapping ones
\* lose some of them, or bring back an old count.
SeriesAreCounted == Busy = {} /\ ~raced => strategy_losses = streak
=============================================================================
