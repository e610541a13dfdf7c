------------------------------ MODULE LLMChain ------------------------------
(***************************************************************************)
(* The chain of language models (core/llm_factory.py): a decision is asked *)
(* of one provider after the other, each behind a circuit breaker of its   *)
(* own, until two of them agree or one is sure; rules decide if none       *)
(* answers.  The chief analyst and the web API share the chain, so two     *)
(* analyses may be under way at once.                                      *)
(***************************************************************************)
EXTENDS CircuitBreaker, Sequences, FiniteSets

CONSTANTS Callers,
          Providers,          \* how many there are: 7 in the code
          Actions             \* BUY, SELL, HOLD, WAIT

ChainAssumption == Providers \in Nat \ {0}

VARIABLES breakers, \* one for each provider
          task,     \* where each analysis stands
          trial     \* history: the request under way was sent in the half-open phase that
                    \* its breaker is in, or was in last

vars == <<breakers, task, trial>>

\* What a model said: an action, and whether its confidence is 0.7 or more.
Opinion == [action : Actions, sure : BOOLEAN]
None    == [action |-> "none", sure |-> FALSE]

\* pc: "next" before a provider is tried, "sent" while it answers.
Task == [pc : {"idle", "next", "sent"}, at : 1..Providers, opinions : Seq(Opinion)]
Idle == [pc |-> "idle", at |-> 1, opinions |-> <<>>]

Init == /\ breakers = [p \in 1..Providers |-> NewBreaker]
        /\ task = [c \in Callers |-> Idle]
        /\ trial = [c \in Callers |-> FALSE]

Goto(c, t) == task' = [task EXCEPT ![c] = t]

Begin(c) ==
    /\ task[c].pc = "idle"
    /\ Goto(c, [task[c] EXCEPT !.pc = "next"])
    /\ UNCHANGED <<breakers, trial>>

\* The opinions suffice: two of which the later one agrees with the first, three
\* whatever they are, or a single sure one.
Settled(opinions) ==
    \/ Len(opinions) >= 2 /\ (opinions[Len(opinions)].action = opinions[1].action \/ Len(opinions) >= 3)
    \/ Len(opinions) = 1 /\ opinions[1].sure

\* fault: the chain is one provider longer than it is
FaultyAdvance(c, opinions, answered) ==
    Goto(c, IF (answered /\ Settled(opinions)) \/ task[c].at > Providers THEN Idle
            ELSE [pc |-> "next", at |-> task[c].at + 1, opinions |-> opinions])

\* The analysis after provider task[c].at: it ends, with the first opinion or by the
\* rules, or the next provider is tried.
Advance(c, opinions, answered) ==
    Goto(c, IF (answered /\ Settled(opinions)) \/ task[c].at = Providers THEN Idle
            ELSE [pc |-> "next", at |-> task[c].at + 1, opinions |-> opinions])

Renewed(c) == TryReset(breakers[task[c].at])

\* The requests under way to p that were sent in an earlier half-open phase stay behind.
Outdated(c, d) == /\ task[d].at = task[c].at
                  /\ breakers[task[c].at].state = "open" /\ Renewed(c).state = "half_open"

Send(c) ==
    LET p == task[c].at IN
    /\ task[c].pc = "next"
    /\ Admits(Renewed(c))
    /\ breakers' = [breakers EXCEPT ![p] = Admitted(Renewed(c))]
    /\ Goto(c, [task[c] EXCEPT !.pc = "sent"])
    /\ trial' = [d \in Callers |-> IF d = c THEN Renewed(c).state = "half_open"
                                  ELSE trial[d] /\ ~Outdated(c, d)]

\* The breaker's fallback raises an error, and the chain goes on.
Refused(c) ==
    /\ task[c].pc = "next"
    /\ ~Admits(Renewed(c))
    /\ breakers' = [breakers EXCEPT ![task[c].at] = Renewed(c)]
    /\ Advance(c, task[c].opinions, FALSE)
    /\ UNCHANGED trial

\* An answer that cannot be read as a decision is a success to the breaker.
Answered(c, opinion) ==
    LET p == task[c].at IN
    /\ task[c].pc = "sent"
    /\ breakers' = [breakers EXCEPT ![p] = OnSuccess(@)]
    /\ IF opinion = None THEN Advance(c, task[c].opinions, FALSE)
       ELSE Advance(c, Append(task[c].opinions, opinion), TRUE)
    /\ trial' = [trial EXCEPT ![c] = FALSE]

Failed(c) ==
    LET p == task[c].at IN
    /\ task[c].pc = "sent"
    /\ breakers' = [breakers EXCEPT ![p] = OnFailure(@)]
    /\ Advance(c, task[c].opinions, FALSE)
    /\ trial' = [trial EXCEPT ![c] = FALSE]

Tick == /\ breakers' = [p \in 1..Providers |-> Aged(breakers[p])]
        /\ UNCHANGED <<task, trial>>

Step(c) == \/ Send(c) \/ Refused(c) \/ Failed(c)
           \/ \E opinion \in Opinion \cup {None} : Answered(c, opinion)

Next == \/ \E c \in Callers : Begin(c) \/ Step(c)
        \/ Tick

Spec == Init /\ [][Next]_vars

----------------------------------------------------------------------------
(* Properties *)

TypeOK == /\ breakers \in [1..Providers -> Breaker]
          /\ task \in [Callers -> Task]
          /\ trial \in [Callers -> BOOLEAN]

InFlight(p) == {c \in Callers : task[c].pc = "sent" /\ task[c].at = p}

\* A provider that has just failed is tried carefully: of the requests under way, at most
\* Trials were sent in the current half-open phase of its breaker.
TrialsAreFew ==
    \A p \in 1..Providers : breakers[p].state = "half_open" =>
        Cardinality({c \in InFlight(p) : trial[c]}) <= Trials

\* No breaker is left half open for good: while it is, a trial is under way or one more may
\* begin, whatever answers to older requests come in between.
NeverStuck ==
    \A p \in 1..Providers : breakers[p].state = "half_open" =>
        breakers[p].requests < Trials \/ \E c \in InFlight(p) : trial[c]

\* A closed breaker has not counted as many failures in a row as open it, although failures
\* of requests that were sent in earlier states count as well.
OpensInTime ==
    \A p \in 1..Providers : breakers[p].state = "closed" => breakers[p].failures < Threshold
=============================================================================
