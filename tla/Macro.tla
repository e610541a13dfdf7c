------------------------------- MODULE Macro -------------------------------
(***************************************************************************)
(* The rounds of the macro agent (agents/macro_agent.py): every ten        *)
(* minutes it asks for indices and sectors through the breaker of the      *)
(* provider (data_provider/akshare_impl.py), which leaves what it gets in  *)
(* market:macro, first for the time of any entry and then for longer, so   *)
(* that the entry bridges the time to the next round.                      *)
(***************************************************************************)
EXTENDS Integers

CONSTANTS ShortTTL, \* max_cache_age_seconds: 300
          LongTTL,  \* 1200
          Interval, \* between two rounds: 600
          MaxRound  \* what a round may take for the entry to bridge it

MacroAssumption == /\ {ShortTTL, LongTTL, Interval, MaxRound} \subseteq Nat
                   /\ Interval + 2 * MaxRound < LongTTL /\ MaxRound < ShortTTL /\ MaxRound <= Interval

VARIABLES entry,   \* market:macro
          round,   \* pc, the time since it began, and what has been found
          report,  \* the last one on the bus: the factors of the index
          strained \* history: a round failed or took long since the entry was written for long

vars == <<entry, round, report, strained>>

Nothing == [indices |-> FALSE, sectors |-> FALSE]
Absent  == [data |-> Nothing, age |-> 0, ttl |-> 0]
Rest    == [pc |-> "sleep", time |-> 0, raw |-> FALSE, data |-> Nothing, position |-> FALSE]

Init == entry = Absent /\ round = [Rest EXCEPT !.time = Interval] /\ report = {} /\ strained = TRUE

Goto(pc) == round' = [round EXCEPT !.pc = pc]

\* run: the next round begins Interval after the end of the last one.
Begin ==
    /\ round.pc = "sleep" /\ round.time >= Interval
    /\ round' = [Rest EXCEPT !.pc = "ask"]
    /\ UNCHANGED <<entry, report, strained>>

\* The breaker is open for the failures of any call of the provider.  What then stands in for
\* the data is looked for under a key that nobody writes: there is none.
Refused ==
    /\ round.pc = "ask" /\ Goto("report") /\ strained' = TRUE
    /\ UNCHANGED <<entry, report>>

\* _do_fetch_macro_indices: a source that fails leaves its part empty.
Sources(indices, sectors) ==
    /\ round.pc = "ask"
    /\ round' = [round EXCEPT !.pc = "short", !.data = [indices |-> indices, sectors |-> sectors]]
    /\ UNCHANGED <<entry, report, strained>>

\* cache_and_publish_dict; when Redis fails so does the call, and nothing stands in for it.
WriteShort ==
    /\ round.pc = "short" /\ Goto("long")
    /\ entry' = [data |-> round.data, age |-> 0, ttl |-> ShortTTL]
    /\ UNCHANGED <<report, strained>>

\* It may fail before the entry is written, or after, when it is announced.
WriteFails(written) ==
    /\ round.pc = "short" /\ Goto("report") /\ strained' = TRUE
    /\ entry' = IF written THEN [data |-> round.data, age |-> 0, ttl |-> ShortTTL] ELSE entry
    /\ UNCHANGED report

Lengthened(e) == [e EXCEPT !.age = 0, !.ttl = LongTTL, !.data = round.data]

WriteLong ==
    /\ round.pc = "long"
    /\ round' = [round EXCEPT !.pc = "report", !.raw = TRUE]
    /\ entry' = Lengthened(entry)
    /\ strained' = FALSE
    /\ UNCHANGED report

LongFails ==
    /\ round.pc = "long"
    /\ round' = [round EXCEPT !.pc = "report", !.raw = TRUE]
    /\ strained' = TRUE
    /\ UNCHANGED <<entry, report>>

\* _calculate_rai: what is missing is no factor; the position takes K-lines of the indices,
\* and may fail.
Factors(position) ==
    {f \in {"breadth", "sector", "position"} :
        /\ round.raw
        /\ f = "sector" => round.data.sectors
        /\ f # "sector" => round.data.indices
        /\ f = "position" => position}

Publish(position) ==
    /\ round.pc = "report" /\ report' = Factors(position)
    /\ Goto("save")
    /\ UNCHANGED <<entry, strained>>

\* Saved or not, the round is over; so it is when the report cannot be published.
End ==
    /\ round.pc \in {"report", "save"} /\ round' = Rest
    /\ UNCHANGED <<entry, report, strained>>

Tick ==
    /\ round.pc = "sleep" => round.time < Interval
    /\ entry' = IF entry.age + 1 >= entry.ttl THEN Absent ELSE [entry EXCEPT !.age = @ + 1]
    /\ round' = [round EXCEPT !.time = IF @ < Interval THEN @ + 1 ELSE @]
    /\ strained' = (strained \/ (round.pc # "sleep" /\ round.time >= MaxRound))
    /\ UNCHANGED report

Next == \/ Begin \/ Refused \/ WriteShort \/ WriteLong \/ LongFails \/ End \/ Tick
        \/ \E indices, sectors \in BOOLEAN : Sources(indices, sectors)
        \/ \E b \in BOOLEAN : WriteFails(b) \/ Publish(b)

Spec == Init /\ [][Next]_vars

----------------------------------------------------------------------------
(* Properties *)

TypeOK == /\ entry.ttl \in {0, ShortTTL, LongTTL} /\ (entry = Absent \/ entry.age < entry.ttl)
          /\ round.time \in 0..Interval /\ report \subseteq {"breadth", "sector", "position"}

\* Between rounds that succeed in time there is always an entry.
MacroIsBridged == strained \/ entry # Absent
=============================================================================
