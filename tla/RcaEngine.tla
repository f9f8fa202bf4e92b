----------------------------- MODULE RcaEngine ------------------------------
(***************************************************************************)
(* diagnostics/rca_engine.py: an analysis asks the model at most MaxCalls     *)
(* times and falls back to rules.  Each caller is a process of its own (the    *)
(* DAG's task, a request of POST /diagnostics/rca) and has one analysis.        *)
(*                                                                          *)
(* The model API is external: it answers, with or without the tool call, or    *)
(* with one whose fields are missing, refuses (a status error), or cannot be    *)
(* reached, which a timeout counts as.                                        *)
(***************************************************************************)
EXTENDS Integers

CONSTANTS
    Callers,
    Keyed,          \* those whose process has an ANTHROPIC_API_KEY
    MaxCalls,       \* stop_after_attempt
    Scores,         \* the PSI values that occur, in hundredths
    Moderate,       \* the literals 0.1 and 0.2 of the rules, in hundredths
    Major

ASSUME RcaAssumption ==
    /\ Keyed \subseteq Callers
    /\ MaxCalls \in Nat \ {0}
    /\ Scores \subseteq Nat
    /\ Moderate \in Nat /\ Major \in Nat

VARIABLE analysis       \* per caller: its report, calls so far, what came of it

\* What the rules look at: psi_score, |z_score| > 3 and ks_p_value < 0.05.
Report == [psi : Scores, z : BOOLEAN, ks : BOOLEAN]
AnalysisPhases == {"none", "ask", "call", "model", "rules"}
Answered == {"model", "rules"}

RcaTypeOK ==
    analysis \in [Callers ->
        [phase : AnalysisPhases, report : Report, calls : 0..MaxCalls]]

\* The strengthening: whoever is about to call has a call left.
CallsLeft == \A c \in Callers : analysis[c].phase = "ask" => analysis[c].calls < MaxCalls
RcaInv == RcaTypeOK /\ CallsLeft

NoAnalysis == [phase |-> "none", calls |-> 0,
               report |-> [psi |-> CHOOSE s \in Scores : TRUE, z |-> FALSE, ks |-> FALSE]]

Becomes(c, phase) == analysis' = [analysis EXCEPT ![c].phase = phase]

-----------------------------------------------------------------------------

\* analyze is called.
Analyze(c, report) ==
    /\ analysis[c].phase \in {"none"} \cup Answered
    /\ analysis' = [analysis EXCEPT ![c] =
                        [phase |-> "ask", report |-> report, calls |-> 0]]

\* Variant: the attempts are not counted.
CallUncounted(c) ==
    /\ analysis[c].phase = "ask" /\ c \in Keyed
    /\ Becomes(c, "call")

\* _get_client and messages.create.
Call(c) ==
    /\ analysis[c].phase = "ask" /\ c \in Keyed
    /\ analysis' = [analysis EXCEPT ![c].phase = "call", ![c].calls = @ + 1]

\* _get_client raises: no key.
NoKey(c) ==
    /\ analysis[c].phase = "ask" /\ c \notin Keyed
    /\ Becomes(c, "rules")

\* A tool block that has every field.
Answer(c) == analysis[c].phase = "call" /\ Becomes(c, "model")

\* ValueError, KeyError or a status error: not retried, analyze catches it.
Useless(c) == analysis[c].phase = "call" /\ Becomes(c, "rules")

\* Variant: stop_after_attempt is left out.
UnreachableAgain(c) == analysis[c].phase = "call" /\ Becomes(c, "ask")

\* APIConnectionError: again, or RetryError after the last attempt, caught too.
Unreachable(c) ==
    /\ analysis[c].phase = "call"
    /\ Becomes(c, IF analysis[c].calls < MaxCalls THEN "ask" ELSE "rules")

\* The process dies with its analysis.
Abandoned(c) == analysis' = [analysis EXCEPT ![c] = NoAnalysis]

Analysis(c) == Call(c) \/ NoKey(c) \/ Answer(c) \/ Useless(c) \/ Unreachable(c)

\* Variant: the major shift without the moderate one.
UrgencyOfMajor(r) ==
    IF r.psi > Major /\ r.z THEN "high"
    ELSE IF r.psi > Major THEN "medium"
    ELSE "low"

\* _rule_based_fallback: the urgency its rules give.
Urgency(r) ==
    IF r.psi > Major /\ r.z THEN "high"
    ELSE IF r.psi > Moderate THEN "medium"
    ELSE "low"

=============================================================================
