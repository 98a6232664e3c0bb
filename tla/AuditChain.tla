----------------------------- MODULE AuditChain -----------------------------
(***************************************************************************)
(* Research and strategy with their independent auditors: runs that find   *)
(* opportunities and the evidence for them, the Research Auditor and the   *)
(* Strategist's gate, briefs that rest on opportunities, the Strategy      *)
(* Auditor and the Writer's gate.                                          *)
(*                                                                         *)
(* A request is one transaction at READ COMMITTED without row locks.  It   *)
(* loads rows, decides, and at its end writes the attributes it has        *)
(* changed relative to the copies it loaded: each operation is a Begin     *)
(* step, which stands for its reads, and an End step, which stands for its *)
(* writes and the commit.  What happens in between is another request's.   *)
(* The Writer's gate, which may be overtaken between its two reads, has a  *)
(* step for each.  The other gates read a row and then its audits too, but *)
(* write of the row only what nobody ever takes back.                      *)
(***************************************************************************)
EXTENDS Integers, FiniteSets, Sequences, FiniteSetsExt, SequencesExt

CONSTANTS
    Page,      \* canonical URLs of sources
    Text,      \* what an excerpt may say: its content digest
    Session,   \* concurrent requests
    MaxRuns,   \* bound of the model: research runs, and strategy runs
    MaxAudits  \* bound of the model: audits of opportunities, and audits of briefs

ASSUME ChainAssumption ==
    /\ MaxRuns \in Nat /\ MaxAudits \in Nat
    /\ IsFiniteSet(Page) /\ IsFiniteSet(Text)

\* An accepted source: what it says, and whether it is stale or of unknown freshness.
Source == Text \X BOOLEAN

\* Topic, angle, platform and format held fixed, the dedupe key of an opportunity is the
\* set of its sources, and the fingerprint of a brief the set of its opportunities.
Key == (SUBSET Page) \ {{}}
StrategyLinks == SUBSET Key    \* strategy_brief_opportunities: a brief's never change
Fingerprint == StrategyLinks \ {{}}

VARIABLES
    research_runs,    \* rows per status
    opportunities,    \* Key -> row or NoRow, with its run's audit counters
    evidence,         \* Key -> the sources linked to it, and whether one is not fresh
    research_audits,  \* Key -> audits by checked_at
    strategy_runs,    \* rows per status
    strategy_briefs,  \* Fingerprint -> row or NoRow, with its run's audit counters
    strategy_audits,  \* Fingerprint -> audits by checked_at
    overtaken,        \* briefs handed over on an audit that was not the latest (history)
    tx                \* the request each session is in

vars == <<research_runs, opportunities, evidence, research_audits,
          strategy_runs, strategy_briefs, strategy_audits, overtaken, tx>>
research == <<research_runs, opportunities, evidence, research_audits>>
strategy == <<strategy_runs, strategy_briefs, strategy_audits, overtaken>>

NoRow == [kind |-> "none"]
Idle == [op |-> "idle"]

Verdict == {"pass", "pass_with_warning", "blocked"}
Gate == Verdict \cup {"not_run"}
Opportunity ==
    [source_count : Nat, gate : Gate, status : {"active", "blocked"},
     strategist : {"not_sent", "eligible"}, audited : Nat, blocked : Nat]
\* What the auditor asks of a brief's own columns, which never change.
Quality == {"sound", "questionable", "unsound"}
Brief ==
    [quality : Quality, gate : Gate, handoff : {"blocked", "eligible"},
     status : {"draft", "audited_passed", "audited_blocked"}, passed : Nat, blocked : Nat]
\* saw is the number of audits committed when the audit began, nth its place in the
\* order of commits (both history).
Audit == [state : Verdict, saw : Nat, nth : Nat]
StrategyAudit == Audit
Evidence == [of : [Text -> Nat], stale : BOOLEAN]
ResearchRuns == [{"provider_not_configured", "failed", "succeeded"} -> Nat]
StrategyRuns == [{"provider_not_configured", "duplicate", "succeeded"} -> Nat]

\* The sources a run accepts: a refused URL or excerpt leaves a rejected row, which is
\* linked to nothing, and a page found twice in one run is an integrity error.
Findings == UNION {[P -> Source] : P \in SUBSET Page}

\* What a request has read, and holds until it writes.
ResearchRequest ==
    [op : {"record"}, found : Findings, copy : Opportunity \cup {NoRow}]
        \cup [op : {"audit"}, on : Key, copy : Opportunity, verdict : Verdict, saw : Nat]
StrategyRequest(t) ==
    \/ \E K \in StrategyLinks :
           t \in [op : {"admit"}, on : {K}, run : BOOLEAN, copy : [K -> Opportunity]]
    \/ \E f \in Fingerprint :
           t \in [op : {"brief"}, on : {f}, quality : Quality, found : Brief \cup {NoRow},
                 copy : [f -> Opportunity]]
    \/ t \in [op : {"audit_brief"}, on : Fingerprint, copy : Brief, verdict : Verdict, saw : Nat]
    \/ t \in [op : {"load"}, on : Fingerprint, copy : Brief, saw : Nat]
    \/ t \in [op : {"hand_over"}, on : Fingerprint, copy : Brief, saw : Nat, read : Nat]

TypeOK ==
    /\ research_runs \in ResearchRuns
    /\ opportunities \in [Key -> Opportunity \cup {NoRow}]
    /\ evidence \in [Key -> Evidence]
    /\ research_audits \in [Key -> Seq(Audit)]
    /\ strategy_runs \in StrategyRuns
    /\ strategy_briefs \in [Fingerprint -> Brief \cup {NoRow}]
    /\ strategy_audits \in [Fingerprint -> Seq(StrategyAudit)]
    /\ overtaken \subseteq Fingerprint
    /\ DOMAIN tx = Session
    /\ \A s \in Session : tx[s] = Idle \/ tx[s] \in ResearchRequest \/ StrategyRequest(tx[s])

Init ==
    /\ research_runs = [x \in {"provider_not_configured", "failed", "succeeded"} |-> 0]
    /\ opportunities = [k \in Key |-> NoRow]
    /\ evidence = [k \in Key |-> [of |-> [t \in Text |-> 0], stale |-> FALSE]]
    /\ research_audits = [k \in Key |-> <<>>]
    /\ strategy_runs = [x \in {"provider_not_configured", "duplicate", "succeeded"} |-> 0]
    /\ strategy_briefs = [f \in Fingerprint |-> NoRow]
    /\ strategy_audits = [f \in Fingerprint |-> <<>>]
    /\ overtaken = {}
    /\ tx = [s \in Session |-> Idle]

Rows(runs) == MapThenSumSet(LAMBDA x : runs[x], DOMAIN runs)
Total(of) == MapThenSumSet(LAMBDA t : of[t], Text)
Links(k) == Total(evidence[k].of)

Found == {k \in Key : opportunities[k] # NoRow}
Written == {f \in Fingerprint : strategy_briefs[f] # NoRow}

\* An UPDATE carries the attributes that differ from the copy the session has loaded.
Update(row, copy, new) ==
    [a \in DOMAIN row |-> IF new[a] = copy[a] THEN row[a] ELSE new[a]]

\* checked_at is taken before the transaction waits and commits: an audit comes after all
\* those it could see, and anywhere among those it overlapped.
Inserted(log, audit) ==
    {InsertAt(log, i, audit) : i \in {j \in 1..(Len(log) + 1) :
        \A later \in j..Len(log) : log[later].nth > audit.saw}}

NewAudit(log, t) == [state |-> t.verdict, saw |-> t.saw, nth |-> Len(log) + 1]
Latest(log) == IF log = <<>> THEN "not_run" ELSE Last(log).state
AuditCount(audits) == MapThenSumSet(LAMBDA x : Len(audits[x]), DOMAIN audits)
Open(ops) == Cardinality({s \in Session : tx[s].op \in ops})
CanAudit(audits, op) == AuditCount(audits) + Open({op}) < MaxAudits
CanStrategize == Rows(strategy_runs) + Open({"admit", "brief"}) < MaxRuns

Begin(s, t) == tx[s] = Idle /\ tx' = [tx EXCEPT ![s] = t]
End(s, op) == tx[s].op = op /\ tx' = [tx EXCEPT ![s] = Idle]
-----------------------------------------------------------------------------
(* Research.                                                               *)

\* No provider is configured: a live request leaves a run and nothing else.
RequestResearch ==
    /\ Rows(research_runs) < MaxRuns
    /\ research_runs' = [research_runs EXCEPT !["provider_not_configured"] = @ + 1]
    /\ UNCHANGED <<opportunities, evidence, research_audits, strategy, tx>>

BeginRecord(s, found) ==
    /\ Rows(research_runs) + Open({"record"}) < MaxRuns
    /\ Begin(s, [op |-> "record", found |-> found,
                 copy |-> IF DOMAIN found = {} THEN NoRow ELSE opportunities[DOMAIN found]])
    /\ UNCHANGED <<research, strategy>>

NewOpportunity(n) ==
    [source_count |-> n, gate |-> "not_run", status |-> "active",
     strategist |-> "not_sent", audited |-> 0, blocked |-> 0]

Linked(e, found) ==
    [of |-> [t \in Text |-> e.of[t] + Cardinality({p \in DOMAIN found : found[p][1] = t})],
     stale |-> e.stale \/ \E p \in DOMAIN found : found[p][2]]

\* Mutant: a source is counted when it is accepted and again when it is linked.
CountedTwice(k, copy, n) ==
    IF copy = NoRow THEN NewOpportunity(n)
    ELSE Update(opportunities[k], copy, [copy EXCEPT !.source_count = @ + 2 * n])

\* Two first finds of an opportunity meet in the unique dedupe key: the second fails.
Recorded(k, copy, n) ==
    IF copy = NoRow THEN NewOpportunity(n)
    ELSE Update(opportunities[k], copy, [copy EXCEPT !.source_count = @ + n])

EndRecord(s) ==
    /\ End(s, "record")
    /\ LET found == tx[s].found
           k == DOMAIN found
           copy == tx[s].copy
       IN IF k = {}
          THEN /\ research_runs' = [research_runs EXCEPT !["failed"] = @ + 1]
               /\ UNCHANGED <<opportunities, evidence>>
          ELSE /\ copy = NoRow => opportunities[k] = NoRow
               /\ research_runs' = [research_runs EXCEPT !["succeeded"] = @ + 1]
               /\ opportunities' = [opportunities EXCEPT ![k] = Recorded(k, copy, Cardinality(k))]
               /\ evidence' = [evidence EXCEPT ![k] = Linked(@, found)]
    /\ UNCHANGED <<research_audits, strategy>>

\* Mutant: the auditor looks at whether the sources say one and the same.
AllTheSameBlocks(k) ==
    IF Links(k) > 1 /\ \E t \in Text : evidence[k].of[t] = Links(k) THEN "blocked"
    ELSE IF Links(k) = 1 \/ evidence[k].stale THEN "pass_with_warning"
    ELSE "pass"

\* The evidence decides, never what the run concluded.  An opportunity has accepted
\* sources and no rejected ones, so that the auditor's other two blocks cannot happen.
ResearchVerdict(k) ==
    IF \E t \in Text : evidence[k].of[t] > 1 THEN "blocked"
    ELSE IF Links(k) = 1 \/ evidence[k].stale THEN "pass_with_warning"
    ELSE "pass"

BeginAudit(s, k) ==
    /\ CanAudit(research_audits, "audit")
    /\ opportunities[k] # NoRow
    /\ Begin(s, [op |-> "audit", on |-> k, copy |-> opportunities[k],
                 verdict |-> ResearchVerdict(k), saw |-> Len(research_audits[k])])
    /\ UNCHANGED <<research, strategy>>

AuditedOpportunity(o, verdict) ==
    [o EXCEPT !.gate = verdict, !.audited = @ + 1,
              !.status = IF verdict = "blocked" THEN "blocked" ELSE @,
              !.blocked = IF verdict = "blocked" THEN @ + 1 ELSE @]

EndAudit(s) ==
    /\ End(s, "audit")
    /\ LET t == tx[s]
           k == t.on
       IN /\ opportunities' = [opportunities EXCEPT ![k] =
                 Update(@, t.copy, AuditedOpportunity(t.copy, t.verdict))]
          /\ \E log \in Inserted(research_audits[k], NewAudit(research_audits[k], t)) :
                 research_audits' = [research_audits EXCEPT ![k] = log]
    /\ UNCHANGED <<research_runs, evidence, strategy>>

-----------------------------------------------------------------------------
(* Strategy.                                                               *)

\* Mutant: the gate lets through whatever has been audited.
AnyAuditAdmits(k) == opportunities[k] # NoRow /\ research_audits[k] # <<>>

\* The Strategist's gate: the latest audit of the opportunity passes it.
Admissible(k) == opportunities[k] # NoRow /\ Latest(research_audits[k]) = "pass"

\* send-to-strategist, and the live request for a strategy run, which leaves a run.
BeginAdmit(s, K, run) ==
    /\ run => CanStrategize
    /\ \A k \in K : Admissible(k)
    /\ Begin(s, [op |-> "admit", on |-> K, run |-> run, copy |-> [k \in K |-> opportunities[k]]])
    /\ UNCHANGED <<research, strategy>>

Admitted(t) ==
    [k \in Key |-> IF k \in t.on
                   THEN Update(opportunities[k], t.copy[k], [t.copy[k] EXCEPT !.strategist = "eligible"])
                   ELSE opportunities[k]]

EndAdmit(s) ==
    /\ End(s, "admit")
    /\ opportunities' = Admitted(tx[s])
    /\ strategy_runs' = IF tx[s].run
                        THEN [strategy_runs EXCEPT !["provider_not_configured"] = @ + 1]
                        ELSE strategy_runs
    /\ UNCHANGED <<research_runs, evidence, research_audits, strategy_briefs, strategy_audits, overtaken>>

BeginBrief(s, f, quality) ==
    /\ CanStrategize
    /\ \A k \in f : Admissible(k)
    /\ Begin(s, [op |-> "brief", on |-> f, quality |-> quality, found |-> strategy_briefs[f],
                 copy |-> [k \in f |-> opportunities[k]]])
    /\ UNCHANGED <<research, strategy>>

NewBrief(quality) ==
    [quality |-> quality, gate |-> "not_run", handoff |-> "blocked", status |-> "draft",
     passed |-> 0, blocked |-> 0]

\* A brief that is there already is a duplicate; two that are written at once meet in the
\* unique fingerprint, and the second fails.
EndBrief(s) ==
    /\ End(s, "brief")
    /\ opportunities' = Admitted(tx[s])
    /\ IF tx[s].found = NoRow
       THEN /\ strategy_briefs[tx[s].on] = NoRow
            /\ strategy_briefs' = [strategy_briefs EXCEPT ![tx[s].on] = NewBrief(tx[s].quality)]
            /\ strategy_runs' = [strategy_runs EXCEPT !["succeeded"] = @ + 1]
       ELSE /\ strategy_runs' = [strategy_runs EXCEPT !["duplicate"] = @ + 1]
            /\ UNCHANGED strategy_briefs
    /\ UNCHANGED <<research_runs, evidence, research_audits, strategy_audits, overtaken>>

\* The auditor asks again for the research audits, and for what the brief says of itself.
StrategyVerdict(f) ==
    IF strategy_briefs[f].quality = "unsound" \/ \E k \in f : Latest(research_audits[k]) # "pass"
    THEN "blocked"
    ELSE IF strategy_briefs[f].quality = "questionable" THEN "pass_with_warning"
    ELSE "pass"

BeginAuditBrief(s, f) ==
    /\ CanAudit(strategy_audits, "audit_brief")
    /\ strategy_briefs[f] # NoRow
    /\ Begin(s, [op |-> "audit_brief", on |-> f, copy |-> strategy_briefs[f],
                 verdict |-> StrategyVerdict(f), saw |-> Len(strategy_audits[f])])
    /\ UNCHANGED <<research, strategy>>

\* Mutant: what is not blocked is handed over.
WarningsHandedOver(b, verdict) ==
    [b EXCEPT !.gate = verdict,
              !.handoff = IF verdict # "blocked" THEN "eligible" ELSE "blocked",
              !.status = IF verdict = "pass" THEN "audited_passed" ELSE "audited_blocked",
              !.passed = IF verdict = "pass" THEN @ + 1 ELSE @,
              !.blocked = IF verdict # "pass" THEN @ + 1 ELSE @]

AuditedBrief(b, verdict) ==
    [b EXCEPT !.gate = verdict,
              !.handoff = IF verdict = "pass" THEN "eligible" ELSE "blocked",
              !.status = IF verdict = "pass" THEN "audited_passed" ELSE "audited_blocked",
              !.passed = IF verdict = "pass" THEN @ + 1 ELSE @,
              !.blocked = IF verdict # "pass" THEN @ + 1 ELSE @]

EndAuditBrief(s) ==
    /\ End(s, "audit_brief")
    /\ LET t == tx[s]
           f == t.on
       IN /\ strategy_briefs' = [strategy_briefs EXCEPT ![f] =
                 Update(@, t.copy, AuditedBrief(t.copy, t.verdict))]
          /\ \E log \in Inserted(strategy_audits[f], NewAudit(strategy_audits[f], t)) :
                 strategy_audits' = [strategy_audits EXCEPT ![f] = log]
    /\ UNCHANGED <<research, strategy_runs, overtaken>>

\* The Writer's gate loads the brief, asks in a second statement for its latest audit,
\* which has to pass, and marks the brief.
LoadBrief(s, f) ==
    /\ strategy_briefs[f] # NoRow
    /\ Begin(s, [op |-> "load", on |-> f, copy |-> strategy_briefs[f],
                 saw |-> Len(strategy_audits[f])])
    /\ UNCHANGED <<research, strategy>>

BeginHandOver(s) ==
    /\ tx[s].op = "load"
    /\ LET t == tx[s]
           log == strategy_audits[t.on]
       IN /\ Latest(log) = "pass"
          /\ tx' = [tx EXCEPT ![s] = [op |-> "hand_over", on |-> t.on, copy |-> t.copy,
                                     saw |-> t.saw, read |-> Len(log)]]
    /\ UNCHANGED <<research, strategy>>

\* One audit was committed between the two reads of a hand-over that has something to
\* write, and another since.
Overtaken(t) ==
    /\ t.copy.handoff = "blocked"
    /\ t.saw < t.read /\ t.read < Len(strategy_audits[t.on])

EndHandOver(s) ==
    /\ End(s, "hand_over")
    /\ strategy_briefs' = [strategy_briefs EXCEPT ![tx[s].on] =
           Update(@, tx[s].copy, [tx[s].copy EXCEPT !.handoff = "eligible"])]
    /\ overtaken' = IF Overtaken(tx[s]) THEN overtaken \cup {tx[s].on} ELSE overtaken
    /\ UNCHANGED <<research, strategy_runs, strategy_audits>>

\* A request that fails leaves nothing, and might as well not have begun: here those
\* roll back that can do nothing else, because another has been first or a gate is shut.
RollBack(s) ==
    /\ \/ /\ tx[s].op = "record" /\ tx[s].copy = NoRow
          /\ DOMAIN tx[s].found \in Found
       \/ /\ tx[s].op = "brief" /\ tx[s].found = NoRow
          /\ tx[s].on \in Written
       \/ tx[s].op = "load" /\ Latest(strategy_audits[tx[s].on]) # "pass"
    /\ tx' = [tx EXCEPT ![s] = Idle]
    /\ UNCHANGED <<research, strategy>>

\* What the routers let an admin write; the scout and the strategist run behind them.  Sending
\* an opportunity to the strategist makes no run.
ResearchRequests ==
    \/ RequestResearch
    \/ \E s \in Session, k \in Key :
        tx[s] = Idle /\ (BeginAudit(s, k) \/ BeginAdmit(s, {k}, FALSE))
StrategyRequests ==
    \E s \in Session, f \in Fingerprint :
        tx[s] = Idle /\ (BeginAdmit(s, f, TRUE) \/ BeginAuditBrief(s, f) \/ LoadBrief(s, f))

Next ==
    \/ ResearchRequests
    \/ StrategyRequests
    \/ \E s \in Session : /\ tx[s] = Idle
                        /\ \/ \E found \in Findings : BeginRecord(s, found)
                           \/ \E f \in Fingerprint, quality \in Quality : BeginBrief(s, f, quality)
    \/ \E s \in Session :
        \/ EndRecord(s) \/ EndAudit(s) \/ EndAdmit(s) \/ EndBrief(s) \/ EndAuditBrief(s)
        \/ BeginHandOver(s) \/ EndHandOver(s) \/ RollBack(s)

Spec == Init /\ [][Next]_vars

-----------------------------------------------------------------------------
(* What the dashboards read.                                               *)

ResearchSummary ==
    [opportunities_found |-> Cardinality(Found),
     audited_opportunities |-> Cardinality({k \in Found : opportunities[k].gate # "not_run"}),
     blocked_findings |-> Cardinality({k \in Found : opportunities[k].gate = "blocked"})]

StrategySummary ==
    [opportunities_received |-> Cardinality({k \in Found : opportunities[k].gate = "pass"}),
     briefs_created |-> Cardinality(Written),
     briefs_passed |-> Cardinality({f \in Written : strategy_briefs[f].gate = "pass"}),
     briefs_blocked |-> Cardinality({f \in Written : strategy_briefs[f].gate # "pass"})]

-----------------------------------------------------------------------------
(* What the gates promise.                                                 *)

Passed(log) == \E i \in DOMAIN log : log[i].state = "pass"
\* Some audit did not see one that was committed before it.
Overlapped(log) == \E i \in DOMAIN log : log[i].nth # log[i].saw + 1

\* Nothing gets through a gate that was not earned in front of it: a passed opportunity
\* has two sources that say different things; an opportunity the Strategist may use, and
\* every opportunity under a brief, has passed; and a brief the Writer may use has passed
\* an audit of its own, whatever overlapped, and is sound.
EligibilityIsEarned ==
    /\ \A k \in Key :
        /\ Passed(research_audits[k]) =>
               Cardinality({t \in Text : evidence[k].of[t] > 0}) >= 2
        /\ opportunities[k] # NoRow /\ opportunities[k].strategist = "eligible" =>
               Passed(research_audits[k])
    /\ \A f \in Written :
        /\ \A k \in f : opportunities[k].strategist = "eligible"
        /\ strategy_briefs[f].handoff = "eligible" =>
               Passed(strategy_audits[f]) /\ strategy_briefs[f].quality = "sound"

\* A row's gate is the verdict of its latest audit, unless two audits of the row
\* overlapped.  The handoff of a brief goes with it, unless besides a hand-over was
\* overtaken twice: by the audit it relied on, after it had loaded the brief, and by one
\* that took the handoff back.
GatesFollowAudits ==
    /\ \A k \in Found : ~Overlapped(research_audits[k]) =>
        opportunities[k].gate = Latest(research_audits[k])
    /\ \A f \in Written : ~Overlapped(strategy_audits[f]) =>
        /\ strategy_briefs[f].gate = Latest(strategy_audits[f])
        /\ Latest(strategy_audits[f]) = "pass" => strategy_briefs[f].handoff = "eligible"
        /\ strategy_briefs[f].handoff = "eligible" /\ f \notin overtaken =>
               Latest(strategy_audits[f]) = "pass"

\* Evidence is only added: an opportunity once found to repeat itself is blocked in every
\* audit that has seen that one, and stays blocked in status.
BlocksAreFinal ==
    \A k \in Key : \A i, j \in DOMAIN research_audits[k] :
        LET log == research_audits[k]
        IN log[i].state = "blocked" =>
               /\ log[i].nth <= log[j].saw => log[j].state = "blocked"
               /\ opportunities[k].status = "blocked"

\* Updates of one row that overlap lose one another; what a row, a run or a summary
\* counts is never more than is there.
CountsNeverOverstate ==
    /\ \A k \in Found :
        /\ opportunities[k].source_count <= Links(k)
        /\ opportunities[k].audited <= Len(research_audits[k])
        /\ opportunities[k].blocked <=
               Cardinality({i \in DOMAIN research_audits[k] : research_audits[k][i].state = "blocked"})
    /\ \A f \in Written :
        strategy_briefs[f].passed + strategy_briefs[f].blocked <= Len(strategy_audits[f])
    /\ ResearchSummary.opportunities_found <= research_runs["succeeded"]
    /\ ResearchSummary.audited_opportunities = Cardinality({k \in Key : research_audits[k] # <<>>})
    /\ ResearchSummary.blocked_findings <= Cardinality({k \in Found : opportunities[k].status = "blocked"})
    /\ StrategySummary.briefs_created = strategy_runs["succeeded"]
    /\ StrategySummary.briefs_passed <= Cardinality({f \in Written : Passed(strategy_audits[f])})
    /\ StrategySummary.opportunities_received <= Cardinality({k \in Key : Passed(research_audits[k])})
=============================================================================
