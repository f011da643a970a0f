---------------------------- MODULE ReleaseGates ----------------------------
(***************************************************************************)
(* What holds a release back (eth2077-types): the gate on proof debt,      *)
(* the launch checklist, milestone claims and upgrade proposals.           *)
(***************************************************************************)
EXTENDS Records

-----------------------------------------------------------------------------
(***************************************************************************)
(* The CI gate on proof debt (ci_formal_gate.rs).  A debt is [id, module,  *)
(* tier, age]; the lists of modules the code sorts and dedups are sets.    *)
(***************************************************************************)
GateMode == {"Advisory", "Warning", "Blocking", "Strict", "ReleaseCandidate", "Emergency"}

PlaceholderDebt(id, module, tier, age) ==
    [id |-> id, module_path |-> module, tier |-> tier, age_days |-> age]

default_ci_formal_gate_config ==
    [mode |-> "Blocking", max_tier1_debt |-> 0, max_tier2_debt |-> 2, max_total_debt |-> 6,
     strict_on_release_branch |-> TRUE, exemption_list |-> <<>>, metadata |-> {}]

validate_ci_formal_gate_config(c) ==
    LET strict == c.mode \in {"Strict", "ReleaseCandidate"}
        named  == SelectSeq(c.exemption_list, LAMBDA t : ~ is_empty(t))
        ids    == [i \in DOMAIN named |-> trim(named[i])]
    IN  When(c.max_total_debt < c.max_tier1_debt, "max_total_debt")
          \cup When(c.max_total_debt < c.max_tier2_debt, "max_total_debt")
          \cup When(strict /\ c.max_tier1_debt # 0, "max_tier1_debt")
          \cup When(strict /\ c.max_tier2_debt # 0, "max_tier2_debt")
          \cup When(strict /\ c.max_total_debt # 0, "max_total_debt")
          \cup When(strict /\ c.exemption_list # <<>>, "exemption_list")
          \cup When(c.mode = "ReleaseCandidate" /\ ~ c.strict_on_release_branch,
                    "strict_on_release_branch")
          \cup When(c.mode = "Emergency" /\ c.strict_on_release_branch,
                    "strict_on_release_branch")
          \cup When(\E t \in ToSet(c.exemption_list) : is_empty(t), "exemption_list")
          \cup When(Repeats(ids) # {}, "exemption_list")
          \cup When(\E m \in c.metadata : is_empty(m.key) \/ is_empty(m.value), "metadata")

build_exemption_lookup(exemptions) ==
    {trim(t) : t \in {t \in ToSet(exemptions) : ~ is_empty(t)}}

is_exempt(id, exemptions) == trim(id) \in exemptions

strict_enforced(c) ==
    c.mode = "Strict" \/ (c.mode = "ReleaseCandidate" /\ c.strict_on_release_branch)

compute_verdict(c, total, tier1, tier2, invalid) ==
    LET exceeds == tier1 > c.max_tier1_debt \/ tier2 > c.max_tier2_debt
                     \/ total > c.max_total_debt
    IN  CASE invalid                -> "Error"
          [] ~ invalid /\ c.mode = "Emergency" -> "Exempted"
          [] OTHER ->
               IF total = 0               THEN "Pass"
               ELSE IF strict_enforced(c) THEN "HardFail"
               ELSE IF c.mode = "Advisory" \/ ~ exceeds THEN "ConditionalPass"
               ELSE IF c.mode = "Warning" THEN "SoftFail"
               ELSE "HardFail"

TotalNotBlamed(c, verdict, total, tier1, tier2, all, modules1, modules2) ==    \* mutant: only tiers are blamed
    IF verdict \notin {"SoftFail", "HardFail"} THEN {}
    ELSE IF strict_enforced(c) THEN all
    ELSE (IF tier1 > c.max_tier1_debt THEN modules1 ELSE {})
           \cup (IF tier2 > c.max_tier2_debt THEN modules2 ELSE {})

compute_blocked_modules(c, verdict, total, tier1, tier2, all, modules1, modules2) ==
    IF verdict \notin {"SoftFail", "HardFail"} THEN {}
    ELSE IF strict_enforced(c) THEN all
    ELSE (IF tier1 > c.max_tier1_debt THEN modules1 ELSE {})
           \cup (IF tier2 > c.max_tier2_debt THEN modules2 ELSE {})
           \cup (IF total > c.max_total_debt THEN all ELSE {})

compute_ci_formal_gate_stats(debts, c) ==
    LET exemptions == build_exemption_lookup(c.exemption_list)
        counted    == SelectSeq(debts, LAMBDA d : ~ is_exempt(d.id, exemptions))
        tier(n)    == {i \in DOMAIN counted : counted[i].tier = n}
        modules(I) == {counted[i].module_path : i \in I}
        total == Len(counted)
        tier1 == Cardinality(tier(1))
        tier2 == Cardinality(tier(2))
        verdict == compute_verdict(c, total, tier1, tier2,
                                   validate_ci_formal_gate_config(c) # {})
    IN  [total_debt |-> total, tier1_count |-> tier1, tier2_count |-> tier2,
         tier3_count |-> Cardinality(tier(3)), verdict |-> verdict,
         oldest_debt_days |-> Max({0} \cup ToSet(Column(counted, "age_days"))),
         blocked_modules |->
            compute_blocked_modules(c, verdict, total, tier1, tier2, modules(DOMAIN counted),
                                    modules(tier(1)), modules(tier(2)))]

compute_ci_formal_gate_commitment(c) ==
    <<c.mode, c.max_tier1_debt, c.max_tier2_debt, c.max_total_debt, c.strict_on_release_branch,
      build_exemption_lookup(c.exemption_list), c.metadata>>

-----------------------------------------------------------------------------
Severity == [v \in {"Pass", "ConditionalPass", "SoftFail", "HardFail"} |->
               CASE v = "Pass" -> 0 [] v = "ConditionalPass" -> 1
                 [] v = "SoftFail" -> 2 [] v = "HardFail" -> 3]

(* A failing verdict names modules, and clearing the named modules of debt *)
(* ends the failure; no verdict improves when debt is added.               *)
FailureNamesItsCause(debts, c) ==
    LET s == compute_ci_formal_gate_stats(debts, c)
        cured == compute_ci_formal_gate_stats(
                    SelectSeq(debts, LAMBDA d : d.module_path \notin s.blocked_modules), c)
        before == compute_ci_formal_gate_stats(Front(debts), c)
    IN  /\ s.verdict \in {"SoftFail", "HardFail"} <=> s.blocked_modules # {}
        /\ cured.verdict \notin {"SoftFail", "HardFail"}
        /\ debts # <<>> /\ s.verdict \in DOMAIN Severity =>
             Severity[before.verdict] <= Severity[s.verdict]

(* Two accepted policies with one commitment judge every debt alike. *)
CommitmentDecides(debts, c, d) ==
    (/\ compute_ci_formal_gate_commitment(c) = compute_ci_formal_gate_commitment(d)
     /\ validate_ci_formal_gate_config(c) = {} /\ validate_ci_formal_gate_config(d) = {})
    => compute_ci_formal_gate_stats(debts, c) = compute_ci_formal_gate_stats(debts, d)

-----------------------------------------------------------------------------
(***************************************************************************)
(* The launch checklist and its go/no-go gates (go_nogo_gate.rs).  An item *)
(* is [category, status, assignee, risk] and a gate its verdict; the texts *)
(* that only enter the commitment are one field "text" of each.  A rate is *)
(* a pair of numerator and denominator.                                    *)
(***************************************************************************)
GateVerdict       == {"Go", "NoGo", "ConditionalGo", "Deferred"}
ChecklistCategory == {"Security", "Performance", "Consensus", "Infrastructure", "Governance",
                      "Testing"}
SignoffStatus     == {"Pending", "Approved", "Rejected", "Waived"}
RiskLevel         == {"Critical", "High", "Medium", "Low", "Negligible"}

is_open(status) == status \in {"Pending", "Rejected"}

ChecklistItem(category, status, assignee, risk, text) ==
    [category |-> category, status |-> status, assignee |-> assignee,
     risk_if_skipped |-> risk, text |-> text]

GateDecision(verdict, text, blocking) ==
    [verdict |-> verdict, text |-> text, blocking_items |-> blocking]

DefaultGateConfig ==
    [required_go_gates |-> 5, max_conditional_gates |-> 2,
     required_categories |-> <<"Security", "Performance", "Consensus", "Infrastructure", "Testing">>,
     min_signoff_count |-> 3, max_critical_risks_open |-> 0, review_cadence_hours |-> 24,
     auto_nogo_on_security_fail |-> TRUE]

validate_checklist(c) ==
    LET categories == c.required_categories
    IN  When(c.required_go_gates = 0, "required_go_gates")
          \cup When(c.max_conditional_gates > c.required_go_gates, "max_conditional_gates")
          \cup When(categories = <<>> \/ Repeats(categories) # {}, "required_categories")
          \cup When(c.min_signoff_count = 0, "min_signoff_count")
          \cup When(c.review_cadence_hours = 0 \/ c.review_cadence_hours > 24 * 30,
                    "review_cadence_hours")
          \cup When(c.auto_nogo_on_security_fail /\ "Security" \notin ToSet(categories),
                    "required_categories")

gate_verdict_count(l, verdict) == Count(l.gates, LAMBDA g : g.verdict = verdict)

ApprovedItems(l) == {i \in ToSet(l.items) : i.status = "Approved"}

ApprovalCount(l) ==    \* mutant: every approval counts, whoever gave it
    Count(l.items, LAMBDA i : i.status = "Approved" /\ ~ is_empty(i.assignee))

(* The signers are told apart after trimming. *)
approved_signoff_count(l) ==
    Cardinality({trim(i.assignee) : i \in {i \in ApprovedItems(l) : ~ is_empty(i.assignee)}})

has_all_required_categories_approved(l, required) ==
    ToSet(required) \subseteq {i.category : i \in ApprovedItems(l)}

has_rejected_security_item(l) ==
    \E i \in ToSet(l.items) : i.category = "Security" /\ i.status = "Rejected"

final_verdict_allows_launch(verdict) == verdict \notin {"NoGo", "Deferred"}

normalized_item_signature(i) == i
normalized_gate_signature(g) == [g EXCEPT !.blocking_items = Sorted(@)]

compute_commitment(l, s) ==
    <<l.text, l.final_verdict, s,
      Sorted([n \in DOMAIN l.items |-> normalized_item_signature(l.items[n])]),
      Sorted([n \in DOMAIN l.gates |-> normalized_gate_signature(l.gates[n])])>>

compute_checklist_stats(l) ==
    LET items(status) == Count(l.items, LAMBDA i : i.status = status)
        s == [total_items |-> Len(l.items), approved_items |-> items("Approved"),
              rejected_items |-> items("Rejected"), pending_items |-> items("Pending"),
              go_gates |-> gate_verdict_count(l, "Go"), nogo_gates |-> gate_verdict_count(l, "NoGo"),
              critical_risks_open |->
                 Count(l.items, LAMBDA i : i.risk_if_skipped = "Critical" /\ is_open(i.status)),
              approval_rate |-> IF l.items = <<>> THEN <<0, 1>>
                                ELSE <<items("Approved"), Len(l.items)>>]
    IN  [stats |-> s, commitment |-> compute_commitment(l, s)]

is_launch_ready(l, c) ==
    LET s == compute_checklist_stats(l).stats
    IN  /\ validate_checklist(c) = {}
        /\ l.items # <<>> /\ l.gates # <<>>
        /\ final_verdict_allows_launch(l.final_verdict)
        /\ gate_verdict_count(l, "Go") >= c.required_go_gates
        /\ gate_verdict_count(l, "ConditionalGo") <= c.max_conditional_gates
        /\ gate_verdict_count(l, "NoGo") = 0 /\ s.nogo_gates = 0
        /\ gate_verdict_count(l, "Deferred") = 0
        /\ s.critical_risks_open <= c.max_critical_risks_open
        /\ approved_signoff_count(l) >= c.min_signoff_count
        /\ has_all_required_categories_approved(l, c.required_categories)
        /\ ~ (c.auto_nogo_on_security_fail /\ has_rejected_security_item(l))

-----------------------------------------------------------------------------
(* A launch has gone through enough different hands: without the approvals *)
(* of any min_signoff_count - 1 people some approval is left.  Approving   *)
(* one more item, or one more gate that says Go, never takes readiness     *)
(* away; one that says NoGo always does.                                   *)
ReadinessIsMonotone(l, c) ==
    is_launch_ready(l, c) =>
      /\ \A people \in SUBSET {trim(i.assignee) : i \in ToSet(l.items)} :
            Cardinality(people) < c.min_signoff_count =>
              \E i \in ApprovedItems(l) : trim(i.assignee) \notin people \cup {0}
      /\ \A n \in DOMAIN l.items :
            is_launch_ready([l EXCEPT !.items[n].status = "Approved"], c)
      /\ is_launch_ready([l EXCEPT !.gates = Append(@, GateDecision("Go", 1, <<>>))], c)
      /\ ~ is_launch_ready([l EXCEPT !.gates = Append(@, GateDecision("NoGo", 1, <<>>))], c)

(* The commitment does not depend on the order of items and gates, and two *)
(* checklists that share it are ready together.                            *)
CommitmentFixesLaunch(l, m, c) ==
    /\ compute_checklist_stats(l).commitment =
         compute_checklist_stats([l EXCEPT !.items = Reverse(@), !.gates = Reverse(@)]).commitment
    /\ compute_checklist_stats(l).commitment = compute_checklist_stats(m).commitment =>
         (is_launch_ready(l, c) <=> is_launch_ready(m, c))

-----------------------------------------------------------------------------
(***************************************************************************)
(* Milestone claims and the signed artifacts behind them                   *)
(* (claim_integrity.rs).  A gate status is its discriminant 0 .. 5; a      *)
(* milestone is [required, achieved, target_tps, measured_tps (0 for None),*)
(* gate_status], an artifact [kind, payload_hash, signature_scheme,        *)
(* signer_id, timestamp, gate_status], with times in hours.                *)
(***************************************************************************)
NotStarted == 0
Draft == 1
Partial == 2
SpecComplete == 3
InteropPassed == 4
ProductionReady == 5

MAX_ARTIFACT_AGE_HOURS == 24 * 30

(* The clock read by validate is the parameter now. *)
validate_claim_config(c, now) ==
    LET artifacts == FlattenSeq(Column(c.milestones, "achieved"))
        identity(a) == <<a.kind, a.payload_hash, a.signer_id>>
    IN  When(c.milestones = <<>>, "EmptyMilestones")
          \cup When(c.min_signers = 0, "NoSigners")
          \cup When(\E a \in ToSet(artifacts) : a.signature_scheme \notin c.allowed_schemes,
                    "InvalidSignatureScheme")
          \cup When(\E g \in ToSet(c.milestones) :
                      Repeats([i \in DOMAIN g.achieved |-> identity(g.achieved[i])]) # {},
                    "DuplicateArtifact")
          \cup When(\E a \in ToSet(artifacts) : now - a.timestamp > MAX_ARTIFACT_AGE_HOURS,
                    "StaleArtifact")
          \cup When(\E g \in ToSet(c.milestones) :
                      /\ g.gate_status >= SpecComplete
                      /\ g.required \ ToSet(Column(g.achieved, "kind")) # {},
                    "MissingRequiredArtifact")

Achieved(g, allowed) == SelectSeq(g.achieved, LAMBDA a : a.signature_scheme \in allowed)

ArtifactsCounted(artifacts) ==    \* mutant: one signer of two artifacts counts twice
    Len(artifacts)

Signers(artifacts) == Cardinality(ToSet(Column(artifacts, "signer_id")))

evaluate_milestone_gate(g, allowed, min_signers) ==
    LET achieved == Achieved(g, allowed)
        covered  == g.required \cap ToSet(Column(achieved, "kind"))
        ready    == \A a \in ToSet(achieved) : a.kind \in g.required => a.gate_status >= ProductionReady
    IN  CASE achieved = <<>>                               -> NotStarted
          [] achieved # <<>> /\ g.required # {} /\ covered = {} -> Draft
          [] covered # {} /\ covered # g.required          -> Partial
          [] OTHER ->
               IF Signers(achieved) < min_signers \/ g.measured_tps < g.target_tps THEN SpecComplete
               ELSE IF ready /\ Signers(achieved) >= 2 * min_signers THEN ProductionReady
               ELSE InteropPassed

compute_claim_integrity_stats(c) ==
    LET status == [i \in DOMAIN c.milestones |->
                     evaluate_milestone_gate(c.milestones[i], c.allowed_schemes, c.min_signers)]
        first(s) == Min({i \in DOMAIN status : status[i] = s})
        passed == Count(status, LAMBDA s : s >= InteropPassed)
        some   == c.milestones # <<>>
    IN  [total_milestones |-> Len(status), gates_passed |-> passed,
         gates_failed     |-> Len(status) - passed,
         strongest_gate   |-> IF some THEN first(Max(ToSet(status))) ELSE 0,
         weakest_gate     |-> IF some THEN first(Min(ToSet(status))) ELSE 0,
         overall_status   |-> IF ~ some THEN NotStarted
                              ELSE IF c.require_all_gates THEN Min(ToSet(status))
                              ELSE Max(ToSet(status))]

compute_claim_commitment(artifacts) == Sorted(artifacts)

-----------------------------------------------------------------------------
(* A gate passes only on artifacts of every required kind and of enough    *)
(* different signers under the allowed schemes, at the target rate; one    *)
(* more artifact never takes a passed gate below passed.                   *)
PassNeedsEvidence(g, allowed, min_signers, extra) ==
    LET status == evaluate_milestone_gate(g, allowed, min_signers)
        more   == evaluate_milestone_gate([g EXCEPT !.achieved = Append(@, extra)],
                                          allowed, min_signers)
        counted == {a \in ToSet(g.achieved) : a.signature_scheme \in allowed}
    IN  /\ status >= InteropPassed =>
             /\ g.required \subseteq {a.kind : a \in counted}
             /\ Cardinality({a.signer_id : a \in counted}) >= min_signers
             /\ g.measured_tps >= g.target_tps
        /\ more >= Min({status, InteropPassed})
        /\ compute_claim_commitment(Append(g.achieved, extra))
             = compute_claim_commitment(<<extra>> \o g.achieved)

(* A valid configuration's milestone declared complete is evaluated as     *)
(* complete, and the overall status passes exactly when every gate, or     *)
(* one where that is enough, has passed.                                   *)
DeclaredIsEvaluated(c, now) ==
    LET s == compute_claim_integrity_stats(c)
    IN  /\ validate_claim_config(c, now) = {} =>
             \A g \in ToSet(c.milestones) :
                 g.gate_status >= SpecComplete /\ g.required # {} =>
                   evaluate_milestone_gate(g, c.allowed_schemes, c.min_signers) >= SpecComplete
        /\ s.overall_status >= InteropPassed <=>
             /\ s.total_milestones > 0
             /\ IF c.require_all_gates THEN s.gates_failed = 0 ELSE s.gates_passed > 0

-----------------------------------------------------------------------------
(***************************************************************************)
(* Upgrade proposals and their rehearsals (upgrade_governance.rs).         *)
(* Percentages are whole numbers, -1 for one that is not finite; a client  *)
(* is a text with a letter case, <<core, padding, case>>; a missing time   *)
(* or epoch is -1.  Proposals of one id and time have one title.           *)
(***************************************************************************)
NotGiven == -1
UpgradePhase == {"Proposal", "Discussion", "Signaling", "Accepted", "Rehearsal", "Activation",
                 "PostMortem"}
RehearsalOutcome == {"Success", "PartialSuccess", "Failure", "Aborted"}

DefaultUpgradeConfig ==
    [signal_threshold_pct |-> 67, min_rehearsal_nodes |-> 8, required_client_count |-> 3,
     min_blocks_post_fork |-> 1000, max_finality_disruption_slots |-> 32,
     cooldown_between_upgrades_days |-> 90, emergency_rollback_enabled |-> TRUE]

validate_upgrade(c) ==
    When(c.signal_threshold_pct \notin 50 .. 100, "signal_threshold_pct")
      \cup When(c.min_rehearsal_nodes = 0, "min_rehearsal_nodes")
      \cup When(\/ c.required_client_count = 0
                \/ c.required_client_count > c.min_rehearsal_nodes /\ c.min_rehearsal_nodes > 0,
                "required_client_count")
      \cup When(c.min_blocks_post_fork = 0, "min_blocks_post_fork")
      \cup When(\/ c.max_finality_disruption_slots = 0
                \/ /\ c.max_finality_disruption_slots > c.min_blocks_post_fork
                   /\ c.min_blocks_post_fork > 0, "max_finality_disruption_slots")
      \cup When(c.cooldown_between_upgrades_days = 0, "cooldown_between_upgrades_days")

is_accepted_or_later(phase) == phase \in {"Accepted", "Rehearsal", "Activation", "PostMortem"}

normalized_pct(value) == Max({0, Min({100, value})})

effective_signal_threshold(p, c) ==
    Max({normalized_pct(p.signal_threshold_pct), normalized_pct(c.signal_threshold_pct)})

duration_s(run) == IF run.ended_at >= run.started_at THEN run.ended_at - run.started_at ELSE NotGiven

SpelledClients(run) ==    \* mutant: a client counts once for each spelling
    Cardinality({e[1] : e \in {d \in ToSet(run.client_diversity) : ~ is_empty(d[1]) /\ d[2] > 0}})

unique_client_count(run) ==
    Cardinality({trim(e[1]) : e \in {d \in ToSet(run.client_diversity) :
                                       ~ is_empty(d[1]) /\ d[2] > 0}})

qualifies_for_activation(run, c) ==
    /\ ~ is_empty(run.id) /\ ~ is_empty(run.proposal_id) /\ ~ is_empty(run.testnet_name)
    /\ run.outcome = "Success"
    /\ duration_s(run) # NotGiven
    /\ run.node_count >= c.min_rehearsal_nodes
    /\ unique_client_count(run) >= c.required_client_count
    /\ run.blocks_post_fork >= c.min_blocks_post_fork
    /\ run.finality_disruption_slots <= c.max_finality_disruption_slots
    /\ run.rollback_triggered => c.emergency_rollback_enabled

is_ready_for_activation(p, c, runs) ==
    /\ ~ is_empty(p.id)
    /\ is_accepted_or_later(p.phase)
    /\ p.approved_at # NotGiven /\ p.approved_at >= p.created_at
    /\ validate_upgrade(c) = {}
    /\ normalized_pct(p.current_signal_pct) >= effective_signal_threshold(p, c)
    /\ p.fork_strategy = "EpochBoundary" => p.activation_epoch > 0
    /\ \E run \in ToSet(runs) : trim(run.proposal_id) = trim(p.id) /\ qualifies_for_activation(run, c)

(* The entries are stably sorted by these keys, ties stay as listed. *)
ProposalKey(p) == <<trim(p.id), p.created_at>>
RunKey(run)    == <<trim(run.proposal_id), trim(run.id), run.started_at>>

CanonicalProposal(p) ==
    [p EXCEPT !.id = trim(@), !.eip_numbers = ToSet(@), !.signal_threshold_pct = normalized_pct(@),
              !.current_signal_pct = normalized_pct(@)]

(* Sorted by the lower-case name and the share; the letter case is kept.   *)
normalized_client_diversity(run) ==
    ByKey(SelectSeq(run.client_diversity, LAMBDA e : ~ is_empty(e[1])),
          LAMBDA e : <<trim(e[1]), normalized_pct(e[2])>>)

CanonicalRun(run) ==
    [run EXCEPT !.id = trim(@), !.proposal_id = trim(@), !.testnet_name = trim(@),
                !.client_diversity =
                   LET d == normalized_client_diversity(run)
                   IN  [k \in DOMAIN d |-> [i \in DOMAIN d[k] |-> d[k][i][1][3]]]]

compute_stats_commitment(ps, runs) ==
    LET proposals == ByKey(ps, ProposalKey)
        rehearsed == ByKey(runs, RunKey)
        each(list, f(_)) == [i \in DOMAIN list |-> f(list[i])]
    IN  <<[k \in DOMAIN proposals |-> each(proposals[k], CanonicalProposal)],
          [k \in DOMAIN rehearsed |-> each(rehearsed[k], CanonicalRun)]>>

(* Rates and averages as sums. *)
compute_upgrade_stats(ps, runs) ==
    [total_proposals        |-> Len(ps),
     accepted_proposals     |-> Count(ps, LAMBDA p : is_accepted_or_later(p.phase)),
     rehearsals_run         |-> Len(runs),
     rehearsal_success_rate |-> Count(runs, LAMBDA r : r.outcome = "Success"),
     avg_signal_pct         |-> Total(ps, LAMBDA p : normalized_pct(p.current_signal_pct)),
     avg_rehearsal_duration_s |->
        Total(SelectSeq(runs, LAMBDA r : duration_s(r) # NotGiven), duration_s),
     commitment             |-> compute_stats_commitment(ps, runs)]

-----------------------------------------------------------------------------
(* A proposal is ready only on a majority signal and a rehearsal by enough *)
(* different clients; another rehearsal never makes it unready, nor does a *)
(* stronger signal.                                                        *)
ReadyNeedsRehearsal(p, c, runs) ==
    LET ready(q, rs) == is_ready_for_activation(q, c, rs)
    IN  ready(p, runs) =>
          /\ p.current_signal_pct >= 50 /\ p.current_signal_pct >= p.signal_threshold_pct
          /\ \E run \in ToSet(runs) :
               /\ Cardinality({trim(e[1]) : e \in ToSet(run.client_diversity)})
                    >= c.required_client_count
               /\ run.outcome = "Success" /\ trim(run.proposal_id) = trim(p.id)
          /\ \A run \in ToSet(runs) : ready(p, Append(runs, [run EXCEPT !.outcome = "Failure"]))
          /\ ready([p EXCEPT !.current_signal_pct = 100], runs)

(* What the commitment covers does not depend on the order of the lists    *)
(* where their keys differ, on padding, or on a share out of range; and it *)
(* fixes who is ready under any policy.                                    *)
CommitmentFixesReadiness(ps, runs, c) ==
    LET padded == [i \in DOMAIN runs |-> [runs[i] EXCEPT !.proposal_id = <<trim(@), 1>>]]
        s == compute_upgrade_stats(ps, runs)
    IN  /\ compute_upgrade_stats(ps, padded) = s
        /\ Repeats([i \in DOMAIN runs |-> RunKey(runs[i])]) = {}
             => compute_upgrade_stats(ps, Reverse(runs)) = s
        /\ \A i \in DOMAIN ps : is_ready_for_activation(ps[i], c, runs)
                                  <=> is_ready_for_activation(ps[i], c, padded)

=============================================================================
