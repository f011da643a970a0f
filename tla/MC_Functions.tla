----------------------------- MODULE MC_Functions -----------------------------
(***************************************************************************)
(* The pure functions of the repository on small inputs, each checked      *)
(* against what its callers rely on: the payload verdict of devnetd, the   *)
(* execution crate, the bridge's converter, the clients and the benchmark, *)
(* and the types crate.                                                    *)
(***************************************************************************)
EXTENDS PayloadValidation, MC_Inputs

CONSTANTS A, B, h1, h2

(* Two hashes and two senders; a block gas limit of 2 that one or two       *)
(* transactions exceed; sender A can pay for one transaction only.          *)
MCNonce   == [a \in {A, B} |-> IF a = A THEN 0 ELSE 1]
MCBalance == [a \in {A, B} |-> IF a = A THEN 3 ELSE 4]
HashSymmetry == Permutations({h1, h2})

Silent == [from |-> Absent, nonce |-> Absent, gas |-> Absent, price |-> Absent, value |-> Absent]
Full   == [from |-> A, nonce |-> 0, gas |-> 1, price |-> 1, value |-> 1]
MCListEntry    == {[hash |-> h] @@ m : h \in Hash, m \in {Silent, Full}}
MCPayloadEntry == {e \in Entry : e.value # Absent /\ (e.price = Absent => e.gas = 1)}

Families == ExecutionFamilies \cup ClientFamilies \cup TypesFamilies \cup PlanFamilies \cup NetworkFamilies

NoPayload ==
    /\ required_il_txs = <<>> /\ required_il_meta = <<>>
    /\ frozen_slot = Absent /\ payload_slot = 1 /\ payload_entries = <<>>

FunctionsInit ==
    \/ RequestInit /\ input = [kind |-> "payload", given |-> TRUE]
    \/ NoPayload /\ input \in {[kind |-> k, given |-> FALSE] : k \in Families}

FunctionsNext ==
    \/ Is("payload") /\ RequestNext /\ UNCHANGED input
    \/ GiveExecutionInput /\ UNCHANGED requestVars
    \/ GiveClientInput /\ UNCHANGED requestVars
    \/ GiveTypesInput /\ UNCHANGED requestVars
    \/ GivePlanInput /\ UNCHANGED requestVars
    \/ GiveNetworkInput /\ UNCHANGED requestVars

FunctionsSpec == FunctionsInit /\ [][FunctionsNext]_<<requestVars, input>>

-----------------------------------------------------------------------------
(* Properties *)

(* Builder, validator and executor of eth2077-execution agree on every     *)
(* block, and no storage outlives its account (block_builder.rs:75,        *)
(* block_validator.rs:91, executor.rs:176).                                *)
BlocksReproduce ==
    Is("block") =>
      /\ Pipeline!BuilderAndValidatorAgree(input.pre, input.txs)
      /\ Pipeline!StorageHasAnOwner(input.pre, input.txs)

(* What stands for something has one form, whichever order or spelling it  *)
(* was given in: merged and hashed access lists (eip7928.rs:96,185), blocks *)
(* through the bridge and back (payload_converter.rs:21,49,132), raw       *)
(* transactions, hex texts and HTTP requests in any pieces                 *)
(* (eth2077-devnetd.rs:576,4130), merged announcements and fingerprints    *)
(* (eip8077.rs:192, spore_sync.rs:22), and the commitments of ceremonies,  *)
(* genesis files, upgrades, snapshots and nodes (validator_ceremony.rs:391, *)
(* genesis_builder.rs:450, snapshot_sync.rs:409).                          *)
FormsAreCanonical ==
    /\ Is("lists") =>
         /\ Exec!MergedIsAccepted(input.lists)
         /\ Exec!MergesIncrementally(input.lists)
    /\ Is("list_pair") => Exec!HashIsCanonical(input.a, input.b)
    /\ Is("convert") =>
         /\ Wire!BlockRoundTrips(input.block, 2, 9)
         /\ Wire!WordsKeepTheirValue(input.text, 2, 9)
    /\ ClientsUnderstood /\ TypesCanonical /\ PlanCanonical /\ NetworkCanonical

(* Every check accepts exactly what its users may rely on: conflict-free   *)
(* lanes within their limits (eip8142.rs:111), one gas cost per opcode     *)
(* (eip8007.rs:224), cells of the own custody group (eip8070.rs:82),       *)
(* complete bundles (blob_sidecar.rs:54), signatures in range              *)
(* (eip7702.rs:57), blocks in the window (eip7864.rs:40), anchored         *)
(* executions (eip8079.rs:79), frames, proofs and inclusion lists          *)
(* (eip8141.rs:88, eip8025.rs:85, focil.rs:44), ceremonies with a quorum   *)
(* (validator_ceremony.rs:232), funded genesis files                       *)
(* (genesis_builder.rs:143), healthy topologies and unambiguous schedules  *)
(* (bootnode_discovery.rs:243, chain_spec.rs:227).                         *)
AcceptedInputsAreSound ==
    /\ Is("lanes") => /\ Exec!AcceptedLanesAreSafe(input.as, input.config)
                      /\ Exec!LanesCommitInAnyOrder(input.as, input.config)
                      /\ Exec!RatioIsPossible(input.as, input.config)
    /\ Is("classify") =>
         Exec!LaneFollowsContents(input.to, input.len, input.selector, input.value, input.tx_type)
    /\ Is("gas") => /\ Exec!TableAgreesWithLookup(input.schedule, 0 .. 3, 1 .. 3)
                    /\ Exec!ImpactIsBounded(input.schedule)
    /\ Is("custody") => Exec!CustodyPartitionsCells(input.groups, input.hash)
    /\ Is("request") => Exec!AcceptedRequestInCustody(input)
    /\ Is("bundle") => Exec!BundleChecksAgree(input)
    /\ Is("auth") => Exec!AcceptedAuthorizationsSound(input.as, 7, <<1, 2>>, <<0, 2>>, 3)
    /\ Is("access") => Exec!WindowIsMonotone(input.request, input.current, input.lookback, input.limit)
    /\ Is("execute") => Exec!ExecuteFollowsValidation(input.in, input.config)
    /\ TypesAccepted /\ PlanAccepted /\ NetworkAccepted

(* Gates and plans of the types crate: a gate that stays shut names what   *)
(* would open it, opens when that is done and is not closed by more        *)
(* evidence (ci_formal_gate.rs:477, go_nogo_gate.rs:130,                    *)
(* claim_integrity.rs:263, upgrade_governance.rs:215); a plan contains     *)
(* what it depends on, and a cycle is reported exactly when there is one   *)
(* (citadel_port.rs:128, ef_architecture.rs:210).                          *)
GatesAndPlansHold == GatesNameTheirCause /\ PlanGates /\ PlansOrdered

(* Figures are consistent with what they count: fee shares with the fee    *)
(* (eip7999.rs:119), gaps with nonces (eip8077.rs:92), days with the       *)
(* calendar (assumption_checker.rs:139), tiers with theorems               *)
(* (theorem_taxonomy.rs:320), synced bytes with snapshots and progress     *)
(* with its phases (snapshot_sync.rs:104,552), senders and the report with *)
(* the benchmark's sends (live-bench main.rs:144,699).                     *)
FiguresAddUp == TypesFigures /\ PlanFigures /\ NetworkFigures /\ BenchFigures
===============================================================================
