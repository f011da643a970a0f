------------------------------- MODULE EngineApi -------------------------------
(***************************************************************************)
(* The Engine API handlers of eth2077-devnetd.rs that share a slot's       *)
(* payload records (EnginePayloads) and the FOCIL inclusion list: header   *)
(* and envelope registration, engine_getInclusionListV1,                   *)
(* engine_forkchoiceUpdatedV3 and engine_newPayloadV3.  Each runs under    *)
(* the node's mutex, so each is one step.                                  *)
(*                                                                         *)
(* A list is the sequence of its transaction hashes.  Its root, a hash of  *)
(* those hashes joined in order, is the sequence itself.  The metadata of  *)
(* its transactions is one value, a Meta.  A handler resolves the slot of  *)
(* a request from the request, from required_il_slot or from the height:   *)
(* here it is any slot.  The committee, the view id and the update time    *)
(* are only echoed and are left out.  A rejected request that changes      *)
(* nothing is a stuttering step.                                           *)
(***************************************************************************)
EXTENDS EnginePayloads

CONSTANTS Lists, Meta

Update == [txs : Lists, meta : Meta]
View   == [slot : Slot, root : Lists \cup {<<>>}]

ASSUME NoneIsNoRecord == None \notin Update /\ None \notin View /\ None \notin Penalty

VARIABLES
    required_il,    \* engine_required_il_{txs,meta,slot}: [txs, meta, slot], slot None at first
    frozen,         \* engine_focil_{view_frozen,frozen_slot,frozen_il_root}: None or [slot, root]
    handed_out      \* slot -> the lists engine_getInclusionListV1 answered for it

ilVars == <<required_il, frozen, handed_out>>
vars   == <<payloadVars, ilVars>>

Init ==
    /\ PayloadInit
    /\ required_il = [txs |-> <<>>, meta |-> None, slot |-> None]
    /\ frozen = None
    /\ handed_out = [s \in Slot |-> {}]

-----------------------------------------------------------------------------
Header7732(r, h) == RegisterHeader(r, h) /\ UNCHANGED ilVars

Envelope7732(r, e) == RegisterEnvelope(r, e) /\ UNCHANGED ilVars

(* engine_get_inclusion_list_response: asking for the slot of the list     *)
(* freezes it; any other slot is answered with the same list.              *)
GetInclusionList(s) ==
    /\ IF required_il.slot = s
         THEN /\ frozen' = [slot |-> s, root |-> required_il.txs]
              /\ handed_out' = [handed_out EXCEPT ![s] = @ \cup {required_il.txs}]
         ELSE UNCHANGED <<frozen, handed_out>>
    /\ UNCHANGED <<payloadVars, required_il>>

TimelyUnlessFrozen(s, now) ==    \* mutant: a frozen slot skips the timeliness gate
    frozen # None \/ ~ IsViolation(Status(s, now))

(* The timeliness gate of both handlers. *)
Timely(s, now) == ~ IsViolation(Status(s, now))

NoFreezeCheck(s, list) == FALSE    \* mutant: the freeze is not enforced

(* The list would change under a view frozen for the same slot. *)
BreaksFreeze(s, list) ==
    frozen # None /\ frozen.slot = s /\ list # None /\ list.txs # frozen.root

(* A forkchoice update for another slot unfreezes the view. *)
Rotate(s) ==
    frozen' = IF frozen # None /\ frozen.slot # s THEN None ELSE frozen

(* engine_forkchoice_updated_response; list is None without an inclusion   *)
(* list.  The penalty record is updated whatever the outcome.              *)
ForkchoiceUpdated(s, now, list) ==
    /\ UpdatePenalty(s, now)
    /\ IF ~ Timely(s, now) \/ BreaksFreeze(s, list)
         THEN UNCHANGED <<required_il, frozen>>
         ELSE /\ Rotate(s)
              /\ required_il' = IF list = None THEN required_il
                                ELSE [txs |-> list.txs, meta |-> list.meta, slot |-> s]
    /\ UNCHANGED <<headers_by_root, headers_by_slot, envelopes_by_root, handed_out>>

(* engine_new_payload_response: its verdict is in PayloadValidation; what  *)
(* it writes is the penalty record.                                        *)
NewPayload(s, now) ==
    /\ UpdatePenalty(s, now)
    /\ UNCHANGED <<headers_by_root, headers_by_slot, envelopes_by_root, ilVars>>

-----------------------------------------------------------------------------
Next ==
    \/ \E r \in Root, h \in Header : Header7732(r, h)
    \/ \E r \in Root, e \in Envelope : Envelope7732(r, e)
    \/ \E s \in Slot : GetInclusionList(s)
    \/ \E s \in Slot, now \in Time, list \in Update \cup {None} :
          ForkchoiceUpdated(s, now, list)
    \/ \E s \in Slot, now \in Time : NewPayload(s, now)

Spec == Init /\ [][Next]_vars

-----------------------------------------------------------------------------
(* Type correctness of the engine part of NodeState. *)
TypeOK ==
    /\ headers_by_root \in [Root -> Header \cup {None}]
    /\ headers_by_slot \in [Slot -> Seq(Root)]
    /\ envelopes_by_root \in [Root -> Envelope \cup {None}]
    /\ penalties \in [Slot -> Penalty \cup {None}]
    /\ required_il \in [txs : Lists \cup {<<>>}, meta : Meta \cup {None},
                        slot : Slot \cup {None}]
    /\ frozen \in View \cup {None}
    /\ handed_out \in [Slot -> SUBSET (Lists \cup {<<>>})]

(* engine_7732_headers_by_slot is exactly the inverse of                   *)
(* engine_7732_headers_by_root: through replays and rejected conflicts,    *)
(* every header is listed once, in its own slot, and nothing else is.      *)
SlotIndexExact ==
    \A s \in Slot :
        /\ SlotRoots(s) = {r \in Root : headers_by_root[r] # None
                                        /\ headers_by_root[r].slot = s}
        /\ \A i, j \in DOMAIN headers_by_slot[s] :
              headers_by_slot[s][i] = headers_by_slot[s][j] => i = j

(* No later request rewrites history: a registered header keeps every      *)
(* field, and a registered envelope keeps its first reveal time, which     *)
(* decides whether its slot was late.                                      *)
RecordsImmutable ==
    [][\A r \in Root :
        /\ headers_by_root[r] # None => headers_by_root'[r] = headers_by_root[r]
        /\ envelopes_by_root[r] # None => envelopes_by_root'[r] = envelopes_by_root[r]]_vars

(* An active penalty for a late reveal always has a late envelope of the   *)
(* slot behind it: no order of registrations and engine calls leaves the   *)
(* penalty of update_penalty_state standing without its cause.             *)
LatePenaltyHasEvidence ==
    \A s \in Slot :
        penalties[s] # None /\ penalties[s].state = "ACTIVE"
            /\ penalties[s].last_status = "LATE_REVEAL" => LateReveals(s) # {}

(* The life of a slot's penalty: created ACTIVE, never deleted, ACTIVE     *)
(* exactly while no recovery time is recorded, and its activation time     *)
(* moves only when a recovered penalty is activated again.                 *)
PenaltyLifecycle ==
    [][\A s \in Slot :
        LET old == penalties[s]   new == penalties'[s] IN
        /\ new # None => (new.state = "ACTIVE" <=> new.recovered_at = None)
        /\ old = None /\ new # None => new.state = "ACTIVE"
        /\ old # None => /\ new # None
                         /\ new.activated_at # old.activated_at =>
                               old.state = "RECOVERED" /\ new.state = "ACTIVE"]_vars

(* While a view is frozen, the list in force is the one that was handed    *)
(* out for the frozen slot, and it is still the list of that slot.         *)
FrozenListInForce ==
    frozen # None => /\ frozen.slot = required_il.slot
                     /\ frozen.root = required_il.txs
                     /\ required_il.txs \in handed_out[frozen.slot]

(* forkchoiceUpdated adopts a list for a slot only when the slot's payload *)
(* timeliness is in order: the penalty it has just updated is not active.  *)
ListAdoptedOnlyWhenTimely ==
    [][required_il' # required_il =>
        LET p == penalties'[required_il'.slot] IN p = None \/ p.state = "RECOVERED"]_vars

===============================================================================
