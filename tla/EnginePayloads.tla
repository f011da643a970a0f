---------------------------- MODULE EnginePayloads ----------------------------
(***************************************************************************)
(* The EIP-7732 bookkeeping of eth2077-devnetd.rs: payload headers and     *)
(* envelopes by root, the headers of each slot, the timeliness status of a *)
(* slot and its penalty record.                                            *)
(*                                                                         *)
(* The fields of a header other than its root and slot are one value, a    *)
(* Bid, and those of an envelope a Body: the code only compares them.      *)
(* Times are those the requests carry (currentUnixS, revealedAtUnixS),     *)
(* which need not grow from one request to the next.                       *)
(***************************************************************************)
EXTENDS Integers, Sequences, FiniteSets

CONSTANTS
    Slot, Root, Bid, Body,
    Time,               \* the times requests carry
    started_at_unix_s,
    None

ASSUME EngineAssumption ==
    /\ Slot \subseteq Nat /\ Time \subseteq Nat /\ started_at_unix_s \in Nat
    /\ None \notin Nat

Header   == [slot : Slot, bid : Bid]
Envelope == [slot : Slot, body : Body, revealed_at : Time]

ASSUME NoneAssumption == None \notin Header /\ None \notin Envelope

VARIABLES
    headers_by_root,    \* engine_7732_headers_by_root, None when absent
    headers_by_slot,    \* engine_7732_headers_by_slot, the roots in arrival order
    envelopes_by_root,  \* engine_7732_envelopes_by_root
    penalties           \* engine_7732_penalties_by_slot

payloadVars == <<headers_by_root, headers_by_slot, envelopes_by_root, penalties>>

Contains(s, x) == \E i \in DOMAIN s : s[i] = x

-----------------------------------------------------------------------------
PayloadInit ==
    /\ headers_by_root   = [r \in Root |-> None]
    /\ headers_by_slot   = [s \in Slot |-> <<>>]
    /\ envelopes_by_root = [r \in Root |-> None]
    /\ penalties         = [s \in Slot |-> None]

NoteHeaderTwice(s, r) ==    \* mutant: a replay is listed again
    headers_by_slot' = [headers_by_slot EXCEPT ![s] = Append(@, r)]

(* slot_roots: the root joins its slot's list unless it is there. *)
Noted(q, r) == IF Contains(q, r) THEN q ELSE Append(q, r)

NoteHeader(s, r) ==
    headers_by_slot' = [headers_by_slot EXCEPT ![s] = Noted(@, r)]

RegisterHeaderReplacing(r, h) ==    \* mutant: a conflicting replay replaces the header
    /\ headers_by_root' = [headers_by_root EXCEPT ![r] = h]
    /\ NoteHeader(h.slot, r)
    /\ UNCHANGED <<envelopes_by_root, penalties>>

(* engine_7732_register_payload_header_response: a conflicting replay is   *)
(* INVALID, an equal one a duplicate.                                      *)
RegisterHeader(r, h) ==
    /\ headers_by_root[r] \in {None, h}
    /\ headers_by_root' = [headers_by_root EXCEPT ![r] = h]
    /\ NoteHeader(h.slot, r)
    /\ UNCHANGED <<envelopes_by_root, penalties>>

RegisterEnvelopeReplacing(r, e) ==    \* mutant: a replay moves the reveal time
    /\ headers_by_root[r] # None => headers_by_root[r].slot = e.slot
    /\ envelopes_by_root[r] # None =>
          [envelopes_by_root[r] EXCEPT !.revealed_at = e.revealed_at] = e
    /\ envelopes_by_root' = [envelopes_by_root EXCEPT ![r] = e]
    /\ UNCHANGED <<headers_by_root, headers_by_slot, penalties>>

(* engine_7732_register_payload_envelope_response: the slot of a known     *)
(* header must match; a replay, conflicting or not, changes nothing.       *)
RegisterEnvelope(r, e) ==
    /\ headers_by_root[r] # None => headers_by_root[r].slot = e.slot
    /\ envelopes_by_root[r] = None
    /\ envelopes_by_root' = [envelopes_by_root EXCEPT ![r] = e]
    /\ UNCHANGED <<headers_by_root, headers_by_slot, penalties>>

-----------------------------------------------------------------------------
(* engine_7732_slot_status_response *)

Deadline(s) == started_at_unix_s + s * 12 + 12

SlotRoots(s)  == {headers_by_slot[s][i] : i \in DOMAIN headers_by_slot[s]}
Revealed(s)   == {r \in SlotRoots(s) : envelopes_by_root[r] # None}
LateReveals(s) == {r \in Revealed(s) : envelopes_by_root[r].revealed_at > Deadline(s)}
OnTime(s)     == Revealed(s) \ LateReveals(s)
Pending(s)    == SlotRoots(s) \ Revealed(s)
Orphans(s)    == {r \in Root : /\ headers_by_root[r] = None
                               /\ envelopes_by_root[r] # None
                               /\ envelopes_by_root[r].slot = s}

Status(s, now) ==
    IF SlotRoots(s) = {}
      THEN IF Orphans(s) = {} THEN "UNKNOWN" ELSE "ORPHAN_ENVELOPE"
    ELSE IF Pending(s) = {}
      THEN IF LateReveals(s) # {} THEN "LATE_REVEAL" ELSE "REVEALED"
    ELSE IF now > Deadline(s)
      THEN IF Revealed(s) = {} THEN "WITHHELD" ELSE "PARTIAL_WITHHOLD"
    ELSE IF OnTime(s) = {} THEN "HEADER_ONLY" ELSE "PARTIAL_REVEAL"

Statuses == {"UNKNOWN", "ORPHAN_ENVELOPE", "LATE_REVEAL", "REVEALED", "WITHHELD",
             "PARTIAL_WITHHOLD", "HEADER_ONLY", "PARTIAL_REVEAL"}

(* engine_7732_is_timeliness_violation *)
IsViolation(status) == status \in {"WITHHELD", "PARTIAL_WITHHOLD", "LATE_REVEAL"}

-----------------------------------------------------------------------------
(* engine_7732_update_penalty_state *)

Penalty == [state : {"ACTIVE", "RECOVERED"}, last_status : Statuses,
            activated_at : Time, recovered_at : Time \cup {None}]

PenaltyKeepsRecovery(old, status, now) ==    \* mutant: re-activation keeps recovered_at
    IF IsViolation(status)
      THEN [state |-> "ACTIVE", last_status |-> status,
            activated_at |-> IF old = None THEN now ELSE old.activated_at,
            recovered_at |-> IF old = None THEN None ELSE old.recovered_at]
    ELSE IF old = None THEN None
    ELSE [old EXCEPT !.last_status = status, !.state = "RECOVERED",
                     !.recovered_at = IF old.state = "RECOVERED" THEN @ ELSE now]

UpdatedPenalty(old, status, now) ==
    IF IsViolation(status)
      THEN IF old # None /\ old.state = "ACTIVE"
             THEN [old EXCEPT !.last_status = status]
             ELSE [state |-> "ACTIVE", last_status |-> status,
                   activated_at |-> now, recovered_at |-> None]
    ELSE IF old = None THEN None
    ELSE [old EXCEPT !.last_status = status, !.state = "RECOVERED",
                     !.recovered_at = IF old.state = "RECOVERED" THEN @ ELSE now]

UpdatePenalty(s, now) ==
    penalties' = [penalties EXCEPT ![s] = UpdatedPenalty(@, Status(s, now), now)]

===============================================================================
