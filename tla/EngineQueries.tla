---------------------------- MODULE EngineQueries ----------------------------
(***************************************************************************)
(* The read-only EIP-7732 calls of eth2077-devnetd.rs over the registry of *)
(* EnginePayloads: headers, envelopes, timeliness and penalties, of one    *)
(* slot or of a range of slots that is cut to a window.                    *)
(*                                                                         *)
(* A request is [slot, root, first]: the named fields and the first        *)
(* positional parameter, None when absent.  That parameter is read as a    *)
(* slot or as a root; roots of 64 bits or less, which would read as both,  *)
(* are left out.  No addition of these calls reaches the limit of u64.     *)
(***************************************************************************)
EXTENDS EngineApi, FiniteSetsExt, Functions

CONSTANTS
    MAX_SLOT_WINDOW,
    NextSlot            \* current_height + 1, the slot of a request that names none

(* Slots are the numbers of an integer type; a root is none of them. *)
ASSUME WindowAssumption ==
    /\ MAX_SLOT_WINDOW \in Nat \ {0} /\ NextSlot \in Slot
    /\ \E lo, hi \in Slot : Slot = lo .. hi
    /\ Root \cap Slot = {} /\ None \notin Root

Request == [slot : Slot \cup {None}, root : Root \cup {None}, first : Slot \cup Root \cup {None}]

OrElse(option, other) == IF option # None THEN option ELSE other

slot_from_req(q) == OrElse(q.slot, IF q.first \in Slot THEN q.first ELSE None)
root_from_req(q) == OrElse(q.root, IF q.first \in Root THEN q.first ELSE None)

SlotIn(records, root) == IF root = None \/ records[root] = None THEN None ELSE records[root].slot

(* engine_7732_get_payload_timeliness_response and the penalty call *)
SlotOf(q) ==
    LET root == root_from_req(q)
    IN  OrElse(slot_from_req(q),
               OrElse(SlotIn(headers_by_root, root),
                      OrElse(SlotIn(envelopes_by_root, root), NextSlot)))

(* engine_7732_get_payload_header_response / _envelope_response *)
RecordFor(records, q) ==
    LET root == root_from_req(q) IN IF root = None THEN None ELSE records[root]

-----------------------------------------------------------------------------
(* engine_7732_slot_status_response, the counts of its answer *)
Timeliness(s, now) ==
    [slot |-> s, status |-> Status(s, now), penalty |-> penalties[s],
     header_count |-> Len(headers_by_slot[s]), revealed |-> OnTime(s), late |-> LateReveals(s),
     pending |-> Pending(s), orphans |-> Orphans(s), deadline_passed |-> now > Deadline(s)]

(* engine_7732_penalty_slot_snapshot *)
PenaltySnapshot(s, now) ==
    [slot |-> s, penalized |-> penalties[s] # None,
     penalty_state |-> IF penalties[s] = None THEN "NONE" ELSE penalties[s].state,
     timeliness |-> Timeliness(s, now)]

(* The roots of the slot's list that have a record, and those that have     *)
(* none, each at its position in the list.                                 *)
Found(records, s)  == RestrictValues(headers_by_slot[s], LAMBDA r : records[r] # None)
Absent(records, s) == RestrictValues(headers_by_slot[s], LAMBDA r : records[r] = None)

Count(listed) == Cardinality(DOMAIN listed)

(* engine_7732_headers_by_slot_snapshot *)
HeadersAt(s) ==
    [slot |-> s, roots |-> headers_by_slot[s], headers |-> Found(headers_by_root, s),
     header_count |-> Len(headers_by_slot[s]),
     revealed_count |-> Count(Found(envelopes_by_root, s))]

OrphansBySlot(s) ==    \* mutant: an envelope whose header is known under another slot
    {r \in Root : envelopes_by_root[r] # None /\ envelopes_by_root[r].slot = s} \ SlotRoots(s)

(* The envelopes of the slot whose root has no header. *)
OrphanEnvelopes(s) == Orphans(s)

(* engine_7732_envelopes_by_slot_snapshot *)
EnvelopesAt(s, include_orphans) ==
    [slot |-> s, linked |-> Found(envelopes_by_root, s), missing |-> Absent(envelopes_by_root, s),
     orphans |-> IF include_orphans THEN OrphanEnvelopes(s) ELSE {},
     orphan_count |-> Cardinality(OrphanEnvelopes(s))]

-----------------------------------------------------------------------------
effective_end_slot(start, count) == start + count - 1

(* What the four ..._by_range_response calls share, given the snapshot of   *)
(* every slot.                                                             *)
ByRange(start, end, snapshot) ==
    LET requested == end - start + 1
        count     == IF requested < MAX_SLOT_WINDOW THEN requested ELSE MAX_SLOT_WINDOW
        last      == effective_end_slot(start, count)
    IN  IF end < start THEN [status |-> "INVALID"]
        ELSE [status |-> "OK", effective_end |-> last, clamped |-> count < requested,
              slots |-> [i \in 1 .. last - start + 1 |-> snapshot[start + i - 1]]]

TimelinessByRange(start, end, now) == ByRange(start, end, [s \in Slot |-> Timeliness(s, now)])
HeadersByRange(start, end)         == ByRange(start, end, [s \in Slot |-> HeadersAt(s)])
EnvelopesByRange(start, end, include_orphans) ==
    ByRange(start, end, [s \in Slot |-> EnvelopesAt(s, include_orphans)])

PenaltiesByRange(start, end, now) ==
    LET answer == ByRange(start, end, [s \in Slot |-> PenaltySnapshot(s, now)])
        in(state) == Cardinality({i \in DOMAIN answer.slots : answer.slots[i].penalty_state = state})
    IN  IF answer.status = "INVALID" THEN answer
        ELSE [answer |-> answer, active |-> in("ACTIVE"), recovered |-> in("RECOVERED")]

-----------------------------------------------------------------------------
(* The slots a client sees who asks again from effective_end + 1 for as    *)
(* long as the answer says it was cut.                                     *)
Walk(start, end) ==
    LET from[s \in start .. end] ==
          LET page == EnvelopesByRange(s, end, TRUE)
          IN  page.slots \o (IF page.clamped THEN from[page.effective_end + 1] ELSE <<>>)
    IN  from[start]

Reported(snapshot) == Range(snapshot.linked) \cup snapshot.orphans

(* The four calls for one range cut it at the same slot and agree about    *)
(* what they show: a header is linked or missing, and a penalized slot is  *)
(* active or recovered.                                                    *)
PagesAgree(page, headers, timely, penalized) ==
    /\ {headers.effective_end, timely.effective_end, penalized.answer.effective_end} = {page.effective_end}
    /\ \A i \in DOMAIN page.slots :
         /\ Count(page.slots[i].linked) + Count(page.slots[i].missing) = headers.slots[i].header_count
         /\ Count(headers.slots[i].headers) = timely.slots[i].header_count
         /\ Cardinality(timely.slots[i].revealed \cup timely.slots[i].late) = headers.slots[i].revealed_count
    /\ penalized.active + penalized.recovered
         = Cardinality({i \in DOMAIN timely.slots : timely.slots[i].penalty # None})

(* A client that walks the whole range page by page is told of every slot  *)
(* once and of every registered envelope exactly once, though an envelope  *)
(* may name another slot than its header; and a query by root leads to the *)
(* slot of its record, whose answer reports that root.  The four range     *)
(* calls agree about every slot.                                           *)
WalkReportsEachEnvelopeOnce ==
    LET all  == Walk(Min(Slot), Max(Slot))
        at(r) == {i \in DOMAIN all : r \in Reported(all[i])}
    IN  /\ Len(all) = Max(Slot) - Min(Slot) + 1
        /\ \A r \in Root :
             IF envelopes_by_root[r] = None
               THEN at(r) = {}
               ELSE \E i \in DOMAIN all :
                      /\ at(r) = {i}
                      /\ all[i].slot = SlotOf([slot |-> None, root |-> None, first |-> r])
        /\ \A s \in Slot : PagesAgree(EnvelopesByRange(s, Max(Slot), FALSE), HeadersByRange(s, Max(Slot)),
                                      TimelinessByRange(s, Max(Slot), Max(Time)),
                                      PenaltiesByRange(s, Max(Slot), Max(Time)))
        /\ \A r \in Root :
             LET q == [slot |-> None, root |-> None, first |-> r]
             IN  RecordFor(headers_by_root, q) # None => RecordFor(headers_by_root, q).slot = SlotOf(q)
=============================================================================
