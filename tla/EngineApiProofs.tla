---------------------------- MODULE EngineApiProofs ----------------------------
(***************************************************************************)
(* Proofs about EngineApi and EngineQueries for every set of slots, roots, *)
(* times and lists.  The index is proved from TypeOK and SlotIndexExact    *)
(* together; the late penalties from the fact that late reveals never go   *)
(* away; the paged queries from the index, by induction over the pages     *)
(* that a walk still has to read.                                          *)
(***************************************************************************)
EXTENDS EngineQueries, InductionProofs, SequenceTheorems

(* What appending a root to a slot's list, unless it is there, does to it. *)
LEMMA NoteHeaderEffect ==
    ASSUME NEW q \in Seq(Root), NEW r \in Root,
           \A i, j \in DOMAIN q : q[i] = q[j] => i = j
    PROVE  /\ Noted(q, r) \in Seq(Root)
           /\ \A x : (\E i \in DOMAIN Noted(q, r) : Noted(q, r)[i] = x)
                        <=> (\E i \in DOMAIN q : q[i] = x) \/ x = r
           /\ \A i, j \in DOMAIN Noted(q, r) : Noted(q, r)[i] = Noted(q, r)[j] => i = j
<1> DEFINE p == Noted(q, r)
<1>1. CASE Contains(q, r)
  BY <1>1 DEF Contains, Noted
<1>2. CASE ~ Contains(q, r)
  <2>1. p = Append(q, r)
    BY <1>2 DEF Noted
  <2> HIDE DEF p
  <2>2. /\ p \in Seq(Root) /\ Len(p) = Len(q) + 1 /\ Len(q) \in Nat
        /\ DOMAIN p = 1..(Len(q) + 1) /\ DOMAIN q = 1..Len(q)
        /\ p[Len(q) + 1] = r
        /\ \A i \in 1..Len(q) : p[i] = q[i]
    BY <2>1
  <2>3. \A i \in DOMAIN q : q[i] # r
    BY <1>2 DEF Contains
  <2>4. \A x : (\E i \in DOMAIN p : p[i] = x) <=> (\E i \in DOMAIN q : q[i] = x) \/ x = r
    BY <2>2
  <2>5. \A i, j \in DOMAIN p : p[i] = p[j] => i = j
    BY <2>2, <2>3
  <2> QED  BY <2>2, <2>4, <2>5 DEF p
<1> QED  BY <1>1, <1>2

(* The four variables of the payload registry, typed and indexed. *)
Registry ==
    /\ headers_by_root \in [Root -> Header \cup {None}]
    /\ headers_by_slot \in [Slot -> Seq(Root)]
    /\ envelopes_by_root \in [Root -> Envelope \cup {None}]
    /\ SlotIndexExact

(* The empty registry is typed and indexed. *)
LEMMA RegistryInit == Init => Registry
<1> SUFFICES ASSUME Init PROVE Registry
  OBVIOUS
<1>1. \A s \in Slot : headers_by_slot[s] = <<>> /\ DOMAIN headers_by_slot[s] = {}
  BY DEF Init, PayloadInit
<1>2. SlotIndexExact
  BY <1>1 DEF Init, PayloadInit, SlotIndexExact, SlotRoots
<1> QED  BY <1>2 DEF Init, PayloadInit, Registry

(* Registering a header, new or replayed, keeps the index exact. *)
LEMMA RegisterHeaderKeeps ==
    ASSUME Registry, NEW r \in Root, NEW h \in Header, RegisterHeader(r, h)
    PROVE  Registry'
<1> USE NoneAssumption
<1>1. h.slot \in Slot /\ h # None
  BY DEF Header
<1>2. /\ headers_by_root' \in [Root -> Header \cup {None}]
      /\ headers_by_root'[r] = h
      /\ \A x \in Root : x # r => headers_by_root'[x] = headers_by_root[x]
      /\ envelopes_by_root' \in [Root -> Envelope \cup {None}]
  BY DEF Registry, RegisterHeader
<1> DEFINE q == headers_by_slot[h.slot]
           p == headers_by_slot'[h.slot]
<1>3. /\ q \in Seq(Root)
      /\ p = Noted(q, r)
      /\ \A s \in Slot : s # h.slot => headers_by_slot'[s] = headers_by_slot[s]
      /\ headers_by_slot' = [headers_by_slot EXCEPT ![h.slot] = p]
  BY Zenon, <1>1 DEF Registry, RegisterHeader, NoteHeader
<1>4. \A i, j \in DOMAIN q : q[i] = q[j] => i = j
  BY <1>1 DEF Registry, SlotIndexExact
<1>5. /\ p \in Seq(Root)
      /\ \A x : (\E i \in DOMAIN p : p[i] = x) <=> (\E i \in DOMAIN q : q[i] = x) \/ x = r
      /\ \A i, j \in DOMAIN p : p[i] = p[j] => i = j
  <2>1. q \in Seq(Root) /\ p = Noted(q, r)
    BY <1>3
  <2>2. /\ Noted(q, r) \in Seq(Root)
        /\ \A x : (\E i \in DOMAIN Noted(q, r) : Noted(q, r)[i] = x)
                     <=> (\E i \in DOMAIN q : q[i] = x) \/ x = r
        /\ \A i, j \in DOMAIN Noted(q, r) : Noted(q, r)[i] = Noted(q, r)[j] => i = j
    <3> HIDE DEF q
    <3> QED  BY <2>1, <1>4, NoteHeaderEffect, Zenon
  <2> HIDE DEF p, q
  <2> QED  BY <2>1, <2>2
<1>6. headers_by_slot' \in [Slot -> Seq(Root)]
  <2>1. p \in Seq(Root) /\ headers_by_slot' = [headers_by_slot EXCEPT ![h.slot] = p]
    BY <1>3, <1>5
  <2> HIDE DEF p
  <2> QED  BY <2>1, <1>1 DEF Registry
<1>7. ASSUME NEW s \in Slot
      PROVE  /\ SlotRoots(s)' = {x \in Root : headers_by_root'[x] # None
                                              /\ headers_by_root'[x].slot = s}
             /\ \A i, j \in DOMAIN headers_by_slot'[s] :
                   headers_by_slot'[s][i] = headers_by_slot'[s][j] => i = j
  <2>1. SlotRoots(s) = {x \in Root : headers_by_root[x] # None
                                     /\ headers_by_root[x].slot = s}
    BY DEF Registry, SlotIndexExact
  <2>2. headers_by_root[r] = None \/ headers_by_root[r] = h
    BY DEF RegisterHeader
  <2>3. CASE s = h.slot
    <3>1. SlotRoots(s)' = SlotRoots(s) \cup {r}
      BY <1>5, <2>3 DEF SlotRoots
    <3> QED  BY <3>1, <1>1, <1>2, <1>5, <2>1, <2>3
  <2>4. CASE s # h.slot
    <3>1. SlotRoots(s)' = SlotRoots(s)
      BY <1>3, <2>4 DEF SlotRoots
    <3>2. \A i, j \in DOMAIN headers_by_slot[s] :
             headers_by_slot[s][i] = headers_by_slot[s][j] => i = j
      BY DEF Registry, SlotIndexExact
    <3> QED  BY <3>1, <3>2, <1>1, <1>2, <1>3, <2>1, <2>2, <2>4
  <2> QED  BY <2>3, <2>4
<1>8. SlotIndexExact'
  BY <1>7 DEF SlotIndexExact
<1> QED  BY <1>2, <1>6, <1>8 DEF Registry

(* Every handler keeps the registry typed and its index exact. *)
LEMMA RegistryStep ==
    ASSUME Registry, [Next]_vars
    PROVE  Registry'
<1>1. CASE \E r \in Root, h \in Header : Header7732(r, h)
  BY <1>1, RegisterHeaderKeeps DEF Header7732
<1>2. CASE \E r \in Root, e \in Envelope : Envelope7732(r, e)
  BY <1>2 DEF Envelope7732, RegisterEnvelope, Registry, SlotIndexExact, SlotRoots
<1>3. CASE UNCHANGED <<headers_by_root, headers_by_slot, envelopes_by_root>>
  BY <1>3 DEF Registry, SlotIndexExact, SlotRoots
<1>4. ASSUME NEW s \in Slot, GetInclusionList(s)
      PROVE  UNCHANGED <<headers_by_root, headers_by_slot, envelopes_by_root>>
  BY <1>4 DEF GetInclusionList, payloadVars
<1>5. ASSUME NEW s \in Slot, NEW now \in Time, NEW list, ForkchoiceUpdated(s, now, list)
      PROVE  UNCHANGED <<headers_by_root, headers_by_slot, envelopes_by_root>>
  BY <1>5 DEF ForkchoiceUpdated
<1>6. ASSUME NEW s \in Slot, NEW now \in Time, NewPayload(s, now)
      PROVE  UNCHANGED <<headers_by_root, headers_by_slot, envelopes_by_root>>
  BY <1>6 DEF NewPayload
<1> QED  BY <1>1, <1>2, <1>3, <1>4, <1>5, <1>6 DEF Next, vars, payloadVars

(* engine_7732_headers_by_slot is the inverse of headers_by_root in every  *)
(* reachable state, for any number of slots, roots and replays.            *)
THEOREM SlotIndexExactHolds == Spec => []SlotIndexExact
<1>1. Registry => SlotIndexExact
  BY DEF Registry
<1> QED  BY RegistryInit, RegistryStep, <1>1, PTL DEF Spec

(* Registered headers and envelopes are never rewritten by any handler.    *)
THEOREM RecordsImmutableHolds == Spec => RecordsImmutable
<1> DEFINE Same == \A r \in Root :
        /\ headers_by_root[r] # None => headers_by_root'[r] = headers_by_root[r]
        /\ envelopes_by_root[r] # None => envelopes_by_root'[r] = envelopes_by_root[r]
<1>1. ASSUME Registry, [Next]_vars PROVE Same
  <2>1. CASE \E r \in Root, h \in Header : Header7732(r, h)
    BY <1>1, <2>1 DEF Header7732, RegisterHeader, Registry
  <2>2. CASE \E r \in Root, e \in Envelope : Envelope7732(r, e)
    BY <1>1, <2>2 DEF Envelope7732, RegisterEnvelope, Registry
  <2>3. CASE UNCHANGED <<headers_by_root, envelopes_by_root>>
    BY <2>3
  <2> QED  BY <1>1, <2>1, <2>2, <2>3 DEF Next, vars, payloadVars, GetInclusionList,
              ForkchoiceUpdated, NewPayload
<1> QED  BY <1>1, RegistryInit, RegistryStep, PTL DEF Spec, RecordsImmutable

-----------------------------------------------------------------------------
(* The inclusion-list part of the state, typed. *)
ListTypes ==
    /\ required_il \in [txs : Lists \cup {<<>>}, meta : Meta \cup {None},
                        slot : Slot \cup {None}]
    /\ frozen \in View \cup {None}
    /\ handed_out \in [Slot -> SUBSET (Lists \cup {<<>>})]

ListInv == ListTypes /\ FrozenListInForce

(* Every handler keeps the frozen view and the list in force together. *)
LEMMA ListStep ==
    ASSUME ListInv, [Next]_vars
    PROVE  ListInv'
<1> USE NoneIsNoRecord
<1>1. ASSUME NEW s \in Slot, GetInclusionList(s)
      PROVE  ListInv'
  <2>1. CASE required_il.slot = s
    <3>1. [slot |-> s, root |-> required_il.txs] \in View
      BY DEF ListInv, ListTypes, View
    <3>2. /\ frozen' = [slot |-> s, root |-> required_il.txs]
          /\ handed_out' = [handed_out EXCEPT ![s] = @ \cup {required_il.txs}]
          /\ required_il' = required_il
      BY <1>1, <2>1 DEF GetInclusionList
    <3>3. handed_out'[s] = handed_out[s] \cup {required_il.txs}
      BY <3>2 DEF ListInv, ListTypes
    <3>4. handed_out' \in [Slot -> SUBSET (Lists \cup {<<>>})]
      BY <3>2 DEF ListInv, ListTypes
    <3> QED  BY <2>1, <3>1, <3>2, <3>3, <3>4 DEF ListInv, ListTypes, FrozenListInForce
  <2>2. CASE required_il.slot # s
    BY <1>1, <2>2 DEF GetInclusionList, ListInv, ListTypes, FrozenListInForce
  <2> QED  BY <2>1, <2>2
<1>2. ASSUME NEW s \in Slot, NEW now \in Time, NEW list \in Update \cup {None},
             ForkchoiceUpdated(s, now, list)
      PROVE  ListInv'
  <2>1. CASE UNCHANGED <<required_il, frozen>>
    BY <1>2, <2>1 DEF ForkchoiceUpdated, ListInv, ListTypes, FrozenListInForce
  <2>2. CASE ~ BreaksFreeze(s, list) /\ Rotate(s)
             /\ required_il' = IF list = None THEN required_il
                               ELSE [txs |-> list.txs, meta |-> list.meta, slot |-> s]
    <3>1. handed_out' = handed_out
      BY <1>2 DEF ForkchoiceUpdated
    <3>2. list # None => list.txs \in Lists /\ list.meta \in Meta
      BY DEF Update
    <3>3. required_il' \in [txs : Lists \cup {<<>>}, meta : Meta \cup {None},
                            slot : Slot \cup {None}]
      BY <2>2, <3>2 DEF ListInv, ListTypes
    <3>4. frozen' \in View \cup {None} /\ (frozen' # None => frozen' = frozen /\ frozen.slot = s)
      BY <2>2 DEF Rotate, ListInv, ListTypes
    <3>5. ASSUME frozen' # None
          PROVE  /\ required_il'.slot = frozen'.slot
                 /\ required_il'.txs = frozen'.root
                 /\ required_il'.txs \in handed_out'[frozen'.slot]
      BY <2>2, <3>1, <3>4, <3>5 DEF BreaksFreeze, ListInv, FrozenListInForce
    <3> QED  BY <3>1, <3>3, <3>4, <3>5 DEF ListInv, ListTypes, FrozenListInForce
  <2> QED  BY <1>2, <2>1, <2>2 DEF ForkchoiceUpdated
<1>3. CASE UNCHANGED ilVars
  BY <1>3 DEF ilVars, ListInv, ListTypes, FrozenListInForce
<1> QED  BY <1>1, <1>2, <1>3 DEF Next, vars, Header7732, Envelope7732, NewPayload, ilVars

(* While a view is frozen the list in force is the one handed out for the  *)
(* frozen slot, whatever forkchoice updates arrive.                        *)
THEOREM FrozenListInForceHolds == Spec => []FrozenListInForce
<1>1. Init => ListInv
  BY DEF Init, ListInv, ListTypes, FrozenListInForce
<1>2. ListInv => FrozenListInForce
  BY DEF ListInv
<1> QED  BY <1>1, <1>2, ListStep, PTL DEF Spec

-----------------------------------------------------------------------------
(* Late reveals never go away: registered headers stay listed and the      *)
(* reveal times stay as they are.                                          *)
LEMMA LateRevealsStay ==
    ASSUME Registry, [Next]_vars, NEW s \in Slot
    PROVE  LateReveals(s) \subseteq LateReveals(s)'
<1>1. ASSUME NEW r \in Root, NEW h \in Header, RegisterHeader(r, h)
      PROVE  LateReveals(s) \subseteq LateReveals(s)'
  <2>1. Registry'
    BY <1>1, RegisterHeaderKeeps
  <2>2. \A x \in Root : headers_by_root[x] # None => headers_by_root'[x] = headers_by_root[x]
    BY <1>1 DEF RegisterHeader, Registry
  <2>3. SlotRoots(s) \subseteq SlotRoots(s)'
    BY <2>1, <2>2 DEF Registry, SlotIndexExact
  <2> QED  BY <1>1, <2>3 DEF RegisterHeader, LateReveals, Revealed, Deadline
<1>2. ASSUME NEW r \in Root, NEW e \in Envelope, RegisterEnvelope(r, e)
      PROVE  LateReveals(s) \subseteq LateReveals(s)'
  <2>1. SlotRoots(s)' = SlotRoots(s) /\ SlotRoots(s) \subseteq Root
    BY <1>2 DEF RegisterEnvelope, SlotRoots, Registry, SlotIndexExact
  <2>2. \A x \in Root : envelopes_by_root[x] # None => envelopes_by_root'[x] = envelopes_by_root[x]
    BY <1>2 DEF RegisterEnvelope, Registry
  <2> QED  BY <2>1, <2>2 DEF LateReveals, Revealed, Deadline
<1>3. CASE UNCHANGED <<headers_by_slot, envelopes_by_root>>
  BY <1>3 DEF LateReveals, Revealed, SlotRoots, Deadline
<1> QED  BY <1>1, <1>2, <1>3 DEF Next, vars, payloadVars, Header7732, Envelope7732,
            GetInclusionList, ForkchoiceUpdated, NewPayload

PenaltiesTyped == penalties \in [Slot -> Penalty \cup {None}]

EvidenceInv == Registry /\ PenaltiesTyped /\ LatePenaltyHasEvidence

(* What a slot status can be, and what LATE_REVEAL stands on. *)
LEMMA StatusType ==
    ASSUME NEW s, NEW now
    PROVE  /\ Status(s, now) \in Statuses
           /\ Status(s, now) = "LATE_REVEAL" => LateReveals(s) # {}
BY DEF Status, Statuses

(* An updated record is a record, and it is ACTIVE for a late reveal only  *)
(* when the status that updated it is LATE_REVEAL.                         *)
LEMMA UpdatedPenaltyType ==
    ASSUME NEW old \in Penalty \cup {None}, NEW status \in Statuses, NEW now \in Time
    PROVE  /\ UpdatedPenalty(old, status, now) \in Penalty \cup {None}
           /\ UpdatedPenalty(old, status, now) # None =>
                 UpdatedPenalty(old, status, now).last_status = status
<1> USE NoneIsNoRecord
<1>1. CASE old = None
  BY <1>1 DEF UpdatedPenalty, Penalty
<1>2. CASE old \in Penalty
  BY Zenon, <1>2 DEF UpdatedPenalty, Penalty
<1> QED  BY <1>1, <1>2

(* A handler that updates a penalty keeps late penalties with evidence. *)
LEMMA PenaltyStep ==
    ASSUME EvidenceInv, [Next]_vars, NEW s \in Slot, NEW now \in Time, UpdatePenalty(s, now),
           UNCHANGED <<headers_by_root, headers_by_slot, envelopes_by_root>>
    PROVE  PenaltiesTyped' /\ LatePenaltyHasEvidence'
<1> DEFINE new == UpdatedPenalty(penalties[s], Status(s, now), now)
<1>1. /\ penalties[s] \in Penalty \cup {None}
      /\ penalties' = [penalties EXCEPT ![s] = new]
  BY DEF EvidenceInv, PenaltiesTyped, UpdatePenalty
<1>2. /\ new \in Penalty \cup {None}
      /\ new # None => new.last_status = Status(s, now)
  BY <1>1, StatusType, UpdatedPenaltyType
<1>3. Status(s, now) = "LATE_REVEAL" => LateReveals(s) # {}
  BY StatusType
<1> HIDE DEF new
<1>4. /\ PenaltiesTyped'
      /\ penalties'[s] = new
      /\ \A x \in Slot : x # s => penalties'[x] = penalties[x]
  BY <1>1, <1>2 DEF EvidenceInv, PenaltiesTyped
<1>5. \A x \in Slot : LateReveals(x) \subseteq LateReveals(x)'
  BY LateRevealsStay DEF EvidenceInv
<1>6. LatePenaltyHasEvidence'
  BY <1>2, <1>3, <1>4, <1>5 DEF LatePenaltyHasEvidence, EvidenceInv
<1> QED  BY <1>4, <1>6

(* Every active late-reveal penalty has a late envelope behind it, for any *)
(* clocks the requests carry.                                              *)
THEOREM LatePenaltyHasEvidenceHolds == Spec => []LatePenaltyHasEvidence
<1>1. Init => EvidenceInv
  BY RegistryInit, NoneIsNoRecord
     DEF Init, PayloadInit, EvidenceInv, PenaltiesTyped, LatePenaltyHasEvidence
<1>2. ASSUME EvidenceInv, [Next]_vars PROVE EvidenceInv'
  <2>1. Registry'
    BY <1>2, RegistryStep DEF EvidenceInv
  <2>2. CASE UNCHANGED penalties
    <3>1. \A x \in Slot : LateReveals(x) \subseteq LateReveals(x)'
      BY <1>2, LateRevealsStay DEF EvidenceInv
    <3> QED  BY <1>2, <2>1, <2>2, <3>1 DEF EvidenceInv, PenaltiesTyped, LatePenaltyHasEvidence
  <2>3. ASSUME NEW s \in Slot, NEW now \in Time,
               (\E list \in Update \cup {None} : ForkchoiceUpdated(s, now, list))
                  \/ NewPayload(s, now)
        PROVE  EvidenceInv'
    BY <1>2, <2>1, <2>3, PenaltyStep DEF ForkchoiceUpdated, NewPayload, EvidenceInv
  <2> QED  BY <1>2, <2>2, <2>3 DEF Next, vars, payloadVars, Header7732, Envelope7732,
              RegisterHeader, RegisterEnvelope, GetInclusionList
<1>3. EvidenceInv => LatePenaltyHasEvidence
  BY DEF EvidenceInv
<1> QED  BY <1>1, <1>2, <1>3, PTL DEF Spec

-----------------------------------------------------------------------------
(* A penalty is ACTIVE exactly while it has no recovery time. *)
ActiveUntilRecovered(p) == p # None => (p.state = "ACTIVE" <=> p.recovered_at = None)

(* What engine_7732_update_penalty_state does to one record: it never      *)
(* deletes it, starts it ACTIVE, and moves the activation time only when a *)
(* recovered penalty is activated again.                                   *)
Lives(old, new) ==
    /\ ActiveUntilRecovered(new)
    /\ old = None /\ new # None => new.state = "ACTIVE"
    /\ old # None => /\ new # None
                     /\ new.activated_at # old.activated_at =>
                           old.state = "RECOVERED" /\ new.state = "ACTIVE"

(* An update is a step in the life of a record.  A recovery time is a time *)
(* and thus not None.  After a status that is no violation no penalty is   *)
(* active.                                                                 *)
LEMMA UpdatedPenaltyLives ==
    ASSUME NEW old \in Penalty \cup {None}, ActiveUntilRecovered(old),
           NEW status \in Statuses, NEW now \in Time
    PROVE  /\ Lives(old, UpdatedPenalty(old, status, now))
           /\ ~ IsViolation(status) =>
                 \/ UpdatedPenalty(old, status, now) = None
                 \/ UpdatedPenalty(old, status, now).state = "RECOVERED"
<1> DEFINE new == UpdatedPenalty(old, status, now)
<1>1. new \in Penalty \cup {None}
  BY UpdatedPenaltyType
<1>2. now # None
  BY EngineAssumption
<1>3. CASE IsViolation(status) /\ old # None /\ old.state = "ACTIVE"
  <2>1. new = [old EXCEPT !.last_status = status] BY <1>3 DEF UpdatedPenalty
  <2>2. old \in Penalty BY <1>3
  <2>3. new \in Penalty /\ new.state = old.state /\ new.recovered_at = old.recovered_at
        /\ new.activated_at = old.activated_at
    BY <2>1, <2>2 DEF Penalty
  <2> HIDE DEF new
  <2>4. QED BY <1>3, <2>3, NoneIsNoRecord DEF Lives, ActiveUntilRecovered, new
<1>4. CASE IsViolation(status) /\ ~ (old # None /\ old.state = "ACTIVE")
  <2>1. new = [state |-> "ACTIVE", last_status |-> status, activated_at |-> now, recovered_at |-> None]
    BY <1>4 DEF UpdatedPenalty
  <2>2. new \in Penalty /\ new.state = "ACTIVE" /\ new.recovered_at = None
    BY <2>1 DEF Penalty
  <2>3. old # None => old.state = "RECOVERED"
    BY <1>4 DEF Penalty
  <2> HIDE DEF new
  <2>4. QED BY <1>4, <2>2, <2>3, NoneIsNoRecord DEF Lives, ActiveUntilRecovered, new
<1>5. CASE ~ IsViolation(status) /\ old = None
  <2>1. new = None BY <1>5 DEF UpdatedPenalty
  <2>2. QED BY <1>5, <2>1 DEF Lives, ActiveUntilRecovered
<1>6. CASE ~ IsViolation(status) /\ old # None
  <2> DEFINE recovered == IF old.state = "RECOVERED" THEN old.recovered_at ELSE now
  <2>1. new = [old EXCEPT !.last_status = status, !.state = "RECOVERED", !.recovered_at = recovered]
    BY <1>6 DEF UpdatedPenalty
  <2>2. old \in Penalty BY <1>6
  <2>3. recovered # None /\ recovered \in Time \cup {None}
    BY <1>2, <1>6, <2>2 DEF ActiveUntilRecovered, Penalty
  <2> HIDE DEF recovered
  <2>4. new \in Penalty /\ new.state = "RECOVERED" /\ new.recovered_at = recovered
        /\ new.activated_at = old.activated_at
    BY Zenon, <2>1, <2>2, <2>3 DEF Penalty, Statuses
  <2> HIDE DEF new
  <2>5. QED BY <1>6, <2>3, <2>4, NoneIsNoRecord DEF Lives, ActiveUntilRecovered, new
<1>7. QED BY <1>3, <1>4, <1>5, <1>6

PenaltyInv == PenaltiesTyped /\ \A s \in Slot : ActiveUntilRecovered(penalties[s])

(* A handler that updates a penalty takes every record a step on. *)
LEMMA PenaltyLives ==
    ASSUME PenaltyInv, NEW s \in Slot, NEW now \in Time, UpdatePenalty(s, now)
    PROVE  /\ PenaltyInv' /\ \A x \in Slot : Lives(penalties[x], penalties'[x])
           /\ Timely(s, now) => penalties'[s] = None \/ penalties'[s].state = "RECOVERED"
<1> DEFINE new == UpdatedPenalty(penalties[s], Status(s, now), now)
<1>1. /\ penalties[s] \in Penalty \cup {None} /\ ActiveUntilRecovered(penalties[s])
      /\ penalties' = [penalties EXCEPT ![s] = new]
  BY DEF PenaltyInv, PenaltiesTyped, UpdatePenalty
<1>2. /\ new \in Penalty \cup {None} /\ Lives(penalties[s], new)
      /\ ~ IsViolation(Status(s, now)) => new = None \/ new.state = "RECOVERED"
  BY <1>1, StatusType, UpdatedPenaltyType, UpdatedPenaltyLives
<1> HIDE DEF new
<1>3. /\ PenaltiesTyped' /\ penalties'[s] = new
      /\ \A x \in Slot : x # s => penalties'[x] = penalties[x]
  BY <1>1, <1>2 DEF PenaltyInv, PenaltiesTyped
<1>4. \A x \in Slot : Lives(penalties[x], penalties[x])
  BY DEF PenaltyInv, Lives
<1>5. \A x \in Slot : Lives(penalties[x], penalties'[x])
  BY <1>2, <1>3, <1>4
<1>6. \A x \in Slot : ActiveUntilRecovered(penalties'[x])
  BY <1>5 DEF Lives
<1>7. QED BY <1>2, <1>3, <1>5, <1>6 DEF PenaltyInv, Timely

(* Every step takes every penalty record a step on. *)
LEMMA PenaltiesLive ==
    ASSUME PenaltyInv, [Next]_vars
    PROVE  PenaltyInv' /\ \A x \in Slot : Lives(penalties[x], penalties'[x])
<1>1. CASE UNCHANGED penalties
  BY <1>1 DEF PenaltyInv, PenaltiesTyped, Lives
<1>2. ASSUME NEW s \in Slot, NEW now \in Time, UpdatePenalty(s, now)
      PROVE  PenaltyInv' /\ \A x \in Slot : Lives(penalties[x], penalties'[x])
  BY <1>2, PenaltyLives
<1>3. QED BY <1>1, <1>2 DEF Next, vars, payloadVars, Header7732, Envelope7732, RegisterHeader,
           RegisterEnvelope, GetInclusionList, ForkchoiceUpdated, NewPayload

(* No penalty exists before a payload was late. *)
LEMMA PenaltyInitially == Init => PenaltyInv
BY DEF Init, PayloadInit, PenaltyInv, PenaltiesTyped, ActiveUntilRecovered

(* Penalties are never deleted, ACTIVE exactly until they are recovered,   *)
(* and dated by their last activation, for any clocks the requests carry.  *)
THEOREM PenaltyLifecycleHolds == Spec => PenaltyLifecycle
<1>1. ASSUME PenaltyInv, [Next]_vars
      PROVE  \A s \in Slot :
                LET old == penalties[s]   new == penalties'[s] IN
                /\ new # None => (new.state = "ACTIVE" <=> new.recovered_at = None)
                /\ old = None /\ new # None => new.state = "ACTIVE"
                /\ old # None => /\ new # None
                                 /\ new.activated_at # old.activated_at =>
                                       old.state = "RECOVERED" /\ new.state = "ACTIVE"
  BY <1>1, PenaltiesLive DEF Lives, ActiveUntilRecovered
<1>2. QED BY <1>1, PenaltyInitially, PenaltiesLive, PTL DEF Spec, PenaltyLifecycle

(* forkchoiceUpdated adopts a list only for a slot whose penalty, which it *)
(* has just brought up to date, is not active.                             *)
THEOREM ListAdoptedOnlyWhenTimelyHolds == Spec => ListAdoptedOnlyWhenTimely
<1>1. ASSUME PenaltyInv, ListInv, [Next]_vars, required_il' # required_il
      PROVE  LET p == penalties'[required_il'.slot] IN p = None \/ p.state = "RECOVERED"
  <2>1. PICK s \in Slot, now \in Time, list \in Update \cup {None} : ForkchoiceUpdated(s, now, list)
    BY <1>1 DEF Next, vars, ilVars, Header7732, Envelope7732, GetInclusionList, NewPayload
  <2>2. Timely(s, now) /\ required_il'.slot = s
    BY <1>1, <2>1 DEF ForkchoiceUpdated
  <2>3. QED BY <1>1, <2>1, <2>2, PenaltyLives DEF ForkchoiceUpdated
<1>2. Init => ListInv
  BY DEF Init, ListInv, ListTypes, FrozenListInForce
<1>3. QED BY <1>1, <1>2, PenaltyInitially, PenaltiesLive, ListStep, PTL
          DEF Spec, ListAdoptedOnlyWhenTimely

(* The engine part of NodeState keeps its types. *)
THEOREM EngineTypeCorrect == Spec => []TypeOK
<1>1. Init => Registry /\ PenaltyInv /\ ListInv
  BY RegistryInit, PenaltyInitially DEF Init, ListInv, ListTypes, FrozenListInForce
<1>2. Registry /\ PenaltyInv /\ ListInv => TypeOK
  BY DEF Registry, PenaltyInv, PenaltiesTyped, ListInv, ListTypes, TypeOK
<1>3. QED BY <1>1, <1>2, RegistryStep, PenaltiesLive, ListStep, PTL DEF Spec

-----------------------------------------------------------------------------
(* The queries *)

(* The slots are the numbers from the least to the greatest. *)
LEMMA SlotBounds ==
    /\ Min(Slot) \in Nat /\ Max(Slot) \in Nat /\ Min(Slot) <= Max(Slot)
    /\ Slot = Min(Slot) .. Max(Slot)
<1>1. PICK lo \in Slot, hi \in Slot : Slot = lo .. hi BY WindowAssumption
<1>2. lo \in Nat /\ hi \in Nat /\ lo <= hi BY <1>1, EngineAssumption
<1>3. Min(Slot) = lo
  <2>1. Min(Slot) \in Slot /\ \A y \in Slot : Min(Slot) <= y
    <3>1. \E x \in Slot : \A y \in Slot : x <= y BY <1>1, <1>2
    <3> QED BY <3>1 DEF Min
  <2> QED BY <1>1, <1>2, <2>1
<1>4. Max(Slot) = hi
  <2>1. Max(Slot) \in Slot /\ \A y \in Slot : Max(Slot) >= y
    <3>1. \E x \in Slot : \A y \in Slot : x >= y BY <1>1, <1>2
    <3> QED BY <3>1 DEF Max
  <2> QED BY <1>1, <1>2, <2>1
<1> QED BY <1>1, <1>2, <1>3, <1>4

-----------------------------------------------------------------------------
(* How many slots a page shows, and which. *)
PageSize(start, end) ==
    IF end - start + 1 < MAX_SLOT_WINDOW THEN end - start + 1 ELSE MAX_SLOT_WINDOW

PageSlots(n, start, snapshot) == [i \in 1 .. n |-> snapshot[start + i - 1]]

(* A page is what the window leaves of the range. *)
LEMMA PageOfRange ==
    ASSUME NEW start \in Nat, NEW end \in Nat, start <= end, NEW snapshot
    PROVE  LET page == ByRange(start, end, snapshot)
               n    == PageSize(start, end)
           IN  /\ n \in Nat /\ n >= 1 /\ n <= end - start + 1
               /\ page.status = "OK"
               /\ page.effective_end = start + n - 1
               /\ page.clamped = (n < end - start + 1)
               /\ page.slots = PageSlots(n, start, snapshot)
<1> DEFINE n == PageSize(start, end)
           last == start + n - 1
<1>1. n \in Nat /\ n >= 1 /\ n <= end - start + 1 BY WindowAssumption DEF PageSize
<1>2. ByRange(start, end, snapshot)
        = [status |-> "OK", effective_end |-> last, clamped |-> n < end - start + 1,
           slots |-> [i \in 1 .. last - start + 1 |-> snapshot[start + i - 1]]]
  BY DEF ByRange, effective_end_slot, PageSize
<1>3. last - start + 1 = n BY <1>1
<1> HIDE DEF n
<1> QED BY <1>1, <1>2, <1>3 DEF n, PageSlots

-----------------------------------------------------------------------------
(* What a walk from s should show: every slot from s to the end. *)
Shown(s, end) == [i \in 1 .. end - s + 1 |-> EnvelopesAt(s + i - 1, TRUE)]

WalkPage(s, end, from) ==
    LET page == EnvelopesByRange(s, end, TRUE)
    IN  page.slots \o (IF page.clamped THEN from[page.effective_end + 1] ELSE <<>>)

IsWalk(start, end, from) == from = [s \in start .. end |-> WalkPage(s, end, from)]

(* A function on the first numbers is a sequence. *)
LEMMA FunctionIsSeq ==
    ASSUME NEW V, NEW n \in Nat, NEW g \in [1 .. n -> V]
    PROVE  g \in Seq(V) /\ Len(g) = n
OBVIOUS

(* Two sequences joined, position by position. *)
Joins(V, n, m, g, h, f) ==
    /\ n \in Nat /\ m \in Nat
    /\ g \in [1 .. n -> V] /\ h \in [1 .. m -> V] /\ f \in [1 .. n + m -> V]
    /\ \A i \in 1 .. n : f[i] = g[i]
    /\ \A i \in 1 .. m : f[n + i] = h[i]

(* Joining means concatenation. *)
LEMMA JoinedSeqs ==
    ASSUME NEW V, NEW n, NEW m, NEW g, NEW h, NEW f, Joins(V, n, m, g, h, f)
    PROVE  g \o h = f
<1> USE DEF Joins
<1>1. g \in Seq(V) /\ Len(g) = n /\ h \in Seq(V) /\ Len(h) = m BY FunctionIsSeq
<1>2. /\ g \o h \in Seq(V) /\ Len(g \o h) = n + m
      /\ \A i \in 1 .. n + m : (g \o h)[i] = IF i <= n THEN g[i] ELSE h[i - n]
  BY Zenon, <1>1, ConcatProperties
<1> DEFINE both == g \o h
<1> HIDE DEF both
<1>3. both \in [1 .. n + m -> V]
  <2>1. both \in Seq(V) /\ Len(both) = n + m BY <1>2 DEF both
  <2> QED BY <2>1
<1>4. ASSUME NEW i \in 1 .. n + m PROVE both[i] = f[i]
  <2>1. CASE i <= n BY <1>2, <2>1 DEF both
  <2>2. CASE ~ (i <= n)
    <3>1. i - n \in 1 .. m /\ n + (i - n) = i BY <2>2
    <3> QED BY <1>2, <2>2, <3>1 DEF both
  <2> QED BY <2>1, <2>2
<1>5. both = f BY <1>3, <1>4
<1> QED BY <1>5 DEF both

(* A page followed by the walk from the slot after it shows every slot. *)
LEMMA PageThenRest ==
    ASSUME NEW s \in Slot, NEW end \in Slot, s <= end, NEW from,
           \A t \in Nat : s < t /\ t <= end => from[t] = Shown(t, end)
    PROVE  WalkPage(s, end, from) = Shown(s, end)
<1> DEFINE n == PageSize(s, end)
           snapshot == [t \in Slot |-> EnvelopesAt(t, TRUE)]
           page == ByRange(s, end, snapshot)
           V == {EnvelopesAt(t, TRUE) : t \in Slot}
           head == [i \in 1 .. n |-> EnvelopesAt(s + i - 1, TRUE)]
<1>1. s \in Nat /\ end \in Nat BY EngineAssumption
<1>2. /\ n \in Nat /\ n >= 1 /\ n <= end - s + 1
      /\ page.effective_end = s + n - 1
      /\ page.clamped = (n < end - s + 1)
      /\ page.slots = PageSlots(n, s, snapshot)
  <2> HIDE DEF snapshot
  <2> QED BY <1>1, PageOfRange
<1>3. \A t \in Nat : s <= t /\ t <= end => t \in Slot BY <1>1, SlotBounds
<1>4. WalkPage(s, end, from)
        = page.slots \o (IF page.clamped THEN from[page.effective_end + 1] ELSE <<>>)
  BY DEF WalkPage, EnvelopesByRange
<1> HIDE DEF n, page
<1>5. \A i \in 1 .. n : s + i - 1 \in Slot BY <1>1, <1>2, <1>3
<1>6. page.slots = head BY Zenon, <1>2, <1>5 DEF PageSlots
<1>7. head \in [1 .. n -> V] BY Zenon, <1>5
<1>8. CASE n < end - s + 1
  <2> DEFINE m == end - (s + n) + 1
             tail == Shown(s + n, end)
             f == Shown(s, end)
  <2>1. m \in Nat /\ end - s + 1 = n + m BY <1>1, <1>2, <1>8
  <2>2. tail = [i \in 1 .. m |-> EnvelopesAt(s + n + i - 1, TRUE)] BY DEF Shown
  <2>3. f = [i \in 1 .. n + m |-> EnvelopesAt(s + i - 1, TRUE)] BY <2>1 DEF Shown
  <2> HIDE DEF m, tail, f
  <2>4. \A i \in 1 .. n + m : s + i - 1 \in Slot BY <1>1, <1>2, <1>3, <2>1
  <2>5. \A i \in 1 .. m : s + n + i - 1 \in Slot
    <3>1. ASSUME NEW i \in 1 .. m PROVE s + n + i - 1 \in Slot
      <4>1. n + i \in 1 .. n + m /\ s + (n + i) - 1 = s + n + i - 1 BY <1>1, <1>2, <2>1
      <4> QED BY <2>4, <4>1
    <3> QED BY <3>1
  <2>6. f \in [1 .. n + m -> V] BY Zenon, <2>3, <2>4
  <2>7. tail \in [1 .. m -> V] BY Zenon, <2>2, <2>5
  <2>8. \A i \in 1 .. n : f[i] = head[i]
    <3>1. \A i \in 1 .. n : i \in 1 .. n + m BY <1>2, <2>1
    <3> QED BY Zenon, <2>3, <3>1
  <2>9. \A i \in 1 .. m : f[n + i] = tail[i]
    <3>1. ASSUME NEW i \in 1 .. m PROVE f[n + i] = tail[i]
      <4>1. n + i \in 1 .. n + m /\ s + (n + i) - 1 = s + n + i - 1 BY <1>1, <1>2, <2>1
      <4>2. f[n + i] = EnvelopesAt(s + (n + i) - 1, TRUE) BY <2>3, <4>1
      <4> QED BY Zenon, <2>2, <4>1, <4>2
    <3> QED BY <3>1
  <2> HIDE DEF V, head
  <2>10. head \o tail = f
    <3>1. n \in Nat /\ m \in Nat BY <1>2, <2>1
    <3>2. Joins(V, n, m, head, tail, f) BY <1>7, <2>6, <2>7, <2>8, <2>9, <3>1 DEF Joins
    <3> QED BY <3>2, JoinedSeqs
  <2>11. page.effective_end + 1 = s + n BY <1>1, <1>2
  <2>12. s + n \in Nat /\ s < s + n /\ s + n <= end BY <1>1, <1>2, <1>8
  <2>13. from[s + n] = tail BY <2>12 DEF tail
  <2> QED BY Zenon, <1>2, <1>4, <1>6, <1>8, <2>10, <2>11, <2>13 DEF f
<1>9. CASE ~ (n < end - s + 1)
  <2>1. n = end - s + 1 BY <1>1, <1>2, <1>9
  <2>2. WalkPage(s, end, from) = head \o <<>> BY Zenon, <1>2, <1>4, <1>6, <1>9
  <2>3. head \o <<>> = head
    <3> HIDE DEF head, V
    <3>1. head \in Seq(V) BY <1>2, <1>7, FunctionIsSeq
    <3> QED BY <3>1, ConcatEmptySeq
  <2> QED BY <2>1, <2>2, <2>3 DEF Shown
<1> QED BY <1>8, <1>9

(* The walk over all slots shows every slot once, in order. *)
LEMMA WalkShowsAll ==
    ASSUME NEW start \in Slot, NEW end \in Slot, start <= end
    PROVE  Walk(start, end) = Shown(start, end)
<1> DEFINE all == [s \in start .. end |-> Shown(s, end)]
           from == CHOOSE f : IsWalk(start, end, f)
<1>1. start \in Nat /\ end \in Nat BY EngineAssumption
<1>2. \A s \in start .. end : s \in Slot /\ s \in Nat /\ s <= end BY <1>1, SlotBounds
<1>3. IsWalk(start, end, all)
  <2>1. ASSUME NEW s \in start .. end PROVE WalkPage(s, end, all) = Shown(s, end)
    <3>1. \A t \in Nat : s < t /\ t <= end => all[t] = Shown(t, end) BY <1>1, <1>2
    <3> HIDE DEF all
    <3> QED BY <1>2, <3>1, PageThenRest
  <2>2. all = [s \in start .. end |-> WalkPage(s, end, all)]
    <3> DEFINE pages == [s \in start .. end |-> WalkPage(s, end, all)]
    <3>1. \A s \in start .. end : pages[s] = all[s] BY <2>1
    <3> QED BY <3>1
  <2> HIDE DEF all
  <2> QED BY Zenon, <2>2 DEF IsWalk
<1>4. Walk(start, end) = from[start] BY DEF Walk, IsWalk, WalkPage
<1>5. IsWalk(start, end, from)
  <2> HIDE DEF all
  <2> QED BY <1>3
<1> HIDE DEF from, all
<1>6. \A s \in start .. end : from[s] = WalkPage(s, end, from) BY Zenon, <1>5 DEF IsWalk
<1> DEFINE P == {k \in Nat : \A s \in start .. end : end - s <= k => from[s] = Shown(s, end)}
<1>7. ASSUME NEW s \in start .. end, \A t \in start .. end : s < t => from[t] = Shown(t, end)
      PROVE  from[s] = Shown(s, end)
  <2>1. \A t \in Nat : s < t /\ t <= end => from[t] = Shown(t, end) BY <1>1, <1>2, <1>7
  <2> QED BY <1>2, <1>6, <2>1, PageThenRest
<1>8. 0 \in P
  <2>1. ASSUME NEW s \in start .. end, end - s <= 0 PROVE from[s] = Shown(s, end)
    <3>1. \A t \in start .. end : ~ (s < t) BY <1>1, <2>1
    <3> QED BY <1>7, <3>1
  <2> QED BY <2>1
<1>9. ASSUME NEW k \in Nat, k \in P PROVE k + 1 \in P
  <2>1. ASSUME NEW s \in start .. end, end - s <= k + 1 PROVE from[s] = Shown(s, end)
    <3>1. \A t \in start .. end : s < t => end - t <= k BY <1>1, <2>1
    <3>2. \A t \in start .. end : s < t => from[t] = Shown(t, end) BY <1>9, <3>1
    <3> QED BY <1>7, <3>2
  <2> QED BY <2>1
<1>10. end - start \in P
  <2> HIDE DEF P
  <2>1. Nat \subseteq P BY <1>8, <1>9, NaturalInduction
  <2> QED BY <1>1, <2>1
<1> QED BY <1>1, <1>4, <1>10
-----------------------------------------------------------------------------
(* The slot under which a root is found: that of its header or, without    *)
(* one, that of its envelope.                                              *)
Home(r) == IF headers_by_root[r] # None THEN headers_by_root[r].slot ELSE envelopes_by_root[r].slot

Known(r) == headers_by_root[r] # None \/ envelopes_by_root[r] # None

ByRoot(r) == [slot |-> None, root |-> None, first |-> r]

(* A query by root alone leads to that slot. *)
LEMMA QueryByRoot ==
    ASSUME Registry, NEW r \in Root
    PROVE  /\ root_from_req(ByRoot(r)) = r
           /\ Known(r) => Home(r) \in Slot /\ SlotOf(ByRoot(r)) = Home(r)
<1>1. r # None /\ r \notin Slot /\ None \notin Slot BY WindowAssumption, EngineAssumption
<1>2. root_from_req(ByRoot(r)) = r BY <1>1 DEF root_from_req, OrElse, ByRoot
<1>3. slot_from_req(ByRoot(r)) = None BY <1>1 DEF slot_from_req, OrElse, ByRoot
<1>4. /\ headers_by_root[r] # None => headers_by_root[r].slot \in Slot
      /\ envelopes_by_root[r] # None => envelopes_by_root[r].slot \in Slot
  BY DEF Registry, Header, Envelope
<1>5. ASSUME Known(r) PROVE Home(r) \in Slot /\ SlotOf(ByRoot(r)) = Home(r)
  BY <1>1, <1>2, <1>3, <1>4, <1>5 DEF Known, Home, SlotOf, OrElse, SlotIn
<1> QED BY <1>2, <1>5

(* The roots of a slot's list that have a record. *)
LEMMA FoundRoots ==
    ASSUME NEW records, NEW s
    PROVE  Range(Found(records, s)) = {r \in SlotRoots(s) : records[r] # None}
<1>1. /\ DOMAIN Found(records, s) = {i \in DOMAIN headers_by_slot[s] : records[headers_by_slot[s][i]] # None}
      /\ \A i \in DOMAIN Found(records, s) : Found(records, s)[i] = headers_by_slot[s][i]
  BY DEF Found, RestrictValues, Restrict
<1> QED BY <1>1 DEF Range, SlotRoots

(* Exactly the answer for its home slot reports an envelope. *)
LEMMA ReportedAtHome ==
    ASSUME Registry, NEW r \in Root, NEW s \in Slot
    PROVE  r \in Reported(EnvelopesAt(s, TRUE)) <=> envelopes_by_root[r] # None /\ Home(r) = s
<1>1. Reported(EnvelopesAt(s, TRUE)) = Range(Found(envelopes_by_root, s)) \cup Orphans(s)
  BY DEF Reported, EnvelopesAt, OrphanEnvelopes
<1>2. Range(Found(envelopes_by_root, s)) = {x \in SlotRoots(s) : envelopes_by_root[x] # None}
  BY FoundRoots
<1>3. r \in SlotRoots(s) <=> headers_by_root[r] # None /\ headers_by_root[r].slot = s
  BY DEF Registry, SlotIndexExact
<1> QED BY Zenon, <1>1, <1>2, <1>3 DEF Orphans, Home

-----------------------------------------------------------------------------
(* A finite set split in two is counted by parts. *)
LEMMA SplitCount ==
    ASSUME NEW S, IsFiniteSet(S), NEW A, NEW B, A \cup B = S, A \cap B = {}
    PROVE  Cardinality(A) + Cardinality(B) = Cardinality(S)
<1>1. IsFiniteSet(A) /\ IsFiniteSet(B) BY FS_Subset
<1>2. Cardinality(A) \in Nat /\ Cardinality(B) \in Nat BY <1>1, FS_CardinalityType
<1>3. Cardinality(S) = Cardinality(A) + Cardinality(B) - Cardinality(A \cap B) BY <1>1, FS_Union
<1>4. Cardinality(A \cap B) = 0 BY FS_EmptySet
<1> QED BY <1>2, <1>3, <1>4

(* The counts that the four calls give of one slot agree. *)
LEMMA SlotCountsAgree ==
    ASSUME Registry, NEW s \in Slot
    PROVE  /\ Count(Found(envelopes_by_root, s)) + Count(Absent(envelopes_by_root, s)) = Len(headers_by_slot[s])
           /\ Count(Found(headers_by_root, s)) = Len(headers_by_slot[s])
           /\ Cardinality(OnTime(s) \cup LateReveals(s)) = Count(Found(envelopes_by_root, s))
<1> DEFINE q == headers_by_slot[s]
           found == {i \in DOMAIN q : envelopes_by_root[q[i]] # None}
           absent == {i \in DOMAIN q : envelopes_by_root[q[i]] = None}
<1>1. q \in Seq(Root) /\ Len(q) \in Nat /\ DOMAIN q = 1 .. Len(q) BY DEF Registry
<1>2. IsFiniteSet(DOMAIN q) /\ Cardinality(DOMAIN q) = Len(q) BY <1>1, FS_Interval
<1>3. DOMAIN Found(envelopes_by_root, s) = found /\ DOMAIN Absent(envelopes_by_root, s) = absent
  BY DEF Found, Absent, RestrictValues, Restrict
<1>4. Cardinality(found) + Cardinality(absent) = Cardinality(DOMAIN q)
  <2>1. found \cup absent = DOMAIN q /\ found \cap absent = {} OBVIOUS
  <2> HIDE DEF found, absent
  <2> QED BY <1>2, <2>1, SplitCount
<1>5. DOMAIN Found(headers_by_root, s) = DOMAIN q
  <2>1. \A i \in DOMAIN q : headers_by_root[q[i]] # None
    <3>1. \A i \in DOMAIN q : q[i] \in SlotRoots(s) BY DEF SlotRoots
    <3> QED BY <3>1 DEF Registry, SlotIndexExact
  <2>2. DOMAIN Found(headers_by_root, s) = {i \in DOMAIN q : headers_by_root[q[i]] # None}
    BY DEF Found, RestrictValues, Restrict
  <2> QED BY <2>1, <2>2
<1>6. OnTime(s) \cup LateReveals(s) = Revealed(s) BY DEF OnTime, LateReveals
<1>7. Cardinality(Revealed(s)) = Cardinality(found)
  <2> DEFINE at == [i \in found |-> q[i]]
  <2>1. Revealed(s) = {q[i] : i \in found} BY DEF Revealed, SlotRoots
  <2>2. \A i, j \in found : q[i] = q[j] => i = j BY DEF Registry, SlotIndexExact
  <2>3. IsFiniteSet(found) BY <1>2, FS_Subset
  <2>4. at \in Bijection(found, Revealed(s))
    BY <2>1, <2>2 DEF Bijection, Injection, Surjection, IsInjective
  <2>5. ExistsBijection(found, Revealed(s)) BY <2>4 DEF ExistsBijection
  <2> HIDE DEF found
  <2> QED BY <2>3, <2>5, FS_Bijection
<1> QED BY Zenon, <1>2, <1>3, <1>4, <1>5, <1>6, <1>7 DEF Count

(* The four calls for the slots from s on agree. *)
LEMMA RangesAgree ==
    ASSUME Registry, PenaltiesTyped, NEW s \in Slot, NEW now
    PROVE  PagesAgree(EnvelopesByRange(s, Max(Slot), FALSE), HeadersByRange(s, Max(Slot)),
                      TimelinessByRange(s, Max(Slot), now), PenaltiesByRange(s, Max(Slot), now))
<1> DEFINE end == Max(Slot)
           n == PageSize(s, end)
           envelopes == [t \in Slot |-> EnvelopesAt(t, FALSE)]
           heads == [t \in Slot |-> HeadersAt(t)]
           times == [t \in Slot |-> Timeliness(t, now)]
           fines == [t \in Slot |-> PenaltySnapshot(t, now)]
           page == ByRange(s, end, envelopes)
           headers == ByRange(s, end, heads)
           timely == ByRange(s, end, times)
           fined == ByRange(s, end, fines)
           in(state) == {i \in DOMAIN fined.slots : fined.slots[i].penalty_state = state}
           penalized == PenaltiesByRange(s, end, now)
<1>1. s \in Nat /\ end \in Nat /\ s <= end BY SlotBounds
<1>2. n \in Nat /\ n <= end - s + 1 BY <1>1, PageOfRange
<1>3. \A i \in 1 .. n : s + i - 1 \in Slot
  <2>1. \A t \in Nat : s <= t /\ t <= end => t \in Slot BY <1>1, SlotBounds
  <2> HIDE DEF n, end
  <2> QED BY <1>1, <1>2, <2>1
<1>4. page.effective_end = s + n - 1 /\ page.slots = PageSlots(n, s, envelopes)
  <2> HIDE DEF envelopes, end
  <2> QED BY <1>1, PageOfRange
<1>5. headers.effective_end = s + n - 1 /\ headers.slots = PageSlots(n, s, heads)
  <2> HIDE DEF heads, end
  <2> QED BY <1>1, PageOfRange
<1>6. timely.effective_end = s + n - 1 /\ timely.slots = PageSlots(n, s, times)
  <2> HIDE DEF times, end
  <2> QED BY <1>1, PageOfRange
<1>7. /\ fined.effective_end = s + n - 1 /\ fined.slots = PageSlots(n, s, fines)
      /\ fined.status = "OK"
  <2> HIDE DEF fines, end
  <2> QED BY <1>1, PageOfRange
<1>8. penalized = [answer |-> fined, active |-> Cardinality(in("ACTIVE")),
                   recovered |-> Cardinality(in("RECOVERED"))]
  BY <1>7 DEF PenaltiesByRange
<1>9. /\ EnvelopesByRange(s, end, FALSE) = page /\ HeadersByRange(s, end) = headers
      /\ TimelinessByRange(s, end, now) = timely
  BY DEF EnvelopesByRange, HeadersByRange, TimelinessByRange
<1> HIDE DEF n, end, page, headers, timely, fined, penalized
<1>10. ASSUME NEW i \in 1 .. n
       PROVE  /\ page.slots[i] = EnvelopesAt(s + i - 1, FALSE)
              /\ headers.slots[i] = HeadersAt(s + i - 1)
              /\ timely.slots[i] = Timeliness(s + i - 1, now)
              /\ fined.slots[i] = PenaltySnapshot(s + i - 1, now)
  BY Zenon, <1>3, <1>4, <1>5, <1>6, <1>7 DEF PageSlots
<1>11. /\ DOMAIN page.slots = 1 .. n /\ DOMAIN timely.slots = 1 .. n /\ DOMAIN fined.slots = 1 .. n
  BY <1>4, <1>6, <1>7 DEF PageSlots
<1>12. ASSUME NEW i \in DOMAIN page.slots
       PROVE  /\ Count(page.slots[i].linked) + Count(page.slots[i].missing) = headers.slots[i].header_count
              /\ Count(headers.slots[i].headers) = timely.slots[i].header_count
              /\ Cardinality(timely.slots[i].revealed \cup timely.slots[i].late)
                   = headers.slots[i].revealed_count
  <2> DEFINE t == s + i - 1
  <2>1. t \in Slot BY <1>3, <1>11
  <2>2. /\ page.slots[i] = EnvelopesAt(t, FALSE) /\ headers.slots[i] = HeadersAt(t)
        /\ timely.slots[i] = Timeliness(t, now)
    BY Zenon, <1>10, <1>11
  <2> HIDE DEF t
  <2>3. /\ page.slots[i].linked = Found(envelopes_by_root, t)
        /\ page.slots[i].missing = Absent(envelopes_by_root, t)
    <3>1. /\ EnvelopesAt(t, FALSE).linked = Found(envelopes_by_root, t)
          /\ EnvelopesAt(t, FALSE).missing = Absent(envelopes_by_root, t)
      BY DEF EnvelopesAt
    <3> QED BY Zenon, <2>2, <3>1
  <2>4. /\ headers.slots[i].headers = Found(headers_by_root, t)
        /\ headers.slots[i].header_count = Len(headers_by_slot[t])
        /\ headers.slots[i].revealed_count = Count(Found(envelopes_by_root, t))
    <3>1. /\ HeadersAt(t).headers = Found(headers_by_root, t)
          /\ HeadersAt(t).header_count = Len(headers_by_slot[t])
          /\ HeadersAt(t).revealed_count = Count(Found(envelopes_by_root, t))
      BY DEF HeadersAt
    <3> QED BY <2>2, <3>1
  <2>5. /\ timely.slots[i].header_count = Len(headers_by_slot[t])
        /\ timely.slots[i].revealed = OnTime(t) /\ timely.slots[i].late = LateReveals(t)
    <3>1. /\ Timeliness(t, now).header_count = Len(headers_by_slot[t])
          /\ Timeliness(t, now).revealed = OnTime(t) /\ Timeliness(t, now).late = LateReveals(t)
      BY DEF Timeliness
    <3> QED BY <2>2, <3>1
  <2> QED BY <2>1, <2>3, <2>4, <2>5, SlotCountsAgree
<1>13. penalized.active + penalized.recovered
         = Cardinality({i \in DOMAIN timely.slots : timely.slots[i].penalty # None})
  <2> DEFINE S == {i \in DOMAIN timely.slots : timely.slots[i].penalty # None}
             A == in("ACTIVE")
             B == in("RECOVERED")
  <2>1. \A i \in 1 .. n : penalties[s + i - 1] # None =>
            penalties[s + i - 1].state \in {"ACTIVE", "RECOVERED"}
    BY <1>3 DEF PenaltiesTyped, Penalty
  <2>2. ASSUME NEW i \in 1 .. n
        PROVE  /\ timely.slots[i].penalty = penalties[s + i - 1]
               /\ fined.slots[i].penalty_state
                    = IF penalties[s + i - 1] = None THEN "NONE" ELSE penalties[s + i - 1].state
    <3> DEFINE t == s + i - 1
    <3>1. timely.slots[i] = Timeliness(t, now) /\ fined.slots[i] = PenaltySnapshot(t, now) BY Zenon, <1>10
    <3> HIDE DEF t
    <3>2. timely.slots[i].penalty = penalties[t]
      <4>1. Timeliness(t, now).penalty = penalties[t] BY DEF Timeliness
      <4> QED BY <3>1, <4>1
    <3>3. fined.slots[i].penalty_state = IF penalties[t] = None THEN "NONE" ELSE penalties[t].state
      <4>1. PenaltySnapshot(t, now).penalty_state
              = IF penalties[t] = None THEN "NONE" ELSE penalties[t].state
        BY DEF PenaltySnapshot
      <4> QED BY <3>1, <4>1
    <3> QED BY <3>2, <3>3 DEF t
  <2>3. A \cup B = S /\ A \cap B = {} BY <1>11, <2>1, <2>2
  <2>4. IsFiniteSet(S)
    <3>1. IsFiniteSet(1 .. n) BY <1>2, FirstFinite
    <3> QED BY Zenon, <1>11, <3>1, FS_Subset
  <2>5. penalized.active = Cardinality(A) /\ penalized.recovered = Cardinality(B) BY <1>8
  <2> HIDE DEF S, A, B
  <2>6. Cardinality(A) + Cardinality(B) = Cardinality(S) BY <2>3, <2>4, SplitCount
  <2> QED BY <2>5, <2>6 DEF S
<1>14. penalized.answer = fined BY <1>8
<1> QED BY Zenon, <1>4, <1>5, <1>6, <1>7, <1>9, <1>12, <1>13, <1>14 DEF PagesAgree, end, penalized

-----------------------------------------------------------------------------
(* The property from the exact index and the types of the registry. *)
LEMMA WalkFromRegistry == Registry /\ PenaltiesTyped => WalkReportsEachEnvelopeOnce
<1> SUFFICES ASSUME Registry, PenaltiesTyped PROVE WalkReportsEachEnvelopeOnce OBVIOUS
<1> DEFINE lo == Min(Slot)
           hi == Max(Slot)
           all == Walk(lo, hi)
           at(r) == {i \in DOMAIN all : r \in Reported(all[i])}
<1>1. lo \in Nat /\ hi \in Nat /\ lo <= hi /\ lo \in Slot /\ hi \in Slot /\ Slot = lo .. hi
  BY SlotBounds
<1>2. all = Shown(lo, hi) BY <1>1, WalkShowsAll
<1>3. DOMAIN all = 1 .. hi - lo + 1 /\ Len(all) = hi - lo + 1
  BY <1>1, <1>2 DEF Shown
<1>4. \A i \in DOMAIN all : all[i] = EnvelopesAt(lo + i - 1, TRUE) BY <1>2, <1>3 DEF Shown
<1> HIDE DEF lo, hi, all
<1>5. ASSUME NEW r \in Root
      PROVE  at(r) = {i \in DOMAIN all : envelopes_by_root[r] # None /\ Home(r) = lo + i - 1}
  <2>1. \A i \in DOMAIN all : lo + i - 1 \in Slot BY <1>1, <1>3
  <2> QED BY Zenon, <1>4, <2>1, ReportedAtHome
<1>6. ASSUME NEW r \in Root, envelopes_by_root[r] # None
      PROVE  \E i \in DOMAIN all : /\ at(r) = {i}
                                   /\ all[i].slot = SlotOf([slot |-> None, root |-> None, first |-> r])
  <2> DEFINE i == Home(r) - lo + 1
  <2>1. Home(r) \in Slot /\ SlotOf(ByRoot(r)) = Home(r) BY <1>6, QueryByRoot DEF Known
  <2>2. i \in DOMAIN all /\ lo + i - 1 = Home(r) BY <1>1, <1>3, <2>1
  <2>3. \A j \in DOMAIN all : Home(r) = lo + j - 1 => j = i BY <1>1, <1>3, <2>1
  <2>4. at(r) = {i}
    <3> HIDE DEF i
    <3> QED BY <1>5, <1>6, <2>2, <2>3
  <2>5. all[i].slot = Home(r) BY <1>4, <2>2 DEF EnvelopesAt
  <2> QED BY <2>1, <2>2, <2>4, <2>5 DEF ByRoot
<1>7. ASSUME NEW r \in Root, envelopes_by_root[r] = None PROVE at(r) = {}
  BY <1>5, <1>7
<1>8. ASSUME NEW r \in Root
      PROVE  LET q == [slot |-> None, root |-> None, first |-> r]
             IN  RecordFor(headers_by_root, q) # None => RecordFor(headers_by_root, q).slot = SlotOf(q)
  <2>1. root_from_req(ByRoot(r)) = r BY QueryByRoot
  <2>2. r # None BY WindowAssumption
  <2>3. RecordFor(headers_by_root, ByRoot(r)) = headers_by_root[r] BY <2>1, <2>2 DEF RecordFor
  <2>4. headers_by_root[r] # None => SlotOf(ByRoot(r)) = headers_by_root[r].slot
    BY QueryByRoot DEF Known, Home
  <2> QED BY <2>3, <2>4 DEF ByRoot
<1>9. \A s \in Slot : PagesAgree(EnvelopesByRange(s, hi, FALSE), HeadersByRange(s, hi),
                                 TimelinessByRange(s, hi, Max(Time)),
                                 PenaltiesByRange(s, hi, Max(Time)))
  BY Zenon, RangesAgree DEF hi
<1> QED BY Zenon, <1>3, <1>6, <1>7, <1>8, <1>9 DEF WalkReportsEachEnvelopeOnce, lo, hi, all

(* For any range of slots, any window and any registry the calls can       *)
(* build, a client that pages through the slots is told of every           *)
(* registered envelope exactly once, and the range calls agree.            *)
THEOREM WalkReportsEachEnvelopeOnceHolds == Spec => []WalkReportsEachEnvelopeOnce
<1>1. Init => Registry /\ PenaltyInv BY RegistryInit, PenaltyInitially
<1>2. Registry /\ PenaltyInv => WalkReportsEachEnvelopeOnce BY WalkFromRegistry DEF PenaltyInv
<1> QED BY <1>1, <1>2, RegistryStep, PenaltiesLive, PTL DEF Spec
================================================================================
