-------------------------- MODULE PayloadValidation --------------------------
(***************************************************************************)
(* The verdict of engine_newPayloadV3 on a timely payload                  *)
(* (engine_new_payload_response of eth2077-devnetd.rs): the inclusion list *)
(* is present, the view is frozen for no other slot, the list's metadata   *)
(* agrees with the payload's, and the list's transactions, taken in        *)
(* payload order, fit the nonces and balances of their senders.            *)
(*                                                                         *)
(* A state is one request: the payload grows by one entry per step and is  *)
(* judged again.  Any metadata field but the hash may be absent (Absent).  *)
(***************************************************************************)
EXTENDS Integers, SequencesExt

CONSTANTS
    Hash, Address, Nonce, Gas, Price, Value,
    account_nonce, account_balance,    \* the EVM database
    ENGINE_BLOCK_GAS_LIMIT,
    MaxEntries,                        \* bound on the payload's length
    ListEntry, PayloadEntry,           \* the entries lists and payloads are made of
    SlotNumber, Absent

VARIABLES
    required_il_txs,    \* engine_required_il_txs, in order
    required_il_meta,   \* engine_required_il_meta: hash -> entry
    frozen_slot,        \* engine_focil_frozen_slot, Absent when not frozen
    payload_slot,
    payload_entries     \* the payload's entries, distinct hashes, in order

requestVars == <<required_il_txs, required_il_meta, frozen_slot, payload_slot, payload_entries>>

Maybe(S) == S \cup {Absent}

Entry == [hash : Hash, from : Maybe(Address), nonce : Maybe(Nonce),
          gas : Maybe(Gas), price : Maybe(Price), value : Maybe(Value)]

ASSUME RequestAssumption ==
    /\ Nonce \cup Gas \cup Price \cup Value \subseteq Nat
    /\ account_nonce \in [Address -> Nat] /\ account_balance \in [Address -> Nat]
    /\ ENGINE_BLOCK_GAS_LIMIT \in Nat
    /\ Absent \notin Address /\ Absent \notin Nat
    /\ PayloadEntry \subseteq Entry

Fields == {"from", "nonce", "gas", "price", "value"}

RequiredSet == {required_il_txs[i] : i \in DOMAIN required_il_txs}
Positions   == DOMAIN payload_entries
Hashes      == {payload_entries[i].hash : i \in Positions}

-----------------------------------------------------------------------------
(* missing.is_empty() *)
NothingMissing(hs) == RequiredSet \subseteq hs

(* The view is not frozen for another slot. *)
FrozenHere == frozen_slot = Absent \/ payload_slot = frozen_slot

(* Every field the list gives, the payload gives with the same value. *)
Agrees(req, got) == \A f \in Fields : req[f] # Absent => got[f] = req[f]

MetadataAgrees ==
    \A i \in Positions :
        payload_entries[i].hash \in RequiredSet =>
            Agrees(required_il_meta[payload_entries[i].hash], payload_entries[i])

(* The simulation of the listed transactions: sim holds the nonce and the  *)
(* balance each sender is left with, ok whether a check failed so far.     *)
StartSim == [nonce |-> account_nonce, balance |-> account_balance, ok |-> TRUE]

(* A U256 in the code; costs are taken to stay below 2^256. *)
Priced(e)      == e.gas # Absent /\ e.price # Absent /\ e.value # Absent
RequiredWei(e) == e.gas * e.price + e.value

SimulateUncharged(e, sim) ==    \* mutant: the balance is compared, never charged
    IF e.hash \notin RequiredSet \/ e.from = Absent THEN sim
    ELSE IF e.nonce # Absent /\ e.nonce # sim.nonce[e.from] THEN [sim EXCEPT !.ok = FALSE]
    ELSE [sim EXCEPT
            !.ok = /\ @
                   /\ e.gas # Absent => e.gas <= ENGINE_BLOCK_GAS_LIMIT
                   /\ Priced(e) => RequiredWei(e) <= sim.balance[e.from],
            !.nonce[e.from] = IF e.nonce = Absent THEN @ ELSE @ + 1]

SimulateEverything(e, sim) ==    \* mutant: unlisted transactions are simulated too
    IF e.from = Absent THEN sim
    ELSE IF e.nonce # Absent /\ e.nonce # sim.nonce[e.from] THEN [sim EXCEPT !.ok = FALSE]
    ELSE [sim EXCEPT
            !.ok = /\ @
                   /\ e.gas # Absent => e.gas <= ENGINE_BLOCK_GAS_LIMIT
                   /\ Priced(e) => RequiredWei(e) <= sim.balance[e.from],
            !.balance[e.from] = IF Priced(e) /\ RequiredWei(e) <= @
                                  THEN @ - RequiredWei(e) ELSE @,
            !.nonce[e.from] = IF e.nonce = Absent THEN @ ELSE @ + 1]

Simulate(e, sim) ==
    IF e.hash \notin RequiredSet \/ e.from = Absent THEN sim
    ELSE IF e.nonce # Absent /\ e.nonce # sim.nonce[e.from] THEN [sim EXCEPT !.ok = FALSE]
    ELSE [sim EXCEPT
            !.ok = /\ @
                   /\ e.gas # Absent => e.gas <= ENGINE_BLOCK_GAS_LIMIT
                   /\ Priced(e) => RequiredWei(e) <= sim.balance[e.from],
            !.balance[e.from] = IF Priced(e) /\ RequiredWei(e) <= @
                                  THEN @ - RequiredWei(e) ELSE @,
            !.nonce[e.from] = IF e.nonce = Absent THEN @ ELSE @ + 1]

Simulated == FoldLeft(LAMBDA sim, e : Simulate(e, sim), StartSim, payload_entries)

(* The total is compared only when every entry gives its gas. *)
GasFits ==
    LET known == \A i \in Positions : payload_entries[i].gas # Absent
        total == FoldLeft(LAMBDA sum, e : sum + e.gas, 0, payload_entries)
    IN  known /\ RequiredSet # {} => total <= ENGINE_BLOCK_GAS_LIMIT

Verdict ==
    IF NothingMissing(Hashes) /\ FrozenHere /\ MetadataAgrees /\ Simulated.ok /\ GasFits
      THEN "VALID" ELSE "INCLUSION_LIST_UNSATISFIED"

-----------------------------------------------------------------------------
RequestInit ==
    /\ required_il_txs \in {l \in UNION {[1..n -> Hash] : n \in 0..2} : IsInjective(l)}
    /\ required_il_meta \in {m \in [Hash -> ListEntry] : \A h \in Hash : m[h].hash = h}
    /\ frozen_slot \in Maybe(SlotNumber)
    /\ payload_slot \in SlotNumber
    /\ payload_entries = <<>>

(* The next transaction of the payload; repeated hashes were dropped. *)
AddEntry(e) ==
    /\ Len(payload_entries) < MaxEntries
    /\ e.hash \notin Hashes
    /\ payload_entries' = Append(payload_entries, e)
    /\ UNCHANGED <<required_il_txs, required_il_meta, frozen_slot, payload_slot>>

RequestNext == \E e \in PayloadEntry : AddEntry(e)

RequestSpec == RequestInit /\ [][RequestNext]_requestVars

-----------------------------------------------------------------------------
(* What VALID should mean, without a simulation.                           *)

Listed(a) == {i \in Positions : payload_entries[i].hash \in RequiredSet
                                /\ payload_entries[i].from = a}

NoncesConsecutive ==
    \A a \in Address : \A i \in Listed(a) :
        payload_entries[i].nonce # Absent =>
            payload_entries[i].nonce = account_nonce[a]
                + Cardinality({j \in Listed(a) : j < i /\ payload_entries[j].nonce # Absent})

Spent(a) == MapThenSumSet(LAMBDA i : RequiredWei(payload_entries[i]),
                          {i \in Listed(a) : Priced(payload_entries[i])})

Affordable == \A a \in Address : Spent(a) <= account_balance[a]

GasInLimit ==
    /\ \A a \in Address : \A i \in Listed(a) :
          payload_entries[i].gas # Absent => payload_entries[i].gas <= ENGINE_BLOCK_GAS_LIMIT
    /\ GasFits

(* newPayload calls a payload VALID exactly when it keeps the list: it     *)
(* contains the whole list with the metadata the list gives; each sender's *)
(* listed nonces run without a gap from the account's nonce, and each      *)
(* sender can pay for all its listed transactions together.  Unlisted      *)
(* transactions, absent fields and the order of different senders are      *)
(* never a reason for INCLUSION_LIST_UNSATISFIED.                          *)
ValidExactly ==
    LET kept == /\ RequiredSet \subseteq Hashes
                /\ MetadataAgrees
                /\ NoncesConsecutive /\ Affordable /\ GasInLimit
    IN  /\ Verdict = "VALID" => kept
        /\ kept /\ frozen_slot \in {Absent, payload_slot} => Verdict = "VALID"
===============================================================================
