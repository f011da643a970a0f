\* Two roots over two slots, and two inclusion lists.
SPECIFICATION Spec
CONSTANTS
    None = None
    r1 = r1
    r2 = r2
    t1 = t1
    t2 = t2
    Slot <- MCSlots
    Root = {r1, r2}
    Bid = {b}
    Body = {d}
    Time <- MCTimes
    started_at_unix_s = 0
    Lists <- MCLists
    Meta = {m1}
    MAX_SLOT_WINDOW = 1
    NextSlot = 1
SYMMETRY RootSymmetry
INVARIANTS WalkReportsEachEnvelopeOnce SlotIndexExact LatePenaltyHasEvidence FrozenListInForce
PROPERTIES RecordsImmutable PenaltyLifecycle ListAdoptedOnlyWhenTimely
CHECK_DEADLOCK FALSE
