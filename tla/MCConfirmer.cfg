SPECIFICATION FairSpec
CONSTANTS
    u1 = u1
    u2 = u2
    u3 = u3
    None = None
    Uuids = {u1, u2, u3}
INVARIANTS DeliversLatest ManualNeedsUser CancelIsFinal AutoHasTimer
PROPERTIES AutoConfirms ImplementsSlot
