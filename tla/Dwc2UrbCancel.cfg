CONSTANTS
    NChan = 2
    Urb = {"feature", "read", "poll"}
    None = None
    Kind <- Kinds
    Split = {}
    Sync = {"feature"}
    Impatient = {"feature"}
    Again = {"read"}
    Killable = {"read", "poll"}
    OwnerKills = TRUE
    OneCore = TRUE
    Packets = 1
    Events <- Plain
SPECIFICATION Spec
INVARIANTS Attachment PoolAccounts
CHECK_DEADLOCK FALSE
CONSTRAINT NotStale
