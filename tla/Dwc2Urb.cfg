CONSTANTS
    NChan = 1
    Urb = {"set", "get", "poll"}
    None = None
    Kind <- Kinds
    Split = {"set", "get", "poll"}
    Sync = {"set", "get"}
    Impatient = {"get"}
    Again = {"poll"}
    Killable = {"poll"}
    OwnerKills = TRUE
    OneCore = TRUE
    Packets = 2
    Events <- AllEvents
SPECIFICATION Spec
INVARIANTS SuccessIsComplete FreesOwnChannel NoFault FreedWhenDone
CONSTRAINT NotStale
CHECK_DEADLOCK FALSE
