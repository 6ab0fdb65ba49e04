CONSTANTS
    NChan = 1
    Urb = {"write", "poll"}
    None = None
    Kind <- Kinds
    Split = {}
    Sync = {"write"}
    Impatient = {"write"}
    Again = {"poll"}
    Killable = {}
    OwnerKills = TRUE
    OneCore = TRUE
    Packets = 1
    Events <- Plain
SPECIFICATION Spec
INVARIANTS WaitsemDone
CHECK_DEADLOCK FALSE
