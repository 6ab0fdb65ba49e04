CONSTANTS
    MPS = 2
    BufLen = 4
    MaxLen = 6
    Offers <- AnyOffer
SPECIFICATION FairSpec
PROPERTIES EveryTransferEnds
