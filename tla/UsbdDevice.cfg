CONSTANTS
    Intf = {0, 1}
    Alternates <- StreamAlternates
    Selectable <- StreamSelectable
    Descs <- StreamDescs
    Outcomes <- StreamOutcomes
    Config = 1
    WakeupBit = TRUE
    MaxAddress = 2
SPECIFICATION Spec
INVARIANTS SelectedAreOpen ClassInformed

