CONSTANTS
    Ids = {r1, r2, r3}
    None = None
    Inputs = {i}
    Sinks = 1
    MaxEdition = 2
SPECIFICATION Spec
CHECK_DEADLOCK FALSE
SYMMETRY Symmetric
INVARIANTS SucceededIsWhole KeptBeforeRemoved SameInputs ClaimComesBack
PROPERTY OutcomeIsFinal
CONSTRAINT Explored
