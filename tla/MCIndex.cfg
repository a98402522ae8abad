SPECIFICATION FairSpec
CONSTANTS
    None = None
    p1 = p1
    p2 = p2
    p3 = p3
    i = i
    j = j
    fa = fa
    fb = fb
    Sources = {fa, fb}
    Contents <- TwoContents
    TooLarge = TooLarge
    NotText = NotText
    Processes = {p1, p2, p3}
    Setups <- AllSetups
    Cut <- CutOf
    MaxEdits = 2
    maxRewalks = 2
    PassageBytes = 3
    MaxQueryBytes = 3
    Texts <- AllTexts
    Reports <- AllReports
    HitLists <- AllHits
    ByteBounds = {0, 1, 2, 3, 4, 5, 6, 7, 8, 9, 10, 11, 12, 13, 14, 15, 16, 17, 18, 19, 20}
CHECK_DEADLOCK FALSE
CONSTRAINT OneInTrouble
INVARIANTS
    GenerationNamesContents
    ReadsAreWhole
    FreshSearch
    CutsAreWhole
PROPERTIES
    EveryUseEnds
