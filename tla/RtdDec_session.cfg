SPECIFICATION FairSpec
CONSTANT MaxWaits = 3
INVARIANTS SessionInv FlaggedHeaderIsComplete
PROPERTIES CallsEnd
