CONSTANT AutoUnmount = FALSE
SPECIFICATION FairSpec
INVARIANT TypeOK
INVARIANT ListeningIsMounted
PROPERTY StopLeavesNoMount
PROPERTY StopEnds
PROPERTY RestartsRecover
