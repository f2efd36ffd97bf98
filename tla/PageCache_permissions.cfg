SPECIFICATION PageSpec
CONSTANT Mutations = {1, 2}
INVARIANT OffersOnlyWhatIsAccepted
CHECK_DEADLOCK FALSE
