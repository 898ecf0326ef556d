CONSTANTS
  MaxCommits = 3
  MaxCommands = 2
SPECIFICATION Spec
INVARIANTS TypeOK MergeConfigComplete
PROPERTIES FastForwardUnlessForced NothingLostUnasked DeletedOnlyAfterMerge SyncedIsEqual CheckedOutIsPullRequest
