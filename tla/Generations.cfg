SPECIFICATION FairSpec
CONSTANTS
  Pids <- OnePid
  MaxGeneration = 3
  MaxUsed = 2
  MaxErrors = 1
INVARIANTS CreditsAreSpent StopsAreRecorded
PROPERTIES StraysNeedReuse RetriesResume
