CONSTANTS
  Jobs <- SavedJobs
  HostLittle = TRUE
INIT Init
NEXT Next
CHECK_DEADLOCK FALSE
INVARIANTS
  SavedReadsBack
