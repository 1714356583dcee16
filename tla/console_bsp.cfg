CONSTANTS
    MaxUser = 3
    Ap = {}
    Logging = TRUE
SPECIFICATION FairSpec
CHECK_DEADLOCK FALSE
  
PROPERTIES  RootCompletes
