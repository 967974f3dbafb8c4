\* A request whose session cannot be built, and one behind it.
SPECIFICATION FairSpec
CONSTANTS
  ManagerConfig <- MCManagerConfig
  Submissions <- MCPoison
  MaxReads = 2
PROPERTY AddedIsAnswered
