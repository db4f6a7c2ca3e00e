CONSTANTS
  Archives <- MCArchives
  MaxMarred = 2
SPECIFICATION FairSpec
INVARIANTS TypeOK RunsWholeBundle
PROPERTY CleaningHelps
