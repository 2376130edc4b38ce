SPECIFICATION FairSpec
CONSTANTS
  Vm = {v1, v2}
  Host = {h1}
  MaxPermits = 2
PROPERTIES CollectionStarts
