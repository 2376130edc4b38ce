SPECIFICATION FairSpec
CONSTANTS
  Vm = {v1, v2, v3}
  Host = {h1, h2}
  MaxPermits = 3
INVARIANTS CollectsAlone RootsComplete OneAutomaticCollection NoWaitCycle
PROPERTIES RequestStands AutomaticCollectionStarts TaskResumes
