SPECIFICATION Spec
SYMMETRY Symmetry
CONSTANTS
  Key = {k1}
  Stub = {s1, s2}
  Thread = {t1, t2}
  NoStub = none
  MaxClones = 2
  MaxQueue = 2
  Call = {c1, c2}
  Ids = 4
  MaxTasks = 2
INVARIANTS OneLiveStub NoReleaseLost EntryOutlivesStub
INVARIANTS CancelIsSeen NoEntryLeaks NobodyStranded AnswersItsOwn FindsCallable
CHECK_DEADLOCK FALSE
