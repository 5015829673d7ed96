SPECIFICATION Spec
CONSTANTS
  Apps = {a1, a2}
  Procs = {p1, p2}
  Duties = {d1}
  Entries = {e1, e2}
  NoEntry = NoEntry
  Unarmed = Unarmed
SYMMETRY Symmetry
INVARIANTS IInv StoppedIsOwned OneWorkerPerApp CallApplied QuietWhenEmpty
PROPERTIES RefinesContract
