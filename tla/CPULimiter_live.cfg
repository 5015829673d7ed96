SPECIFICATION FairSpec
CONSTANTS
  Apps = {a1, a2}
  Procs = {p1}
  Duties = {d1, d2}
  Entries = {e1, e2}
  NoEntry = NoEntry
  Unarmed = Unarmed
INVARIANTS NoLostUpdate
PROPERTIES StopsEnd RefusedIsRetried CallsReturn
