CONSTANTS
  Thread = {t1, t2, t3}
  States = {"needs_input", "running", "complete"}
  MaxTime = 2
  Capacity = 2
SYMMETRY Symmetry
SPECIFICATION FocusSpec
INVARIANTS
  SlotsDistinct
  MostUsefulOnceRepeated
  SeenIsCurrent
