SPECIFICATION Spec
CONSTANTS
  Callers = {c1}
  Listeners = {l1}
  Addresses = {a1, a2}
  Weights = {0, 1, 2, 3}
  Satellite = 3
  Nobody = Nobody
  Idle = Idle
  Drift = 1
SYMMETRY Symmetry
INVARIANTS TypeOK AliveExact TotalExact EventsMatch NeverTwoSkipped
PROPERTIES WeightedRound
CHECK_DEADLOCK FALSE
