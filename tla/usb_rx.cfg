\* Two transfers and one spare buffer, every mode and policy, with another thread that pumps and without.
SPECIFICATION FairSpec
CONSTANTS
  Urbs = {u1, u2}
  Spares = {s1}
  NoBuf = NoBuf
  Modes = {"Async", "ReorderPool", "SpscFat"}
  Policies = {"Backpressure", "Drop"}
  CoRunning = {FALSE, TRUE}
  Faulty = {FALSE, TRUE}
INVARIANT OneHolder
INVARIANT TeardownSafe
INVARIANT RingStaysArmed
PROPERTY StopEndsAlone
PROPERTY UnplugEnds
CHECK_DEADLOCK FALSE
