\* One level, slices of two ticks, a counter that wraps at 16.
SPECIFICATION Spec
CONSTANTS
  MAX_PROCESSES = 1
  MAX_THREADS = 2
  TIME_SLICE = 2
  SLICE_MOD = 16
  Priorities <- OnePriority
  MaxPid = 2
INVARIANT SlicesAreShared
