\* Two processes, three threads, three levels; slices of two ticks.
SPECIFICATION Spec
CONSTANTS
  MAX_PROCESSES = 2
  MAX_THREADS = 3
  TIME_SLICE = 2
  SLICE_MOD = 4
  Priorities <- ThreePriorities
  MaxPid = 4
INVARIANTS QueuesMatchStates ThreadsBelong
PROPERTIES UrgentFirst InTurn RefinesThreadLife
