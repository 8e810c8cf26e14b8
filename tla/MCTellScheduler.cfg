CONSTANTS
  Names <- MCNames
  Workers = 2
SPECIFICATION SchedulerSpec
INVARIANTS BoundedOvertaking
