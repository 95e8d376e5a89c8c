SPECIFICATION Spec
CONSTANTS
  MaxFaults = 1
  MaxForeign = 1
INVARIANTS MappingProven
