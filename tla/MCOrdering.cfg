\* Slices of up to three events of the adapters, types and IDs mixed, and of
\* up to four events by a relation with a cycle.
CONSTANTS
  n1 = n1  n2 = n2
  MaxUint64 = 2
  ForeignBefore <- Cyclic
  Inputs <- SmallSlices
SPECIFICATION FairSpec
CHECK_DEADLOCK FALSE
INVARIANTS TypeOK StopsExactlyAtCycles LeastExtension FrontierCovers AdaptersAgree
PROPERTY RefinesLinearExtension
