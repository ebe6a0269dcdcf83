CONSTANTS
  s1 = s1
  s2 = s2
  Sessions <- MCSessions
  Targets <- MCTargets
  Codes <- MCCodes
  NeedsStdinEOF = TRUE
  PodKeys <- NewPodKeys
  MayCancel = FALSE
  MaxFaults = 1
SPECIFICATION Spec
INVARIANTS
  CopyErrorSurfaced
