SPECIFICATION Spec
CONSTANTS
  Order <- TwoToggles
  MaxLines = 3
  MaxEdits = 1
  MaxBuilds = 3
INVARIANT LastLegibleLineCounts
PROPERTY WrittenFileIsKept
\* The builds are bounded.
CHECK_DEADLOCK FALSE
