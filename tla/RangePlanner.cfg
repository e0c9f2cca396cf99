\* Eight bytes: lists of up to four ranges, and every range to remove that
\* starts or ends inside a range, at its edge, in a gap or behind the last.
CONSTANTS
  Lo = 0
  Hi = 8
SPECIFICATION RangesSpec
INVARIANT Ordered
PROPERTY PlannerSpec
