CONSTANTS
  r1 = r1
  r2 = r2
  f1 = f1
  Rules = {r1, r2}
  Functions = {f1, f2}
  Sources <- MCSources
  Revisions <- MCRevisions
  Ignores <- MCIgnores
  Star = Star
  Blank = Blank
  Unread = Unread
  Never = Never
  Unnamed = Unnamed
  MaxLine = 3
  MaxScans = 1
  MaxEvents = 1
SPECIFICATION SuppressionSpec
CHECK_DEADLOCK FALSE
INVARIANTS
  DirectivesExact
  HiddenForAReason
PROPERTIES
  ReportedStays
