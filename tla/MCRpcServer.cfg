SPECIFICATION Spec
CONSTANTS
  Client = {c1}
  Poster = {p1}
  Scripts <- MCScripts
  Preauthed <- MCPreauthed
  MaxBuffered = 1
  MaxEvents = 1
INVARIANTS RepliesInOrder AuthFirst Registered
PROPERTIES Answered ClientEnds ServerStops
CHECK_DEADLOCK FALSE
