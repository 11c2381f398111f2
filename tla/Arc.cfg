SPECIFICATION ArcSpec
CONSTANTS
  core_arc_max_count = 4
  Callers = 2
  MaxClones = 8
INVARIANTS HeldValueIsThere OneGetsTheValue CountIsTrue
