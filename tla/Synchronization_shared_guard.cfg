SPECIFICATION Spec
CONSTANTS
  Threads = {t1, t2}
  Callers = {t1}
  Statics = {default_type}
  SharedLocking = TRUE
INVARIANTS GuardsOwnTheirKind
