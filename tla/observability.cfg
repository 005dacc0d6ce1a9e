SPECIFICATION Spec
CONSTANTS
  Threads = {t1, t2, t3}
  Installed = {TRUE, FALSE}
INVARIANTS TypeOK Exported LossOnlyAtStart
