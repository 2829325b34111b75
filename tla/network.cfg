SPECIFICATION Spec
CONSTANTS
  MaxReconnects = 5
  Configured = {TRUE, FALSE}
INVARIANTS TypeOK CountsFailures
PROPERTIES RecoversOrReboots ConnectionForgives
