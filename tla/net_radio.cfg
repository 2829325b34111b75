SPECIFICATION Spec
CONSTANTS
  MaxReconnects = 5
  Configured = {TRUE, FALSE}
INVARIANT WifiStaysOff
