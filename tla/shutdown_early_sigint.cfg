\* Ctrl-C at most once, at any time, including before the reactor exists.
CONSTANTS
  MaxUserSigints = 1
  SigintAnytime = TRUE
SPECIFICATION Spec
PROPERTY Terminates
CHECK_DEADLOCK FALSE
