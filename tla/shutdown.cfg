\* Ctrl-C up to three times, after the worker has created the reactor; main_impl
\* may also fail or finish on its own.
CONSTANTS
  MaxUserSigints = 3
  SigintAnytime = FALSE
SPECIFICATION Spec
PROPERTY Terminates
CHECK_DEADLOCK FALSE
