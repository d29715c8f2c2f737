SPECIFICATION Spec
CONSTANTS
  Commands <- MCCommands
  Shipped <- MCShipped
  Params <- MCParams
  Registered <- MCRegistered
  MaxCommands = 3
  NoCommand = NoCommand
  Unreadable = Unreadable
INVARIANTS
  OnItsOwnParameter
  NoSilentInit
  ExportedComesBack
\* a session ends
CHECK_DEADLOCK FALSE
