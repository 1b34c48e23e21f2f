SPECIFICATION Spec
CONSTANTS
  Old = Old
  New = New
  Procs = {Old, New}
  CurrentSchemaVersion <- MCCurrentSchemaVersion
  Calls = {c1}
  NoProc = NoProc
  BootstrapEnabled = {New}
INVARIANTS
  ServesCompleteSchema
  ServerInv
PROPERTIES
  AnsweredOnShutdown
  SignalLeadsToExit
  StartupEnds
