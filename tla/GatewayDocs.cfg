SPECIFICATION Spec
CONSTANTS
  None = None
  Service <- MCService
  Permission <- MCPermission
  Incoming <- MCIncoming
INVARIANTS TypeOK EntitledServed DescribedMapped ToldSuffices
CHECK_DEADLOCK FALSE
