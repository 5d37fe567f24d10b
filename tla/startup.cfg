\* Command lines of up to two clauses of one subject, every set of supported families.
SPECIFICATION Spec
CONSTANTS
  CommandLine <- CommandLines
  Value <- Strings
  Order <- StrCmp
  IntOf <- Numbers
  MappingOf <- Mappings
  ResolveIPv4 <- IPv4Names
  ResolveAny <- AnyNames
  Loopback = {127}
  EmptyString = ""
  NoName = "none"
INVARIANTS
  TypeOK
  PolicyAsDeclared
  MappingAsDeclared
  ListensAsDeclared
PROPERTY StartMoves
