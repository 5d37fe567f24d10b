\* No options that matter here, every set of supported families.
SPECIFICATION Spec
CONSTANTS
  CommandLine <- PlainLines
  Value <- Strings
  Order <- StrCmp
  IntOf <- Numbers
  MappingOf <- Mappings
  ResolveIPv4 <- IPv4Names
  ResolveAny <- AnyNames
  Loopback = {127}
  EmptyString = ""
  NoName = "none"
INVARIANT OptionalNeverFails
