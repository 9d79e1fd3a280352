\* Two clients; the server is interrupted at any moment.
SPECIFICATION FairSpec
CONSTANTS
  writer = writer
  visitor = visitor
  Clients <- ChatClients
  Creating <- OnlyWriter
  MAX_WRITES <- TwoTexts
  Killable <- OnlyWriter
INVARIANTS
  QuitsCleanly
PROPERTIES
  ImplementsChannel
  ShutdownEnds
  ClientsEnd
\* Everybody ends.
CHECK_DEADLOCK FALSE
