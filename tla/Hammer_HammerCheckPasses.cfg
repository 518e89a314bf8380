CONSTANTS
  c1 = c1
  c2 = c2
  s1 = s1
  s2 = s2
  Clients <- MCClients
  ServerOrder <- MCServerOrder
  FieldOrder <- MCFieldOrder
  Route <- MCRoute
  ClientId <- MCClientId
  FieldSize = 3
SPECIFICATION Spec
INVARIANT HammerCheckPasses
