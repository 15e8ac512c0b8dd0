SPECIFICATION Spec
CONSTANTS
  Clients <- MCClients
  Servers <- MCServers
  Hash <- MCHash
  Groups = {"x25519", "secp256r1"}
  Names = {"a", "b"}
  ticket_lifetime = 3
  CLIENT_LIMIT = 4
  MAX_DELAY = 1
  MODULUS = 8
  AgeAdds = {0, 6}
  MaxTime = 5
INVARIANTS TypeOK SameSchedule Negotiated EarlyDataFresh
