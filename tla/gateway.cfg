SPECIFICATION MCGatewaySpec
CONSTANTS
  h1 = h1
  h2 = h2
  h3 = h3
  h4 = h4
  alice = alice
  Hits = {h1, h2, h3, h4}
  Limit = 2
  Ttl = 2
  Block = 1
  Users = {alice}
  Nobody = Nobody
INVARIANTS GatewayTypeOK BlockEnds NoLateEntry 
PROPERTY KeyGoesAway
