SPECIFICATION Spec
CONSTANTS
  c1 = c1
  c2 = c2
  pool = pool
  other = other
  client = client
  client2 = client2
  resp1 = resp1
  resp2 = resp2
  us = us
  them = them
  None = None
  Conns = {c1, c2}
  Servers = {pool, other}
  States = {client, client2, resp1, resp2}
  Plans <- MCSharedPlan
  Certs <- MCCerts
  Authority = us
  TimeMod = 4
PROPERTY FailsOnlyWhenDisturbed
CHECK_DEADLOCK FALSE
