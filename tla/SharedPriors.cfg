SPECIFICATION PriorsSpec
CONSTANTS
  Tenants = {acme, globex}
  Routers = {s, t}
  PriorsTtl = 1
  MaxStall = 1
  MaxEndings = 1
  MaxPriorsTick = 1
  NoTenant = NoTenant
INVARIANT PriorsStayHome
