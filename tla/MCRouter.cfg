CONSTANTS
  r1 = r1
  r2 = r2
  base = base
  cheap = cheap
  plan = plan
  adm = adm
  dev = dev
  ann = ann
  bob = bob
  i1 = i1
  i2 = i2
  i3 = i3
  None = None
  Importer = Importer
  Orphan = Orphan
  AutoModel = AutoModel
  Instances = {i1, i2, i3}
  ProcessOf <- MCProcessOf
  MaxStarts = 3
  MaxCrashes = 1
  MaxForks = 2
  Runs = {r1, r2}
  Routes = {base, cheap, plan, adm, dev}
  RouteOf <- MCRouteOf
  Catalog <- MCCatalog
  DefaultRoute = base
  FallbackRoutes <- MCFallback
  Requesters = {ann, bob}
  AdminSenders = {ann}
  DevAgents = {bob}
  DevChannel = {bob}
  RunLimit = 1
  PaidUsage = FALSE
  Home = 1
  Desks <- MCDesks
SPECIFICATION Spec
INVARIANTS
  EarnedRoute
  ChosenFirst
  LadderFollowed
  DevelopmentFresh
  NoOverlap
CHECK_DEADLOCK FALSE
