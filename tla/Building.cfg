SPECIFICATION BuildingSpec
CONSTANTS
  g1 = g1
  g2 = g2
  g3 = g3
  m1 = m1
  m2 = m2
  t1 = t1
  t2 = t2
  t3 = t3
  Guest = {g1, g2, g3}
  Proc = {p1, p2}
  Mesh = {m1, m2}
  MeshOf <- MCMeshOf
  Subnets = 1
  Paths = 2
  Race = FALSE
  MaxFault = 1
  MaxDown = 1
  None = None
  Job = {b1, b2}
  Name = {n}
  Old = Old
  Builders = {1}
  MaxBuildFault = 2
  Tiles <- MCTiles
  Workers = 2
  KeepRunning = FALSE
  Tools = {"kldload-seal", "virt-sysprep"}
  Count = 2
  MaxPoll = 4
  MaxTimes = 2
  MaxOther = 1
INVARIANTS MutualExclusion HandedOutOnce NothingStuck BuiltIsVerified DataInside FleetIsSound
PROPERTIES BuildIsAllOrNothing DestroyedIsGone
CHECK_DEADLOCK FALSE
