CONSTANTS
  Rounds = {r1, r2}
  Commands = {m1}
  Daemon = Daemon
  Nobody = Nobody
  Lists = 2
  MaxServers = 2
  MaxCrashes = 1
SPECIFICATION FairSpec
INVARIANTS PinsAreSigned RunsVerifiedBuild OneServer
PROPERTY CatchesUp
CHECK_DEADLOCK FALSE
