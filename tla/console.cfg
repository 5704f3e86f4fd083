CONSTANTS
  r1 = r1
  r2 = r2
  q1 = q1
  q2 = q2
  t1 = t1
  Replicas = {r1, r2}
  NoReplica = none
  Skew <- AheadSkew
  Requests = {q1}
  NoToken = noToken
  Passwords = {"p1", "p2"}
  Unset = "unset"
  Configs <- TwoConfigs
  Never = never
  TTL = 1
  MaxNow = 2
  MaxFaults = 1
  Tabs = {t1}
  Of <- OneTab
SPECIFICATION FairSpec
INVARIANTS RaceIsNoError IssuedIsAudited NoneCutShort
PROPERTIES ImplementsAccount AccessEnds NothingHangs
