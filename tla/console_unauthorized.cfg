CONSTANTS
  r1 = r1
  r2 = r2
  q1 = q1
  q2 = q2
  t1 = t1
  Replicas = {r1}
  NoReplica = none
  Skew <- NoSkew
  Requests = {q1, q2}
  NoToken = noToken
  Passwords = {"p1", "p2"}
  Unset = "unset"
  Configs <- OneConfig
  Never = never
  TTL = 1
  MaxNow = 2
  MaxFaults = 0
  Tabs = {t1}
  Of <- OneTab
SPECIFICATION Spec
PROPERTIES UnauthorizedShowsLogin
