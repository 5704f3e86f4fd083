CONSTANTS
  h1 = h1
  h2 = h2
  s1 = s1
  s2 = s2
  t1 = t1
  t2 = t2
  Hosts = {h1, h2}
  Services = {s1}
  Tasks = {t1}
  None = none
  Requests = {r1, r2}
SPECIFICATION Spec
PROPERTIES DisableRefusedInUse
