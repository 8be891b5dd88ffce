SPECIFICATION Spec
CONSTANTS
  ann = ann  mo = mo  g = g
  Users = {ann, mo}
  Groups = {g}
  None = None
  Requests = {r1}
  Kinds = {"groups"}
  Failing = {}
  Asked = {}
  FirstGroups <- InGroup
  FirstRoles <- AdminAndManager
  MaxCalls = 3
  Envs = {"live"}
  Fields = {x, y}
  DefaultExpiry = 1
  Deciders = {d1, d2}
  Callers = {c1}
  FirstGrants <- SomeGrants
  MaxGrants = 3
  MaxTime = 1
PROPERTY SubjectIsWarned
