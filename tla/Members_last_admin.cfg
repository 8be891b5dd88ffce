SPECIFICATION MembersSpec
CONSTANTS
  ann = ann  mo = mo  joiner = joiner  g = g
  Users = {ann, mo, joiner}
  Groups = {g}
  None = None
  Requests = {r1, r2}
  Kinds = {"remove"}
  Failing = {}
  FirstRoles <- TwoAdminsOneNew
  Asked = {"member"}
  FirstGroups <- Both
  MaxCalls = 3
INVARIANT SomeAdmin
