SPECIFICATION Spec
CONSTANTS
  l1 = l1  l2 = l2  l3 = l3  l4 = l4
  r1 = r1  r2 = r2
  None = None
  Names = {"admin", "teacher", "ann"}
  Logins = {l1, l2, l3, l4}
  LoginAs <- LoginForms
  Regs = {r1}
  Form <- RegForms
  LastSecond = 1
INVARIANTS SessionsAreOwn SessionsExpire SessionsHaveRoles RolesAreGranted
PROPERTY ImplementsAccounts
SYMMETRY Twins
CHECK_DEADLOCK FALSE
