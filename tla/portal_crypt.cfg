SPECIFICATION Spec
CONSTANTS
  l1 = l1  l2 = l2  l3 = l3  l4 = l4
  r1 = r1  r2 = r2
  None = None
  Names = {"admin", "teacher", "ann", "bob"}
  Logins = {l1}
  LoginAs <- LoginForms
  Regs = {r1, r2}
  Form <- RegForms
  LastSecond = 0
INVARIANTS PasswordsAreOwn
CHECK_DEADLOCK FALSE
