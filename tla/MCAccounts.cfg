CONSTANTS
  admin = admin
  ann = ann
  p = p
  q = q
  None = None
  Threads = {t1, t2}
  Usernames = {admin, ann}
  AdminName = admin
  Passwords = {p, q}
  Edits <- MCEdits
  MaxAccounts = 2
  MaxResets = 1
  MaxRequests = 5
SPECIFICATION Spec
CHECK_DEADLOCK FALSE
INVARIANTS SuperRemains EnvNeverOverrides ResetsSettled
