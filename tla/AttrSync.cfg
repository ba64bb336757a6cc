SPECIFICATION Spec
CONSTANTS
  Attr = {a1, a2}
  a1 = a1
  a2 = a2
  New = New
  None = None
  MayFail = {"getacl", "setacl", "list", "getattr", "setattr", "lstat", "chmod", "lchown", "lutimes"}
  MaxChanges = 2
INVARIANTS
  TypeOK
  SyncedIsImage
  StatIsSnapshot
  TimeComesLast
