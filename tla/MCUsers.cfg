CONSTANTS
  Ids = {u1, u2, u3}
  ann = ann
  root = root
  annMail = annMail
  rootMail = rootMail
  p1 = p1
  p2 = p2
  Words = {ann, root, annMail, rootMail}
  Empty = Empty
  Passwords = {p1, p2}
  NoPassword = NoPassword
  Providers = {"github", "google"}
  Requests = {r1, r2}
  Main = Main
  Forms <- MCForms
  Accounts <- MCAccounts
  Configs <- MCConfigs
  DBFaults = TRUE
SPECIFICATION Spec
SYMMETRY Symmetry
INVARIANTS
  TypeOK
  PasswordsWork
  AdminsWereConfigured
  SessionsForTheRightUser
PROPERTY StrangersAreNew
