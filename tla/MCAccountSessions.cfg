SPECIFICATION Spec
CONSTANTS
  root = root
  chief = chief
  ana = ana
  p1 = p1
  p2 = p2
  boss = boss
  plain = plain
  Users = {u1, u2, u3}
  Names = {root, chief, ana}
  Passwords = {p1, p2}
  DisplayNames = {boss, plain}
  Tokens = {t1, t2}
  Configurations <- Renamed
  SessionTtl = 1
  MaxTime = 2
  NoUser = NoUser
  NoName = NoName
  NoPassword = NoPassword
  NoDisplayName = NoDisplayName
SYMMETRY Symmetry
INVARIANTS
  TypeOK
  NamesMatchDatabase
  AdministratorAsConfigured
  SessionsFollowCredentials
PROPERTY SessionsAreKept
