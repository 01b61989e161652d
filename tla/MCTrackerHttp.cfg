CONSTANTS
  c1 = c1
  c2 = c2
  b1 = b1
  b2 = b2
  u1 = u1
  u2 = u2
  p1 = p1
  p2 = p2
  Conns <- TwoConns
  Browsers <- TwoBrowsers
  Users <- TwoUsers
  Passwords <- TwoPasswords
  GetPaths <- Paths
  Forms <- AllForms
  Registered <- FirstRegistered
  MaxRequests = 3
  MaxRestarts = 1
SPECIFICATION Spec
INVARIANTS AccountsSound SessionsHold
PROPERTY OnlyLoginsMoveCookies
SYMMETRY Alike
