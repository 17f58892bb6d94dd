\* Two administrators who have signed in, two requests; the script may only make one more.
CONSTANTS
  x = x
  y = y
  adams = adams
  baker = baker
  Browsers = {x, y}
  Users = {adams, baker}
  Administrators = {adams, baker}
  Secrets = {p, q}
  NoUser = NoUser
  SignedIn <- MCSignedIn
  PublicRegistration = FALSE
  ScriptRoles = {"super"}
  MaxSubmits = 2
SPECIFICATION AccountsSpec
INVARIANTS LastAdministratorStays
CHECK_DEADLOCK FALSE
