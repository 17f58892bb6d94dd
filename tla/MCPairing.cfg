\* Two users, one of them a super user; a lost connection and a failed request;
\* or one user, a second code and a factory reset.
CONSTANTS
  Users = {u1, u2}
  SuperUsers = {u2}
  Nobody = Nobody
  NoCode = NoCode
  MaxCodes = 2
  MaxDrops = 1
  MaxFaults = 1
  MaxResets = 1
  MaxInbox = 1
SPECIFICATION MCSpec
INVARIANTS OwnedHasNoCode PairedAgentIsOwned
PROPERTIES OwnerNeverSwitches UncrossedClaimLasts OwnedAgentLearns DisplayedCodeWorks
CHECK_DEADLOCK FALSE
