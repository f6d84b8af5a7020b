SPECIFICATION FairSpec
CONSTANTS
  Ordinary = {"audio"}
  Write = "write"
  Read = "read"
  Manage = "manage"
  Post = "post"
  Sdks = {"L", "M", "R", "T"}
  Manifests <- MCManifests
  MaxLaunches = 2
  MaxRecreations = 1
  MaxSettings = 1
CHECK_DEADLOCK FALSE
INVARIANTS TypeOK OneOutcome GrantsAreTold
PROPERTIES DenialIsTrue GrantedIsTrue FlowEnds
