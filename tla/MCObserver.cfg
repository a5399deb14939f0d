SPECIFICATION ObserverSpec
SYMMETRY Alike
CONSTANTS
  None = None
  Pids = {"p1", "p2"}
  Bundles = {"browser", "stranger"}
  Allowed = {"browser"}
  BundleOf <- MCBundleOf
  Browsers = {"browser"}
  Pinned = {"browser"}
  Windows = {"public", "private"}
  WindowOwner <- MCWindowOwner
  PrivateWindows = {"private"}
  Elements = {"search", "diary", "password"}
  RoleOf <- MCRoleOf
  WindowOf <- MCWindowOf
  Pages = {news, mail}
  AttachAttempts = 2
  ProbeAttempts = 1
  BrowserWindowsMax = 1
  AppAnswers <- TwoMissing
  MaxNews = 3
INVARIANTS
  EditsAreRead
  SwitchesAreUndone
  WithheldStaysWithheld
PROPERTIES
  NothingFollowsTheEnd
CHECK_DEADLOCK FALSE
