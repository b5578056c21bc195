SPECIFICATION LiveSpec
CONSTANTS
  Handler = {h1, h2}
  Worker = w
  User = {w, f}
  Limits <- DaemonLimits
  Capacity = 1
INVARIANTS TypeOK TokensUsable NoTokenReuse CleanExit
PROPERTIES StaysLoggedIn LoginAnnounced ShutdownEnds
