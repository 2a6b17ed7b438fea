CONSTANTS
  s1 = s1
  s2 = s2
  Alice = Alice
  Shared = Shared
  NoName = NoName
  NoSecret = NoSecret
  Secrets = {s1, s2}
  Names = {Alice, Shared}
  Configs <- SharedFree
  Requests = {r1}
  Window = 1
  MaxClock = 1
  MaxCount = 1
  Watcher = Watcher
  Buttons = {b1}
  Broken = Broken
SPECIFICATION FairSpec
INVARIANTS TypeOK InStep
PROPERTIES ImplementsAuth Converges
