CONSTANTS
  s1 = s1
  s2 = s2
  Alice = Alice
  Shared = Shared
  NoName = NoName
  NoSecret = NoSecret
  Secrets = {s1, s2}
  Names = {Alice, Shared}
  Configs <- SameNameOrSimple
  Requests = {r1}
  Window = 2
  MaxClock = 4
  MaxCount = 3
SPECIFICATION ClaimSpec
INVARIANT AClaimIsKept
