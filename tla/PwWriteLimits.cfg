SPECIFICATION CutSpec
CONSTANTS
  Processes = {p1, p2}
  alice = alice
  bob = bob
  Readers = {alice, bob}
  Sessions = {s1, s2, s3}
  Owner <- OwnerOf
  Intents = {i1, i2, i3}
  NoIntent = NoIntent
  Shared = Shared
  Limits <- SmallLimits
  Bursts <- SmallBursts
  Window = 3
  SessionCap = 1
  ReaderCap = 2
  Initial = 2
  MaxInitial = 2
  Fast = 1
  Slow = 2
  TTL = 2
  MaxClock = 6
SYMMETRY Symmetry
CHECK_DEADLOCK FALSE
INVARIANTS TypeOK WindowKept BurstKept CapsKept StatusPaced ChargedOnce
