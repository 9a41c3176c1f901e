SPECIFICATION Spec
CONSTANTS
  early = early
  late = late
  h1 = h1
  h2 = h2
  NoId = NoId
  Nobody = Nobody
  Id = {early, late}
  Handler = {h1, h2}
  Stamp <- Stamps
  Window = 2
  Ttl = 4
  MaxTime = 10
INVARIANT NoReplay
SYMMETRY HandlerSymmetry
