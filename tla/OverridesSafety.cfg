SPECIFICATION Spec
CONSTANTS
  c1 = c1
  c2 = c2
  s1 = s1
  s2 = s2
  v1 = v1
  v2 = v2
  u1 = u1
  u2 = u2
  Context = {c1, c2}
  UrlOf <- Urls
  State = {s1, s2}
  VersionsOf <- Versions
  Version = {v1, v2}
  Original = Original
INVARIANTS
  OverridesNest
  StateHeld
PROPERTIES
  OriginalSpared
