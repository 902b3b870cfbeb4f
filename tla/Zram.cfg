SPECIFICATION Spec
CONSTANTS
  zeros = zeros
  text = text
  noisy = noisy
  random = random
  Pages <- ZramPages
  CompLen <- ZramCompLen
  MaxPages = 3
  PageSize = 8
  Margin = 2
  Buffers = {1, 2, 3}
  MaxOps = 4
INVARIANTS
  StatsExact
  HandlesKeepTheirPage
