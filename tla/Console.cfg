SPECIFICATION MCSpec
CONSTANTS
  a = a
  b = b
  d = d
  Nobody = Nobody
  Pages = {w1, w2}
  Shells = {s}
  Manual = {a, b}
  Provided = {d}
  Patterns = {r}
  Start <- MCStart
  Commands = 2
INVARIANT ConsoleTypeOK
PROPERTIES RequestsAnswered RendersWhole ActsOnNodeShown
