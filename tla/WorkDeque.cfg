SPECIFICATION Spec
CONSTANTS
  Torn = Torn
  Thieves = {w1, w2}
  Size = 3
  Rounds = 3
  TagMod = 8
SYMMETRY Symmetry
INVARIANTS
    ExactlyOnce NoTornTask
