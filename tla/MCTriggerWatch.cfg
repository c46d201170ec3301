SPECIFICATION Spec
CONSTANT
  Upstreams = {u1, u2, u3}
SYMMETRY UpstreamSymmetry
INVARIANTS
  AnswersWhenKnown
