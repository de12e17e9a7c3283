SPECIFICATION Spec
CONSTANTS
  g1 = g1 g2 = g2 k1 = k1 k2 = k2
  Features = {g1, g2}
  Sketches = {k1, k2}
  Dimensions = {d1, d2}
  NativeId <- MCNativeId
  FeatureTokens = {f1, f2}
  SketchTokens = {s1, s2}
  DimensionTokens = {m1, m2}
  Faces = {a1}
  Edges = {e1, e2}
  Geometries <- MCGeometries
  a1 = a1 e1 = e1 e2 = e2
  Configurations = {Default, Other}
  Tokens = {t1, t2, t3}
  MaxStamp = 1
  NoScope = NoScope
  NoToken = NoToken
  NoShape = NoShape
  MaxCalls = 3
  MaxChanges = 2
SYMMETRY Symmetry
INVARIANTS TablesAgree FilletsTheNamedEdge
PROPERTY TokensKeepTheirMeaning
