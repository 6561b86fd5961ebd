CONSTANTS
  Writers = {kate, ingest}
  kate = kate
  ingest = ingest
  s1 = s1
  s2 = s2
  k1 = k1
  k2 = k2
  Spaces = {s1, s2}
  Keys = {k1, k2}
  EntityIds = {1, 2, 3}
  EdgeIds = {1, 2}
  Predicates = {"about"}
  PropNames = {"name", "year"}
  x = x
  y = y
  PropValues = {x, y}
  JsonNull = JsonNull
  NilProps = NilProps
  Vectors = {1, 2, 3}
  NoVector = NoVector
  Similarity <- MCSimilarity
  AutoMerge = 2
  Review = 1
  NoKey = NoKey
  CallerKeys = {"again"}
  Candidates <- TwoSpaceCandidates
  EdgeInputs <- NoEdges
  MergeInputs <- NoMerges
  MaxFacts = 2
SYMMETRY WriterSymmetry
SPECIFICATION Spec
INVARIANTS DuplicateStaysInSpace
