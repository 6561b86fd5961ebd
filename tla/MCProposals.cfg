CONSTANTS
  Writers = {kate, boss}
  kate = kate
  boss = boss
  s1 = s1
  k1 = k1
  k2 = k2
  held = held
  link = link
  d1 = d1
  d2 = d2
  d3 = d3
  Spaces = {s1}
  Keys = {k1, k2}
  EntityIds = {1, 2}
  EdgeIds = {1}
  Predicates = {"about"}
  PropNames = {"name"}
  x = x
  PropValues = {x}
  JsonNull = JsonNull
  NilProps = NilProps
  Vectors = {1}
  NoVector = NoVector
  Similarity <- MCSimilarity
  AutoMerge = 2
  Review = 1
  NoKey = NoKey
  ck = ck
  CallerKeys = {ck}
  Candidates <- MCCandidates
  EdgeInputs <- MCEdges
  MergeInputs <- MCMerges
  MaxFacts = 3
  ProposalIds = {held, link}
  Intent <- MCIntent
  Calls = {d1, d2, d3}
  CanWrite <- MCAccess
  CanRead <- MCAccess
  CanApprove = {d1, d2}
  Embedder = 1
  NoSubject = NoSubject
SYMMETRY CallSymmetry
SPECIFICATION GovernedSpec
INVARIANTS ProposalsTypeOK ApprovalNamesWhatItWrote
PROPERTIES KeepsPromise
CHECK_DEADLOCK FALSE
