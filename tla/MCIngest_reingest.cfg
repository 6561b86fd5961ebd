CONSTANTS
  Writers = {kate, pete, ingest}
  kate = kate
  pete = pete
  ingest = ingest
  IngestWriter = ingest
  s1 = s1
  s2 = s2
  yt = yt
  ch = ch
  wk = wk
  tm = tm
  cl = cl
  r1 = r1
  r2 = r2
  Runs = {r1, r2}
  RequestSpace <- InOneSpace
  Fetched <- MCFetched
  Anchor <- MCAnchor
  Tmdb = tm
  Describe <- MCDescribe
  Transcript = y
  NoEntity = 0
  MaxAlone = 4
  MaxBeside = 1
  Spaces = {s1, s2}
  Keys = {yt, ch, wk, tm, cl}
  EntityIds = {1, 2, 3, 4, 5, 6, 7}
  EdgeIds = {1, 2, 3, 4, 5}
  Predicates = {"about", "author", "isPartOf"}
  PropNames = {"name", "transcript"}
  x = x
  y = y
  PropValues = {x, y}
  JsonNull = JsonNull
  NilProps = NilProps
  Vectors = {}
  NoVector = NoVector
  Similarity <- MCSimilarity
  AutoMerge = 2
  Review = 1
  NoKey = NoKey
  CallerKeys <- MCCallerKeys
  Candidates <- TmdbCandidates
  EdgeInputs <- MCEdges
  MergeInputs <- MCMerges
  MaxFacts = 20
SYMMETRY RunAndWriterSymmetry
CONSTRAINT IdsInOrder
CHECK_DEADLOCK FALSE
SPECIFICATION IngestSpec
INVARIANTS UndisturbedFinishes
