CONSTANTS
  ann = ann
  bob = bob
  home = home
  away = away
  movie = movie
  note = note
  about = about
  likes = likes
  a = a
  b = b
  h = h
  d = d
  e1 = e1
  e2 = e2
  e3 = e3
  e4 = e4
  NodeIds = {a, b, h, d}
  EdgeIds = {e1, e2, e3, e4}
  Spaces = {home, away}
  Principals = {ann, bob}
  Types = {movie, note}
  NoType = NoType
  Predicates = {about, likes}
  DenyTypes = {note}
  NodeGuard <- MCNodeGuard
  EdgeGuard <- MCEdgeGuard
  Asserted <- MCAsserted
  Callers <- MCCallers
  Queries <- MCQueries
  TextQueries <- MCTextQueries
  MaxWrites = 2
SPECIFICATION ReadsSpec
INVARIANTS TraversalTypeOK NothingHidden NothingBridged CompleteWhenStill LinksWhatItReads AnswersReadable WholeWhenStill FusionKeepsTheBest
CHECK_DEADLOCK FALSE
