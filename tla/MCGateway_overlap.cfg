\* Two requests at once, with everything that can happen to them.
CONSTANTS
  Strings = {"country", "code"}
  Lists = {"alias"}
  Vals = {0, 1}
  Zero = 0
  Nil = Nil
  Calls = {c1, c2}
  HTTPRequests <- OverlapHTTP
  Slugs = {"ALPHA", "00002", "1", "x"}
  PortSlugs = {"ALPHA", "00002"}
  PathSlugs = {"ALPHA"}
  InRange = {0, 1}
  None = None
  MaxId = 2
  Number <- MCNumber
SPECIFICATION FairSpec
INVARIANTS TypeOK NothingPanics OkIsFinal ShownIdsStayTrue ShowsWhatWasSent
PROPERTIES RequestsAnswered CallsEnd
CHECK_DEADLOCK FALSE
