\* The code of a new port is its country.
CONSTANTS
  Strings = {"country", "code"}
  Lists = {"alias"}
  Vals = {0, 1}
  Zero = 0
  Nil = Nil
  Calls = {c1}
  HTTPRequests <- AllHTTP
  Slugs = {"ALPHA", "00002", "1", "x"}
  PortSlugs = {"ALPHA", "00002"}
  PathSlugs = {"ALPHA"}
  InRange = {0, 1}
  None = None
  MaxId = 2
  Number <- MCNumber
SPECIFICATION Spec
INVARIANT PostShowsPosted
CHECK_DEADLOCK FALSE
