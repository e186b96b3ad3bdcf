SPECIFICATION MCSpec
CONSTANTS
  py = py
  xml = xml
  t1 = t1
  t2 = t2
  File = {py, xml}
  Python = {py}
  Xml = {xml}
  Thread = {t1, t2}
  Main = t1
  Version = {"w1", "w2"}
  Dialects = {"d1", "d2"}
  Unread = "unread"
  MaxFaults = 3
INVARIANTS ReviewIsComplete CacheNeverLies OneParserPerReview
PROPERTY ReviewEnds
CHECK_DEADLOCK FALSE
