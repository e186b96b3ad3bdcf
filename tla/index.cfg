SPECIFICATION FairIndexSpec
CONSTANTS
  f1 = f1
  f2 = f2
  f3 = f3
  f4 = f4
  h1 = h1
  h2 = h2
  File = {f1, f2, f3, f4}
  Lang = {"python", "rust", "go"}
  LangOf <- MCLangOf
  Manual = {"rust"}
  Stdio = {"python"}
  Hovers = {h1, h2}
  FileSlots = 2
  HoverSlots = 2
  MaxCancels = 1
INVARIANTS NothingLeftRunning PrintedIsCertified
PROPERTY CommandEnds
CHECK_DEADLOCK FALSE
