SPECIFICATION FairSpec
CONSTANTS
  Paths = {p1, p2}
  NoPath = nopath
  Configured = p1
  Autodetect = TRUE
  Period = 2
  NumAsked = 2
INVARIANT TypeOK
PROPERTIES Recovers GoneIsShown LoginRenewed DiagnosticsEnd
