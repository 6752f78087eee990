SPECIFICATION Spec
CHECK_DEADLOCK FALSE
CONSTANTS
  FxMaxStarts = 2
  FxMaxLinks = 2
  LbMaxOpens = 2
  LbMaxMoves = 2
  LbHeight <- HeightLb
  LbWidth <- WidthLb
  LbAnimateCaption = TRUE
  NsItems = 3
  NsMaxTimers = 4
  ImItems = 2
  ImMaxClicks = 3
  AjMaxSends = 3
  AjMaxLinks = 2
  DrPlaces <- PlacesDr
  DrMaxPresses = 2
  AcSections = 3
  AcMaxAdded = 1
  TiElements = {1, 2, 3}
  TiInside <- InsideTi
  GrInstances = {1, 2, 3}
  GrMaxHandlers = 2
  DcMaxConnects = 3
  DcMaxFires = 2
  DcMaxReplaces = 1
  XhMaxRequests = 2
  DfMaxPlays = 3
  DfMaxRepeats = 1
  LdMaxFails = 1
  LdMaxScripts = 2
  DqMaxMoves = 2
  GnDays <- DaysGn
  GnToday = 40
  GnMaxClicks = 3
  DtMaxClicks = 3
  TpMaxClicks = 2
  TpMaxLoads = 3
  TpMaxPosts = 1
  LeSites <- SitesLe
  LeLimit = 2
  DmStarts = 3
INVARIANTS
  PageFx
  PageLb
  PageAj
  PageDr
  PageDc
  PageXh
  PageDf
  PageDj
  PageQg
  PageLe
  PageDm
  PageTp
  PageParts
