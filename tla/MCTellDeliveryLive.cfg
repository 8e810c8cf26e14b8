CONSTANTS
  Ids <- OneId
  Panes <- MCPanes
  PaneOf <- OnePaneOf
  Rejecting = {}
  Claude = {"p"}
  GuiMayStop = FALSE
  SlowDraw = TRUE
SPECIFICATION FairSpec
PROPERTY EventuallyFinal
