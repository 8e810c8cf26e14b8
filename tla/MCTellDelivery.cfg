CONSTANTS
  Ids <- MCIds
  Panes <- MCPanes
  PaneOf <- MCPaneOf
  Rejecting = {2}
  Claude = {"p"}
  GuiMayStop = TRUE
  SlowDraw = FALSE
SPECIFICATION Spec
INVARIANTS CleanTurn RightConversation HoldHasOwner DraftSurvives AtMostOnceSent HonestReceipt
VIEW MCView
