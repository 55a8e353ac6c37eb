SPECIFICATION CanvasSpec
CONSTANTS
  Points <- MCPoints
  Matrices <- MCMatrices
  Shifts <- MCShifts
  Id <- MCId
  Mul <- MCMul
  Inv <- MCInv
  Act <- MCAct
  Shift <- MCShift
  Zooms = {2}
  Zoom <- MCZoom
  Unset = Unset
  Axes <- MCAxes
  Tools <- MCTools
  NoTool = NoTool
  Widths <- MCWidths
  FirstPlace = 1
  FirstWidth = 6
  ButtonWidth = 2
  Margin = 1
  Gestures <- MCUsers
  Losses = 1
INVARIANT RefreshSyncs
CHECK_DEADLOCK FALSE
