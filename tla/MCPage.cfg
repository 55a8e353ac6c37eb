SPECIFICATION PageSpec
CONSTANTS
  Points <- MCPoints
  Matrices <- MCMatrices
  Shifts <- MCShifts
  Id <- MCId
  Mul <- MCMul
  Inv <- MCInv
  Act <- MCAct
  Shift <- MCShift
  Zooms = {2}
  Zoom <- MCZoom
  Unset = Unset
  Axes <- MCAxes
  Tools <- MCTools
  NoTool = NoTool
  Widths <- MCWidths
  FirstPlace = 1
  FirstWidth = 6
  ButtonWidth = 2
  Margin = 1
  Gestures <- MCUsers
  Losses = 1
  Files <- MCFiles
  Scripts <- MCScripts
  Waits <- MCWaits
  Registers <- MCRegisters
  FirstTypes = {"lua_event", "python2event"}
  Troubles = 1
  Clicks = 1
  Nodes = {"start1", "timer", "lua", "web"}
  Reads <- MCReads
  Fields <- MCFields
  Live = {"timer", "lua", "start1"}
  OwnName = {"start1"}
  Switch = "nodeon"
  Obeys = {"timer", "lua"}
  Values = {1, 2}
  Blank = 0
  Default = 1
  No = 2
  Steps = 5
  Lost = 1
  Alarms = {"a", "b"}
  FirstDates <- MCFirstDates
  Months = {0, 1, 3}
  LastDay <- MCLastDay
  Picks = {1, 28, 31}
  Turns = 6
  Dirs <- MCDirs
  Stored <- MCStored
  MaxPath = 5
  Browsing = 7
INVARIANTS
  PageTypeOK
  RememberedInverse
  ServerHasCanvas
  
  EveryTypeHasButton
  FormReadByOwner
  ServerHasForms
  PictureSaysParams
  AlarmDates
  ChosenAsShown
PROPERTIES
  PanFollowsCursor
  KindBeforeScript
  PageStarts
CHECK_DEADLOCK FALSE
