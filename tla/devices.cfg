CONSTANTS
  NrRows = 2
  LedsPerRow = 1
  Colours <- MCColours
  Levels8291 = {0, 50}
  Programs = {"p", "q"}
  MaxStores8291 = 3
  ColoursLb = {"red", "white"}
  LevelsLb = {0, 50, 100}
  MaxStoresLb = 3
  NrKeys = 2
  ModeColours <- MCModeColours
  LettersColours <- MCLettersColours
  Levels829x = {0, 10}
  Programs829x = {"p", "q"}
  MaxEvents829x = 3
  Levels8297 = {0, 255}
  MaxStores8297 = 4
  Colours04 = {"red", "white"}
  Levels04 = {0, 5, 10}
  Programs04 = {"p", "q"}
  MaxStores04 = 5
  ProgramsIo = {"p", "q"}
  MaxCalls = 3
SPECIFICATION Spec
INVARIANTS
  KeyboardShowsFrame
  LightBarShowsLed
  RgbShowsLeds
  Nb04ShowsState
  OneAdvancePerPress
  TdpAsAsked
  WebcamAsAsked
CHECK_DEADLOCK FALSE
