SPECIFICATION Spec
CONSTANTS
  PANEL_WIDTH = 4
  PANEL_HEIGHT = 3
  Displays <- MCDisplays
  FbSize <- MCFbSize
  MaxFaults = 1
  MaxRestarts = 1
INVARIANTS PanelProtocol PanelConfigured HardwareReady ShownAsAsked NeverTorn
PROPERTIES RailsExact ScreenComesUp
CHECK_DEADLOCK FALSE
