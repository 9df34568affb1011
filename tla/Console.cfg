SPECIFICATION Spec
CONSTANTS
  NConf = 2
  ScrollHeight = 6
  Slack = 2
  Cards <- MCCards
  FONT_WIDTH = 2
  FONT_HEIGHT = 2
  FONT_CHARS = 96
  RunMax = 3
  Vec = 4
  Scale = 2
  ConW = 7
  FooterSize = 5
  Fonts <- MCFonts
  Text <- MCText
  Bats <- MCBats
  Junks <- MCJunks
  Builds <- MCBuilds
  Directives <- MCDirectives
  MaxPrints = 4
  TtyW = 3
  TtyH = 2
  MaxRounds = 5
  Defs <- MCDefs
INVARIANTS OutputKept MenuReadable
CHECK_DEADLOCK FALSE
