SPECIFICATION Spec
CONSTANTS
  Chips <- MCChips
  Clks = {360, 552, 555, 672, 768}
  MayStick = TRUE
INVARIANTS SizeRight NoAliases LayoutSound TimingsCover
CHECK_DEADLOCK FALSE
