SPECIFICATION Spec
CONSTANTS
  Colours <- MCColours
  Lightness <- MCLightness
  MaxPixels = 18
  Sides = {1, 3, 6, 20}
INVARIANTS
  TypeOK
  OnlyThinImagesFail
  MirroredLight
  HuesTurn
CHECK_DEADLOCK FALSE
