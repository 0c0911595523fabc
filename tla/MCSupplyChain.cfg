SPECIFICATION Spec
CONSTANTS
  MaxImages = 3
  MaxMakes = 2
  MaxEvents = 2
  Pins <- MCPins
  Disclosures <- MCDisclosures
  Compared <- MCCompared
INVARIANTS
  GreenIsOneImage
  BundleIsChecked
  NeverDowngrades
  OrderIsDebians
CHECK_DEADLOCK FALSE
