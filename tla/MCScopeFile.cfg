SPECIFICATION ScopeSpec
CONSTANTS
  Lines <- ShippedLines
  MaxLines = 9
  Targets = {}
  Addresses = {1}
  Networks <- Net
INVARIANT AcceptsTheDocumented
CHECK_DEADLOCK FALSE
