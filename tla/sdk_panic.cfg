SPECIFICATION Spec
CONSTANTS
  Call = {c1}
PROPERTIES
  PanicsAnswered
