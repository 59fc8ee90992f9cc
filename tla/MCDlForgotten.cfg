SPECIFICATION Spec
CONSTANTS
  SetupSizes = {16}
  SduSizes = {9}
  Capacity = 9
INVARIANT NothingForgotten
