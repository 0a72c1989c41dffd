CONSTANTS
  \* Two tabs, one of which pays while the other adds an item.
  Tab = {a, b}
  Item = {c, d}
  Form = {"home"}
  NoForm = "none"
  MaxAttempts = 1
  MaxEdits = 3
SPECIFICATION Spec
PROPERTIES AdditionsAreKept
CHECK_DEADLOCK FALSE
