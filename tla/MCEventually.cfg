SPECIFICATION Spec
CONSTANTS a = a b = b c = c
PROPERTIES EverythingSettles
CHECK_DEADLOCK FALSE
