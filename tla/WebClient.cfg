\* Three requests of a page, with any answers and any order.
CONSTANTS
  Requests = {r1, r2, r3}
SPECIFICATION ClientSpec
CHECK_DEADLOCK FALSE
INVARIANTS SettledOnce NoDoubleSubmit OneDialog
PROPERTY MaskLifted
