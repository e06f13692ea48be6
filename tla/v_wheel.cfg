SPECIFICATION Spec
CONSTANTS
  Task = {a, b, c}
  LinkLen = 2
  Nesting = TRUE
  MaxTimeout = 6
PROPERTIES ImplementsCalendar
