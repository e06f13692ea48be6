SPECIFICATION Spec
CONSTANTS
  Task = {a, b, c}
  LinkLen = 2
  Nesting = FALSE
  MaxTimeout = 6
PROPERTIES ImplementsCalendar
