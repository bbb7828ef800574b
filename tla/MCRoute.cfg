SPECIFICATION RouteSpec
CONSTANTS
  Chars <- MCChars
  Ups = 2
  Lines <- MCLines
  Args <- MCArgs
  Children <- MCChildren
  MaxLines = 3
  MaxLabel = 2
CHECK_DEADLOCK FALSE
INVARIANTS
  RoutedToFirst
  RoutedWithReason
