CONSTANTS
  N = 3
  MaxCount = 2
  AreaOf <- Areas
  Content = {0, 1}
  Published = 0
  MaxPpaEdits = 6
  Nothing = Nothing
  MaxForms = 4
INIT Init
NEXT Next
INVARIANT AreaIsFlat PassIsComparable KeyNamesRun NeverSubstituted
CHECK_DEADLOCK FALSE
