SPECIFICATION Spec
CONSTANTS
  Sweepers = {"p"}
  Cells = {"c"}
  MaxEdits = 1
  MaxSnags = 0
  ClassOf <- ClassEdited
INVARIANT PassedRanOnDisk
