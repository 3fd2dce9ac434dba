SPECIFICATION Spec
CONSTANTS
  ReportsHangs = FALSE
  MaxHangs = 2
INVARIANT RecoveredHangNotFatal
