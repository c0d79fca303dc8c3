CONSTANTS
  Width = 2
  NumBytes = 3
  MayCrash = TRUE
SPECIFICATION Spec
INVARIANTS BitmapInv
PROPERTIES ImplementsBits CommitSavesBits
