SPECIFICATION Spec
CONSTANTS
  Batches <- MCBatches
  Senders <- MCSenders
  Messages <- MCMessages
  Typed <- MCTyped
  Saved <- MCSaved
  Keys <- MCKeys
  MaxSteps = 2
  Lower <- MCLower
  Digits = {"7", "8", "9"}
  MaxCells = 2
  MaxCompared = 3
  MaxActs = 3
  NotYet = NotYet
  Missing = Missing
INVARIANTS
  TableIsCurrent
  OnlyComparedValues
  NoFlashPutBack
  FieldsTellApart
  LabelsTellApart
PROPERTIES
  FlashTellsNews
  AddsTheDevice
CHECK_DEADLOCK FALSE
