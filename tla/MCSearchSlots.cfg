SPECIFICATION FairSlotSpec
CONSTANTS
  Worker = {t1, t2, t3, t4}
  Hw = 0
  Option = 2
  SizeRange = 16
INVARIANTS
  SlotTypeOK SlotsConserved PeakRight
PROPERTIES
  SlotsComeBack
