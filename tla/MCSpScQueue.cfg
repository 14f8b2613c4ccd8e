SPECIFICATION FairSpec
CONSTANTS
  Items = {a, b}
  NoItem = NoItem
  Size = 4
INVARIANTS SlotDiscipline NoLostWakeup
PROPERTIES ImplementsFifo AcceptedIsWorked JoinReturns
