\* A ring of four slots and two values, in storage of any of 32 layouts.
\* A ring that was destroyed, or never made, does nothing more.
CONSTANTS
  Capacity = 4
  Value = {v1, v2}
  Raw = Raw
  SizeLimit = 16
  Sizes <- FewSizes
SPECIFICATION FairMem
INVARIANT TypeOK
INVARIANT LiveWindow
INVARIANT RoomUnlessWrapped
INVARIANT NoLeak
INVARIANT ObjectsInStorage
PROPERTY NoOverwrite
PROPERTY AllDestroyed
PROPERTY ImplementsFifo
