SPECIFICATION StoresSpec
CONSTANTS
  Bytes = {a, b}
  Capacity = 3
  MaxLen = 4
  Tasks = {t1}
  Readers = {r1, r2}
  Texts <- MCTexts
  InitLength = 1
  MaxLength = 2
  Part = 1
  Blocks = {1, 2, 3}
INVARIANTS HeadFollows MemoryIsSafe SetIsStored ReadIsWhole
PROPERTY IsFifo
CONSTRAINT NoRace
