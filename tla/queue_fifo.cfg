SPECIFICATION Spec
CONSTANTS
  Item = {a, b}
  Length = 3
  NoItem = NoItem
INVARIANTS TypeOK IndicesAgree
PROPERTY IsFifo
