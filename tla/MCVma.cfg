SPECIFICATION Spec
CONSTANTS
  Task = {p, q}
  None = None
  PageSize = 2
  FirstPage = 1
  SpaceLength = 30
  TrampolinePage = 2
  TaskPointer = 4
  StackPages = 4
  BrkPage = 13
  BrkPages = 2
  SlackPages = 1
  Programs <- TwoPrograms
  Increments <- SomeIncrements
  MaxHeap = 7
  MaxEnd = 38
SYMMETRY Symmetry
   
PROPERTY ForkCopies
CHECK_DEADLOCK FALSE
