SPECIFICATION Spec
CONSTANTS
  Key = {1, 2, 3}
  Value = {v, w}
  Address = {1, 2, 3, 4}
  root = root
  endnode = endnode
  nullptr = nullptr
  maxL = 2
  PoolSize = 1
  Garbage = Garbage
INVARIANTS LevelsExact NodesOwned
PROPERTIES IteratorsStable MapSpec
VIEW View
