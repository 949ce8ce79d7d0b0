CONSTANTS
  NULL = NULL
  Nodes = {1, 2, 3, 4}
  ThreadNodes = {1, 2}
  Kvs = {1, 2}
  Arrays = {1, 2, 3, 4}
  Queues = {ready, dead}
  Processes = {11}
  Tables = {own, init, spare}
  Objects <- MCObjects
  INITIAL_BUCKETS_NUM = 2
SYMMETRY Symmetry
VIEW View
SPECIFICATION Spec
INVARIANTS
  QueuesAreSequences
  TablesAreMaps
  NothingLeaks
