\* Editing a template of three networks.
SPECIFICATION Spec
CONSTANTS
  Kinds = {"editTemplate"}
  Nodes = {"n1", "n2"}
  NoNode = ""
  Templates = {"t1", "t2"}
  Subject = "own"
  NodeOf <- MCNodeOf
  NetsOf <- MCManyNets
  Faults = {"memory"}
  MaxCards = 5
  MaxCalls = 2

CHECK_DEADLOCK FALSE
INVARIANT EveryNetworkHasPage
