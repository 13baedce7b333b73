\* Every kind of window; two nodes, two templates, two calls in flight.
SPECIFICATION Spec
CONSTANTS
  Kinds = {"create", "edit", "createTemplate", "editTemplate", "from"}
  Nodes = {"n1", "n2"}
  NoNode = ""
  Templates = {"t1", "t2"}
  Subject = "own"
  NodeOf <- MCNodeOf
  NetsOf <- MCNetsOf
  Faults = {"memory"}
  MaxCards = 3
  MaxCalls = 2

CHECK_DEADLOCK FALSE
INVARIANTS
  CardsAgree KeepsACard ShowsInspected OffersItsNode ImagesOfNode NodeFollowsTemplate
