SPECIFICATION SemanticSpec
CONSTANTS
  None = None
  root = root
  table = table
  i1 = i1
  i2 = i2
  x = x
  field1 = field1
  Root = root
  Table = table
  Field = field1
  Nodes <- MCNodes
  Trees <- MCTrees
  Placed <- MCPlaced
  RoleOf <- MCRoleOf
  Shapes <- MCShapes
  Conditions <- MCConditions
  Verbs <- MCVerbs
  MaxChanges = 1
  MaxTroubles = 2
  MaxNodes = 3
  MaxVisited = 5
  MaxDepth = 2
  MaxChildren = 2
  ChildPage = 1
  SkeletonDepth = 1
  Looks = 2
  Tries = 2
  Polls = 1
  MaxJobs = 2
INVARIANT WalksMissNothingUntold
INVARIANT AbsencesAreProven
INVARIANT MessagesLandOnTheListed
INVARIANT WritesEndAsAsked
INVARIANT NotSentMeansUntouched
