SPECIFICATION FairSpec
CONSTANTS
  select = select
  create = create
  load = load
  Queries = {select}
  Seeds <- MCSeeds
  PagesOf <- MCPagesOf
  Needs <- MCNeeds
  MaxPolls = 4
INVARIANTS
  TypeOK
  RowsAreComplete
  SeedsArriveInOrder
PROPERTIES
  KeepsContract
  EveryCallEnds
