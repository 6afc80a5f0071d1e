\* Two servers, two creations or deletions in flight; one day.
SPECIFICATION Spec
CONSTANTS
  Today = Today
  Dates = {Today}
  NoDate = NoDate
  Queries = {q1}
  Nothing = Nothing
  MaxServers = 2
  MaxWrites = 2
  MaxPlans = 0
  MaxLeft = 0
INVARIANT
  ListKeepsUp
PROPERTY
  CreationLands
