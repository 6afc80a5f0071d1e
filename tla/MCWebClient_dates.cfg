\* Two days, two queries, one call or timer of a left page; one server.
SPECIFICATION Spec
CONSTANTS
  Today = Today
  Dates = {Today, Yesterday}
  NoDate = NoDate
  Queries = {q1, q2}
  Nothing = Nothing
  MaxServers = 1
  MaxWrites = 0
  MaxPlans = 2
  MaxLeft = 1
INVARIANTS
  WebTypeOK
  LeftPagesAreQuiet
  DateShown
PROPERTY
  DateLoads
