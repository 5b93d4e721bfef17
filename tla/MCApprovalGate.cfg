CONSTANTS
  Reviewer = {r1, r2}
  Sha = {c1, c2}
  MaxReviews = 4
  PerPage = 4
  Rewind = FALSE
SPECIFICATION ReviewSpec
PROPERTY PassIsEarned RefusalIsDue
