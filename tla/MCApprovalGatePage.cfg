CONSTANTS
  Reviewer = {r1, r2}
  Sha = {c1, c2}
  MaxReviews = 3
  PerPage = 2
  Rewind = FALSE
SPECIFICATION ReviewSpec
PROPERTY PassIsEarned
