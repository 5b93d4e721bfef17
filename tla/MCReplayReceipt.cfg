CONSTANTS
  Pkg = {1, 2}
  Tool <- Tools
  Needs <- NeedsOf
  Searched = 2
  Stuck = {2}
  LogCap = 1
  Ceiling = 2
  MaxLog = 2
SPECIFICATION ReplaySpec
INVARIANT CodesInv NoStaleOutput ExitZeroIsEarned
