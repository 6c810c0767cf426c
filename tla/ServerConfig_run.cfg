SPECIFICATION Spec
CONSTANTS
  CommandLines <- MCCommandLines
  Files <- MCFiles
  Number <- MCNumber
INVARIANTS LoadedAsWritten GoodFileStarts RoutesResolve
\* the server runs, or the process has ended
CHECK_DEADLOCK FALSE
