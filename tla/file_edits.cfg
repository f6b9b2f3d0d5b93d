CONSTANTS
  edit1 = edit1
  edit2 = edit2
  rewrite = rewrite
  other = other
  file = file
  otherFile = otherFile
  link = link
  NoOp = NoOp
  Missing = Missing
  Ops <- MCOps
  Files <- MCFiles
  Paths <- MCPaths
  Target <- MCTarget
  Path <- MCPath
  Rewrites <- MCRewrites
  Abortable <- MCAbortable
SPECIFICATION LinkedSpec
INVARIANTS
  MutualExclusion
  QueuesHeld
PROPERTIES
  Serializable
  CallsEnd
