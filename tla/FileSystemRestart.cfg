SPECIFICATION Spec
CONSTANTS
  x = x
  y = y
  Junk = junk
  ClusterCount = 5
  MaxCalls = 5
  EntriesPerSector = 3
  RootEntries = 6
  FilenameSize = 3
  ExtensionSize = 1
  Files <- MCFiles
  Directories <- MCDirectories
  Paths <- MCPaths
  Contents <- MCContents
  Shell <- ShellName
  ShellImage <- MCShellImage
PROPERTIES
  ShellFoundAgain
