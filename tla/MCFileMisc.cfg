SPECIFICATION Spec
CONSTANTS
  Dirs <- MCDirs
  Files <- MCFiles
  Src = "src"
  Parent <- MCParent
  Matching = {"a.txt"}
  Dotted = {".c"}
  Late = {"b.doc"}
INVARIANTS TypeOK NoFileLost TrueMeansCopied StopSoon
PROPERTY MoveSpec
