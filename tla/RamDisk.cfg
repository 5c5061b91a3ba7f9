SPECIFICATION Spec
CONSTANTS
  Components <- MCComponents
  Empty = ""
  DotDir = ".dir"
  CompLen <- MCCompLen
  NAME_SIZE = 7
  Chars = {"x", "y"}
  MAX_FILES = 3
  MAX_FILE_SIZE = 3
  SystemFile <- MCSystemFile
  TestFile <- MCTestFile
  SystemText <- MCSystemText
  TestText <- MCTestText
  Names <- MCNames
  Texts <- MCTexts
INVARIANTS TypeOK NamesUnique
PROPERTY ImplementsStore
