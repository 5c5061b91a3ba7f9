SPECIFICATION EditSpec
CONSTANTS
  Components <- MCComponents
  Empty = ""
  DotDir = ".dir"
  CompLen <- MCCompLen
  NAME_SIZE = 7
  Chars = {"x", "nl"}
  MAX_FILES = 2
  MAX_FILE_SIZE = 3
  SystemFile <- MCSystemFile
  TestFile <- MCTestFile
  SystemText <- MCSystemText
  TestText <- MCTestText
  Names <- MCNames
  Texts <- MCTexts
  NUL = "nul"
  Newline = "nl"
  Backspace = "bs"
  PTR_BOUND = 5
PROPERTIES OpenShowsFile SaveStoresTyped
