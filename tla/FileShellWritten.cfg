SPECIFICATION ShellSpec
CONSTANTS
  Components <- MCComponents
  Empty = ""
  DotDir = ".dir"
  CompLen <- MCCompLen
  NAME_SIZE = 7
  Chars = {"x"}
  MAX_FILES = 2
  MAX_FILE_SIZE = 2
  SystemFile <- MCSystemFile
  TestFile <- MCTestFile
  SystemText <- MCSystemText
  TestText <- MCTestText
  Names <- MCNames
  Texts <- MCTexts
  CommandArgs <- MCCommandArgs
  LineTexts <- MCLineTexts
  Leftovers <- MCLeftovers
PROPERTY WrittenIsStored
