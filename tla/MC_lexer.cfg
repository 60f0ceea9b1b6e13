CONSTANTS
  a = a
  b = b
  Letters = {a, b}
  Blank = Blank
  Hash = Hash
  Newline = Newline
  End = End
  MaxLen = 7
  Texts <- AllTexts
  BufSiz = 3
  ReadErrors = TRUE
SPECIFICATION FairSpec
INVARIANTS TypeOK CommandsAreTheLines IgnoredOnlyAfterNewline
PROPERTIES ParsingEnds
CHECK_DEADLOCK FALSE
