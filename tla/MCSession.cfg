SPECIFICATION Spec
CONSTANTS
  Base = 4
  Letters <- SomeLetters
  Utf8 <- Characters
  MaxRecordSize = 15
  Words <- SomeWords
  History <- Lines
  Editable <- SomeLines
  Symbols <- SomeSymbols
  MaxLength = 9
  MaxEdits = 1
  MaxRows = 1
  Brief <- LaterLines
INVARIANTS
  TypeOK
  ReadsAsWritten
  HeaderReadsBack
  StoredAsWritten
  StatementsDoWhatTheySay
  PanicsAreKnown
CHECK_DEADLOCK FALSE
