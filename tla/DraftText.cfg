\* Every text of up to eight tokens, every integer of up to four digits.
SPECIFICATION TextSpec
CONSTANTS
  OpenText = "open"
  CloseText = "close"
  Newline = "newline"
  Text = "text"
  MaxVersionText <- MCMaxVersionText
  Digits = {0, 1, 2, 3, 9}
  MaxTokens = 8
  MaxDigits = 4
INVARIANTS
  BlockIsTheLinesBetween
  VersionTextIsRange
CHECK_DEADLOCK FALSE
