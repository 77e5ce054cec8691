SPECIFICATION Spec
CONSTANTS
  Word <- Words
  Numeral <- Numerals
  Sends <- Messages
  Topic <- Topics
  Delivers <- Frames
  MaxPuts = 3
PROPERTIES
  IsLink
\* The number of messages is bounded.
CHECK_DEADLOCK FALSE
