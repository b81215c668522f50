\* A text in a buffer is a C string: the two codes, invalid ones around them,
\* and buffers up to three cells longer than the longest message.
CONSTANTS
  Codes = {0, 1, 2, 3}
  MaxLen = 20
SPECIFICATION Spec
INVARIANT IsCString
