CONSTANTS
  Chars <- MCChars
  MaxLen <- MCMaxLen
  PARSE_BUFFER <- MCParseBuffer
  WORD_BITS <- MCWordBits
  Indices <- MCIndices
SPECIFICATION Spec
INVARIANTS TypeOK ReadsInBounds WritesInBounds BufferReleased ParseCorrect
