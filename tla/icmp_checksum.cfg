SPECIFICATION Spec
CONSTANTS
  Radix = 8
  Page = 8
  Reserved = 3
  Prependable = 5
  Integers_ <- MCIntegers
  Strings <- MCStrings
  Widths = {1, 2}
  MaxWrites = 3
  Letters <- MCLetters
  MaxString = 5
  Exts <- MCExts
  MaxExts = 2
  IntMax = 17
  UIntBits = 30
  Ints <- MCInts
  Groups <- MCGroups
  BufferSize = 3
  InlineSize = 2
  Limits = {0, 2, 5}
  MaxOut = 9
INVARIANTS IcmpChecksumSet
CHECK_DEADLOCK FALSE
