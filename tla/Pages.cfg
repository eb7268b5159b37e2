\* OCR on and off, a cap below the longest document, failing calls.
SPECIFICATION Spec
CONSTANTS
  Words = {a, b}
  Marks = {m}
  FF = ff
  MaxDocPages = 3
  MaxTokens = 2
  MaxPages = 2
  PrefixLen = 1
  CallsFail = TRUE
INVARIANTS IInv CitedPageShowsChunk TextPDFsResolve WholeOrFailed
SYMMETRY Symmetric
CHECK_DEADLOCK FALSE
