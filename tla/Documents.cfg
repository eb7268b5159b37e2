\* Every fault; uploads, deletes and reads that overlap with each other and
\* with a search whose results name the same documents.
SPECIFICATION Spec
CONSTANTS
  Docs = {d1, d2}
  Calls = {c1, c2, c3}
  NoDoc = NoDoc
  Faults = {"cancel", "db", "s3", "crash"}
  Searches = {s1}
  NoSource = nosource
  Extractable = {d1}
  MaxHits = 2
  DefaultTopK = 2
SYMMETRY Symmetric
INVARIANTS RefIInv MetadataNeverLeaksContent StoresAgreeWhenIdle SameDocumentSameReference LookedUpOnce MissingOnlyIfDeleted
CHECK_DEADLOCK FALSE
