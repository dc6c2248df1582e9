\* Block size 2, in-batch publishing on: the texts differ inside the second
\* block, so partial hits, exact repeats and diverging writes all occur.
SPECIFICATION Spec
CONSTANTS
  s1 = s1
  s2 = s2
  Seqs = {s1, s2}
  Text <- Text2
  PromptLen <- Prompt2
  BlockSize = 2
  Lookahead = 0
  InBatch = TRUE
  Blocks = {b1, b2, b3}
  NoBlock = NoBlock
  Hashes <- MCHashes
SYMMETRY BlockSymmetry
INVARIANTS
  NoCheckFails RefExact EvictableExact UnpublishedIsPrivate
  CachedKvIsOwn FiledKvMatchesHash SharedWritesAgree
PROPERTIES SharedPrefixStays
CHECK_DEADLOCK TRUE
