\* Three writers over two slugs and three tags, one of them in the table: two
\* writers can meet at a slug or a tag while the third makes both wait.
SPECIFICATION Spec
CONSTANTS
  Writers = {w1, w2, w3}
  s1 = s1
  s2 = s2
  a = a
  b = b
  old = old
  Slugs = {s1, s2}
  Tags = {a, b, old}
  OldSlugs = {s1}
  OldTags = {old}
  Before = Before
  MaxFaults = 1
  Calls <- MCCalls
INVARIANTS
  WriterTypeOK
  TagsOfOneRecord
  ErrorLeavesNothing
  RefusedOverARival
  CreatedHasItsTags
PROPERTIES
  WritersFinish
CHECK_DEADLOCK FALSE
