\* Two questions at a time, three in all, about two kinds of entities.
CONSTANTS
  s1 = s1
  s2 = s2
  product = product
  customer = customer
  NoRow = NoRow
  NoOne = NoOne
  NoField = NoField
  Sessions = {s1, s2}
  Fields = {product, customer}
  MaxQuestions = 3
SPECIFICATION FairSpec
INVARIANTS
  TypeOK
  ContextIsOfMessages
  NothingHalfStored
PROPERTIES
  QuestionsEnd
\* Nothing happens after the last question if the conversation has no row.
CHECK_DEADLOCK FALSE
