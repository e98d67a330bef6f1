SPECIFICATION Spec
CONSTANTS
  q1 = q1
  q2 = q2
  q3 = q3
  r1 = r1
  r2 = r2
  r3 = r3
  Requests = {q1, q2}
  SharedConnection = TRUE
  MaxActive = 1
  BlockAt = 1
  Fine = 1
  ChunkSize = 3
  ChunkOverlap = 1
  CardText <- Card1
  BodyTexts <- Bodies
  TopK = 1
  Stores <- AllStores
  Opening <- Owed
  Mixes <- DeskOnly
INVARIANT AcceptedIsKept
CHECK_DEADLOCK FALSE
