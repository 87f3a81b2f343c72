SPECIFICATION FairSpec
CONSTANTS
  Readers = {r1}
  Writers = {w1, w2}
  Words = {hdr, code}
  Payloads = {p1, p2}
  NoPayload = NoPayload
  NoWriter = NoWriter
  MaxVersion = 5
INVARIANTS TypeOK NoTornHit
PROPERTIES HintSpec LookupAnswers
