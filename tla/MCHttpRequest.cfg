SPECIFICATION Spec
CONSTANTS
  Messages <- Sent
  None <- NoReply
  ReadSize = 3
  max_request_line = 21
  max_headers_total = 10
  max_body = 4
  max_total_request_bytes = 33
  kMaxU64 = 200000
INVARIANTS
  TypeOK
  ReplyIsMeant
  AsIfReadAtOnce
  LimitsHold
CHECK_DEADLOCK FALSE
