CHECK_DEADLOCK FALSE
SPECIFICATION WriterSpec
INVARIANTS
  WriterTypeOK
  ClientGetsTheBody
  LogIsTrue
  NewUsersGetTheirCookie
