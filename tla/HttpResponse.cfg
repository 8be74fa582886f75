CONSTANTS
  c200 = c200
  c404 = c404
  ok = ok
  not = not
  found = found
  host = host
  date = date
  v1 = v1
  http = http
  sp = sp
  colon = colon
  cr = cr
  lf = lf
  nul = nul
  StatusCode = {c200, c404}
  Ok = c200
  Message <- MCMessage
  Name <- MCName
  Value <- MCValue
  Body <- MCBody
  Version = http
  Space = sp
  Colon = colon
  CR = cr
  LF = lf
  Nul = nul
  Byte <- MCByte
  TmpSize = 0
  InitSize = 8
  Prepend = 2
  ExpandFactor = 2
  MaxResponses = 2
SPECIFICATION ResponseSpec
INVARIANTS
  ResponsesGetThrough
