CONSTANTS
  Null = Null
  InitialSize = 8
  Forms <- MCForms
  Received <- MCReceived
  NULL = NULL
  Words <- MCWords
  Requests <- MCRequests
  Responses <- MCResponses
  Dictionaries <- MCDictionaries
  Heads <- MCHeads
  Behind <- MCBehind
  a = a
  b = b
  Slash = Slash
  Sep = Sep
  Nul = Nul
  Names <- MCNames
  JoinArgs <- MCJoinArgs
  NormArgs <- MCNormArgs
  Backslash = Backslash
  Up = Up
  Here = Here
  Drive = Drive
  CRLF = CRLF
  Blank = Blank
  Colon = Colon
  HTTP = HTTP
  V10 = V10
  V11 = V11
  Status = Status
SPECIFICATION MCSpec
INVARIANTS
  WritesFit
  RoundTrip
  DecodesPieces
  SamePlace
  JoinRight
  Complete
  HeadersArrive
PROPERTIES
  HeadersApart
CHECK_DEADLOCK FALSE
