\* Bytes of four values, so that numbers of a byte, of two and of four wrap;
\* about 8000 answers, every body of at most three bytes, and 48 headers.
SPECIFICATION CallSpec
CONSTANTS
  Base = 4
  Request <- MCRequest
  Reply <- MCReply
  Opaque <- MCOpaque
  Credential <- MCCredential
INVARIANTS
  RequestUnderstood
  AnswerWholeOrError
  Normalized
  NothingLost
