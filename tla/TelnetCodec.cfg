\* copy_chars() decodes what a conforming client sends like the reference.
CONSTANTS
  SB_SIZE = 5
  PeerTokens <- MC_Conforming
  MaxBytes = 10
  ScratchBytes = {0}
SPECIFICATION Spec
INVARIANT TypeOK
INVARIANT DecodesLikeReference
\* The peer stops sending after MaxBytes; the server then idles.
CHECK_DEADLOCK FALSE
