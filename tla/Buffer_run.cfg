SPECIFICATION Spec
CONSTANTS
  Byte = {z, b1}
  Zero = z
  CheapPrepend = 1
  InitialSize = 2
  ExtraSize = 2
  MaxLen = 3
  MaxSize = 7
PROPERTY ByteStream
