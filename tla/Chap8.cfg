SPECIFICATION Spec
CONSTANTS
  Which = {"parse"}
  Programs = {"chap8"}
  Inputs <- MCInputs
  BodyLength = 3
  READ_BUFFER_SIZE = 12
  c1 = c1
  c2 = c2
  Conn = {c1, c2}
  NoConn = NoConn
  HeaderLength = 3
  MaxSize = 2
  MaxPage = 3
INVARIANT LineOpenWithoutCR
