SPECIFICATION Spec
CONSTANTS
  Item = {a, b}
  Garbage = g
  FirstCap = 1
  MaxCap = 4
  Words = 4
  NameLimit = 5
  LabelLimit = 1
  DepthLimit = 2
  CharSign = 3
  NoName = "no name"
  BufferWords = 3
  BadWords = {"bad"}
  TextLen = 9
  MsgLen = 6
  AnswerLen = 4
CHECK_DEADLOCK FALSE
INVARIANTS AddressesAreRead NamesAgree MessagesParse AddressesAreOrdered AddressesOfTheDomain ListsInOrder
PROPERTY IsASequence
