SPECIFICATION Spec
CONSTANTS
  Symbols = {"a", "0", "_", "&", "=", "+", "y", "#", "%26", "%41"}
  Texts <- SomeTexts
  Names <- Plain
  Numbers <- CaseNumbers
  Bytes = {0, 1}
  Contents <- Short
  NoFile = NoFile
  BlockSize = 2
  PAGE_SIZE = 2
  MaxID = 6
  MaxPage = 4
INVARIANTS ValuesArrive TitlesAgree KeysApart FilesCompared NoneIsSkipped
CHECK_DEADLOCK FALSE
