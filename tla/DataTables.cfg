SPECIFICATION DataSpec
CONSTANTS
  en = en
  fr = fr
  p = p
  q = q
  data = data
  a = a
  b = b
  c = c
  None = None
  Lang <- MCLang
  DataFile <- MCDataFile
  Buffer <- MCBuffer
  Id <- MCId
  Name <- MCName
  Key <- MCKey
  Hash <- MCHash
  infoCapacity = 2
  keyCapacity = 3
  UintRange = 16
  Disk <- MCDisk
  MaxFd = 2
INVARIANTS
  MappingsSound
  TextsRight
  DataFound
