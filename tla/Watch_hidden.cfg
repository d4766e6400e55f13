CONSTANTS
  f1 = f1  f2 = f2  f3 = f3  n1 = n1  n2 = n2  h1 = h1  h2 = h2
  NoFile = NoFile  NoName = NoName
  Builds <- ReaddirOnly
  File <- MCFile
  Name <- MCName
  NameOf <- MCNameOf
  Hash <- MCHash
  HashOf <- MCHashOf
  Bad <- None
  Longer <- Hiding
  MaxRestarts = 0
SPECIFICATION Spec
PROPERTY NewFileIsTried
