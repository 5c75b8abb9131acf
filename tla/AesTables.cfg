SPECIFICATION WalkSpec
CONSTANTS
  N = 256
  Rounds = 10
  Xor <- ByteXor
  Sbox <- sbox
  InvSbox <- Invsbox
  Xtime <- xtime
  Rcon <- rcon
  Fourtime <- fourtime
  Eighttime <- eighttime
  Log <- LogTable
  ALog <- ALogTable
INVARIANTS
  TablesAreAes
  ShufflesArePermutations
  InvMixColumnsSplits
