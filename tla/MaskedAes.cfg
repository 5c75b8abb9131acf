SPECIFICATION MCSpec
CONSTANTS
  N = 256
  Rounds = 10
  Xor <- ByteXor
  Sbox <- sbox
  InvSbox <- Invsbox
  Xtime <- xtime
  Rcon <- rcon
  Fourtime <- fourtime
  Eighttime <- eighttime
  Log <- LogTable
  ALog <- ALogTable
  Keys <- MCKeys
  Inputs <- MCInputs
  Seeds <- MCSeeds
  ShiftTo <- t_shiftRows
  ShiftTo_D <- t_shiftRows_D
PROPERTIES
  IsAes
  KnownAnswer
