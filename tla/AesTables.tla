----------------------------- MODULE AesTables -----------------------------
(***************************************************************************)
(* The read-only tables of src/src/aes/affine_aes.S, as their bytes stand  *)
(* there, and exclusive or on bytes.                                       *)
(***************************************************************************)
EXTENDS Shuffle

\* A literal table, indexed from 0 as the assembly does.
Table(t, n) == [x \in 0 .. n - 1 |-> t[x + 1]]

ByteXor(a, b) == 16 * XorNibble[a \div 16][b \div 16] + XorNibble[a % 16][b % 16]

\* The substitution box of FIPS-197.
sbox == Table(<<
  99,124,119,123,242,107,111,197,48,1,103,43,254,215,171,118,202,130,201,125,
  250,89,71,240,173,212,162,175,156,164,114,192,183,253,147,38,54,63,247,204,
  52,165,229,241,113,216,49,21,4,199,35,195,24,150,5,154,7,18,128,226,
  235,39,178,117,9,131,44,26,27,110,90,160,82,59,214,179,41,227,47,132,
  83,209,0,237,32,252,177,91,106,203,190,57,74,76,88,207,208,239,170,251,
  67,77,51,133,69,249,2,127,80,60,159,168,81,163,64,143,146,157,56,245,
  188,182,218,33,16,255,243,210,205,12,19,236,95,151,68,23,196,167,126,61,
  100,93,25,115,96,129,79,220,34,42,144,136,70,238,184,20,222,94,11,219,
  224,50,58,10,73,6,36,92,194,211,172,98,145,149,228,121,231,200,55,109,
  141,213,78,169,108,86,244,234,101,122,174,8,186,120,37,46,28,166,180,198,
  232,221,116,31,75,189,139,138,112,62,181,102,72,3,246,14,97,53,87,185,
  134,193,29,158,225,248,152,17,105,217,142,148,155,30,135,233,206,85,40,223,
  140,161,137,13,191,230,66,104,65,153,45,15,176,84,187,22>>, 256)

\* Its inverse, used by decryption.
Invsbox == Table(<<
  82,9,106,213,48,54,165,56,191,64,163,158,129,243,215,251,124,227,57,130,
  155,47,255,135,52,142,67,68,196,222,233,203,84,123,148,50,166,194,35,61,
  238,76,149,11,66,250,195,78,8,46,161,102,40,217,36,178,118,91,162,73,
  109,139,209,37,114,248,246,100,134,104,152,22,212,164,92,204,93,101,182,146,
  108,112,72,80,253,237,185,218,94,21,70,87,167,141,157,132,144,216,171,0,
  140,188,211,10,247,228,88,5,184,179,69,6,208,44,30,143,202,63,15,2,
  193,175,189,3,1,19,138,107,58,145,17,65,79,103,220,234,151,242,207,206,
  240,180,230,115,150,172,116,34,231,173,53,133,226,249,55,232,28,117,223,110,
  71,241,26,113,29,41,197,137,111,183,98,14,170,24,190,27,252,86,62,75,
  198,210,121,32,154,219,192,254,120,205,90,244,31,221,168,51,136,7,199,49,
  177,18,16,89,39,128,236,95,96,81,127,169,25,181,74,13,45,229,122,159,
  147,201,156,239,160,224,59,77,174,42,245,176,200,235,187,60,131,83,153,97,
  23,43,4,126,186,119,214,38,225,105,20,99,85,33,12,125>>, 256)

\* Where ShiftRowsWithMasked puts each cell, in encryption and in decryption.
t_shiftRows == Table(<<
  0,13,10,7,4,1,14,11,8,5,2,15,12,9,6,3>>, 16)

t_shiftRows_D == Table(<<
  0,5,10,15,4,9,14,3,8,13,2,7,12,1,6,11>>, 16)

\* Round constants, one word per round.
rcon == Table(<<
  1,0,0,0,2,0,0,0,4,0,0,0,8,0,0,0,16,0,0,0,
  32,0,0,0,64,0,0,0,128,0,0,0,27,0,0,0,54,0,0,0>>, 40)

\* Products by 2, 4 and 8.
xtime == Table(<<
  0,2,4,6,8,10,12,14,16,18,20,22,24,26,28,30,32,34,36,38,
  40,42,44,46,48,50,52,54,56,58,60,62,64,66,68,70,72,74,76,78,
  80,82,84,86,88,90,92,94,96,98,100,102,104,106,108,110,112,114,116,118,
  120,122,124,126,128,130,132,134,136,138,140,142,144,146,148,150,152,154,156,158,
  160,162,164,166,168,170,172,174,176,178,180,182,184,186,188,190,192,194,196,198,
  200,202,204,206,208,210,212,214,216,218,220,222,224,226,228,230,232,234,236,238,
  240,242,244,246,248,250,252,254,27,25,31,29,19,17,23,21,11,9,15,13,
  3,1,7,5,59,57,63,61,51,49,55,53,43,41,47,45,35,33,39,37,
  91,89,95,93,83,81,87,85,75,73,79,77,67,65,71,69,123,121,127,125,
  115,113,119,117,107,105,111,109,99,97,103,101,155,153,159,157,147,145,151,149,
  139,137,143,141,131,129,135,133,187,185,191,189,179,177,183,181,171,169,175,173,
  163,161,167,165,219,217,223,221,211,209,215,213,203,201,207,205,195,193,199,197,
  251,249,255,253,243,241,247,245,235,233,239,237,227,225,231,229>>, 256)

fourtime == Table(<<
  0,4,8,12,16,20,24,28,32,36,40,44,48,52,56,60,64,68,72,76,
  80,84,88,92,96,100,104,108,112,116,120,124,128,132,136,140,144,148,152,156,
  160,164,168,172,176,180,184,188,192,196,200,204,208,212,216,220,224,228,232,236,
  240,244,248,252,27,31,19,23,11,15,3,7,59,63,51,55,43,47,35,39,
  91,95,83,87,75,79,67,71,123,127,115,119,107,111,99,103,155,159,147,151,
  139,143,131,135,187,191,179,183,171,175,163,167,219,223,211,215,203,207,195,199,
  251,255,243,247,235,239,227,231,54,50,62,58,38,34,46,42,22,18,30,26,
  6,2,14,10,118,114,126,122,102,98,110,106,86,82,94,90,70,66,78,74,
  182,178,190,186,166,162,174,170,150,146,158,154,134,130,142,138,246,242,254,250,
  230,226,238,234,214,210,222,218,198,194,206,202,45,41,37,33,61,57,53,49,
  13,9,5,1,29,25,21,17,109,105,101,97,125,121,117,113,77,73,69,65,
  93,89,85,81,173,169,165,161,189,185,181,177,141,137,133,129,157,153,149,145,
  237,233,229,225,253,249,245,241,205,201,197,193,221,217,213,209>>, 256)

eighttime == Table(<<
  0,8,16,24,32,40,48,56,64,72,80,88,96,104,112,120,128,136,144,152,
  160,168,176,184,192,200,208,216,224,232,240,248,27,19,11,3,59,51,43,35,
  91,83,75,67,123,115,107,99,155,147,139,131,187,179,171,163,219,211,203,195,
  251,243,235,227,54,62,38,46,22,30,6,14,118,126,102,110,86,94,70,78,
  182,190,166,174,150,158,134,142,246,254,230,238,214,222,198,206,45,37,61,53,
  13,5,29,21,109,101,125,117,77,69,93,85,173,165,189,181,141,133,157,149,
  237,229,253,245,205,197,221,213,108,100,124,116,76,68,92,84,44,36,60,52,
  12,4,28,20,236,228,252,244,204,196,220,212,172,164,188,180,140,132,156,148,
  119,127,103,111,87,95,71,79,55,63,39,47,23,31,7,15,247,255,231,239,
  215,223,199,207,183,191,167,175,151,159,135,143,90,82,74,66,122,114,106,98,
  26,18,10,2,58,50,42,34,218,210,202,194,250,242,234,226,154,146,138,130,
  186,178,170,162,65,73,81,89,97,105,113,121,1,9,17,25,33,41,49,57,
  193,201,209,217,225,233,241,249,129,137,145,153,161,169,177,185>>, 256)

\* Discrete logarithms (entry 0 is a filler) and their inverse.
LogTable == Table(<<
  0,0,25,1,50,2,26,198,75,199,27,104,51,238,223,3,100,4,224,14,
  52,141,129,239,76,113,8,200,248,105,28,193,125,194,29,181,249,185,39,106,
  77,228,166,114,154,201,9,120,101,47,138,5,33,15,225,36,18,240,130,69,
  53,147,218,142,150,143,219,189,54,208,206,148,19,92,210,241,64,70,131,56,
  102,221,253,48,191,6,139,98,179,37,226,152,34,136,145,16,126,110,72,195,
  163,182,30,66,58,107,40,84,250,133,61,186,43,121,10,21,155,159,94,202,
  78,212,172,229,243,115,167,87,175,88,168,80,244,234,214,116,79,174,233,213,
  231,230,173,232,44,215,117,122,235,22,11,245,89,203,95,176,156,169,81,160,
  127,12,246,111,23,196,73,236,216,67,31,45,164,118,123,183,204,187,62,90,
  251,96,177,134,59,82,161,108,170,85,41,157,151,178,135,144,97,190,220,252,
  188,149,207,205,55,63,91,209,83,57,132,60,65,162,109,71,20,42,158,93,
  86,242,211,171,68,17,146,217,35,32,46,137,180,124,184,38,119,153,227,165,
  103,74,237,222,197,49,254,24,13,99,140,128,192,247,112,7>>, 256)

ALogTable == Table(<<
  1,3,5,15,17,51,85,255,26,46,114,150,161,248,19,53,95,225,56,72,
  216,115,149,164,247,2,6,10,30,34,102,170,229,52,92,228,55,89,235,38,
  106,190,217,112,144,171,230,49,83,245,4,12,20,60,68,204,79,209,104,184,
  211,110,178,205,76,212,103,169,224,59,77,215,98,166,241,8,24,40,120,136,
  131,158,185,208,107,189,220,127,129,152,179,206,73,219,118,154,181,196,87,249,
  16,48,80,240,11,29,39,105,187,214,97,163,254,25,43,125,135,146,173,236,
  47,113,147,174,233,32,96,160,251,22,58,78,210,109,183,194,93,231,50,86,
  250,21,63,65,195,94,226,61,71,201,64,192,91,237,44,116,156,191,218,117,
  159,186,213,100,172,239,42,126,130,157,188,223,122,142,137,128,155,182,193,88,
  232,35,101,175,234,37,111,177,200,67,197,84,252,31,33,99,165,244,7,9,
  27,45,119,153,176,203,70,202,69,207,74,222,121,139,134,145,168,227,62,66,
  198,81,243,14,18,54,90,238,41,123,141,140,143,138,133,148,167,242,13,23,
  57,75,221,124,132,151,162,253,28,36,108,180,199,82,246,1>>, 256)

=============================================================================
