\* The width, mask and nonce length of the code, the seed 0x0E4FB8AD; 2^32 - 1 is beyond
\* TLC's integers, which end here.
CONSTANTS
  Width = 32
  Mask = {31, 29, 28, 26}
  WordsPerNonce = 8
  Seeds = {{27, 26, 25, 22, 19, 18, 17, 16, 15, 13, 12, 11, 7, 5, 3, 2, 0}}
  FullPeriod = 2147483647
SPECIFICATION Spec
INVARIANT MaximalLength
