SPECIFICATION Spec
CONSTANTS
  none = none  odd = odd
  Half <- MCHalf
  FloatBits <- MCFloatBits
  Odd = odd
  Numbers <- MCNumbers
  Times <- MCTimes
  NoField = none
INVARIANTS ReadsBack WiderReads TimeReadsBack
