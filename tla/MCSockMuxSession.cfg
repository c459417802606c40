SPECIFICATION LiveSpec
CONSTANTS
  Sizes = {128, 256, 16384}
  PWSIZE = 16384
  DefSize = 512
  MinSize = 128
  Window = 3
  MaxFaults = 2
INVARIANTS TypeOK HelloFirst SizesAgree Paired NoFalseAlarm
PROPERTIES Recovered Released
