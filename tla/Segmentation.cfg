CONSTANT
  Inputs = {34815, 35840, 36863, 36864, 36865, 38912, 38913}
SPECIFICATION SegSpec
INVARIANT StackGrowsDown
