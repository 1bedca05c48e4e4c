SPECIFICATION Spec
CONSTANTS
  HalfInt64 = 16
  Half <- SmallHalf
  Float64 <- SmallDouble
  Float32 <- SmallFloat
  Rows <- SomeRows
  Shapes <- SomeShapes
INVARIANTS ContentInv RoundTrip IntegersThatFit AnyKeepsContent SelectorSeesAll OrderKept
