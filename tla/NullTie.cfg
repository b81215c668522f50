\* Two ties that share their producers: a tie with a null leg ends early.
CONSTANTS
  Operation = {"a", "b"}
  Tie = {"t1", "t2"}
  Plain = {"w"}
  Ops <- BothOps
SPECIFICATION Spec
INVARIANT NullEndsEarly
