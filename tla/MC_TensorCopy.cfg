CONSTANTS
  c1 = c1
  c2 = c2
  g1 = g1
  g2 = g2
  CpuTensors = {c1, c2}
  GpuTensors = {g1, g2}
  MaxCopies = 4
SPECIFICATION Spec
SYMMETRY TensorSymmetry
INVARIANT CopiesInOrder
CHECK_DEADLOCK FALSE
