SPECIFICATION Spec
CONSTANTS
  d1 = d1
  h1 = h1
  Kernels = {d1, h1}
  Dkms = {d1}
  Esps = {1, 2}
  Frontends = {"graphical", "text"}
  KernelCount = 2
  MaxKeys = 1
  Windows = {}
INVARIANTS
  KeptMountsRoot
