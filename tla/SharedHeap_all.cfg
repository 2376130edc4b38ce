SPECIFICATION SharedSpec
CONSTANTS
  Vm = {v1, v2}
  Host = {h1}
  MaxPermits = 2
  Shared = {f}
  Key = {k1}
  Addr = {1, 2}
  Object = {o1}
  Card = {1}
  CardOf <- CardOfMC
  NoObject = NoObject
  MaxFields = 1
SYMMETRY Symmetric
PROPERTIES PermitsProtectHeap
