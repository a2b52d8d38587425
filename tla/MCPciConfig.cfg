SPECIFICATION Spec
CONSTANTS
  MaxBus = 1
  KernelWrites <- MCKernelWrites
  KernelReads <- MCKernelReads
  ToolReads <- MCToolReads
  ToolWrites <- MCToolWrites
INVARIANTS
  TypeOK
  BusHome
  RmaSound
PROPERTIES
  KernelExact
CHECK_DEADLOCK FALSE
