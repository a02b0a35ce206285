SPECIFICATION Spec
CONSTANTS
  Threads = {t1, t2}
  Idle = Idle
  Adc = Adc
  Main = Main
  Kernel = Kernel
SYMMETRY Symmetric
INVARIANTS TypeOK ContextKept CallerKept OwnKernelStack AdcCodeConfined
