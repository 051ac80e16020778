\* The filter before and after its first ioctl.
SPECIFICATION Spec
CONSTANTS
  h1 = h1  h2 = h2
  Hooks <- OneHook
  Families <- BothFamilies
  BITS = 2
  Length <- TwoAndThree
  Sources <- FewSources
  Networks <- OneNetwork
INVARIANT SetMachinesOnly
