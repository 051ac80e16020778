\* One CPU, both families: every source, every prefix.
SPECIFICATION Spec
CONSTANTS
  h1 = h1  h2 = h2
  Hooks <- OneHook
  Families <- Ipv4
  BITS = 2
  Length <- TwoAndThree
  Sources <- BorderSources
  Networks <- TwoNetworks
INVARIANTS Exact NeverWider
