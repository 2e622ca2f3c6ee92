CONSTANTS
  g1 = g1
  g2 = g2
  so0 = so0
  so = so
  admin = admin
  qemu = qemu
  virInitialize = virInitialize
  virEventRegisterDefaultImpl = virEventRegisterDefaultImpl
  virAdmInitialize = virAdmInitialize
  virDomainQemuAgentCommand = virDomainQemuAgentCommand
  Main = Main
  None = None
  Goroutine = {g1, g2}
  Candidate <- TwoPaths
  Extension = {admin, qemu}
  Symbol = {virInitialize, virEventRegisterDefaultImpl, virAdmInitialize, virDomainQemuAgentCommand}
  LibraryOf <- Libraries
SPECIFICATION FairSpec
INVARIANTS CallsAreBound MissingIsExact OneOutcome FailuresAreClosed ExtensionsComeLast
PROPERTIES LoadingEnds
