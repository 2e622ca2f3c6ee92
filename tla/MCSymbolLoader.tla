---------------------------- MODULE MCSymbolLoader ----------------------------
(* Two candidate paths, two extensions, two symbols of the main library,    *)
(* one symbol of each extension, and two goroutines.                        *)
EXTENDS SymbolLoader

CONSTANTS so0, so, admin, qemu, virAdmInitialize, virDomainQemuAgentCommand

TwoPaths == <<so0, so>>

Libraries ==
  [s \in Symbol |-> CASE s = virAdmInitialize -> admin
                      [] s = virDomainQemuAgentCommand -> qemu
                      [] OTHER -> Main]
===============================================================================
