-------------------------------- MODULE Examples --------------------------------
(***************************************************************************)
(* The commands under examples/ together: the scripts (Session, with those *)
(* of ExampleScripts) and volume-transfer (StreamTransfer).  A behaviour   *)
(* is one run of one command.                                              *)
(***************************************************************************)
EXTENDS ExampleScripts

CONSTANTS Size,       \* bound: the bytes of the source
          Buffer,     \* the bytes the copy loop reads at a time: 32 KiB in io.Copy
          Lengths     \* the values of -length; zero means all there is

\* -length is unsigned (volume-transfer/main.go:23).
ASSUME TransferAssumption == Size \in Nat /\ Buffer \in Nat \ {0} /\ Lengths \subseteq Nat

VARIABLES direction, length, at, held, access, active, transfer, file, taken, chunk, sink,
          error

transferVars ==
  <<direction, length, at, held, access, active, transfer, file, taken, chunk, sink, error>>

Transfer == INSTANCE StreamTransfer WITH pc <- at, err <- error

--------------------------------------------------------------------------------
\* Either program, when the other was run: it has failed to open its connection.
NoTransfer ==
  /\ direction = "upload" /\ length = 0 /\ at = "done" /\ error = TRUE
  /\ held = << >> /\ access = "none" /\ active = FALSE /\ transfer = "none"
  /\ file = FALSE /\ taken = 0 /\ chunk = 0 /\ sink = << >>
NoSession ==
  /\ command = (CHOOSE c \in Command : TRUE) /\ step = 1 /\ element = 0 /\ deferred = << >>
  /\ live = [h \in Handle |-> 0] /\ kept = live /\ parent = [h \in Handle |-> None]
  /\ pc = "done" /\ err = TRUE /\ failed = TRUE

ExamplesInit ==
  \/ Init /\ NoTransfer
  \/ NoSession /\ Transfer!Init

ExamplesNext ==
  \/ Next /\ UNCHANGED transferVars
  \/ Transfer!Next /\ UNCHANGED vars

\* A command runs on, and libvirt answers.
ExamplesSpec == ExamplesInit /\ [][ExamplesNext]_<<vars, transferVars>> /\ WF_<<vars, transferVars>>(ExamplesNext)

--------------------------------------------------------------------------------
\* A transfer that reports success is whole, and its bytes are in order at all
\* times (stream.go:97, volume-transfer/main.go:107-121): see StreamTransfer.
TransfersAreWhole == Transfer!NoGaps /\ Transfer!SuccessMeansAll

\* No transfer is under way when its stream is released, and none is aborted that
\* has finished (volume-transfer/main.go:92-121): see StreamTransfer.
TransfersEndBeforeFree == Transfer!EndedBeforeFree

\* Every command ends, whatever fails; volume-transfer with its handles released
\* and its file closed.
CommandsEnd == <>(pc = "done") /\ Transfer!CommandEnds
================================================================================
