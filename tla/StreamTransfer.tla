----------------------------- MODULE StreamTransfer -----------------------------
(***************************************************************************)
(* Moving the bytes of a volume: Write, Read, Finish and Abort of          *)
(* stream.go under the copy loop of package io, as the command             *)
(* examples/volume-transfer drives them.                                   *)
(*                                                                         *)
(* The command opens a connection, looks up the pool and the volume,       *)
(* makes a stream, starts the transfer, copies, and finishes; on the way   *)
(* out its deferred functions abort a transfer that did not finish and     *)
(* release the four handles.  Every step may fail.  libvirt may take or    *)
(* give fewer bytes than asked for, or none when the stream does not       *)
(* block.  Bytes are numbered, so that a gap shows.                        *)
(***************************************************************************)
EXTENDS Naturals, Sequences

CONSTANTS Size,       \* bound: the bytes of the source
          Buffer,     \* the bytes the loop reads at a time: 32 KiB in io.Copy
          Lengths     \* the values of -length; zero means all there is

VARIABLES
  direction,  \* "upload" or "download"
  length,     \* -length
  pc,         \* where run and the copy are
  held,       \* the handles run has, in the order it got them
  access,     \* how the connection was opened
  active,     \* the local of run
  transfer,   \* libvirt's side: "none", "started", "finished", "aborted"
  file,       \* whether the local file is open
  taken,      \* the bytes read from the source
  chunk,      \* the bytes of the buffer still to write
  sink,       \* the bytes the sink has, by their number
  err         \* whether run has an error

copying == <<file, taken, chunk, sink>>
vars == <<direction, length, pc, held, access, active, transfer, copying, err>>

Handles == <<"connection", "pool", "volume", "stream">>
Direction == {"upload", "download"}

Init ==
  /\ direction \in Direction /\ length \in Lengths
  /\ pc = "acquire" /\ held = << >> /\ access = "none"
  /\ active = FALSE /\ transfer = "none"
  /\ file = FALSE /\ taken = 0 /\ chunk = 0 /\ sink = << >>
  /\ err = FALSE

At(p) == pc = p /\ UNCHANGED <<direction, length>>
Fail == err' = TRUE /\ pc' = "unwind"

--------------------------------------------------------------------------------
(* run: volume-transfer/main.go:61-113.                                     *)

AccessFor(d) == IF d = "download" THEN "readonly" ELSE "full"

\* NewConnect or NewConnectReadOnly, LookupStoragePoolByName,
\* LookupStorageVolByName and NewStream, each deferring its release.
Acquire ==
  /\ At("acquire") /\ UNCHANGED <<active, transfer, copying>>
  /\ \/ /\ held' = Append(held, Handles[Len(held) + 1])
        /\ access' = IF held = << >> THEN AccessFor(direction) ELSE access
        /\ pc' = IF Len(held') = Len(Handles) THEN "start" ELSE "acquire"
        /\ UNCHANGED err
     \/ Fail /\ UNCHANGED <<held, access>>

\* volume.Upload, which libvirt refuses on a read-only connection, and
\* volume.Download; the transfer is under way from here on.
Start ==
  /\ At("start") /\ UNCHANGED <<held, access, copying>>
  /\ \/ /\ direction = "upload" => access = "full"
        /\ transfer' = "started" /\ active' = TRUE /\ pc' = "open" /\ UNCHANGED err
     \/ Fail /\ UNCHANGED <<transfer, active>>

\* os.Open or os.OpenFile.
OpenFile ==
  /\ At("open") /\ UNCHANGED <<held, access, active, transfer, taken, chunk, sink>>
  /\ \/ file' = TRUE /\ pc' = "read" /\ UNCHANGED err
     \/ Fail /\ UNCHANGED file

\* The file is closed on every way out of upload and download; closing may
\* fail, which is then the error.
CloseFile(failed) ==
  /\ file' = FALSE
  /\ \/ ~ failed /\ pc' = "finish" /\ UNCHANGED err
     \/ Fail

--------------------------------------------------------------------------------
(* io.Copy and io.CopyN.                                                    *)

\* What the loop may still read: io.CopyN stops the source at the length.
Room ==
  LET limit == IF length = 0 THEN Buffer ELSE length - taken
  IN IF limit < Buffer THEN limit ELSE Buffer

\* An answer: how many bytes, whether with an error, whether at the end, and
\* what becomes of the transfer.
Answer(n, e, end) == [n |-> n, err |-> e, end |-> end, transfer |-> transfer]
\* An error of Stream.Read or Stream.Write: -1 is one of libvirt, which marks
\* the stream as aborted (api/libvirt-api.xml:16135, 16278); with -2, which is
\* ErrStreamWouldBlock, and a call that this package refuses, it goes on.
StreamErrors ==
  {[n |-> 0, err |-> TRUE, end |-> FALSE, transfer |-> t] : t \in {transfer, "aborted"}}
AtMost(n) == {k \in 1 .. n : k <= Size - taken}

\* os.File reads to the end of the file, or fails.
FileRead == {Answer(k, FALSE, FALSE) : k \in AtMost(Room)} \cup {Answer(0, TRUE, FALSE)}
            \cup (IF taken = Size THEN {Answer(0, FALSE, TRUE)} ELSE {})

\* Stream.Read: 0 is the end, and less than asked for is an answer like any other.
StreamRead == {Answer(k, FALSE, FALSE) : k \in AtMost(Room)} \cup StreamErrors
              \cup (IF taken = Size THEN {Answer(0, FALSE, TRUE)} ELSE {})

\* os.File reports an error with a short write.
FileWrite(n) == {Answer(n, FALSE, FALSE)} \cup {Answer(k, TRUE, FALSE) : k \in 0 .. n - 1}

\* Stream.Write: libvirt may take fewer bytes, which is not an error here.
StreamWrite(n) == {Answer(k, FALSE, FALSE) : k \in 1 .. n} \cup StreamErrors

LeaveOpen == Fail /\ UNCHANGED file
CopyFails == CloseFile(TRUE)
\* io.CopyN: fewer bytes than asked for are an error, io.EOF.
CopyEnds == IF length # 0 /\ Len(sink) < length THEN CloseFile(TRUE) ELSE CloseFile(FALSE)

CopyRead ==
  /\ At("read") /\ UNCHANGED <<held, access, active, sink>>
  /\ IF Room = 0
     THEN CopyEnds /\ UNCHANGED <<transfer, taken, chunk>>
     ELSE \E a \in (IF direction = "upload" THEN FileRead ELSE StreamRead) :
            /\ taken' = taken + a.n /\ chunk' = a.n /\ transfer' = a.transfer
            /\ CASE a.err -> CopyFails
                 [] a.end -> CopyEnds
                 [] OTHER -> pc' = "write" /\ UNCHANGED <<err, file>>

\* The bytes of the buffer are the last that were read.
Written(n) == [i \in 1 .. n |-> taken - chunk + i]

\* A short write without an error goes on with the next read.
IgnoreShort(a) == IF a.err THEN CopyFails ELSE pc' = "read" /\ UNCHANGED <<err, file>>
\* A short write without an error is io.ErrShortWrite.
AfterWrite(a) ==
  IF a.err \/ a.n # chunk THEN CopyFails ELSE pc' = "read" /\ UNCHANGED <<err, file>>

CopyWrite ==
  /\ At("write") /\ UNCHANGED <<held, access, active, taken>>
  /\ \E a \in (IF direction = "upload" THEN StreamWrite(chunk) ELSE FileWrite(chunk)) :
       /\ sink' = sink \o Written(a.n) /\ chunk' = 0 /\ transfer' = a.transfer
       /\ AfterWrite(a)

--------------------------------------------------------------------------------
(* The end: volume-transfer/main.go:118-121 and the deferred functions.      *)

Confirm(ok) == transfer' = (IF ok THEN "finished" ELSE transfer)

\* active is cleared before the outcome is known.
FinishEarly ==
  /\ At("finish") /\ active' = FALSE /\ UNCHANGED <<held, access, copying>>
  /\ pc' = "unwind"
  /\ \/ Confirm(TRUE) /\ UNCHANGED err
     \/ Confirm(FALSE) /\ err' = TRUE

\* The confirmation of libvirt settles the outcome.  active stays true, and
\* the transfer is aborted, when it fails.
Finish ==
  /\ At("finish") /\ UNCHANGED <<held, access, copying>>
  /\ pc' = "unwind"
  /\ \/ Confirm(TRUE) /\ active' = FALSE /\ UNCHANGED err
     \/ Confirm(FALSE) /\ err' = TRUE /\ UNCHANGED active

\* A deferred function: the last handle is released, and a stream whose
\* transfer did not finish is aborted before, one that libvirt has marked as
\* aborted included.  Both may report an error; the transfer is over after an
\* Abort all the same.
Abort == transfer' = IF active THEN "aborted" ELSE transfer

Release ==
  /\ At("unwind") /\ held # << >>
  /\ held' = SubSeq(held, 1, Len(held) - 1)
  /\ err' \in {err, TRUE}
  /\ IF held[Len(held)] = "stream"
     THEN Abort /\ active' = FALSE
     ELSE UNCHANGED <<transfer, active>>
  /\ UNCHANGED <<pc, access, copying>>

Return ==
  /\ At("unwind") /\ held = << >> /\ pc' = "done"
  /\ UNCHANGED <<held, access, active, transfer, copying, err>>

Next ==
  \/ Acquire \/ Start \/ OpenFile \/ CopyRead \/ CopyWrite \/ Finish \/ Release \/ Return

Spec == Init /\ [][Next]_vars

--------------------------------------------------------------------------------
\* The sink has a prefix of the source at all times: a short write that
\* Stream.Write reports without an error (stream.go:97) ends the copy and
\* never leaves a hole before the bytes that follow.
NoGaps == \A i \in 1 .. Len(sink) : sink[i] = i

\* A command that reports success has moved every byte asked for, and libvirt
\* has confirmed the end of the transfer (main.go:107-121): an error of any
\* step, one of Finish included, reaches the caller.
SuccessMeansAll ==
  pc = "done" /\ ~ err =>
    /\ transfer = "finished"
    /\ Len(sink) = IF length = 0 THEN Size ELSE length

\* "There must not be an active data transfer in progress when releasing the
\* stream" (api/libvirt-api.xml:16069): a transfer under way has its stream, and
\* the deferred function that aborts it (volume-transfer/main.go:92-97), also
\* when a file or Finish has failed; and none is aborted that has finished (121).
EndedBeforeFree ==
  /\ transfer = "started" => Len(held) = Len(Handles)
  /\ active => transfer # "finished"

\* The command ends, with its handles released and its file closed.
CommandEnds == <>(pc = "done" /\ held = << >> /\ ~ file)

--------------------------------------------------------------------------------
(* The inductive invariant                                                  *)

TypeInv ==
  /\ direction \in Direction /\ length \in Nat
  /\ pc \in {"acquire", "start", "open", "read", "write", "finish", "unwind", "done"}
  /\ access \in {"none", "readonly", "full"}
  /\ active \in BOOLEAN /\ file \in BOOLEAN /\ err \in BOOLEAN
  /\ transfer \in {"none", "started", "finished", "aborted"}
  /\ taken \in Nat /\ chunk \in Nat /\ sink \in Seq(Nat)

\* run has the first handles of Handles, all of them once the transfer starts.
HeldInv ==
  /\ \E n \in 0 .. Len(Handles) : held = SubSeq(Handles, 1, n)
  /\ pc = "acquire" => Len(held) < Len(Handles)
  /\ pc \in {"start", "open", "read", "write", "finish"} => Len(held) = Len(Handles)
  /\ pc = "done" => held = << >>

Whole == Len(sink) = IF length = 0 THEN Size ELSE length

\* While it copies, run accounts for every byte it has read: they are in the
\* sink or in the buffer.  It comes to the end without an error with all of them.
CopyInv ==
  /\ NoGaps
  /\ taken <= Size /\ (length # 0 => taken <= length)
  /\ pc \in {"acquire", "start", "open"} => taken = 0
  /\ pc \in {"acquire", "start", "open", "read"} => chunk = 0
  /\ pc \in {"acquire", "start", "open", "read", "write"} => Len(sink) + chunk = taken
  /\ pc = "finish" => Whole
  /\ pc \notin {"unwind", "done"} => ~ err
  /\ pc \in {"unwind", "done"} /\ ~ err => Whole /\ transfer = "finished"

\* The local active of run is true while libvirt has the transfer, or has
\* aborted it itself, and the stream is there to abort it.
EndInv ==
  /\ IF active THEN transfer \in {"started", "aborted"} /\ Len(held) = Len(Handles)
     ELSE transfer # "started"
  /\ pc \in {"acquire", "start"} => ~ active
  /\ pc \in {"open", "read", "write", "finish"} => active /\ transfer = "started"

TransferInv == TypeInv /\ HeldInv /\ CopyInv /\ EndInv
================================================================================
