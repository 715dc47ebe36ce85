# Verification of the hbrs slave firmware

TLA+ models, TLC runs and TLAPS proofs for the program under `src/`: the
firmware of the Hi3532 slave chips of a lecture recorder. A slave captures
video, scales and encodes it, and ships the H.264 frames over PCI into a DMA
window of the master (a Hi3531, another program), which also commands it. Chip 1
has one input (HDMI/VGA behind an ADV7842), chip 3 has three (SDI behind a
TW6874 the master polls for it).

Everything is translated from the code under `src/src`; the SDK (`HI_MPI_*`),
the message driver (`/dev/mcc_userdev`), the DMA engine, the video inputs and
the master are external and modelled from how this code uses them. `PROJECT.json`
maps every definition to its lines.

## 1. The system

| Component | State it keeps | Operations | Threads |
|---|---|---|---|
| `PCIVTrans` (`pciv_trans.cpp`) | `init_`, `run_`, the window positions `pos_info_`, the staging block `buf_`; in the thread `full`, `st`, `venc_chn_full`, `msg_buf`, `msg` | Initialize, Close, TransportData, QueryWritePos, Recv | its own, polling the encoders |
| `Buffer` (`buffer.h`) | the block, `start_pos_`, `end_pos_` | Append, Get, Consume, Clear, Size, FreeSpace | that of its user |
| `PCIVComm` (`pciv_comm.cpp`) | `init_`, three port descriptors | Initialize (EnumChip, OpenPort, WaitConn), Close, Send, Recv | main (command port), transport thread (the other two) |
| `Adv7842` (`adv7842.cpp`) | `init_`, `run_`, `fmt_`, `listener_`, `mux_` | Initialize, GetInputFormat, SetVIFmtListener, Close | its own, polling the chip |
| `Tw6874` (`tw6874.cpp`) | `init_`, `run_`, `now_fmt_`, `run_fmt_`, `listener_`, `mux_` | Initialize, UpdateVIFmt, SetVIFmtListener, Close | its own |
| `VideoInput`, `VIHelper` (`vi.cpp`) | `init_`, `run_`, `params_`; `vo_`, `mux_` | Initialize, Close; OnChange, SetVideoOutput, Start, Stop | its own (watchdog) |
| `VideoOutput`, `VideoProcess` (`vo.cpp`, `vpss.cpp`) | `init_`, `params_`; the SDK's devices, layers, groups and channels, and the one HDMI transmitter | Initialize, Close, StartChannel, StopChannel, StopAllChn, ClearDispBuffer, StartHDMI, StartUserChannel, ... | main, `OnChange()` |
| `VideoEncode`, `MPPSystem` | `init_`, parameters; the SDK's objects behind them | Initialize, Close, Bind, UnBind | main |
| `main.cpp` | `g_Run`, `g_Opt`, `msg`, `msg_buf` | start-up, message loop, teardown, signal handler | main |
| `Utils` (`utils.h`), logger, error codes | none | tables by output mode | |

How they interact:

* main receives `START_TRANS`, `STOP_TRANS`, `CONF_ADV7842`, `QUERY_ADV7842`,
  `QUERY_TW6874`, `SHUTDOWN` and `REBOOT` on the command port and calls the
  components; `join()` in a `Close()` makes it wait for their threads.
* The transport thread and the master exchange `WRITE_DONE` and `READ_DONE` on
  two other ports, and share the window.
* A detector's thread calls `VIHelper::OnChange()` while it holds the
  detector's `mux_`; `OnChange()` closes (joins) and opens `VideoInput`, and
  may blank the screen of a `VideoOutput` that main owns, under `VIHelper`'s `mux_`.
* `VideoInput`'s thread, `VideoOutput` and `VideoInput` themselves have no lock.

What is hard here: three kinds of threads that wait for one another through
`join()` and two mutexes; a ring without a full flag whose reader is another
chip; messages that outlive the session they belong to; byte streams that
nothing frames; calls whose results are ignored; an object that fails halfway
and whose `Close()` then does nothing; an SDK that keeps its state when the
process dies. `PROJECT.json` lists the hazards line by line.

What makes each component correct:

* transport: no block is overwritten before it is read, frames of a channel
  arrive complete, once and in order, the block and the encoders are given
  back, and `Close()` returns, or it is known when it does not;
* buffer: a byte queue, whatever the positions;
* message loop: commands are acted on in order, once; replies are whole;
  a signal or `SHUTDOWN` ends it, if the transport's `Close()` returns;
* signal chain: one caller at a time in the classes without locks, what is
  captured agrees with what the detector reports, nobody waits for ever;
* pipeline: the calls come in an order the SDK accepts, also after a crash, and
  a failure stays in its chain;
* outputs and groups: what `init_` says is open is whole and shows one mode on
  HDMI, device and layer; what is closed has left nothing behind.

## 2. The modules

```
PcivWindow <- PCIVTrans <- MCPCIVTrans          transport
                        <- PCIVTransProofs
FrameStream <= PCIVTrans                        what it promises (<= implements)
            <- FrameStreamProofs
ByteFifo <= MsgBuffer   <- MCMsgBuffer          receive buffer
                        <- MsgBufferProofs
VIHelper <- Adv7842     <- Adv7842Proofs        signal chain of chip 1
         <- Tw6874      <- Tw6874Proofs         signal chain of chip 3
PCIVComm <- CmdLoop     <- CmdLoopProofs        ports and message loop
Pipeline <- MCPipeline                          start-up, teardown, restart
         <- PipelineProofs
Utils <- Devices        <- MCDevices            outputs and scaling groups
                        <- DevicesProofs
```

**PcivWindow** has the arithmetic: `DmaLen` and `EntryLen` (padding of a frame
and its header), `QueryWritePos` (where a block goes in the ring).

**PCIVTrans** is the transport thread, one action per step of its round
(`Loop`, `Select`, `NextChn`, `Store`, `Keep`, `Write`, `Notify`, the three
ways through `Recv`), and main's commands (`Handle`, `Join`, `Open`, `Ack`).
`pc` is the thread's position, `main` and `job` main's. A frame is a channel, a
sequence number and a length; bytes are not modelled, positions are. A length
may exceed what half a window holds: such a frame is left over for ever. Messages
carry a history flag `cur`, true while they belong to the running session,
because the ports outlive sessions; `stale` counts the `READ_DONE`s of other
sessions that were applied. The master may answer, stay silent, or throw away
announcements (a restart of its own). `msg` starts as any member of
`GarbageMsgs`: the code reads it uninitialised when `run_` is cleared. `maxfd`
is compared before it is set: `blind` says that the stack held so large a value
that every `select()` fails.

**FrameStream** is what the transport promises of the frames, without batches,
rounds, positions or answers: a session takes the oldest waiting frames from the
encoders (`Take`) and hands them on (`Announce`), the master reads them in that
order (`Deliver`), and a session that ends, in whatever way, loses what it had
taken and not announced, with at most one frame it was just taking (`Stop`);
what waits in the encoders stays. `PCIVTrans!Stream` maps to it: held are, per
channel, the frames copied to the staging buffer, the one left over, and the
queue of the encoder (`Held`), and taken is the number of those before the queue
(`InThread`); sent is what the session announced and the master has not read
(`Sent`). `Numbers` lists the frames of a channel in a sequence of batches by
the rank of their places (batch, position), not by recursion, so that it can be
proved about. `InOrder` is the consequence a reader wants, numbers that follow
one another without gap or repetition; it is proved of `FrameStream`, and hence
of the transport.

**MsgBuffer** is `Buffer`, byte for byte, with `ByteFifo` as what it promises.

**VIHelper** has `VideoInput`'s thread (one action per SDK call, so that
everything else can come between) and `VIHelper`'s methods as pieces without a
`Spec`. **Adv7842** and **Tw6874** add the detector's thread and main's side.
Formats are an opaque mode (width, height, interlacing) and a frame rate, as
`operator!=` compares the former only. The formats of an input are those
`bt_timings` can produce (`Signals`).

**PCIVComm** has `Initialize` step by step, `Close`, and `Send` cut into the
writes the driver takes. **CmdLoop** is main's loop on a stream of units (a
message is `MsgLen` units). The messages are numbered by the master, as history,
to say which was heard. A message out of step with the stream has an arbitrary type.
`START_TRANS`, `STOP_TRANS` and the end of the program wait in
`pciv_trans->Close()` (`Closing`) until the transport thread has returned; of that
thread the loop sees only whether it runs (`trans`), and `TransEnds` may come at
any time or never: `PCIVTrans` says when never.

**Pipeline** has main's start-up and teardown as a program of steps
(`Startup`, `Teardown`), each a list of SDK calls, and takes one call per
action: so a failure or the death of the process falls between any two. What
the SDK accepts (`Needs`, `CanCreate`, `CanDestroy`) is external: an object is
made once, on what it needs, and not destroyed while something needs it (an
encoder that still receives cannot be unregistered); `HI_MPI_SYS_Exit` clears all.

**Devices** has the same two classes that `Pipeline` sees in one fixed order,
`VideoOutput` and `VideoProcess`, with all their methods, in the hands of a
client that calls them in any order on several objects. A method is a list of
SDK calls made one at a time; a failing one ends `Initialize()` and not
`Close()`. Outputs share one HDMI transmitter; the client has at most one output
on it at a time (main has none there: every `intf_type` is 0, `main.cpp:81`, 130,
134, 138). What the SDK accepts (`Legal`, `Base`) is external.
**Utils** has the three tables by output mode (size, frame rate, HDMI format),
and, external, the timings those formats have on the wire: `Fills` says that a
layer and a format agree, `Agreeing` names the modes for which they do.

## 3. The runs

| Run | Question | Bounds |
|---|---|---|
| `trans_window` | Is the window safe, whatever the master and main do, with late, coalesced and uninitialised messages, and does the thread get out of `Recv`? `NoOverwrite`, `StopAndWait`, `RoomWhileRunning`, the proofs' `IInv`, `RecvReturns` | window 16; an entry of 6 on channel 0, of 4 on channel 1; two messages per port, buffer and read |
| `trans_frames` | Does the transport implement `FrameStream`, with SDK and driver calls that fail, and what does a session lose at its end? `IsFrameStream`, `BlockParses`, `HeldIffFull`, `BlockOwned` | the same lengths; frames numbered modulo 3, one queued per channel |
| `trans_live` | When does `Close()` return, whatever master and encoders do, does a left-over frame leave, is every encoder served? `CloseReturns`, `LeftOverDrains`, `EncodersServed` | one message per port, buffer and read; frames that fill half a window, and frames too long for it |
| `trans_tag` | *violated*: the tag of a left-over frame (finding) | as `trans_frames` |
| `trans_ready` | *violated*: an ACK after a failed Initialize (finding) | as `trans_frames`, `InitFaults` |
| `adv` | Chip 1 with failing SDK and driver calls: `OneCaller`, `ToldBeforeAnswered`, `QuietAtExit`, `MainReturns`, `FollowsSignal` | two modes, one rate |
| `tw` | Chip 3: `OneCaller`, `ActedOnRunFmt`, `DeviceLeftOff`, `MainReturns`, `FollowsMaster` | two modes, two rates |
| `buffer` | `IsFifo` (refinement of `ByteFifo`), `TypeOK` | 5 bytes of 2 values, chunks to 3 |
| `cmd_faults` | `HeardInOrder`, `RepliesOnce`, `RepliesWhole`, `TypeOK` under cut reads, short writes, failing calls | messages of 2 units, buffer of 4 |
| `cmd_polite` | `PoliteHeard`, `SignalEnds`, `ShutdownObeyed`, `DescriptorsOwned`, with a transport thread that returns or never does | messages of 3 units through a port of 4, numbered modulo 2 |
| `pipeline` | `NeverRefused`, `CompleteInLoop`, `CleanBeforeExit`, `NothingLeft`, `TypeOK` | the three chains of chip 3, 2 failures, 2 lives |
| `devices` | `OpenIsWhole`, `ClosedIsGone`, `RefusedOnlyAfterFailure`, with every method in every order | two outputs (18 of the 19 modes on one, main's 1080P25 on the other), one group, 1 failure |

Why the bounds are enough. The window's behaviour depends on how a batch
compares with half a window and on where the ring wraps. The large entry of
channel 0 and the small one of channel 1 do not fit together, so the small one
is left over and then travels in the turn of channel 0, or with another of
channel 1, when the batch fills half a window to the byte; and the blocks wrap.
Two channels are the least with which a left-over frame can meet a turn that is
not its own. Two messages per port, read and buffer are the least with which
`Recv`'s second `Consume()` drops one. Two modes and two rates are the least
with which `operator!=` can be blind to a change, which `tw` has; with one rate
and failing calls `adv` covers what the calls leave behind. A buffer of five
bytes has every relation of two positions, a chunk and the end. Sequence numbers
go round modulo 3, more than the frames that can be lost at a time between two
neighbours. Two failures let one chain, or one call on the way down, fail after
another. Two outputs are the least with which the transmitter passes from one to
another. A polite master has one message under way, so two numbers tell the one
just sent from the one before; the other run numbers modulo 3.

`ThreadFaults = FALSE` in the liveness runs of the transport is the claim
itself: a thread that has returned on an error serves nobody, and `trans_frames`
covers what that leaves behind. The liveness of chip 1 is checked with failing
calls; its properties say what they except.

### What the runs showed

* A left-over frame is announced under the decoder of the channel whose turn it
  is (`pciv_trans.cpp:193`), not its own (`trans_tag`).
* The ACK of `START_TRANS` says nothing of `Initialize()` (`trans_ready`). It
  is right as long as `Initialize()` cannot fail halfway, which is proved.
* `Recv` drops a message that arrives together with the one it returns
  (`main.cpp:49`, `pciv_trans.cpp:32`): `HeardInOrder` says exactly which,
  `PoliteHeard` what the master must do to be heard always.
* `CloseReturns` needs its two exceptions: while a frame is left over the thread
  goes on (`pciv_trans.cpp:117`). Encoders that fall silent then leave it in a
  `select()` that only times out. Encoders that leave a frame over in every
  round, or one frame longer than half the window, keep `join()` waiting as long
  as the master answers. A silent master alone does not, and a thread whose
  `select()` never works does end.
* So a signal, `SHUTDOWN` or `REBOOT` need not end the program: besides
  `WaitConn()`, main can stay for good in the join behind its loop
  (`main.cpp:257`) and in those of `STOP_TRANS` and `START_TRANS`, and nowhere
  else (`SignalEnds`, `ShutdownObeyed`, `HungIn`).
* `EncodersServed` needs the same exception: a left-over frame takes the turn of
  channel 0, and a batch ends at the first frame that does not fit.
* A second `READ_DONE` of an earlier session, or one while the thread drains,
  may move `start_pos` so that an unread block is overwritten: `NoOverwrite`
  promises nothing then. The first one while the session runs does no harm.
* `ToldBeforeAnswered` and `FollowsSignal` need theirs: a change between
  `Initialize()` and `SetVIFmtListener()`, or a detector reopened by
  `CONF_ADV7842` on an input that has lost its signal, is not told to `VIHelper`.
* The tables of `Utils` agree for every mode but 1440x900_60, whose layer is
  1400 columns wide (`utils.h:128`); nothing in the program selects it.
  `TablesAgree` proves it of the other eighteen (`Agreeing`), and `MCDevices`
  opens outputs in these.
* An `Initialize()` of an output that fails after its first call leaves the
  device or the transmitter on, and `Close()` does nothing; every later
  `Initialize()` of it then fails too (`ClosedIsGone` and
  `RefusedOnlyAfterFailure` except objects of which a call has failed).

### Fairness

Threads are scheduled (weak fairness of each thread's next step), and so is
main. In the detector modules main has strong fairness: it waits for `mux_`,
which the detector's thread frees for half a second of sleep in every round, so
a free lock recurs and is not missed for ever. That the master answers and that
the encoders go on encoding are premises, `MasterAnswers` and `EncodersProduce`,
of the properties that need them: an encoder is bound to a video output, which
emits frames with or without an input, but nothing in the repository makes it
do so for ever, and `CloseReturns` does without. In `CmdLoop` nothing is asked of
the master or of the transport thread. Commands, signals and changes of the input
never have fairness.

## 4. What is proved

TLAPS checks these for every value of the constants (under the named
assumptions in the modules, which TLC evaluates in the runs).

`PCIVTransProofs`: `Invariance`, that `IInv` is an invariant of `PCIVTrans`, and
from it `TypeCorrect`, `BlockIsOwned`, `HeldStream`, `OneOutstanding`,
`RoomForEveryBatch` and `AckWhenReady`. None of these is inductive by itself.
`IInv` adds `Lifecycle` (who has the object open, tied to main's position and
the pool), `Scanning` (a channel `select()` reported and the loop has not
reached still has its frame; the staging buffer is empty outside the round that
fills it), `Answers` (only `READ_DONE` comes from the master) and `Outstanding`:
in a running session that has only seen acknowledgements of its own, the ring
is empty and nothing in flight at every step but `Recv`, where at most one
block is, which ends at `end_pos`. That is why the ring, which cannot tell full
from empty, never has to, and why `query write pos failed` cannot happen there.
The proof of a step goes action by action; the lemmas before it say what
dropping, taking and appending a message does to the messages in flight.

`NothingOverwritten` (`NoOverwrite`) needs more, because blocks of a session that
drains, or that has taken one foreign `READ_DONE`, are not one at a time.
`RingInv` is added to `IInv`: read the answers not yet applied and then the
blocks not yet read, oldest first. Those of the session come last in each
(`Sorted`), and they lie in this order in the part of the ring between `Base`
and `end_pos` (`FifoRing`), where `Base` is what the session's last own answer
said, or 0. `Early` and `Misled` say why one foreign answer does no harm: while
messages of an earlier session are about, the session is at its first block,
which lies at 0, and the next goes behind it wherever `start_pos` claims to be.
The arithmetic of the ring is in the lemmas `Grow...` about `QueryWritePos`; the
rest is about sequences that lose some of their elements.

`BlocksParse` (`BlockParses`) is that the entries that are staged, and those of
every block announced in this session and not yet read, lie end to end and fill
it, and that every address the DMA engine is given is aligned. `Spans` says it
by a function of offsets, the ends of the entries, instead of a sum over them:
an entry that is appended extends the function by one place. The lemmas about
`DmaLen`, `EntryLen` and `QueryWritePos` give the alignment.

`ImplementsFrameStream` is the refinement, `Spec => IsFrameStream`. What it
stands on is `NumbersCat`: the frames in the batches `a \o b` are those in `a`
and then those in `b`. It is proved without induction, by a list of all places
in order (`Lists`): `ListRank` says that ranks read such a list off, `ListExists`
that every finite set of places has one, and the list of `a \o b` is that of `a`
followed by that of `b` moved up. `NumbersMore` is the same for an entry that is
copied behind others, `NumbersLast` for what the master saw last. The step needs
`IInv` and `Streams`: an encoder's queue has its own frames, no session begins
with a frame left over, and an announcement of another session counts for none.
Then `Store` and `Keep` move a frame within `Held` (`TurnMoves`): they are `Take`
for the next frame of a channel (`TurnTakes`) and stutter for the one left over.
`Notify` is `Announce`, `MasterReads` is `Deliver`, `Open` is `Start`, and every
way out of the thread is `Stop`, with the frames the thread had (`StreamStops`);
one that fails in `Store` had taken one more. All else stutters.

`FrameStreamProofs`: `Order`, that `FrameStream` keeps `InOrder`, for every set
of channels, modulus and length of the queues. `PCIVTransProofs` takes it at the
mapping: `FramesInOrder`, `Spec => []Stream!InOrder`, says of the batches of
`pciv_trans.cpp` what their reader depends on, for every number of channels,
window, port and set of lengths, with every failure of the thread's calls.

`Adv7842Proofs`, `Tw6874Proofs`: the invariant of each chain, its types, and
`OneCaller`, `ToldBeforeAnswered` and `QuietAtExit`, respectively `OneCaller`,
`ActedOnRunFmt` and `DeviceLeftOff`. The invariants tie together who holds
`mux_` and where main and the callback are (`LockHeld`), what main has undone at
each step of its teardown (`TeardownOrder`), that `OnChange()` blanks only an
open output (`ScreenOpen`), and what the detector recorded with what `VIHelper`
was told (`ToldAndDone`, `Passed`). What `VideoInput`'s thread and `OnChange()`
keep true by themselves is stated at the end of `VIHelper`, once for both, and
proved of each chip's steps.

`MsgBufferProofs`: `TypeCorrect` (no `memcpy` or `memmove` of `Buffer` leaves
the block) and `Refinement` (`Buffer` implements `ByteFifo`), for every capacity
and every set of chunks. The step is one lemma per operation on `Held`, the
bytes between the positions.

`CmdLoopProofs`: every safety property the two runs of `CmdLoop` check, for
every message length, port, buffer and temporary block: `TypeCorrect`,
`DescriptorsHeld`, `SingleReplies`, `WholeReplies`, `InOrder` and `PoliteIsHeard`.
The invariant says which descriptors each step of `Initialize()` holds, at which
position of the loop a reply is owed (also while main waits for a join), and that the bytes in the port and in
`msg_buf` are in step with the messages' numbers until an `Append()` fails. A
buffer that holds at least one message is the assumption behind the last.

`PipelineProofs`: every safety property of the run `pipeline`, for any chains,
any number of failures and of lives: `TypeCorrect`, `OrderIsRight`
(`NeverRefused`), `FailuresStayInTheirChain` (`CompleteInLoop`),
`TeardownIsComplete` (`CleanBeforeExit`) and `NothingStays` (`NothingLeft`). The
one assumption is that the chains are distinct, as main's are. The invariant
speaks of main's position in its program of steps. `ChainsWhole`: of a chain
without a failure the SDK has exactly the objects whose call lies behind main
and whose destruction before it (`Expected`), and `init_` of each class is set
exactly between the two. `SystemUp`: how far `MPPSystem` has come, when none of
its calls failed; before that, what an earlier process left may be anything.
`Shared`: a failure of `MPPSystem` or of the transport is one of every chain, so
that after the death of the transport's thread only `NothingLeft` promises anything.
What a call meets follows from it, so none is refused while its own chain is
sound (`NeverRefused`, which is part of the invariant). The lemmas about
`Program` say which step stands at which position, for any number of chains; that
the teardown undoes in reverse is read off the positions (`UpStep`, `DownStep`).

`DevicesProofs`: `TypeCorrect`, `OpenStaysWhole` (`OpenIsWhole`),
`ClosedStaysGone` (`ClosedIsGone`) and `FailureComesFirst`
(`RefusedOnlyAfterFailure`), for every set of outputs and groups, every number of
channels and of failures; and `TablesAgree`, mode by mode. None of the three is
inductive, since a method is many calls. The invariant says of the list of calls
that is left: while `Initialize()` runs, every part of the object exists or its
call waits (`Opening`); after it everything stays until `Close()` (`StaysWhole`),
which destroys every part or has the call waiting (`Closing`); a closed object
of which nothing failed has no part (`Clean`). `Accepted` is what makes these
true together: for an object without a failure, every call that is left is legal
in the state that the calls before it will have made. The lemmas before it prove
that of the whole list each method begins with, and that it survives a call made
or refused. `OneOnHdmi` keeps the transmitter's calls to one output.
`OpenStaysWhole` assumes that the modes the outputs are opened in are of
`Agreeing`; nothing in the program selects the other one.

Only model-checked: everything under fairness, as liveness and `ENABLED` are
outside what this prover does. So is induction over recursive definitions; the
modules that are proved about have none.

## 5. What is not modelled

* Logging and error codes: no state.
* `Utils::Align` (it sizes the blocks of the video-buffer pool, `mpp.cpp:243`)
  and `Utils::GetSteadyMilliSeconds` (no caller).
* The contents of frames, sizes and rectangles handed to the SDK, the sizes and
  rates of user channels: they change nothing another part reads.
* `VIHelper::Start`: its two calls are compiled out (`main.cpp:77`, `main.cpp:111`);
  it would be `OnChangeOpen` without the lock.
* The data race on `run_` (a plain `bool` written by another thread) beyond
  reading it late: the models let any step come between.
* What happens to `msg_buf`'s memory when it is freed after `HI_MPI_SYS_Exit`,
  and what `HI_MPI_VENC_GetFd` does for a channel that was never created
  (the transport opens four, `pciv_trans.cpp:91`): the repository does not say.
  `PCIVTrans` takes both outcomes of the latter.

## 6. Plan

Done: the transport with the frame stream it implements, the buffer, the signal
chains, the message loop, the pipeline and the devices; every safety invariant,
action property and refinement that a passing run checks is a theorem.

Next: the transport's ports with `PCIVComm`'s partial writes, in one module.
