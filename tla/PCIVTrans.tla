------------------------------ MODULE PCIVTrans ------------------------------
(***************************************************************************)
(* class PCIVTrans: the thread that batches encoded frames into a staging  *)
(* buffer, writes each batch into the master's DMA window, announces it    *)
(* with WRITE_DONE and waits for READ_DONE; and the main thread, which     *)
(* closes and reopens the transport on START_TRANS / STOP_TRANS and closes *)
(* it at exit.                                                             *)
(*                                                                         *)
(* External, modelled from how the code uses them: the encoders (a bounded *)
(* queue of frames per channel), the master (answers a WRITE_DONE with a   *)
(* READ_DONE that echoes its end position) and the two message ports.      *)
(*                                                                         *)
(* The port descriptors outlive a session, so a message of an earlier      *)
(* session can be read in a later one.  The field cur of a message is      *)
(* history: TRUE while the message belongs to the running session.         *)
(***************************************************************************)
EXTENDS PcivWindow, Sequences, FiniteSets

CONSTANTS
  NChn,         \* encoder channels the thread polls (4)
  Encoders,     \* channels that have an encoder: {0} on chip 1, 0..2 on chip 3
  VdecChn,      \* the VENC-to-VDEC map of the chip, a function on Encoders
  FrameLens,    \* for each encoder, the lengths its frames may have
  FrameMod,     \* frames of a channel are numbered modulo FrameMod
  MaxStreamCnt, \* frames an encoder queues (HI_MPI_VENC_SetMaxStreamCnt)
  PortCap,      \* messages a port holds before a non-blocking write fails
  MsgCap,       \* whole messages msg_buf holds (1024 \div sizeof(Msg))
  MaxCoalesce,  \* messages one read may return
  VBBlkCnt,     \* blocks of the video-buffer pool that fit the staging buffer
  GarbageMsgs,  \* what the uninitialised msg of the thread may hold
  InitFaults,   \* may Handle2PhysAddr or Mmap fail?
  ThreadFaults  \* may an SDK or driver call of the thread fail?

Chns == 0 .. NChn - 1
Commands == {"START_TRANS", "STOP_TRANS", "EXIT"}

Frame == [chn : Chns, seq : 0 .. FrameMod - 1, len : UNION {FrameLens[c] : c \in Encoders}]
NoFrame == [chn |-> -1, seq |-> 0, len |-> 0]
Entry == [vdec : Int, chn : Chns, seq : 0 .. FrameMod - 1, size : Nat]
Note == [cur : BOOLEAN, start : Int, end : Int, body : Seq(Entry)]
Msg == [type : {"READ_DONE", "OTHER"}, cur : BOOLEAN, end : Int]
NoMsg == [type |-> "OTHER", cur |-> FALSE, end |-> 0]

ASSUME TransAssumption ==
  /\ NChn \in Nat \ {0}
  /\ Encoders \subseteq Chns
  /\ VdecChn \in [Encoders -> Int]
  /\ FrameLens \in [Encoders -> SUBSET Nat]
  /\ FrameMod \in Nat \ {0}
  /\ MaxStreamCnt \in Nat \ {0}
  /\ PortCap \in Nat \ {0}
  /\ MsgCap \in Nat \ {0}
  /\ MaxCoalesce \in Nat \ {0}
  /\ VBBlkCnt \in Nat \ {0}
  /\ GarbageMsgs \subseteq Msg
  /\ GarbageMsgs # {}
  /\ \A m \in GarbageMsgs : ~m.cur
  /\ InitFaults \in BOOLEAN
  /\ ThreadFaults \in BOOLEAN

VARIABLES
  \* the main thread and the members of the object
  main,      \* "idle", "join", "open", "ack" or "gone"
  job,       \* the command whose Close() waits in join, or "NONE"
  init,      \* init_
  run,       \* run_
  vbFree,    \* free blocks of the pool
  startPos,  \* pos_info_.start_pos
  endPos,    \* pos_info_.end_pos
  buf,       \* the entries in the staging buffer
  blen,      \* buf_.len
  \* the locals of the transport thread
  pc, i, ready, full, st, msg, msgBuf,
  blind,     \* select() fails: maxfd was garbage too large for it
  \* encoders, ports, master
  venc, encSeq, receiving, toMaster, toSlave, seen,
  \* history: READ_DONEs applied in this session that acknowledge none of its
  \* blocks (counted up to 2)
  stale

mainVars   == <<main, job, init, run, vbFree>>
stageVars  == <<buf, blen>>
threadVars == <<i, ready, full, st, msg, msgBuf, blind>>
encVars    == <<venc, encSeq, receiving>>
vars == <<mainVars, startPos, endPos, stageVars, pc, threadVars, encVars,
          toMaster, toSlave, seen, stale>>

Alive == {"begin", "loop", "select", "scan", "write", "notify", "recv"}
Ended == {"done", "failed"}

Init ==
  /\ main = "idle" /\ job = "NONE" /\ init = FALSE /\ run = FALSE
  /\ vbFree = VBBlkCnt
  /\ startPos = 0 /\ endPos = 0 /\ buf = <<>> /\ blen = 0
  /\ pc = "off" /\ i = 0 /\ ready = {} /\ full = FALSE /\ st = NoFrame
  /\ msg = NoMsg /\ msgBuf = <<>> /\ blind = FALSE
  /\ venc = [c \in Chns |-> <<>>] /\ encSeq = [c \in Chns |-> 0]
  /\ receiving = {}
  /\ toMaster = <<>> /\ toSlave = <<>> /\ seen = [c \in Chns |-> -1]
  /\ stale = 0

-----------------------------------------------------------------------------
(* The main thread.  Close() comes first for every command. *)

AfterClose(cmd) == CASE cmd = "START_TRANS" -> "open"
                     [] cmd = "STOP_TRANS"  -> "idle"
                     [] cmd = "EXIT"        -> "gone"

Handle(cmd) ==
  /\ main = "idle"
  /\ IF init THEN run' = FALSE /\ main' = "join" /\ job' = cmd
             ELSE main' = AfterClose(cmd) /\ UNCHANGED <<run, job>>
  /\ UNCHANGED <<init, vbFree, startPos, endPos, stageVars, pc, threadVars,
                 encVars, toMaster, toSlave, seen, stale>>

(* Mutant: Close() forgets HI_MPI_VB_ReleaseBlock.                           *)
JoinKeepsBlock ==
  /\ main = "join" /\ pc \in Ended
  /\ pc' = "off"
  /\ i' = 0 /\ ready' = {} /\ full' = FALSE /\ st' = NoFrame
  /\ msg' = NoMsg /\ msgBuf' = <<>> /\ blind' = FALSE
  /\ init' = FALSE
  /\ main' = AfterClose(job) /\ job' = "NONE"
  /\ UNCHANGED <<run, vbFree, startPos, endPos, stageVars, encVars, toMaster,
                 toSlave, seen, stale>>

(* Close() past join(): unmap, release the block, init_ = false.  The locals *)
(* of the thread are gone with it.                                           *)
Join ==
  /\ main = "join" /\ pc \in Ended
  /\ pc' = "off"
  /\ i' = 0 /\ ready' = {} /\ full' = FALSE /\ st' = NoFrame
  /\ msg' = NoMsg /\ msgBuf' = <<>> /\ blind' = FALSE
  /\ init' = FALSE
  /\ vbFree' = vbFree + 1
  /\ main' = AfterClose(job) /\ job' = "NONE"
  /\ UNCHANGED <<run, startPos, endPos, stageVars, encVars, toMaster, toSlave,
                 seen, stale>>

(* A session ends: its messages stay in the ports, its blocks are forgotten. *)
RetireNotes(q) == [k \in DOMAIN q |-> [q[k] EXCEPT !.cur = FALSE, !.body = <<>>]]
RetireMsgs(q) == [k \in DOMAIN q |-> [q[k] EXCEPT !.cur = FALSE]]

(* Initialize(): positions and buffer are cleared, then the block is taken, *)
(* mapped, and the thread is created.  A failure after GetBlock keeps the   *)
(* block without an owner.  The caller ignores the result.                  *)
Open ==
  /\ main = "open"
  /\ main' = "ack"
  /\ startPos' = 0 /\ endPos' = 0 /\ buf' = <<>> /\ blen' = 0
  /\ toMaster' = RetireNotes(toMaster) /\ toSlave' = RetireMsgs(toSlave)
  /\ seen' = [c \in Chns |-> -1] /\ stale' = 0
  /\ \/ /\ vbFree > 0
        /\ vbFree' = vbFree - 1
        /\ run' = TRUE /\ init' = TRUE /\ pc' = "begin"
     \/ /\ vbFree = 0
        /\ UNCHANGED <<vbFree, run, init, pc>>
     \/ /\ InitFaults /\ vbFree > 0
        /\ vbFree' = vbFree - 1
        /\ UNCHANGED <<run, init, pc>>
  /\ UNCHANGED <<job, threadVars, encVars>>

(* The ACK goes out whatever Initialize() returned. *)
Ack ==
  /\ main = "ack"
  /\ main' = "idle"
  /\ UNCHANGED <<job, init, run, vbFree, startPos, endPos, stageVars, pc,
                 threadVars, encVars, toMaster, toSlave, seen, stale>>

-----------------------------------------------------------------------------
(* The transport thread. *)

(* GetFd and StartRecvPic for each channel in turn, then the locals.  maxfd *)
(* is compared with the descriptors and never set before: it ends up as the *)
(* largest of them, or as what the stack held.                              *)
Begin ==
  /\ pc = "begin"
  /\ blind' \in BOOLEAN
  /\ full' = FALSE /\ st' = NoFrame /\ msgBuf' = <<>> /\ msg' \in GarbageMsgs
  /\ \/ pc' = "loop" /\ receiving' = Chns
     \/ /\ ThreadFaults
        /\ \E c \in Chns : receiving' = receiving \cup (0 .. c - 1)
        /\ pc' = "failed"
  /\ UNCHANGED <<mainVars, startPos, endPos, stageVars, i, ready, venc, encSeq,
                 toMaster, toSlave, seen, stale>>

(* Mutant: the encoders are restarted at the end and lose what they queue.  *)
LoopResetsEncoders ==
  /\ pc = "loop"
  /\ IF run \/ full THEN pc' = "select" /\ UNCHANGED <<receiving, venc>>
                    ELSE pc' = "done" /\ receiving' = {} /\ venc' = [c \in Chns |-> <<>>]
  /\ UNCHANGED <<mainVars, startPos, endPos, stageVars, threadVars, encSeq,
                 toMaster, toSlave, seen, stale>>

(* Mutant: while (run_).                                                    *)
LoopForgetsFull ==
  /\ pc = "loop"
  /\ IF run THEN pc' = "select" /\ UNCHANGED receiving
            ELSE pc' = "done" /\ receiving' = {}
  /\ UNCHANGED <<mainVars, startPos, endPos, stageVars, threadVars, venc, encSeq,
                 toMaster, toSlave, seen, stale>>

(* while (run_ || full), and StopRecvPic after it. *)
Loop ==
  /\ pc = "loop"
  /\ IF run \/ full THEN pc' = "select" /\ UNCHANGED receiving
                    ELSE pc' = "done" /\ receiving' = {}
  /\ UNCHANGED <<mainVars, startPos, endPos, stageVars, threadVars, venc, encSeq,
                 toMaster, toSlave, seen, stale>>

(* select() on the encoder descriptors, with its one-second timeout. *)
Select ==
  /\ pc = "select"
  /\ LET readable == {c \in Chns : venc[c] # <<>>}
     IN  IF blind \/ readable = {}
         THEN pc' = "loop" /\ UNCHANGED <<ready, i>>
         ELSE pc' = "scan" /\ ready' = readable /\ i' = 0
  /\ UNCHANGED <<mainVars, startPos, endPos, stageVars, full, st, msg, msgBuf,
                 blind, encVars, toMaster, toSlave, seen, stale>>

(* Mutant: the last channel gets no turn.                                   *)
NextChnStopsEarly ==
  IF i + 2 >= NChn THEN pc' = "write" /\ i' = 0 /\ ready' = {}
                   ELSE pc' = "scan" /\ i' = i + 1 /\ UNCHANGED ready

(* The for loop over the channels: on to the next one, or to TransportData. *)
NextChn ==
  IF i + 1 = NChn THEN pc' = "write" /\ i' = 0 /\ ready' = {}
                  ELSE pc' = "scan" /\ i' = i + 1 /\ UNCHANGED ready

Skip ==
  /\ pc = "scan" /\ ~full /\ i \notin ready
  /\ NextChn
  /\ UNCHANGED <<mainVars, startPos, endPos, stageVars, full, st, msg, msgBuf,
                 blind, encVars, toMaster, toSlave, seen, stale>>

(* HI_MPI_VENC_Query or GetStream fails. *)
FetchFails ==
  /\ ThreadFaults
  /\ pc = "scan" /\ ~full /\ i \in ready
  /\ pc' = "failed"
  /\ UNCHANGED <<mainVars, startPos, endPos, stageVars, threadVars, encVars,
                 toMaster, toSlave, seen, stale>>

(* The frame this turn handles: the one left over (st, whose chn stands for *)
(* venc_chn_full), or the next one of channel i.                            *)
TurnFrame == IF full THEN st ELSE Head(venc[i])

(* std::map::operator[] yields 0 for a channel the map does not hold.  It is *)
(* indexed with i, also when the frame is the left-over one.                 *)
VdecOf(c) == IF c \in Encoders THEN VdecChn[c] ELSE 0

(* Mutant: a frame that fills the buffer to the last byte does not fit.     *)
FitsOffByOne(f) == ~(Half - blen <= EntryLen(f.len))

Fits(f) == ~(Half - blen < EntryLen(f.len))

Take == venc' = IF full THEN venc ELSE [venc EXCEPT ![i] = Tail(@)]

(* Copy the frame behind its StreamInfo and release the stream. *)
Store ==
  /\ pc = "scan" /\ (full \/ i \in ready) /\ Fits(TurnFrame)
  /\ Take
  /\ full' = FALSE /\ st' = NoFrame
  /\ buf' = Append(buf, [vdec |-> VdecOf(i), chn |-> TurnFrame.chn,
                         seq |-> TurnFrame.seq, size |-> EntryLen(TurnFrame.len)])
  /\ blen' = blen + EntryLen(TurnFrame.len)
  /\ \/ NextChn
     \/ ThreadFaults /\ pc' = "failed" /\ UNCHANGED <<i, ready>>
  /\ UNCHANGED <<mainVars, startPos, endPos, msg, msgBuf, blind, encSeq, receiving,
                 toMaster, toSlave, seen, stale>>

(* Mutant: the frame that does not fit is given up.                          *)
KeepDropsFrame ==
  /\ pc = "scan" /\ (full \/ i \in ready) /\ ~Fits(TurnFrame)
  /\ Take
  /\ full' = FALSE /\ st' = NoFrame
  /\ pc' = "write" /\ i' = 0 /\ ready' = {}
  /\ UNCHANGED <<mainVars, startPos, endPos, stageVars, msg, msgBuf, blind,
                 encSeq, receiving, toMaster, toSlave, seen, stale>>

(* No room: keep the stream for the next round and break. *)
Keep ==
  /\ pc = "scan" /\ (full \/ i \in ready) /\ ~Fits(TurnFrame)
  /\ Take
  /\ full' = TRUE /\ st' = TurnFrame
  /\ pc' = "write" /\ i' = 0 /\ ready' = {}
  /\ UNCHANGED <<mainVars, startPos, endPos, stageVars, msg, msgBuf, blind,
                 encSeq, receiving, toMaster, toSlave, seen, stale>>

(* TransportData() up to the DMA task; HI_ERR_PCIV_BUSY is retried. *)
Write ==
  /\ pc = "write"
  /\ LET wp == QueryWritePos(startPos, endPos, blen)
     IN  \/ wp = NoRoom /\ pc' = "failed" /\ UNCHANGED endPos
         \/ wp # NoRoom /\ endPos' = wp + blen /\ pc' = "notify"
         \/ ThreadFaults /\ pc' = "failed" /\ UNCHANGED endPos
  /\ UNCHANGED <<mainVars, startPos, stageVars, threadVars, encVars, toMaster,
                 toSlave, seen, stale>>

(* The block the DMA just wrote, before it is announced. *)
Written == [cur |-> TRUE, start |-> endPos - blen, end |-> endPos, body |-> buf]

(* TransportData() from Send(WRITE_DONE): the port is non-blocking, so a    *)
(* full one makes write() fail.                                             *)
Notify ==
  /\ pc = "notify"
  /\ \/ /\ Len(toMaster) < PortCap
        /\ toMaster' = Append(toMaster, Written)
        /\ blen' = 0 /\ buf' = <<>>
        /\ pc' = "recv"
     \/ /\ ThreadFaults \/ Len(toMaster) >= PortCap
        /\ pc' = "failed"
        /\ UNCHANGED <<toMaster, stageVars>>
  /\ UNCHANGED <<mainVars, startPos, endPos, threadVars, encVars, toSlave, seen,
                 stale>>

(* Get() already consumes what it returns, so the Consume() behind it drops *)
(* the next message if msg_buf holds a whole one.                           *)
AfterGetAndConsume(q) == SubSeq(q, 3, Len(q))

(* Mutant: the READ_DONE does not move start_pos.                           *)
DispatchKeepsStart(m) ==
  /\ pc' = "loop"
  /\ msg' = m
  /\ stale' = IF m.type # "READ_DONE" \/ m.cur \/ stale = 2 THEN stale ELSE stale + 1
  /\ UNCHANGED startPos

Dispatch(m) ==
  /\ pc' = "loop"
  /\ msg' = m
  /\ IF m.type = "READ_DONE"
     THEN /\ startPos' = m.end
          /\ stale' = IF m.cur \/ stale = 2 THEN stale ELSE stale + 1
     ELSE UNCHANGED <<startPos, stale>>

(* Mutant: a message that arrives alone is consumed unread.                 *)
RecvReadLosesOne ==
  /\ pc = "recv"
  /\ \E k \in 1 .. MaxCoalesce :
       /\ k <= Len(toSlave)
       /\ toSlave' = SubSeq(toSlave, k + 1, Len(toSlave))
       /\ LET got == msgBuf \o SubSeq(toSlave, 1, k)
          IN  IF Len(got) = 2
              THEN Dispatch(got[1]) /\ msgBuf' = AfterGetAndConsume(got)
              ELSE msgBuf' = <<>> /\ UNCHANGED <<pc, msg, startPos, stale>>
  /\ UNCHANGED <<mainVars, endPos, stageVars, i, ready, full, st, blind, encVars,
                 toMaster, seen>>

(* Recv(): one read() returns one or more messages ... *)
RecvRead ==
  /\ pc = "recv"
  /\ \E k \in 1 .. MaxCoalesce :
       /\ k <= Len(toSlave)
       /\ toSlave' = SubSeq(toSlave, k + 1, Len(toSlave))
       /\ LET got == msgBuf \o SubSeq(toSlave, 1, k)
          IN  IF Len(got) > MsgCap
              THEN pc' = "failed" /\ UNCHANGED <<msg, msgBuf, startPos, stale>>
              ELSE Dispatch(got[1]) /\ msgBuf' = AfterGetAndConsume(got)
  /\ UNCHANGED <<mainVars, endPos, stageVars, i, ready, full, st, blind, encVars,
                 toMaster, seen>>

(* ... or nothing for 500 ms.  Without a message the loop ends only when    *)
(* run_ is false, and the caller then looks at msg as it was.               *)
(* Mutants: a timeout ends the wait; a timeout never ends it.               *)
RecvTimeoutGivesUp ==
  /\ pc = "recv" /\ toSlave = <<>>
  /\ IF msgBuf # <<>>
     THEN Dispatch(Head(msgBuf)) /\ msgBuf' = AfterGetAndConsume(msgBuf)
     ELSE Dispatch(msg) /\ UNCHANGED msgBuf
  /\ UNCHANGED <<mainVars, endPos, stageVars, i, ready, full, st, blind, encVars,
                 toMaster, toSlave, seen>>

RecvTimeoutIgnoresRun ==
  /\ pc = "recv" /\ toSlave = <<>>
  /\ msgBuf # <<>>
  /\ Dispatch(Head(msgBuf)) /\ msgBuf' = AfterGetAndConsume(msgBuf)
  /\ UNCHANGED <<mainVars, endPos, stageVars, i, ready, full, st, blind, encVars,
                 toMaster, toSlave, seen>>

RecvTimeout ==
  /\ pc = "recv" /\ toSlave = <<>>
  /\ IF msgBuf # <<>>
     THEN Dispatch(Head(msgBuf)) /\ msgBuf' = AfterGetAndConsume(msgBuf)
     ELSE ~run /\ Dispatch(msg) /\ UNCHANGED msgBuf
  /\ UNCHANGED <<mainVars, endPos, stageVars, i, ready, full, st, blind, encVars,
                 toMaster, toSlave, seen>>

RecvFails ==
  /\ ThreadFaults
  /\ pc = "recv"
  /\ pc' = "failed"
  /\ UNCHANGED <<mainVars, startPos, endPos, stageVars, threadVars, encVars,
                 toMaster, toSlave, seen, stale>>

Thread ==
  \/ Begin \/ Loop \/ Select \/ Skip \/ FetchFails \/ Store \/ Keep
  \/ Write \/ Notify \/ RecvRead \/ RecvTimeout \/ RecvFails

-----------------------------------------------------------------------------
(* External: the encoders and the master. *)

Encode(c, l) ==
  /\ c \in receiving /\ Len(venc[c]) < MaxStreamCnt
  /\ venc' = [venc EXCEPT ![c] = Append(@, [chn |-> c, seq |-> encSeq[c], len |-> l])]
  /\ encSeq' = [encSeq EXCEPT ![c] = (@ + 1) % FrameMod]
  /\ UNCHANGED <<mainVars, startPos, endPos, stageVars, pc, threadVars, receiving,
                 toMaster, toSlave, seen, stale>>

(* The number of the last frame of channel c in body, or s. *)
LastSeen(s, body, c) ==
  LET mine == {k \in DOMAIN body : body[k].chn = c}
  IN  IF mine = {} THEN s
      ELSE body[CHOOSE k \in mine : \A j \in mine : j <= k].seq

MasterReads ==
  /\ toMaster # <<>> /\ Len(toSlave) < PortCap
  /\ LET n == Head(toMaster)
     IN  /\ toSlave' = Append(toSlave, [type |-> "READ_DONE", cur |-> n.cur,
                                        end |-> n.end])
         /\ seen' = IF n.cur THEN [c \in Chns |-> LastSeen(seen[c], n.body, c)]
                             ELSE seen
  /\ toMaster' = Tail(toMaster)
  /\ UNCHANGED <<mainVars, startPos, endPos, stageVars, pc, threadVars, encVars,
                 stale>>

(* A master that has restarted may throw an old announcement away. *)
MasterDiscards ==
  /\ toMaster # <<>> /\ ~Head(toMaster).cur
  /\ toMaster' = Tail(toMaster)
  /\ UNCHANGED <<mainVars, startPos, endPos, stageVars, pc, threadVars, encVars,
                 toSlave, seen, stale>>

(* main() has returned. *)
Exited == main = "gone" /\ UNCHANGED vars

Main == (\E cmd \in Commands : Handle(cmd)) \/ Join \/ Open \/ Ack

Next ==
  \/ Main
  \/ Thread
  \/ \E c \in Encoders : \E l \in FrameLens[c] : Encode(c, l)
  \/ MasterReads \/ MasterDiscards
  \/ Exited

Spec == Init /\ [][Next]_vars

(***************************************************************************)
(* The threads are scheduled.  Nothing is assumed of the commands; what a  *)
(* property needs of the encoders and of the master is its premise.        *)
(***************************************************************************)
Fairness ==
  /\ WF_vars(Thread)
  /\ WF_vars(Join \/ Open \/ Ack)

FairSpec == Spec /\ Fairness

-----------------------------------------------------------------------------
(* Properties. *)

TypeOK ==
  /\ main \in {"idle", "join", "open", "ack", "gone"}
  /\ job \in Commands \cup {"NONE"}
  /\ init \in BOOLEAN /\ run \in BOOLEAN
  /\ vbFree \in 0 .. VBBlkCnt
  /\ startPos \in Int /\ endPos \in Nat
  /\ buf \in Seq(Entry) /\ blen \in 0 .. Half
  /\ pc \in Alive \cup Ended \cup {"off"}
  /\ i \in Chns /\ ready \subseteq Chns /\ full \in BOOLEAN
  /\ st \in Frame \cup {NoFrame}
  /\ msg \in Msg /\ msgBuf \in Seq(Msg) /\ blind \in BOOLEAN
  /\ venc \in [Chns -> Seq(Frame)] /\ encSeq \in [Chns -> 0 .. FrameMod - 1]
  /\ receiving \subseteq Chns
  /\ toMaster \in Seq(Note) /\ toSlave \in Seq(Msg)
  /\ seen \in [Chns -> -1 .. FrameMod - 1]
  /\ stale \in 0 .. 2

(* The messages of q that belong to the running session. *)
Cur(q) == {k \in DOMAIN q : q[k].cur}

(* The blocks of the session that pos_info_.start_pos has not passed yet:   *)
(* announced, answered, or answered and waiting in msg_buf.                 *)
InFlight(p, q, r) ==
  ({"toMaster"} \X Cur(p)) \cup ({"toSlave"} \X Cur(q)) \cup ({"msgBuf"} \X Cur(r))
Unacked == InFlight(toMaster, toSlave, msgBuf)

(* The blocks of the session that the master has still to read. *)
Unread ==
  {toMaster[k] : k \in Cur(toMaster)} \cup (IF pc = "notify" THEN {Written} ELSE {})

Apart(a, b) == a.end <= b.start \/ b.end <= a.start

(***************************************************************************)
(* The inductive invariant behind TypeOK, BlockOwned, HeldIffFull,          *)
(* StopAndWait and RoomWhileRunning, part by part.                          *)
(***************************************************************************)

(* Who has the object open: init_ is set exactly while the thread exists,   *)
(* and run_ only then and while no command closes it.                       *)
Lifecycle ==
  /\ init <=> pc # "off"
  /\ init => vbFree < VBBlkCnt
  /\ ~InitFaults => vbFree = VBBlkCnt - (IF init THEN 1 ELSE 0)
  /\ run => init /\ main \in {"idle", "ack"}
  /\ main \in {"open", "gone"} => ~init
  /\ main = "join" => init
  /\ main = "join" <=> job # "NONE"
  /\ main = "ack" /\ ~InitFaults => init

(* The locals: full means that st holds a stream, a channel that select()   *)
(* reported and the loop has not reached still has its frame, and the       *)
(* staging buffer is empty outside the round that fills it.                 *)
Scanning ==
  /\ full <=> st # NoFrame
  /\ pc = "scan" => \A c \in ready : c >= i => venc[c] # <<>>
  /\ pc \in {"begin", "loop", "select", "recv", "done"} => blen = 0
  /\ pc = "done" => ~full /\ receiving = {}
  /\ pc = "off" => msgBuf = <<>>

(* Nothing but answers comes from the master.                               *)
Answers ==
  /\ \A k \in DOMAIN toSlave : toSlave[k].type = "READ_DONE"
  /\ \A k \in DOMAIN msgBuf : msgBuf[k].type = "READ_DONE"

(* While the session runs and only its own blocks were acknowledged, the    *)
(* ring is empty and nothing is in flight, except in Recv (and when the     *)
(* thread has failed), where one block is, and ends at end_pos.             *)
Outstanding ==
  run /\ stale = 0 =>
    /\ pc \in Alive \ {"notify", "recv"} => startPos = endPos
    /\ pc \in Alive \ {"recv"} => Unacked = {}
    /\ pc = "recv" =>
         /\ \A k \in Cur(toMaster) : toMaster[k].end = endPos
         /\ \A k \in Cur(toSlave) : toSlave[k].end = endPos
         /\ \A k \in Cur(msgBuf) : msgBuf[k].end = endPos
    /\ \A x, y \in Unacked : x = y

IInv == TypeOK /\ Lifecycle /\ Scanning /\ Answers /\ Outstanding

(* No block is written over one the master has still to read, and every     *)
(* block lies inside the window.  QueryWritePos trusts the READ_DONEs for   *)
(* that.  While the session runs, one that acknowledges no block of it does *)
(* no harm yet; a second one can, and so can one when the thread only       *)
(* drains and no longer waits for answers.                                  *)
NoOverwrite ==
  stale <= (IF run THEN 1 ELSE 0) =>
    /\ \A n \in Unread : 0 <= n.start /\ n.end <= Window
    /\ \A m, n \in Unread : m # n => Apart(m, n)

(* Recv blocks until an answer comes: while the session runs, and as long   *)
(* as only its own blocks were acknowledged, one block is outstanding.      *)
StopAndWait ==
  run /\ stale = 0 => \A x, y \in Unacked : x = y

(* So the path that ends the thread with KNotEnoughBuf ("query write pos    *)
(* failed") is dead: half a window always fits into an empty ring.          *)
RoomWhileRunning ==
  pc = "write" /\ run /\ stale = 0 => QueryWritePos(startPos, endPos, blen) # NoRoom

(* The entries of body, one behind the other from offset 0, end at len.     *)
Spans(body, len) ==
  \E at \in [0 .. Len(body) -> 0 .. len] :
    /\ at[0] = 0 /\ at[Len(body)] = len
    /\ \A k \in 1 .. Len(body) : at[k] = at[k - 1] + body[k].size

Aligned(pos) == pos % DmaAlign = 0

(* The master walks a block from header to header by align_len: the entries *)
(* fill what is staged, written or announced exactly, and every DMA address *)
(* is aligned.                                                              *)
BlockParses ==
  /\ Spans(buf, blen) /\ Aligned(blen) /\ Aligned(endPos)
  /\ \A k \in Cur(toMaster) :
       /\ Spans(toMaster[k].body, toMaster[k].end - toMaster[k].start)
       /\ Aligned(toMaster[k].start) /\ Aligned(toMaster[k].end)

(* The entries of channel c in the bodies q, each by the number of its body *)
(* and its place in it; and the n-th of the places P.                       *)
Places(q, c) ==
  UNION {{k} \X {j \in DOMAIN q[k] : q[k][j].chn = c} : k \in DOMAIN q}
NotAfter(r, p) == r[1] < p[1] \/ (r[1] = p[1] /\ r[2] <= p[2])
Rank(P, p) == Cardinality({r \in P : NotAfter(r, p)})
Nth(P, n) == CHOOSE p \in P : Rank(P, p) = n

(* The numbers of the frames of channel c in the bodies q, in their order.  *)
Numbers(q, c) ==
  LET P == Places(q, c)
  IN  [n \in 1 .. Cardinality(P) |-> q[Nth(P, n)[1]][Nth(P, n)[2]].seq]

(* Frames that wait are queued in the encoder, and before that, while the   *)
(* thread lives, copied to the staging buffer or left over.                 *)
Queued(c) == [k \in DOMAIN venc[c] |-> venc[c][k].seq]
Copied(c) == Numbers(<<buf>>, c)
LeftOver(c) == IF st.chn = c THEN <<st.seq>> ELSE <<>>
Taken(c) == Copied(c) \o LeftOver(c)
InThread(c) == IF pc \in Alive THEN Taken(c) ELSE <<>>
Held(c) == InThread(c) \o Queued(c)

(* Those announced and not read.  The blocks of other sessions have none.   *)
Bodies == [k \in DOMAIN toMaster |-> toMaster[k].body]
Sent(c) == Numbers(Bodies, c)

Stream == INSTANCE FrameStream WITH
  Channels <- Chns, Mod <- FrameMod,
  up   <- pc \in Alive,
  held <- [c \in Chns |-> Held(c)],
  taken <- [c \in Chns |-> Len(InThread(c))],
  sent <- [c \in Chns |-> Sent(c)],
  last <- seen,
  next <- encSeq

(* The transport implements FrameStream: frames of a channel reach the      *)
(* master in the order they were encoded, none lost and none twice, also    *)
(* when a frame waits for the next round.  A session that ends loses only   *)
(* the frames its thread had taken, or was taking; the next one goes on     *)
(* behind them, with all that waited in the encoders.                       *)
IsFrameStream == Stream!Spec

(* The stream held across rounds is exactly what full announces; a thread   *)
(* that leaves its loop holds no stream, has announced all it copied and    *)
(* has stopped the encoders.                                                *)
HeldIffFull ==
  /\ pc \in Alive => (full <=> st # NoFrame)
  /\ pc = "done" => ~full /\ blen = 0 /\ receiving = {}

(* The thread copies to and DMAs from a block the object owns; one that is  *)
(* not owned is back in the pool (the pool has no block to spare).          *)
BlockOwned ==
  /\ pc # "off" => init /\ vbFree < VBBlkCnt
  /\ ~InitFaults => vbFree = VBBlkCnt - (IF init THEN 1 ELSE 0)

(* global.h:74: the map takes a VENC channel to its VDEC channel, so the    *)
(* header of a frame names the decoder of the channel it was encoded on.    *)
TagIsDecoderOfChannel ==
  \A k \in DOMAIN buf : buf[k].vdec = VdecOf(buf[k].chn)

(* main.cpp:200: the ACK says that the slave is ready. *)
AckMeansReady == [][main = "ack" /\ main' = "idle" => init]_vars

(* A master that answers every announcement, and encoders that never stop:  *)
(* bound to a video output, which emits frames at its own rate with or      *)
(* without an input signal, as long as the chain is there.                  *)
MasterAnswers == WF_vars(MasterReads)
EncodersProduce ==
  \A c \in Encoders : WF_vars(\E l \in FrameLens[c] : Encode(c, l))

(* STOP_TRANS, START_TRANS and exit get past join(), whatever master and    *)
(* encoders do and whether select() works or not, but in two cases          *)
(* (pciv_trans.cpp:117-128), and never without a frame left over.  Either   *)
(* the encoders fall silent, so that select() only times out and the frame  *)
(* gets no turn; or no batch ever again has room for it, and then the       *)
(* master goes on reading.  A silent master alone holds nothing up.         *)
CloseReturns ==
  <>[](main = "join") =>
    \/ <>[](full /\ \A c \in Chns : venc[c] = <<>>)
    \/ <>[](pc = "write" => full) /\ []<><<MasterReads \/ MasterDiscards>>_toMaster

(* With a master that answers, a left-over frame that half a window can     *)
(* hold is placed, or the thread ends: encoders that keep producing wake    *)
(* the select that has to come first.                                       *)
LeftOverDrains ==
  MasterAnswers /\ EncodersProduce =>
    (full /\ EntryLen(st.len) <= Half ~> ~full \/ pc \in Ended)

(* With a master that answers and encoders that keep producing, a session   *)
(* serves every channel: a frame waits in its encoder for good only when    *)
(* select() fails, or when no batch any more ends without a frame left      *)
(* over, which then takes the turn of channel 0 in the next.                *)
EncodersServed ==
  MasterAnswers /\ EncodersProduce =>
    \A c \in Encoders :
      <>[](venc[c] # <<>> /\ pc \in Alive /\ ~blind) =>
        []<><<Len(venc'[c]) < Len(venc[c])>>_venc \/ <>[](pc = "write" => full)

(* With a master that answers, the thread never waits in Recv for good,     *)
(* whatever messages of earlier sessions are dropped or applied.            *)
RecvReturns == MasterAnswers => (pc = "recv" ~> pc # "recv")

=============================================================================
