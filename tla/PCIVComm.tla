------------------------------ MODULE PCIVComm ------------------------------
(***************************************************************************)
(* class PCIVComm: the descriptors of the message driver, and Send and     *)
(* Recv on the command port.  The port carries bytes, not messages: a      *)
(* message is MsgLen units, a read returns whatever has arrived, a write   *)
(* takes what there is room for.                                           *)
(***************************************************************************)
EXTENDS Integers, Sequences

CONSTANTS
  MsgLen,     \* units of a message (sizeof(Msg)), at least two
  TmpLen,     \* units one read may return (sizeof(tmp_buf))
  PipeCap,    \* units the driver holds in each direction
  IdMod,      \* the master numbers its messages modulo IdMod
  Types,      \* message types
  PortFaults  \* may a call into the message driver fail?

Ports == {"cmd", "read", "write"}
Unit == [type : Types \cup {"ACK"}, id : -1 .. IdMod - 1, k : 1 .. MsgLen]

ASSUME CommAssumption ==
  /\ MsgLen \in Nat \ {0, 1}
  /\ TmpLen \in Nat \ {0} /\ PipeCap \in Nat \ {0} /\ IdMod \in Nat \ {0}
  /\ PortFaults \in BOOLEAN

(* The units of a message. *)
Units(type, id) == [k \in 1 .. MsgLen |-> [type |-> type, id |-> id, k |-> k]]

VARIABLES
  comm,    \* where Initialize() is: a step, "up", "failed" or "closed"
  fds,     \* the descriptors of /dev/mcc_userdev that are open
  init,    \* init_
  ready,   \* external: the master answers HI_MCC_IOC_CHECK
  down,    \* external: units on their way to the slave
  up,      \* external: units on their way to the master
  out,     \* what Send() has still to write
  torn     \* history: a Send() failed with part of its message written

commVars == <<comm, fds, init, ready, down, up, out, torn>>

CommInit ==
  /\ comm = "enum" /\ fds = {} /\ init = FALSE /\ ready = FALSE
  /\ down = <<>> /\ up = <<>> /\ out = <<>> /\ torn = FALSE

portVars == <<ready, down, up, out, torn>>

(* A step of Initialize() that opens fd and either keeps it or not; when    *)
(* open() fails nothing is open, when an ioctl fails the descriptor stays.  *)
InitStep(at, next, fd, keeps) ==
  /\ comm = at
  /\ \/ comm' = next /\ fds' = IF keeps THEN fds \cup {fd} ELSE fds
     \/ PortFaults /\ comm' = "failed" /\ fds' \in {fds, fds \cup {fd}}
  /\ UNCHANGED <<init, portVars>>

EnumChip == InitStep("enum", "open0", "enum", FALSE)

OpenPorts ==
  \/ InitStep("open0", "open1", "cmd", TRUE)
  \/ InitStep("open1", "open2", "read", TRUE)
  \/ InitStep("open2", "wait", "write", TRUE)

(* Mutant: WaitConn() forgets close(fd).                                    *)
ConnectedLeaks ==
  /\ comm = "check" /\ ready
  /\ comm' = "up" /\ init' = TRUE
  /\ UNCHANGED <<fds, portVars>>

(* WaitConn() polls the driver until the master is there. *)
WaitConn == InitStep("wait", "check", "wait", TRUE)
Connected ==
  /\ comm = "check" /\ ready
  /\ comm' = "up" /\ init' = TRUE /\ fds' = fds \ {"wait"}
  /\ UNCHANGED portVars

CommInitialize == EnumChip \/ OpenPorts \/ WaitConn \/ Connected

CommClose ==
  /\ IF init THEN init' = FALSE /\ fds' = fds \ Ports ELSE UNCHANGED <<init, fds>>
  /\ comm' = "closed"

(* Mutant: a short write is taken for a whole one.                          *)
WriteSomeShort ==
  \E n \in 1 .. Len(out) :
    /\ n <= PipeCap - Len(up)
    /\ up' = up \o SubSeq(out, 1, n)
    /\ out' = <<>>
    /\ UNCHANGED torn

(* One write() of Send(): part of what is left, or an error because the     *)
(* driver has no room (the port is non-blocking) or refuses.                *)
WriteSome ==
  \E n \in 1 .. Len(out) :
    /\ n <= PipeCap - Len(up)
    /\ up' = up \o SubSeq(out, 1, n)
    /\ out' = SubSeq(out, n + 1, Len(out))
    /\ UNCHANGED torn

WriteFails ==
  /\ Len(up) = PipeCap \/ PortFaults
  /\ torn' = (torn \/ Len(out) < MsgLen)
  /\ out' = <<>>
  /\ UNCHANGED up

CommTypeOK ==
  /\ comm \in {"enum", "open0", "open1", "open2", "wait", "check", "up",
               "failed", "closed"}
  /\ fds \subseteq Ports \cup {"enum", "wait"}
  /\ init \in BOOLEAN /\ ready \in BOOLEAN /\ torn \in BOOLEAN
  /\ down \in Seq(Unit) /\ up \in Seq(Unit) /\ out \in Seq(Unit)
  /\ Len(down) <= PipeCap /\ Len(up) <= PipeCap

(* The descriptors are accounted for: the three ports while init_ is set,   *)
(* none that is not being used, unless Initialize() failed.                 *)
DescriptorsOwned ==
  /\ init => fds = Ports
  /\ comm = "closed" => fds = {} \/ PortFaults
=============================================================================
