------------------------------ MODULE SocketIO ------------------------------
(***************************************************************************)
(* The byte loops of the epoll server (g_net_update.c) on one non-blocking *)
(* connection: recv_buffer_from_fd in the reactor, then send_buffer_to_fd  *)
(* in a worker.  A byte of the reply is its offset in the buffer; negative *)
(* offsets are the memory before it.                                       *)
(***************************************************************************)
EXTENDS Integers, Sequences, Functions

CONSTANTS
  NeedRead,       (* one_time_need_read, the size of a read                *)
  ReplyLength,    (* iLen                                                  *)
  MaxAgain        (* bound: writes that return EAGAIN                      *)

ASSUME IOAssumption == {NeedRead, ReplyLength} \subseteq Nat \ {0} /\ MaxAgain \in Nat

VARIABLES
  ioPc,           (* "recv", "send", "returned", "failed", "dropped"       *)
  available,      (* bytes of the request in the socket                    *)
  leftToSend,     (* n                                                     *)
  onWire,         (* the offsets of the bytes that write took, in order    *)
  agains          (* history: EAGAINs                                      *)

ioVars == <<ioPc, available, leftToSend, onWire, agains>>

(* EPOLLIN: something has arrived, or the peer has hung up (no bytes).     *)
IOInit ==
  /\ ioPc = "recv" /\ available \in 0 .. NeedRead + 1
  /\ leftToSend = ReplyLength /\ onWire = <<>> /\ agains = 0

(* One read decides: short, hang-up included, is a request; a full buffer  *)
(* or an error drops the connection.                                       *)
RecvBuffer ==
  /\ ioPc = "recv"
  /\ \/ available < NeedRead /\ ioPc' = "send" /\ available' = 0
     \/ available >= NeedRead /\ ioPc' = "dropped" /\ available' = available - NeedRead
     \/ ioPc' = "dropped" /\ UNCHANGED available
  /\ UNCHANGED <<leftToSend, onWire, agains>>

Offset == ReplyLength - leftToSend

Sending == ioPc = "send" /\ leftToSend > 0

(* n -= nwrite, whatever write returned.                                   *)
AllWritten(k) == 0
LeftAfter(nwrite) == leftToSend - nwrite

WriteSome ==
  /\ Sending
  /\ \E k \in 1 .. leftToSend :
       /\ onWire' = onWire \o [i \in 1 .. k |-> Offset + i - 1]
       /\ leftToSend' = LeftAfter(k)
  /\ UNCHANGED <<ioPc, available, agains>>

WriteAgain ==
  /\ Sending /\ agains < MaxAgain
  /\ agains' = agains + 1
  /\ leftToSend' = LeftAfter(-1)
  /\ UNCHANGED <<ioPc, available, onWire>>

WriteFails ==
  /\ Sending
  /\ ioPc' = "failed"
  /\ UNCHANGED <<available, leftToSend, onWire, agains>>

SendReturns ==
  /\ ioPc = "send" /\ leftToSend <= 0
  /\ ioPc' = "returned"
  /\ UNCHANGED <<available, leftToSend, onWire, agains>>

IONext == RecvBuffer \/ WriteSome \/ WriteAgain \/ WriteFails \/ SendReturns

IOSpec == IOInit /\ [][IONext]_ioVars

-----------------------------------------------------------------------------
IOTypes ==
  /\ ioPc \in {"recv", "send", "returned", "failed", "dropped"}
  /\ available \in Nat /\ leftToSend \in 0 .. ReplyLength + MaxAgain
  /\ onWire \in Seq(Int) /\ agains \in 0 .. MaxAgain

(* Partial writes lose nothing and repeat nothing: what the peer gets is   *)
(* the reply in order.  Each EAGAIN, which counts as minus one byte        *)
(* written, makes one byte go out twice, or the byte before the buffer.    *)
ReplyInOrder ==
  /\ Len(onWire) = Offset + agains
  /\ 0 .. Offset - 1 \subseteq Range(onWire)
  /\ agains = 0 => \A i \in DOMAIN onWire : onWire[i] = i - 1
  /\ ioPc = "returned" => Len(onWire) = ReplyLength + agains
=============================================================================
