---------------------------- MODULE StreamPairs ----------------------------
(***************************************************************************)
(* The samples that are a client and a server for one connection at a time *)
(* (tcpip_network_programming), by how they tell where a message ends:     *)
(*   "echo"   echo_client and echo_server: the client counts what returns  *)
(*   "fork"   echo_concurIO_client and echo_server: a process that writes  *)
(*            and one that reads until the stream ends                     *)
(*   "stdio"  echo_stdio_client and echo_stdio_server: lines               *)
(*   "calc"   echo_cal_client and echo_cal_server: a count comes first     *)
(*   "file"   file_client and file_server: half-close                      *)
(*   "hello"  seperator_io_client and _server: lines and half-close        *)
(*                                                                         *)
(* TCP keeps no boundaries: a read returns any part of what is there, up   *)
(* to the size of the buffer, and a write waits while the other side does  *)
(* not read.  The k-th unit written on a stream is the number k.           *)
(***************************************************************************)
EXTENDS Integers, Sequences

CONSTANTS
  StreamBuff,     (* units one read can take                               *)
  StreamRoom,     (* units sent and not yet read that TCP can hold         *)
  MaxTyped        (* bound: units, lines or operands the user types        *)

ASSUME StreamAssumption ==
  /\ StreamBuff \in Nat \ {0} /\ MaxTyped \in Nat \ {0}
  /\ StreamRoom \in Nat /\ StreamRoom >= StreamBuff /\ StreamRoom >= 3

VARIABLES
  pair,
  up, down,       (* the two streams                                       *)
  upEnd, downEnd, (* closed, or shut down for writing, by their writer     *)
  cpc, rpc, spc,  (* client, its reading process ("fork"), server          *)
  sent,           (* units written by the side that speaks first           *)
  want,           (* units the client waits for: str_len, of the file,     *)
                  (* or the operands it has sent                           *)
  operandCount,   (* the server's operand_count                            *)
  got,            (* what the client has received                          *)
  message         (* the server's buffer                                   *)

streamVars ==
  <<pair, up, down, upEnd, downEnd, cpc, rpc, spc, sent, want, operandCount, got, message>>

Echoes == {"echo", "fork", "stdio"}
Sends  == {"file", "hello"}          (* the server speaks first            *)

Units(m, n) == [i \in 1 .. n - m + 1 |-> m + i - 1]
First(s, n) == SubSeq(s, 1, n)
After(s, n) == SubSeq(s, n + 1, Len(s))

(* What one read of s can return; a line is one unit.                      *)
ReadSizes(s) == {n \in 1 .. Len(s) : n <= (IF pair = "stdio" THEN 1 ELSE StreamBuff)}

(* Connected.  The file has any length.                                    *)
StreamInit ==
  /\ pair \in Echoes \cup Sends \cup {"calc"}
  /\ up = <<>> /\ down = <<>> /\ upEnd = FALSE /\ downEnd = FALSE
  /\ cpc = IF pair \in Sends THEN "read" ELSE "type"
  /\ rpc = IF pair = "fork" THEN "read" ELSE "done"
  /\ spc = IF pair \in Sends THEN "send" ELSE "read"
  /\ sent = 0 /\ operandCount = 0 /\ got = <<>> /\ message = <<>>
  /\ IF pair = "file" THEN want \in 0 .. MaxTyped ELSE want = 0

-----------------------------------------------------------------------------
(* The clients.                                                            *)

(* A message of at most a buffer; "fork" does not wait for the answer.     *)
TypeMessage ==
  /\ pair \in Echoes /\ cpc = "type"
  /\ \E n \in 1 .. (IF pair = "stdio" THEN 1 ELSE StreamBuff) :
       /\ sent + n <= MaxTyped /\ Len(up) + n <= StreamRoom
       /\ up' = up \o Units(sent + 1, sent + n)
       /\ sent' = sent + n
  /\ IF pair = "fork" THEN UNCHANGED <<cpc, want>> ELSE cpc' = "read" /\ want' = sent'
  /\ UNCHANGED <<pair, down, upEnd, downEnd, rpc, spc, got, message, operandCount>>

(* The loop of echo_client ends when as much has returned as was written.  *)
ReadEcho ==
  /\ pair \in {"echo", "stdio"} /\ cpc = "read"
  /\ \E n \in ReadSizes(down) : got' = got \o First(down, n) /\ down' = After(down, n)
  /\ cpc' = IF Len(got') >= want THEN "type" ELSE "read"
  /\ UNCHANGED <<pair, up, upEnd, downEnd, rpc, spc, sent, want, message, operandCount>>

(* q: the connection is closed.  In "fork" the reading process has the     *)
(* descriptor too, and only shutdown ends the stream.                      *)
EndByClose == rpc = "done"
EndOfStream == TRUE

Quit ==
  /\ pair \in Echoes /\ cpc = "type"
  /\ upEnd' = EndOfStream
  /\ cpc' = "done"
  /\ UNCHANGED <<pair, up, down, downEnd, rpc, spc, sent, want, got, message,
                 operandCount>>

(* read_routine.                                                           *)
ReadRoutine ==
  /\ pair = "fork" /\ rpc = "read"
  /\ \/ /\ \E n \in ReadSizes(down) : got' = got \o First(down, n) /\ down' = After(down, n)
        /\ UNCHANGED <<rpc, upEnd>>
     \/ /\ down = <<>> /\ downEnd
        /\ rpc' = "done"
        /\ upEnd' = (upEnd \/ cpc = "done")
        /\ UNCHANGED <<down, got>>
  /\ UNCHANGED <<pair, up, downEnd, cpc, spc, sent, want, message, operandCount>>

(* The number of operands, each of them, and the operator in one write.    *)
TypeOperands ==
  /\ pair = "calc" /\ cpc = "type"
  /\ \E n \in 1 .. MaxTyped :
       /\ want' = n
       /\ up' = <<n>> \o Units(1, n) \o <<"operator">>
  /\ cpc' = "read"
  /\ UNCHANGED <<pair, down, upEnd, downEnd, rpc, spc, sent, got, message, operandCount>>

(* The result, an int, is one unit.                                        *)
ReadResult ==
  /\ pair = "calc" /\ cpc = "read" /\ down # <<>>
  /\ got' = down /\ down' = <<>>
  /\ cpc' = "done" /\ upEnd' = TRUE
  /\ UNCHANGED <<pair, up, downEnd, rpc, spc, sent, want, message, operandCount>>

(* file_client reads into `message` and stores `buf`, which nothing has    *)
(* been written to (file_client.c:55-56): as many units, of any value.     *)
Stored(s) == IF pair = "file" THEN [i \in 1 .. Len(s) |-> "junk"] ELSE s

(* Until the server has shut its side down; then the thanks.               *)
ReadToEnd ==
  /\ pair \in Sends /\ cpc = "read"
  /\ \/ /\ \E n \in ReadSizes(down) :
             got' = got \o Stored(First(down, n)) /\ down' = After(down, n)
        /\ UNCHANGED <<cpc, up, upEnd>>
     \/ /\ down = <<>> /\ downEnd
        /\ up' = <<"thanks">> /\ upEnd' = TRUE
        /\ cpc' = "done"
        /\ UNCHANGED <<down, got>>
  /\ UNCHANGED <<pair, downEnd, rpc, spc, sent, want, message, operandCount>>

-----------------------------------------------------------------------------
(* The servers.                                                            *)

EchoRead ==
  /\ pair \in Echoes /\ spc = "read"
  /\ \E n \in ReadSizes(up) : message' = First(up, n) /\ up' = After(up, n)
  /\ spc' = "write"
  /\ UNCHANGED <<pair, down, upEnd, downEnd, cpc, rpc, sent, want, got, operandCount>>

EchoWrite ==
  /\ pair \in Echoes /\ spc = "write" /\ Len(down) + Len(message) <= StreamRoom
  /\ down' = down \o message
  /\ spc' = "read"
  /\ UNCHANGED <<pair, up, upEnd, downEnd, cpc, rpc, sent, want, got, message,
                 operandCount>>

(* At the end echo_stdio_server writes the last line, or a buffer never    *)
(* filled, once more: feof is only true after fgets has failed.            *)
EchoEnd ==
  /\ pair \in Echoes /\ spc = "read" /\ up = <<>> /\ upEnd
  /\ down' = IF pair = "stdio" THEN down \o message ELSE down
  /\ downEnd' = TRUE
  /\ spc' = "done"
  /\ UNCHANGED <<pair, up, upEnd, cpc, rpc, sent, want, got, message, operandCount>>

(* echo_cal_server: the count is read on its own, then reads are added up  *)
(* until the operands and the operator are there.                          *)
CalcCount ==
  /\ pair = "calc" /\ spc = "read" /\ up # <<>>
  /\ operandCount' = Head(up)
  /\ up' = Tail(up)
  /\ spc' = "collect"
  /\ UNCHANGED <<pair, down, upEnd, downEnd, cpc, rpc, sent, want, got, message>>

CalcRead ==
  /\ pair = "calc" /\ spc = "collect" /\ Len(message) < operandCount + 1
  /\ \E n \in ReadSizes(up) : message' = message \o First(up, n) /\ up' = After(up, n)
  /\ UNCHANGED <<pair, down, upEnd, downEnd, cpc, rpc, spc, sent, want, got,
                 operandCount>>

(* calculate takes the operands and the operator from where they should    *)
(* be; the result is what it was calculated from.                          *)
Calculate ==
  /\ pair = "calc" /\ spc = "collect" /\ Len(message) >= operandCount + 1
  /\ down' = <<First(message, operandCount + 1)>>
  /\ downEnd' = TRUE
  /\ spc' = "done"
  /\ UNCHANGED <<pair, up, upEnd, cpc, rpc, sent, want, got, message, operandCount>>

(* file_server writes a full buffer for as long as fread fills one, then   *)
(* the rest; seperator_io_server flushes its three lines at once.          *)
SendRest ==
  /\ pair \in Sends /\ spc = "send"
  /\ LET total == IF pair = "file" THEN want ELSE 3
         n == IF pair = "file" /\ total - sent >= StreamBuff THEN StreamBuff ELSE total - sent
     IN /\ Len(down) + n <= StreamRoom
        /\ down' = down \o Units(sent + 1, sent + n)
        /\ sent' = sent + n
        /\ spc' = IF pair = "file" /\ n = StreamBuff THEN "send" ELSE "shut"
  /\ UNCHANGED <<pair, up, upEnd, downEnd, cpc, rpc, want, got, message, operandCount>>

(* shutdown(SHUT_WR): the server can still read the client's answer.       *)
HalfClose ==
  /\ pair \in Sends /\ spc = "shut"
  /\ downEnd' = TRUE
  /\ spc' = "read"
  /\ UNCHANGED <<pair, up, down, upEnd, cpc, rpc, sent, want, got, message, operandCount>>

ReadThanks ==
  /\ pair \in Sends /\ spc = "read" /\ (up # <<>> \/ upEnd)
  /\ message' = up /\ up' = <<>>
  /\ spc' = "done"
  /\ UNCHANGED <<pair, down, upEnd, downEnd, cpc, rpc, sent, want, got, operandCount>>

-----------------------------------------------------------------------------
User == TypeMessage \/ Quit \/ TypeOperands
StreamClient == ReadEcho \/ ReadResult \/ ReadToEnd
StreamServer ==
  \/ EchoRead \/ EchoWrite \/ EchoEnd \/ CalcCount \/ CalcRead \/ Calculate
  \/ SendRest \/ HalfClose \/ ReadThanks

StreamNext == User \/ StreamClient \/ ReadRoutine \/ StreamServer

StreamSpec == StreamInit /\ [][StreamNext]_streamVars

(* Every process runs when it can; the user may stop typing.               *)
StreamFairness ==
  WF_streamVars(StreamClient) /\ WF_streamVars(ReadRoutine) /\ WF_streamVars(StreamServer)

-----------------------------------------------------------------------------
StreamTypes ==
  /\ Len(up) <= StreamRoom + MaxTyped /\ Len(down) <= StreamRoom + 1
  /\ cpc \in {"type", "read", "done"} /\ rpc \in {"read", "done"}
  /\ spc \in {"read", "write", "collect", "send", "shut", "done"}
  /\ sent \in 0 .. MaxTyped + 3 /\ want \in 0 .. MaxTyped /\ operandCount \in 0 .. MaxTyped

(* What this pair of programs is for.                                      *)
Delivered ==
  CASE pair \in Echoes -> got = Units(1, sent)
    [] pair = "calc"   -> got = <<Units(1, want) \o <<"operator">>>>
    [] pair = "file"   -> Len(got) = want /\ message = <<"thanks">>
    [] pair = "hello"  -> got = Units(1, 3) /\ message = <<"thanks">>

PairOver == cpc = "done" /\ rpc = "done" /\ spc = "done" /\ Delivered

(* However TCP cuts the streams and however little it holds, the client    *)
(* comes back to its user or all processes of the pair end, and then       *)
(* everything has arrived, once and in order (of a file: its length).      *)
PairsFinish == cpc # "type" ~> (cpc = "type" \/ PairOver)
=============================================================================
