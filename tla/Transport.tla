----------------------------- MODULE Transport -----------------------------
(***************************************************************************)
(* One direction of a connection: the messages of a session are encoded    *)
(* into its send buffer, handed to the loop that writes them to the        *)
(* socket, read at the other end in chunks, and decoded from the receive   *)
(* buffer (cp.c, client.c, CommunicationProtocolAdaptor.cpp).              *)
(*                                                                         *)
(* The bytes of the stream are numbered as they are encoded.  A buffer     *)
(* holds consecutive bytes, so that its length is all there is to know of  *)
(* it; only where the receive buffer begins is kept, since the length of a *)
(* message is read there.                                                  *)
(***************************************************************************)
EXTENDS Integers, Sequences

CONSTANTS
  Header,        \* LT_CP_MESSAGE_HEADER_LEN
  MaxLength,     \* LT_CP_MESSAGE_LENGTH_MAX
  Lengths,       \* how long the messages are, header included
  Chunk,         \* what the loops read at once: 65536
  Batch,         \* how many messages one lt_cp_session_process encodes
  Senders,       \* which ends are considered to send
  MaxMessages    \* how many messages are sent at all

ASSUME TransportAssumption ==
  /\ Header \in Nat \ {0} /\ MaxLength \in Nat /\ Header < MaxLength
  /\ Lengths \subseteq Header .. MaxLength
  /\ Chunk \in Nat \ {0} /\ Chunk <= 4 * MaxLength
  /\ Batch \in 1 .. 5
  /\ Senders \subseteq {"server", "client"}
  /\ MaxMessages \in Nat

VARIABLES
  sender,     \* the end that sends
  ends,       \* where the messages encoded so far end in the stream
  lost,       \* how many messages did not fit the send buffer
  filled,     \* send_buffer_offset
  batch,      \* how many messages the running process has dequeued
  phase,      \* what the sender does: "process", "send" or "exited"
  length,     \* sbufferlen
  sent,       \* how much of it is written
  sendnow,    \* how much the next write is to take
  net,        \* how many bytes are written and not yet read
  at,         \* where the receive buffer begins in the stream
  offset,     \* receive_buffer_offset
  decoded,    \* the messages decoded, by their number
  receiver    \* "reading", "decoding", "refused" or "hangs"

encoding == <<ends, lost, filled, batch>>
sending  == <<phase, length, sent, sendnow>>
decoding == <<at, offset, decoded>>
vars == <<sender, encoding, sending, net, decoding, receiver>>

\* lt_cp_session_create: both buffers are "5 times max message len".
\* Mutant of SendBuffer: four times.
SendBufferMutant == 4 * MaxLength
SendBuffer == 5 * MaxLength
ReceiveBuffer == 5 * MaxLength

\* The values of apr_size_t, more than any buffer has bytes.
Sizes == 8 * MaxLength

Total == IF ends = <<>> THEN 0 ELSE ends[Len(ends)]
Start(i) == IF i = 1 THEN 0 ELSE ends[i - 1]

TypeOK ==
  /\ sender \in Senders
  /\ ends \in Seq(Nat) /\ lost \in Nat /\ filled \in 0 .. SendBuffer
  /\ batch \in 0 .. Batch /\ phase \in {"process", "send", "exited"}
  /\ length \in 0 .. SendBuffer /\ sent \in 0 .. length
  /\ sendnow \in 0 .. Sizes - 1
  /\ net \in Nat /\ at \in Nat /\ offset \in 0 .. ReceiveBuffer
  /\ decoded \in Seq(Nat)
  /\ receiver \in {"reading", "decoding", "refused", "hangs"}

Init ==
  /\ sender \in Senders
  /\ ends = <<>> /\ lost = 0 /\ filled = 0 /\ batch = 0
  /\ phase = "process" /\ length = 0 /\ sent = 0 /\ sendnow = 0
  /\ net = 0 /\ at = 0 /\ offset = 0 /\ decoded = <<>>
  /\ receiver = "reading"

-----------------------------------------------------------------------------
(* The sender                                                              *)

\* _lt_cp_encode_msg: whether a message of length l fits what is left.
Fits(l) == filled + Header < SendBuffer /\ filled + l <= SendBuffer

\* lt_cp_session_process dequeues a message and encodes it; one that does not
\* fit is reported and forgotten.
Encode(l) ==
  /\ phase = "process" /\ batch < Batch /\ Len(ends) + lost < MaxMessages
  /\ batch' = batch + 1
  /\ IF Fits(l)
     THEN ends' = Append(ends, Total + l) /\ filled' = filled + l
          /\ UNCHANGED lost
     ELSE lost' = lost + 1 /\ UNCHANGED <<ends, filled>>
  /\ UNCHANGED <<sender, sending, net, decoding, receiver>>

\* Mutant of HandOver: what was handed over stays in the send buffer.
HandOverMutant ==
  /\ phase = "process" /\ filled > 0
  /\ phase' = "send" /\ batch' = 0
  /\ length' = filled /\ sent' = 0 /\ sendnow' = filled
  /\ UNCHANGED <<sender, ends, lost, filled, net, decoding, receiver>>

\* lt_cp_session_process returns its send buffer and starts it anew.
HandOver ==
  /\ phase = "process" /\ filled > 0
  /\ phase' = "send" /\ batch' = 0 /\ filled' = 0
  /\ length' = filled /\ sent' = 0 /\ sendnow' = filled
  /\ UNCHANGED <<sender, ends, lost, net, decoding, receiver>>

\* apr_socket_send in _lt_server_client_run writes k bytes, none when the peer
\* is slow and the time is up.  The arithmetic of the loop lets the next
\* write take nothing, and the one after that more than there is.
ServerSend ==
  /\ sender = "server" /\ phase = "send"
  /\ sent < length /\ sendnow <= length - sent
  /\ \E k \in 0 .. sendnow :
       /\ sent' = sent + k /\ net' = net + k
       /\ sendnow' = (k - sent') % Sizes
  /\ UNCHANGED <<sender, encoding, phase, length, decoding, receiver>>

\* No system call takes a size that wrapped around; a write may fail at any
\* time as well.  The loop and the thread end.
SendFails ==
  /\ phase = "send" /\ sent < length
  /\ phase' = "exited"
  /\ UNCHANGED <<sender, encoding, length, sent, sendnow, net, decoding,
                 receiver>>

\* CommunicationProtocolAdaptor::writeToNetwork: QSocket takes everything.
ClientSend ==
  /\ sender = "client" /\ phase = "send" /\ sent < length
  /\ sent' = length /\ net' = net + length - sent
  /\ UNCHANGED <<sender, encoding, phase, length, sendnow, decoding, receiver>>

\* The loop has written everything.
Sent ==
  /\ phase = "send" /\ sent = length
  /\ phase' = "process"
  /\ UNCHANGED <<sender, encoding, length, sent, sendnow, net, decoding,
                 receiver>>

-----------------------------------------------------------------------------
(* The receiver                                                            *)

\* lt_cp_session_process appends n bytes to the receive buffer unless they
\* would fill it.
Take(n) ==
  IF offset + n >= ReceiveBuffer
  THEN receiver' = "refused" /\ UNCHANGED offset
  ELSE receiver' = "decoding" /\ offset' = offset + n

\* _lt_server_client_run reads at most a chunk of what has come.
ServerReceive ==
  /\ sender = "client" /\ receiver = "reading"
  /\ \E n \in 1 .. (IF net < Chunk THEN net ELSE Chunk) :
       net' = net - n /\ Take(n)
  /\ UNCHANGED <<sender, encoding, sending, at, decoded>>

\* readFromNetwork reads all that has come, without looking how much its
\* buffer takes: beyond that readBlock returns nothing, for ever.
ClientReceive ==
  /\ sender = "server" /\ receiver = "reading"
  /\ \E n \in 1 .. net :
       /\ net' = net - n
       /\ IF n > Chunk THEN receiver' = "hangs" /\ UNCHANGED offset
          ELSE Take(n)
  /\ UNCHANGED <<sender, encoding, sending, at, decoded>>

\* The message whose header the receive buffer begins with, or 0 when it
\* begins in the middle of one, and the length read there.
Heading ==
  IF \E i \in 1 .. Len(ends) : Start(i) = at
  THEN CHOOSE i \in 1 .. Len(ends) : Start(i) = at
  ELSE 0
HeadLength == IF Heading = 0 THEN Header ELSE ends[Heading] - at

\* Mutant of Whole: something must follow the message.
WholeStrict == offset >= Header /\ offset > HeadLength

\* _lt_cp_decode_msg has a whole message.
Whole == offset >= Header /\ offset >= HeadLength

\* Mutant of Decode: the header is left in the buffer.
DecodeMutant ==
  /\ receiver = "decoding" /\ Whole
  /\ decoded' = Append(decoded, Heading)
  /\ at' = at + HeadLength - Header /\ offset' = offset - HeadLength + Header
  /\ UNCHANGED <<sender, encoding, sending, net, receiver>>

\* _lt_cp_decode_msg decodes it and shifts the buffer.
Decode ==
  /\ receiver = "decoding" /\ Whole
  /\ decoded' = Append(decoded, Heading)
  /\ at' = at + HeadLength /\ offset' = offset - HeadLength
  /\ UNCHANGED <<sender, encoding, sending, net, receiver>>

\* It has not: the loop ends.
Decoded ==
  /\ receiver = "decoding" /\ ~Whole
  /\ receiver' = "reading"
  /\ UNCHANGED <<sender, encoding, sending, net, decoding>>

-----------------------------------------------------------------------------
Next ==
  \/ \E l \in Lengths : Encode(l)
  \/ HandOver \/ ServerSend \/ SendFails \/ ClientSend \/ Sent
  \/ ServerReceive \/ ClientReceive \/ Decode \/ Decoded

Spec == Init /\ [][Next]_vars

\* Both loops run on, and TCP delivers what was written.
Fairness ==
  /\ WF_vars(HandOver) /\ WF_vars(ServerSend) /\ WF_vars(ClientSend)
  /\ WF_vars(Sent) /\ WF_vars(ServerReceive) /\ WF_vars(ClientReceive)
  /\ WF_vars(Decode) /\ WF_vars(Decoded)
  /\ WF_vars(SendFails /\ sendnow > length - sent)

FairSpec == Spec /\ Fairness

-----------------------------------------------------------------------------
(* Properties                                                              *)

\* No byte gets lost or doubled on its way through the buffers, although the
\* send buffer is lent to the loop that writes it and used again.
StreamIntact ==
  at + offset + net + (length - sent) + filled = Total \/ receiver = "hangs"
                                               \/ receiver = "refused"

\* Buffers of five messages are enough: no message of legal length is dropped
\* by the encoder, and no data are refused by the receiver
\* (lt_cp_session_process, _lt_cp_encode_msg).
BuffersSuffice == lost = 0 /\ receiver # "refused"

\* What the other end decodes are the messages, whole, in order and once.
Link == INSTANCE Channel WITH accepted <- Len(ends), got <- decoded
ActsAsChannel == Link!Spec

\* The loop of the sender that got nothing written at first never writes
\* again: it lets the next write take nothing.
Stalled == phase = "send" /\ sent = 0 /\ sendnow = 0

\* Every message encoded arrives, however the stream is cut into pieces,
\* unless the connection broke, the sender's loop had to wait for a slow
\* peer, or the client was sent more than a chunk at once.
EverythingArrives ==
  \A i \in 1 .. MaxMessages :
    Len(ends) >= i ~> (Len(decoded) >= i \/ phase = "exited" \/ Stalled
                         \/ receiver = "hangs")
=============================================================================
