-------------------------- MODULE Transport_proofs --------------------------
(***************************************************************************)
(* Proofs about Transport, for messages, headers and chunks of any length. *)
(*                                                                         *)
(* The argument: the receive buffer always begins where a message begins,  *)
(* namely the one after those decoded, so that the length read there is    *)
(* the message's.  Outside of decoding it holds less than a message, and   *)
(* what the send buffer holds is bounded by the messages of the running    *)
(* process; hence both buffers are long enough.                            *)
(***************************************************************************)
EXTENDS Transport, TLAPS

\* Where the messages lie in the stream.
Layout ==
  /\ Len(ends) > 0 => ends[1] \in Header .. MaxLength
  /\ \A i \in 1 .. Len(ends) :
       i > 1 => ends[i] - ends[i - 1] \in Header .. MaxLength
  /\ \A i, j \in 1 .. Len(ends) : i < j => ends[i] < ends[j]

\* The receive buffer begins with the message after those decoded.
Aligned ==
  /\ Len(decoded) <= Len(ends)
  /\ \A i \in 1 .. Len(decoded) : decoded[i] = i
  /\ at = IF Len(decoded) = 0 THEN 0 ELSE ends[Len(decoded)]

\* The send buffer holds what the running process encoded.
Filling ==
  /\ filled <= batch * MaxLength
  /\ phase = "send" => filled = 0
  /\ phase = "process" => sent = length

\* Between two receptions less than a message waits in the receive buffer.
Partial == receiver = "reading" => offset < MaxLength

Framed ==
  /\ TypeOK /\ Layout /\ Aligned /\ Filling /\ Partial
  /\ StreamIntact /\ BuffersSuffice

USE TransportAssumption

\* The end of the stream is the end of the last message.
LEMMA TotalType ==
  ASSUME TypeOK, Layout
  PROVE  /\ Total \in Nat
         /\ ends = <<>> => Total = 0
         /\ \A i \in 1 .. Len(ends) : ends[i] \in Nat /\ ends[i] <= Total
<1>1. ends \in Seq(Nat)
  BY DEF TypeOK
<1>2. CASE ends = <<>>
  BY <1>2 DEF Total
<1>3. CASE ends # <<>>
  <2>1. Len(ends) \in 1 .. Len(ends) /\ Total = ends[Len(ends)]
    BY <1>1, <1>3 DEF Total
  <2>2. \A i \in 1 .. Len(ends) : i = Len(ends) \/ ends[i] < ends[Len(ends)]
    BY <2>1 DEF Layout
  <2>3. \A i \in 1 .. Len(ends) : ends[i] \in Nat
    BY <1>1
  <2>4. QED
    BY <1>3, <2>1, <2>2, <2>3
<1>4. QED
  BY <1>2, <1>3

\* Every message has its place in the stream.
LEMMA Places ==
  ASSUME TypeOK, Layout, NEW j \in 1 .. Len(ends)
  PROVE  /\ Len(ends) \in Nat /\ 1 \in 1 .. Len(ends)
         /\ ends[1] \in Header .. MaxLength /\ ends[1] > 0
         /\ ends[j] \in Nat /\ ends[j] > 0
         /\ j = 1 \/ ends[1] < ends[j]
<1>1. ends \in Seq(Nat) /\ Len(ends) \in Nat /\ 1 \in 1 .. Len(ends)
  BY DEF TypeOK
<1>2. ends[1] \in Header .. MaxLength
  BY <1>1 DEF Layout
<1>3. ends[1] \in Nat /\ ends[1] > 0 /\ ends[j] \in Nat
  BY <1>1, <1>2
<1>4. j = 1 \/ ends[1] < ends[j]
  BY <1>1 DEF Layout
<1>5. QED
  BY <1>1, <1>2, <1>3, <1>4

\* _lt_cp_decode_msg finds the message after those decoded, and its length.
LEMMA HeadingNext ==
  ASSUME TypeOK, Layout, Aligned, Len(decoded) < Len(ends)
  PROVE  /\ Heading = Len(decoded) + 1
         /\ HeadLength = ends[Len(decoded) + 1] - at
         /\ HeadLength \in Header .. MaxLength
<1> DEFINE d == Len(decoded)
<1>1. /\ ends \in Seq(Nat) /\ d \in Nat /\ d + 1 \in 1 .. Len(ends)
      /\ Len(ends) \in Nat
  BY DEF TypeOK
<1>2. Start(d + 1) = at
  BY <1>1 DEF Start, Aligned
<1>3. ASSUME NEW i \in 1 .. Len(ends), Start(i) = at PROVE i = d + 1
  <2>1. CASE i = 1
    <3>1. ASSUME d # 0 PROVE FALSE
      <4>1. at = ends[d] /\ d \in 1 .. Len(ends) /\ at = 0
        BY <1>1, <1>3, <2>1, <3>1 DEF Start, Aligned
      <4>2. ends[d] > 0
        BY <4>1, Places
      <4>3. QED
        BY <4>1, <4>2
    <3>2. QED
      BY <2>1, <3>1
  <2>2. CASE i # 1
    <3>1. i - 1 \in 1 .. Len(ends) /\ ends[i - 1] = at
      BY <1>1, <1>3, <2>2 DEF Start
    <3>2. ends[i - 1] > 0
      BY <3>1, Places
    <3>3. d # 0
      BY <3>1, <3>2 DEF Aligned
    <3>4. d \in 1 .. Len(ends) /\ ends[d] = at
      BY <1>1, <3>3 DEF Aligned
    <3>5. ends[d] \in Nat /\ ends[i - 1] \in Nat
      BY <1>1, <3>1, <3>4
    <3>6. \A j, k \in 1 .. Len(ends) : j < k => ends[j] < ends[k]
      BY DEF Layout
    <3>7. ~(d < i - 1) /\ ~(i - 1 < d)
      BY ONLY <3>1, <3>4, <3>5, <3>6
    <3>8. QED
      BY <1>1, <3>7
  <2>3. QED
    BY <2>1, <2>2
<1>4. Heading = d + 1
  BY <1>1, <1>2, <1>3 DEF Heading
<1>5. HeadLength = ends[d + 1] - at
  BY <1>1, <1>4 DEF HeadLength
<1>6. ends[d + 1] - at \in Header .. MaxLength
  <2>1. CASE d = 0
    BY <1>1, <2>1 DEF Layout, Aligned
  <2>2. CASE d # 0
    <3>1. (d + 1) - 1 = d
      BY <1>1
    <3>2. QED
      BY <1>1, <2>2, <3>1 DEF Layout, Aligned
  <2>3. QED
    BY <2>1, <2>2
<1>7. QED
  BY <1>4, <1>5, <1>6

\* What is decoded was received.
LEMMA WholeThere ==
  ASSUME Framed, receiver = "decoding", Whole
  PROVE  Len(decoded) < Len(ends)
<1>1. /\ Len(decoded) \in Nat /\ Len(ends) \in Nat
      /\ Len(decoded) <= Len(ends) /\ offset > 0
  BY DEF Framed, TypeOK, Aligned, Whole
<1>2. ASSUME Len(decoded) = Len(ends) PROVE FALSE
  <2>1. at = Total
    BY <1>2 DEF Framed, TypeOK, Aligned, Total
  <2>2. at + offset + net + (length - sent) + filled = Total
    BY DEF Framed, StreamIntact
  <2>3. QED
    BY <1>1, <2>1, <2>2 DEF Framed, TypeOK
<1>3. QED
  BY <1>1, <1>2

-----------------------------------------------------------------------------
(* One lemma for each action.                                              *)

LEMMA FramedInit == Init => Framed
BY DEF Init, Framed, TypeOK, Layout, Aligned, Filling, Partial, StreamIntact,
       BuffersSuffice, Total, Sizes, SendBuffer, ReceiveBuffer

\* A message of legal length fits.
LEMMA FitsAlways ==
  ASSUME Framed, NEW l \in Lengths, batch < Batch
  PROVE  Fits(l) /\ filled + l <= (batch + 1) * MaxLength
<1>1. /\ filled \in Nat /\ batch \in 0 .. 4 /\ l \in Header .. MaxLength
      /\ filled <= batch * MaxLength
  BY DEF Framed, TypeOK, Filling
<1>2. batch * MaxLength <= 4 * MaxLength
  BY <1>1
<1>3. (batch + 1) * MaxLength = batch * MaxLength + MaxLength
  BY <1>1
<1>4. QED
  BY <1>1, <1>2, <1>3 DEF Fits, SendBuffer

LEMMA EncodeKeeps ==
  ASSUME Framed, NEW l \in Lengths, Encode(l)
  PROVE  Framed'
<1> USE DEF sending, decoding
<1>1. /\ Fits(l) /\ filled + l <= (batch + 1) * MaxLength
      /\ ends' = Append(ends, Total + l) /\ filled' = filled + l
      /\ batch' = batch + 1 /\ lost' = lost
      /\ phase = "process" /\ batch < Batch
  BY FitsAlways DEF Encode
<1>2. /\ UNCHANGED <<sender, phase, length, sent, sendnow, net, at, offset,
                     decoded, receiver>>
  BY DEF Encode
<1>3. /\ Total \in Nat /\ (ends = <<>> => Total = 0)
      /\ \A i \in 1 .. Len(ends) : ends[i] \in Nat /\ ends[i] <= Total
  BY TotalType DEF Framed
<1>4. l \in Header .. MaxLength /\ ends \in Seq(Nat) /\ Len(ends) \in Nat
  BY DEF Framed, TypeOK
<1>5. /\ ends' \in Seq(Nat) /\ Len(ends') = Len(ends) + 1
      /\ ends'[Len(ends) + 1] = Total + l
      /\ \A i \in 1 .. Len(ends) : ends'[i] = ends[i]
  BY <1>1, <1>3, <1>4
<1>6. Total' = Total + l
  BY <1>4, <1>5 DEF Total
<1>7. TypeOK'
  BY <1>1, <1>2, <1>5 DEF Framed, TypeOK, Fits
<1>8. Layout'
  <2>1. Len(ends') > 0 => ends'[1] \in Header .. MaxLength
    <3>1. CASE Len(ends) = 0
      BY <1>3, <1>4, <1>5, <3>1
    <3>2. CASE Len(ends) > 0
      <4>1. 1 \in 1 .. Len(ends) /\ ends[1] \in Header .. MaxLength
        BY <1>4, <3>2, Places DEF Framed
      <4>2. QED
        BY <1>5, <4>1
    <3>3. QED
      BY <1>4, <3>1, <3>2
  <2>2. ASSUME NEW i \in 1 .. Len(ends'), i > 1
        PROVE  ends'[i] - ends'[i - 1] \in Header .. MaxLength
    <3>1. CASE i = Len(ends) + 1
      <4>1. i - 1 = Len(ends) /\ Len(ends) \in 1 .. Len(ends) /\ ends # <<>>
        BY <1>4, <2>2, <3>1
      <4>2. ends'[i - 1] = Total
        BY <1>5, <4>1 DEF Total
      <4>3. QED
        BY <1>3, <1>4, <1>5, <3>1, <4>2
    <3>2. CASE i # Len(ends) + 1
      <4>1. i \in 1 .. Len(ends) /\ i - 1 \in 1 .. Len(ends)
        BY <1>4, <1>5, <2>2, <3>2
      <4>2. QED
        BY <1>5, <2>2, <4>1 DEF Framed, Layout
    <3>3. QED
      BY <3>1, <3>2
  <2>3. ASSUME NEW i \in 1 .. Len(ends'), NEW j \in 1 .. Len(ends'), i < j
        PROVE  ends'[i] < ends'[j]
    <3>1. i \in 1 .. Len(ends)
      BY <1>4, <1>5, <2>3
    <3>2. CASE j = Len(ends) + 1
      BY <1>3, <1>4, <1>5, <3>1, <3>2, SMTT(30)
    <3>3. CASE j # Len(ends) + 1
      <4>1. j \in 1 .. Len(ends)
        BY <1>4, <1>5, <2>3, <3>3
      <4>2. QED
        BY <1>5, <2>3, <3>1, <4>1 DEF Framed, Layout
    <3>4. QED
      BY <3>2, <3>3
  <2>4. QED
    BY <2>1, <2>2, <2>3 DEF Layout
<1>9. Aligned'
  <2>1. Len(decoded) \in Nat
    BY DEF Framed, TypeOK
  <2>2. CASE Len(decoded) = 0
    BY <1>2, <1>4, <1>5, <2>2 DEF Framed, Aligned
  <2>3. CASE Len(decoded) # 0
    <3>1. Len(decoded) \in 1 .. Len(ends)
      BY <1>4, <2>1, <2>3 DEF Framed, Aligned
    <3>2. QED
      BY <1>2, <1>4, <1>5, <2>3, <3>1 DEF Framed, Aligned
  <2>4. QED
    BY <2>2, <2>3
<1>10. Filling' /\ Partial' /\ BuffersSuffice'
  BY <1>1, <1>2 DEF Framed, Filling, Partial, BuffersSuffice
<1>11. StreamIntact'
  BY <1>1, <1>2, <1>3, <1>4, <1>6 DEF Framed, TypeOK, StreamIntact
<1>12. QED
  BY <1>7, <1>8, <1>9, <1>10, <1>11 DEF Framed

LEMMA HandOverKeeps ==
  ASSUME Framed, HandOver
  PROVE  Framed'
<1> USE DEF encoding, decoding
<1>1. TypeOK'
  BY DEF Framed, TypeOK, HandOver, SendBuffer, Sizes
<1>2. Layout' /\ Aligned'
  BY DEF Framed, Layout, Aligned, HandOver
<1>3. Filling' /\ Partial' /\ BuffersSuffice'
  BY DEF Framed, TypeOK, Filling, Partial, BuffersSuffice, HandOver
<1>4. StreamIntact'
  BY DEF Framed, TypeOK, Filling, StreamIntact, Total, HandOver
<1>5. QED
  BY <1>1, <1>2, <1>3, <1>4 DEF Framed

\* Whatever the arithmetic of the loop does, it stays within apr_size_t.
LEMMA WithinSizes ==
  ASSUME NEW n \in Int
  PROVE  n % Sizes \in 0 .. Sizes - 1
BY DEF Sizes

\* The loops that write.
LEMMA SendingKeeps ==
  ASSUME Framed, ServerSend \/ SendFails \/ ClientSend \/ Sent
  PROVE  Framed'
<1> USE DEF encoding, decoding
<1>1. /\ UNCHANGED <<sender, ends, lost, filled, batch, length, at, offset,
                     decoded, receiver>>
      /\ phase' \in {"process", "send", "exited"}
      /\ phase' = "send" => phase = "send"
      /\ phase' = "process" => sent' = length
      /\ phase = "send"
  BY DEF ServerSend, SendFails, ClientSend, Sent, Framed, TypeOK
<1>2. /\ sent' \in 0 .. length /\ net' \in Nat
      /\ net' + (length - sent') = net + (length - sent)
  <2>1. CASE ServerSend
    <3>1. PICK k \in 0 .. sendnow : sent' = sent + k /\ net' = net + k
      BY <2>1 DEF ServerSend
    <3>2. QED
      BY <2>1, <3>1 DEF ServerSend, Framed, TypeOK, Sizes, SendBuffer
  <2>2. CASE SendFails \/ ClientSend \/ Sent
    BY <2>2, SMTT(30)
       DEF SendFails, ClientSend, Sent, Framed, TypeOK, SendBuffer
  <2>3. QED
    BY <2>1, <2>2
<1>3. sendnow' \in 0 .. Sizes - 1
  <2>1. CASE ServerSend
    <3>1. PICK k \in 0 .. sendnow : sendnow' = (k - sent') % Sizes
      BY <2>1 DEF ServerSend
    <3>2. k - sent' \in Int
      BY <1>2 DEF Framed, TypeOK, Sizes, SendBuffer
    <3>3. QED
      BY <3>1, <3>2, WithinSizes
  <2>2. CASE SendFails \/ ClientSend \/ Sent
    BY <2>2 DEF SendFails, ClientSend, Sent, Framed, TypeOK
  <2>3. QED
    BY <2>1, <2>2
<1>4. TypeOK'
  BY <1>1, <1>2, <1>3 DEF Framed, TypeOK, SendBuffer, ReceiveBuffer, Sizes
<1>5. Layout' /\ Aligned' /\ Partial' /\ BuffersSuffice'
  BY <1>1 DEF Framed, Layout, Aligned, Partial, BuffersSuffice
<1>6. Filling'
  BY <1>1 DEF Framed, Filling
<1>7. StreamIntact'
  <2>1. Total' = Total
    BY <1>1 DEF Total
  <2>2. /\ at \in Nat /\ offset \in Nat /\ filled \in Nat /\ length \in Nat
        /\ sent \in Nat /\ sent' \in Nat /\ net \in Nat
    BY <1>2 DEF Framed, TypeOK, SendBuffer, ReceiveBuffer
  <2>3. StreamIntact
    BY DEF Framed
  <2>4. CASE receiver \in {"hangs", "refused"}
    BY <1>1, <2>4 DEF StreamIntact
  <2>5. CASE at + offset + net + (length - sent) + filled = Total
    <3>1. /\ at' = at /\ offset' = offset /\ filled' = filled
          /\ length' = length
          /\ net' + (length - sent') = net + (length - sent)
      BY <1>1, <1>2
    <3>2. net' \in Nat
      BY <1>2
    <3>3. at + offset + net' + (length - sent') + filled = Total
      <4>1. ASSUME NEW a \in Nat, NEW o \in Nat, NEW f \in Nat, NEW n \in Nat,
                   NEW m \in Nat, NEW u \in Int, NEW v \in Int, NEW t,
                   a + o + n + u + f = t, m + v = n + u
            PROVE  a + o + m + v + f = t
        BY <4>1
      <4>2. length - sent \in Int /\ length - sent' \in Int
        BY <2>2
      <4>3. at \in Nat
        BY <2>2
      <4>4. offset \in Nat /\ filled \in Nat
        BY <2>2
      <4>5. net' \in Nat
        BY <3>2
      <4>6. at + offset + net + (length - sent) + filled = Total
        BY <2>5
      <4>7. net' + (length - sent') = net + (length - sent)
        BY <3>1
      <4>8. net \in Nat
        BY <2>2
      <4>9. QED
        BY ONLY <4>1, <4>2, <4>3, <4>4, <4>5, <4>6, <4>7, <4>8
    <3>4. QED
      BY <2>1, <3>1, <3>3 DEF StreamIntact
  <2>6. QED
    BY <2>3, <2>4, <2>5 DEF StreamIntact
<1>8. QED
  BY <1>4, <1>5, <1>6, <1>7 DEF Framed

\* What is read fits the receive buffer, which holds less than a message.
LEMMA ReceivingKeeps ==
  ASSUME Framed, ServerReceive \/ ClientReceive
  PROVE  Framed'
<1> USE DEF encoding, sending
<1>1. /\ UNCHANGED <<sender, ends, lost, filled, batch, phase, length, sent,
                     sendnow, at, decoded>>
      /\ receiver = "reading"
  BY DEF ServerReceive, ClientReceive
<1>2. PICK n \in 1 .. net :
        /\ net' = net - n
        /\ \/ receiver' = "hangs" /\ offset' = offset
           \/ n <= Chunk /\ Take(n)
  BY DEF ServerReceive, ClientReceive, Framed, TypeOK
<1>3. offset < MaxLength
  BY <1>1 DEF Framed, Partial
<1>4. \/ receiver' = "hangs" /\ offset' = offset
      \/ receiver' = "decoding" /\ offset' = offset + n
                                /\ offset' < ReceiveBuffer
  BY <1>2, <1>3 DEF Take, ReceiveBuffer, Framed, TypeOK
<1>5. net' \in Nat /\ n \in Nat
  BY <1>2 DEF Framed, TypeOK
<1>6. TypeOK'
  BY <1>1, <1>4, <1>5 DEF Framed, TypeOK, SendBuffer, ReceiveBuffer, Sizes
<1>7. Layout' /\ Aligned' /\ Filling'
  BY <1>1 DEF Framed, Layout, Aligned, Filling
<1>8. Partial' /\ BuffersSuffice'
  BY <1>1, <1>4 DEF Framed, Partial, BuffersSuffice
<1>9. StreamIntact'
  BY <1>1, <1>2, <1>4, <1>5 DEF Framed, TypeOK, StreamIntact, Total
<1>10. QED
  BY <1>6, <1>7, <1>8, <1>9 DEF Framed

\* A message is decoded, and the buffer begins with the next.
LEMMA DecodeKeeps ==
  ASSUME Framed, Decode
  PROVE  /\ Framed'
         /\ Len(decoded) < Len(ends)
         /\ decoded' = Append(decoded, Len(decoded) + 1)
         /\ ends' = ends
<1> USE DEF encoding, sending
<1>1. /\ UNCHANGED <<sender, ends, lost, filled, batch, phase, length, sent,
                     sendnow, net, receiver>>
      /\ receiver = "decoding" /\ Whole
      /\ decoded' = Append(decoded, Heading)
      /\ at' = at + HeadLength /\ offset' = offset - HeadLength
  BY DEF Decode
<1>2. Len(decoded) < Len(ends)
  BY <1>1, WholeThere
<1>3. /\ Heading = Len(decoded) + 1
      /\ HeadLength = ends[Len(decoded) + 1] - at
      /\ HeadLength \in Header .. MaxLength
  BY <1>2, HeadingNext DEF Framed
<1>4. /\ decoded \in Seq(Nat) /\ Len(decoded) \in Nat /\ Len(ends) \in Nat
      /\ at \in Nat /\ offset \in Nat /\ ends \in Seq(Nat)
      /\ HeadLength \in Nat /\ HeadLength <= offset
  <2>1. HeadLength \in Nat
    BY <1>3
  <2>2. QED
    BY <1>1, <2>1 DEF Framed, TypeOK, Whole, ReceiveBuffer
<1>5. /\ decoded' \in Seq(Nat) /\ Len(decoded') = Len(decoded) + 1
      /\ \A i \in 1 .. Len(decoded) : decoded'[i] = decoded[i]
      /\ decoded'[Len(decoded) + 1] = Len(decoded) + 1
  BY <1>1, <1>3, <1>4, SMTT(30)
<1>6. at' = ends[Len(decoded')] /\ offset' \in Nat /\ offset' <= offset
  <2>1. ends[Len(decoded) + 1] \in Nat
    BY <1>2, <1>4
  <2>2. at' = ends[Len(decoded) + 1]
    BY <1>1, <1>3, <1>4, <2>1, SMTT(30)
  <2>3. offset' \in Nat /\ offset' <= offset
    BY <1>1, <1>4
  <2>4. QED
    BY <1>5, <2>2, <2>3
<1>7. TypeOK'
  BY <1>1, <1>4, <1>5, <1>6 DEF Framed, TypeOK, SendBuffer, ReceiveBuffer, Sizes
<1>8. Layout' /\ Filling' /\ Partial' /\ BuffersSuffice'
  BY <1>1 DEF Framed, Layout, Filling, Partial, BuffersSuffice
<1>9. Aligned'
  <2>1. Len(decoded') <= Len(ends')
    BY <1>1, <1>2, <1>4, <1>5
  <2>2. ASSUME NEW i \in 1 .. Len(decoded') PROVE decoded'[i] = i
    <3>1. i = Len(decoded) + 1 \/ i \in 1 .. Len(decoded)
      BY <1>4, <1>5
    <3>2. \A j \in 1 .. Len(decoded) : decoded[j] = j
      BY DEF Framed, Aligned
    <3>3. QED
      BY <1>5, <3>1, <3>2
  <2>3. QED
    BY <1>1, <1>4, <1>5, <1>6, <2>1, <2>2 DEF Aligned
<1>10. StreamIntact'
  BY <1>1, <1>4 DEF Framed, TypeOK, StreamIntact, Total
<1>11. QED
  BY <1>1, <1>2, <1>3, <1>7, <1>8, <1>9, <1>10 DEF Framed

\* What is left after the last whole message is less than one.
LEMMA DecodedKeeps ==
  ASSUME Framed, Decoded
  PROVE  Framed'
<1> USE DEF encoding, sending, decoding
<1>1. offset < MaxLength
  <2>1. offset \in Nat /\ (offset < Header \/ offset < HeadLength)
    BY SMTT(30) DEF Decoded, Whole, Framed, TypeOK, HeadLength, Heading
  <2>2. CASE Len(decoded) < Len(ends)
    BY <2>1, <2>2, HeadingNext DEF Framed
  <2>3. CASE ~(Len(decoded) < Len(ends))
    <3>1. Len(decoded) = Len(ends)
      BY <2>3 DEF Framed, TypeOK, Aligned
    <3>2. at = Total
      BY <3>1 DEF Framed, TypeOK, Aligned, Total
    <3>3. at + offset + net + (length - sent) + filled = Total
      BY DEF Framed, StreamIntact, Decoded
    <3>4. QED
      BY <3>2, <3>3 DEF Framed, TypeOK
  <2>4. QED
    BY <2>2, <2>3
<1>2. TypeOK' /\ Layout' /\ Aligned' /\ Filling' /\ StreamIntact'
  BY DEF Decoded, Framed, TypeOK, Layout, Aligned, Filling, StreamIntact,
         Total
<1>3. Partial' /\ BuffersSuffice'
  BY <1>1 DEF Decoded, Framed, Partial, BuffersSuffice
<1>4. QED
  BY <1>2, <1>3 DEF Framed

-----------------------------------------------------------------------------
LEMMA FramedNext == Framed /\ [Next]_vars => Framed'
<1> SUFFICES ASSUME Framed, [Next]_vars PROVE Framed'
  OBVIOUS
<1>1. CASE \E l \in Lengths : Encode(l)
  BY <1>1, EncodeKeeps
<1>2. CASE HandOver
  BY <1>2, HandOverKeeps
<1>3. CASE ServerSend \/ SendFails \/ ClientSend \/ Sent
  BY <1>3, SendingKeeps
<1>4. CASE ServerReceive \/ ClientReceive
  BY <1>4, ReceivingKeeps
<1>5. CASE Decode
  BY <1>5, DecodeKeeps
<1>6. CASE Decoded
  BY <1>6, DecodedKeeps
<1>7. CASE UNCHANGED vars
  BY <1>7 DEF vars, encoding, sending, decoding, Framed, TypeOK, Layout,
              Aligned, Filling, Partial, StreamIntact, BuffersSuffice, Total
<1>8. QED
  BY <1>1, <1>2, <1>3, <1>4, <1>5, <1>6, <1>7 DEF Next

\* The inductive invariant of a direction of a connection.
THEOREM FramedHolds == Spec => []Framed
<1>1. QED
  BY FramedInit, FramedNext, PTL DEF Spec

\* Every variable keeps its type; in particular sent never passes length,
\* whatever the peer takes of what is offered (_lt_server_client_run).
THEOREM TransportTyped == Spec => []TypeOK
<1>1. Framed => TypeOK
  BY DEF Framed
<1>2. QED
  BY FramedHolds, <1>1, PTL

\* No byte gets lost or doubled in the buffers of the two ends.
THEOREM StreamStaysIntact == Spec => []StreamIntact
<1>1. Framed => StreamIntact
  BY DEF Framed
<1>2. QED
  BY FramedHolds, <1>1, PTL

\* Five messages of the maximal length are enough for both buffers, as long
\* as a round encodes five messages at most and a chunk is not longer than
\* four (lt_cp_session_create).
THEOREM BuffersAlwaysSuffice == Spec => []BuffersSuffice
<1>1. Framed => BuffersSuffice
  BY DEF Framed
<1>2. QED
  BY FramedHolds, <1>1, PTL

\* The buffers, loops and TCP together are a channel: every step of theirs
\* accepts a message, delivers the next one, or is invisible.
THEOREM TransportImplementsChannel == Spec => ActsAsChannel
<1>1. Init => Link!Init
  BY DEF Init, Link!Init
<1>2. ASSUME Framed, [Next]_vars
      PROVE  [Link!Next]_<<Len(ends), decoded>>
  <2>1. CASE \E l \in Lengths : Encode(l)
    <3>1. PICK l \in Lengths : Encode(l)
      BY <2>1
    <3>2. decoded' = decoded /\ (ends' = ends \/ ends' = Append(ends, Total + l))
      BY <3>1 DEF Encode, decoding
    <3>3. ends \in Seq(Nat) /\ Total + l \in Nat
      BY <1>2, TotalType DEF Framed, TypeOK
    <3>4. Len(ends') = Len(ends) \/ Len(ends') = Len(ends) + 1
      BY <3>2, <3>3
    <3>5. QED
      BY <3>2, <3>4 DEF Link!Next, Link!Accept
  <2>2. CASE Decode
    BY <1>2, <2>2, DecodeKeeps DEF Link!Next, Link!Deliver
  <2>3. CASE \/ HandOver \/ ServerSend \/ SendFails \/ ClientSend \/ Sent
             \/ ServerReceive \/ ClientReceive \/ Decoded \/ UNCHANGED vars
    <3>1. ends' = ends /\ decoded' = decoded
      BY <2>3 DEF HandOver, ServerSend, SendFails, ClientSend, Sent,
                  ServerReceive, ClientReceive, Decoded, vars, encoding,
                  decoding
    <3>2. QED
      BY <3>1
  <2>4. QED
    BY <1>2, <2>1, <2>2, <2>3 DEF Next
<1>3. QED
  BY FramedHolds, <1>1, <1>2, PTL DEF Spec, ActsAsChannel, Link!Spec
=============================================================================
