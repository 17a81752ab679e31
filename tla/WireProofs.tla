------------------------------ MODULE WireProofs ------------------------------
(***************************************************************************)
(* What holds of Wire for any limits, messages and buffers.                *)
(***************************************************************************)
EXTENDS Wire, TLAPS

-------------------------------------------------------------------------------
\* No length wraps, recv_msg's limit lets every message pass, and a task within the REPL's
\* limits has a layout that handle_connection accepts.
LEMMA MessageFits ==
  ASSUME NEW m \in Messages
  PROVE  /\ m.len \in Nat \ {0} /\ m.len <= PayloadLimit
         /\ m.type = "TASK_FILE" => Accepts(m)
<1> USE WireAssumption
<1>1. ASSUME NEW fn \in Names, NEW size \in Sizes, m = TaskFile(fn, size)
      PROVE  /\ m.len \in Nat \ {0} /\ m.len <= PayloadLimit
             /\ Accepts(m)
  <2>1. U16(fn) = fn
    BY DEF U16, Names
  <2>2. U32(2 + fn + 4 + size) = 2 + fn + 4 + size
    BY DEF U32, Names, Sizes
  <2>3. m.len = 2 + fn + 4 + size /\ m.fn = fn /\ m.size = size
    BY <1>1, <2>1, <2>2 DEF TaskFile
  <2>4. QED
    BY <2>3 DEF Accepts, PayloadLimit, Names, Sizes
<1>2. ASSUME NEW len \in 1 .. OUTPUT_BUF_SIZE, m = Plain("OUTPUT", len)
      PROVE  m.len \in Nat \ {0} /\ m.len <= PayloadLimit /\ m.type # "TASK_FILE"
  BY <1>2 DEF Plain, PayloadLimit
<1>3. ASSUME m = Plain("TASK_DONE", 4)
      PROVE  m.len \in Nat \ {0} /\ m.len <= PayloadLimit /\ m.type # "TASK_FILE"
  BY <1>3 DEF Plain, PayloadLimit
<1>4. QED
  BY <1>1, <1>2, <1>3 DEF Messages
-------------------------------------------------------------------------------
\* The stream of bytes between send_all and recv_all

Total(n) == HeaderLen + offered[n].len
Current == Len(delivered) + 1

\* The byte that send() takes next, and the i-th byte from the receiver's end on: under way
\* or, while the connection is open, the one after those.
NextByte ==
  IF part = "idle" THEN [msg |-> Len(offered) + 1, at |-> 1]
                   ELSE [msg |-> Len(offered), at |-> at + 1]
Upto == Len(line) + IF link = "open" THEN 1 ELSE 0
At(i) == IF i <= Len(line) THEN line[i] ELSE NextByte
AtNext(i) == IF i <= Len(line') THEN line'[i] ELSE NextByte'

SenderInv ==
  /\ part = "header" => Len(offered) > 0 /\ at < HeaderLen
  /\ part = "payload" => Len(offered) > 0 /\ HeaderLen <= at /\ at < Total(Len(offered))
  /\ link = "open" => part # "failed"

\* Each byte belongs to a message, and the bytes of one message follow each other; its
\* last byte is followed by the first of the next message.
InMessage ==
  \A i \in 1 .. Len(line) : line[i].msg <= Len(offered) /\ line[i].at <= Total(line[i].msg)
Runs ==
  \A i \in 1 .. Len(line) : \A j \in i .. Upto :
    line[i].at + (j - i) <= Total(line[i].msg) =>
      At(j) = [msg |-> line[i].msg, at |-> line[i].at + (j - i)]
Turns ==
  \A i \in 1 .. Len(line) :
    i < Upto /\ line[i].at = Total(line[i].msg) =>
      At(i + 1) = [msg |-> line[i].msg + 1, at |-> 1]
LineInv == InMessage /\ Runs /\ Turns

\* What recv_msg has is the beginning of the message it is about to return.
GotInv ==
  /\ Len(delivered) <= Len(offered)
  /\ got # <<>> => Current <= Len(offered)
  /\ \A i \in 1 .. Len(got) : got[i] = [msg |-> Current, at |-> i]
  /\ stage = "header" => Len(got) < HeaderLen
  /\ stage = "payload" => /\ Current <= Len(offered)
                          /\ HeaderLen <= Len(got) /\ Len(got) < Total(Current)
  /\ stage # "refused"

\* The rest of that message comes next.
FrontInv ==
  stage \in {"header", "payload"} =>
    \A i \in 1 .. Upto :
      i = 1 \/ (Current <= Len(offered) /\ Len(got) + i <= Total(Current)) =>
        At(i) = [msg |-> Current, at |-> Len(got) + i]

DeliveredInv == \A n \in 1 .. Len(delivered) : delivered[n] = Bytes(n)

StreamInv == TypeOK /\ SenderInv /\ LineInv /\ GotInv /\ FrontInv /\ DeliveredInv

\* The lengths of sequences, of the messages that were offered, and the bytes under way.
LEMMA Lens ==
  ASSUME TypeOK
  PROVE  /\ Len(offered) \in Nat /\ Len(line) \in Nat /\ Len(got) \in Nat
         /\ Len(delivered) \in Nat /\ at \in Nat
  BY DEF TypeOK

LEMMA OfferedLens ==
  ASSUME TypeOK, NEW n \in 1 .. Len(offered)
  PROVE  /\ offered[n] \in Messages
         /\ offered[n].len \in Nat /\ 0 < offered[n].len /\ offered[n].len <= PayloadLimit
         /\ Total(n) \in Nat /\ Total(n) > HeaderLen
<1>1. offered[n] \in Messages
  BY DEF TypeOK
<1>2. offered[n].len \in Nat /\ 0 < offered[n].len /\ offered[n].len <= PayloadLimit
  BY <1>1, MessageFits
<1>3. QED
  BY <1>1, <1>2 DEF Total, HeaderLen

LEMMA LineBytes ==
  ASSUME TypeOK, InMessage, NEW i \in 1 .. Len(line)
  PROVE  /\ line[i].msg \in Nat /\ line[i].at \in Nat /\ 0 < line[i].at
         /\ line[i] = [msg |-> line[i].msg, at |-> line[i].at]
         /\ line[i].msg \in 1 .. Len(offered) /\ line[i].at <= Total(line[i].msg)
<1>1. line[i] \in Byte
  BY DEF TypeOK
<1>2. line[i].msg <= Len(offered) /\ line[i].at <= Total(line[i].msg)
  BY DEF InMessage
<1>3. QED
  BY <1>1, <1>2, Lens DEF Byte

LEMMA InitStream == Init => StreamInv
  BY WireAssumption
  DEF Init, StreamInv, TypeOK, SenderInv, LineInv, InMessage, Runs, Turns, GotInv, FrontInv,
      DeliveredInv, Current, NextByte, Upto, At, HeaderLen, PayloadLimit

\* A new message begins where the stream ends.
LEMMA SendMsgStep ==
  ASSUME StreamInv, NEW m \in Messages, SendMsg(m)
  PROVE  StreamInv'
<1> USE DEF StreamInv
<1>1. /\ part = "idle" /\ link = "open" /\ part' = "header" /\ at' = 0
      /\ UNCHANGED <<line, link, stage, got, delivered>>
      /\ offered' = Append(offered, m)
  BY DEF SendMsg, receiver
<1>2. /\ Len(offered') = Len(offered) + 1 /\ Len(offered) < MaxMsgs
      /\ offered' \in Seq(Messages)
      /\ \A n \in 1 .. Len(offered) : offered'[n] = offered[n] /\ Total(n)' = Total(n)
  BY <1>1 DEF SendMsg, TypeOK, Total
<1>3. TypeOK'
  BY <1>1, <1>2, WireAssumption DEF TypeOK
<1>4. NextByte' = NextByte /\ Upto' = Upto
  BY <1>1, <1>2, Lens DEF NextByte, Upto
<1>5. SenderInv'
  BY <1>1, <1>2, Lens DEF SenderInv, HeaderLen
<1>6. \A i \in 1 .. Len(line) :
        /\ line[i].msg \in 1 .. Len(offered)
        /\ HeaderLen + offered'[line[i].msg].len = HeaderLen + offered[line[i].msg].len
  <2>1. \A i \in 1 .. Len(line) : line[i].msg \in 1 .. Len(offered)
    BY LineBytes DEF LineInv
  <2>2. QED
    BY <1>2, <2>1
<1>7. LineInv'
  <2>1. InMessage'
    BY <1>6, <1>1, <1>2, Lens DEF LineInv, InMessage, Total
  <2>2. Runs'
    BY <1>6, <1>1, <1>4 DEF LineInv, Runs, At, Total
  <2>3. Turns'
    BY <1>6, <1>1, <1>4 DEF LineInv, Turns, At, Total
  <2>4. QED
    BY <2>1, <2>2, <2>3 DEF LineInv
<1>8. GotInv'
  BY <1>1, <1>2, Lens DEF GotInv, Current, Total
<1>9. FrontInv'
  <2> SUFFICES ASSUME stage \in {"header", "payload"}, NEW i \in 1 .. Upto,
                      i = 1 \/ (Current <= Len(offered) + 1
                                /\ Len(got) + i <= HeaderLen + offered'[Current].len)
               PROVE  At(i) = [msg |-> Current, at |-> Len(got) + i]
    BY <1>1, <1>2, <1>4 DEF FrontInv, Current, At, Total
  <2>1. CASE i = 1
    BY <2>1 DEF FrontInv
  <2>2. CASE i > 1 /\ Current <= Len(offered)
    <3>1. offered'[Current] = offered[Current]
      BY <1>2, <2>2, Lens DEF Current
    <3>2. QED
      BY <2>2, <3>1 DEF FrontInv, Total
  <2>3. CASE i > 1 /\ Current > Len(offered)
    <3>1. 1 \in 1 .. Upto /\ 1 \in 1 .. Len(line) /\ At(1) = line[1]
      BY <1>1, <2>3, Lens DEF Upto, At
    <3>2. line[1].msg = Current
      BY <3>1 DEF FrontInv
    <3>3. line[1].msg \in 1 .. Len(offered)
      BY <3>1, LineBytes DEF LineInv
    <3>4. QED
      BY <2>3, <3>2, <3>3, Lens DEF Current
  <2>4. QED
    BY <2>1, <2>2, <2>3, Lens DEF Current, Upto
<1>10. DeliveredInv'
  BY <1>1, <1>2, Lens DEF DeliveredInv, GotInv, Bytes
<1>11. QED
  BY <1>3, <1>5, <1>7, <1>8, <1>9, <1>10

\* Concatenation, byte by byte.
LEMMA Joined ==
  ASSUME NEW S, NEW s \in Seq(S), NEW t \in Seq(S)
  PROVE  /\ s \o t \in Seq(S) /\ Len(s \o t) = Len(s) + Len(t)
         /\ \A i \in 1 .. Len(s) : (s \o t)[i] = s[i]
         /\ \A i \in Len(s) + 1 .. Len(s) + Len(t) : (s \o t)[i] = t[i - Len(s)]
  OBVIOUS

\* What send() takes of the last message.
LEMMA Taken ==
  ASSUME StreamInv, Transmit
  PROVE  \E k \in Nat \ {0} :
           /\ Len(offered) \in 1 .. MaxMsgs /\ Total(Len(offered)) \in Nat
           /\ at \in Nat /\ at + k <= PartEnd /\ PartEnd <= Total(Len(offered))
           /\ part = "header" => PartEnd = HeaderLen
           /\ part = "payload" => PartEnd = Total(Len(offered))
           /\ Total(Len(offered)) > HeaderLen
           /\ PartEnd \in Nat
           /\ line' \in Seq(Byte) /\ Len(line') = Len(line) + k /\ Len(line) + k <= LineCap
           /\ \A i \in 1 .. Len(line) : line'[i] = line[i]
           /\ \A i \in Len(line) + 1 .. Len(line) + k :
                 line'[i] = [msg |-> Len(offered), at |-> at + (i - Len(line))]
           /\ at' = at + k
           /\ part' = IF at + k = PartEnd THEN AfterPart ELSE part
<1> DEFINE L == Len(offered)
<1>1. part \in {"header", "payload"} /\ link = "open"
  BY DEF Transmit
<1>2. PICK k \in 1 .. PartEnd - at :
        /\ Len(line) + k <= LineCap
        /\ line' = line \o SubSeq(Bytes(L), at + 1, at + k)
        /\ at' = at + k
        /\ part' = IF at + k = PartEnd THEN AfterPart ELSE part
  BY DEF Transmit
<1>3. L \in Nat /\ L \in 1 .. L /\ L \in 1 .. MaxMsgs
  BY <1>1, WireAssumption DEF SenderInv, StreamInv, TypeOK
<1>4. offered[L].len \in Nat /\ 0 < offered[L].len
  BY <1>3, OfferedLens DEF StreamInv
<1>5. /\ Total(L) \in Nat /\ Total(L) > HeaderLen /\ Last.len > 0
      /\ PartEnd \in Nat /\ PartEnd <= Total(L)
      /\ part = "header" => PartEnd = HeaderLen
      /\ part = "payload" => PartEnd = Total(L)
      /\ at \in Nat
  BY <1>1, <1>3, <1>4 DEF StreamInv, TypeOK, Total, HeaderLen, Last, PartEnd
<1>6. k \in Nat \ {0} /\ at + k <= PartEnd /\ at + k <= Total(L)
  BY <1>2, <1>5
<1> DEFINE new == [i \in 1 .. k |-> [msg |-> L, at |-> at + i]]
<1>7. SubSeq(Bytes(L), at + 1, at + k) = new
  BY <1>3, <1>5, <1>6 DEF Bytes, BytesOf, Total
<1>8. \A i \in 1 .. k : [msg |-> L, at |-> at + i] \in Byte
  BY <1>3, <1>5, <1>6 DEF Byte
<1>9. new \in Seq(Byte) /\ Len(new) = k /\ \A i \in 1 .. k : new[i] = [msg |-> L, at |-> at + i]
  BY <1>6, <1>8
<1>10. line' = line \o new
  BY <1>2, <1>7
<1> HIDE DEF new
<1>11. line \in Seq(Byte) /\ Len(line) \in Nat
  BY DEF StreamInv, TypeOK
<1>12. /\ line' \in Seq(Byte) /\ Len(line') = Len(line) + Len(new)
       /\ \A i \in 1 .. Len(line) : line'[i] = line[i]
       /\ \A i \in Len(line) + 1 .. Len(line) + Len(new) : line'[i] = new[i - Len(line)]
  BY <1>9, <1>10, <1>11, Joined
<1>13. \A i \in Len(line) + 1 .. Len(line) + k : i - Len(line) \in 1 .. k
  BY <1>6, <1>11
<1>14. \A i \in Len(line) + 1 .. Len(line) + k :
          line'[i] = [msg |-> L, at |-> at + (i - Len(line))]
  BY <1>9, <1>12, <1>13
<1>15. QED
  BY <1>2, <1>3, <1>5, <1>6, <1>9, <1>12, <1>14

\* The stream after send(): the old bytes, k more of message Len(offered), and the byte that
\* the next send() will take.
Extended(k) ==
  /\ Len(line') = Len(line) + k
  /\ \A i \in 1 .. Len(line) : line'[i] = line[i]
  /\ \A i \in Len(line) + 1 .. Len(line) + k :
       line'[i] = [msg |-> Len(offered), at |-> at + (i - Len(line))]
  /\ at + k < Total(Len(offered)) => NextByte' = [msg |-> Len(offered), at |-> at + (k + 1)]
  /\ at + k = Total(Len(offered)) => NextByte' = [msg |-> Len(offered) + 1, at |-> 1]
  /\ NextByte = [msg |-> Len(offered), at |-> at + 1]
  /\ Upto = Len(line) + 1 /\ Upto' = Len(line) + k + 1
  /\ UNCHANGED <<offered, link, stage, got, delivered>>
Sized(k) ==
  /\ k \in Nat \ {0} /\ at \in Nat /\ Len(offered) \in 1 .. MaxMsgs
  /\ Total(Len(offered)) \in Nat /\ at + k <= Total(Len(offered))

LEMMA TransmitExtends ==
  ASSUME StreamInv, Transmit
  PROVE  TypeOK' /\ SenderInv' /\ \E k \in Nat : Extended(k) /\ Sized(k)
<1>1. /\ part \in {"header", "payload"} /\ link = "open"
      /\ UNCHANGED <<offered, link, stage, got, delivered>>
  BY DEF Transmit, receiver
<1>2. PICK k \in Nat \ {0} :
        /\ Len(offered) \in 1 .. MaxMsgs /\ Total(Len(offered)) \in Nat
        /\ at \in Nat /\ at + k <= PartEnd /\ PartEnd <= Total(Len(offered))
        /\ part = "header" => PartEnd = HeaderLen
        /\ part = "payload" => PartEnd = Total(Len(offered))
        /\ Total(Len(offered)) > HeaderLen
        /\ PartEnd \in Nat
        /\ line' \in Seq(Byte) /\ Len(line') = Len(line) + k /\ Len(line) + k <= LineCap
        /\ \A i \in 1 .. Len(line) : line'[i] = line[i]
        /\ \A i \in Len(line) + 1 .. Len(line) + k :
              line'[i] = [msg |-> Len(offered), at |-> at + (i - Len(line))]
        /\ at' = at + k
        /\ part' = IF at + k = PartEnd THEN AfterPart ELSE part
  BY Taken
<1>3. AfterPart = IF part = "header" THEN "payload" ELSE "idle"
  <2>1. offered[Len(offered)].len > 0
    BY <1>2, OfferedLens DEF StreamInv
  <2>2. QED
    BY <2>1 DEF AfterPart, Last
<1>4. Len(line) \in Nat /\ at + k <= Total(Len(offered)) /\ HeaderLen \in Nat
  BY <1>2, Lens DEF StreamInv, HeaderLen
<1>5. TypeOK'
  <2>1. part' \in {"idle", "header", "payload", "failed"}
    BY <1>1, <1>2, <1>3
  <2>2. at' \in Nat
    BY <1>2
  <2>3. line' \in Seq(Byte) /\ Len(line') <= LineCap
    BY <1>2
  <2>4. QED
    BY <1>1, <2>1, <2>2, <2>3 DEF StreamInv, TypeOK
<1>6. SenderInv'
  <2>1. part' = "header" => Len(offered) > 0 /\ at + k < HeaderLen
    BY <1>1, <1>2, <1>3
  <2>2. part' = "payload" => Len(offered) > 0 /\ HeaderLen <= at + k /\ at + k < Total(Len(offered))
    <3>1. part = "payload" => HeaderLen <= at
      BY DEF StreamInv, SenderInv
    <3>2. CASE part = "header"
      BY <1>2, <1>3, <1>4, <3>2
    <3>3. CASE part = "payload"
      BY <1>2, <1>3, <1>4, <3>1, <3>3
    <3>4. QED
      BY <1>1, <3>2, <3>3
  <2>3. part' # "failed"
    BY <1>1, <1>2, <1>3
  <2>4. Total(Len(offered))' = Total(Len(offered))
    BY <1>1 DEF Total
  <2>5. QED
    BY <1>1, <1>2, <2>1, <2>2, <2>3, <2>4 DEF SenderInv
<1>7. Extended(k)
  <2>1. NextByte = [msg |-> Len(offered), at |-> at + 1]
    BY <1>1 DEF NextByte
  <2>2. CASE part = "header"
    <3>1. part' # "idle" /\ at + k < Total(Len(offered))
      BY <1>2, <1>3, <1>4, <2>2
    <3>2. NextByte' = [msg |-> Len(offered), at |-> at + (k + 1)]
      BY <1>1, <1>2, <3>1 DEF NextByte
    <3>3. QED
      BY <1>1, <1>2, <1>4, <2>1, <3>1, <3>2 DEF Extended, Upto
  <2>3. CASE part = "payload"
    <3>1. at + k < Total(Len(offered)) => NextByte' = [msg |-> Len(offered), at |-> at + (k + 1)]
      BY <1>1, <1>2, <1>3, <2>3 DEF NextByte
    <3>2. at + k = Total(Len(offered)) => NextByte' = [msg |-> Len(offered) + 1, at |-> 1]
      BY <1>1, <1>2, <1>3, <2>3 DEF NextByte
    <3>3. QED
      BY <1>1, <1>2, <1>4, <2>1, <3>1, <3>2 DEF Extended, Upto
  <2>4. QED
    BY <1>1, <2>2, <2>3
<1>8. QED
  BY <1>2, <1>4, <1>5, <1>6, <1>7 DEF Sized

\* The bytes of the extended stream.
LEMMA ExtendedBytes ==
  ASSUME StreamInv, NEW k \in Nat, Extended(k), Sized(k)
  PROVE  /\ Len(line) \in Nat
         /\ \A i \in 1 .. Len(line) : At(i) = line[i] /\ AtNext(i) = line[i]
         /\ At(Len(line) + 1) = [msg |-> Len(offered), at |-> at + 1]
         /\ \A i \in Nat :
              i > Len(line) /\ i <= Len(line) + k + 1 /\ at + (i - Len(line)) <= Total(Len(offered)) =>
                AtNext(i) = [msg |-> Len(offered), at |-> at + (i - Len(line))]
         /\ at + k = Total(Len(offered)) =>
              AtNext(Len(line) + k + 1) = [msg |-> Len(offered) + 1, at |-> 1]
<1>1. Len(line) \in Nat /\ k > 0
  BY Lens DEF StreamInv, Sized
<1>2. \A i \in 1 .. Len(line) : At(i) = line[i] /\ AtNext(i) = line[i]
  <2>1. \A i \in 1 .. Len(line) : i <= Len(line) /\ i <= Len(line) + k
    BY <1>1
  <2>2. QED
    BY <2>1 DEF At, AtNext, Extended
<1>3. At(Len(line) + 1) = [msg |-> Len(offered), at |-> at + 1]
  <2>1. ~ (Len(line) + 1 <= Len(line))
    BY <1>1
  <2>2. QED
    BY <2>1 DEF At, Extended
<1>4. \A i \in Nat : i > Len(line) + k => AtNext(i) = NextByte'
  <2>1. \A i \in Nat : i > Len(line) + k => ~ (i <= Len(line) + k)
    BY <1>1
  <2>2. QED
    BY <2>1 DEF AtNext, Extended
<1>5. ASSUME NEW i \in Nat, i > Len(line), i <= Len(line) + k + 1,
             at + (i - Len(line)) <= Total(Len(offered))
      PROVE  AtNext(i) = [msg |-> Len(offered), at |-> at + (i - Len(line))]
  <2>1. CASE i <= Len(line) + k
    <3>1. i \in Len(line) + 1 .. Len(line) + k
      BY <1>1, <1>5, <2>1
    <3>2. QED
      BY <2>1, <3>1 DEF AtNext, Extended
  <2>2. CASE i > Len(line) + k
    <3>1. i - Len(line) = k + 1
      BY <1>1, <1>5, <2>2
    <3>2. at + k < Total(Len(offered))
      BY <1>5, <3>1 DEF Sized
    <3>3. QED
      BY <1>4, <2>2, <3>1, <3>2 DEF Extended
  <2>3. QED
    BY <1>1, <2>1, <2>2
<1>6. ASSUME at + k = Total(Len(offered))
      PROVE  AtNext(Len(line) + k + 1) = [msg |-> Len(offered) + 1, at |-> 1]
  <2>1. Len(line) + k + 1 \in Nat /\ Len(line) + k + 1 > Len(line) + k
    BY <1>1
  <2>2. QED
    BY <1>4, <1>6, <2>1 DEF Extended
<1>7. QED
  BY <1>1, <1>2, <1>3, <1>5, <1>6

\* What send() takes continues the stream.
LEMMA TransmitLine ==
  ASSUME StreamInv, NEW k \in Nat, Extended(k), Sized(k)
  PROVE  LineInv'
<1> DEFINE L == Len(offered)
           N == Len(line)
<1>1. /\ N \in Nat /\ k > 0 /\ at \in Nat /\ L \in Nat /\ L > 0
  BY ExtendedBytes, WireAssumption DEF Sized
<1>2. Total(L) \in Nat /\ at + k <= Total(L)
  BY DEF Sized
<1>3. \A i \in 1 .. N : line'[i] = line[i] /\ AtNext(i) = line[i] /\ At(i) = line[i]
  BY ExtendedBytes DEF Extended
<1>4. \A i \in N + 1 .. N + k : line'[i] = [msg |-> L, at |-> at + (i - N)]
  BY DEF Extended
<1>5. \A i \in Nat : i > N /\ i <= N + k + 1 /\ at + (i - N) <= Total(L) =>
                       AtNext(i) = [msg |-> L, at |-> at + (i - N)]
  BY ExtendedBytes
<1>6. at + k = Total(L) => AtNext(N + k + 1) = [msg |-> L + 1, at |-> 1]
  BY ExtendedBytes
<1>7. At(N + 1) = [msg |-> L, at |-> at + 1]
  BY ExtendedBytes
<1>8. Len(line') = N + k /\ Upto = N + 1 /\ Upto' = N + k + 1 /\ UNCHANGED offered
  BY DEF Extended
<1>9. \A i \in 1 .. N :
         /\ line[i].msg \in Nat /\ line[i].at \in Nat /\ Total(line[i].msg) \in Nat
         /\ line[i].msg <= L /\ line[i].at <= Total(line[i].msg)
  <2> SUFFICES ASSUME NEW i \in 1 .. N
               PROVE  /\ line[i].msg \in Nat /\ line[i].at \in Nat
                      /\ Total(line[i].msg) \in Nat
                      /\ line[i].msg <= L /\ line[i].at <= Total(line[i].msg)
    OBVIOUS
  <2>1. /\ line[i].msg \in 1 .. L /\ line[i].at \in Nat /\ line[i].msg \in Nat
        /\ line[i].at <= Total(line[i].msg)
    BY LineBytes DEF StreamInv, LineInv
  <2>2. Total(line[i].msg) \in Nat
    BY <2>1, OfferedLens DEF StreamInv
  <2>3. QED
    BY <1>1, <2>1, <2>2
<1>10. Runs /\ Turns
  BY DEF StreamInv, LineInv
<1> HIDE DEF L, N
<1>11. ASSUME NEW i \in 1 .. N + k
       PROVE  \/ i \in 1 .. N /\ line'[i] = line[i] /\ i \in Nat
              \/ /\ i \in Nat /\ i > N /\ i <= N + k
                 /\ line'[i].msg = L /\ line'[i].at = at + (i - N)
  <2>1. CASE i <= N
    <3>1. i \in 1 .. N /\ i \in Nat
      BY <1>1, <2>1
    <3>2. QED
      BY <1>3, <3>1
  <2>2. CASE i > N
    <3>1. i \in N + 1 .. N + k /\ i \in Nat /\ i <= N + k
      BY <1>1, <2>2
    <3>2. line'[i] = [msg |-> L, at |-> at + (i - N)]
      BY <1>4, <3>1
    <3>3. QED
      BY <2>2, <3>1, <3>2
  <2>3. QED
    BY <1>1, <2>1, <2>2
<1>12. InMessage'
  <2> SUFFICES ASSUME NEW i \in 1 .. N + k
               PROVE  line'[i].msg <= L /\ line'[i].at <= Total(line'[i].msg)
    BY <1>8 DEF InMessage, Total, L
  <2>1. CASE i \in 1 .. N /\ line'[i] = line[i]
    BY <1>9, <2>1
  <2>2. CASE i \in Nat /\ i > N /\ i <= N + k /\ line'[i].msg = L /\ line'[i].at = at + (i - N)
    <3>1. at + (i - N) <= Total(L) /\ L <= L
      BY <1>1, <1>2, <2>2
    <3>2. QED
      BY <2>2, <3>1
  <2>3. QED
    BY <1>11, <2>1, <2>2
<1>13. Runs'
  <2> SUFFICES ASSUME NEW i \in 1 .. N + k, NEW j \in i .. N + k + 1,
                      line'[i].at + (j - i) <= Total(line'[i].msg)
               PROVE  AtNext(j) = [msg |-> line'[i].msg, at |-> line'[i].at + (j - i)]
    BY <1>8 DEF Runs, Total, At, AtNext
  <2>1. j \in Nat /\ i <= j /\ j <= N + k + 1 /\ i \in Nat /\ i > 0
    BY <1>1
  <2>2. CASE i \in 1 .. N /\ line'[i] = line[i]
    <3>1. line[i].at \in Nat /\ Total(line[i].msg) \in Nat
      BY <1>9, <2>2
    <3>2. line[i].at + (j - i) <= Total(line[i].msg)
      BY <2>2
    <3>3. CASE j <= N
      <4>1. j \in i .. Upto /\ j \in 1 .. N
        BY <1>1, <1>8, <2>1, <3>3
      <4>2. At(j) = [msg |-> line[i].msg, at |-> line[i].at + (j - i)]
        BY <1>10, <2>2, <3>2, <4>1 DEF Runs, N
      <4>3. QED
        BY <1>3, <2>2, <4>1, <4>2
    <3>4. CASE j > N
      <4>1. N + 1 \in i .. Upto
        BY <1>1, <1>8, <2>1, <2>2, <3>4
      <4>2. line[i].at + (N + 1 - i) <= Total(line[i].msg)
        BY <1>1, <2>1, <3>1, <3>2, <3>4
      <4>3. At(N + 1) = [msg |-> line[i].msg, at |-> line[i].at + (N + 1 - i)]
        BY <1>10, <2>2, <4>1, <4>2 DEF Runs, N
      <4>4. line[i].msg = L /\ line[i].at + (N + 1 - i) = at + 1
        BY <1>7, <4>3
      <4>5. line[i].at + (j - i) = at + (j - N)
        <5>1. ASSUME NEW a \in Nat, a + (N + 1 - i) = at + 1
              PROVE  a + (j - i) = at + (j - N)
          BY <1>1, <2>1, <5>1
        <5>2. QED
          BY <3>1, <4>4, <5>1
      <4>6. AtNext(j) = [msg |-> L, at |-> at + (j - N)]
        BY <1>5, <2>1, <3>2, <3>4, <4>4, <4>5
      <4>7. QED
        BY <2>2, <4>4, <4>5, <4>6
    <3>5. QED
      BY <1>1, <2>1, <3>3, <3>4
  <2>3. CASE i \in Nat /\ i > N /\ i <= N + k /\ line'[i].msg = L /\ line'[i].at = at + (i - N)
    <3>1. (at + (i - N)) + (j - i) = at + (j - N) /\ j > N
      BY <1>1, <2>1, <2>3
    <3>2. AtNext(j) = [msg |-> L, at |-> at + (j - N)]
      BY <1>5, <2>1, <2>3, <3>1
    <3>3. QED
      BY <2>3, <3>1, <3>2
  <2>4. QED
    BY <1>11, <2>2, <2>3
<1>14. Turns'
  <2> SUFFICES ASSUME NEW i \in 1 .. N + k, line'[i].at = Total(line'[i].msg)
               PROVE  AtNext(i + 1) = [msg |-> line'[i].msg + 1, at |-> 1]
    BY <1>8 DEF Turns, Total, At, AtNext
  <2>1. CASE i \in 1 .. N /\ line'[i] = line[i]
    <3>1. i < Upto /\ i \in Nat
      BY <1>1, <1>8, <2>1
    <3>2. At(i + 1) = [msg |-> line[i].msg + 1, at |-> 1]
      BY <1>10, <2>1, <3>1 DEF Turns, N
    <3>3. CASE i < N
      <4>1. i + 1 \in 1 .. N
        BY <1>1, <3>1, <3>3
      <4>2. QED
        BY <1>3, <2>1, <3>2, <4>1
    <3>4. CASE i = N
      <4>1. L = line[i].msg + 1 /\ at + 1 = 1
        BY <1>7, <3>2, <3>4
      <4>2. N + 1 \in Nat /\ N + 1 > N /\ N + 1 <= N + k + 1 /\ (N + 1) - N = 1
            /\ at + 1 <= Total(L)
        BY <1>1, <1>2
      <4>3. AtNext(N + 1) = [msg |-> L, at |-> at + 1]
        BY <1>5, <4>2
      <4>4. QED
        BY <2>1, <3>4, <4>1, <4>3
    <3>5. QED
      BY <1>1, <2>1, <3>3, <3>4
  <2>2. CASE i \in Nat /\ i > N /\ i <= N + k /\ line'[i].msg = L /\ line'[i].at = at + (i - N)
    <3>1. at + (i - N) = Total(L)
      BY <2>2
    <3>2. i = N + k /\ at + k = Total(L)
      BY <1>1, <1>2, <2>2, <3>1
    <3>3. QED
      BY <1>6, <2>2, <3>2
  <2>3. QED
    BY <1>11, <2>1, <2>2
<1>15. QED
  BY <1>12, <1>13, <1>14 DEF LineInv

LEMMA TransmitFront ==
  ASSUME StreamInv, NEW k \in Nat, Extended(k), Sized(k)
  PROVE  FrontInv'
<1> DEFINE L == Len(offered)
           N == Len(line)
           G == Len(got)
<1>1. N \in Nat /\ k > 0 /\ at \in Nat /\ L \in Nat /\ L > 0 /\ G \in Nat /\ Current \in Nat /\ Current > 0
  BY ExtendedBytes, Lens, WireAssumption DEF Sized, StreamInv, Current
<1>2. Total(L) \in Nat /\ at + k <= Total(L)
  BY DEF Sized
<1>3. \A i \in 1 .. N : AtNext(i) = At(i)
  BY ExtendedBytes
<1>4. \A i \in Nat : i > N /\ i <= N + k + 1 /\ at + (i - N) <= Total(L) =>
                       AtNext(i) = [msg |-> L, at |-> at + (i - N)]
  BY ExtendedBytes
<1>5. At(N + 1) = [msg |-> L, at |-> at + 1]
  BY ExtendedBytes
<1>6. Upto = N + 1 /\ Upto' = N + k + 1 /\ UNCHANGED <<offered, stage, got, delivered>>
  BY DEF Extended
<1>7. FrontInv
  BY DEF StreamInv
<1>8. Current \in 1 .. L => Total(Current) \in Nat
  BY OfferedLens DEF StreamInv
<1> HIDE DEF L, N, G
<1> SUFFICES ASSUME stage \in {"header", "payload"}, NEW i \in 1 .. N + k + 1,
                    i = 1 \/ (Current <= L /\ G + i <= Total(Current))
             PROVE  AtNext(i) = [msg |-> Current, at |-> G + i]
  BY <1>6 DEF FrontInv, Current, Total, At, AtNext, L, G
<1>9. i \in Nat /\ i > 0 /\ i <= N + k + 1
  BY <1>1
<1>10. AtNext(N + 1) = At(N + 1)
  <2>1. N + 1 \in Nat /\ N + 1 > N /\ N + 1 <= N + k + 1 /\ (N + 1) - N = 1 /\ at + 1 <= Total(L)
    BY <1>1, <1>2
  <2>2. QED
    BY <1>4, <1>5, <2>1
<1>11. CASE i <= N + 1
  <2>1. i \in 1 .. Upto /\ (i \in 1 .. N \/ i = N + 1)
    BY <1>1, <1>6, <1>9, <1>11
  <2>2. At(i) = [msg |-> Current, at |-> G + i]
    BY <1>7, <2>1 DEF FrontInv, L, G
  <2>3. QED
    BY <1>3, <1>10, <2>1, <2>2
<1>12. CASE i > N + 1
  <2>1. Current <= L /\ G + i <= Total(Current) /\ Current \in 1 .. L
    BY <1>1, <1>9, <1>12
  <2>2. N + 1 \in 1 .. Upto /\ G + (N + 1) <= Total(Current)
    BY <1>1, <1>6, <1>8, <1>9, <1>12, <2>1
  <2>3. At(N + 1) = [msg |-> Current, at |-> G + (N + 1)]
    BY <1>7, <2>1, <2>2 DEF FrontInv, L, G
  <2>4. Current = L /\ at + 1 = G + (N + 1)
    BY <1>5, <2>3
  <2>5. G + i = at + (i - N) /\ i > N
    BY <1>1, <1>9, <1>12, <2>4
  <2>6. QED
    BY <1>4, <1>9, <2>1, <2>4, <2>5
<1>13. QED
  BY <1>1, <1>9, <1>11, <1>12

LEMMA TransmitStep ==
  ASSUME StreamInv, Transmit
  PROVE  StreamInv'
<1>1. TypeOK' /\ SenderInv'
  BY TransmitExtends
<1>2. PICK k \in Nat : Extended(k) /\ Sized(k)
  BY TransmitExtends
<1>3. LineInv' /\ FrontInv'
  BY <1>2, TransmitLine, TransmitFront
<1>4. UNCHANGED <<offered, stage, got, delivered>>
  BY <1>2 DEF Extended
<1>5. GotInv' /\ DeliveredInv'
  BY <1>4 DEF StreamInv, GotInv, DeliveredInv, Current, Total, Bytes
<1>6. QED
  BY <1>1, <1>3, <1>5 DEF StreamInv

\* The end of the sender, or of the connection, at any byte: what is left of the stream is
\* its beginning.
LEMMA CutShort ==
  ASSUME StreamInv, UNCHANGED <<offered, stage, got, delivered>>, link' # "open",
         NEW k \in 0 .. Len(line), Len(line') = k, \A i \in 1 .. k : line'[i] = line[i]
  PROVE  LineInv' /\ GotInv' /\ FrontInv' /\ DeliveredInv'
<1>1. Len(line) \in Nat /\ k \in Nat /\ k <= Len(line) /\ k <= Upto
  BY Lens DEF StreamInv, Upto
<1>2. Upto' = k
  <2>1. Upto' = k + 0
    BY DEF Upto
  <2>2. QED
    BY <1>1, <2>1
<1>3. \A i \in 1 .. k : i \in 1 .. Len(line) /\ AtNext(i) = At(i) /\ line'[i] = line[i]
  <2>1. \A i \in 1 .. k : i \in 1 .. Len(line) /\ i <= Len(line) /\ i <= k
    BY <1>1
  <2>2. QED
    BY <2>1 DEF At, AtNext
<1>4. LineInv'
  <2>1. InMessage'
    BY <1>3 DEF StreamInv, LineInv, InMessage, Total
  <2>2. Runs'
    <3> SUFFICES ASSUME NEW i \in 1 .. k, NEW j \in i .. k,
                        line[i].at + (j - i) <= Total(line[i].msg)
                 PROVE  AtNext(j) = [msg |-> line[i].msg, at |-> line[i].at + (j - i)]
      BY <1>2, <1>3 DEF Runs, At, AtNext, Total
    <3>1. j \in 1 .. k /\ j \in i .. Upto
      BY <1>1, Lens DEF StreamInv, Upto
    <3>2. QED
      BY <1>3, <3>1 DEF StreamInv, LineInv, Runs
  <2>3. Turns'
    <3> SUFFICES ASSUME NEW i \in 1 .. k, i < k, line[i].at = Total(line[i].msg)
                 PROVE  AtNext(i + 1) = [msg |-> line[i].msg + 1, at |-> 1]
      BY <1>2, <1>3 DEF Turns, At, AtNext, Total
    <3>1. i + 1 \in 1 .. k /\ i < Upto
      BY <1>1, Lens DEF StreamInv, Upto
    <3>2. QED
      BY <1>3, <3>1 DEF StreamInv, LineInv, Turns
  <2>4. QED
    BY <2>1, <2>2, <2>3 DEF LineInv
<1>5. GotInv' /\ DeliveredInv'
  BY DEF StreamInv, GotInv, DeliveredInv, Current, Total, Bytes
<1>6. FrontInv'
  <2> SUFFICES ASSUME stage \in {"header", "payload"}, NEW i \in 1 .. k,
                      i = 1 \/ (Current <= Len(offered) /\ Len(got) + i <= Total(Current))
               PROVE  AtNext(i) = [msg |-> Current, at |-> Len(got) + i]
    BY <1>2 DEF FrontInv, Current, Total, At, AtNext
  <2>1. i \in 1 .. Upto
    BY <1>1, Lens DEF StreamInv, Upto
  <2>2. QED
    BY <1>3, <2>1 DEF StreamInv, FrontInv
<1>7. QED
  BY <1>4, <1>5, <1>6

LEMMA SendFailsStep ==
  ASSUME StreamInv, SendFails
  PROVE  StreamInv'
<1>1. /\ link # "open" /\ part' = "failed"
      /\ UNCHANGED <<offered, at, line, link, stage, got, delivered>>
  BY DEF SendFails, Broken, receiver
<1>2. TypeOK' /\ SenderInv'
  BY <1>1 DEF StreamInv, TypeOK, SenderInv
<1>3. Len(line) \in 0 .. Len(line)
  BY Lens DEF StreamInv
<1>4. QED
  BY <1>1, <1>2, <1>3, CutShort DEF StreamInv

LEMMA HangupStep ==
  ASSUME StreamInv, Hangup
  PROVE  StreamInv'
<1>1. /\ link' = "closed" /\ part' \in {"idle", "failed"}
      /\ UNCHANGED <<offered, at, line, stage, got, delivered>>
  BY DEF Hangup, receiver
<1>2. TypeOK' /\ SenderInv'
  BY <1>1 DEF StreamInv, TypeOK, SenderInv
<1>3. Len(line) \in 0 .. Len(line)
  BY Lens DEF StreamInv
<1>4. QED
  BY <1>1, <1>2, <1>3, CutShort DEF StreamInv

LEMMA BreakStep ==
  ASSUME StreamInv, Break
  PROVE  StreamInv'
<1>1. /\ link' \in Broken /\ link' # "open"
      /\ UNCHANGED <<offered, part, at, stage, got, delivered>>
  BY DEF Break, Broken, sender, receiver
<1>2. PICK k \in 0 .. Len(line) : line' = SubSeq(line, 1, k)
  BY DEF Break
<1>3. Len(line) \in Nat /\ line \in Seq(Byte) /\ k \in Nat /\ Len(line) <= LineCap
  BY Lens DEF StreamInv, TypeOK
<1>4. line' \in Seq(Byte) /\ Len(line') = k /\ \A i \in 1 .. k : line'[i] = line[i]
  BY <1>2, <1>3
<1>5. Len(line') <= LineCap
  BY <1>3, <1>4, WireAssumption
<1>6. TypeOK'
  BY <1>1, <1>4, <1>5 DEF StreamInv, TypeOK
<1>7. SenderInv'
  BY <1>1 DEF StreamInv, SenderInv, Total
<1>8. QED
  BY <1>1, <1>4, <1>6, <1>7, CutShort DEF StreamInv

\* recv() reports the end: what recv_msg had of a message is dropped, no message follows.
LEMMA RecvFailsStep ==
  ASSUME StreamInv, RecvFails
  PROVE  StreamInv'
<1>1. /\ stage' = "failed" /\ got' = <<>>
      /\ UNCHANGED <<offered, part, at, line, link, delivered>>
  BY DEF RecvFails, sender
<1>2. TypeOK'
  BY <1>1 DEF StreamInv, TypeOK, HeaderLen
<1>3. SenderInv' /\ LineInv' /\ DeliveredInv'
  BY <1>1 DEF StreamInv, SenderInv, LineInv, InMessage, Runs, Turns, DeliveredInv, Bytes, At,
              NextByte, Upto, Total
<1>4. GotInv' /\ FrontInv'
  BY <1>1 DEF StreamInv, GotInv, FrontInv
<1>5. QED
  BY <1>2, <1>3, <1>4 DEF StreamInv

\* recv() takes the first k bytes off the stream.
LEMMA TakenOff ==
  ASSUME StreamInv, UNCHANGED <<offered, part, at, link>>,
         NEW k \in 1 .. Len(line), line' = SubSeq(line, k + 1, Len(line))
  PROVE  /\ line' \in Seq(Byte) /\ Len(line') <= LineCap
         /\ SenderInv' /\ LineInv' /\ Upto' = Upto - k
         /\ \A i \in 1 .. Upto' : i + k \in 1 .. Upto /\ AtNext(i) = At(i + k)
<1> DEFINE N == Len(line)
<1>1. line \in Seq(Byte) /\ N \in Nat /\ N <= LineCap /\ k \in Nat /\ k > 0 /\ k <= N
  BY Lens DEF StreamInv, TypeOK
<1>2. /\ line' \in Seq(Byte) /\ Len(line') = N - k
      /\ \A i \in 1 .. N - k : line'[i] = line[i + k]
  BY <1>1
<1>3. Len(line') <= LineCap
  BY <1>1, <1>2, WireAssumption
<1>4. SenderInv'
  BY DEF StreamInv, SenderInv, Total
<1>5. NextByte' = NextByte
  BY DEF NextByte
<1>6. Upto' = Upto - k /\ Upto \in Nat /\ Upto <= N + 1
  <2>1. CASE link = "open"
    BY <1>1, <1>2, <2>1 DEF Upto
  <2>2. CASE link # "open"
    BY <1>1, <1>2, <2>2 DEF Upto
  <2>3. QED
    BY <2>1, <2>2
<1>7. \A i \in 1 .. N - k : i + k \in 1 .. N /\ line'[i] = line[i + k] /\ i \in Nat
  BY <1>1, <1>2
<1>8. ASSUME NEW i \in 1 .. Upto'
      PROVE  i + k \in 1 .. Upto /\ AtNext(i) = At(i + k) /\ i \in Nat
  <2>1. i + k \in 1 .. Upto /\ i \in Nat
    BY <1>1, <1>6
  <2>2. CASE i <= N - k
    <3>1. i \in 1 .. N - k /\ i + k <= N
      BY <1>1, <2>1, <2>2
    <3>2. QED
      BY <1>2, <2>1, <2>2, <3>1 DEF At, AtNext
  <2>3. CASE i > N - k
    <3>1. ~ (i <= N - k) /\ ~ (i + k <= N)
      BY <1>1, <2>1, <2>3
    <3>2. QED
      BY <1>2, <1>5, <2>1, <3>1 DEF At, AtNext
  <2>4. QED
    BY <1>1, <2>1, <2>2, <2>3
<1> HIDE DEF N
<1>9. LineInv'
  <2>1. InMessage'
    BY <1>2, <1>7 DEF StreamInv, LineInv, InMessage, Total, N
  <2>2. Runs'
    <3> SUFFICES ASSUME NEW i \in 1 .. N - k, NEW j \in i .. Upto',
                        line'[i].at + (j - i) <= Total(line'[i].msg)
                 PROVE  AtNext(j) = [msg |-> line'[i].msg, at |-> line'[i].at + (j - i)]
      BY <1>2 DEF Runs, At, AtNext, Total
    <3>1. i + k \in 1 .. N /\ line'[i] = line[i + k]
      BY <1>7
    <3>2. j \in 1 .. Upto' /\ j + k \in i + k .. Upto /\ (j + k) - (i + k) = j - i
      BY <1>1, <1>6
    <3>3. At(j + k) = [msg |-> line[i + k].msg, at |-> line[i + k].at + (j - i)]
      BY <3>1, <3>2 DEF StreamInv, LineInv, Runs, N
    <3>4. QED
      BY <1>8, <3>1, <3>2, <3>3
  <2>3. Turns'
    <3> SUFFICES ASSUME NEW i \in 1 .. N - k, i < Upto', line'[i].at = Total(line'[i].msg)
                 PROVE  AtNext(i + 1) = [msg |-> line'[i].msg + 1, at |-> 1]
      BY <1>2 DEF Turns, At, AtNext, Total
    <3>1. i + k \in 1 .. N /\ line'[i] = line[i + k]
      BY <1>7
    <3>2. i + 1 \in 1 .. Upto' /\ i + k < Upto /\ (i + 1) + k = (i + k) + 1
      BY <1>1, <1>6
    <3>3. At((i + k) + 1) = [msg |-> line[i + k].msg + 1, at |-> 1]
      BY <3>1, <3>2 DEF StreamInv, LineInv, Turns, N
    <3>4. QED
      BY <1>8, <3>1, <3>2, <3>3
  <2>4. QED
    BY <2>1, <2>2, <2>3 DEF LineInv
<1>10. QED
  BY <1>2, <1>3, <1>4, <1>6, <1>8, <1>9

\* With what it had, they are the beginning of one message, no more than all of it, and
\* the length in its header is read as it was sent.
LEMMA Gathered ==
  ASSUME StreamInv, NEW k \in 1 .. Len(line), NEW g,
         g = got \o SubSeq(line, 1, k), Wanted(g)
  PROVE  /\ g \in Seq(Byte) /\ Len(g) = Len(got) + k /\ Current \in 1 .. Len(offered)
         /\ \A i \in 1 .. Len(g) : g[i] = [msg |-> Current, at |-> i]
         /\ Len(g) <= Total(Current)
         /\ stage = "header" => Len(g) <= HeaderLen
         /\ stage \in {"header", "payload"}
         /\ Len(g) >= HeaderLen => PayloadLens(g) = {offered[Current].len}
<1> DEFINE G == Len(got)
           new == SubSeq(line, 1, k)
<1>1. /\ line \in Seq(Byte) /\ Len(line) \in Nat /\ k \in Nat /\ k > 0 /\ k <= Len(line)
      /\ got \in Seq(Byte) /\ G \in Nat
  BY Lens DEF StreamInv, TypeOK
<1>2. new \in Seq(Byte) /\ Len(new) = k /\ \A i \in 1 .. k : new[i] = line[i]
  BY <1>1
<1> HIDE DEF new
<1>3. /\ g \in Seq(Byte) /\ Len(g) = G + Len(new)
      /\ \A i \in 1 .. G : g[i] = got[i]
      /\ \A i \in G + 1 .. G + Len(new) : g[i] = new[i - G]
  BY <1>1, <1>2, Joined DEF new
<1>4. stage \in {"header", "payload"}
  BY DEF Wanted
<1>5. \A i \in 1 .. k : i \in 1 .. Upto /\ At(i) = line[i] /\ i \in 1 .. Len(line)
  <2>1. \A i \in 1 .. k : i \in 1 .. Upto /\ i <= Len(line) /\ i \in 1 .. Len(line)
    BY <1>1 DEF Upto
  <2>2. QED
    BY <2>1 DEF At
<1>6. Current \in 1 .. Len(offered)
  <2>1. 1 \in 1 .. k
    BY <1>1
  <2>2. line[1].msg = Current
    BY <1>4, <1>5, <2>1 DEF StreamInv, FrontInv
  <2>3. line[1].msg \in 1 .. Len(offered)
    BY <1>5, <2>1, LineBytes DEF StreamInv, LineInv
  <2>4. QED
    BY <2>2, <2>3
<1>7. Total(Current) \in Nat /\ Total(Current) > HeaderLen /\ Current <= Len(offered)
  BY <1>6, OfferedLens, Lens DEF StreamInv
<1>8. ASSUME NEW h, \A i \in 1 .. HeaderLen : h[i] = [msg |-> Current, at |-> i]
      PROVE  PayloadLens(h) = {offered[Current].len}
  <2>1. \A i \in 3 .. 6 : i \in 1 .. HeaderLen
    BY DEF HeaderLen
  <2>2. \A i \in 3 .. 6 : h[i] = [msg |-> Current, at |-> i]
    BY <1>8, <2>1
  <2>3. h[3].msg = Current
    BY <2>2
  <2>4. IsLength(h)
    BY <2>2, <2>3 DEF IsLength
  <2>5. QED
    BY <2>3, <2>4 DEF PayloadLens
<1>9. Len(g) <= Total(Current)
  <2>1. CASE stage = "header"
    <3>1. Len(g) <= HeaderLen
      BY <2>1 DEF Wanted
    <3>2. QED
      BY <1>1, <1>2, <1>3, <1>7, <3>1 DEF HeaderLen
  <2>2. CASE stage = "payload"
    <3>1. \A i \in 1 .. HeaderLen : i \in 1 .. G
      BY <1>1, <2>2 DEF StreamInv, GotInv, HeaderLen
    <3>2. \A i \in 1 .. HeaderLen : got[i] = [msg |-> Current, at |-> i]
      BY <3>1 DEF StreamInv, GotInv
    <3>3. PayloadLens(got) = {offered[Current].len}
      BY <1>8, <3>2
    <3>4. QED
      BY <2>2, <3>3 DEF Wanted, Total
  <2>3. QED
    BY <1>4, <2>1, <2>2
<1>10. \A i \in 1 .. Len(g) : g[i] = [msg |-> Current, at |-> i]
  <2> SUFFICES ASSUME NEW i \in 1 .. Len(g)
               PROVE  g[i] = [msg |-> Current, at |-> i]
    OBVIOUS
  <2>1. i \in Nat /\ i > 0 /\ i <= G + k /\ i <= Total(Current)
    BY <1>1, <1>2, <1>3, <1>7, <1>9
  <2>2. CASE i <= G
    <3>1. i \in 1 .. G
      BY <1>1, <2>1, <2>2
    <3>2. QED
      BY <1>3, <3>1 DEF StreamInv, GotInv
  <2>3. CASE i > G
    <3>1. i \in G + 1 .. G + k /\ i - G \in 1 .. k /\ G + (i - G) = i
      BY <1>1, <2>1, <2>3
    <3>2. g[i] = line[i - G]
      BY <1>2, <1>3, <3>1
    <3>3. At(i - G) = [msg |-> Current, at |-> G + (i - G)]
      BY <1>4, <1>5, <1>7, <2>1, <3>1 DEF StreamInv, FrontInv
    <3>4. QED
      BY <1>5, <3>1, <3>2, <3>3
  <2>4. QED
    BY <1>1, <2>1, <2>2, <2>3
<1>11. ASSUME Len(g) >= HeaderLen
       PROVE  PayloadLens(g) = {offered[Current].len}
  <2>1. \A i \in 1 .. HeaderLen : i \in 1 .. Len(g)
    BY <1>1, <1>2, <1>3, <1>11 DEF HeaderLen
  <2>2. QED
    BY <1>8, <1>10, <2>1
<1>12. stage = "header" => Len(g) <= HeaderLen
  BY DEF Wanted
<1>13. QED
  BY <1>2, <1>3, <1>4, <1>6, <1>9, <1>10, <1>11, <1>12

LEMMA WholeMessage ==
  ASSUME NEW n, NEW g \in Seq(Byte), Len(g) = Total(n),
         \A i \in 1 .. Len(g) : g[i] = [msg |-> n, at |-> i]
  PROVE  g = Bytes(n)
<1>1. g = [i \in 1 .. Len(g) |-> g[i]]
  OBVIOUS
<1>2. [i \in 1 .. Len(g) |-> g[i]] = [i \in 1 .. Len(g) |-> [msg |-> n, at |-> i]]
  OBVIOUS
<1>3. Bytes(n) = [i \in 1 .. Len(g) |-> [msg |-> n, at |-> i]]
  BY DEF Bytes, BytesOf, Total
<1>4. QED
  BY <1>1, <1>2, <1>3

\* recv_msg reads on, or has the message whole; it never takes it for too large.
ReadsOn(g) ==
  /\ got' = g /\ delivered' = delivered /\ Len(g) < Total(Current)
  /\ \/ stage' = "header" /\ Len(g) < HeaderLen
     \/ stage' = "payload" /\ HeaderLen <= Len(g)
HasWhole(g) ==
  /\ Len(g) = Total(Current)
  /\ delivered' = Append(delivered, g) /\ stage' = "header" /\ got' = <<>>

LEMMA Received ==
  ASSUME StreamInv, Receive
  PROVE  /\ UNCHANGED <<offered, part, at, link>>
         /\ \E k \in 1 .. Len(line) : \E g :
              /\ g = got \o SubSeq(line, 1, k) /\ Wanted(g)
              /\ line' = SubSeq(line, k + 1, Len(line))
              /\ ReadsOn(g) \/ HasWhole(g)
<1>1. UNCHANGED <<offered, part, at>>
  BY DEF Receive, sender
<1>2. PICK k \in 1 .. Len(line) :
        LET g == got \o SubSeq(line, 1, k)
        IN  /\ Wanted(g)
            /\ Gather(g) \/ TakeHeader(g) \/ TakePayload(g)
            /\ line' = SubSeq(line, k + 1, Len(line))
  BY DEF Receive
<1> DEFINE g == got \o SubSeq(line, 1, k)
<1>3. /\ Wanted(g) /\ g = got \o SubSeq(line, 1, k)
      /\ Gather(g) \/ TakeHeader(g) \/ TakePayload(g)
      /\ line' = SubSeq(line, k + 1, Len(line))
  BY <1>2
<1> HIDE DEF g
<1>4. /\ g \in Seq(Byte) /\ Len(g) = Len(got) + k /\ Current \in 1 .. Len(offered)
      /\ Len(g) <= Total(Current)
      /\ stage = "header" => Len(g) <= HeaderLen
      /\ stage \in {"header", "payload"}
      /\ Len(g) >= HeaderLen => PayloadLens(g) = {offered[Current].len}
  BY <1>3, Gathered
<1>5. /\ offered[Current].len \in Nat /\ 0 < offered[Current].len
      /\ offered[Current].len <= PayloadLimit
  BY <1>4, OfferedLens DEF StreamInv
<1>6. /\ Len(g) \in Nat /\ HeaderLen \in Nat /\ Total(Current) = HeaderLen + offered[Current].len
      /\ Total(Current) \in Nat /\ Total(Current) > HeaderLen
  BY <1>4, <1>5 DEF HeaderLen, Total
<1>7. stage = "payload" => HeaderLen <= Len(g)
  <2>1. stage = "payload" => HeaderLen <= Len(got)
    BY DEF StreamInv, GotInv
  <2>2. Len(got) \in Nat /\ k \in Nat
    BY Lens DEF StreamInv
  <2>3. QED
    BY <1>4, <1>6, <2>1, <2>2
<1>8. WholePayload(g) <=> stage = "payload" /\ Len(g) = Total(Current)
  <2>1. CASE stage = "payload"
    BY <1>4, <1>6, <1>7, <2>1 DEF WholePayload
  <2>2. CASE stage # "payload"
    BY <2>2 DEF WholePayload
  <2>3. QED
    BY <2>1, <2>2
<1>9. ASSUME Gather(g)
      PROVE  ReadsOn(g) /\ UNCHANGED link
  <2>1. ~ WholeHeader(g) /\ ~ WholePayload(g) /\ got' = g /\ UNCHANGED <<link, stage, delivered>>
    BY <1>9 DEF Gather
  <2>2. CASE stage = "header"
    <3>1. Len(g) < HeaderLen
      BY <1>4, <1>6, <2>1, <2>2 DEF WholeHeader
    <3>2. QED
      BY <1>6, <2>1, <2>2, <3>1 DEF ReadsOn
  <2>3. CASE stage = "payload"
    <3>1. Len(g) < Total(Current)
      BY <1>4, <1>6, <1>8, <2>1, <2>3
    <3>2. QED
      BY <1>7, <2>1, <2>3, <3>1 DEF ReadsOn
  <2>4. QED
    BY <1>4, <2>2, <2>3
<1>10. ASSUME TakeHeader(g)
       PROVE  ReadsOn(g) /\ UNCHANGED link
  <2>1. Len(g) = HeaderLen /\ PayloadLens(g) = {offered[Current].len}
    BY <1>4, <1>6, <1>10 DEF TakeHeader, WholeHeader
  <2>2. PayloadLimit \in Nat
    BY WireAssumption DEF PayloadLimit
  <2>3. ~ (offered[Current].len > PayloadLimit) /\ offered[Current].len # 0
    BY <1>5, <2>2
  <2>4. stage' = "payload" /\ got' = g /\ UNCHANGED <<link, delivered>>
    BY <1>10, <2>1, <2>3 DEF TakeHeader
  <2>5. Len(g) < Total(Current) /\ HeaderLen <= Len(g)
    BY <1>6, <2>1
  <2>6. QED
    BY <2>4, <2>5 DEF ReadsOn
<1>11. ASSUME TakePayload(g)
       PROVE  HasWhole(g) /\ UNCHANGED link
  BY <1>8, <1>11 DEF TakePayload, HasWhole, Returned
<1>12. (ReadsOn(g) \/ HasWhole(g)) /\ UNCHANGED link
  BY <1>3, <1>9, <1>10, <1>11
<1>13. QED
  BY <1>1, <1>3, <1>12

LEMMA ReceiveStep ==
  ASSUME StreamInv, Receive
  PROVE  StreamInv'
<1>1. UNCHANGED <<offered, part, at, link>>
  BY Received
<1>2. PICK k \in 1 .. Len(line) : \E h :
        /\ h = got \o SubSeq(line, 1, k) /\ Wanted(h)
        /\ line' = SubSeq(line, k + 1, Len(line))
        /\ ReadsOn(h) \/ HasWhole(h)
  BY Received
<1>3. PICK g :
        /\ g = got \o SubSeq(line, 1, k) /\ Wanted(g)
        /\ line' = SubSeq(line, k + 1, Len(line))
        /\ ReadsOn(g) \/ HasWhole(g)
  BY <1>2
<1>4. /\ line' \in Seq(Byte) /\ Len(line') <= LineCap
      /\ SenderInv' /\ LineInv' /\ Upto' = Upto - k
      /\ \A i \in 1 .. Upto' : i + k \in 1 .. Upto /\ AtNext(i) = At(i + k)
  BY <1>1, <1>3, TakenOff
<1>5. /\ g \in Seq(Byte) /\ Len(g) = Len(got) + k /\ Current \in 1 .. Len(offered)
      /\ \A i \in 1 .. Len(g) : g[i] = [msg |-> Current, at |-> i]
      /\ Len(g) <= Total(Current)
      /\ stage \in {"header", "payload"}
  BY <1>3, Gathered
<1>6. /\ Len(got) \in Nat /\ Len(line) \in Nat /\ Len(g) \in Nat /\ k \in Nat /\ k > 0
      /\ Len(delivered) \in Nat /\ Current = Len(delivered) + 1 /\ Current <= Len(offered)
      /\ Current \in Nat /\ Len(offered) \in Nat /\ Upto \in Nat
  BY <1>5, Lens DEF StreamInv, Current, Upto
<1>7. /\ offered[Current].len \in Nat /\ offered[Current].len <= PayloadLimit
      /\ Total(Current) \in Nat /\ Total(Current) > HeaderLen
  BY <1>5, OfferedLens DEF StreamInv
<1>8. CASE ReadsOn(g)
  <2>1. /\ got' = g /\ delivered' = delivered /\ Len(g) < Total(Current) /\ Current' = Current
        /\ stage' \in {"header", "payload"}
        /\ stage' = "header" => Len(g) < HeaderLen
        /\ stage' = "payload" => HeaderLen <= Len(g)
    BY <1>8 DEF ReadsOn, Current
  <2>2. Len(g) < HeaderLen + IF stage' = "payload" THEN PayloadLimit ELSE 0
    <3>1. Total(Current) <= HeaderLen + PayloadLimit /\ PayloadLimit \in Nat
      <4>1. Total(Current) = HeaderLen + offered[Current].len
        BY DEF Total
      <4>2. PayloadLimit \in Nat
        BY WireAssumption DEF PayloadLimit
      <4>3. QED
        BY <1>7, <4>1, <4>2 DEF HeaderLen
    <3>2. CASE stage' = "payload"
      BY <1>6, <1>7, <2>1, <3>1, <3>2 DEF HeaderLen
    <3>3. CASE stage' = "header"
      BY <1>6, <2>1, <3>3 DEF HeaderLen
    <3>4. QED
      BY <2>1, <3>2, <3>3
  <2>3. TypeOK'
    BY <1>1, <1>4, <2>1, <2>2, <1>5 DEF StreamInv, TypeOK
  <2>4. GotInv'
    BY <1>1, <1>5, <1>6, <2>1 DEF GotInv, StreamInv, Total, Current
  <2>5. FrontInv'
    <3> SUFFICES ASSUME NEW i \in 1 .. Upto',
                        i = 1 \/ Len(g) + i <= Total(Current)
                 PROVE  AtNext(i) = [msg |-> Current, at |-> Len(g) + i]
      BY <1>1, <2>1 DEF FrontInv, At, AtNext, Total
    <3>1. i \in Nat /\ Len(g) + i <= Total(Current)
      BY <1>4, <1>6, <1>7, <2>1
    <3>2. i + k \in 1 .. Upto /\ Len(got) + (i + k) <= Total(Current)
          /\ Len(got) + (i + k) = Len(g) + i
      BY <1>4, <1>5, <1>6, <3>1
    <3>3. At(i + k) = [msg |-> Current, at |-> Len(got) + (i + k)]
      BY <1>5, <1>6, <3>2 DEF StreamInv, FrontInv
    <3>4. QED
      BY <1>4, <3>2, <3>3
  <2>6. DeliveredInv'
    BY <1>1, <2>1 DEF StreamInv, DeliveredInv, Bytes
  <2>7. QED
    BY <1>4, <2>3, <2>4, <2>5, <2>6 DEF StreamInv
<1>9. CASE HasWhole(g)
  <2>1. /\ Len(g) = Total(Current) /\ stage' = "header" /\ got' = <<>>
        /\ delivered' = Append(delivered, g)
    BY <1>9 DEF HasWhole
  <2>2. delivered \in Seq(Seq(Byte))
    BY DEF StreamInv, TypeOK
  <2>3. /\ delivered' \in Seq(Seq(Byte)) /\ Len(delivered') = Current
        /\ \A n \in 1 .. Len(delivered) : delivered'[n] = delivered[n]
        /\ delivered'[Current] = g
    BY <1>5, <1>6, <2>1, <2>2
  <2>4. Current' = Current + 1
    BY <2>3 DEF Current
  <2>5. TypeOK'
    BY <1>1, <1>4, <2>1, <2>3 DEF StreamInv, TypeOK, HeaderLen
  <2>6. GotInv'
    BY <1>1, <1>6, <2>1, <2>3 DEF GotInv, HeaderLen
  <2>7. g = Bytes(Current)
    BY <1>5, <2>1, WholeMessage
  <2>8. DeliveredInv'
    <3> SUFFICES ASSUME NEW n \in 1 .. Current
                 PROVE  delivered'[n] = Bytes(n)
      BY <1>1, <2>3 DEF DeliveredInv, Bytes
    <3>1. n \in 1 .. Len(delivered) \/ n = Current
      BY <1>6
    <3>2. QED
      BY <2>3, <2>7, <3>1 DEF StreamInv, DeliveredInv
  <2>9. FrontInv'
    <3> SUFFICES ASSUME NEW i \in 1 .. Upto',
                        i = 1 \/ i <= Total(Current + 1)
                 PROVE  AtNext(i) = [msg |-> Current + 1, at |-> i]
      BY <1>1, <2>1, <2>4 DEF FrontInv, At, AtNext, Total
    <3>1. i \in Nat /\ i > 0 /\ k < Upto /\ i + k \in 1 .. Upto
      BY <1>4, <1>6
    <3>2. line[k] = [msg |-> Current, at |-> Len(got) + k]
      <4>1. k \in 1 .. Upto /\ k <= Len(line)
        BY <1>6, <3>1
      <4>2. At(k) = [msg |-> Current, at |-> Len(got) + k]
        BY <1>5, <1>6, <4>1 DEF StreamInv, FrontInv
      <4>3. QED
        BY <4>1, <4>2 DEF At
    <3>3. At(k + 1) = [msg |-> Current + 1, at |-> 1]
      <4>1. k \in 1 .. Len(line) /\ line[k].msg = Current /\ line[k].at = Total(Current)
        BY <1>1, <1>5, <2>1, <3>2
      <4>2. Turns
        BY DEF StreamInv, LineInv
      <4>3. QED
        BY <3>1, <4>1, <4>2 DEF Turns
    <3>4. CASE i = 1
      BY <1>4, <1>6, <3>3, <3>4
    <3>5. CASE i > 1
      <4>1. k + 1 \in 1 .. Len(line) /\ k + 1 <= Len(line)
        BY <1>4, <1>6, <3>1, <3>5 DEF Upto
      <4>2. line[k + 1] = [msg |-> Current + 1, at |-> 1]
        BY <3>3, <4>1 DEF At
      <4>3. i + k \in k + 1 .. Upto /\ 1 + ((i + k) - (k + 1)) = i
        BY <1>6, <3>1, <3>5
      <4>4. At(i + k) = [msg |-> Current + 1, at |-> 1 + ((i + k) - (k + 1))]
        BY <3>5, <4>1, <4>2, <4>3 DEF StreamInv, LineInv, Runs
      <4>5. QED
        BY <1>4, <4>3, <4>4
    <3>6. QED
      BY <3>1, <3>4, <3>5
  <2>10. QED
    BY <1>4, <2>5, <2>6, <2>8, <2>9 DEF StreamInv
<1>10. QED
  BY <1>3, <1>8, <1>9

LEMMA StreamStep ==
  ASSUME StreamInv, [Next]_vars
  PROVE  StreamInv'
<1>1. ASSUME NEW m \in Messages, SendMsg(m)
      PROVE  StreamInv'
  BY <1>1, SendMsgStep
<1>2. CASE Transmit
  BY <1>2, TransmitStep
<1>3. CASE SendFails
  BY <1>3, SendFailsStep
<1>4. CASE Hangup
  BY <1>4, HangupStep
<1>5. CASE Break
  BY <1>5, BreakStep
<1>6. CASE Receive
  BY <1>6, ReceiveStep
<1>7. CASE RecvFails
  BY <1>7, RecvFailsStep
<1>8. CASE UNCHANGED vars
  BY <1>8
  DEF vars, sender, receiver, StreamInv, TypeOK, SenderInv, LineInv, InMessage, Runs, Turns,
      GotInv, FrontInv, DeliveredInv, Current, NextByte, Upto, At, Total, Bytes
<1>9. QED
  BY <1>1, <1>2, <1>3, <1>4, <1>5, <1>6, <1>7, <1>8 DEF Next, Ended
-------------------------------------------------------------------------------
\* Theorems

\* The stream: its bytes, those recv_msg has and those still to be sent make up the
\* messages offered, in order (send_all, recv_all).
THEOREM StreamHolds == Spec => []StreamInv
<1>1. Init => StreamInv
  BY InitStream
<1>2. StreamInv /\ [Next]_vars => StreamInv'
  BY StreamStep
<1>3. QED
  BY <1>1, <1>2, PTL DEF Spec

\* The buffers of send_msg and recv_msg hold bytes of messages, recv_msg never more than a
\* header and the largest payload.
THEOREM TypeCorrect == Spec => []TypeOK
<1>1. StreamInv => TypeOK
  BY DEF StreamInv
<1>2. QED
  BY <1>1, StreamHolds, PTL

\* recv_msg never refuses a message for its length, and handle_connection's checks accept
\* every task the REPL let through, for all limits, up to the largest file.
THEOREM TasksAccepted == Spec => []TasksFit
<1>1. ASSUME StreamInv
      PROVE  TasksFit
  <2>1. stage # "refused"
    BY <1>1 DEF StreamInv, GotInv
  <2>2. ASSUME NEW n \in DOMAIN delivered, offered[n].type = "TASK_FILE"
        PROVE  Accepts(offered[n])
    <3>1. n \in 1 .. Len(offered)
      BY <1>1, Lens DEF StreamInv, TypeOK, GotInv
    <3>2. offered[n] \in Messages
      BY <1>1, <3>1, OfferedLens DEF StreamInv
    <3>3. QED
      BY <2>2, <3>2, MessageFits
  <2>3. QED
    BY <2>1, <2>2 DEF TasksFit
<1>2. StreamInv => TasksFit
  BY <1>1
<1>3. QED
  BY <1>2, StreamHolds, PTL

\* The messages offered, as Channel sees them: an Offer appends one.
LEMMA OfferStep ==
  ASSUME TypeOK, NEW m \in Messages, offered' = Append(offered, m), Len(offered) < MaxMsgs
  PROVE  \E b \in Wholes : Offered' = Append(Offered, b)
<1> DEFINE L == Len(offered)
           b == BytesOf(L + 1, m)
<1>1. L \in Nat /\ L + 1 \in 1 .. MaxMsgs /\ DOMAIN offered = 1 .. L
  BY WireAssumption DEF TypeOK
<1>2. /\ DOMAIN offered' = 1 .. L + 1 /\ offered'[L + 1] = m
      /\ \A n \in 1 .. L : offered'[n] = offered[n]
  BY DEF TypeOK
<1>3. ASSUME NEW n \in 1 .. L + 1
      PROVE  BytesOf(n, offered'[n]) = IF n <= L THEN Bytes(n) ELSE b
  <2>1. CASE n <= L
    <3>1. n \in 1 .. L
      BY <1>1, <2>1
    <3>2. QED
      BY <1>2, <2>1, <3>1 DEF Bytes
  <2>2. CASE n = L + 1
    <3>1. ~ (n <= L)
      BY <1>1, <2>2
    <3>2. QED
      BY <1>2, <2>2, <3>1
  <2>3. QED
    BY <1>1, <2>1, <2>2
<1>4. b \in Wholes
  BY <1>1 DEF Wholes
<1>5. Offered = [n \in 1 .. L |-> Bytes(n)]
  BY <1>1 DEF Offered
<1>6. Offered' = [n \in 1 .. L + 1 |-> BytesOf(n, offered'[n])]
  BY <1>2 DEF Offered, Bytes, BytesOf
<1> HIDE DEF b
<1>7. Append(Offered, b) = [n \in 1 .. L + 1 |-> IF n <= L THEN Bytes(n) ELSE b]
  <2>1. Offered \in Seq({Bytes(n) : n \in 1 .. L}) /\ Len(Offered) = L
    BY <1>1, <1>5
  <2>2. QED
    BY <1>1, <1>5, <2>1
<1>8. Offered' = Append(Offered, b)
  BY <1>3, <1>6, <1>7
<1>9. QED
  BY <1>4, <1>8

\* recv_msg returns the messages of send_msg whole and in order (Channel), however send()
\* and recv() cut them up and wherever the connection ends.
THEOREM Refinement == Spec => ChannelSpec
<1>1. Init => Messaging!Init
  BY DEF Init, Messaging!Init, Offered, Over
<1>2. ASSUME StreamInv, [Next]_vars
      PROVE  [Messaging!Next]_<<Offered, delivered, Over>>
  <2>1. ASSUME UNCHANGED <<offered, delivered, stage>>
        PROVE  UNCHANGED <<Offered, delivered, Over>>
    BY <2>1 DEF Offered, Bytes, Over
  <2>2. ASSUME NEW m \in Messages, SendMsg(m)
        PROVE  Messaging!Offer
    <3>1. /\ offered' = Append(offered, m) /\ Len(offered) < MaxMsgs
          /\ UNCHANGED <<delivered, stage>>
      BY <2>2 DEF SendMsg, receiver
    <3>2. \E b \in Wholes : Offered' = Append(Offered, b)
      BY <1>2, <3>1, OfferStep DEF StreamInv
    <3>3. UNCHANGED <<delivered, Over>>
      BY <3>1 DEF Over
    <3>4. QED
      BY <3>2, <3>3 DEF Messaging!Offer
  <2>3. CASE Transmit
    BY <2>1, <2>3 DEF Transmit, receiver
  <2>4. CASE SendFails
    BY <2>1, <2>4 DEF SendFails, receiver
  <2>5. CASE Hangup
    BY <2>1, <2>5 DEF Hangup, receiver
  <2>6. CASE Break
    BY <2>1, <2>6 DEF Break, sender, receiver
  <2>7. CASE Receive
    <3>1. UNCHANGED offered
      BY <1>2, <2>7, Received
    <3>2. PICK k \in 1 .. Len(line) : \E h :
            /\ h = got \o SubSeq(line, 1, k) /\ Wanted(h)
            /\ ReadsOn(h) \/ HasWhole(h)
      BY <1>2, <2>7, Received
    <3>3. PICK g :
            /\ g = got \o SubSeq(line, 1, k) /\ Wanted(g)
            /\ ReadsOn(g) \/ HasWhole(g)
      BY <3>2
    <3>4. /\ g \in Seq(Byte) /\ Current \in 1 .. Len(offered)
          /\ \A i \in 1 .. Len(g) : g[i] = [msg |-> Current, at |-> i]
          /\ stage \in {"header", "payload"}
      BY <1>2, <3>3, Gathered
    <3>5. ~ Over
      BY <3>4 DEF Over
    <3>6. UNCHANGED Offered
      BY <3>1 DEF Offered, Bytes
    <3>7. CASE ReadsOn(g)
      <4>1. delivered' = delivered /\ stage' \in {"header", "payload"}
        BY <3>7 DEF ReadsOn
      <4>2. QED
        BY <3>4, <3>6, <4>1 DEF Over
    <3>8. CASE HasWhole(g)
      <4>1. Len(g) = Total(Current) /\ delivered' = Append(delivered, g) /\ stage' = "header"
        BY <3>8 DEF HasWhole
      <4>2. g = Bytes(Current)
        BY <3>4, <4>1, WholeMessage
      <4>3. Len(delivered) \in Nat /\ Len(offered) \in Nat /\ DOMAIN offered = 1 .. Len(offered)
        BY <1>2, Lens DEF StreamInv, TypeOK
      <4>4. /\ Offered[Len(delivered) + 1] = Bytes(Current)
            /\ Offered \in Seq({Bytes(n) : n \in 1 .. Len(offered)}) /\ Len(Offered) = Len(offered)
            /\ Len(delivered) < Len(offered)
        BY <3>4, <4>3 DEF Current, Offered
      <4>5. Over' = Over
        BY <3>4, <4>1 DEF Over
      <4>6. Messaging!Deliver
        BY <3>5, <3>6, <4>1, <4>2, <4>4, <4>5 DEF Messaging!Deliver
      <4>7. QED
        BY <4>6 DEF Messaging!Next
    <3>9. QED
      BY <3>3, <3>7, <3>8
  <2>8. CASE RecvFails
    <3>1. UNCHANGED <<offered, delivered>> /\ stage' = "failed"
      BY <2>8 DEF RecvFails, sender
    <3>2. UNCHANGED <<Offered, delivered>> /\ Over' = TRUE
      BY <3>1 DEF Offered, Bytes, Over
    <3>3. QED
      BY <3>2 DEF Messaging!GiveUp, Messaging!Next
  <2>9. CASE UNCHANGED vars
    BY <2>1, <2>9 DEF vars, sender, receiver
  <2>10. QED
    BY <1>2, <2>2, <2>3, <2>4, <2>5, <2>6, <2>7, <2>8, <2>9 DEF Next, Ended, Messaging!Next
<1>3. QED
  BY <1>1, <1>2, StreamHolds, PTL DEF Spec, ChannelSpec, Messaging!Spec
===============================================================================
