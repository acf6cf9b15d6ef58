--------------------------- MODULE PwSourceProofs ---------------------------
(***************************************************************************)
(* Proofs about ReacDecode and PwSource for every range of a byte, packet  *)
(* size, number of channels, capacity, counter and bound.                  *)
(***************************************************************************)
EXTENDS PwSource, FiniteSetTheorems, TLAPS

-----------------------------------------------------------------------------
(* Division with remainder. *)

LEMMA DivMod ==
  ASSUME NEW x \in Int, NEW m \in Nat \ {0}
  PROVE  x % m \in 0 .. m - 1 /\ x \div m \in Int /\ x = m * (x \div m) + (x % m)
OBVIOUS

\* Quotient and remainder are determined by that equation.
LEMMA DivModUnique ==
  ASSUME NEW x \in Int, NEW m \in Nat \ {0}, NEW q \in Int, NEW r \in 0 .. m - 1,
         x = m * q + r
  PROVE  x % m = r /\ x \div m = q
<1> DEFINE p == x \div m
           s == x % m
<1>1. p \in Int /\ s \in 0 .. m - 1 /\ x = m * p + s
  BY DivMod
<1> HIDE DEF p, s
<1>2. m * (p - q) = r - s
  <2>1. m * (p - q) = m * p - m * q
    BY <1>1
  <2> QED BY <1>1, <2>1
<1>3. p = q
  <2>1. ASSUME p > q PROVE FALSE
    <3>1. m * (p - q) >= m
      BY <1>1, <2>1
    <3> QED BY <1>1, <1>2, <3>1
  <2>2. ASSUME p < q PROVE FALSE
    <3>1. m * (p - q) <= 0 - m
      BY <1>1, <2>2
    <3> QED BY <1>1, <1>2, <3>1
  <2> QED BY <1>1, <2>1, <2>2
<1>4. s = r
  BY <1>1, <1>3
<1> QED BY <1>3, <1>4 DEF p, s

\* The quotient of a number below a product is below the other factor.
LEMMA DivRange ==
  ASSUME NEW m \in Nat \ {0}, NEW k \in Nat, NEW x \in 0 .. m * k - 1
  PROVE  x \div m \in 0 .. k - 1
<1> DEFINE q == x \div m
<1>0. m * k \in Nat
  OBVIOUS
<1>1. q \in Int /\ x % m \in 0 .. m - 1 /\ x = m * q + (x % m) /\ x \in Int
  BY <1>0, x \in Int, DivMod
<1> HIDE DEF q
<1>2. ASSUME q >= k PROVE FALSE
  <2>1. m * (q - k) >= 0 /\ m * (q - k) = m * q - m * k
    BY <1>1, <1>2
  <2> QED BY <1>0, <1>1, <2>1
<1>3. ASSUME q < 0 PROVE FALSE
  <2>1. m * q <= 0 - m
    BY <1>1, <1>3
  <2> QED BY <1>1, <2>1
<1>4. q \in 0 .. k - 1
  BY <1>1, <1>2, <1>3
<1> QED BY <1>4 DEF q

\* An index made of a row and a column is within the table, and gives both back.
LEMMA RowColumn ==
  ASSUME NEW m \in Nat \ {0}, NEW k \in Nat, NEW row \in 0 .. k - 1, NEW col \in 0 .. m - 1
  PROVE  /\ row * m + col \in 0 .. m * k - 1
         /\ (row * m + col) \div m = row /\ (row * m + col) % m = col
<1>1. row * m = m * row /\ m * row \in Nat /\ m * k \in Nat
  OBVIOUS
<1>2. m * row + m <= m * k
  <2>1. m * (k - (row + 1)) >= 0
    OBVIOUS
  <2>2. m * (k - (row + 1)) = m * k - m * row - m
    OBVIOUS
  <2> QED BY <1>1, <2>1, <2>2
<1>3. row * m + col \in 0 .. m * k - 1
  BY <1>1, <1>2
<1> QED BY <1>1, <1>3, row * m + col \in Int, row * m + col = m * row + col, row \in Int, DivModUnique

\* Dividing twice is dividing by the product.
LEMMA DivDiv ==
  ASSUME NEW x \in Nat, NEW m \in Nat \ {0}, NEW k \in Nat \ {0}
  PROVE  x \div (m * k) = (x \div m) \div k
<1> DEFINE a == x \div m
           r == x % m
           b == a \div k
           s == a % k
<1>1. a \in Int /\ r \in 0 .. m - 1 /\ x = m * a + r
  BY DivMod
<1> HIDE DEF a, r
<1>2. b \in Int /\ s \in 0 .. k - 1 /\ a = k * b + s
  BY <1>1, DivMod
<1> HIDE DEF b, s
<1>3. m * k \in Nat \ {0}
  OBVIOUS
<1>4. m * s + r \in 0 .. m * k - 1
  <2>1. s * m + r \in 0 .. m * k - 1
    BY <1>1, <1>2, RowColumn
  <2> QED BY <1>1, <1>2, <2>1
<1>5. x = (m * k) * b + (m * s + r)
  <2>1. m * a = m * (k * b) + m * s
    BY <1>1, <1>2
  <2>2. m * (k * b) = (m * k) * b
    BY <1>2
  <2> QED BY <1>1, <1>2, <1>3, <2>1, <2>2
<1>6. x \div (m * k) = b
  BY <1>2, <1>3, <1>4, <1>5, DivModUnique
<1> QED BY <1>6 DEF a, b

-----------------------------------------------------------------------------
(* Samples and bytes. *)

LEMMA ByteFacts ==
  /\ ByteMod \in Nat \ {0} /\ ByteMod >= 2
  /\ CounterMod \in Nat \ {0} /\ CounterMod >= 4 /\ CounterMod = 2 * (CounterMod \div 2)
  /\ SampleMod \in Nat \ {0} /\ SampleMod = 2 * (SampleMod \div 2)
  /\ CounterMod \div 2 \in Nat \ {0} /\ SampleMod \div 2 \in Nat \ {0}
  /\ SampleMod = CounterMod * ByteMod
<1> DEFINE h == ByteMod \div 2
<1>1. ByteMod = 2 * h /\ h \in Int /\ ByteMod \in Nat \ {0}
  <2>1. ByteMod = 2 * (ByteMod \div 2) + (ByteMod % 2) /\ ByteMod \div 2 \in Int
    BY ReacDecodeAssumption, DivMod
  <2> QED BY <2>1, ReacDecodeAssumption
<1> HIDE DEF h
<1>2. h >= 1 /\ h \in Nat \ {0}
  BY <1>1
<1>3. CounterMod = 2 * (h * ByteMod) /\ h * ByteMod \in Nat \ {0} /\ CounterMod \in Nat /\ CounterMod >= 4
  <2>1. CounterMod = 2 * (h * ByteMod) /\ h * ByteMod \in Nat \ {0}
    BY <1>1, <1>2 DEF CounterMod
  <2>2. h * ByteMod >= 2
    BY <1>1, <1>2
  <2> QED BY <2>1, <2>2
<1>4. SampleMod = 2 * (h * CounterMod) /\ h * CounterMod \in Nat \ {0} /\ SampleMod \in Nat
  <2>1. SampleMod = CounterMod * ByteMod
    BY DEF SampleMod, CounterMod
  <2>2. h * CounterMod \in Nat \ {0}
    BY <1>2, <1>3
  <2>3. CounterMod * (2 * h) = 2 * (h * CounterMod)
    BY <1>2, <1>3
  <2> QED BY <1>1, <2>1, <2>2, <2>3
<1>5. CounterMod \div 2 = h * ByteMod
  BY <1>3, CounterMod = 2 * (h * ByteMod) + 0, 0 \in 0 .. 2 - 1, DivModUnique
<1>6. SampleMod \div 2 = h * CounterMod
  BY <1>4, SampleMod = 2 * (h * CounterMod) + 0, 0 \in 0 .. 2 - 1, DivModUnique
<1>7. SampleMod = CounterMod * ByteMod
  BY DEF SampleMod, CounterMod
<1> QED BY <1>1, <1>2, <1>3, <1>4, <1>5, <1>6, <1>7

\* What a signed sample of 24 bits is.
Sample == - (SampleMod \div 2) .. SampleMod \div 2 - 1

\* The sign survives the wire.
LEMMA SignKept ==
  ASSUME NEW x \in Sample
  PROVE  x % SampleMod \in 0 .. SampleMod - 1 /\ sign_extend_24(x % SampleMod) = x
<1> DEFINE h == SampleMod \div 2
<1>0. h \in Nat \ {0} /\ SampleMod = 2 * h /\ x \in - h .. h - 1 /\ SampleMod \in Nat \ {0} /\ x \in Int
  BY ByteFacts DEF Sample
<1>d. sign_extend_24(x % SampleMod) = IF x % SampleMod >= h THEN (x % SampleMod) - SampleMod ELSE x % SampleMod
  BY DEF sign_extend_24
<1> HIDE DEF h
<1>1. CASE x >= 0
  <2>1. x % SampleMod = x
    BY <1>0, <1>1, x = SampleMod * 0 + x, x \in 0 .. SampleMod - 1, DivModUnique
  <2> QED BY <1>0, <1>1, <1>d, <2>1
<1>2. CASE x < 0
  <2>1. x % SampleMod = x + SampleMod
    <3>1. x = SampleMod * (-1) + (x + SampleMod)
      BY <1>0
    <3>2. x + SampleMod \in 0 .. SampleMod - 1 /\ -1 \in Int
      BY <1>0, <1>2
    <3> QED BY <1>0, <3>1, <3>2, DivModUnique
  <2> QED BY <1>0, <1>2, <1>d, <2>1
<1> QED BY <1>0, <1>1, <1>2

\* The three bytes of a number, put together again.
LEMMA BytesMakeNumber ==
  ASSUME NEW u \in 0 .. SampleMod - 1
  PROVE  (u % ByteMod) + ByteMod * ((u \div ByteMod) % ByteMod)
           + ByteMod * ByteMod * (u \div (ByteMod * ByteMod)) = u
<1> DEFINE a == u \div ByteMod
           b == a \div ByteMod
           r == u % ByteMod
           t == a % ByteMod
<1>0. u \in Nat /\ ByteMod \in Nat \ {0}
  BY ByteFacts
<1>1. a \in Int /\ u = ByteMod * a + r /\ r \in Int
  BY <1>0, DivMod
<1>2. a \in Int => b \in Int /\ a = ByteMod * b + t /\ t \in Int
  BY <1>0, DivMod
<1>3. u \div (ByteMod * ByteMod) = b
  BY <1>0, DivDiv
<1> HIDE DEF a, b, r, t
<1>4. ByteMod * a = ByteMod * (ByteMod * b) + ByteMod * t
  BY <1>0, <1>1, <1>2
<1>5. ByteMod * ByteMod * b = ByteMod * (ByteMod * b)
  BY <1>0, <1>1, <1>2
<1>6. r + ByteMod * t + ByteMod * ByteMod * b = u
  BY <1>0, <1>1, <1>2, <1>4, <1>5
<1> QED BY <1>3, <1>6 DEF r, t, a, b

\* One sample of a pair, from its three places among the six bytes.
LEMMA PairDecoded ==
  ASSUME NEW s1 \in Sample, NEW s2 \in Sample, NEW second \in BOOLEAN
  PROVE  LET byte(w) == put_reac_sample_pair(s1, s2)[PairByte(second, w)]
         IN sign_extend_24(byte(0) + ByteMod * byte(1) + ByteMod * ByteMod * byte(2))
              = IF second THEN s2 ELSE s1
<1> DEFINE bytes == put_reac_sample_pair(s1, s2)
           Low(u) == u % ByteMod
           Mid(u) == (u \div ByteMod) % ByteMod
           High(u) == u \div (ByteMod * ByteMod)
           u1 == s1 % SampleMod
           u2 == s2 % SampleMod
<1>1. bytes = [i \in 0 .. 5 |-> <<Mid(u1), High(u1), High(u2), Low(u1), Low(u2), Mid(u2)>>[i + 1]]
  BY Zenon DEF put_reac_sample_pair
<1> HIDE DEF Low, Mid, High, u1, u2, bytes
<1>2. /\ bytes[3] = Low(u1) /\ bytes[0] = Mid(u1) /\ bytes[1] = High(u1)
      /\ bytes[4] = Low(u2) /\ bytes[5] = Mid(u2) /\ bytes[2] = High(u2)
  BY <1>1
<1>3. CASE second
  <2>1. PairByte(second, 0) = 4 /\ PairByte(second, 1) = 5 /\ PairByte(second, 2) = 2
    BY <1>3 DEF PairByte
  <2>2. sign_extend_24(Low(u2) + ByteMod * Mid(u2) + ByteMod * ByteMod * High(u2)) = s2
    BY SignKept, BytesMakeNumber DEF Low, Mid, High, u2
  <2> QED BY <1>2, <1>3, <2>1, <2>2 DEF bytes
<1>4. CASE ~second
  <2>1. PairByte(second, 0) = 3 /\ PairByte(second, 1) = 0 /\ PairByte(second, 2) = 1
    BY <1>4 DEF PairByte
  <2>2. sign_extend_24(Low(u1) + ByteMod * Mid(u1) + ByteMod * ByteMod * High(u1)) = s1
    BY SignKept, BytesMakeNumber DEF Low, Mid, High, u1
  <2> QED BY <1>2, <1>4, <2>1, <2>2 DEF bytes
<1> QED BY <1>3, <1>4

LEMMA ChannelFacts ==
  ASSUME NEW channels, Supported(channels)
  PROVE  /\ channels \in Nat \ {0} /\ channels \div 2 \in Nat \ {0}
         /\ channels = 2 * (channels \div 2)
<1>1. channels \in Nat \ {0} /\ channels % 2 = 0
  BY ReacDecodeAssumption DEF Supported
<1>2. channels = 2 * (channels \div 2) + (channels % 2) /\ channels \div 2 \in Int
  BY <1>1, DivMod
<1> QED BY <1>1, <1>2

LEMMA PacketBytes ==
  ASSUME NEW channels, Supported(channels)
  PROVE  /\ reac_payload_bytes_for(channels, FramesPerPacket)
              = 6 * ((channels \div 2) * FramesPerPacket)
         /\ reac_payload_bytes_for(channels, FramesPerPacket)
              = reac_payload_bytes_for(1, FramesPerPacket) * channels
         /\ reac_payload_bytes_for(1, FramesPerPacket) \in Nat \ {0}
         /\ reac_payload_bytes_for(channels, FramesPerPacket) \in Nat \ {0}
<1> DEFINE h == channels \div 2
<1>1. channels \in Nat \ {0} /\ h \in Nat \ {0} /\ channels = 2 * h /\ FramesPerPacket \in Nat \ {0}
  BY ChannelFacts, ReacDecodeAssumption
<1> HIDE DEF h
<1>2. channels * FramesPerPacket * 3 = 6 * (h * FramesPerPacket)
  <2>1. (2 * h) * FramesPerPacket = 2 * (h * FramesPerPacket)
    BY <1>1
  <2>2. h * FramesPerPacket \in Nat
    BY <1>1
  <2> QED BY <1>1, <2>1, <2>2
<1>3. channels * FramesPerPacket * 3 = (1 * FramesPerPacket * 3) * channels
  BY <1>1
<1>4. h * FramesPerPacket \in Nat \ {0}
  BY <1>1
<1> QED BY <1>1, <1>2, <1>3, <1>4 DEF reac_payload_bytes_for, BytesPerSample, h

\* reac_decode_samples_to_channels inverts the wire format: what the decoder makes of a
\* packet are the samples that were put into it, each on its channel and in its frame, with
\* its sign - for every number of channels the parser supports and every packet size.
THEOREM DecodeInvertsWire ==
  ASSUME NEW counter, NEW channels \in Nat,
         NEW sample \in [0 .. FramesPerPacket - 1 -> [0 .. channels - 1 -> Sample]],
         NEW ch \in 0 .. channels - 1, NEW frame \in 0 .. FramesPerPacket - 1, Supported(channels)
  PROVE  Samples(make_packet(counter, channels, sample).payload, channels, FramesPerPacket)[ch][frame]
           = sample[frame][ch]
<1> DEFINE payload == make_packet(counter, channels, sample).payload
           Byte(f, c, w) ==
             payload[6 * (f * (channels \div 2) + c \div 2) + PairByte(c % 2 = 1, w)]
           Value(f, c) ==
             sign_extend_24(Byte(f, c, 0) + ByteMod * Byte(f, c, 1)
                              + ByteMod * ByteMod * Byte(f, c, 2))
           At(i) == LET p == i \div 6
                        f == p \div (channels \div 2)
                        c == 2 * (p % (channels \div 2))
                    IN put_reac_sample_pair(sample[f][c], sample[f][c + 1])[i % 6]
<1>0. payload = [i \in 0 .. reac_payload_bytes_for(channels, FramesPerPacket) - 1 |-> At(i)]
  BY Zenon DEF make_packet
<1>1. Samples(payload, channels, FramesPerPacket)
        = [c \in 0 .. channels - 1 |-> [f \in 0 .. FramesPerPacket - 1 |-> Value(f, c)]]
  BY Zenon DEF Samples
<1>2. Value(frame, ch) = sample[frame][ch]
  <2> DEFINE h == ch \div 2
             s1 == sample[frame][2 * h]
             s2 == sample[frame][2 * h + 1]
             second == ch % 2 = 1
  <2>1. channels \in Nat \ {0} /\ channels \div 2 \in Nat \ {0} /\ channels = 2 * (channels \div 2)
    BY ChannelFacts
  <2>2. h \in 0 .. (channels \div 2) - 1
    BY <2>1, 2 \in Nat \ {0}, ch \in 0 .. 2 * (channels \div 2) - 1, DivRange
  <2>3. ch = 2 * h + (ch % 2) /\ ch % 2 \in 0 .. 1
    BY <2>1, ch \in Int, 2 \in Nat \ {0}, 2 - 1 = 1, DivMod
  <2>4. second \in BOOLEAN /\ (second => ch = 2 * h + 1) /\ (~second => ch = 2 * h)
    BY <2>2, <2>3
  <2>5. s1 \in Sample /\ s2 \in Sample
    <3>1. 2 * h \in 0 .. channels - 1 /\ 2 * h + 1 \in 0 .. channels - 1
      BY <2>1, <2>2
    <3> HIDE DEF h
    <3> QED BY <3>1
  <2>6. ASSUME NEW w \in 0 .. 2 PROVE Byte(frame, ch, w) = put_reac_sample_pair(s1, s2)[PairByte(second, w)]
    <3>1. PairByte(second, w) \in 0 .. 5
      <4>1. w = 0 \/ w = 1 \/ w = 2
        OBVIOUS
      <4> QED BY <2>4, <4>1 DEF PairByte
    <3>2. ASSUME NEW b \in 0 .. 5
          PROVE  payload[6 * (frame * (channels \div 2) + h) + b] = put_reac_sample_pair(s1, s2)[b]
      <4> DEFINE c == channels \div 2
                 pair == frame * c + h
                 k == 6 * pair + b
      <4>0. c \in Nat \ {0} /\ FramesPerPacket \in Nat /\ h \in 0 .. c - 1
        BY <2>1, <2>2, ReacDecodeAssumption
      <4> HIDE DEF c, h
      <4>1. pair \in 0 .. c * FramesPerPacket - 1 /\ pair \div c = frame /\ pair % c = h
        BY <4>0, RowColumn
      <4> HIDE DEF pair
      <4>2. k \in 0 .. 6 * (c * FramesPerPacket) - 1 /\ k \div 6 = pair /\ k % 6 = b
        <5>0. c * FramesPerPacket \in Nat
          BY <4>0
        <5>1. /\ pair * 6 + b \in 0 .. 6 * (c * FramesPerPacket) - 1
              /\ (pair * 6 + b) \div 6 = pair /\ (pair * 6 + b) % 6 = b
          BY <4>1, <5>0, RowColumn, 6 \in Nat \ {0}, b \in 0 .. 6 - 1
        <5>2. k = pair * 6 + b
          BY <4>1
        <5> QED BY <5>1, <5>2
      <4> HIDE DEF k
      <4>3. payload[k] = At(k)
        BY <1>0, <4>2, PacketBytes DEF c
      <4>4. At(k) = put_reac_sample_pair(s1, s2)[b]
        BY <4>1, <4>2 DEF c
      <4> QED BY <4>3, <4>4 DEF k, pair, c
    <3> HIDE DEF payload, s1, s2
    <3> QED BY <3>1, <3>2
  <2>7. Value(frame, ch) = IF second THEN s2 ELSE s1
    <3>1. /\ Byte(frame, ch, 0) = put_reac_sample_pair(s1, s2)[PairByte(second, 0)]
          /\ Byte(frame, ch, 1) = put_reac_sample_pair(s1, s2)[PairByte(second, 1)]
          /\ Byte(frame, ch, 2) = put_reac_sample_pair(s1, s2)[PairByte(second, 2)]
      BY <2>6, 0 \in 0 .. 2, 1 \in 0 .. 2, 2 \in 0 .. 2
    <3> HIDE DEF Byte, second, s1, s2
    <3> QED BY <2>4, <2>5, <3>1, PairDecoded
  <2> HIDE DEF Value, h, second
  <2> QED BY <2>4, <2>7
<1> HIDE DEF payload, Value
<1>3. Samples(payload, channels, FramesPerPacket)[ch][frame] = sample[frame][ch]
  BY <1>1, <1>2
<1> QED BY <1>3 DEF payload

\* reac_parse_packet accepts what a device sends, and finds its counter and its channels.
THEOREM ParseAcceptsWire ==
  ASSUME NEW counter \in 0 .. CounterMod - 1, NEW channels \in Nat, Supported(channels), NEW sample
  PROVE  reac_parse_packet(make_packet(counter, channels, sample))
           = [status |-> "ok", channels |-> channels, counter |-> counter]
<1> DEFINE f == make_packet(counter, channels, sample)
           n == reac_payload_bytes_for(channels, FramesPerPacket)
           quantum == reac_payload_bytes_for(1, FramesPerPacket)
<1>1. /\ n = quantum * channels /\ n \in Nat \ {0} /\ quantum \in Nat \ {0} /\ channels \in Nat
  BY PacketBytes, ChannelFacts
<1>2. f.size - reac_packet_overhead - EndMarkerBytes = n
  <2>1. f.size = reac_packet_overhead + n + EndMarkerBytes
    BY DEF make_packet
  <2> HIDE DEF f, n
  <2> QED BY <1>1, <2>1 DEF reac_packet_overhead, EndMarkerBytes
<1>3. f.reac /\ f.marked
  BY Zenon DEF make_packet
<1>4. read_le16(f.counter) = counter
  <2>1. f.counter = [i \in 0 .. 1 |-> IF i = 0 THEN counter % ByteMod ELSE counter \div ByteMod]
    BY DEF make_packet
  <2> HIDE DEF f
  <2>2. f.counter[0] = counter % ByteMod /\ f.counter[1] = counter \div ByteMod
    BY <2>1
  <2>3. /\ counter = ByteMod * (counter \div ByteMod) + (counter % ByteMod)
        /\ counter \div ByteMod \in Int /\ counter % ByteMod \in Int
    BY ByteFacts, counter \in Int, DivMod
  <2>4. ByteMod * (counter \div ByteMod) \in Int
    BY ByteFacts, <2>3
  <2> QED BY <2>2, <2>3, <2>4 DEF read_le16
<1> HIDE DEF f, n, quantum
<1>5. n \div quantum = channels /\ n % quantum = 0
  BY <1>1, n = quantum * channels + 0, 0 \in 0 .. quantum - 1, DivModUnique
<1>6. reac_parse_packet(f)
        = IF n < 0 THEN [status |-> "short", channels |-> 0, counter |-> 0]
          ELSE IF ~ f.reac THEN [status |-> "not_reac", channels |-> 0, counter |-> 0]
          ELSE IF ~ f.marked THEN [status |-> "bad_end_marker", channels |-> 0, counter |-> 0]
          ELSE IF n = 0 \/ n % quantum /= 0
            THEN [status |-> "bad_payload_size", channels |-> 0, counter |-> 0]
          ELSE IF ~ Supported(n \div quantum)
            THEN [status |-> "unsupported_channel_count", channels |-> 0, counter |-> 0]
          ELSE [status |-> "ok", channels |-> n \div quantum, counter |-> read_le16(f.counter)]
  BY <1>2, Zenon DEF reac_parse_packet, quantum
<1>7. ~(n < 0) /\ n # 0
  BY <1>1
<1> QED BY <1>3, <1>4, <1>5, <1>6, <1>7 DEF f

-----------------------------------------------------------------------------
(* What the capture thread makes of a frame. *)

LEMMA Constants ==
  /\ Supported(Channels) /\ Channels \in Nat \ {0} /\ FramesPerPacket \in Nat \ {0}
  /\ Capacity \in Nat \ {0} /\ CounterMod \in Nat \ {0} /\ SampleMod \in Nat \ {0}
  /\ FirstCounter \in Nat /\ MaxPackets \in Nat /\ SampleMod \div 2 \in Nat
BY PwSourceAssumption, ReacDecodeAssumption, ChannelFacts, ByteFacts

LEMMA DeviceSampleType ==
  ASSUME NEW n \in Nat, NEW frame \in Nat, NEW ch \in Nat
  PROVE  DeviceSample(n, frame, ch) \in Sample
<1> DEFINE x == (Channels + 1) * (n * FramesPerPacket + frame) + ch
<1>1. x \in Int
  BY Constants
<1> HIDE DEF x
<1>2. x % SampleMod \in 0 .. SampleMod - 1
  BY <1>1, Constants, DivMod
<1>3. (x % SampleMod) - SampleMod \div 2 \in Sample
  BY <1>2, ByteFacts DEF Sample
<1> QED BY <1>3 DEF DeviceSample, x

\* A packet of the device is parsed, decoded and interleaved without loss.
LEMMA DeviceDecoded ==
  ASSUME NEW n \in Nat
  PROVE  /\ reac_parse_packet(DevicePacket(n))
              = [status |-> "ok", channels |-> Channels, counter |-> (FirstCounter + n) % CounterMod]
         /\ DecodeStatus(DevicePacket(n).size - reac_packet_overhead - EndMarkerBytes,
                         Channels, FramesPerPacket) = "ok"
         /\ interleave_packet(Samples(DevicePacket(n).payload, Channels, FramesPerPacket))
              = [i \in 0 .. Block - 1 |-> DeviceSample(n, i \div Channels, i % Channels)]
<1> DEFINE counter == (FirstCounter + n) % CounterMod
           sample == [frame \in 0 .. FramesPerPacket - 1 |->
                        [ch \in 0 .. Channels - 1 |-> DeviceSample(n, frame, ch)]]
<1>0. DevicePacket(n) = make_packet(counter, Channels, sample)
  BY Zenon DEF DevicePacket
<1>1. counter \in 0 .. CounterMod - 1
  BY Constants, FirstCounter + n \in Int, DivMod
<1>2. sample \in [0 .. FramesPerPacket - 1 -> [0 .. Channels - 1 -> Sample]]
  <2>1. ASSUME NEW frame \in 0 .. FramesPerPacket - 1, NEW ch \in 0 .. Channels - 1
        PROVE  DeviceSample(n, frame, ch) \in Sample
    BY Constants, frame \in Nat, ch \in Nat, DeviceSampleType
  <2> QED BY <2>1, Zenon
<1>s. ASSUME NEW ch \in 0 .. Channels - 1, NEW frame \in 0 .. FramesPerPacket - 1
      PROVE  sample[frame][ch] = DeviceSample(n, frame, ch)
  BY Zenon
<1> HIDE DEF counter, sample
<1>3. reac_parse_packet(DevicePacket(n))
        = [status |-> "ok", channels |-> Channels, counter |-> counter]
  BY <1>0, <1>1, Constants, ParseAcceptsWire, Zenon
<1>4. DecodeStatus(DevicePacket(n).size - reac_packet_overhead - EndMarkerBytes,
                   Channels, FramesPerPacket) = "ok"
  <2> DEFINE size == reac_payload_bytes_for(Channels, FramesPerPacket)
  <2>1. DevicePacket(n).size = reac_packet_overhead + size + EndMarkerBytes
    BY Zenon DEF DevicePacket, make_packet
  <2>2. size \in Nat
    BY Constants, PacketBytes
  <2> HIDE DEF size
  <2>3. DevicePacket(n).size - reac_packet_overhead - EndMarkerBytes = size
    BY <2>1, <2>2 DEF reac_packet_overhead, EndMarkerBytes
  <2> QED BY <2>3, Constants DEF DecodeStatus, size
<1>5. ASSUME NEW ch \in 0 .. Channels - 1, NEW frame \in 0 .. FramesPerPacket - 1
      PROVE  Samples(DevicePacket(n).payload, Channels, FramesPerPacket)[ch][frame] = sample[frame][ch]
  <2>1. Channels \in Nat /\ Supported(Channels)
    BY Constants
  <2>2. Samples(make_packet(counter, Channels, sample).payload, Channels, FramesPerPacket)[ch][frame]
          = sample[frame][ch]
    BY <1>2, <2>1, DecodeInvertsWire, ZenonT(40)
  <2> QED BY <1>0, <2>2, Zenon
<1>6. ASSUME NEW i \in 0 .. Block - 1
      PROVE  Samples(DevicePacket(n).payload, Channels, FramesPerPacket)[i % Channels][i \div Channels]
               = DeviceSample(n, i \div Channels, i % Channels)
  <2>1. Block = Channels * FramesPerPacket
    BY Constants DEF Block
  <2>2. i \div Channels \in 0 .. FramesPerPacket - 1
    BY <2>1, Constants, FramesPerPacket \in Nat, i \in 0 .. Channels * FramesPerPacket - 1, DivRange
  <2>3. i % Channels \in 0 .. Channels - 1
    BY <2>1, Constants, i \in Int, DivMod
  <2> QED BY <1>5, <1>s, <2>2, <2>3
<1>7. interleave_packet(Samples(DevicePacket(n).payload, Channels, FramesPerPacket))
        = [i \in 0 .. Block - 1 |-> DeviceSample(n, i \div Channels, i % Channels)]
  BY <1>6, Zenon DEF interleave_packet
<1> QED BY <1>3, <1>4, <1>7 DEF counter

\* Another frame is never taken for one of the device.
LEMMA ForeignRejected ==
  ASSUME NEW f \in ForeignFrames
  PROVE  ~ /\ reac_parse_packet(f).status = "ok" /\ reac_parse_packet(f).channels = Channels
           /\ DecodeStatus(f.size - reac_packet_overhead - EndMarkerBytes,
                           Channels, FramesPerPacket) = "ok"
<1> DEFINE size == reac_payload_bytes_for(Channels, FramesPerPacket)
           view == reac_parse_packet(f)
<1>1. f.size \in ForeignSizes /\ ~ (f.size = DevicePacket(0).size /\ f.reac /\ f.marked)
  BY DEF ForeignFrames
<1>2. f.size \in Nat /\ size \in Nat
  BY <1>1, PwSourceAssumption, Constants, PacketBytes
<1>3. DevicePacket(0).size = reac_packet_overhead + size + EndMarkerBytes
  BY Zenon DEF DevicePacket, make_packet
<1>4. view.status = "ok" => f.reac /\ f.marked
  BY Zenon DEF reac_parse_packet
<1> HIDE DEF size, view
<1>5. ASSUME DecodeStatus(f.size - reac_packet_overhead - EndMarkerBytes, Channels, FramesPerPacket) = "ok"
      PROVE  f.size - reac_packet_overhead - EndMarkerBytes = size
  BY <1>5, Constants DEF DecodeStatus, size
<1>6. f.size - reac_packet_overhead - EndMarkerBytes = size => f.size = DevicePacket(0).size
  BY <1>2, <1>3 DEF reac_packet_overhead, EndMarkerBytes
<1> QED BY <1>1, <1>4, <1>5, <1>6 DEF view

-----------------------------------------------------------------------------
(* Start, quit and teardown. *)

\* What each rest of a teardown still names, and what it names next.
LEMMA TodoFacts ==
  /\ {Teardown[i] : i \in DOMAIN Teardown} = Resources
  /\ LET t == <<"loop", "socket", "ring">> IN {t[i] : i \in DOMAIN t} = {"loop", "socket", "ring"}
  /\ LET t == <<"socket", "ring">> IN {t[i] : i \in DOMAIN t} = {"socket", "ring"}
  /\ LET t == <<"ring">> IN {t[i] : i \in DOMAIN t} = {"ring"}
  /\ LET t == << >> IN {t[i] : i \in DOMAIN t} = {}
  /\ Teardown /= << >> /\ Teardown /= <<"loop", "socket", "ring">>
  /\ Teardown /= <<"socket", "ring">> /\ Teardown /= <<"ring">>
BY DEF Teardown, Resources

LEMMA TailFacts ==
  /\ Head(Teardown) = "stream" /\ Tail(Teardown) = <<"loop", "socket", "ring">>
  /\ LET t == <<"loop", "socket", "ring">> IN Head(t) = "loop" /\ Tail(t) = <<"socket", "ring">>
  /\ LET t == <<"socket", "ring">> IN Head(t) = "socket" /\ Tail(t) = <<"ring">>
  /\ LET t == <<"ring">> IN Head(t) = "ring" /\ Tail(t) = << >>
BY DEF Teardown

\* The stages of main say that nothing is used once it is gone and all is given back.
LEMMA StagesSuffice ==
  ASSUME TypeOK, MainStages
  PROVE  NoUseAfterRelease /\ ReleasedOnExit
<1>1. CASE phase /= "leave"
  BY <1>1 DEF TypeOK, MainStages, NoUseAfterRelease, ReleasedOnExit
<1>2. CASE phase = "leave"
  <2>0. /\ connected => todo = Teardown
        /\ live \ {"stream"} = {todo[i] : i \in DOMAIN todo} \ {"stream"}
    BY <1>2 DEF MainStages
  <2>1. connected => todo = Teardown /\ live \ {"stream"} = {"loop", "socket", "ring"}
    <3>1. {Teardown[i] : i \in DOMAIN Teardown} = Resources
      BY TodoFacts
    <3>2. Resources \ {"stream"} = {"loop", "socket", "ring"}
      BY DEF Resources
    <3> QED BY <2>0, <3>1, <3>2, Zenon
  <2>2. todo = << >> => ~ connected /\ live \ {"stream"} = {}
    BY <1>2, TodoFacts DEF MainStages
  <2>3. NoUseAfterRelease
    BY <1>2, <2>1 DEF MainStages, NoUseAfterRelease
  <2>4. ReleasedOnExit
    BY <1>2, <2>2 DEF MainStages, ReleasedOnExit
  <2> QED BY <2>3, <2>4
<1> QED BY <1>1, <1>2

\* The parts of TypeOK that main, the capture thread and the callback own.
MainType ==
  /\ phase \in {"ring", "socket", "loop", "stream", "thread", "run", "join", "leave"}
  /\ live \subseteq Resources /\ todo \in Seq(Resources)
  /\ connected \in BOOLEAN /\ running \in BOOLEAN

CaptureType ==
  /\ cap \in {"none", "test", "poll", "copy", "gone"} /\ written \in 0 .. FramesPerPacket
  /\ last \in {NoCounter} \cup 0 .. CounterMod - 1
  /\ sent \in Nat /\ heard \in [device : Nat, repeats : Nat, foreign : Nat]
  /\ accepted \in Seq(Nat)

CallbackType ==
  /\ cb \in {"idle", "copy"} /\ to_read \in Nat /\ read_frames \in 0 .. to_read
  /\ DOMAIN out \subseteq Nat

RingType ==
  /\ read_pos \in Nat /\ write_pos \in Nat /\ write_pos - read_pos \in 0 .. Capacity
  /\ samples \in [0 .. Capacity * Channels - 1 -> - (SampleMod \div 2) .. SampleMod \div 2 - 1]

StatsType ==
  stats \in [received : Nat, lost : Nat, non_reac : Nat, malformed : Nat, errors : Nat,
             overruns : Nat, underruns : Nat]

LEMMA TypeParts == TypeOK <=> MainType /\ CaptureType /\ CallbackType /\ RingType /\ StatsType
BY DEF TypeOK, MainType, CaptureType, CallbackType, RingType, StatsType

\* Leaving with t still to do: what is live, but for the stream, is what t names.
LEMMA LeaveStage ==
  ASSUME phase' = "leave", cap' \in {"none", "gone"}, cb' = "copy" => connected',
         \/ todo' = Teardown /\ live' = Resources /\ connected'
         \/ /\ ~ connected'
            /\ \/ todo' = <<"loop", "socket", "ring">> /\ live' \ {"stream"} = {"loop", "socket", "ring"}
               \/ todo' = <<"socket", "ring">> /\ live' \ {"stream"} = {"socket", "ring"}
               \/ todo' = <<"ring">> /\ live' \ {"stream"} = {"ring"}
               \/ todo' = << >> /\ live' \ {"stream"} = {},
         cap' = "gone" /\ ~ connected' => "stream" \notin live'
  PROVE  MainStages' /\ todo' \in Seq(Resources)
<1>1. CASE todo' = Teardown /\ live' = Resources /\ connected'
  BY <1>1, TodoFacts DEF MainStages, Resources, Teardown
<1>2. CASE ~ connected' /\ todo' = <<"loop", "socket", "ring">> /\ live' \ {"stream"} = {"loop", "socket", "ring"}
  BY <1>2, TodoFacts DEF MainStages, Resources
<1>3. CASE ~ connected' /\ todo' = <<"socket", "ring">> /\ live' \ {"stream"} = {"socket", "ring"}
  BY <1>3, TodoFacts DEF MainStages, Resources
<1>4. CASE ~ connected' /\ todo' = <<"ring">> /\ live' \ {"stream"} = {"ring"}
  BY <1>4, TodoFacts DEF MainStages, Resources
<1>5. CASE ~ connected' /\ todo' = << >> /\ live' \ {"stream"} = {}
  BY <1>5, TodoFacts DEF MainStages, Resources
<1> QED BY <1>1, <1>2, <1>3, <1>4, <1>5

\* A step of main keeps its stages.
LEMMA MainControl ==
  ASSUME MainType, CaptureType, CallbackType, MainStages, MainStep \/ do_quit
  PROVE  MainType' /\ MainStages' /\ cap' \in {"none", "test", "poll", "copy", "gone"}
<1> USE DEF MainType, MainStages, capture, callback
<1>1. CASE audio_ring_init
  <2>1. CASE phase' = "socket"
    BY <1>1, <2>1 DEF audio_ring_init, Cleanup, Resources
  <2>2. CASE phase' = "leave"
    BY <1>1, <2>2, LeaveStage DEF audio_ring_init, Cleanup, Resources
  <2> QED BY <1>1, <2>1, <2>2 DEF audio_ring_init, Cleanup
<1>2. CASE open_capture_socket
  <2>1. CASE phase' = "loop"
    BY <1>2, <2>1 DEF open_capture_socket, Cleanup, Resources
  <2>2. CASE phase' = "leave"
    BY <1>2, <2>2, LeaveStage DEF open_capture_socket, Cleanup, Resources
  <2> QED BY <1>2, <2>1, <2>2 DEF open_capture_socket, Cleanup
<1>3. CASE pw_main_loop_new
  <2>1. CASE phase' = "stream"
    BY <1>3, <2>1 DEF pw_main_loop_new, Cleanup, Resources
  <2>2. CASE phase' = "leave"
    BY <1>3, <2>2, LeaveStage DEF pw_main_loop_new, Cleanup, Resources
  <2> QED BY <1>3, <2>1, <2>2 DEF pw_main_loop_new, Cleanup
<1>4. CASE start_pipewire_stream
  <2>1. CASE phase' = "thread"
    BY <1>4, <2>1 DEF start_pipewire_stream, Cleanup, Resources
  <2>2. CASE phase' = "leave"
    <3>1. /\ live \ {"stream"} = {"loop", "socket", "ring"} /\ live \subseteq Resources
          /\ ~ connected /\ cap = "none" /\ cb /= "copy"
      BY <1>4, ZenonT(40) DEF start_pipewire_stream, Resources
    <3>2. /\ todo' = <<"loop", "socket", "ring">> /\ live' \in {live, live \cup {"stream"}}
          /\ connected' = connected /\ running' = running /\ cap' = cap /\ cb' = cb
      BY <1>4, <2>2 DEF start_pipewire_stream, Cleanup
    <3>3. live' \ {"stream"} = {"loop", "socket", "ring"} /\ live' \subseteq Resources
      BY <3>1, <3>2 DEF Resources
    <3> QED BY <2>2, <3>1, <3>2, <3>3, LeaveStage
  <2> QED BY <1>4, <2>1, <2>2 DEF start_pipewire_stream, Cleanup
<1>5. CASE create_capture_thread
  <2>1. CASE phase' = "run"
    BY <1>5, <2>1 DEF create_capture_thread, Cleanup, Resources
  <2>2. CASE phase' = "leave"
    BY <1>5, <2>2, LeaveStage DEF create_capture_thread, Cleanup, Resources
  <2> QED BY <1>5, <2>1, <2>2 DEF create_capture_thread, Cleanup
<1>6. CASE do_quit
  BY <1>6 DEF do_quit, CaptureType
<1>7. CASE join_capture_thread
  BY <1>7, LeaveStage DEF join_capture_thread, Cleanup, Resources
<1>8. CASE Release
  <2>0. /\ phase = "leave" /\ phase' = "leave" /\ cap' = cap /\ cb' = cb /\ todo /= << >>
        /\ live' = live \ {Head(todo)} /\ todo' = Tail(todo) /\ running' = running
        /\ connected' = (connected /\ Head(todo) /= "stream")
        /\ Head(todo) = "stream" => cb = "idle"
    BY <1>8 DEF Release
  <2>1. CASE todo = Teardown
    <3>1. live = Resources
      <4>1. live \ {"stream"} = Resources \ {"stream"} /\ connected
        BY <2>0, <2>1, TodoFacts
      <4>2. "stream" \in live /\ "stream" \in Resources
        BY <2>0, <4>1 DEF Resources
      <4> QED BY <4>1, <4>2
    <3> QED BY <2>0, <2>1, <3>1, TailFacts, LeaveStage DEF CallbackType, Resources
  <2>2. CASE todo = <<"loop", "socket", "ring">>
    BY <2>0, <2>2, TodoFacts, TailFacts, LeaveStage
  <2>3. CASE todo = <<"socket", "ring">>
    BY <2>0, <2>3, TodoFacts, TailFacts, LeaveStage
  <2>4. CASE todo = <<"ring">>
    BY <2>0, <2>4, TodoFacts, TailFacts, LeaveStage
  <2> QED BY <2>0, <2>1, <2>2, <2>3, <2>4
<1> QED BY <1>1, <1>2, <1>3, <1>4, <1>5, <1>6, <1>7, <1>8 DEF MainStep

\* So does a step of the capture thread, which only runs between its creation and its join.
LEMMA CaptureControl ==
  ASSUME MainType, MainStages, UNCHANGED <<main, cb>>,
         cap \in {"test", "poll", "copy"}, cap' \in {"test", "poll", "copy", "gone"}
  PROVE  MainType' /\ MainStages'
BY DEF MainType, MainStages, main

\* And so does the callback, which only runs while the stream is connected.
LEMMA CallbackControl ==
  ASSUME MainType, MainStages, UNCHANGED <<main, cap>>, cb' = "copy" => connected
  PROVE  MainType' /\ MainStages'
BY DEF MainType, MainStages, main

-----------------------------------------------------------------------------
(* The capture thread's books. *)

LEMMA StatFields ==
  ASSUME StatsType
  PROVE  /\ stats.received \in Nat /\ stats.lost \in Nat /\ stats.non_reac \in Nat
         /\ stats.malformed \in Nat /\ stats.errors \in Nat /\ stats.overruns \in Nat
         /\ stats.underruns \in Nat
BY DEF StatsType

\* A step that leaves the ring, the callback and the accepted packets alone and does not
\* begin to write a packet.
LEMMA Quiet ==
  ASSUME CaptureStages, RingStages, CallbackStages, DeliveredExact, LossAccounted, CaptureType,
         UNCHANGED <<last, accepted, callback, ring>>, sent' \in Nat, sent' >= sent,
         stats'.received = stats.received, stats'.lost = stats.lost,
         cap' = "copy" => cap = "copy" /\ UNCHANGED <<packet, written, sent>>
  PROVE  CaptureStages' /\ RingStages' /\ CallbackStages' /\ DeliveredExact' /\ LossAccounted'
<1> USE DEF callback, ring
<1>1. CaptureStages'
  <2>1. \A i \in 1 .. Len(accepted) : accepted[i] < sent'
    BY DEF CaptureStages, CaptureType
  <2>2. cap' = "copy" =>
          /\ sent' > 0 /\ write_pos + FramesPerPacket - read_pos <= Capacity
          /\ packet' = [counter |-> (FirstCounter + (sent' - 1)) % CounterMod, number |-> sent' - 1,
                        interleaved |-> [i \in 0 .. Block - 1 |->
                                           DeviceSample(sent' - 1, i \div Channels, i % Channels)]]
    BY DEF CaptureStages
  <2> QED BY <2>1, <2>2 DEF CaptureStages
<1>2. RingStages'
  BY DEF RingStages, RingSample, StreamSample
<1>3. CallbackStages'
  BY DEF CallbackStages
<1>4. DeliveredExact'
  BY DEF DeliveredExact, StreamSample
<1>5. LossAccounted'
  BY DEF LossAccounted
<1> QED BY <1>1, <1>2, <1>3, <1>4, <1>5

\* A packet of the device is either begun to be written, or counted as an overrun.
LEMMA HandleDevice ==
  ASSUME NEW n \in Nat, HandleFrame(DevicePacket(n), n)
  PROVE  \/ /\ RoomFor(FramesPerPacket)
            /\ cap' = "copy" /\ written' = 0 /\ stats' = stats
            /\ packet' = [counter |-> (FirstCounter + n) % CounterMod, number |-> n,
                          interleaved |-> [i \in 0 .. Block - 1 |->
                                             DeviceSample(n, i \div Channels, i % Channels)]]
         \/ /\ stats' = [stats EXCEPT !.overruns = @ + 1]
            /\ cap' = "test" /\ UNCHANGED <<packet, written>>
<1> DEFINE f == DevicePacket(n)
           view == reac_parse_packet(f)
           bytes == f.size - reac_packet_overhead - EndMarkerBytes
           line == interleave_packet(Samples(f.payload, Channels, FramesPerPacket))
<1>1. /\ view.status = "ok" /\ view.channels = Channels
      /\ view.counter = (FirstCounter + n) % CounterMod
  <2>1. view = [status |-> "ok", channels |-> Channels, counter |-> (FirstCounter + n) % CounterMod]
    BY DeviceDecoded, Zenon
  <2> HIDE DEF view
  <2> QED BY <2>1
<1>2. DecodeStatus(bytes, view.channels, FramesPerPacket) = "ok"
  BY <1>1, DeviceDecoded, Zenon
<1>3. line = [i \in 0 .. Block - 1 |-> DeviceSample(n, i \div Channels, i % Channels)]
  BY DeviceDecoded, Zenon
<1>4. \/ view.status = "not_reac" \/ view.status \notin {"ok", "not_reac"}
      \/ view.channels /= Channels \/ DecodeStatus(bytes, view.channels, FramesPerPacket) /= "ok"
      \/ IF RoomFor(FramesPerPacket)
           THEN /\ cap' = "copy" /\ written' = 0 /\ UNCHANGED stats
                /\ packet' = [counter |-> view.counter, number |-> n,
                              interleaved |-> interleave_packet(
                                 Samples(f.payload, view.channels, FramesPerPacket))]
           ELSE /\ stats' = [stats EXCEPT !.overruns = @ + 1]
                /\ cap' = "test" /\ UNCHANGED <<packet, written>>
  BY Zenon DEF HandleFrame
<1> HIDE DEF view, bytes, f
<1>5. IF RoomFor(FramesPerPacket)
        THEN /\ cap' = "copy" /\ written' = 0 /\ UNCHANGED stats
             /\ packet' = [counter |-> view.counter, number |-> n, interleaved |-> line]
        ELSE /\ stats' = [stats EXCEPT !.overruns = @ + 1]
             /\ cap' = "test" /\ UNCHANGED <<packet, written>>
  BY <1>1, <1>2, <1>4, Zenon
<1> QED BY <1>1, <1>3, <1>5, Zenon

\* Another frame only counts, as malformed or as not REAC.
LEMMA HandleForeign ==
  ASSUME NEW f \in ForeignFrames, HandleFrame(f, 0)
  PROVE  /\ cap' = "test" /\ UNCHANGED <<packet, written>>
         /\ \/ stats' = [stats EXCEPT !.non_reac = @ + 1]
            \/ stats' = [stats EXCEPT !.malformed = @ + 1]
<1> DEFINE view == reac_parse_packet(f)
           bytes == f.size - reac_packet_overhead - EndMarkerBytes
<1>1. ~ /\ view.status = "ok" /\ view.channels = Channels
        /\ DecodeStatus(bytes, view.channels, FramesPerPacket) = "ok"
  BY ForeignRejected, Zenon
<1>2. \/ /\ \/ stats' = [stats EXCEPT !.non_reac = @ + 1]
            \/ stats' = [stats EXCEPT !.malformed = @ + 1]
         /\ cap' = "test" /\ UNCHANGED <<packet, written>>
      \/ /\ view.status = "ok" /\ view.channels = Channels
         /\ DecodeStatus(bytes, view.channels, FramesPerPacket) = "ok"
  BY Zenon DEF HandleFrame
<1> QED BY <1>1, <1>2, Zenon

\* The inductive invariant; by StagesSuffice it contains SourceInvariant.
Inductive ==
  /\ TypeOK /\ MainStages /\ EveryFrameCounted /\ CaptureStages /\ RingStages /\ CallbackStages
  /\ DeliveredExact /\ LossAccounted

\* A step of main touches none of the data.
LEMMA MainStepInductive ==
  ASSUME Inductive, MainStep \/ do_quit
  PROVE  Inductive'
<1> USE DEF Inductive
<1>0. MainType /\ CaptureType /\ CallbackType /\ RingType /\ StatsType
  BY TypeParts
<1>1. /\ UNCHANGED <<packet, written, last, sent, heard, accepted, callback, ring, stats>>
      /\ cap' = cap \/ (cap /= "copy" /\ cap' = "test")
  <2>1. ASSUME create_capture_thread
        PROVE  /\ UNCHANGED <<packet, written, last, sent, heard, accepted, callback, ring, stats>>
               /\ cap' = cap \/ (cap /= "copy" /\ cap' = "test")
    <3>1. cap = "none"
      BY <2>1 DEF create_capture_thread, MainStages
    <3> QED BY <2>1, <3>1 DEF create_capture_thread, callback, ring
  <2> QED BY <2>1 DEF MainStep, capture, audio_ring_init, open_capture_socket, pw_main_loop_new,
            start_pipewire_stream, join_capture_thread, Release, do_quit
<1>2. MainType' /\ MainStages' /\ cap' \in {"none", "test", "poll", "copy", "gone"}
  BY <1>0, MainControl
<1>3. CaptureType' /\ CallbackType' /\ RingType' /\ StatsType'
  BY <1>0, <1>1, <1>2 DEF CaptureType, CallbackType, RingType, StatsType, callback, ring
<1>4. TypeOK'
  BY <1>2, <1>3 DEF TypeOK, MainType, CaptureType, CallbackType, RingType, StatsType
<1>5. EveryFrameCounted'
  BY <1>1 DEF EveryFrameCounted
<1>6. CaptureStages' /\ RingStages' /\ CallbackStages' /\ DeliveredExact' /\ LossAccounted'
  <2>1. sent' \in Nat /\ sent' >= sent
    BY <1>0, <1>1 DEF CaptureType
  <2>2. cap' = "copy" => cap = "copy" /\ UNCHANGED <<packet, written, sent>>
    BY <1>1
  <2> QED BY <1>0, <1>1, <2>1, <2>2, Quiet
<1> QED BY <1>2, <1>4, <1>5, <1>6

\* The capture thread's steps that accept no packet: what they count, and the rest.
LEMMA CaptureQuiet ==
  ASSUME Inductive, cap \in {"test", "poll"}, cap' \in {"test", "poll", "gone"},
         UNCHANGED <<main, packet, written, last, accepted, callback, ring>>,
         sent' \in Nat, sent' >= sent, heard' \in [device : Nat, repeats : Nat, foreign : Nat],
         StatsType', stats'.received = stats.received, stats'.lost = stats.lost, EveryFrameCounted'
  PROVE  Inductive'
<1> USE DEF Inductive
<1>0. MainType /\ CaptureType /\ CallbackType /\ RingType /\ StatsType
  BY TypeParts
<1>1. MainType' /\ MainStages'
  BY <1>0, CaptureControl DEF callback
<1>2. TypeOK'
  BY <1>0, <1>1 DEF TypeOK, MainType, CaptureType, CallbackType, RingType, StatsType, callback, ring
<1>3. CaptureStages' /\ RingStages' /\ CallbackStages' /\ DeliveredExact' /\ LossAccounted'
  BY <1>0, Quiet
<1> QED BY <1>1, <1>2, <1>3

LEMMA LoopStepInductive ==
  ASSUME Inductive, TestRunning \/ PollTimeout \/ PollOrRecvFails \/ RecvForeign
  PROVE  Inductive'
<1> USE DEF Inductive
<1>0. CaptureType /\ StatsType
  BY TypeParts
<1>1. CASE TestRunning \/ PollTimeout
  <2>1. /\ cap \in {"test", "poll"} /\ cap' \in {"test", "poll", "gone"}
        /\ UNCHANGED <<main, packet, written, last, accepted, callback, ring>>
        /\ UNCHANGED <<sent, heard, stats>>
    BY <1>1 DEF TestRunning, PollTimeout
  <2>2. EveryFrameCounted' /\ StatsType'
    BY <1>0, <2>1 DEF EveryFrameCounted, StatsType
  <2>3. sent' \in Nat /\ sent' >= sent /\ heard' \in [device : Nat, repeats : Nat, foreign : Nat]
    BY <1>0, <2>1 DEF CaptureType
  <2> QED BY <2>1, <2>2, <2>3, CaptureQuiet
<1>2. CASE PollOrRecvFails
  <2>1. /\ cap = "poll" /\ cap' = "test" /\ stats' = [stats EXCEPT !.errors = @ + 1]
        /\ UNCHANGED <<main, packet, written, last, accepted, callback, ring>>
        /\ UNCHANGED <<sent, heard>>
    BY <1>2 DEF PollOrRecvFails
  <2>2. EveryFrameCounted' /\ StatsType' /\ stats'.received = stats.received /\ stats'.lost = stats.lost
    BY <1>0, <2>1, StatFields DEF EveryFrameCounted, StatsType
  <2>3. sent' \in Nat /\ sent' >= sent /\ heard' \in [device : Nat, repeats : Nat, foreign : Nat]
    BY <1>0, <2>1 DEF CaptureType
  <2> QED BY <2>1, <2>2, <2>3, CaptureQuiet
<1>3. CASE RecvForeign
  <2>0. PICK f \in ForeignFrames : HandleFrame(f, 0)
    BY <1>3 DEF RecvForeign
  <2>1. /\ cap = "poll" /\ heard' = [heard EXCEPT !.foreign = @ + 1]
        /\ UNCHANGED <<main, last, accepted, callback, ring>> /\ UNCHANGED <<sent>>
    BY <1>3 DEF RecvForeign
  <2>2. /\ cap' = "test" /\ UNCHANGED <<packet, written>>
        /\ \/ stats' = [stats EXCEPT !.non_reac = @ + 1]
           \/ stats' = [stats EXCEPT !.malformed = @ + 1]
    BY <2>0, HandleForeign
  <2>3. heard.device \in Nat /\ heard.repeats \in Nat /\ heard.foreign \in Nat
    BY <1>0 DEF CaptureType
  <2>4. StatsType' /\ stats'.received = stats.received /\ stats'.lost = stats.lost
    BY <1>0, <2>2, StatFields DEF StatsType
  <2>5. EveryFrameCounted'
    <3>1. heard'.device = heard.device /\ heard'.foreign = heard.foreign + 1
      BY <1>0, <2>1, <2>3 DEF CaptureType
    <3>2. /\ stats'.received = stats.received /\ stats'.overruns = stats.overruns
          /\ stats'.malformed + stats'.non_reac = stats.malformed + stats.non_reac + 1
      BY <1>0, <2>2, StatFields DEF StatsType
    <3>3. /\ heard.device = stats.received + stats.overruns
          /\ heard.foreign = stats.malformed + stats.non_reac
      BY <1>0, <2>1, StatFields DEF EveryFrameCounted
    <3> QED BY <1>0, <2>2, <3>1, <3>2, <3>3, StatFields DEF EveryFrameCounted
  <2>6. sent' \in Nat /\ sent' >= sent /\ heard' \in [device : Nat, repeats : Nat, foreign : Nat]
    BY <1>0, <2>1, <2>3 DEF CaptureType
  <2> QED BY <2>1, <2>2, <2>4, <2>5, <2>6, CaptureQuiet
<1> QED BY <1>1, <1>2, <1>3

LEMMA RecvDeviceInductive ==
  ASSUME Inductive, RecvDevice
  PROVE  Inductive'
<1> USE DEF Inductive
<1>0. MainType /\ CaptureType /\ CallbackType /\ RingType /\ StatsType
  BY TypeParts
<1>1. PICK n \in 0 .. MaxPackets - 1 :
        /\ n >= sent \/ (n = sent - 1 /\ Faults < MaxFaults)
        /\ sent' = n + 1
        /\ heard' = [heard EXCEPT !.device = @ + 1, !.repeats = @ + (IF n < sent THEN 1 ELSE 0)]
        /\ HandleFrame(DevicePacket(n), n)
  BY DEF RecvDevice
<1>2. cap = "poll" /\ UNCHANGED <<main, last, accepted, callback, ring>>
  BY DEF RecvDevice
<1>3. n \in Nat /\ sent' \in Nat /\ sent' >= sent /\ sent' - 1 = n /\ sent' > 0
  <2>1. sent \in Nat /\ MaxPackets \in Nat
    BY <1>0, Constants DEF CaptureType
  <2>2. (n >= sent \/ n = sent - 1) /\ sent' = n + 1
    BY <1>1
  <2> QED BY <2>1, <2>2
<1>4. /\ heard' \in [device : Nat, repeats : Nat, foreign : Nat]
      /\ heard'.device = heard.device + 1 /\ heard'.foreign = heard.foreign
  <2>1. heard.device \in Nat /\ heard.repeats \in Nat /\ heard.foreign \in Nat
    BY <1>0 DEF CaptureType
  <2>2. heard.repeats + (IF n < sent THEN 1 ELSE 0) \in Nat /\ heard.device + 1 \in Nat
    BY <2>1
  <2> QED BY <1>0, <1>1, <2>1, <2>2, Zenon DEF CaptureType
<1>5. CASE stats' = [stats EXCEPT !.overruns = @ + 1] /\ cap' = "test" /\ UNCHANGED <<packet, written>>
  <2>1. StatsType' /\ stats'.received = stats.received /\ stats'.lost = stats.lost
    BY <1>0, <1>5, StatFields DEF StatsType
  <2>2. EveryFrameCounted'
    BY <1>0, <1>2, <1>4, <1>5, StatFields DEF EveryFrameCounted, StatsType
  <2> QED BY <1>2, <1>3, <1>4, <1>5, <2>1, <2>2, CaptureQuiet
<1>6. CASE /\ RoomFor(FramesPerPacket)
           /\ cap' = "copy" /\ written' = 0 /\ stats' = stats
           /\ packet' = [counter |-> (FirstCounter + n) % CounterMod, number |-> n,
                         interleaved |-> [i \in 0 .. Block - 1 |->
                                            DeviceSample(n, i \div Channels, i % Channels)]]
  <2>1. MainType' /\ MainStages'
    BY <1>0, <1>2, <1>6, CaptureControl DEF callback
  <2>2. TypeOK'
    <3>1. CaptureType'
      <4>1. cap' = "copy" /\ written' = 0 /\ last' = last /\ accepted' = accepted
        BY <1>2, <1>6
      <4>2. 0 \in 0 .. FramesPerPacket
        BY Constants
      <4> QED BY <1>0, <1>3, <1>4, <4>1, <4>2 DEF CaptureType
    <3>2. CallbackType' /\ RingType' /\ StatsType'
      BY <1>0, <1>2, <1>6 DEF CallbackType, RingType, StatsType, callback, ring
    <3> QED BY <2>1, <3>1, <3>2 DEF TypeOK, MainType, CaptureType, CallbackType, RingType, StatsType
  <2>3. EveryFrameCounted'
    BY <1>0, <1>2, <1>4, <1>6, StatFields DEF EveryFrameCounted
  <2>4. CaptureStages'
    <3>1. \A i \in 1 .. Len(accepted) : accepted[i] < sent'
      BY <1>0, <1>3, SMTT(30) DEF CaptureStages, CaptureType
    <3>2. sent' > 0 /\ write_pos + FramesPerPacket - read_pos <= Capacity
      <4>1. FramesPerPacket <= Capacity - (write_pos - read_pos)
        BY <1>6 DEF RoomFor
      <4>2. write_pos \in Nat /\ read_pos \in Nat /\ Capacity \in Nat /\ FramesPerPacket \in Nat
        BY <1>0, Constants DEF RingType
      <4>3. write_pos + FramesPerPacket - read_pos <= Capacity
        BY <4>1, <4>2
      <4> QED BY <1>3, <4>3
    <3> QED BY <1>2, <1>3, <1>6, <3>1, <3>2 DEF CaptureStages, ring
  <2>5. RingStages'
    BY <1>2, <1>6 DEF RingStages, RingSample, StreamSample, ring
  <2>6. CallbackStages' /\ DeliveredExact' /\ LossAccounted'
    BY <1>2, <1>6 DEF CallbackStages, DeliveredExact, LossAccounted, StreamSample, callback, ring
  <2> QED BY <2>1, <2>2, <2>3, <2>4, <2>5, <2>6
<1> QED BY <1>1, <1>3, <1>5, <1>6, HandleDevice

-----------------------------------------------------------------------------
(* The ring. *)

\* Frames less than a capacity apart do not share a place.
LEMMA PlacesDistinct ==
  ASSUME NEW p \in Nat, NEW q \in Nat, p < q, q < p + Capacity
  PROVE  p % Capacity /= q % Capacity
<1> DEFINE a == p \div Capacity
           b == q \div Capacity
<1>0. Capacity \in Nat \ {0}
  BY Constants
<1>1. /\ p % Capacity \in Int /\ a \in Int /\ p = Capacity * a + (p % Capacity)
      /\ q % Capacity \in Int /\ b \in Int /\ q = Capacity * b + (q % Capacity)
  BY <1>0, p \in Int, q \in Int, DivMod
<1> HIDE DEF a, b
<1> SUFFICES ASSUME p % Capacity = q % Capacity PROVE FALSE
  OBVIOUS
<1>2. q - p = Capacity * (b - a)
  <2>1. Capacity * (b - a) = Capacity * b - Capacity * a
    BY <1>0, <1>1
  <2> QED BY <1>0, <1>1, <2>1
<1>3. ASSUME b <= a PROVE FALSE
  <2>1. Capacity * (b - a) <= 0
    BY <1>0, <1>1, <1>3
  <2> QED BY <1>2, <2>1
<1>4. ASSUME b > a PROVE FALSE
  <2>1. Capacity * (b - a) >= Capacity
    BY <1>0, <1>1, <1>4
  <2> QED BY <1>0, <1>2, <2>1
<1> QED BY <1>1, <1>3, <1>4

\* The place of a frame in the ring, and of a frame in a packet or in a buffer.
LEMMA Place ==
  ASSUME NEW q \in Nat, NEW ch \in 0 .. Channels - 1
  PROVE  /\ (q % Capacity) * Channels + ch \in 0 .. Capacity * Channels - 1
         /\ ((q % Capacity) * Channels + ch) \div Channels = q % Capacity
         /\ ((q % Capacity) * Channels + ch) % Channels = ch
         /\ q % Capacity \in 0 .. Capacity - 1
<1>1. q % Capacity \in 0 .. Capacity - 1
  BY Constants, q \in Int, DivMod
<1>2. Channels \in Nat \ {0} /\ Capacity \in Nat /\ Channels * Capacity = Capacity * Channels
  BY Constants
<1> DEFINE row == q % Capacity
<1>r. row \in 0 .. Capacity - 1
  BY <1>1
<1> HIDE DEF row
<1>3. /\ row * Channels + ch \in 0 .. Channels * Capacity - 1
      /\ (row * Channels + ch) \div Channels = row /\ (row * Channels + ch) % Channels = ch
  BY <1>r, <1>2, RowColumn
<1> QED BY <1>1, <1>2, <1>3 DEF row

LEMMA PacketPlace ==
  ASSUME NEW w \in 0 .. FramesPerPacket - 1, NEW ch \in 0 .. Channels - 1
  PROVE  /\ w * Channels + ch \in 0 .. Block - 1
         /\ (w * Channels + ch) \div Channels = w /\ (w * Channels + ch) % Channels = ch
<1>1. Channels \in Nat \ {0} /\ FramesPerPacket \in Nat
  BY Constants
<1>2. Block = Channels * FramesPerPacket
  BY <1>1 DEF Block
<1>3. w * Channels + ch \in 0 .. Channels * FramesPerPacket - 1
      /\ (w * Channels + ch) \div Channels = w /\ (w * Channels + ch) % Channels = ch
  BY <1>1, RowColumn
<1> QED BY <1>2, <1>3

\* What WriteFrame does to the sample of a frame in a channel.
LEMMA FrameWritten ==
  ASSUME Inductive, WriteFrame, NEW q \in Nat, NEW ch \in 0 .. Channels - 1
  PROVE  samples'[(q % Capacity) * Channels + ch]
           = IF q % Capacity = (write_pos + written) % Capacity
               THEN DeviceSample(sent - 1, written, ch) ELSE samples[(q % Capacity) * Channels + ch]
<1> DEFINE i == (q % Capacity) * Channels + ch
           place == (write_pos + written) % Capacity
<1>1. i \in DOMAIN samples /\ i \div Channels = q % Capacity /\ i % Channels = ch
  BY Place DEF Inductive, TypeOK
<1>2. written \in 0 .. FramesPerPacket - 1
  BY Constants DEF Inductive, TypeOK, WriteFrame
<1>3. packet.interleaved[written * Channels + ch] = DeviceSample(sent - 1, written, ch)
  <2> DEFINE k == written * Channels + ch
  <2>1. k \in 0 .. Block - 1 /\ k \div Channels = written /\ k % Channels = ch
    BY <1>2, PacketPlace
  <2>2. packet.interleaved = [j \in 0 .. Block - 1 |-> DeviceSample(sent - 1, j \div Channels, j % Channels)]
    BY DEF Inductive, CaptureStages, WriteFrame
  <2> HIDE DEF k
  <2>3. packet.interleaved[k] = DeviceSample(sent - 1, k \div Channels, k % Channels)
    BY <2>1, <2>2, Zenon
  <2> QED BY <2>1, <2>3 DEF k
<1>4. samples' = [j \in DOMAIN samples |->
                    IF j \div Channels = place
                      THEN packet.interleaved[written * Channels + (j % Channels)]
                      ELSE samples[j]]
  BY DEF WriteFrame
<1> HIDE DEF i, place
<1>6. samples'[i] = IF i \div Channels = place
                      THEN packet.interleaved[written * Channels + (i % Channels)] ELSE samples[i]
  BY <1>1, <1>4, Zenon
<1> QED BY <1>1, <1>3, <1>6 DEF i, place

LEMMA WriteFrameInductive ==
  ASSUME Inductive, WriteFrame
  PROVE  Inductive'
<1> USE DEF Inductive
<1>0. MainType /\ CaptureType /\ CallbackType /\ RingType /\ StatsType
  BY TypeParts
<1>1. /\ cap = "copy" /\ written' = written + 1
      /\ UNCHANGED <<main, cap, packet, last, sent, heard, accepted, callback, read_pos,
                     write_pos, stats>>
  BY DEF WriteFrame
<1>2. /\ written \in 0 .. FramesPerPacket - 1 /\ FramesPerPacket \in Nat
      /\ written \in Nat /\ write_pos \in Nat /\ read_pos \in Nat /\ Capacity \in Nat
      /\ write_pos + FramesPerPacket - read_pos <= Capacity /\ sent \in Nat /\ sent > 0
      /\ read_pos <= write_pos
  BY <1>0, <1>1, Constants DEF CaptureType, RingType, CaptureStages, WriteFrame
<1>3. MainType' /\ MainStages'
  BY <1>0, <1>1, CaptureControl DEF callback
<1>4. CaptureType' /\ CallbackType' /\ StatsType'
  <2>1. written' \in 0 .. FramesPerPacket
    BY <1>1, <1>2
  <2> QED BY <1>0, <1>1, <2>1 DEF CaptureType, CallbackType, StatsType, callback
<1>5. RingType'
  <2>1. ASSUME NEW j \in 0 .. Capacity * Channels - 1
        PROVE  packet.interleaved[written * Channels + (j % Channels)] \in Sample
    <3>1. j % Channels \in 0 .. Channels - 1 /\ j % Channels \in Nat
      <4>1. Capacity * Channels \in Nat /\ Channels \in Nat \ {0}
        BY Constants
      <4> QED BY <4>1, j \in Int, DivMod
    <3> DEFINE ch == j % Channels
               k == written * Channels + ch
    <3> HIDE DEF ch
    <3>2. k \in 0 .. Block - 1 /\ k \div Channels = written /\ k % Channels = ch
      BY <1>2, <3>1, PacketPlace DEF ch
    <3>3. packet.interleaved = [i \in 0 .. Block - 1 |-> DeviceSample(sent - 1, i \div Channels, i % Channels)]
      BY <1>1 DEF CaptureStages
    <3> HIDE DEF k
    <3>4. packet.interleaved[k] = DeviceSample(sent - 1, written, ch)
      BY <3>2, <3>3
    <3>5. DeviceSample(sent - 1, written, ch) \in Sample
      BY <1>2, <3>1, sent - 1 \in Nat, DeviceSampleType DEF ch
    <3> QED BY <3>4, <3>5 DEF k, ch
  <2>2. samples \in [0 .. Capacity * Channels - 1 -> Sample]
    BY <1>0 DEF RingType, Sample
  <2>3. samples' = [j \in DOMAIN samples |->
                      IF j \div Channels = (write_pos + written) % Capacity
                        THEN packet.interleaved[written * Channels + (j % Channels)]
                        ELSE samples[j]]
    BY DEF WriteFrame
  <2>4. samples' \in [0 .. Capacity * Channels - 1 -> Sample]
    BY <2>1, <2>2, <2>3, Zenon
  <2> QED BY <1>0, <1>1, <2>4 DEF RingType, Sample
<1>6. TypeOK'
  BY <1>3, <1>4, <1>5 DEF TypeOK, MainType, CaptureType, CallbackType, RingType, StatsType
<1>7. EveryFrameCounted' /\ CallbackStages' /\ DeliveredExact' /\ LossAccounted' /\ CaptureStages'
  BY <1>1 DEF EveryFrameCounted, CallbackStages, DeliveredExact, LossAccounted, CaptureStages,
     StreamSample, callback
<1>8. RingStages'
  <2>1. ASSUME NEW q \in read_pos .. write_pos - 1, NEW ch \in 0 .. Channels - 1
        PROVE  RingSample(q, ch)' = StreamSample(q, ch)'
    <3>0. q \in Nat /\ q < write_pos + written /\ write_pos + written < q + Capacity
      BY <1>2
    <3>1. q % Capacity /= (write_pos + written) % Capacity
      BY <1>2, <3>0, write_pos + written \in Nat, PlacesDistinct
    <3>2. RingSample(q, ch)' = RingSample(q, ch)
      BY <3>0, <3>1, FrameWritten DEF RingSample
    <3>3. StreamSample(q, ch)' = StreamSample(q, ch)
      BY <1>1 DEF StreamSample
    <3>4. RingSample(q, ch) = StreamSample(q, ch)
      BY DEF RingStages
    <3> QED BY <3>2, <3>3, <3>4
  <2>2. ASSUME NEW w \in 0 .. written, NEW ch \in 0 .. Channels - 1
        PROVE  RingSample(write_pos + w, ch)' = DeviceSample(sent - 1, w, ch)
    <3>0. w \in Nat /\ write_pos + w \in Nat
      BY <1>2
    <3>w. RingSample(write_pos + w, ch)' =
            IF (write_pos + w) % Capacity = (write_pos + written) % Capacity
              THEN DeviceSample(sent - 1, written, ch) ELSE RingSample(write_pos + w, ch)
      <4>1. \A q \in Nat : samples'[(q % Capacity) * Channels + ch]
              = IF q % Capacity = (write_pos + written) % Capacity
                  THEN DeviceSample(sent - 1, written, ch) ELSE samples[(q % Capacity) * Channels + ch]
        BY FrameWritten
      <4> QED BY <1>1, <3>0, <4>1 DEF RingSample
    <3>1. CASE w = written
      BY <3>1, <3>w
    <3>2. CASE w /= written
      <4>1. w \in 0 .. written - 1 /\ write_pos + w < write_pos + written
            /\ write_pos + written < (write_pos + w) + Capacity
        BY <1>2, <3>2
      <4>2. (write_pos + w) % Capacity /= (write_pos + written) % Capacity
        <5>1. write_pos + written \in Nat
          BY <1>2
        <5> DEFINE p == write_pos + w
                   r == write_pos + written
        <5>2. p \in Nat /\ r \in Nat /\ p < r /\ r < p + Capacity
          BY <3>0, <4>1, <5>1
        <5> HIDE DEF p, r
        <5>3. p % Capacity /= r % Capacity
          BY <5>2, PlacesDistinct
        <5> QED BY <5>3 DEF p, r
      <4>3. RingSample(write_pos + w, ch) = DeviceSample(sent - 1, w, ch)
        BY <1>1, <4>1 DEF RingStages
      <4> QED BY <3>w, <4>2, <4>3
    <3> QED BY <3>1, <3>2
  <2>3. written' - 1 = written
    BY <1>1, <1>2
  <2>4. \A q \in read_pos' .. write_pos' - 1, ch \in 0 .. Channels - 1 :
          RingSample(q, ch)' = StreamSample(q, ch)'
    BY <1>1, <2>1
  <2>5. \A w \in 0 .. written' - 1, ch \in 0 .. Channels - 1 :
          samples'[((write_pos' + w) % Capacity) * Channels + ch] = DeviceSample(sent' - 1, w, ch)
    BY <1>1, <2>2, <2>3 DEF RingSample
  <2> QED BY <2>4, <2>5 DEF RingStages, RingSample
<1> QED BY <1>3, <1>6, <1>7, <1>8

\* The gap between two counters is the gap between the packets, modulo the counter's range.
LEMMA GapMod ==
  ASSUME NEW a \in Int, NEW b \in Int, NEW m \in Nat \ {0}
  PROVE  ((a % m) - ((b % m) + 1)) % m = (a - b - 1) % m
<1> DEFINE p == a \div m
           r == a % m
           s == b \div m
           t == b % m
<1>1. p \in Int /\ r \in Int /\ a = m * p + r /\ s \in Int /\ t \in Int /\ b = m * s + t
  BY DivMod
<1> HIDE DEF p, r, s, t
<1> DEFINE x == r - (t + 1)
           k == x \div m
           g == x % m
<1>2. x \in Int
  BY <1>1
<1> HIDE DEF x
<1>3. k \in Int /\ g \in 0 .. m - 1 /\ x = m * k + g
  BY <1>2, DivMod
<1> HIDE DEF k, g
<1>4. a - b - 1 = m * (p - s + k) + g
  <2>1. m * (p - s + k) = m * p - m * s + m * k
    BY <1>1, <1>3
  <2> QED BY <1>1, <1>3, <2>1 DEF x
<1> DEFINE q == p - s + k
           y == a - b - 1
<1>5. q \in Int /\ y \in Int /\ y = m * q + g
  BY <1>1, <1>3, <1>4
<1> HIDE DEF q, y
<1>6. y % m = g
  BY <1>3, <1>5, DivModUnique
<1> QED BY <1>6 DEF y, g, x, r, t

LEMMA HalfRange ==
  /\ CounterMod \in Nat /\ CounterMod \div 2 \in Nat
  /\ CounterMod \div 2 >= 1 /\ CounterMod - 1 >= CounterMod \div 2
<1>1. ByteMod \in Nat /\ ByteMod >= 2
  BY ReacDecodeAssumption
<1>2. ByteMod * ByteMod >= 2 * ByteMod /\ ByteMod * ByteMod \in Nat
  BY <1>1
<1>3. CounterMod \in Nat /\ CounterMod >= 4
  BY <1>1, <1>2 DEF CounterMod
<1> QED BY <1>3

\* What note_counter adds for a packet at the distance d from the last one accepted.
LEMMA LostByDistance ==
  ASSUME NEW p \in Nat, NEW x \in Nat, x >= p, x - p <= CounterMod \div 2,
         last = (FirstCounter + p) % CounterMod
  PROVE  LostBefore((FirstCounter + x) % CounterMod) = IF x = p THEN 1 ELSE x - p - 1
<1> DEFINE a == FirstCounter + x
           b == FirstCounter + p
           gap == ((a % CounterMod) - (last + 1)) % CounterMod
<1>0. CounterMod \in Nat \ {0} /\ FirstCounter \in Nat
  BY Constants
<1>1. a \in Int /\ b \in Int /\ a - b - 1 = x - p - 1 /\ last = b % CounterMod
  BY <1>0
<1>2. last /= NoCounter
  <2>1. b % CounterMod \in 0 .. CounterMod - 1
    BY <1>0, <1>1, DivMod
  <2> QED BY <1>1, <2>1 DEF NoCounter
<1> HIDE DEF a, b
<1>3. gap = (a - b - 1) % CounterMod
  BY <1>0, <1>1, GapMod
<1>4. gap = IF x = p THEN CounterMod - 1 ELSE x - p - 1
  <2>1. CASE x = p
    <3>1. a - b - 1 = CounterMod * (0 - 1) + (CounterMod - 1) /\ CounterMod - 1 \in 0 .. CounterMod - 1
      BY <1>0, <1>1, <2>1
    <3> DEFINE y == a - b - 1
    <3>2. y \in Int
      BY <1>1
    <3> HIDE DEF y
    <3>3. y % CounterMod = CounterMod - 1
      BY <1>0, <3>1, <3>2, 0 - 1 \in Int, DivModUnique DEF y
    <3> QED BY <1>3, <2>1, <3>3 DEF y
  <2>2. CASE x /= p
    <3>1. x - p - 1 = CounterMod * 0 + (x - p - 1) /\ x - p - 1 \in 0 .. CounterMod - 1
      BY <1>0, <2>2, HalfRange
    <3> DEFINE y == x - p - 1
    <3>2. y \in Int
      BY <1>1
    <3> HIDE DEF y
    <3>3. y % CounterMod = y
      BY <1>0, <3>1, <3>2, 0 \in Int, DivModUnique DEF y
    <3> QED BY <1>1, <1>3, <2>2, <3>3 DEF y
  <2> QED BY <2>1, <2>2
<1>5. LostBefore(a % CounterMod) = IF gap < CounterMod \div 2 THEN gap ELSE 1
  BY <1>2, Zenon DEF LostBefore
<1> HIDE DEF gap
<1>6. LostBefore(a % CounterMod) = IF x = p THEN 1 ELSE x - p - 1
  <2>1. CASE x = p
    BY <1>4, <1>5, <2>1, HalfRange
  <2>2. CASE x /= p
    BY <1>4, <1>5, <2>2, HalfRange
  <2> QED BY <2>1, <2>2
<1> QED BY <1>6 DEF a

\* A packet more among the accepted ones.
LEMMA Accepted ==
  ASSUME Inductive, PublishPacket
  PROVE  /\ packet.number = sent - 1 /\ sent - 1 \in Nat
         /\ packet.counter = (FirstCounter + (sent - 1)) % CounterMod
         /\ accepted' = Append(accepted, sent - 1) /\ accepted' \in Seq(Nat)
         /\ Len(accepted) \in Nat /\ Len(accepted') = Len(accepted) + 1
         /\ \A i \in 1 .. Len(accepted) : accepted'[i] = accepted[i] /\ accepted[i] \in Nat
         /\ accepted'[Len(accepted) + 1] = sent - 1
<1>1. /\ cap = "copy" /\ accepted \in Seq(Nat) /\ sent \in Nat /\ sent > 0
      /\ packet = [counter |-> (FirstCounter + (sent - 1)) % CounterMod, number |-> sent - 1,
                   interleaved |-> [i \in 0 .. Block - 1 |->
                                      DeviceSample(sent - 1, i \div Channels, i % Channels)]]
      /\ accepted' = Append(accepted, packet.number)
  BY DEF Inductive, TypeOK, CaptureStages, PublishPacket
<1>2. /\ packet.number = sent - 1 /\ packet.counter = (FirstCounter + (sent - 1)) % CounterMod
      /\ sent - 1 \in Nat
  BY <1>1
<1> QED BY <1>1, <1>2

\* Frames before the write position are those of the packets accepted before.
LEMMA StreamKept ==
  ASSUME Inductive, PublishPacket, NEW q \in 0 .. write_pos - 1, NEW ch
  PROVE  StreamSample(q, ch)' = StreamSample(q, ch)
<1>1. write_pos = FramesPerPacket * Len(accepted) /\ Len(accepted) \in Nat
  BY Accepted DEF Inductive, CaptureStages
<1>2. q \div FramesPerPacket \in 0 .. Len(accepted) - 1
  BY <1>1, Constants, DivRange
<1>3. q \div FramesPerPacket + 1 \in 1 .. Len(accepted)
  BY <1>1, <1>2
<1> QED BY <1>3, Accepted DEF StreamSample

LEMMA PublishLoss ==
  ASSUME Inductive, PublishPacket
  PROVE  LossAccounted'
<1> DEFINE n == Len(accepted)
           x == sent - 1
           repeats == {i \in 2 .. n : accepted[i] = accepted[i - 1]}
           more == {i \in 2 .. n + 1 : accepted'[i] = accepted'[i - 1]}
<1>0. StatsType
  BY TypeParts DEF Inductive
<1>1. /\ n \in Nat /\ x \in Nat /\ Len(accepted') = n + 1 /\ accepted'[n + 1] = x
      /\ \A i \in 1 .. n : accepted'[i] = accepted[i] /\ accepted[i] \in Nat
  BY Accepted
<1>2. /\ stats'.received = stats.received + 1
      /\ stats'.lost = stats.lost + LostBefore(packet.counter)
      /\ stats.received \in Nat /\ stats.lost \in Nat /\ stats.received = n
  <2>1. stats' = [stats EXCEPT !.received = @ + 1, !.lost = @ + LostBefore(packet.counter)]
    BY DEF PublishPacket
  <2> QED BY <1>0, <2>1, StatFields, Zenon DEF StatsType, Inductive, CaptureStages
<1>3. packet.counter = (FirstCounter + x) % CounterMod
  BY Accepted
<1>4. /\ \A i \in 1 .. n : accepted[i] <= x
      /\ last = IF accepted = << >> THEN NoCounter ELSE (FirstCounter + accepted[n]) % CounterMod
      /\ accepted = << >> => stats.lost = 0
  <2>1. \A i \in 1 .. n : accepted[i] < sent
    BY DEF Inductive, CaptureStages
  <2>2. sent \in Nat
    BY DEF Inductive, TypeOK
  <2> QED BY <1>1, <2>1, <2>2 DEF Inductive, CaptureStages
<1>5. SUFFICES ASSUME \A i \in 2 .. n + 1 : accepted'[i] - accepted'[i - 1] <= CounterMod \div 2
               PROVE  stats'.received + stats'.lost =
                        accepted'[n + 1] - accepted'[1] + 1 + 2 * Cardinality(more)
  BY <1>1 DEF LossAccounted
<1>6. CASE n = 0
  <2>1. accepted = << >>
    BY <1>6 DEF Inductive, TypeOK
  <2>2. more = {}
    BY <1>6
  <2>3. Cardinality(more) = 0
    BY <2>2, FS_EmptySet
  <2>4. LostBefore(packet.counter) = 0
    BY <1>4, <2>1 DEF LostBefore
  <2> HIDE DEF more, n, x
  <2>5. accepted'[1] = accepted'[n + 1]
    BY <1>6
  <2>6. stats.lost = 0
    BY <1>4, <2>1
  <2> QED BY <1>1, <1>2, <1>6, <2>3, <2>4, <2>5, <2>6
<1>7. CASE n > 0
  <2> DEFINE p == accepted[n]
  <2>0. accepted # << >> /\ accepted'[1] = accepted[1] /\ accepted'[n] = p /\ p \in Nat /\ accepted[1] \in Nat
    BY <1>1, <1>7
  <2>1. stats.received + stats.lost = p - accepted[1] + 1 + 2 * Cardinality(repeats)
    <3>1. ASSUME NEW i \in 2 .. n PROVE accepted[i] - accepted[i - 1] <= CounterMod \div 2
      <4>1. i \in 2 .. n + 1 /\ i \in 1 .. n /\ i - 1 \in 1 .. n
        BY <1>1
      <4> QED BY <1>1, <1>5, <4>1
    <3> QED BY <1>7, <3>1 DEF Inductive, LossAccounted
  <2>2. x >= p /\ x - p <= CounterMod \div 2
    <3>1. n + 1 \in 2 .. n + 1 /\ (n + 1) - 1 = n /\ n \in 1 .. n
      BY <1>1, <1>7
    <3>2. accepted'[n + 1] - accepted'[(n + 1) - 1] <= CounterMod \div 2
      BY <1>5, <3>1
    <3>3. p <= x
      BY <1>4, <3>1
    <3> QED BY <1>1, <2>0, <3>1, <3>2, <3>3
  <2>3. LostBefore(packet.counter) = IF x = p THEN 1 ELSE x - p - 1
    <3>1. last = (FirstCounter + p) % CounterMod
      BY <1>4, <2>0
    <3> HIDE DEF x, p
    <3> QED BY <1>1, <1>3, <2>0, <2>2, <3>1, LostByDistance
  <2>4. IsFiniteSet(repeats) /\ n + 1 \notin repeats /\ Cardinality(repeats) \in Nat
    <3>1. IsFiniteSet(2 .. n)
      BY <1>1, n \in Int, 2 \in Int, FS_Interval
    <3>2. IsFiniteSet(repeats)
      BY <3>1, repeats \subseteq 2 .. n, FS_Subset
    <3> QED BY <1>1, <3>2, FS_CardinalityType
  <2>5. Cardinality(more) = IF x = p THEN Cardinality(repeats) + 1 ELSE Cardinality(repeats)
    <3>1. ASSUME NEW i \in 2 .. n PROVE (accepted'[i] = accepted'[i - 1]) <=> (accepted[i] = accepted[i - 1])
      <4>1. i \in 1 .. n /\ i - 1 \in 1 .. n
        BY <1>1
      <4> QED BY <1>1, <4>1
    <3>2. accepted'[n + 1] = accepted'[(n + 1) - 1] <=> x = p
      <4>1. (n + 1) - 1 = n
        BY <1>1
      <4> QED BY <1>1, <2>0, <4>1
    <3>3. 2 .. n + 1 = (2 .. n) \cup {n + 1}
      BY <1>1, <1>7
    <3> HIDE DEF n, x, p
    <3>4. more = IF x = p THEN repeats \cup {n + 1} ELSE repeats
      BY <3>1, <3>2, <3>3
    <3> HIDE DEF more, repeats
    <3> QED BY <2>4, <3>4, FS_AddElement
  <2> HIDE DEF n, x, p, repeats, more
  <2> DEFINE first == accepted[1]
             r == stats.received
             l == stats.lost
             c == Cardinality(repeats)
  <2>6. /\ accepted'[n + 1] = x /\ x \in Nat /\ p \in Nat /\ accepted'[1] = first /\ first \in Nat
        /\ r \in Nat /\ l \in Nat /\ c \in Nat /\ stats'.received = r + 1
        /\ r + l = p - first + 1 + 2 * c
    BY <1>1, <1>2, <2>0, <2>1, <2>4
  <2>7. CASE x = p
    <3>1. stats'.lost = l + 1 /\ Cardinality(more) = c + 1
      BY <1>2, <2>3, <2>5, <2>7
    <3> HIDE DEF first, r, l, c
    <3> QED BY <2>6, <2>7, <3>1
  <2>8. CASE x /= p
    <3>1. stats'.lost = l + (x - p - 1) /\ Cardinality(more) = c
      BY <1>2, <2>3, <2>5, <2>8
    <3> HIDE DEF first, r, l, c
    <3> QED BY <2>6, <3>1
  <2> QED BY <2>7, <2>8
<1> QED BY <1>1, <1>6, <1>7

\* Every frame the callback has copied so far is one of those before the write position.
LEMMA CopiedFrames ==
  ASSUME Inductive, NEW i \in DOMAIN out, i \div Channels < read_frames
  PROVE  (IF cb = "idle" THEN read_pos - to_read ELSE read_pos) + i \div Channels \in 0 .. write_pos - 1
<1>1. i \in Int /\ i >= 0 /\ Channels \in Nat \ {0}
  BY Constants DEF Inductive, TypeOK
<1>2. i \div Channels \in Nat
  <2> DEFINE r == i \div Channels
  <2>1. r \in Int /\ i % Channels \in 0 .. Channels - 1 /\ i = Channels * r + (i % Channels)
    BY <1>1, DivMod
  <2> HIDE DEF r
  <2>2. ASSUME r < 0 PROVE FALSE
    <3>1. Channels * r <= 0 - Channels
      BY <1>1, <2>1, <2>2
    <3> QED BY <1>1, <2>1, <3>1
  <2>3. r \in Nat
    BY <2>1, <2>2
  <2> QED BY <2>3 DEF r
<1>3. /\ read_pos \in Nat /\ write_pos \in Nat /\ to_read \in Nat /\ read_frames \in 0 .. to_read
      /\ write_pos - read_pos >= 0 /\ cb \in {"idle", "copy"}
      /\ cb = "copy" => to_read <= write_pos - read_pos
      /\ cb = "idle" => read_frames = to_read /\ to_read <= read_pos
  BY Constants DEF Inductive, TypeOK, CallbackStages
<1> QED BY <1>2, <1>3

LEMMA PublishPacketInductive ==
  ASSUME Inductive, PublishPacket
  PROVE  Inductive'
<1> USE DEF Inductive
<1>0. MainType /\ CaptureType /\ CallbackType /\ RingType /\ StatsType
  BY TypeParts
<1>1. /\ cap = "copy" /\ written = FramesPerPacket /\ write_pos' = write_pos + FramesPerPacket
      /\ stats' = [stats EXCEPT !.received = @ + 1, !.lost = @ + LostBefore(packet.counter)]
      /\ last' = packet.counter /\ cap' = "test" /\ packet' = NoPacket /\ written' = 0
      /\ UNCHANGED <<main, sent, heard, callback, samples, read_pos>>
  BY DEF PublishPacket
<1>2. /\ write_pos \in Nat /\ read_pos \in Nat /\ Capacity \in Nat /\ FramesPerPacket \in Nat \ {0}
      /\ write_pos + FramesPerPacket - read_pos <= Capacity /\ sent \in Nat /\ sent > 0
      /\ read_pos <= write_pos /\ write_pos = FramesPerPacket * Len(accepted)
      /\ Len(accepted) \in Nat
  <2>1. /\ write_pos \in Nat /\ read_pos \in Nat /\ write_pos - read_pos \in 0 .. Capacity
        /\ Capacity \in Nat /\ FramesPerPacket \in Nat \ {0} /\ sent \in Nat
    BY <1>0, Constants DEF RingType, CaptureType
  <2>2. /\ write_pos + FramesPerPacket - read_pos <= Capacity /\ sent > 0
        /\ write_pos = FramesPerPacket * Len(accepted)
    BY <1>1 DEF CaptureStages
  <2>3. read_pos <= write_pos
    BY <2>1
  <2> QED BY <2>1, <2>2, <2>3, Accepted
<1>3. MainType' /\ MainStages'
  BY <1>0, <1>1, CaptureControl DEF callback
<1>4. packet.counter \in 0 .. CounterMod - 1
  <2>1. FirstCounter + (sent - 1) \in Int /\ CounterMod \in Nat \ {0}
    BY <1>2, Constants
  <2> QED BY <2>1, Accepted, DivMod
<1>5. LostBefore(packet.counter) \in Nat
  <2> DEFINE gap == (packet.counter - (last + 1)) % CounterMod
  <2>1. CounterMod \in Nat \ {0} /\ packet.counter - (last + 1) \in Int
    BY <1>0, <1>4, Constants DEF CaptureType, NoCounter
  <2>2. gap \in Nat
    BY <2>1, DivMod
  <2>3. LostBefore(packet.counter) = IF last = NoCounter THEN 0 ELSE IF gap < CounterMod \div 2 THEN gap ELSE 1
    BY Zenon DEF LostBefore
  <2> HIDE DEF gap
  <2> QED BY <2>2, <2>3
<1>6. /\ StatsType' /\ stats'.received = stats.received + 1 /\ stats'.overruns = stats.overruns
      /\ stats'.malformed = stats.malformed /\ stats'.non_reac = stats.non_reac
  <2>1. stats.received + 1 \in Nat /\ stats.lost + LostBefore(packet.counter) \in Nat
    BY <1>0, <1>5, StatFields
  <2> QED BY <1>0, <1>1, <2>1, Zenon DEF StatsType
<1>7. TypeOK'
  <2>1. CaptureType'
    <3>1. 0 \in 0 .. FramesPerPacket
      BY <1>2
    <3>2. last' \in 0 .. CounterMod - 1 /\ accepted' \in Seq(Nat)
      BY <1>1, <1>4, Accepted
    <3> QED BY <1>0, <1>1, <3>1, <3>2 DEF CaptureType
  <2>2. RingType'
    BY <1>0, <1>1, <1>2, SMTT(30) DEF RingType
  <2>3. CallbackType'
    BY <1>0, <1>1 DEF CallbackType, callback
  <2> QED BY <1>3, <1>6, <2>1, <2>2, <2>3
          DEF TypeOK, MainType, CaptureType, CallbackType, RingType, StatsType
<1>8. EveryFrameCounted'
  BY <1>0, <1>1, <1>6, StatFields DEF EveryFrameCounted
<1>9. CaptureStages'
  <2>1. \A i \in 1 .. Len(accepted') : accepted'[i] < sent'
    <3>1. ASSUME NEW i \in 1 .. Len(accepted') PROVE accepted'[i] < sent'
      <4>1. i \in 1 .. Len(accepted) \/ i = Len(accepted) + 1
        BY <1>2, Accepted
      <4>2. CASE i \in 1 .. Len(accepted)
        BY <1>1, <4>2, Accepted DEF CaptureStages
      <4>3. CASE i = Len(accepted) + 1
        <5>1. sent - 1 < sent
          BY <1>2
        <5> QED BY <1>1, <4>3, <5>1, Accepted
      <4> QED BY <4>1, <4>2, <4>3
    <3> QED BY <3>1
  <2>2. \A i \in 2 .. Len(accepted') : accepted'[i - 1] <= accepted'[i]
    <3>1. ASSUME NEW i \in 2 .. Len(accepted') PROVE accepted'[i - 1] <= accepted'[i]
      <4>1. CASE i \in 2 .. Len(accepted)
        <5>1. i \in 1 .. Len(accepted) /\ i - 1 \in 1 .. Len(accepted)
          BY <1>2, <4>1
        <5> QED BY <4>1, <5>1, Accepted DEF CaptureStages
      <4>2. CASE i = Len(accepted) + 1
        <5>1. i - 1 = Len(accepted) /\ i - 1 \in 1 .. Len(accepted)
          BY <1>2, <4>2
        <5>2. accepted[i - 1] < sent /\ accepted[i - 1] \in Nat
          BY <5>1, Accepted DEF CaptureStages
        <5> QED BY <1>2, <4>2, <5>1, <5>2, Accepted, SMTT(30)
      <4> QED BY <1>2, <4>1, <4>2, Accepted
    <3> QED BY <3>1
  <2>3. write_pos' = FramesPerPacket * Len(accepted')
    <3>1. FramesPerPacket * (Len(accepted) + 1) = FramesPerPacket * Len(accepted) + FramesPerPacket
      BY <1>2
    <3> QED BY <1>1, <1>2, <3>1, Accepted
  <2>4. stats'.received = Len(accepted')
    BY <1>6, Accepted DEF CaptureStages
  <2>5. accepted' # << >> /\ last' = (FirstCounter + accepted'[Len(accepted')]) % CounterMod
    BY <1>1, <1>2, Accepted, SMTT(30)
  <2> QED BY <1>1, <2>1, <2>2, <2>3, <2>4, <2>5 DEF CaptureStages
<1>10. RingStages'
  <2>1. ASSUME NEW q \in read_pos .. write_pos' - 1, NEW ch \in 0 .. Channels - 1
        PROVE  RingSample(q, ch)' = StreamSample(q, ch)'
    <3>1. CASE q < write_pos
      <4>1. q \in 0 .. write_pos - 1 /\ q \in read_pos .. write_pos - 1
        BY <1>1, <1>2, <3>1
      <4>2. StreamSample(q, ch)' = StreamSample(q, ch)
        BY <4>1, StreamKept
      <4> QED BY <1>1, <4>1, <4>2 DEF RingStages, RingSample
    <3>2. CASE q >= write_pos
      <4> DEFINE w == q - write_pos
                 n == Len(accepted)
      <4>1. w \in 0 .. FramesPerPacket - 1 /\ write_pos + w = q /\ q \in Int /\ n \in Int
            /\ q = FramesPerPacket * n + w
        <5> DEFINE P == FramesPerPacket * n
        <5>1. P = write_pos /\ n \in Int
          BY <1>2
        <5> HIDE DEF P, n
        <5>2. w \in 0 .. FramesPerPacket - 1 /\ write_pos + w = q /\ q \in Int /\ q = P + w
          <6>1. /\ write_pos \in Nat /\ read_pos \in Nat /\ FramesPerPacket \in Nat
                /\ write_pos' = write_pos + FramesPerPacket
            BY <1>1, <1>2
          <6>2. q \in Int /\ q <= write_pos + FramesPerPacket - 1
            BY <6>1
          <6> QED BY <3>2, <5>1, <6>1, <6>2
        <5> QED BY <5>1, <5>2 DEF P
      <4>2. RingSample(q, ch) = DeviceSample(sent - 1, w, ch)
        <5>1. RingSample(write_pos + w, ch) = DeviceSample(sent - 1, w, ch)
          BY <1>1, <4>1 DEF RingStages
        <5> QED BY <4>1, <5>1
      <4> HIDE DEF w, n
      <4>3. q % FramesPerPacket = w /\ q \div FramesPerPacket = n
        BY <1>2, <4>1, DivModUnique, ZenonT(40)
      <4>4. accepted'[n + 1] = sent - 1
        BY Accepted DEF n
      <4>5. StreamSample(q, ch)' = DeviceSample(sent - 1, w, ch)
        BY <4>3, <4>4 DEF StreamSample
      <4>6. RingSample(q, ch)' = RingSample(q, ch)
        BY <1>1 DEF RingSample
      <4> QED BY <4>2, <4>5, <4>6
    <3> QED BY <1>1, <1>2, <3>1, <3>2
  <2> QED BY <1>1, <2>1 DEF RingStages
<1>11. CallbackStages'
  BY <1>0, <1>1, <1>2 DEF CallbackStages, callback, CallbackType
<1>12. DeliveredExact'
  <2> DEFINE first == IF cb = "idle" THEN read_pos - to_read ELSE read_pos
  <2>1. ASSUME NEW i \in DOMAIN out, i \div Channels < read_frames
        PROVE  out[i] = StreamSample(first + i \div Channels, i % Channels)'
    <3>1. first + i \div Channels \in 0 .. write_pos - 1
      BY <2>1, CopiedFrames
    <3>2. out[i] = StreamSample(first + i \div Channels, i % Channels)
      BY <2>1 DEF DeliveredExact
    <3>3. \A q \in 0 .. write_pos - 1, ch \in {i % Channels} : 
            DeviceSample(accepted'[q \div FramesPerPacket + 1], q % FramesPerPacket, ch) = StreamSample(q, ch)
      BY StreamKept DEF StreamSample
    <3> QED BY <1>1, <3>1, <3>2, <3>3 DEF StreamSample, callback
  <2> QED BY <1>1, <2>1 DEF DeliveredExact, callback
<1>13. LossAccounted'
  BY PublishLoss
<1> QED BY <1>3, <1>7, <1>8, <1>9, <1>10, <1>11, <1>12, <1>13

-----------------------------------------------------------------------------
(* The process callback. *)

LEMMA Shrinks ==
  ASSUME NEW r \in Nat, NEW s \in Nat, NEW w \in Nat, NEW c \in Nat, NEW f \in Nat,
         r <= s, s <= w, w - r <= c
  PROVE  w - s \in 0 .. c /\ (w + f - r <= c => w + f - s <= c)
OBVIOUS

\* The callback only moves the read position, within the frames there are.
LEMMA CallbackKeeps ==
  ASSUME Inductive, UNCHANGED <<main, capture, samples, write_pos>>,
         read_pos' \in Nat, read_pos <= read_pos', read_pos' <= write_pos,
         CallbackType', StatsType', cb' = "copy" => connected,
         stats'.received = stats.received, stats'.lost = stats.lost,
         stats'.overruns = stats.overruns, stats'.malformed = stats.malformed,
         stats'.non_reac = stats.non_reac
  PROVE  /\ TypeOK' /\ MainStages' /\ EveryFrameCounted' /\ CaptureStages' /\ RingStages'
         /\ LossAccounted'
<1> USE DEF Inductive, capture
<1>0. MainType /\ CaptureType /\ CallbackType /\ RingType /\ StatsType
  BY TypeParts
<1>p. read_pos' \in Nat /\ read_pos <= read_pos' /\ read_pos' <= write_pos
  OBVIOUS
<1>q. /\ read_pos \in Nat /\ write_pos \in Nat /\ Capacity \in Nat /\ FramesPerPacket \in Nat
      /\ write_pos - read_pos <= Capacity
  BY <1>0, Constants DEF RingType
<1>1. MainType' /\ MainStages'
  BY <1>0, CallbackControl
<1>2. RingType' /\ CaptureType'
  <2>2. write_pos - read_pos' \in 0 .. Capacity
    BY <1>p, <1>q, Shrinks
  <2> QED BY <1>0, <2>2 DEF RingType, CaptureType
<1>3. TypeOK'
  BY <1>1, <1>2 DEF TypeOK, MainType, CaptureType, CallbackType, RingType, StatsType
<1>4. EveryFrameCounted' /\ LossAccounted'
  BY DEF EveryFrameCounted, LossAccounted
<1>5. CaptureStages'
  <2>1. cap = "copy" => write_pos + FramesPerPacket - read_pos' <= Capacity
    <3>2. cap = "copy" => write_pos + FramesPerPacket - read_pos <= Capacity
      BY DEF CaptureStages
    <3>3. ASSUME write_pos + FramesPerPacket - read_pos <= Capacity
          PROVE  write_pos + FramesPerPacket - read_pos' <= Capacity
      BY <1>p, <1>q, <3>3, Shrinks
    <3> QED BY <3>2, <3>3
  <2> QED BY <2>1 DEF CaptureStages
<1>6. RingStages'
  <2>1. \A q \in read_pos' .. write_pos - 1, ch \in 0 .. Channels - 1 :
          RingSample(q, ch) = StreamSample(q, ch)
    BY <1>0 DEF RingStages, RingType
  <2> QED BY <2>1 DEF RingStages, RingSample, StreamSample
<1> QED BY <1>1, <1>3, <1>4, <1>5, <1>6

\* The frame and the channel of a position in the buffer.
LEMMA BufferPlace ==
  ASSUME Inductive, NEW i \in DOMAIN out
  PROVE  /\ i \in Nat /\ i \div Channels \in Nat /\ i % Channels \in 0 .. Channels - 1
         /\ \A n \in Nat : i \div Channels < n <=> i < n * Channels
<1> DEFINE r == i \div Channels
           c == i % Channels
<1>1. i \in Nat /\ Channels \in Nat \ {0}
  BY Constants DEF Inductive, TypeOK
<1>2. r \in Int /\ c \in 0 .. Channels - 1 /\ i = Channels * r + c
  BY <1>1, i \in Int, DivMod
<1> HIDE DEF r, c
<1>3. r \in Nat
  <2>1. ASSUME r < 0 PROVE FALSE
    <3>1. Channels * r <= 0 - Channels
      BY <1>1, <1>2, <2>1
    <3> QED BY <1>1, <1>2, <3>1
  <2> QED BY <1>2, <2>1
<1>4. ASSUME NEW n \in Nat PROVE r < n <=> i < n * Channels
  <2>1. ASSUME r < n PROVE i < n * Channels
    <3>1. Channels * (n - r) >= Channels /\ Channels * (n - r) = n * Channels - Channels * r
      BY <1>1, <1>3, <2>1
    <3>2. n * Channels \in Nat /\ Channels * r \in Nat
      BY <1>1, <1>3
    <3> QED BY <1>1, <1>2, <3>1, <3>2
  <2>2. ASSUME r >= n PROVE ~ (i < n * Channels)
    <3>1. Channels * (r - n) >= 0 /\ Channels * (r - n) = Channels * r - n * Channels
      BY <1>1, <1>3, <2>2
    <3>2. n * Channels \in Nat /\ Channels * r \in Nat
      BY <1>1, <1>3
    <3> QED BY <1>1, <1>2, <3>1, <3>2
  <2> QED BY <1>3, <2>1, <2>2
<1> QED BY <1>1, <1>2, <1>3, <1>4 DEF r, c

LEMMA ProcessBeginInductive ==
  ASSUME Inductive, NEW frames \in Requested, ProcessBegin(frames)
  PROVE  Inductive'
<1> USE DEF Inductive
<1> DEFINE available == write_pos - read_pos
<1>0. CallbackType /\ RingType /\ StatsType /\ frames \in Nat \ {0} /\ Channels \in Nat \ {0}
  BY TypeParts, Constants, PwSourceAssumption
<1>1. /\ connected /\ cb' = "copy" /\ read_frames' = 0
      /\ to_read' = IF available < frames THEN available ELSE frames
      /\ out' = [i \in 0 .. frames * Channels - 1 |-> Stale]
      /\ UNCHANGED <<main, capture, ring, stats>>
  BY DEF ProcessBegin
<1>2. available \in Nat /\ read_pos <= write_pos /\ read_pos \in Nat /\ write_pos \in Nat
  BY <1>0, Constants DEF RingType
<1>3. to_read' \in Nat /\ to_read' <= available
  BY <1>0, <1>1, <1>2
<1>4. CallbackType'
  <2>1. DOMAIN out' = 0 .. frames * Channels - 1
    BY <1>1
  <2>2. frames * Channels \in Nat
    BY <1>0
  <2>3. DOMAIN out' \subseteq Nat /\ 0 \in 0 .. to_read'
    BY <1>3, <2>1, <2>2
  <2> QED BY <1>1, <1>3, <2>3 DEF CallbackType
<1>5. /\ TypeOK' /\ MainStages' /\ EveryFrameCounted' /\ CaptureStages' /\ RingStages'
      /\ LossAccounted'
  BY <1>0, <1>1, <1>2, <1>4, CallbackKeeps DEF ring, StatsType
<1>6. CallbackStages'
  BY <1>1, <1>3 DEF CallbackStages, ring
<1>7. DeliveredExact'
  <2>1. ASSUME NEW i \in DOMAIN out' PROVE ~ (i \div Channels < 0)
    <3>1. i \in 0 .. Channels * frames - 1
      BY <1>0, <1>1
    <3>2. i \div Channels \in 0 .. frames - 1
      BY <1>0, <3>1, frames \in Nat, DivRange
    <3> QED BY <1>0, <3>2
  <2> QED BY <1>1, <2>1 DEF DeliveredExact
<1> QED BY <1>5, <1>6, <1>7

LEMMA ReadFrameInductive ==
  ASSUME Inductive, ReadFrame
  PROVE  Inductive'
<1> USE DEF Inductive
<1> DEFINE index == (read_pos + read_frames) % Capacity
<1>0. CallbackType /\ RingType /\ StatsType
  BY TypeParts
<1>1. /\ cb = "copy" /\ read_frames < to_read /\ read_frames' = read_frames + 1
      /\ out' = [i \in DOMAIN out |->
                   IF i \div Channels = read_frames
                     THEN samples[index * Channels + (i % Channels)] ELSE out[i]]
      /\ UNCHANGED <<main, capture, ring, stats, cb, to_read>>
  BY DEF ReadFrame
<1>2. /\ read_frames \in Nat /\ to_read \in Nat /\ read_pos \in Nat /\ write_pos \in Nat
      /\ read_pos <= write_pos /\ read_pos + to_read <= write_pos /\ connected
      /\ read_pos + read_frames \in read_pos .. write_pos - 1
  <2>1. /\ read_frames \in Nat /\ to_read \in Nat /\ read_pos \in Nat /\ write_pos \in Nat
        /\ write_pos - read_pos \in 0 .. Capacity /\ Capacity \in Nat
    BY <1>0, Constants DEF CallbackType, RingType
  <2>2. to_read <= write_pos - read_pos /\ connected
    BY <1>1 DEF CallbackStages, MainStages
  <2> QED BY <1>1, <2>1, <2>2
<1>3. CallbackType'
  <2>1. DOMAIN out' = DOMAIN out
    BY <1>1
  <2>2. read_frames' \in 0 .. to_read'
    BY <1>1, <1>2
  <2> QED BY <1>0, <1>1, <2>1, <2>2 DEF CallbackType
<1>4. /\ TypeOK' /\ MainStages' /\ EveryFrameCounted' /\ CaptureStages' /\ RingStages'
      /\ LossAccounted'
  BY <1>0, <1>1, <1>2, <1>3, CallbackKeeps DEF ring, StatsType
<1>5. CallbackStages'
  BY <1>1 DEF CallbackStages, ring
<1>6. DeliveredExact'
  <2>1. ASSUME NEW i \in DOMAIN out, i \div Channels < read_frames + 1
        PROVE  out'[i] = StreamSample(read_pos + i \div Channels, i % Channels)
    <3>0. i \div Channels \in Nat /\ i % Channels \in 0 .. Channels - 1
      BY BufferPlace
    <3>1. CASE i \div Channels = read_frames
      <4>1. out'[i] = samples[index * Channels + (i % Channels)]
        BY <1>1, <3>1
      <4>2. RingSample(read_pos + read_frames, i % Channels) = StreamSample(read_pos + read_frames, i % Channels)
        BY <1>2, <3>0 DEF RingStages
      <4> QED BY <3>1, <4>1, <4>2 DEF RingSample
    <3>2. CASE i \div Channels < read_frames
      <4>1. out'[i] = out[i]
        BY <1>1, <1>2, <3>0, <3>2
      <4>2. out[i] = StreamSample(read_pos + i \div Channels, i % Channels)
        BY <1>1, <3>2 DEF DeliveredExact
      <4> QED BY <4>1, <4>2
    <3> QED BY <1>2, <2>1, <3>0, <3>1, <3>2
  <2>2. DOMAIN out' = DOMAIN out
    BY <1>1
  <2> QED BY <1>1, <2>1, <2>2 DEF DeliveredExact, StreamSample, capture, ring
<1> QED BY <1>4, <1>5, <1>6

LEMMA ProcessEndInductive ==
  ASSUME Inductive, ProcessEnd
  PROVE  Inductive'
<1> USE DEF Inductive
<1>0. CallbackType /\ RingType /\ StatsType
  BY TypeParts
<1>1. /\ cb = "copy" /\ read_frames = to_read /\ cb' = "idle" /\ read_pos' = read_pos + to_read
      /\ out' = [i \in DOMAIN out |-> IF i >= to_read * Channels THEN 0 ELSE out[i]]
      /\ stats' = stats \/ stats' = [stats EXCEPT !.underruns = @ + 1]
      /\ UNCHANGED <<main, capture, samples, write_pos, to_read, read_frames>>
  BY DEF ProcessEnd
<1>2. /\ to_read \in Nat /\ read_pos \in Nat /\ write_pos \in Nat /\ Channels \in Nat
      /\ read_pos' \in Nat /\ read_pos <= read_pos' /\ read_pos' <= write_pos
      /\ read_pos' - to_read = read_pos /\ to_read <= read_pos'
  <2>1. /\ to_read \in Nat /\ read_pos \in Nat /\ write_pos \in Nat /\ Channels \in Nat
        /\ to_read <= write_pos - read_pos
    BY <1>0, <1>1, Constants DEF CallbackType, RingType, CallbackStages
  <2> QED BY <1>1, <2>1
<1>3. CallbackType'
  <2>1. DOMAIN out' = DOMAIN out
    BY <1>1
  <2> QED BY <1>0, <1>1, <2>1 DEF CallbackType
<1>4. /\ StatsType' /\ stats'.received = stats.received /\ stats'.lost = stats.lost
      /\ stats'.overruns = stats.overruns /\ stats'.malformed = stats.malformed
      /\ stats'.non_reac = stats.non_reac
  BY <1>0, <1>1, StatFields DEF StatsType
<1>5. /\ TypeOK' /\ MainStages' /\ EveryFrameCounted' /\ CaptureStages' /\ RingStages'
      /\ LossAccounted'
  BY <1>1, <1>2, <1>3, <1>4, CallbackKeeps
<1>6. CallbackStages'
  BY <1>1, <1>2 DEF CallbackStages
<1>7. DeliveredExact'
  <2>1. ASSUME NEW i \in DOMAIN out
        PROVE  /\ i \div Channels < to_read => out'[i] = StreamSample(read_pos + i \div Channels, i % Channels)
               /\ i \div Channels >= to_read => out'[i] = 0
    <3>0. /\ i \in Nat /\ i \div Channels \in Nat /\ to_read * Channels \in Nat
          /\ i \div Channels < to_read <=> i < to_read * Channels
      BY <1>2, BufferPlace
    <3>1. ASSUME i \div Channels < to_read
          PROVE  out'[i] = StreamSample(read_pos + i \div Channels, i % Channels)
      <4>1. out'[i] = out[i]
        <5>1. ~ (i >= to_read * Channels)
          BY <3>0, <3>1
        <5> QED BY <1>1, <5>1
      <4>2. out[i] = StreamSample(read_pos + i \div Channels, i % Channels)
        BY <1>1, <3>1 DEF DeliveredExact
      <4> QED BY <4>1, <4>2
    <3>2. ASSUME i \div Channels >= to_read PROVE out'[i] = 0
      <4>1. i >= to_read * Channels
        BY <1>2, <3>0, <3>2
      <4> QED BY <1>1, <4>1
    <3> QED BY <3>1, <3>2
  <2>2. DOMAIN out' = DOMAIN out
    BY <1>1
  <2> QED BY <1>1, <1>2, <2>1, <2>2 DEF DeliveredExact, StreamSample, capture
<1> QED BY <1>5, <1>6, <1>7

-----------------------------------------------------------------------------
(* The theorems. *)

LEMMA InitInductive ==
  ASSUME Init
  PROVE  Inductive
<1>0. /\ Capacity \in Nat /\ Channels \in Nat /\ FramesPerPacket \in Nat /\ SampleMod \div 2 \in Nat
      /\ SampleMod \div 2 >= 1 /\ Capacity * Channels \in Nat
  <2>1. SampleMod \div 2 >= 1
    BY ByteFacts
  <2> QED BY <2>1, Constants
<1>1. TypeOK
  <2>1. MainType /\ CaptureType /\ CallbackType
    <3>1. MainType
      <4>1. << >> \in Seq(Resources)
        OBVIOUS
      <4> QED BY <4>1, Zenon DEF Init, MainType
    <3>2. CaptureType
      <4>1. heard \in [device : Nat, repeats : Nat, foreign : Nat]
        BY DEF Init
      <4>2. written \in 0 .. FramesPerPacket
        BY <1>0 DEF Init
      <4> QED BY <4>1, <4>2 DEF Init, CaptureType
    <3>3. CallbackType
      BY DEF Init, CallbackType
    <3> QED BY <3>1, <3>2, <3>3
  <2>2. 0 \in - (SampleMod \div 2) .. SampleMod \div 2 - 1
    BY <1>0
  <2>3. RingType
    BY <1>0, <2>2 DEF Init, RingType
  <2>4. StatsType
    BY DEF Init, StatsType
  <2> QED BY <2>1, <2>3, <2>4, TypeParts
<1>2. MainStages
  BY DEF Init, MainStages
<1>3. EveryFrameCounted
  BY DEF Init, EveryFrameCounted
<1>4. CaptureStages
  BY <1>0 DEF Init, CaptureStages
<1>5. RingStages /\ CallbackStages /\ DeliveredExact /\ LossAccounted
  BY DEF Init, RingStages, CallbackStages, DeliveredExact, LossAccounted
<1> QED BY <1>1, <1>2, <1>3, <1>4, <1>5 DEF Inductive

LEMMA NextInductive ==
  ASSUME Inductive, [Next]_vars
  PROVE  Inductive'
<1>1. CASE MainStep \/ do_quit
  BY <1>1, MainStepInductive
<1>2. CASE CaptureStep
  BY <1>2, LoopStepInductive, RecvDeviceInductive, WriteFrameInductive, PublishPacketInductive
     DEF CaptureStep
<1>3. CASE CallbackStep
  BY <1>3, ProcessBeginInductive, ReadFrameInductive, ProcessEndInductive DEF CallbackStep
<1>4. CASE UNCHANGED vars
  <2> USE <1>4 DEF Inductive, vars, main, capture, callback, ring
  <2>1. TypeOK' /\ MainStages'
    BY SMTT(30) DEF TypeOK, MainStages
  <2>2. EveryFrameCounted' /\ CaptureStages'
    BY DEF EveryFrameCounted, CaptureStages
  <2>3. RingStages' /\ CallbackStages'
    BY DEF RingStages, RingSample, StreamSample, CallbackStages
  <2>4. DeliveredExact' /\ LossAccounted'
    BY DEF DeliveredExact, StreamSample, LossAccounted
  <2> QED BY <2>1, <2>2, <2>3, <2>4
<1> QED BY <1>1, <1>2, <1>3, <1>4 DEF Next

LEMMA AlwaysInductive == Spec => []Inductive
<1>1. Init => Inductive
  BY InitInductive
<1>2. Inductive /\ [Next]_vars => Inductive'
  BY NextInductive
<1> QED BY <1>1, <1>2, PTL DEF Spec

\* In every state of reacjack-pw, through the start, the run, the quit and the cleanup after
\* each failed step, no thread uses what is gone, all is given back at the end, and every
\* frame received is counted once (main, capture_thread_main, on_process).
THEOREM SourceSafety == Spec => []SourceInvariant
<1>1. Inductive => SourceInvariant
  BY StagesSuffice DEF Inductive, SourceInvariant
<1> QED BY <1>1, AlwaysInductive, PTL

\* What PipeWire plays is what the device put on the wire, sample by sample, whatever the
\* order of the capture thread's and the callback's steps (audio_ring_write, audio_ring_read,
\* interleave_packet, reac_decode_samples_to_channels).
THEOREM PlaysTheWire == Spec => []DeliveredExact
<1>1. Inductive => DeliveredExact
  BY DEF Inductive
<1> QED BY <1>1, AlwaysInductive, PTL

\* Received and lost packets add up, for every range of the counter and every number of
\* wraps (note_counter).
THEOREM LossesAddUp == Spec => []LossAccounted
<1>1. Inductive => LossAccounted
  BY DEF Inductive
<1> QED BY <1>1, AlwaysInductive, PTL

-----------------------------------------------------------------------------
(* The refinement of AudioFifo. *)

LEMMA PositionStep ==
  ASSUME Inductive, [Next]_vars
  PROVE  \/ UNCHANGED <<write_pos, read_pos>>
         \/ /\ read_pos' = read_pos
            /\ \E n \in Nat : write_pos' = write_pos + n /\ write_pos + n - read_pos <= Capacity
         \/ /\ write_pos' = write_pos
            /\ \E n \in Nat : read_pos' = read_pos + n /\ read_pos + n <= write_pos
<1>1. CASE PublishPacket
  <2>1. FramesPerPacket \in Nat
    BY Constants
  <2> QED BY <1>1, <2>1 DEF PublishPacket, Inductive, CaptureStages
<1>2. CASE ProcessEnd
  <2>1. to_read \in Nat /\ read_pos \in Nat /\ write_pos \in Nat /\ to_read <= write_pos - read_pos
    BY <1>2 DEF ProcessEnd, Inductive, TypeOK, CallbackStages
  <2>2. read_pos + to_read <= write_pos
    BY <2>1
  <2> QED BY <1>2, <2>1, <2>2 DEF ProcessEnd
<1>3. CASE ~ (PublishPacket \/ ProcessEnd)
  <2>1. CASE MainStep \/ do_quit
    BY <2>1 DEF MainStep, audio_ring_init, open_capture_socket, pw_main_loop_new,
       start_pipewire_stream, create_capture_thread, join_capture_thread, Release, do_quit, ring
  <2>2. CASE CaptureStep
    BY <1>3, <2>2 DEF CaptureStep, TestRunning, PollTimeout, PollOrRecvFails, RecvDevice,
       RecvForeign, WriteFrame, ring
  <2>3. CASE CallbackStep
    BY <1>3, <2>3 DEF CallbackStep, ProcessBegin, ReadFrame, ring
  <2>4. CASE UNCHANGED vars
    BY <2>4 DEF vars, ring
  <2> QED BY <2>1, <2>2, <2>3, <2>4 DEF Next
<1> QED BY <1>1, <1>2, <1>3

\* The frames the abstract queue is said to hold.
Content ==
  [q \in read_pos .. write_pos - 1 |->
     [ch \in 0 .. Channels - 1 |->
        IF samples[(q % Capacity) * Channels + ch] = StreamSample(q, ch) THEN q ELSE -1]]

\* They are those of the stream, whole and in order.
LEMMA ContentExact ==
  ASSUME RingStages
  PROVE  Content = [q \in read_pos .. write_pos - 1 |-> Fifo!Frame(q)]
<1>1. ASSUME NEW q \in read_pos .. write_pos - 1, NEW ch \in 0 .. Channels - 1
      PROVE  samples[(q % Capacity) * Channels + ch] = StreamSample(q, ch)
  BY DEF RingStages, RingSample
<1>2. ASSUME NEW q \in read_pos .. write_pos - 1
      PROVE  [ch \in 0 .. Channels - 1 |->
                IF samples[(q % Capacity) * Channels + ch] = StreamSample(q, ch) THEN q ELSE -1]
               = Fifo!Frame(q)
  BY <1>1, Zenon DEF Fifo!Frame
<1> QED BY <1>2, Zenon DEF Content

LEMMA ContentExactNext ==
  ASSUME RingStages'
  PROVE  Content' = [q \in read_pos' .. write_pos' - 1 |-> Fifo!Frame(q)]
<1>1. ASSUME NEW q \in read_pos' .. write_pos' - 1, NEW ch \in 0 .. Channels - 1
      PROVE  samples'[(q % Capacity) * Channels + ch] = StreamSample(q, ch)'
  BY DEF RingStages, RingSample
<1>2. ASSUME NEW q \in read_pos' .. write_pos' - 1
      PROVE  [ch \in 0 .. Channels - 1 |->
                IF samples'[(q % Capacity) * Channels + ch] = StreamSample(q, ch)' THEN q ELSE -1]
               = Fifo!Frame(q)
  BY <1>1, Zenon DEF Fifo!Frame
<1> QED BY <1>2, Zenon DEF Content

\* The ring of reacjack-pw implements the bounded queue of frames: a packet copied frame by
\* frame appears in it whole when its write position is published, the frames of a callback
\* leave it together, and nothing else shows (audio_ring_write and audio_ring_read).
THEOREM RingImplementsFifo == Spec => ImplementsFifo
<1>1. Init => Fifo!Init
  <2> SUFFICES ASSUME Init PROVE Fifo!Init
    OBVIOUS
  <2>1. read_pos = 0 /\ write_pos = 0
    BY DEF Init
  <2>2. 0 .. 0 - 1 = {}
    OBVIOUS
  <2>3. Content = [q \in {} |-> Fifo!Frame(q)]
    BY <2>1, <2>2, InitInductive, ContentExact DEF Inductive
  <2> QED BY <2>1, <2>3 DEF Fifo!Init, Content
<1>2. Inductive /\ Inductive' /\ [Next]_vars => [Fifo!Next]_(Fifo!fifoVars)
  <2> SUFFICES ASSUME Inductive, Inductive', [Next]_vars PROVE [Fifo!Next]_(Fifo!fifoVars)
    OBVIOUS
  <2>0. /\ write_pos \in Nat /\ read_pos \in Nat /\ Capacity \in Nat
        /\ read_pos <= write_pos /\ write_pos - read_pos <= Capacity
    BY Constants DEF Inductive, TypeOK
  <2>1. /\ Content = [q \in read_pos .. write_pos - 1 |-> Fifo!Frame(q)]
        /\ Content' = [q \in read_pos' .. write_pos' - 1 |-> Fifo!Frame(q)]
    BY ContentExact, ContentExactNext DEF Inductive
  <2>2. ASSUME UNCHANGED <<write_pos, read_pos>> PROVE [Fifo!Next]_(Fifo!fifoVars)
    <3>1. Content' = Content
      BY <2>1, <2>2
    <3> QED BY <2>2, <3>1 DEF Fifo!fifoVars, Content
  <2>3. ASSUME NEW n \in Nat, read_pos' = read_pos, write_pos' = write_pos + n,
               write_pos + n - read_pos <= Capacity
        PROVE  [Fifo!Next]_(Fifo!fifoVars)
    <3>1. CASE n = 0
      BY <2>0, <2>2, <2>3, <3>1
    <3>2. CASE n /= 0
      <4>1. n \in 1 .. Capacity
        BY <2>0, <2>3, <3>2
      <4>2. Content' = [q \in read_pos .. write_pos + n - 1 |->
                          IF q < write_pos THEN Content[q] ELSE Fifo!Frame(q)]
        BY <2>0, <2>1, <2>3
      <4>3. Fifo!Accept(n)
        BY <2>3, <4>2 DEF Fifo!Accept, Content
      <4> QED BY <4>1, <4>3 DEF Fifo!Next
    <3> QED BY <3>1, <3>2
  <2>4. ASSUME NEW n \in Nat, write_pos' = write_pos, read_pos' = read_pos + n,
               read_pos + n <= write_pos
        PROVE  [Fifo!Next]_(Fifo!fifoVars)
    <3>1. CASE n = 0
      BY <2>0, <2>2, <2>4, <3>1
    <3>2. CASE n /= 0
      <4>1. n \in 1 .. Capacity
        BY <2>0, <2>4, <3>2
      <4>2. Content' = [q \in read_pos + n .. write_pos - 1 |-> Content[q]]
        BY <2>0, <2>1, <2>4
      <4>3. Fifo!Remove(n)
        BY <2>4, <4>2 DEF Fifo!Remove, Content
      <4> QED BY <4>1, <4>3 DEF Fifo!Next
    <3> QED BY <3>1, <3>2
  <2> QED BY <2>2, <2>3, <2>4, PositionStep
<1> QED BY <1>1, <1>2, AlwaysInductive, PTL DEF Spec, ImplementsFifo, Fifo!Spec
=============================================================================
