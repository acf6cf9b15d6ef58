----------------------------- MODULE ReacDecode -----------------------------
(***************************************************************************)
(* Parsing a captured Ethernet frame and decoding its samples              *)
(* (reac_decode.c).  A captured frame is a record: its size, whether its   *)
(* EtherType is REAC's, whether it ends in the end marker, the two counter *)
(* bytes and the bytes between header and end marker.  A sample is three   *)
(* bytes, scattered over the six bytes of a channel pair; the float the    *)
(* code makes of it is the 24-bit integer over 2^23, exact in a float, and *)
(* is represented by its numerator.                                        *)
(***************************************************************************)
EXTENDS Integers

CONSTANTS
  ByteMod,          \* values of a byte (2^8)
  FramesPerPacket,  \* REAC_FRAMES_PER_PACKET (12)
  MaxChannels       \* REAC_MAX_CHANNELS (40)

ASSUME ReacDecodeAssumption ==
  /\ ByteMod \in Nat \ {0} /\ ByteMod % 2 = 0
  /\ FramesPerPacket \in Nat \ {0} /\ MaxChannels \in Nat \ {0}

CounterMod == ByteMod * ByteMod
SampleMod == ByteMod * ByteMod * ByteMod
EndMarkerBytes == 2
BytesPerSample == 3

reac_packet_overhead == 14 + 36

reac_payload_bytes_for(channels, frames) == channels * frames * BytesPerSample

read_le16(bytes) == bytes[0] + ByteMod * bytes[1]

sign_extend_24(value) == IF value >= SampleMod \div 2 THEN value - SampleMod ELSE value

Supported(channels) == channels \in 1 .. MaxChannels /\ channels % 2 = 0

\* The answer of reac_parse_packet, and the channels it finds when it is "ok".
reac_parse_packet(frame) ==
  LET payload == frame.size - reac_packet_overhead - EndMarkerBytes
      quantum == reac_payload_bytes_for(1, FramesPerPacket)
      channels == payload \div quantum
      Answer(status) == [status |-> status, channels |-> 0, counter |-> 0]
  IN IF payload < 0 THEN Answer("short")
     ELSE IF ~ frame.reac THEN Answer("not_reac")
     ELSE IF ~ frame.marked THEN Answer("bad_end_marker")
     ELSE IF payload = 0 \/ payload % quantum /= 0 THEN Answer("bad_payload_size")
     ELSE IF ~ Supported(channels) THEN Answer("unsupported_channel_count")
     ELSE [status |-> "ok", channels |-> channels, counter |-> read_le16(frame.counter)]

\* Where the byte of weight w (0 low, 1 middle, 2 high) of the pair's first or
\* second sample is among the six bytes of the pair.
PairByte(second, w) == IF second THEN <<4, 5, 2>>[w + 1] ELSE <<3, 0, 1>>[w + 1]

\* outputs[ch][frame] of reac_decode_samples_to_channels.
Samples(payload, channels, frames) ==
  [ch \in 0 .. channels - 1 |-> [frame \in 0 .. frames - 1 |->
     LET in == 6 * (frame * (channels \div 2) + ch \div 2)
         byte(w) == payload[in + PairByte(ch % 2 = 1, w)]
     IN sign_extend_24(byte(0) + ByteMod * byte(1) + ByteMod * ByteMod * byte(2))]]

\* The status of reac_decode_samples_to_channels; Samples are written when it is "ok".
DecodeStatus(bytes, channels, frames) ==
  IF ~ Supported(channels) THEN "unsupported_channel_count"
  ELSE IF bytes /= reac_payload_bytes_for(channels, frames) THEN "bad_payload_size"
  ELSE "ok"

-----------------------------------------------------------------------------
(* The sending side, which is not in the program: what a REAC stage box puts   *)
(* on the wire, as the decoder's tests write it (tests/test_reac_decode.c).    *)

\* The six bytes of the pair of samples <<s1, s2>>, each taken modulo 2^24.
put_reac_sample_pair(s1, s2) ==
  LET u1 == s1 % SampleMod  u2 == s2 % SampleMod
      low(u) == u % ByteMod
      mid(u) == (u \div ByteMod) % ByteMod
      high(u) == u \div (ByteMod * ByteMod)
  IN [i \in 0 .. 5 |-> <<mid(u1), high(u1), high(u2), low(u1), low(u2), mid(u2)>>[i + 1]]

\* A REAC packet with the given counter, of which sample[frame][ch] are the samples.
make_packet(counter, channels, sample) ==
  [size |-> reac_packet_overhead + reac_payload_bytes_for(channels, FramesPerPacket)
              + EndMarkerBytes,
   reac |-> TRUE, marked |-> TRUE,
   counter |-> [i \in 0 .. 1 |-> IF i = 0 THEN counter % ByteMod ELSE counter \div ByteMod],
   payload |->
     [k \in 0 .. reac_payload_bytes_for(channels, FramesPerPacket) - 1 |->
        LET pair == k \div 6
            frame == pair \div (channels \div 2)
            ch == 2 * (pair % (channels \div 2))
        IN put_reac_sample_pair(sample[frame][ch], sample[frame][ch + 1])[k % 6]]]
=============================================================================
