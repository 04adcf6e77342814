------------------------------ MODULE RtpDump -------------------------------
(***************************************************************************)
(* The audio device of rtpdump (src/rtpdump/rtpdump.c over lib/wav.c): the *)
(* callbacks audio_cb_run calls, from ao_open to ao_release, and the file  *)
(* they write, byte by byte, for write() may take a part of what it is     *)
(* given.  The ring in front of it is PlaybackPath; here a packet is its   *)
(* number and its length, and a byte is where it comes from.  Offsets      *)
(* count from 0, as in the code.                                           *)
(***************************************************************************)
EXTENDS Integers, Sequences, Sums

CONSTANTS Hdr,          \* RTP_HDR_SIZE = QUEUE_RTP_HDR_OFFSET, 12
          SampleSize,   \* 3, bytes of a 24 bit sample
          Lengths,      \* the values of slot->len, header included
          WavHdr,       \* sizeof(struct wav_hdr), 44
          SizeLen,      \* 4, bytes of a size field in it
          ChunkAt,      \* WAV_HDR_CHUNK_SIZE_OFFSET, 4
          DataAt,       \* WAV_HDR_SUBCHUNK_DATA_SIZE_OFFSET, 40
          U32,          \* 2^32, the modulus of the sizes
          OldSizes,     \* bytes an output.wav of an earlier run can have
          Space,        \* bound: bytes the file can have
          MaxPackets    \* bound: packets dumped in a behaviour

FrameSize == 2 * SampleSize

ASSUME DumpAssumption ==
  /\ Hdr \in Nat /\ SampleSize \in Nat \ {0} /\ Lengths \subseteq Nat
  /\ {WavHdr, ChunkAt, DataAt, Space, MaxPackets} \subseteq Nat
  /\ SizeLen \in Nat \ {0} /\ U32 \in Nat \ {0} /\ OldSizes \subseteq Nat
  /\ ChunkAt + SizeLen <= DataAt /\ DataAt + SizeLen <= WavHdr /\ WavHdr <= Space

VARIABLES pc,                \* where audio_cb_run is
          len,               \* slot->len of each packet read, in order
          i,                 \* the loop variable of rtpdump_ao_read
          ret,               \* its return value
          received_frames,
          file,              \* the bytes of the file
          pos,               \* the file position, until ao_close
          began,             \* history: where the audio begins in the file
          took               \* history: bytes each write() of a frame took, 0 if it failed

vars == <<pc, len, i, ret, received_frames, file, pos, began, took>>

Blank == [kind |-> "none", n |-> 0, at |-> 0]   \* where the file has no byte
Old == [kind |-> "old", n |-> 0, at |-> 0]      \* a byte of an earlier run

(* The header as build_wav_hdr makes it, with sizes 0. *)
Header == [k \in 0 .. WavHdr - 1 |-> [kind |-> "header", n |-> 0, at |-> k]]

(* The bytes of a size field with value v. *)
Size(field, v) == [k \in 0 .. SizeLen - 1 |-> [kind |-> field, n |-> v, at |-> k]]

(* What byte k of tmp is in the frame: each sample is turned round. *)
Swapped(k) == (k \div SampleSize) * SampleSize + SampleSize - 1 - (k % SampleSize)

(* Byte k of the frame read at offset o of the payload of packet n. *)
Audio(n, o, k) == [kind |-> "audio", n |-> n, at |-> o + Swapped(k)]

-----------------------------------------------------------------------------
(* wav_open does not truncate the file. *)
Init ==
  /\ pc = "open"
  /\ len = <<>>
  /\ i = 0
  /\ ret = 0
  /\ received_frames = 0
  /\ \E n \in OldSizes : file = [k \in 0 .. Space - 1 |-> IF k < n THEN Old ELSE Blank]
  /\ pos = 0
  /\ began = 0
  /\ took = <<>>

Written_appends(f, o, data, count) ==   \* mutated form: O_APPEND
  LET end == CHOOSE e \in 0..Space : /\ \A k \in 0 .. e - 1 : f[k] # Blank
                                     /\ e < Space => f[e] = Blank
  IN  [k \in DOMAIN f |-> IF end <= k /\ k < end + count THEN data[k - end] ELSE f[k]]

(* File f after write() has taken count bytes of data at offset o. *)
Written(f, o, data, count) ==
  [k \in DOMAIN f |-> IF o <= k /\ k < o + count THEN data[k - o] ELSE f[k]]

(* A part of the header is taken for all of it; the audio then begins in   *)
(* the header's place.                                                     *)
rtpdump_ao_open ==
  /\ pc = "open"
  /\ \E count \in 0..WavHdr :
       /\ file' = Written(file, pos, Header, count)
       /\ pos' = pos + count
       /\ began' = pos + count
       /\ pc' = IF count < 1 THEN "ended" ELSE "loop"
  /\ UNCHANGED <<len, i, ret, received_frames, took>>

(* rtpdump_ao_read finds a packet. *)
ReadSlot ==
  /\ pc = "loop"
  /\ Len(len) < MaxPackets
  /\ \E l \in Lengths : len' = Append(len, l)
  /\ i' = Hdr
  /\ ret' = 0
  /\ pc' = "copy"
  /\ UNCHANGED <<received_frames, file, pos, began, took>>

(* tmp, filled from rd + i, where rd is queue_audio_data_read_ptr, past    *)
(* the header already.                                                     *)
Frame == [k \in 0 .. FrameSize - 1 |-> Audio(Len(len), i, k)]

(* write() takes count bytes of tmp, or fails: count is 0. *)
WriteTmp(count) ==
  /\ pos + count <= Space
  /\ file' = Written(file, pos, Frame, count)
  /\ pos' = pos + count
  /\ took' = Append(took, count)

(* Mutated form: the failed write() is not remembered. *)
WriteFrame_forgets ==
  /\ pc = "copy"
  /\ i < len[Len(len)]
  /\ \E count \in 0..FrameSize : WriteTmp(count)
  /\ received_frames' = (received_frames + 1) % U32
  /\ i' = i + FrameSize
  /\ UNCHANGED <<pc, len, ret, began>>

(* Mutated form: the end of the packet is missed by one. *)
WriteFrame_beyond ==
  /\ pc = "copy"
  /\ i <= len[Len(len)]
  /\ WriteTmp(FrameSize)
  /\ received_frames' = (received_frames + 1) % U32
  /\ i' = i + FrameSize
  /\ UNCHANGED <<pc, len, ret, began>>

(* Mutated form: the counter is not cut to 32 bits. *)
WriteFrame_wide ==
  /\ pc = "copy"
  /\ i < len[Len(len)]
  /\ WriteTmp(FrameSize)
  /\ received_frames' = received_frames + 1
  /\ i' = i + FrameSize
  /\ UNCHANGED <<pc, len, ret, began>>

(* One round of the copying loop.  A failed write() is reported; one that  *)
(* takes some bytes of the frame only counts as success.                   *)
WriteFrame ==
  /\ pc = "copy"
  /\ i < len[Len(len)]
  /\ \E count \in 0..FrameSize : /\ WriteTmp(count)
                                 /\ ret' = IF count < 1 THEN -1 ELSE ret
  /\ received_frames' = (received_frames + 1) % U32
  /\ i' = i + FrameSize
  /\ UNCHANGED <<pc, len, began>>

(* The slot is given back; audio_record_loop breaks if ret is negative,    *)
(* and audio_cb_run then returns without ao_close.                         *)
ReadDone ==
  /\ pc = "copy"
  /\ ~(i < len[Len(len)])
  /\ pc' = IF ret < 0 THEN "ended" ELSE "loop"
  /\ UNCHANGED <<len, i, ret, received_frames, file, pos, began, took>>

(* The chunk is all that follows its size. *)
chunk_size == (received_frames * FrameSize + WavHdr - (ChunkAt + SizeLen)) % U32

subchunk_data_size == (received_frames * FrameSize) % U32

(* audio_stop_flag.  update_wav_hdr writes the two sizes, the second one   *)
(* only if the first write() took something; rtpdump_ao_close reports no   *)
(* failure of it.                                                          *)
rtpdump_ao_close ==
  /\ pc = "loop"
  /\ \E c, d \in 0..SizeLen :
       /\ c < 1 => d = 0
       /\ LET f == Written(file, ChunkAt, Size("chunk_size", chunk_size), c)
          IN  file' = Written(f, DataAt, Size("data_size", subchunk_data_size), d)
  /\ pc' = "closed"
  /\ UNCHANGED <<len, i, ret, received_frames, pos, began, took>>

Next ==
  \/ rtpdump_ao_open
  \/ ReadSlot \/ WriteFrame \/ ReadDone
  \/ rtpdump_ao_close

Spec == Init /\ [][Next]_vars

-----------------------------------------------------------------------------
(* Frames in a payload, a last incomplete one included. *)
PayloadFrames(l) == IF l <= Hdr THEN 0 ELSE (l - Hdr + FrameSize - 1) \div FrameSize

(* As many for each packet read. *)
Frames == [n \in 1..Len(len) |-> PayloadFrames(len[n])]

(* Which of all frames is frame k of packet n. *)
Ordinal(n, k) == Sums(Frames)[n - 1] + k

(* What short and failed writes left out of each frame. *)
Missing == [j \in 1..Len(took) |-> FrameSize - took[j]]

(* Frame k of packet n lies behind what was taken of the frames before it, *)
(* read where the code reads it, as far as write() took it.                *)
Stored(n, k) ==
  LET j == Ordinal(n, k)
  IN  /\ took[j] > 0
      /\ \A b \in 0 .. took[j] - 1 :
           file[began + Sums(took)[j - 1] + b] = Audio(n, Hdr + (k - 1) * FrameSize, b)

Byte ==
  [kind : {"none", "old", "header", "chunk_size", "data_size", "audio"}, n : Nat, at : Nat]

TypeOK ==
  /\ pc \in {"open", "loop", "copy", "closed", "ended"}
  /\ len \in Seq(Lengths)
  /\ i \in Nat
  /\ ret \in {0, -1}
  /\ received_frames \in 0 .. U32 - 1
  /\ file \in [0 .. Space - 1 -> Byte]
  /\ pos \in 0..Space
  /\ began \in 0..WavHdr
  /\ took \in Seq(0..FrameSize)

(* received_frames counts what the packets held: when the copying of a     *)
(* packet is over, one frame for each frame of its payload, whether or not *)
(* it could be written - although the loop over the bytes starts at the    *)
(* size of the header and ends at the length of the packet.                *)
CountsPayload ==
  pc \in {"loop", "closed"} => received_frames = Total(Frames) % U32

(* The field of the header at offset o reads v, all bytes of it. *)
Reads(o, field, v) == \A k \in 0 .. SizeLen - 1 : file[o + k] = Size(field, v)[k]

(* What a size of the data that update_wav_hdr has written tells of the    *)
(* file: no write() of a frame failed, the size is that of the bytes they  *)
(* took and of those that short writes left out, modulo 2^32, and the size *)
(* of the chunk, if it is whole, agrees with it.  So it is right exactly   *)
(* up to short writes: without them, and with the header written whole,    *)
(* all bytes it counts are audio of this run, none of them left over from  *)
(* the file that was there before.                                         *)
HeaderIsTrue ==
  \A v \in 0 .. U32 - 1 : Reads(DataAt, "data_size", v) =>
    /\ \A j \in 1..Len(took) : took[j] > 0
    /\ v = (Total(took) + Total(Missing)) % U32
    /\ \A u \in 0 .. U32 - 1 : Reads(ChunkAt, "chunk_size", u) =>
         u = (v + WavHdr - (ChunkAt + SizeLen)) % U32
    /\ began = WavHdr /\ Total(Missing) = 0 =>
         \A k \in 0 .. v - 1 : file[WavHdr + k].kind = "audio"

(* Between packets the file holds, from where the audio begins, what was   *)
(* taken of each frame received and nothing else, packet after packet: no  *)
(* path of the copying loop and no earlier contents of the file leaves a   *)
(* frame out, doubles one or puts one elsewhere.  Updating the header does *)
(* not touch them, unless they begin in its place.  The offsets are the    *)
(* code's (see DumpIsStream).                                              *)
FramesInPlace ==
  pc = "loop" \/ (pc = "closed" /\ began = WavHdr) =>
    /\ Len(took) = Total(Frames)
    /\ \A n \in 1..Len(len) : \A k \in 1..Frames[n] : Stored(n, k)

(* What is dumped is the stream: when every write() took all bytes, the    *)
(* payloads of the packets, one after the other, sample by sample.  The    *)
(* code adds the size of the header twice, in rd and in i, so this fails:  *)
(* the first frames of a payload are skipped and as much from behind it is *)
(* dumped.                                                                 *)
DumpIsStream ==
  pc = "closed" /\ began = WavHdr /\ Total(Missing) = 0 =>
    \A n \in 1..Len(len) : \A k \in 1..Frames[n], b \in 0 .. FrameSize - 1 :
      file[WavHdr + (Ordinal(n, k) - 1) * FrameSize + b] = Audio(n, (k - 1) * FrameSize, b)
=============================================================================
